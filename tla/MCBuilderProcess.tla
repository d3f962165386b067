-------------------------- MODULE MCBuilderProcess --------------------------
(* Two replicas of the builder, outside --dev, with a named lease lock and *)
(* the GC enabled: the deployment in which leader election matters.  One   *)
(* container restart per replica lets a replica come back after a crash    *)
(* or an exit and compete for the Lease again.                             *)
EXTENDS BuilderProcess

CONSTANTS p1, p2

MCProc == {p1, p2}
MCMaxRestarts == 1
=============================================================================
