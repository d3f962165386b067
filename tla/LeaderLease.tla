----------------------------- MODULE LeaderLease -----------------------------
(***************************************************************************)
(* What leader election promises the replicas of the builder: the Lease   *)
(* has at most one holder, a replica becomes active (runs the JobWatcher   *)
(* and the GC without being told to shut down) only while it holds the     *)
(* Lease, and the Lease is given up only by a holder that is no longer     *)
(* active.                                                                 *)
(***************************************************************************)
CONSTANTS Proc, NoHolder

VARIABLES
    holder,  \* the holder of the Lease
    active   \* the replicas running their workers, not shutting down

leaseVars == <<holder, active>>

Init ==
    /\ holder = NoHolder
    /\ active = {}

(* A replica takes the free Lease.                                         *)
Acquire(p) ==
    /\ holder = NoHolder
    /\ holder' = p
    /\ UNCHANGED active

(* The holder starts its workers.                                          *)
Activate(p) ==
    /\ holder = p
    /\ active' = active \cup {p}
    /\ UNCHANGED holder

(* A replica stops being active: it is told to shut down, or it exits.   *)
Deactivate(p) ==
    /\ active' = active \ {p}
    /\ UNCHANGED holder

(* The Lease becomes free once its holder is no longer active.            *)
Expire ==
    /\ holder # NoHolder
    /\ holder \notin active
    /\ holder' = NoHolder
    /\ UNCHANGED active

Next ==
    \/ \E p \in Proc : Acquire(p) \/ Activate(p) \/ Deactivate(p)
    \/ Expire

Spec == Init /\ [][Next]_leaseVars

=============================================================================
