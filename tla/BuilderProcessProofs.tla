------------------------ MODULE BuilderProcessProofs ------------------------
(***************************************************************************)
(* Proofs about BuilderProcess for every set of replicas and every bound  *)
(* on restarts: the type invariant, and that of two replicas running the  *)
(* JobWatcher or the GC at once, one is already shutting down.            *)
(*                                                                         *)
(* ActiveWorkerUnique is not inductive by itself.  It rests on four facts *)
(* about each replica, which together with TypeOK form IInv:             *)
(*   - a leading elector is the holder recorded in the Lease;            *)
(*   - an elector that stopped leading has queued a shutdown;            *)
(*   - the loop is in the Shutdown state only after a shutdown was queued; *)
(*   - an exited process has no elector;                                   *)
(*   - workers run only in the Wait and Shutdown states, and (outside      *)
(*     --dev with a lease lock) the loop reaches StartWorker and Wait only *)
(*     after close(elected).                                               *)
(***************************************************************************)
EXTENDS BuilderProcess, TLAPS

LeaderHoldsLease == \A p \in Proc : elector[p] = "leading" => holder = p
LossQueuesShutdown == \A p \in Proc : elector[p] = "stopped" => shuttingDown[p]
ShutdownQueued == \A p \in Proc : fsm[p] = "Shutdown" => shuttingDown[p]
WorkersParked == \A p \in Proc : workers[p] # {} => fsm[p] \in {"Wait", "Shutdown"}
ExitedClean == \A p \in Proc : fsm[p] = "Exited" => elector[p] = "none"
WorkersAfterElection ==
    ~SkipElection => \A p \in Proc : fsm[p] \in {"StartWorker", "Wait"} => Elected(p)

IInv ==
    /\ TypeOK
    /\ LeaderHoldsLease
    /\ LossQueuesShutdown
    /\ ShutdownQueued
    /\ WorkersParked
    /\ WorkersAfterElection
    /\ ExitedClean

-----------------------------------------------------------------------------

LEMMA InitIInv == Init => IInv
  BY MaxRestartsAssumption
  DEF Init, IInv, TypeOK, FsmStates, ApiStates, ElectorStates, Worker,
      LeaderHoldsLease, LossQueuesShutdown, ShutdownQueued, WorkersParked,
      WorkersAfterElection, ExitedClean, Elected, SkipElection

(* A process exit keeps IInv: it clears the process's goroutines.          *)
LEMMA ExitIInv ==
  ASSUME IInv, NEW p \in Proc, Exit(p)
  PROVE  IInv'
  <1> USE DEF Exit, IInv
  <1>1. TypeOK'
    BY DEF TypeOK, FsmStates, ApiStates, ElectorStates
  <1>2. LeaderHoldsLease'
    BY DEF TypeOK, LeaderHoldsLease
  <1>3. LossQueuesShutdown'
    BY DEF TypeOK, LossQueuesShutdown
  <1>4. ShutdownQueued'
    BY DEF TypeOK, ShutdownQueued
  <1>5. WorkersParked'
    BY DEF TypeOK, WorkersParked
  <1>6. WorkersAfterElection' /\ ExitedClean'
    BY DEF TypeOK, WorkersAfterElection, ExitedClean, Elected, SkipElection
  <1>7. QED
    BY <1>1, <1>2, <1>3, <1>4, <1>5, <1>6

(* A state function returning fsm.Next(s) keeps IInv when s is neither     *)
(* StartWorker nor Wait, or when the process has been elected.             *)
LEMMA AdvanceIInv ==
  ASSUME IInv, NEW p \in Proc, NEW s \in FsmStates, Advance(p, s),
         s \notin {"Shutdown", "Exited"}, workers[p] = {},
         s \in {"StartWorker", "Wait"} => (SkipElection \/ Elected(p))
  PROVE  IInv'
  <1> USE DEF IInv
  <1>1. PICK n \in LoopNext(p, s) : fsm' = [fsm EXCEPT ![p] = n]
    BY DEF Advance
  <1>2. n = s \/ (n = "Shutdown" /\ shuttingDown[p])
    BY <1>1 DEF LoopNext
  <1>3. UNCHANGED <<shuttingDown, api, elector, workers, holder, restarts>>
    BY DEF Advance
  <1>4. TypeOK'
    BY <1>1, <1>2, <1>3 DEF TypeOK, FsmStates
  <1>5. LeaderHoldsLease' /\ LossQueuesShutdown'
    BY <1>3 DEF LeaderHoldsLease, LossQueuesShutdown
  <1>6. ShutdownQueued'
    BY <1>1, <1>2, <1>3 DEF TypeOK, ShutdownQueued
  <1>7. WorkersParked'
    BY <1>1, <1>3 DEF TypeOK, WorkersParked
  <1>8. WorkersAfterElection' /\ ExitedClean'
    BY <1>1, <1>2, <1>3 DEF TypeOK, WorkersAfterElection, ExitedClean, Elected
  <1>9. QED
    BY <1>4, <1>5, <1>6, <1>7, <1>8

LEMMA NextIInv == IInv /\ [Next]_vars => IInv'
  <1> SUFFICES ASSUME IInv, [Next]_vars PROVE IInv'
    OBVIOUS
  <1> USE DEF IInv
  <1>1. ASSUME NEW p \in Proc, init(p) PROVE IInv'
    BY <1>1, ExitIInv, AdvanceIInv DEF init, FsmStates, WorkersParked
  <1>2. ASSUME NEW p \in Proc, setup(p) PROVE IInv'
    BY <1>2, ExitIInv, AdvanceIInv DEF setup, FsmStates, WorkersParked
  <1>3. ASSUME NEW p \in Proc, startApiServer(p) PROVE IInv'
    <2>1. CASE Exit(p)
      BY <2>1, ExitIInv
    <2>2. CASE ~Exit(p)
      BY <1>3, <2>2
      DEF startApiServer, LoopNext, TypeOK, FsmStates, ApiStates,
          LeaderHoldsLease, LossQueuesShutdown, ShutdownQueued,
          WorkersParked, WorkersAfterElection, ExitedClean, Elected, SkipElection
    <2>3. QED
      BY <2>1, <2>2
  <1>4. ASSUME NEW p \in Proc, leaderElectionSkip(p) PROVE IInv'
    BY <1>4, AdvanceIInv DEF leaderElectionSkip, FsmStates, WorkersParked
  <1>5. ASSUME NEW p \in Proc, leaderElectionRun(p) PROVE IInv'
    <2>1. CASE Exit(p)
      BY <2>1, ExitIInv
    <2>2. CASE ~Exit(p)
      BY <1>5, <2>2
      DEF leaderElectionRun, Elected, TypeOK, ElectorStates,
          LeaderHoldsLease, LossQueuesShutdown, ShutdownQueued,
          WorkersParked, WorkersAfterElection, ExitedClean, Elected, SkipElection
    <2>3. QED
      BY <2>1, <2>2
  <1>6. ASSUME NEW p \in Proc, leaderElectionElected(p) PROVE IInv'
    BY <1>6, AdvanceIInv DEF leaderElectionElected, FsmStates, WorkersParked
  <1>7. ASSUME NEW p \in Proc, startWorker(p) PROVE IInv'
    BY <1>7, FlagsAssumption
    DEF startWorker, WorkerSet, Worker, TypeOK, FsmStates,
        LeaderHoldsLease, LossQueuesShutdown, ShutdownQueued, WorkersParked,
        WorkersAfterElection, ExitedClean, Elected, SkipElection
  <1>8. ASSUME NEW p \in Proc, waitShutdown(p) PROVE IInv'
    BY <1>8
    DEF waitShutdown, TypeOK, FsmStates, LeaderHoldsLease,
        LossQueuesShutdown, ShutdownQueued, WorkersParked,
        WorkersAfterElection, ExitedClean, Elected, SkipElection
  <1>9. ASSUME NEW p \in Proc, shutdownApi(p) \/ apiDrained(p) PROVE IInv'
    BY <1>9
    DEF shutdownApi, apiDrained, TypeOK, ApiStates, LeaderHoldsLease,
        LossQueuesShutdown, ShutdownQueued, WorkersParked,
        WorkersAfterElection, ExitedClean, Elected, SkipElection
  <1>10. ASSUME NEW p \in Proc, shutdownFinish(p) \/ Crash(p) PROVE IInv'
    BY <1>10, ExitIInv DEF shutdownFinish, Crash
  <1>11. ASSUME NEW p \in Proc, OnStartedLeading(p) PROVE IInv'
    <2> USE <1>11 DEF OnStartedLeading
    <2>1. TypeOK'
      BY DEF TypeOK, ElectorStates
    <2>2. LeaderHoldsLease'
      BY NoHolderAssumption DEF TypeOK, LeaderHoldsLease
    <2>3. QED
      BY <2>1, <2>2
      DEF LossQueuesShutdown, ShutdownQueued, WorkersParked,
          WorkersAfterElection, ExitedClean, Elected, TypeOK
  <1>12. ASSUME NEW p \in Proc, OnStoppedLeading(p) PROVE IInv'
    BY <1>12
    DEF OnStoppedLeading, Elected, TypeOK, ElectorStates, LeaderHoldsLease,
        LossQueuesShutdown, ShutdownQueued, WorkersParked,
        WorkersAfterElection, ExitedClean, Elected, SkipElection
  <1>13. ASSUME NEW p \in Proc, Signal(p) PROVE IInv'
    BY <1>13
    DEF Signal, TypeOK, LeaderHoldsLease, LossQueuesShutdown,
        ShutdownQueued, WorkersParked, WorkersAfterElection, ExitedClean, Elected, SkipElection
  <1>14. ASSUME NEW p \in Proc, Restart(p) PROVE IInv'
    <2> USE <1>14 DEF Restart
    <2>1. restarts[p] + 1 \in 0..MaxRestarts
      BY MaxRestartsAssumption DEF TypeOK
    <2>2. TypeOK'
      BY <2>1 DEF TypeOK, FsmStates
    <2>3. LeaderHoldsLease' /\ LossQueuesShutdown'
      BY DEF TypeOK, LeaderHoldsLease, LossQueuesShutdown, ExitedClean
    <2>4. ShutdownQueued' /\ WorkersParked'
      BY DEF TypeOK, ShutdownQueued, WorkersParked
    <2>5. WorkersAfterElection' /\ ExitedClean'
      BY DEF TypeOK, WorkersAfterElection, ExitedClean, Elected
    <2>6. QED
      BY <2>2, <2>3, <2>4, <2>5
  <1>15. CASE LeaseExpire
    BY <1>15
    DEF LeaseExpire, TypeOK, LeaderHoldsLease, LossQueuesShutdown,
        ShutdownQueued, WorkersParked, WorkersAfterElection, ExitedClean, Elected, SkipElection
  <1>16. CASE UNCHANGED vars
    BY <1>16
    DEF vars, TypeOK, Elected, LeaderHoldsLease, LossQueuesShutdown,
        ShutdownQueued, WorkersParked, WorkersAfterElection, ExitedClean, Elected, SkipElection
  <1>17. QED
    BY <1>1, <1>2, <1>3, <1>4, <1>5, <1>6, <1>7, <1>8, <1>9, <1>10, <1>11,
       <1>12, <1>13, <1>14, <1>15, <1>16
    DEF Next, ProcessStep

LEMMA IInvInvariant == Spec => []IInv
  BY InitIInv, NextIInv, PTL DEF Spec

-----------------------------------------------------------------------------

(* Every reachable state of the builder replicas is well typed.            *)
THEOREM TypeCorrect == Spec => []TypeOK
  BY IInvInvariant, PTL DEF IInv

(* IInv implies ActiveWorkerUnique: two replicas with workers that are    *)
(* both not shutting down are both parked in Wait, hence both elected and *)
(* still leading, hence both the Lease holder.                             *)
LEMMA IInvActiveWorkerUnique == IInv => ActiveWorkerUnique
  <1> SUFFICES ASSUME IInv, ~SkipElection,
                      NEW p \in Proc, NEW q \in Proc, p # q,
                      workers[p] # {}, workers[q] # {},
                      ~shuttingDown[p], ~shuttingDown[q]
               PROVE  FALSE
    BY DEF ActiveWorkerUnique
  <1>1. fsm[p] = "Wait" /\ fsm[q] = "Wait"
    BY DEF IInv, WorkersParked, ShutdownQueued
  <1>2. elector[p] = "leading" /\ elector[q] = "leading"
    BY <1>1 DEF IInv, WorkersAfterElection, ExitedClean, Elected, LossQueuesShutdown
  <1>3. QED
    BY <1>2 DEF IInv, LeaderHoldsLease

(* The JobWatcher and the GC of two replicas overlap only while one of    *)
(* them is shutting down, for every number of replicas and restarts.      *)
THEOREM WorkersOfOneLeader == Spec => []ActiveWorkerUnique
  BY IInvInvariant, IInvActiveWorkerUnique, PTL

-----------------------------------------------------------------------------
(* The replicas implement the lease LeaderLease promises.                  *)
(*                                                                         *)
(* Active is the set of replicas with workers that are not shutting down.  *)
(* A step of the replicas changes the lease's view only in four ways:      *)
(* OnStartedLeading takes the free Lease (Acquire); startWorker of a       *)
(* replica not shutting down makes it active, and it holds the Lease       *)
(* since, by WorkersAfterElection, it was elected and, not shutting down,  *)
(* still leads (Activate); Exit, Signal and OnStoppedLeading take a        *)
(* replica out of Active (Deactivate); LeaseExpire frees the Lease of a    *)
(* holder that does not lead, and such a holder is not active, by         *)
(* WorkersParked, ShutdownQueued, WorkersAfterElection and                 *)
(* LossQueuesShutdown (Expire).  Every other step leaves workers,         *)
(* shuttingDown and holder as they were.  IInv is the whole invariant the  *)
(* mapping needs; it holds only where the election runs.                   *)

(* A step that leaves the workers, the shutdown flags and the Lease alone *)
(* is a stutter of the lease.                                              *)
LEMMA LeaseStutter ==
  ASSUME UNCHANGED <<workers, shuttingDown, holder>>
  PROVE  UNCHANGED Lease!leaseVars
  <1>1. Active' = Active
    BY DEF Active
  <1>2. QED
    BY <1>1 DEF Lease!leaseVars

(* A step that changes the workers or the flag of p alone, so that p is   *)
(* not active after it, takes p out of Active.                             *)
LEMMA LeaseDeactivate ==
  ASSUME IInv, NEW p \in Proc,
         workers' = [workers EXCEPT ![p] = {}] \/ UNCHANGED workers,
         shuttingDown' = [shuttingDown EXCEPT ![p] = TRUE] \/ UNCHANGED shuttingDown,
         workers'[p] = {} \/ shuttingDown'[p],
         UNCHANGED holder
  PROVE  Lease!Deactivate(p)
  <1>1. \A q \in Proc \ {p} : workers'[q] = workers[q] /\ shuttingDown'[q] = shuttingDown[q]
    BY DEF IInv, TypeOK
  <1>2. Active' = Active \ {p}
    BY <1>1 DEF Active
  <1>3. QED
    BY <1>2 DEF Lease!Deactivate

(* A holder that no longer leads runs no workers, or is shutting down.     *)
LEMMA NotLeadingInactive ==
  ASSUME IInv, ~SkipElection, NEW h \in Proc, elector[h] # "leading"
  PROVE  h \notin Active
  <1> SUFFICES ASSUME workers[h] # {}, ~shuttingDown[h] PROVE FALSE
    BY DEF Active
  <1>1. fsm[h] = "Wait"
    BY DEF IInv, WorkersParked, ShutdownQueued
  <1>2. elector[h] = "stopped"
    BY <1>1 DEF IInv, WorkersAfterElection, Elected
  <1>3. QED
    BY <1>2 DEF IInv, LossQueuesShutdown

LEMMA StepLease ==
  ASSUME ~SkipElection
  PROVE  IInv /\ [Next]_vars => [Lease!Next]_Lease!leaseVars
  <1> SUFFICES ASSUME IInv, [Next]_vars PROVE [Lease!Next]_Lease!leaseVars
    OBVIOUS
  <1>1. ASSUME NEW p \in Proc, Exit(p) PROVE [Lease!Next]_Lease!leaseVars
    BY <1>1, LeaseDeactivate DEF Exit, IInv, TypeOK, Lease!Next
  <1>2. ASSUME NEW p \in Proc, NEW s, Advance(p, s) PROVE [Lease!Next]_Lease!leaseVars
    BY <1>2, LeaseStutter DEF Advance
  <1>3. ASSUME NEW p \in Proc, init(p) \/ setup(p) \/ leaderElectionSkip(p)
                               \/ leaderElectionElected(p)
        PROVE  [Lease!Next]_Lease!leaseVars
    BY <1>3, <1>1, <1>2 DEF init, setup, leaderElectionSkip, leaderElectionElected
  <1>4. ASSUME NEW p \in Proc, startApiServer(p) \/ leaderElectionRun(p)
        PROVE  [Lease!Next]_Lease!leaseVars
    BY <1>4, <1>1, LeaseStutter DEF startApiServer, leaderElectionRun
  <1>5. ASSUME NEW p \in Proc, startWorker(p) PROVE [Lease!Next]_Lease!leaseVars
    <2> USE <1>5 DEF startWorker
    <2>1. CASE shuttingDown[p]
      <3>1. Active' = Active
        BY <2>1 DEF Active, IInv, TypeOK
      <3>2. QED
        BY <3>1 DEF Lease!leaseVars
    <2>2. CASE ~shuttingDown[p]
      <3>1. elector[p] = "leading"
        BY <2>2 DEF IInv, WorkersAfterElection, LossQueuesShutdown, Elected
      <3>2. holder = p
        BY <3>1 DEF IInv, LeaderHoldsLease
      <3>3. Active' = Active \cup {p}
        <4>1. p \in Active'
          BY <2>2, FlagsAssumption DEF IInv, TypeOK, WorkerSet, SkipElection, Active
        <4>2. \A q \in Proc \ {p} : workers'[q] = workers[q] /\ shuttingDown'[q] = shuttingDown[q]
          BY DEF IInv, TypeOK
        <4>3. QED
          BY <4>1, <4>2 DEF Active
      <3>4. QED
        BY <3>2, <3>3 DEF Lease!Next, Lease!Activate
    <2>3. QED
      BY <2>1, <2>2
  <1>6. ASSUME NEW p \in Proc, waitShutdown(p) \/ shutdownApi(p) \/ apiDrained(p)
        PROVE  [Lease!Next]_Lease!leaseVars
    BY <1>6, LeaseStutter DEF waitShutdown, shutdownApi, apiDrained
  <1>7. ASSUME NEW p \in Proc, shutdownFinish(p) \/ Crash(p)
        PROVE  [Lease!Next]_Lease!leaseVars
    BY <1>7, <1>1 DEF shutdownFinish, Crash
  <1>8. ASSUME NEW p \in Proc, OnStartedLeading(p) PROVE [Lease!Next]_Lease!leaseVars
    <2>1. Active' = Active
      BY <1>8 DEF OnStartedLeading, Active
    <2>2. QED
      BY <1>8, <2>1 DEF OnStartedLeading, Lease!Next, Lease!Acquire
  <1>9. ASSUME NEW p \in Proc, OnStoppedLeading(p) \/ Signal(p)
        PROVE  [Lease!Next]_Lease!leaseVars
    <2>1. Lease!Deactivate(p)
      BY <1>9, LeaseDeactivate DEF OnStoppedLeading, Signal, IInv, TypeOK
    <2>2. QED
      BY <2>1 DEF Lease!Next
  <1>10. ASSUME NEW p \in Proc, Restart(p) PROVE [Lease!Next]_Lease!leaseVars
    <2> USE <1>10 DEF Restart
    <2>1. workers[p] = {}
      BY DEF IInv, WorkersParked
    <2>2. Active' = Active
      BY <2>1 DEF Active, IInv, TypeOK
    <2>3. QED
      BY <2>2 DEF Lease!leaseVars
  <1>11. CASE LeaseExpire
    <2>1. holder \in Proc
      BY <1>11 DEF LeaseExpire, IInv, TypeOK
    <2>2. holder \notin Active
      BY <1>11, <2>1, NotLeadingInactive DEF LeaseExpire
    <2>3. Active' = Active
      BY <1>11 DEF LeaseExpire, Active
    <2>4. QED
      BY <1>11, <2>2, <2>3 DEF LeaseExpire, Lease!Next, Lease!Expire
  <1>12. CASE UNCHANGED vars
    BY <1>12, LeaseStutter DEF vars
  <1>13. QED
    BY <1>3, <1>4, <1>5, <1>6, <1>7, <1>8, <1>9, <1>10, <1>11, <1>12
    DEF Next, ProcessStep

(* Where leader election runs (outside --dev, with a lease lock named),   *)
(* the replicas, however their FSM loops, electors, signals, crashes and  *)
(* restarts interleave, behave as LeaderLease: a replica runs its workers *)
(* without shutting down only while holding the Lease, and the Lease is   *)
(* freed only when its holder stopped being active.                       *)
THEOREM ReplicasRefineLeaderLease ==
  ASSUME ~SkipElection
  PROVE  Spec => RefinesLeaderLease
  <1>1. Init => Lease!Init
    BY DEF Init, Lease!Init, Active
  <1>2. QED
    BY <1>1, IInvInvariant, StepLease, PTL DEF Spec, RefinesLeaderLease, Lease!Spec

=============================================================================
