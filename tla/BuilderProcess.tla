--------------------------- MODULE BuilderProcess ---------------------------
(***************************************************************************)
(* The builder process of go/build/cmd/builder/main.go, run as several     *)
(* replicas that compete for one Lease.                                    *)
(*                                                                         *)
(* Each replica is a process whose lifecycle is driven by fsm.FSM through  *)
(* the states init, setup, startApiServer, leaderElection, startWorker and *)
(* shutdown.  The API server is started before leader election, so every  *)
(* replica serves the API; only the elected one starts the JobWatcher and  *)
(* the GC.  The leader elector (client-go) runs in a goroutine of its own  *)
(* and calls back OnStartedLeading (close(elected)) and OnStoppedLeading   *)
(* (p.FSM.Shutdown()).                                                     *)
(*                                                                         *)
(* The fsm package is not part of the sources at hand; its loop is         *)
(* modelled from the specification: one state function at a time, and a  *)
(* shutdown request queued by FSM.Shutdown is taken by the loop the next   *)
(* time it reads its channel (when a state function returns, or while the  *)
(* process parks in fsm.Wait), racing the state the function returned.     *)
(*                                                                         *)
(* The Lease itself is client-go's: a holder that stops renewing loses it  *)
(* only after its own elector has given up (RenewDeadline 15s is shorter   *)
(* than LeaseDuration 30s), which the model states as an order of steps.  *)
(***************************************************************************)
EXTENDS Naturals, FiniteSets

CONSTANTS
    Proc,            \* the replicas of the builder
    NoHolder,        \* the Lease is held by nobody
    Dev,             \* --dev: no kube client, hence no informers and no election
    LeaseConfigured, \* --lease-lock-name and --lease-lock-namespace are both set
    WithGC,          \* --with-gc
    MaxRestarts      \* how many times a replica's container is restarted

ASSUME ProcAssumption == IsFiniteSet(Proc) /\ Proc # {}
ASSUME NoHolderAssumption == NoHolder \notin Proc
ASSUME FlagsAssumption == {Dev, LeaseConfigured, WithGC} \subseteq BOOLEAN
ASSUME MaxRestartsAssumption == MaxRestarts \in Nat

VARIABLES
    fsm,          \* fsm[p]: the state the FSM loop of p is in
    shuttingDown, \* fsm.FSM.shuttingDown: Shutdown() has been called
    api,          \* the API server goroutine of p
    elector,      \* the client-go leader elector goroutine of p
    workers,      \* the goroutines started by startWorker
    holder,       \* the holder recorded in the Lease object
    restarts      \* container restarts of p so far

vars == <<fsm, shuttingDown, api, elector, workers, holder, restarts>>

FsmStates == {"Init", "Setup", "StartApiServer", "LeaderElection",
              "StartWorker", "Wait", "Shutdown", "Exited"}
ApiStates == {"none", "serving", "draining", "closed"}
ElectorStates == {"none", "acquiring", "leading", "stopped"}
Worker == {"JobWatcher", "GC"}

(* leaderElection returns at once when there is no kube client (--dev) or *)
(* the lease lock is not named.                                            *)
SkipElection == Dev \/ ~LeaseConfigured

(* The goroutines startWorker starts: the JobWatcher needs the informer   *)
(* factory, which init creates only outside --dev.                         *)
WorkerSet == (IF Dev THEN {} ELSE {"JobWatcher"}) \cup (IF WithGC THEN {"GC"} ELSE {})

(* close(elected) has run: the elector acquired the Lease at some point.   *)
Elected(p) == elector[p] \in {"leading", "stopped"}

(* The states the FSM loop may dispatch after a state function returned s *)
(* while a shutdown request may be queued on the same channel.             *)
LoopNext(p, s) == IF shuttingDown[p] THEN {s, "Shutdown"} ELSE {s}

TypeOK ==
    /\ fsm \in [Proc -> FsmStates]
    /\ shuttingDown \in [Proc -> BOOLEAN]
    /\ api \in [Proc -> ApiStates]
    /\ elector \in [Proc -> ElectorStates]
    /\ workers \in [Proc -> SUBSET Worker]
    /\ holder \in Proc \cup {NoHolder}
    /\ restarts \in [Proc -> 0..MaxRestarts]

Init ==
    /\ fsm = [p \in Proc |-> "Init"]
    /\ shuttingDown = [p \in Proc |-> FALSE]
    /\ api = [p \in Proc |-> "none"]
    /\ elector = [p \in Proc |-> "none"]
    /\ workers = [p \in Proc |-> {}]
    /\ holder = NoHolder
    /\ restarts = [p \in Proc |-> 0]

(* The process ends (FSM.Loop returned, or the container was killed): all *)
(* its goroutines end with it, and the Lease is not released, since       *)
(* ReleaseOnCancel needs p.ctx cancelled and nothing cancels it.           *)
Exit(p) ==
    /\ fsm' = [fsm EXCEPT ![p] = "Exited"]
    /\ api' = [api EXCEPT ![p] = "none"]
    /\ elector' = [elector EXCEPT ![p] = "none"]
    /\ workers' = [workers EXCEPT ![p] = {}]
    /\ UNCHANGED <<shuttingDown, holder, restarts>>

(* A state function returned fsm.Next(s): the loop moves on to s or to a  *)
(* queued shutdown.                                                        *)
Advance(p, s) ==
    /\ \E n \in LoopNext(p, s) : fsm' = [fsm EXCEPT ![p] = n]
    /\ UNCHANGED <<shuttingDown, api, elector, workers, holder, restarts>>

-----------------------------------------------------------------------------
(* The state functions of process.                                         *)

(* init: build the GitHub client, the kube clients (outside --dev), open  *)
(* the database and the Vault client; any error is fsm.Error.             *)
init(p) ==
    /\ fsm[p] = "Init"
    /\ \/ Advance(p, "Setup")
       \/ Exit(p)

(* setup: the MinIO options and the BazelBuilder; NewBazelBuilder may fail. *)
setup(p) ==
    /\ fsm[p] = "Setup"
    /\ \/ Advance(p, "StartApiServer")
       \/ Exit(p)

(* startApiServer: NewApi, then ListenAndServe in a goroutine.             *)
startApiServer(p) ==
    /\ fsm[p] = "StartApiServer"
    /\ \/ /\ api' = [api EXCEPT ![p] = "serving"]
          /\ \E n \in LoopNext(p, "LeaderElection") : fsm' = [fsm EXCEPT ![p] = n]
          /\ UNCHANGED <<shuttingDown, elector, workers, holder, restarts>>
       \/ Exit(p)

(* leaderElection without a kube client or a lease lock name.              *)
leaderElectionSkip(p) ==
    /\ fsm[p] = "LeaderElection"
    /\ SkipElection
    /\ Advance(p, "StartWorker")

(* leaderElection: NewLeaderElector, which may fail, then go e.Run(p.ctx). *)
leaderElectionRun(p) ==
    /\ fsm[p] = "LeaderElection"
    /\ ~SkipElection
    /\ elector[p] = "none"
    /\ \/ /\ elector' = [elector EXCEPT ![p] = "acquiring"]
          /\ UNCHANGED <<fsm, shuttingDown, api, workers, holder, restarts>>
       \/ Exit(p)

(* Plausible bug: the select on elected is left out.                       *)
leaderElectionNoWait(p) ==
    /\ fsm[p] = "LeaderElection"
    /\ elector[p] # "none"
    /\ Advance(p, "StartWorker")

(* leaderElection: the select returns once elected is closed.  Its other  *)
(* case, <-p.ctx.Done(), can never fire: p.cancel is never called.        *)
leaderElectionElected(p) ==
    /\ fsm[p] = "LeaderElection"
    /\ Elected(p)
    /\ Advance(p, "StartWorker")

(* startWorker: start the informers, the JobWatcher and the GC, then      *)
(* fsm.Wait().                                                             *)
startWorker(p) ==
    /\ fsm[p] = "StartWorker"
    /\ workers' = [workers EXCEPT ![p] = WorkerSet]
    /\ fsm' = [fsm EXCEPT ![p] = "Wait"]
    /\ UNCHANGED <<shuttingDown, api, elector, holder, restarts>>

(* The loop parked by fsm.Wait() receives the queued shutdown.             *)
waitShutdown(p) ==
    /\ fsm[p] = "Wait"
    /\ shuttingDown[p]
    /\ fsm' = [fsm EXCEPT ![p] = "Shutdown"]
    /\ UNCHANGED <<shuttingDown, api, elector, workers, holder, restarts>>

(* shutdown: apiServer.Shutdown(context.Background()) stops listening and  *)
(* blocks until the in-flight handlers are done.                           *)
shutdownApi(p) ==
    /\ fsm[p] = "Shutdown"
    /\ api[p] = "serving"
    /\ api' = [api EXCEPT ![p] = "draining"]
    /\ UNCHANGED <<fsm, shuttingDown, elector, workers, holder, restarts>>

(* The last in-flight API handler of p returns.                            *)
apiDrained(p) ==
    /\ api[p] = "draining"
    /\ api' = [api EXCEPT ![p] = "closed"]
    /\ UNCHANGED <<fsm, shuttingDown, elector, workers, holder, restarts>>

(* Plausible bug: the p.apiServer != nil check is left out, so a process *)
(* shut down before its API server started never finishes.                *)
shutdownFinishNilApi(p) ==
    /\ fsm[p] = "Shutdown"
    /\ api[p] = "closed"
    /\ Exit(p)

(* shutdown returns fsm.Finish(): Loop returns nil and the process exits. *)
shutdownFinish(p) ==
    /\ fsm[p] = "Shutdown"
    /\ api[p] \in {"none", "closed"}
    /\ Exit(p)

-----------------------------------------------------------------------------
(* The leader elector, the signal handler and the environment.             *)

(* The elector takes the free Lease and runs OnStartedLeading:            *)
(* close(elected).                                                         *)
OnStartedLeading(p) ==
    /\ elector[p] = "acquiring"
    /\ holder = NoHolder
    /\ holder' = p
    /\ elector' = [elector EXCEPT ![p] = "leading"]
    /\ UNCHANGED <<fsm, shuttingDown, api, workers, restarts>>

(* Plausible bug: the callback only logs the loss of leadership.           *)
OnStoppedLeadingSilent(p) ==
    /\ elector[p] = "leading"
    /\ elector' = [elector EXCEPT ![p] = "stopped"]
    /\ UNCHANGED <<fsm, shuttingDown, api, workers, holder, restarts>>

(* Renewal fails past RenewDeadline; e.Run returns and OnStoppedLeading   *)
(* calls p.FSM.Shutdown(), which is a no-op when already shutting down.   *)
OnStoppedLeading(p) ==
    /\ elector[p] = "leading"
    /\ elector' = [elector EXCEPT ![p] = "stopped"]
    /\ shuttingDown' = [shuttingDown EXCEPT ![p] = TRUE]
    /\ UNCHANGED <<fsm, api, workers, holder, restarts>>

(* Plausible bug: RenewDeadline not below LeaseDuration, so the Lease can *)
(* expire while its holder's elector still counts itself the leader.     *)
LeaseExpireWhileLeading ==
    /\ holder # NoHolder
    /\ holder' = NoHolder
    /\ UNCHANGED <<fsm, shuttingDown, api, elector, workers, restarts>>

(* The Lease expires once its holder no longer renews it.                 *)
LeaseExpire ==
    /\ holder # NoHolder
    /\ elector[holder] # "leading"
    /\ holder' = NoHolder
    /\ UNCHANGED <<fsm, shuttingDown, api, elector, workers, restarts>>

(* SIGINT or SIGTERM: the handler installed by FSM.SignalHandling calls   *)
(* Shutdown.                                                               *)
Signal(p) ==
    /\ fsm[p] # "Exited"
    /\ ~shuttingDown[p]
    /\ shuttingDown' = [shuttingDown EXCEPT ![p] = TRUE]
    /\ UNCHANGED <<fsm, api, elector, workers, holder, restarts>>

(* The container is killed at any point (OOM, eviction, SIGKILL).          *)
Crash(p) ==
    /\ fsm[p] # "Exited"
    /\ Exit(p)

(* The container restarts: builder() runs newProcess, a fresh FSM in      *)
(* stateInit with a fresh context and identity.                            *)
Restart(p) ==
    /\ fsm[p] = "Exited"
    /\ restarts[p] < MaxRestarts
    /\ fsm' = [fsm EXCEPT ![p] = "Init"]
    /\ shuttingDown' = [shuttingDown EXCEPT ![p] = FALSE]
    /\ restarts' = [restarts EXCEPT ![p] = restarts[p] + 1]
    /\ UNCHANGED <<api, elector, workers, holder>>

-----------------------------------------------------------------------------

(* The steps the process's own code takes.                                 *)
ProcessStep(p) ==
    \/ init(p)
    \/ setup(p)
    \/ startApiServer(p)
    \/ leaderElectionSkip(p)
    \/ leaderElectionRun(p)
    \/ leaderElectionElected(p)
    \/ startWorker(p)
    \/ waitShutdown(p)
    \/ shutdownApi(p)
    \/ apiDrained(p)
    \/ shutdownFinish(p)

Next ==
    \/ \E p \in Proc :
        \/ ProcessStep(p)
        \/ OnStartedLeading(p)
        \/ OnStoppedLeading(p)
        \/ Signal(p)
        \/ Crash(p)
        \/ Restart(p)
    \/ LeaseExpire

(* The process's own steps are weakly fair (the Go scheduler runs every    *)
(* runnable goroutine, and in-flight handlers finish); the elector retries *)
(* every RetryPeriod, so a free Lease is eventually taken; a Lease nobody  *)
(* renews expires after LeaseDuration.  Signals, failed renewals, crashes  *)
(* and restarts are the environment's and are not assumed to happen.       *)
Fairness ==
    /\ \A p \in Proc : WF_vars(ProcessStep(p))
    /\ \A p \in Proc : WF_vars(OnStartedLeading(p))
    /\ WF_vars(LeaseExpire)

Spec == Init /\ [][Next]_vars /\ Fairness

-----------------------------------------------------------------------------
(* Properties.                                                             *)

(* Of two replicas running the JobWatcher or the GC at the same time, at  *)
(* least one is already shutting down: outside --dev, startWorker runs    *)
(* only after close(elected), and losing the Lease queues a shutdown.      *)
ActiveWorkerUnique ==
    ~SkipElection =>
        \A p, q \in Proc :
            (p # q /\ workers[p] # {} /\ workers[q] # {})
                => (shuttingDown[p] \/ shuttingDown[q])

(* The specification: at most one coordinator instance runs its workers   *)
(* at any instant (loss of leadership cancels the root context).          *)
WorkersExclusive ==
    ~SkipElection => Cardinality({p \in Proc : workers[p] # {}}) <= 1

(* The replicas running their workers without having been told to shut  *)
(* down.                                                                   *)
Active == {p \in Proc : workers[p] # {} /\ ~shuttingDown[p]}

Lease == INSTANCE LeaderLease WITH active <- Active

(* Outside --dev with a lease lock, the replicas behave as leader          *)
(* election promises: a replica runs its JobWatcher and GC, not shutting  *)
(* down, only while it holds the Lease, and the Lease passes to another   *)
(* replica only after its holder stopped being active (OnStoppedLeading   *)
(* queued a shutdown, or the process ended).                               *)
RefinesLeaderLease == Lease!Spec

(* OnStoppedLeading never goes unnoticed: a replica whose elector lost    *)
(* the Lease eventually exits.                                            *)
LossLeadsToExit ==
    \A p \in Proc : (elector[p] = "stopped") ~> (fsm[p] = "Exited")

(* The specification: SIGINT/SIGTERM drive a clean shutdown from any      *)
(* state, so a replica asked to shut down eventually exits.               *)
ShutdownTerminates ==
    \A p \in Proc : shuttingDown[p] ~> (fsm[p] = "Exited")

=============================================================================
