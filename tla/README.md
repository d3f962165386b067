# TLA+ verification of f110/tools

This directory holds TLA+ models of the concurrent and stateful parts of the
repository. It has TLC configurations that check the models on small
instances, and TLAPS proofs, for every instance, of the main invariants of the builder,
the manifest index, the backup controller and the git storer. It also has
proofs that the builder replicas implement an abstract lease, that the
backup controller implements an abstract backup log, and that a single
client of the git storer implements an atomic reference store.
Every module is translated from the Go sources under `src/`. `PROJECT.json`
maps each definition to the lines it models. Where the code depends on a
package that is not under `src/`, the definition is written from the
specification and marked `spec_modelled`. This applies to the fsm loop, the
controllerutil informer and queue, and the callers of the manifest manager.

## The system and its parts

| Part | Code | Module(s) | Status |
|---|---|---|---|
| Builder process (FSM, leader election, workers) | `go/build/cmd/builder/main.go` | `BuilderProcess`, abstract `LeaderLease`, `BuilderProcessProofs` | modelled, proved |
| Manifest index of the repo indexer (Update / GetLatest / FindExpiredManifests / Delete) | `go/pkg/cmd/repoindexer/manifest.go` | `ManifestManager`, `ManifestManagerProofs` | modelled, proved |
| Git storer on object storage, and git-data-service reading through it | `go/pkg/git/objectstorage.go`, `go/cmd/git-data-service/service.go` | `ObjectStorageRefs`, abstract `RefStore`, `ObjectStorageRefsProofs` | modelled (object contents opaque); single-client refinement proved |
| Consul backup controller | `go/pkg/k8s/controllers/consul/backup.go` | `ConsulBackup`, abstract `BackupLog`, `ConsulBackupProofs` | Reconcile and storeBackupFile modelled, proved; Finalize not |
| Dashboard, trusted-user DAO, harbor client, BLE, static-web, k8sfactory, generated files | various | none | not modelled (see below) |

How the parts interact:

- Every replica of the builder runs the same FSM. It takes part in a
  Kubernetes Lease election and, once it is leader, starts the workers
  (JobWatcher, and the GC when `--with-gc` is given).
- The GC prunes the manifests that the repo indexer writes through
  `ManifestManager`. This is why two collectors are modelled: the builder
  findings below show two replicas running workers at once.
- The git-data-service serves references read through `ObjectStorageStorer`.
- The backup controller is a separate Kubernetes controller.

## Modules

### BuilderProcess

**Correspondence with the code:**

- **Replicas and workers.** Each element of `Proc` is a builder replica.
  - `fsm[p]` is its FSM state: one of init, setup, startApiServer,
    leaderElection, startWorker, wait, shutdown or exited.
  - `shuttingDown[p]` is a shutdown queued with `p.FSM.Shutdown()`.
  - `api[p]` is the API server: none (not started, or the process ended),
    serving, draining (`apiServer.Shutdown` waits for in-flight handlers) or
    closed.
  - `workers[p]` is the set of workers it started. They run until the process
    ends, because `p.cancel` is never called.
- **The elector.** `elector[p]` is the client-go elector goroutine: none
  (not started, or the process ended), acquiring, leading, or stopped
  (leadership lost, `OnStoppedLeading` called).
- **The Lease.** `holder` is the Lease holder.
- **Restarts.** `restarts` counts the container restarts, capped by
  `MaxRestarts`.

**Actions.** There is one action per state function: `init`, `setup`,
`startApiServer`, the three branches of `leaderElection`, `startWorker` and
the two steps of `shutdown`. Each includes the transition the function
returns. The elector adds `OnStartedLeading`, `OnStoppedLeading` and
`LeaseExpire` (the holder stops renewing). The environment adds `Signal`
(SIGTERM/SIGINT, delivered by `SignalHandling`), `Crash` and `Restart`.

**Flags.** The constants `Dev`, `LeaseConfigured` and `WithGC` are the flags
that select the branches.

**Fairness.** `Spec` has weak fairness on each replica's FSM step, its
elector, and Lease expiry. The FSM loop and the elector are goroutines that
run whenever they can. A Lease whose holder stopped renewing expires after
LeaseDuration. Signals and crashes are not fair.

**The abstract lease, `LeaderLease`.** This module states what leader election
promises the replicas, with two variables:

- `holder` is the Lease holder;
- `active` is the set of replicas running their workers while not shutting
  down.

Its steps are `Acquire` (take the free Lease), `Activate` (the holder starts
its workers), `Deactivate` (a replica shuts down or exits) and `Expire` (a
Lease whose holder is not active becomes free). `BuilderProcess` instantiates
it as `Lease`, mapping `active` to `Active`, the replicas with workers and no
shutdown queued. `RefinesLeaderLease` is `Lease!Spec`.

### ManifestManager

**State.** `store` is the set of execution keys of `manifest_<key>.json` in
the bucket. `written` is the history of `Update`. Readers and collectors
have program counters; each MinIO call is one atomic step.

**Operations.**

- `GetLatest` is two steps: List+parse, then Get.
- `FindExpiredManifests` is List+parse+sort, then one Get per target, then
  return.
- `Delete` removes one object per step.

**Modelling choices.**

- `ParseMax` is the scaled-down limit of `strconv.ParseInt(s, 10, 32)`.
- `GetLatest` keeps the code's three outcomes of the listing: a parse
  error, "not found" when the largest key is 0 (`latest == 0`, which also
  happens when the bucket holds only `manifest_0.json`), and a Get of the
  largest key.
- `Expired` is the set of keys with two distinct larger keys. The code
  sorts the keys in descending order and takes `timestamps[2:]`. The
  assumption `ExpiredIsSortedTail` in `MCManifestManager` checks, for every
  set of model keys, that the two are equal, using `SetToSortSeq`. The
  model module itself uses no sequences, so TLAPS can reason about it.
- Fairness is weak fairness on each collector, which runs on a timer. The
  indexer and the readers are not fair.

### RefStore and ObjectStorageRefs

`RefStore` is what a go-git reference storer promises: a map from names to
hashes where each operation is atomic. A CheckAndSet writes only over the
hash it checked, and PackRefs changes no reference.

**State.** `ObjectStorageRefs` keeps:

- the loose objects, `loose`;
- the `packed-refs` object as a record: present, git header, malformed line,
  set of entries;
- a per-client program counter;
- what a read of each object finds (`objects`): nothing, a loose zlib
  object, an object only in a pack, or an empty body;
- whether `config`, `index` and `shallow` are present.

**Operations.** Each Get/Put/Delete of a multi-call operation is a step:

- `CheckAndSetReference` is Get, then Put.
- `RemoveReference` is Delete, then Get and scan packed-refs, then Put.
- `PackRefs` is the reads, then Put.
- `SetEncodedObject`, `SetConfig`, `SetIndex` and `SetShallow` are each a
  single Put. SetEncodedObject passes `nil` as the body (line 457), so the
  object it stores is empty.

The reads are operators:

- `Reference` and `IterReferences` read the refs.
- `GetUnpacked`, `EncodedObject` and `HasEncodedObject` read objects. They
  read loose objects only.
- `IterEncodedObjects` lists the objects.
- `Config`, `Index` and `Shallow` read the other files.
- The git-data-service's `ListReferences` and `GetCommit` are the storer's
  `IterReferences` and `EncodedObject`, reached through go-git. An unknown
  repository is an error for both (`ListReferencesFails`, `GetCommit`), as
  is an empty sha for `GetCommit`.
- `readRefs` names each loose reference by `TrimPrefix(name, "refs")`
  (`Trimmed`), so `ListReferences` answers `/heads/master`. The model follows
  the code. The repository's own test `TestListReferences` in
  `service_test.go` expects `refs/heads/master`. With untrimmed names,
  `PackRefs` would move loose references into packed-refs, and the
  newline bug of `RemoveReference` would then wipe them. The passing
  runs on references rest on the trimming.

**Modelling choices.**

- `Rewritten` models how the newline-less `WriteString(line)` merges the
  kept lines.
- `Trimmed(n)` is the name that `TrimPrefix` produces.
- `readPackedRefs` returns nothing whenever it does not fail, because of its
  `if refs != nil` guard.

**Refinement.** The mapping is
`Atomic == INSTANCE RefStore WITH refs <- Resolved, inflight <- InFlight`.
`Resolved` is git's reading of the bucket: a loose reference wins over a
packed one.

### ConsulBackup

**State.**

- `server` is the object held by the API server: resourceVersion,
  `Status.Succeeded`, `LastSucceededTime` and `History`.
- `cache` is the informer's copy.
- `queued` is the work-queue entry.
- `wk` is the single worker. The queue never gives one key to two workers.
- `files` is the set of backup files, by the second in their name.
- `now` is the clock.

**Actions.**

- `Dequeue` is `GetObject` from the lister.
- `Backup` is the snapshot plus `storeBackupFile`. Either may fail and
  requeue. `StoredEntry` is the history entry `storeBackupFile` fills in;
  only the MinIO branch sets `Succeeded`.
- `UpdateStatus` is the status write. A stale resourceVersion is a Conflict
  and requeues.
- The environment is `InformerSync`, `UserEdit` and `Tick`. `InformerSync`
  is written from the specification: the informer and the work queue are
  `controllerutil`'s, which is not under `src/`.

**The abstract log, `BackupLog`.** This module states what the controller
promises about a ConsulBackup's status:

- backups are stored, one file per second;
- history only grows, by entries that name a stored backup, in order of
  their second;
- `Succeeded` and `LastSucceededTime` follow the entries.

`ConsulBackup` instantiates it as `Log`, mapping `history`, `succeeded` and
`last` to the server's object. `RefinesBackupLog` is `Log!Spec`.

There is no fairness, because only safety is checked.

## Runs

Passing runs:

| Run | Properties | What it shows |
|---|---|---|
| builder_process | ActiveWorkerUnique, RefinesLeaderLease | With a Lease, two replicas with workers running always include one already told to shut down, and the replicas implement `LeaderLease` |
| builder_no_lease_shutdown | ShutdownTerminates | Without a lease name, every signalled replica exits |
| builder_loss_exit | LossLeadsToExit | A replica whose elector lost the Lease eventually exits |
| manifest_retention | RetainsNewestTwo, EventuallyPruned | Racing collectors never delete the two newest manifests, and they prune the bucket to two |
| refs_single_writer | RefinesRefStore | One client on a bucket without git's packed-refs implements the atomic store |
| refs_remove_sequential | RemoveTakesEffect | A removed reference no longer resolves when RemoveReference returns |
| consul_backup | HistoryBacked, HistoryNeverLost, RefinesBackupLog | A stale informer copy never makes the controller lose history, failed snapshots or uploads never leave an entry without its file, and the controller implements `BackupLog` |

Violation runs (each is a finding in `PROJECT.json`):

| Run | Property | What TLC finds |
|---|---|---|
| builder_workers_exclusive | WorkersExclusive | `p.cancel` is never called. A replica that lost the Lease keeps its JobWatcher and GC running while the new leader starts its own. |
| builder_shutdown_terminates | ShutdownTerminates | A standby signalled while it waits in `leaderElection` never exits. The `ctx.Done()` branch is dead. |
| manifest_parse_width | EventuallyPruned | A key above the int32 parse limit stops pruning for good. |
| refs_cas_race | RefinesRefStore | CheckAndSetReference is a Get then a Put, so another client's update is lost. |
| refs_remove_packed | RemoveKeepsOthers | Removing a packed reference erases every other packed reference, because the newlines are dropped. |

Five more defects are stated as properties in the modules but are not kept
as runs. TLC violates each one in a few steps. They are listed as hazards in
`PROJECT.json`:

- `GetLatestReadsListed`: GetLatest fails after a concurrent collector's
  Delete.
- `PackRefsKeepsRefs`: PackRefs drops the packed references.
- `ReadsMatchStore`: Reference ignores packed-refs, ListReferences mangles
  names, objects written by SetEncodedObject are empty, objects in packs are
  never found, and Index and Shallow fail on a missing file.
- The GCS branch never sets `Succeeded`.
- `MaxBackupsRespected`: `spec.maxBackups` is never read, and a retry after a
  status Conflict stores another file.

Each property of a passing run has a mutant in `PROJECT.json`: a plausible
bug in the mapped code that TLC then reports.

### Bounds

| Module | Bounds | Why they are enough |
|---|---|---|
| BuilderProcess | 2 replicas, 1 restart each | Enough for a leader to lose the Lease, a second to win it, and a crashed leader to come back. About 8,500 states. |
| ManifestManager | keys 0..4, 1 reader, 2 collectors | Four keys are the least for which "keep two" leaves two to delete, so two collectors can race on two targets. The fifth key lets the indexer write again while a collector is between its List and its Deletes. Key 0 reaches GetLatest's `latest == 0` branch. ParseMax 5, or 2 in the overflow run. About 36,000 states. |
| ObjectStorageRefs | 2 names, 2 hashes, 1 or 2 clients | Two names make "the other reference" exist, two hashes make CAS matter, and two clients make the race. |
| ConsulBackup | 5 history entries, clock 0..4, maxBackups 2 | Three reconciliations already exceed maxBackups and include a conflict followed by a retry. Five entries and five seconds also cover two backups in one second, and retries after later edits. About 52,000 states. |

Deadlock checking is off in two places:

- **Builder.** Every replica may exit, and the exited state is terminal.
- **ConsulBackup.** The controller idles once the bounds are reached.

## Proofs

`BuilderProcessProofs` proves the following for every set of replicas, every
flag value and every `MaxRestarts`:

- `TypeCorrect`: `Spec => []TypeOK`.
- `WorkersOfOneLeader`: `Spec => []ActiveWorkerUnique`. This holds for a
  non-dev process with a Lease: workers are running at two replicas only if
  one of them has a shutdown queued.

`ActiveWorkerUnique` is not inductive, so the proof uses the strengthening
`IInv`. Its conjuncts are:

1. `TypeOK`.
2. `LeaderHoldsLease`: a leading elector is the Lease holder.
3. `LossQueuesShutdown`: an elector that stopped leading has queued a
   shutdown.
4. `ShutdownQueued`: the loop is in Shutdown only after a shutdown was queued.
5. `WorkersParked`: workers run only in the Wait and Shutdown states.
6. `WorkersAfterElection`: outside `--dev` with a lease lock, the loop reaches
   StartWorker and Wait only after `close(elected)`.
7. `ExitedClean`: an exited process has no elector.

Suppose two replicas run workers and neither is shutting down. By 4 and 5
both are in Wait. By 6 both were elected, which means their electors are
leading or stopped. By 3 neither is stopped, so both are leading. By 2 both
are the single Lease holder, so they are the same replica.

The lemmas `InitIInv`, `NextIInv` and `IInvActiveWorkerUnique` give the
theorems. `NextIInv` has one step per action; `AdvanceIInv` and `ExitIInv`
cover the transitions several actions share.

`ReplicasRefineLeaderLease` proves `Spec => RefinesLeaderLease` under
`~SkipElection`, from `IInv` alone. Without an election, `startWorker` runs
workers with no Lease at all, so the assumption is needed. `StepLease` maps
each step:

| Replica step | LeaderLease step |
|---|---|
| `OnStartedLeading` | `Acquire` |
| `startWorker` of a replica not shutting down | `Activate` |
| `Exit` paths, `Signal`, `OnStoppedLeading` | `Deactivate` (lemma `LeaseDeactivate`) |
| `LeaseExpire` | `Expire` |
| everything else, `Restart` included | a stutter (lemma `LeaseStutter`) |

`startWorker` is `Activate` because the replica is in StartWorker, hence
elected (6). It is not shutting down, hence still leading (3), hence the
holder (2). `LeaseExpire` is `Expire` because a holder that does not lead
is not active (lemma `NotLeadingInactive`, from 5, 4, 6 and 3). This is where
the code's RenewDeadline (15s) being shorter than LeaseDuration (30s)
matters: the mutant `LeaseExpireWhileLeading` lets the Lease expire under a
leading elector, and TLC then reports the refinement violated.

`ManifestManagerProofs` proves `NewestTwoRetained`, which is
`Spec => []RetainsNewestTwo`, together with `TypeCorrect`. It holds for
every set of keys (a finite set of naturals), every set of readers and
collectors, and every `ParseMax`. `RetainsNewestTwo` alone is not
inductive, because a collector deletes a key it listed earlier, after the
indexer may have written more. The strengthening adds two conjuncts:

- `StoreWritten`: the bucket holds only keys that `Update` wrote.
- `TargetsExpired`: every key in a collector's `gcTodo` or `gcFound` has two
  distinct larger written keys.

`FindExpiredList` establishes `TargetsExpired` by the lemma
`ExpiredNotNewest`. `Update` preserves it because written keys are never
forgotten (lemma `NewestGrow`). `Delete` then removes only keys outside
`Newest(written)`.

`ConsulBackupProofs` proves three theorems for every bound:

- `HistoryKept`: `Spec => HistoryNeverLost`.
- `HistoryEntriesBacked`: `Spec => []HistoryBacked`.

For `HistoryKept`, the invariant `IInv` says three things:

- the worker's record is well typed at each of its places (`WorkerOK`);
- the informer's copy, and the worker's copy, are `Fresh`: no newer than
  the server, and equal to the server's object when they carry its
  resourceVersion;
- hence the one `UpdateStatus` the API server accepts writes
  `Updated(server, entry)`, whose history appends to the server's
  (`UpdatedType`, `AppendPrefix`).

`HistoryEntriesBacked` proves `Spec => []HistoryBacked` for either
storage. Its invariant `BackedInv` extends `IInv`:

- the history entries of the server, of the cache and of the worker's copy
  all name files in the bucket (`BackedIn`);
- a pending entry's file is already stored.

Files are never removed (`BackedGrow`). Appending a stored entry keeps an
object backed (`BackedAppend`).

`ControllerRefinesBackupLog` proves `Spec => RefinesBackupLog` for either
storage and every bound. Its invariant `LogInv` extends `IInv` with the
following:

- every history entry of the server, of the cache and of a worker's copy
  is stamped no later than `now` (`Stamped`);
- a pending entry names a stored file of a second no later than `now`,
  and that second is no earlier than any entry of the worker's copy.

`StepLog` maps each step:

- the accepted `UpdateStatus` is `Record(t)`, whose guards follow from
  `LogInv` and `Fresh`;
- a successful `Backup` is `Store`;
- `Tick` is `Tick`;
- every other step, conflicts and user edits included, is a stutter of
  the log.

The mutant `UpdatedNoSucceeded` models a status write that sets
`LastSucceededTime` but not `Succeeded`. TLC reports the refinement
violated.

`ObjectStorageRefsProofs` proves `SingleClientRefinesRefStore`: with one
client, and a bucket that starts without a git-written packed-refs,
`Spec => RefinesRefStore`. This holds for every set of names and hashes,
provided no reference name is the trimmed name of another (`NamesDistinct`).
The refinement mapping is `Resolved` for `refs` and `InFlight` for
`inflight`. The invariant `IInv` has these conjuncts:

- the full type of each client's `pc` record (`PcStates`);
- `TrimmedOnly`: every line of packed-refs, and of a packed-refs file being
  written, names a reference by the trimmed name `readRefs` gives it. As a
  result packed-refs never resolves a name, and `Resolved = loose`
  (`ResolvedIsLoose`);
- `CasChecked`: between the Get and the Put of `CheckAndSetReference`, the
  loose reference still holds the checked hash. This is true only because
  there is one client.

`StepRefines` maps each action to a RefStore step:

| Storer action | RefStore step |
|---|---|
| `SetReference` | `Set` |
| `CheckAndSetGet` | `BeginCheckAndSet` |
| `CheckAndSetPut` | `ApplyCheckAndSet` |
| `RemoveDelete` | `Remove` |
| `PackRefsRead` | `BeginPack` |
| `PackRefsWrite` | `Finish` |
| everything else | a stutter |

`SingleClientRemoveTakesEffect` proves `Spec => RemoveTakesEffect` for one
client, whatever packed-refs git wrote. Its invariant `RmInv` has these
conjuncts:

- the client's `pc` record is well typed (`TypeInv`);
- during RemoveReference, the loose reference is already deleted;
- in the write step, the file being written does not name the reference
  (`Unnamed`, kept by `RewrittenUnnamed`).

Returning to idle then leaves the name unresolved (`StepRemoveDone`). The
proof covers one client, as the run `refs_remove_sequential` does.

Some properties are only model-checked:

- **Liveness.** `LossLeadsToExit`, `ShutdownTerminates` and
  `EventuallyPruned` need fairness and ENABLED, which are out of TLAPS'
  reach.
- **The refinement of ObjectStorageRefs with several clients, or with a
  git-written packed-refs.** The violation runs show that the real store
  does not implement RefStore there.
- **`RemoveKeepsOthers`.** This is checked only on the small instance.

## Not modelled

- **Parts not in the sources.** The Coordinator, JobWatcher, GC loop and
  sidecar are named by the specification but their code is not in `src/`.
  The builder model treats them as "workers".
- **Read-only or trivially stateful parts.**
  - The dashboard and the DAO are read-only or single-statement. Their
    hazards are listed in `PROJECT.json`: a non-terminal task shown as
    failed, and an int32 truncation.
  - The harbor client and static-web are pure I/O.
  - `ble_linux.go` drives hardware.
  - k8sfactory holds test fixtures.
  - `md.pb.go`, `register.go`, `urls.go` and `template.go` are generated or
    data files.
- **Object contents.** The contents of objects, config and index are opaque.
  HEAD is left out.
- **Parts of the git-data-service.** `GetTree` and `GetBlob` only panic, and
  `ListRepositories` reads a map fixed at start.

## Plan for later work

1. Write a spec-modelled Coordinator task lifecycle, composed with
   BuilderProcess, to show what the overlapping workers of the first finding
   do to a task.
