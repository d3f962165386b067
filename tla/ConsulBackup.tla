----------------------------- MODULE ConsulBackup -----------------------------
(***************************************************************************)
(* The ConsulBackup controller of go/pkg/k8s/controllers/consul/backup.go *)
(* for one ConsulBackup object.                                            *)
(*                                                                         *)
(* The API server holds the object (its resourceVersion and its status);  *)
(* the informer keeps a copy that lags behind it and, on every change it  *)
(* observes, puts the object's key on the work queue.  A worker takes the *)
(* key, reads the copy from the lister, and runs Reconcile: take a        *)
(* snapshot, store it as <name>_<unix seconds> (storeBackupFile), append  *)
(* a history entry and UpdateStatus the copy, which the API server        *)
(* rejects when the copy's resourceVersion is no longer current.  The     *)
(* work queue never hands one key to two workers at once, so one worker   *)
(* is modelled.                                                            *)
(*                                                                         *)
(* The informer, the work queue and the requeue on error belong to        *)
(* controllerutil.ControllerBase, which is not part of the sources at     *)
(* hand; they are modelled as client-go behaves.                           *)
(***************************************************************************)
EXTENDS Naturals, Sequences, FiniteSets

CONSTANTS
    Storage,     \* the configured backend: "minio" or "gcs"
    MaxBackups,  \* spec.maxBackups of the object
    MaxTime,     \* the clock (unix seconds) stops here
    MaxHistory   \* the model stops reconciling at this many history entries

ASSUME StorageAssumption == Storage \in {"minio", "gcs"}
ASSUME BoundsAssumption == {MaxBackups, MaxTime, MaxHistory} \subseteq Nat

VARIABLES
    server,  \* the object in the API server: resourceVersion and status
    cache,   \* the informer's copy of it
    queued,  \* the object's key is on the work queue
    wk,      \* the worker: where it is and the copy it reconciles
    files,   \* the backup files in the bucket, by the second in their name
    now      \* the wall clock, in seconds

vars == <<server, cache, queued, wk, files, now>>

Entry == [time : 0..MaxTime, succeeded : BOOLEAN]
Object == [rv : Nat, succeeded : BOOLEAN, last : 0..MaxTime, history : Seq(Entry)]

TypeOK ==
    /\ server \in Object
    /\ cache \in Object
    /\ queued \in BOOLEAN
    /\ wk.pc \in {"idle", "backup", "update"}
    /\ files \subseteq 0..MaxTime
    /\ now \in 0..MaxTime

Init ==
    /\ server = [rv |-> 1, succeeded |-> FALSE, last |-> 0, history |-> <<>>]
    /\ cache = server
    /\ queued = TRUE
    /\ wk = [pc |-> "idle"]
    /\ files = {}
    /\ now = 0

-----------------------------------------------------------------------------
(* The worker.                                                             *)

(* processNextItem: take the key and GetObject it from the lister.        *)
Dequeue ==
    /\ wk.pc = "idle"
    /\ queued
    /\ Len(server.history) < MaxHistory
    /\ queued' = FALSE
    /\ wk' = [pc |-> "backup", obj |-> cache]
    /\ UNCHANGED <<server, cache, files, now>>

(* A failed Reconcile: the key is added back to the queue.                *)
Requeue ==
    /\ queued' = TRUE
    /\ wk' = [pc |-> "idle"]

(* The history entry storeBackupFile fills in for a backup taken at t:    *)
(* the MinIO branch sets history.Succeeded after PutReader, the GCS branch *)
(* returns without it.                                                     *)
StoredEntry(t) == [time |-> t, succeeded |-> Storage = "minio"]

(* Plausible bug: the error of storeBackupFile is ignored, so a history  *)
(* entry is written for an upload that failed.                            *)
BackupIgnoreStoreError ==
    /\ wk.pc = "backup"
    /\ \/ /\ Requeue
          /\ UNCHANGED files
       \/ /\ \E stored \in BOOLEAN :
                files' = IF stored THEN files \cup {now} ELSE files
          /\ wk' = [pc |-> "update", obj |-> wk.obj,
                    entry |-> StoredEntry(now)]
          /\ UNCHANGED queued
    /\ UNCHANGED <<server, cache, now>>

(* Reconcile up to the status: now := metav1.Now(), Snapshot().Save(),    *)
(* then storeBackupFile puts <name>_<now.Unix()>; either call may fail.   *)
Backup ==
    /\ wk.pc = "backup"
    /\ \/ /\ Requeue
          /\ UNCHANGED files
       \/ /\ files' = files \cup {now}
          /\ wk' = [pc |-> "update", obj |-> wk.obj,
                    entry |-> StoredEntry(now)]
          /\ UNCHANGED queued
    /\ UNCHANGED <<server, cache, now>>

(* Plausible bug: updated.Status.Succeeded is not set, only             *)
(* LastSucceededTime.                                                      *)
UpdatedNoSucceeded(obj, e) ==
    [obj EXCEPT !.history = Append(@, e),
                !.last = IF e.succeeded THEN e.time ELSE @]

(* The status Reconcile writes: the copy's, with the entry appended and,  *)
(* for a successful backup, Succeeded and LastSucceededTime set.           *)
Updated(obj, e) ==
    [obj EXCEPT !.history = Append(@, e),
                !.succeeded = @ \/ e.succeeded,
                !.last = IF e.succeeded THEN e.time ELSE @]

(* Plausible bug: the status is written whatever the resourceVersion     *)
(* (an update that does not carry it, or a merge patch).                  *)
UpdateStatusBlind ==
    /\ wk.pc = "update"
    /\ server' = [Updated(wk.obj, wk.entry) EXCEPT !.rv = server.rv + 1]
    /\ wk' = [pc |-> "idle"]
    /\ UNCHANGED <<cache, queued, files, now>>

(* UpdateStatus of the copy: a stale resourceVersion is a Conflict and the *)
(* key is requeued.  The status always differs (history grew).             *)
UpdateStatus ==
    /\ wk.pc = "update"
    /\ \/ /\ wk.obj.rv = server.rv
          /\ server' = [Updated(wk.obj, wk.entry) EXCEPT !.rv = server.rv + 1]
          /\ wk' = [pc |-> "idle"]
          /\ UNCHANGED queued
       \/ /\ wk.obj.rv # server.rv
          /\ Requeue
          /\ UNCHANGED server
    /\ UNCHANGED <<cache, files, now>>

-----------------------------------------------------------------------------
(* The informer, the user and the clock.                                   *)

(* The informer observes the current object and enqueues its key.         *)
InformerSync ==
    /\ cache # server
    /\ cache' = server
    /\ queued' = TRUE
    /\ UNCHANGED <<server, wk, files, now>>

(* Someone edits the object's spec: a new resourceVersion.               *)
UserEdit ==
    /\ server.rv <= MaxHistory
    /\ server' = [server EXCEPT !.rv = @ + 1]
    /\ UNCHANGED <<cache, queued, wk, files, now>>

Tick ==
    /\ now < MaxTime
    /\ now' = now + 1
    /\ UNCHANGED <<server, cache, queued, wk, files>>

Next ==
    \/ Dequeue \/ Backup \/ UpdateStatus
    \/ InformerSync \/ UserEdit \/ Tick

Spec == Init /\ [][Next]_vars

-----------------------------------------------------------------------------
(* Properties.                                                             *)

(* A history entry, once in the API server, is never lost: Reconcile     *)
(* rewrites the whole status from the informer's copy, and only the       *)
(* resourceVersion check keeps a stale copy from overwriting newer        *)
(* entries.                                                                *)
HistoryNeverLost ==
    [][\A i \in 1..Len(server.history) :
          i <= Len(server'.history) /\ server'.history[i] = server.history[i]]_vars

(* Every history entry the API server holds names a backup file that is  *)
(* in the bucket: a Reconcile whose snapshot or upload failed returns     *)
(* before the status is written, across Conflicts and retries.            *)
HistoryBacked ==
    \A i \in 1..Len(server.history) : server.history[i].time \in files

(* The status as the backup log sees it.                                  *)
Log == INSTANCE BackupLog WITH history <- server.history, succeeded <- server.succeeded,
                               last <- server.last

(* The controller keeps a log of backups: whatever the informer's lag,    *)
(* the user's edits and the Conflicts, the status changes only by one     *)
(* entry appended at a time, for a file already in the bucket and no      *)
(* earlier than the entries before it, with Succeeded and                 *)
(* LastSucceededTime set as that entry says.                              *)
RefinesBackupLog == Log!Spec

(* The bucket never holds more than spec.maxBackups backups.              *)
MaxBackupsRespected ==
    Cardinality(files) <= MaxBackups

=============================================================================
