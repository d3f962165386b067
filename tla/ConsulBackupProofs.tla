-------------------------- MODULE ConsulBackupProofs --------------------------
(***************************************************************************)
(* Proofs about the ConsulBackup controller for every bound: that the     *)
(* status history in the API server only ever grows at its end, that     *)
(* every entry names a stored backup, and that the controller implements  *)
(* the backup log of BackupLog.                                            *)
(*                                                                         *)
(* Reconcile writes back the whole status of the copy it read from the    *)
(* informer, so HistoryNeverLost rests on the copies being no newer than  *)
(* the server and equal to it when their resourceVersion is the current   *)
(* one (Fresh): the only UpdateStatus the API server accepts is then one  *)
(* whose copy is the server's object, and Updated appends to its history. *)
(***************************************************************************)
EXTENDS ConsulBackup, TLAPS

(* The worker's record at each of its three places.                       *)
WorkerOK ==
    wk \in [pc : {"idle"}]
           \cup [pc : {"backup"}, obj : Object]
           \cup [pc : {"update"}, obj : Object, entry : Entry]

(* A copy is no newer than the API server's object, and is that object     *)
(* when it carries its resourceVersion.                                    *)
Fresh(o) == o.rv <= server.rv /\ (o.rv = server.rv => o = server)

IInv ==
    /\ TypeOK
    /\ WorkerOK
    /\ Fresh(cache)
    /\ wk.pc # "idle" => Fresh(wk.obj)

(* The step HistoryNeverLost asks of every change of the variables.        *)
HistoryPrefix ==
    \A i \in 1..Len(server.history) :
        i <= Len(server'.history) /\ server'.history[i] = server.history[i]

-----------------------------------------------------------------------------

(* The status Reconcile writes is an object, with its history extended by *)
(* the new entry.                                                          *)
LEMMA UpdatedType ==
    ASSUME NEW o \in Object, NEW e \in Entry
    PROVE  /\ Updated(o, e) \in Object
           /\ Updated(o, e).history = Append(o.history, e)
           /\ Updated(o, e).rv = o.rv
<1>1. Append(o.history, e) \in Seq(Entry)
  BY DEF Object
<1>2. (IF e.succeeded THEN e.time ELSE o.last) \in 0..MaxTime
  BY DEF Object, Entry
<1>3. QED
  BY <1>1, <1>2 DEF Updated, Object

(* A new resourceVersion keeps an object an object.                       *)
LEMMA RvUpdate ==
    ASSUME NEW o \in Object, NEW n \in Nat
    PROVE  /\ [o EXCEPT !.rv = n] \in Object
           /\ [o EXCEPT !.rv = n].rv = n
           /\ [o EXCEPT !.rv = n].history = o.history
           /\ [o EXCEPT !.rv = n].succeeded = o.succeeded
           /\ [o EXCEPT !.rv = n].last = o.last
BY DEF Object

LEMMA AppendPrefix ==
    ASSUME NEW S, NEW s \in Seq(S), NEW e
    PROVE  \A i \in 1..Len(s) : i <= Len(Append(s, e)) /\ Append(s, e)[i] = s[i]
OBVIOUS

LEMMA InitIInv == Init => IInv
BY BoundsAssumption DEF Init, IInv, TypeOK, WorkerOK, Fresh, Object

LEMMA NextIInv == IInv /\ [Next]_vars => IInv'
<1> SUFFICES ASSUME IInv, [Next]_vars PROVE IInv'
    OBVIOUS
<1> USE BoundsAssumption
<1>1. CASE Dequeue
  BY <1>1 DEF Dequeue, IInv, TypeOK, WorkerOK, Fresh
<1>2. CASE Backup
  <2>1. CASE Requeue /\ UNCHANGED files
    BY <1>2, <2>1 DEF Backup, StoredEntry, Requeue, IInv, TypeOK, WorkerOK, Fresh
  <2>2. CASE /\ files' = files \cup {now}
             /\ wk' = [pc |-> "update", obj |-> wk.obj,
                       entry |-> [time |-> now, succeeded |-> Storage = "minio"]]
             /\ UNCHANGED queued
    BY <1>2, <2>2 DEF Backup, StoredEntry, IInv, TypeOK, WorkerOK, Fresh, Entry
  <2>3. QED
    BY <1>2, <2>1, <2>2 DEF Backup, StoredEntry
<1>3. CASE UpdateStatus
  <2>1. CASE /\ wk.obj.rv = server.rv
             /\ server' = [Updated(wk.obj, wk.entry) EXCEPT !.rv = server.rv + 1]
             /\ wk' = [pc |-> "idle"]
             /\ UNCHANGED queued
    <3>1. wk.obj \in Object /\ wk.entry \in Entry
      BY <1>3 DEF UpdateStatus, IInv, WorkerOK
    <3>2. Updated(wk.obj, wk.entry) \in Object
      BY <3>1, UpdatedType
    <3>4. wk.obj.rv \in Nat /\ cache.rv \in Nat /\ server.rv \in Nat
      BY <3>1 DEF IInv, TypeOK, Object
    <3>3. server' \in Object /\ server'.rv = server.rv + 1
      <4>1. [Updated(wk.obj, wk.entry) EXCEPT !.rv = server.rv + 1] \in Object
            /\ [Updated(wk.obj, wk.entry) EXCEPT !.rv = server.rv + 1].rv = server.rv + 1
        BY <3>2, <3>4, RvUpdate
      <4>2. QED
        BY <2>1, <4>1
    <3>5. QED
      BY <1>3, <2>1, <3>3, <3>4 DEF UpdateStatus, IInv, TypeOK, WorkerOK, Fresh
  <2>2. CASE wk.obj.rv # server.rv /\ Requeue /\ UNCHANGED server
    BY <1>3, <2>2 DEF UpdateStatus, Requeue, IInv, TypeOK, WorkerOK, Fresh
  <2>3. QED
    BY <1>3, <2>1, <2>2 DEF UpdateStatus
<1>4. CASE InformerSync
  BY <1>4 DEF InformerSync, IInv, TypeOK, WorkerOK, Fresh, Object
<1>5. CASE UserEdit
  <2>1. server' \in Object /\ server'.rv = server.rv + 1
    <3>1. server \in Object /\ server.rv + 1 \in Nat
      BY DEF IInv, TypeOK, Object
    <3>2. [server EXCEPT !.rv = server.rv + 1] \in Object
          /\ [server EXCEPT !.rv = server.rv + 1].rv = server.rv + 1
      BY <3>1, RvUpdate
    <3>3. QED
      BY <1>5, <3>2 DEF UserEdit
  <2>2. cache.rv \in Nat /\ server.rv \in Nat
    BY DEF IInv, TypeOK, Object
  <2>3. wk.pc # "idle" => wk.obj.rv \in Nat
    BY DEF IInv, WorkerOK, Object
  <2>4. QED
    BY <1>5, <2>1, <2>2, <2>3 DEF UserEdit, IInv, TypeOK, WorkerOK, Fresh
<1>6. CASE Tick
  BY <1>6 DEF Tick, IInv, TypeOK, WorkerOK, Fresh
<1>7. CASE UNCHANGED vars
  BY <1>7 DEF vars, IInv, TypeOK, WorkerOK, Fresh
<1>8. QED
  BY <1>1, <1>2, <1>3, <1>4, <1>5, <1>6, <1>7 DEF Next

(* Under the invariant every step keeps the API server's history a prefix *)
(* of the next one.                                                        *)
LEMMA StepKeepsHistory == IInv /\ [Next]_vars => [HistoryPrefix]_vars
<1> SUFFICES ASSUME IInv, [Next]_vars PROVE HistoryPrefix \/ UNCHANGED vars
    OBVIOUS
<1>1. CASE UpdateStatus /\ wk.obj.rv = server.rv
  <2>1. wk.obj = server /\ wk.entry \in Entry
    BY <1>1 DEF UpdateStatus, IInv, WorkerOK, Fresh
  <2>2. server'.history = Append(server.history, wk.entry)
    BY <1>1, <2>1, UpdatedType DEF UpdateStatus, IInv, TypeOK, Object
  <2>3. server.history \in Seq(Entry)
    BY DEF IInv, TypeOK, Object
  <2>4. QED
    BY <2>2, <2>3, AppendPrefix DEF HistoryPrefix
<1>2. CASE ~(UpdateStatus /\ wk.obj.rv = server.rv)
  <2>1. server'.history = server.history
    BY <1>2 DEF Next, Dequeue, Backup, StoredEntry, UpdateStatus, InformerSync, UserEdit,
                Tick, vars, IInv, TypeOK, Object
  <2>2. QED
    BY <2>1 DEF HistoryPrefix
<1>3. QED
  BY <1>1, <1>2

-----------------------------------------------------------------------------

(* Whatever the informer's lag, the user's edits and the Conflicts the    *)
(* worker meets, no history entry the API server holds is ever dropped or *)
(* rewritten by Reconcile's UpdateStatus of a stale copy.                  *)
THEOREM HistoryKept == Spec => HistoryNeverLost
<1>1. Spec => []IInv
  BY InitIInv, NextIInv, PTL DEF Spec
<1>2. QED
  BY <1>1, StepKeepsHistory, PTL DEF Spec, HistoryNeverLost, HistoryPrefix

-----------------------------------------------------------------------------
(* Every history entry names a file in the bucket.                        *)

(* The history entries of an object name backup files of the bucket F.   *)
BackedIn(o, F) == \A i \in 1..Len(o.history) : o.history[i].time \in F

BackedInv ==
    /\ IInv
    /\ BackedIn(server, files)
    /\ BackedIn(cache, files)
    /\ wk.pc # "idle" => BackedIn(wk.obj, files)
    /\ wk.pc = "update" => wk.entry.time \in files

(* Files are never removed, so what was backed stays backed.              *)
LEMMA BackedGrow ==
    ASSUME NEW o, NEW F, NEW G, F \subseteq G, BackedIn(o, F)
    PROVE  BackedIn(o, G)
BY DEF BackedIn

(* Appending an entry whose file is there keeps an object backed.        *)
LEMMA BackedAppend ==
    ASSUME NEW o \in Object, NEW e \in Entry, NEW F, BackedIn(o, F), e.time \in F
    PROVE  BackedIn(Updated(o, e), F)
<1>1. Updated(o, e).history = Append(o.history, e) /\ o.history \in Seq(Entry)
  BY UpdatedType DEF Object
<1>2. QED
  BY <1>1 DEF BackedIn

LEMMA NextBackedInv == BackedInv /\ [Next]_vars => BackedInv'
<1> SUFFICES ASSUME BackedInv, [Next]_vars PROVE BackedInv'
  OBVIOUS
<1>0. IInv'
  BY NextIInv DEF BackedInv
<1>1. CASE Dequeue
  BY <1>0, <1>1 DEF Dequeue, BackedInv, BackedIn
<1>2. CASE Backup
  <2>1. CASE Requeue /\ UNCHANGED files
    BY <1>0, <1>2, <2>1 DEF Backup, StoredEntry, Requeue, BackedInv, BackedIn
  <2>2. CASE /\ files' = files \cup {now}
             /\ wk' = [pc |-> "update", obj |-> wk.obj,
                       entry |-> [time |-> now, succeeded |-> Storage = "minio"]]
             /\ UNCHANGED queued
    <3>1. /\ BackedIn(server, files') /\ BackedIn(cache, files')
          /\ BackedIn(wk.obj, files')
      BY <1>2, <2>2, BackedGrow DEF Backup, StoredEntry, BackedInv
    <3>2. wk'.entry.time \in files' /\ wk'.obj = wk.obj /\ wk'.pc = "update"
      BY <2>2
    <3>3. QED
      BY <1>0, <1>2, <2>2, <3>1, <3>2 DEF Backup, StoredEntry, BackedInv
  <2>3. QED
    BY <1>2, <2>1, <2>2 DEF Backup, StoredEntry
<1>3. CASE UpdateStatus
  <2>1. CASE /\ wk.obj.rv = server.rv
             /\ server' = [Updated(wk.obj, wk.entry) EXCEPT !.rv = server.rv + 1]
             /\ wk' = [pc |-> "idle"]
             /\ UNCHANGED queued
    <3>1. wk.obj \in Object /\ wk.entry \in Entry
      BY <1>3 DEF UpdateStatus, BackedInv, IInv, WorkerOK
    <3>2. BackedIn(Updated(wk.obj, wk.entry), files)
      BY <1>3, <3>1, BackedAppend DEF UpdateStatus, BackedInv
    <3>3. Updated(wk.obj, wk.entry) \in Object
      BY <3>1, UpdatedType
    <3>4. server'.history = Updated(wk.obj, wk.entry).history
      <4>1. server.rv + 1 \in Nat
        BY DEF BackedInv, IInv, TypeOK, Object
      <4>2. [Updated(wk.obj, wk.entry) EXCEPT !.rv = server.rv + 1].history
              = Updated(wk.obj, wk.entry).history
        BY <3>3, <4>1, RvUpdate
      <4>3. QED
        BY <2>1, <4>2
    <3>5. BackedIn(server', files')
      BY <1>3, <3>2, <3>4 DEF UpdateStatus, BackedIn
    <3>6. QED
      BY <1>0, <1>3, <2>1, <3>5 DEF UpdateStatus, BackedInv
  <2>2. CASE wk.obj.rv # server.rv /\ Requeue /\ UNCHANGED server
    BY <1>0, <1>3, <2>2 DEF UpdateStatus, Requeue, BackedInv
  <2>3. QED
    BY <1>3, <2>1, <2>2 DEF UpdateStatus
<1>4. CASE InformerSync
  BY <1>0, <1>4 DEF InformerSync, BackedInv
<1>5. CASE UserEdit
  <2>1. server \in Object /\ server.rv + 1 \in Nat
    BY DEF BackedInv, IInv, TypeOK, Object
  <2>2. [server EXCEPT !.rv = server.rv + 1].history = server.history
    BY <2>1, RvUpdate
  <2>3. QED
    BY <1>0, <1>5, <2>2 DEF UserEdit, BackedInv, BackedIn
<1>6. CASE Tick
  BY <1>0, <1>6 DEF Tick, BackedInv
<1>7. CASE UNCHANGED vars
  BY <1>0, <1>7 DEF vars, BackedInv, BackedIn
<1>8. QED
  BY <1>1, <1>2, <1>3, <1>4, <1>5, <1>6, <1>7 DEF Next

(* Whatever snapshots and uploads fail, and whatever Conflicts force      *)
(* retries, every history entry in the API server names a backup file     *)
(* that the bucket holds.                                                  *)
THEOREM HistoryEntriesBacked == Spec => []HistoryBacked
<1>1. Init => BackedInv
  BY InitIInv DEF Init, BackedInv, BackedIn
<1>2. BackedInv => HistoryBacked
  BY DEF BackedInv, BackedIn, HistoryBacked
<1>3. QED
  BY <1>1, <1>2, NextBackedInv, PTL DEF Spec


-----------------------------------------------------------------------------
(* The controller implements the backup log BackupLog.                     *)
(*                                                                         *)
(* An accepted UpdateStatus is the log's Record of the entry the worker   *)
(* made at its Backup, a Backup that stored its file is the log's Store,  *)
(* and every other step leaves the history, Succeeded, LastSucceededTime, *)
(* the bucket and the clock alone.  Record asks the entry to be no        *)
(* earlier than the history it is appended to: every copy of the object   *)
(* was read before the present second (Stamped), so the entry the worker  *)
(* stamps with the present second is no earlier than its copy's history,  *)
(* which is the server's when the update is accepted.                      *)

(* Every entry of o's history is of second t or earlier.                  *)
Stamped(o, t) == \A i \in 1..Len(o.history) : o.history[i].time <= t

LogInv ==
    /\ IInv
    /\ Stamped(server, now)
    /\ Stamped(cache, now)
    /\ wk.pc # "idle" => Stamped(wk.obj, now)
    /\ wk.pc = "update" =>
          \E t \in files :
              /\ wk.entry = [time |-> t, succeeded |-> Storage = "minio"]
              /\ t <= now
              /\ Stamped(wk.obj, t)

(* The status fields Reconcile sets with the entry it appends.            *)
LEMMA UpdatedStatus ==
    ASSUME NEW o \in Object, NEW e \in Entry
    PROVE  /\ Updated(o, e).succeeded = (o.succeeded \/ e.succeeded)
           /\ Updated(o, e).last = IF e.succeeded THEN e.time ELSE o.last
BY DEF Updated, Object

(* A history read before second t is still so at a later second.         *)
LEMMA StampedLater ==
    ASSUME NEW o, NEW t \in Nat, NEW u \in Nat, t <= u, Stamped(o, t),
           o.history \in Seq(Entry)
    PROVE  Stamped(o, u)
<1> SUFFICES ASSUME NEW i \in 1..Len(o.history) PROVE o.history[i].time <= u
  BY DEF Stamped
<1>1. o.history[i] \in Entry
  OBVIOUS
<1>2. o.history[i].time \in 0..MaxTime
  BY <1>1 DEF Entry
<1>3. o.history[i].time <= t
  BY DEF Stamped
<1>4. QED
  BY <1>2, <1>3

(* Appending an entry of second t or earlier keeps a history so.          *)
LEMMA StampedAppend ==
    ASSUME NEW o \in Object, NEW e \in Entry, NEW t \in Nat, Stamped(o, t), e.time <= t
    PROVE  Stamped(Updated(o, e), t)
<1>0. Updated(o, e).history = Append(o.history, e)
  BY UpdatedType
<1>1. Updated(o, e).history = Append(o.history, e) /\ o.history \in Seq(Entry)
  BY <1>0 DEF Object
<1> SUFFICES ASSUME NEW i \in 1..Len(Append(o.history, e))
             PROVE  Append(o.history, e)[i].time <= t
  BY <1>1 DEF Stamped
<1>2. CASE i <= Len(o.history)
  <2>1. Append(o.history, e)[i] = o.history[i]
    BY <1>1, <1>2
  <2>2. o.history[i].time <= t
    BY <1>2 DEF Stamped
  <2>3. QED
    BY <2>1, <2>2
<1>3. CASE i = Len(o.history) + 1
  <2>1. Append(o.history, e)[i] = e
    BY <1>1, <1>3
  <2>2. QED
    BY <2>1
<1>4. QED
  BY <1>1, <1>2, <1>3

(* A new resourceVersion keeps the history and its seconds.                *)
LEMMA StampedRv ==
    ASSUME NEW o \in Object, NEW n \in Nat, NEW t, Stamped(o, t)
    PROVE  Stamped([o EXCEPT !.rv = n], t)
BY RvUpdate DEF Stamped

LEMMA InitLogInv == Init => LogInv
BY InitIInv DEF Init, LogInv, Stamped



LEMMA NextLogInv == LogInv /\ [Next]_vars => LogInv'
<1> SUFFICES ASSUME LogInv, [Next]_vars PROVE LogInv'
  OBVIOUS
<1> USE BoundsAssumption
<1>0. /\ IInv'
      /\ server \in Object /\ cache \in Object /\ now \in Nat
      /\ wk.pc # "idle" => wk.obj \in Object
      /\ wk.pc = "update" => wk.entry \in Entry
  BY NextIInv DEF LogInv, IInv, TypeOK, WorkerOK
<1>1. CASE Dequeue
  BY <1>0, <1>1 DEF Dequeue, LogInv
<1>2. CASE Backup
  <2>1. CASE Requeue /\ UNCHANGED files
    BY <1>0, <1>2, <2>1 DEF Backup, StoredEntry, Requeue, LogInv
  <2>2. CASE /\ files' = files \cup {now}
             /\ wk' = [pc |-> "update", obj |-> wk.obj,
                       entry |-> [time |-> now, succeeded |-> Storage = "minio"]]
             /\ UNCHANGED queued
    <3>1. wk.pc = "backup" /\ UNCHANGED <<server, cache, now>>
      BY <1>2 DEF Backup, StoredEntry
    <3>2. Stamped(wk.obj, now)
      BY <3>1 DEF LogInv
    <3>3. \E t \in files' :
              /\ wk'.entry = [time |-> t, succeeded |-> Storage = "minio"]
              /\ t <= now'
              /\ Stamped(wk'.obj, t)
      <4>1. now \in files' /\ now <= now' /\ Stamped(wk'.obj, now)
        BY <1>0, <2>2, <3>1, <3>2
      <4>2. wk'.entry = [time |-> now, succeeded |-> Storage = "minio"]
        BY <2>2, Zenon
      <4>3. QED
        BY <4>1, <4>2, Zenon
    <3>4. QED
      BY <1>0, <2>2, <3>1, <3>2, <3>3 DEF LogInv
  <2>3. QED
    BY <1>2, <2>1, <2>2 DEF Backup, StoredEntry
<1>3. CASE UpdateStatus
  <2>1. CASE /\ wk.obj.rv = server.rv
             /\ server' = [Updated(wk.obj, wk.entry) EXCEPT !.rv = server.rv + 1]
             /\ wk' = [pc |-> "idle"]
             /\ UNCHANGED queued
    <3>1. wk.pc = "update" /\ UNCHANGED <<cache, files, now>>
      BY <1>3 DEF UpdateStatus
    <3>2. PICK t \in files : /\ wk.entry = [time |-> t, succeeded |-> Storage = "minio"]
                             /\ t <= now
                             /\ Stamped(wk.obj, t)
      BY <3>1 DEF LogInv
    <3>3. t \in Nat /\ wk.entry.time = t
      <4>1. t \in Nat
        BY DEF LogInv, IInv, TypeOK
      <4>2. wk.entry.time = t
        BY <3>2
      <4>3. QED
        BY <4>1, <4>2
    <3>4. Stamped(Updated(wk.obj, wk.entry), t)
      BY <1>0, <3>1, <3>2, <3>3, StampedAppend
    <3>5. Updated(wk.obj, wk.entry) \in Object
      BY <1>0, <3>1, UpdatedType
    <3>6. Stamped(Updated(wk.obj, wk.entry), now)
      BY <1>0, <3>2, <3>3, <3>4, <3>5, StampedLater DEF Object
    <3>7. server.rv + 1 \in Nat
      BY <1>0 DEF Object
    <3>8. Stamped([Updated(wk.obj, wk.entry) EXCEPT !.rv = server.rv + 1], now)
      BY <3>5, <3>6, <3>7, StampedRv
    <3>9. QED
      BY <1>0, <2>1, <3>1, <3>8 DEF LogInv
  <2>2. CASE wk.obj.rv # server.rv /\ Requeue /\ UNCHANGED server
    BY <1>0, <1>3, <2>2 DEF UpdateStatus, Requeue, LogInv
  <2>3. QED
    BY <1>3, <2>1, <2>2 DEF UpdateStatus
<1>4. CASE InformerSync
  BY <1>0, <1>4 DEF InformerSync, LogInv
<1>5. CASE UserEdit
  <2>1. server.rv + 1 \in Nat
    BY <1>0 DEF Object
  <2>2. Stamped([server EXCEPT !.rv = server.rv + 1], now)
    BY <1>0, <2>1, StampedRv DEF LogInv
  <2>3. QED
    BY <1>0, <1>5, <2>2 DEF UserEdit, LogInv
<1>6. CASE Tick
  <2>1. now' = now + 1 /\ now + 1 \in Nat /\ now <= now + 1
        /\ UNCHANGED <<server, cache, wk, files>>
    BY <1>0, <1>6 DEF Tick
  <2>2. Stamped(server, now') /\ Stamped(cache, now')
    BY <1>0, <2>1, StampedLater DEF LogInv, Object
  <2>3. wk.pc # "idle" => Stamped(wk.obj, now')
    <3> SUFFICES ASSUME wk.pc # "idle" PROVE Stamped(wk.obj, now')
      OBVIOUS
    <3>1. wk.obj.history \in Seq(Entry) /\ Stamped(wk.obj, now)
      BY <1>0 DEF LogInv, Object
    <3>2. QED
      BY <1>0, <2>1, <3>1, StampedLater
  <2>4. wk.pc = "update" =>
          \E t \in files :
              /\ wk.entry = [time |-> t, succeeded |-> Storage = "minio"]
              /\ t <= now'
              /\ Stamped(wk.obj, t)
    <3> SUFFICES ASSUME wk.pc = "update"
                 PROVE  \E t \in files :
                            /\ wk.entry = [time |-> t, succeeded |-> Storage = "minio"]
                            /\ t <= now'
                            /\ Stamped(wk.obj, t)
      OBVIOUS
    <3>1. PICK t \in files : /\ wk.entry = [time |-> t, succeeded |-> Storage = "minio"]
                             /\ t <= now
                             /\ Stamped(wk.obj, t)
      BY DEF LogInv
    <3>2. t \in Nat
      BY DEF LogInv, IInv, TypeOK
    <3>3. t <= now'
      BY <1>0, <2>1, <3>1, <3>2
    <3>4. QED
      BY <3>1, <3>3, Zenon
  <2>5. QED
    BY <1>0, <2>1, <2>2, <2>3, <2>4 DEF LogInv
<1>7. CASE UNCHANGED vars
  <2>1. UNCHANGED <<server, cache, queued, wk, files, now>>
    BY <1>7 DEF vars
  <2>2. QED
    BY <1>0, <2>1, Zenon DEF LogInv, Stamped
<1>8. QED
  BY <1>1, <1>2, <1>3, <1>4, <1>5, <1>6, <1>7 DEF Next



(* Under LogInv every step of the controller, the informer, the user and  *)
(* the clock is a step of the backup log or leaves its state alone.        *)
LEMMA StepLog == LogInv /\ [Next]_vars => [Log!Next]_Log!logVars
<1> SUFFICES ASSUME LogInv, [Next]_vars PROVE [Log!Next]_Log!logVars
  OBVIOUS
<1> USE BoundsAssumption
<1> DEFINE Kept == UNCHANGED <<server.history, files, now, server.succeeded, server.last>>
<1>0. server \in Object
  BY DEF LogInv, IInv, TypeOK
<1>1. CASE Dequeue \/ InformerSync
  <2>1. Kept
    BY <1>1 DEF Dequeue, InformerSync
  <2>2. QED
    BY <2>1 DEF Log!logVars
<1>2. CASE Backup
  <2>1. CASE Requeue /\ UNCHANGED files
    <3>1. Kept
      BY <1>2, <2>1 DEF Backup, StoredEntry
    <3>2. QED
      BY <3>1 DEF Log!logVars
  <2>2. CASE files' = files \cup {now}
    <3>1. Log!Store
      BY <1>2, <2>2 DEF Backup, StoredEntry, Log!Store
    <3>2. QED
      BY <3>1 DEF Log!Next
  <2>3. QED
    BY <1>2, <2>1, <2>2 DEF Backup, StoredEntry
<1>3. CASE UpdateStatus
  <2>1. CASE /\ wk.obj.rv = server.rv
             /\ server' = [Updated(wk.obj, wk.entry) EXCEPT !.rv = server.rv + 1]
             /\ wk' = [pc |-> "idle"]
             /\ UNCHANGED queued
    <3>1. wk.pc = "update" /\ UNCHANGED <<files, now>>
      BY <1>3 DEF UpdateStatus
    <3>2. PICK t \in files : /\ wk.entry = [time |-> t, succeeded |-> Storage = "minio"]
                             /\ t <= now
                             /\ Stamped(wk.obj, t)
      BY <3>1 DEF LogInv
    <3>3. wk.obj = server
      BY <2>1, <3>1 DEF LogInv, IInv, Fresh
    <3>4. wk.entry \in Entry /\ t \in 0..MaxTime
      BY <3>1 DEF LogInv, IInv, WorkerOK, TypeOK
    <3>5. wk.entry.time = t /\ wk.entry.succeeded = (Storage = "minio")
      BY <3>2
    <3>6. /\ server'.history = Append(server.history, wk.entry)
          /\ server'.succeeded = (server.succeeded \/ wk.entry.succeeded)
          /\ server'.last = IF wk.entry.succeeded THEN wk.entry.time ELSE server.last
      <4>1. Updated(server, wk.entry) \in Object
        BY <1>0, <3>4, UpdatedType
      <4>2. server.rv + 1 \in Nat
        BY <1>0 DEF Object
      <4>3. LET o == [Updated(server, wk.entry) EXCEPT !.rv = server.rv + 1]
            IN  /\ o.history = Updated(server, wk.entry).history
                /\ o.succeeded = Updated(server, wk.entry).succeeded
                /\ o.last = Updated(server, wk.entry).last
        BY <4>1, <4>2, RvUpdate
      <4>4. /\ Updated(server, wk.entry).history = Append(server.history, wk.entry)
            /\ Updated(server, wk.entry).succeeded = (server.succeeded \/ wk.entry.succeeded)
            /\ Updated(server, wk.entry).last
                 = IF wk.entry.succeeded THEN wk.entry.time ELSE server.last
        BY <1>0, <3>4, UpdatedType, UpdatedStatus
      <4>5. QED
        BY <2>1, <3>3, <4>3, <4>4
    <3>7. \A i \in 1..Len(server.history) : server.history[i].time <= t
      BY <3>2, <3>3 DEF Stamped
    <3>8. Log!Record(t)
      BY <3>1, <3>2, <3>5, <3>6, <3>7 DEF Log!Record
    <3>9. QED
      BY <3>4, <3>8 DEF Log!Next
  <2>2. CASE wk.obj.rv # server.rv /\ Requeue /\ UNCHANGED server
    <3>1. Kept
      BY <1>3, <2>2 DEF UpdateStatus
    <3>2. QED
      BY <3>1 DEF Log!logVars
  <2>3. QED
    BY <1>3, <2>1, <2>2 DEF UpdateStatus
<1>4. CASE UserEdit
  <2>1. server.rv + 1 \in Nat
    BY <1>0 DEF Object
  <2>2. LET o == [server EXCEPT !.rv = server.rv + 1]
        IN  o.history = server.history /\ o.succeeded = server.succeeded
            /\ o.last = server.last
    BY <1>0, <2>1, RvUpdate
  <2>3. Kept
    BY <1>4, <2>2 DEF UserEdit
  <2>4. QED
    BY <2>3 DEF Log!logVars
<1>5. CASE Tick
  <2>1. Log!Tick
    BY <1>5 DEF Tick, Log!Tick
  <2>2. QED
    BY <2>1 DEF Log!Next
<1>6. CASE UNCHANGED vars
  <2>1. Kept
    BY <1>6 DEF vars
  <2>2. QED
    BY <2>1 DEF Log!logVars
<1>7. QED
  BY <1>1, <1>2, <1>3, <1>4, <1>5, <1>6 DEF Next

-----------------------------------------------------------------------------

(* For either storage and every bound, the controller keeps a log of      *)
(* backups in the object's status: through the informer's lag, the        *)
(* user's edits, failed snapshots or uploads and Conflicts, the status     *)
(* only changes by one entry appended for a file already in the bucket,   *)
(* no earlier than the entries before it, with Succeeded and               *)
(* LastSucceededTime set from that entry.                                  *)
THEOREM ControllerRefinesBackupLog == Spec => RefinesBackupLog
<1>1. Init => Log!Init
  BY DEF Init, Log!Init
<1>2. Spec => []LogInv
  BY InitLogInv, NextLogInv, PTL DEF Spec
<1>3. QED
  BY <1>1, <1>2, StepLog, PTL DEF Spec, RefinesBackupLog, Log!Spec

=============================================================================
