------------------------------ MODULE BackupLog ------------------------------
(***************************************************************************)
(* What the ConsulBackup controller promises about one object: a log of   *)
(* backups in its status.  A backup file is stored under the current       *)
(* second; afterwards an entry naming a stored file may be added at the    *)
(* end of the history, never before an entry of a later second, and the   *)
(* status records the success of a MinIO backup with it.  Storing and     *)
(* recording are separate steps: a file may be stored and never recorded. *)
(***************************************************************************)
EXTENDS Naturals, Sequences

CONSTANTS Storage, MaxTime

VARIABLES
    history,    \* Status.History
    files,      \* the seconds of the backup files in the bucket
    now,        \* the wall clock, in seconds
    succeeded,  \* Status.Succeeded
    last        \* Status.LastSucceededTime

logVars == <<history, files, now, succeeded, last>>

Init ==
    /\ history = <<>>
    /\ files = {}
    /\ now = 0
    /\ succeeded = FALSE
    /\ last = 0

(* A snapshot is stored as the backup file of the current second.         *)
Store ==
    /\ files' = files \cup {now}
    /\ UNCHANGED <<history, now, succeeded, last>>

(* The backup of second t, already stored, is added to the history after  *)
(* every entry, none of which is later; only MinIO reports success.       *)
Record(t) ==
    /\ t \in files
    /\ t <= now
    /\ \A i \in 1..Len(history) : history[i].time <= t
    /\ history' = Append(history, [time |-> t, succeeded |-> Storage = "minio"])
    /\ succeeded' = (succeeded \/ Storage = "minio")
    /\ last' = IF Storage = "minio" THEN t ELSE last
    /\ UNCHANGED <<files, now>>

Tick ==
    /\ now < MaxTime
    /\ now' = now + 1
    /\ UNCHANGED <<history, files, succeeded, last>>

Next == Store \/ (\E t \in 0..MaxTime : Record(t)) \/ Tick

Spec == Init /\ [][Next]_logVars

=============================================================================
