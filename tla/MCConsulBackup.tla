--------------------------- MODULE MCConsulBackup ---------------------------
(* Five seconds of clock, so that backups fall in the same second and in  *)
(* different ones; five history entries, so that a stale copy of the     *)
(* object can be reconciled after newer entries were written and edits.  *)
EXTENDS ConsulBackup
=============================================================================
