------------------------- MODULE MCManifestManager --------------------------
(* Five execution keys, 0 among them (GetLatest's latest == 0), so that a *)
(* listing holds three manifests or more, a collector has targets, and    *)
(* the indexer can write again while a collector deletes; two collectors, *)
(* so that their runs race (two replicas each running the GC); one reader *)
(* of the latest manifest.                                                 *)
EXTENDS ManifestManager, SequencesExt

CONSTANTS r1, g1, g2

MCKey == 0..4
MCReader == {r1}
MCCollector == {g1, g2}

(* Expired is what FindExpiredManifests computes: sort the keys of the   *)
(* listing in descending order and keep timestamps[2:].                   *)
ASSUME ExpiredIsSortedTail ==
    \A S \in SUBSET MCKey :
        Expired(S) = ToSet(SubSeq(SetToSortSeq(S, >), 3, Cardinality(S)))
=============================================================================
