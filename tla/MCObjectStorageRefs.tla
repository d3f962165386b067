------------------------ MODULE MCObjectStorageRefs -------------------------
(* Two references and two hashes: enough for a CheckAndSet to find the    *)
(* other hash, for packed-refs to hold a reference besides the one         *)
(* removed, and for a loose reference to shadow a packed one.             *)
EXTENDS ObjectStorageRefs

CONSTANTS ra, rb, h1, h2, c1, c2

MCRefName == {ra, rb}
MCHash == {h1, h2}
MCOneClient == {c1}
MCTwoClients == {c1, c2}
=============================================================================
