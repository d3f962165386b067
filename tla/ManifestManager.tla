--------------------------- MODULE ManifestManager ---------------------------
(***************************************************************************)
(* The manifest index of go/pkg/cmd/repoindexer/manifest.go, shared by    *)
(* concurrent clients of one bucket.                                       *)
(*                                                                         *)
(*  - the indexer writes manifest_<key>.json with ManifestManager.Update, *)
(*    the execution key growing from one run to the next;                 *)
(*  - readers call GetLatest: List the bucket, parse the keys, Get the     *)
(*    manifest of the largest one;                                         *)
(*  - garbage collectors call FindExpiredManifests (List, parse, sort,     *)
(*    Get every manifest but the two newest) and Delete what it returned. *)
(*                                                                         *)
(* Every MinIO call is atomic on its own; nothing makes List and the Get  *)
(* or Delete that follows it atomic, so the calls of different clients   *)
(* interleave between them.  A file name is represented by its execution  *)
(* key; strconv.ParseInt(s, 10, 32) accepts a key only up to ParseMax,    *)
(* the scaled-down 2^31 - 1, though ExecutionKey is a uint64.             *)
(*                                                                         *)
(* The callers of the manager are not part of the sources at hand; the   *)
(* indexer's key choice and the collector's loop are modelled from the    *)
(* specification (GC step (d)).                                            *)
(***************************************************************************)
EXTENDS Naturals, FiniteSets

CONSTANTS
    Key,       \* the execution keys the indexer may use
    ParseMax,  \* the largest key strconv.ParseInt(s, 10, 32) accepts
    Reader,    \* the clients calling GetLatest
    Collector  \* the clients calling FindExpiredManifests, then Delete

ASSUME KeyAssumption == Key \subseteq Nat /\ IsFiniteSet(Key)
ASSUME ParseMaxAssumption == ParseMax \in Nat

VARIABLES
    store,     \* the keys of the manifest_<key>.json objects in the bucket
    written,   \* every key Update has put so far (history)
    rdPc,      \* where the GetLatest call of a reader is
    rdLatest,  \* the key GetLatest picked from its List (0: none)
    rdResult,  \* the outcome of the reader's last GetLatest
    gcPc,      \* where the collector is
    gcTodo,    \* the expired keys FindExpiredManifests still has to Get
    gcFound    \* the manifests FindExpiredManifests returned, to Delete

vars == <<store, written, rdPc, rdLatest, rdResult, gcPc, gcTodo, gcFound>>

Results == {"none", "ok", "parseError", "notFound", "getError"}

(* strconv.ParseInt(s, 10, 32) fails on a key of the listing.             *)
ParseFails(S) == \E k \in S : k > ParseMax

(* sort.Slice(timestamps, >) then timestamps[2:]: the keys of the listing *)
(* below two larger ones (keys are distinct file names).  MCManifestManager *)
(* checks it against the sort and the slice themselves.                    *)
Expired(S) == {k \in S : \E a, b \in S : a # b /\ k < a /\ k < b}

TypeOK ==
    /\ store \subseteq Key
    /\ written \subseteq Key
    /\ rdPc \in [Reader -> {"idle", "get"}]
    /\ rdLatest \in [Reader -> Key \cup {0}]
    /\ rdResult \in [Reader -> Results]
    /\ gcPc \in [Collector -> {"idle", "get", "delete"}]
    /\ gcTodo \in [Collector -> SUBSET Key]
    /\ gcFound \in [Collector -> SUBSET Key]

Init ==
    /\ store = {}
    /\ written = {}
    /\ rdPc = [r \in Reader |-> "idle"]
    /\ rdLatest = [r \in Reader |-> 0]
    /\ rdResult = [r \in Reader |-> "none"]
    /\ gcPc = [g \in Collector |-> "idle"]
    /\ gcTodo = [g \in Collector |-> {}]
    /\ gcFound = [g \in Collector |-> {}]

-----------------------------------------------------------------------------
(* Update: Put manifest_<key>.json.  The indexer uses a key above every   *)
(* key it used before (execution keys increase).  A failed Put changes    *)
(* nothing.                                                                *)
Update(k) ==
    /\ \A j \in written : j < k
    /\ store' = store \cup {k}
    /\ written' = written \cup {k}
    /\ UNCHANGED <<rdPc, rdLatest, rdResult, gcPc, gcTodo, gcFound>>

(* GetLatest, up to the Get: List, skip non-manifests, parse every key,   *)
(* keep the largest (latest starts at int64(0)); a parse error, or latest *)
(* still 0, ends the call.                                                 *)
GetLatestList(r) ==
    /\ rdPc[r] = "idle"
    /\ \/ /\ ParseFails(store)
          /\ rdResult' = [rdResult EXCEPT ![r] = "parseError"]
          /\ UNCHANGED <<rdPc, rdLatest>>
       \/ /\ ~ParseFails(store)
          /\ \A k \in store : k = 0
          /\ rdResult' = [rdResult EXCEPT ![r] = "notFound"]
          /\ UNCHANGED <<rdPc, rdLatest>>
       \/ /\ ~ParseFails(store)
          /\ \E k \in store :
                /\ k # 0
                /\ \A j \in store : j <= k
                /\ rdPc' = [rdPc EXCEPT ![r] = "get"]
                /\ rdLatest' = [rdLatest EXCEPT ![r] = k]
          /\ UNCHANGED rdResult
    /\ UNCHANGED <<store, written, gcPc, gcTodo, gcFound>>

(* GetLatest: Get manifest_<latest>.json and decode it.                    *)
GetLatestGet(r) ==
    /\ rdPc[r] = "get"
    /\ rdResult' = [rdResult EXCEPT ![r] =
                        IF rdLatest[r] \in store THEN "ok" ELSE "getError"]
    /\ rdPc' = [rdPc EXCEPT ![r] = "idle"]
    /\ rdLatest' = [rdLatest EXCEPT ![r] = 0]
    /\ UNCHANGED <<store, written, gcPc, gcTodo, gcFound>>

(* Plausible bug: cleanup starts only above three manifests.             *)
FindExpiredListLate(g) ==
    /\ gcPc[g] = "idle"
    /\ \/ /\ ParseFails(store) \/ Cardinality(store) <= 3
          /\ UNCHANGED <<gcPc, gcTodo>>
       \/ /\ ~ParseFails(store)
          /\ Cardinality(store) > 3
          /\ gcPc' = [gcPc EXCEPT ![g] = "get"]
          /\ gcTodo' = [gcTodo EXCEPT ![g] = Expired(store)]
    /\ UNCHANGED <<store, written, rdPc, rdLatest, rdResult, gcFound>>

(* Plausible bug: timestamps[1:], keeping only the newest manifest.       *)
FindExpiredListKeepOne(g) ==
    /\ gcPc[g] = "idle"
    /\ \/ /\ ParseFails(store) \/ Cardinality(store) < 3
          /\ UNCHANGED <<gcPc, gcTodo>>
       \/ /\ ~ParseFails(store)
          /\ Cardinality(store) >= 3
          /\ gcPc' = [gcPc EXCEPT ![g] = "get"]
          /\ gcTodo' = [gcTodo EXCEPT ![g] = {k \in store : \E a \in store : k < a}]
    /\ UNCHANGED <<store, written, rdPc, rdLatest, rdResult, gcFound>>

(* FindExpiredManifests, up to the Gets: List, parse, and with three       *)
(* manifests or more sort them and keep timestamps[2:] as the targets.     *)
FindExpiredList(g) ==
    /\ gcPc[g] = "idle"
    /\ \/ /\ ParseFails(store) \/ Cardinality(store) < 3
          /\ UNCHANGED <<gcPc, gcTodo>>
       \/ /\ ~ParseFails(store)
          /\ Cardinality(store) >= 3
          /\ gcPc' = [gcPc EXCEPT ![g] = "get"]
          /\ gcTodo' = [gcTodo EXCEPT ![g] = Expired(store)]
    /\ UNCHANGED <<store, written, rdPc, rdLatest, rdResult, gcFound>>

(* FindExpiredManifests: m.Get the next target in descending order; an    *)
(* error (the object is gone) fails the whole call, which returns nil.    *)
FindExpiredGet(g) ==
    /\ gcPc[g] = "get"
    /\ gcTodo[g] # {}
    /\ \E k \in gcTodo[g] :
       /\ \A j \in gcTodo[g] : j <= k
       /\ \/ /\ k \in store
             /\ gcTodo' = [gcTodo EXCEPT ![g] = @ \ {k}]
             /\ gcFound' = [gcFound EXCEPT ![g] = @ \cup {k}]
             /\ UNCHANGED gcPc
          \/ /\ k \notin store
             /\ gcPc' = [gcPc EXCEPT ![g] = "idle"]
             /\ gcTodo' = [gcTodo EXCEPT ![g] = {}]
             /\ gcFound' = [gcFound EXCEPT ![g] = {}]
    /\ UNCHANGED <<store, written, rdPc, rdLatest, rdResult>>

(* FindExpiredManifests returns the manifests it got.                     *)
FindExpiredReturn(g) ==
    /\ gcPc[g] = "get"
    /\ gcTodo[g] = {}
    /\ gcPc' = [gcPc EXCEPT ![g] = "delete"]
    /\ UNCHANGED <<store, written, rdPc, rdLatest, rdResult, gcTodo, gcFound>>

(* Delete: remove manifest.filename; removing a missing object succeeds.  *)
Delete(g) ==
    /\ gcPc[g] = "delete"
    /\ \/ \E k \in gcFound[g] :
            /\ store' = store \ {k}
            /\ gcFound' = [gcFound EXCEPT ![g] = @ \ {k}]
            /\ UNCHANGED gcPc
       \/ /\ gcFound[g] = {}
          /\ gcPc' = [gcPc EXCEPT ![g] = "idle"]
          /\ UNCHANGED <<store, gcFound>>
    /\ UNCHANGED <<written, rdPc, rdLatest, rdResult, gcTodo>>

Next ==
    \/ \E k \in Key : Update(k)
    \/ \E r \in Reader : GetLatestList(r) \/ GetLatestGet(r)
    \/ \E g \in Collector :
        \/ FindExpiredList(g)
        \/ FindExpiredGet(g)
        \/ FindExpiredReturn(g)
        \/ Delete(g)

(* The collector runs on a timer and its MinIO calls return; nothing     *)
(* obliges the indexer to write or a reader to read.                      *)
Fairness ==
    \A g \in Collector :
        WF_vars(FindExpiredList(g) \/ FindExpiredGet(g)
                \/ FindExpiredReturn(g) \/ Delete(g))

Spec == Init /\ [][Next]_vars /\ Fairness

-----------------------------------------------------------------------------
(* Properties.                                                             *)

(* The two largest keys of S: no two distinct keys of S lie above them.  *)
Newest(S) == {k \in S : \A a, b \in S : k < a /\ k < b => a = b}

(* The collectors, however they interleave with each other and with the  *)
(* indexer, never delete one of the two newest manifests ever written:    *)
(* FindExpiredManifests keeps the two largest keys of every listing.      *)
RetainsNewestTwo == Newest(written) \subseteq store

(* Once the indexer stops writing, the collectors eventually bring the    *)
(* bucket down to the two newest manifests, even when their runs fail on *)
(* each other's deletions.                                                 *)
EventuallyPruned == <>[](Cardinality(store) <= 2)

(* A GetLatest whose List found a latest manifest also reads it: the Get  *)
(* of that key does not fail.                                              *)
GetLatestReadsListed == \A r \in Reader : rdResult[r] # "getError"

=============================================================================
