------------------------ MODULE ManifestManagerProofs ------------------------
(***************************************************************************)
(* Proofs about ManifestManager for every set of keys, readers and        *)
(* collectors and every parse limit: the type invariant, and that the     *)
(* collectors never delete one of the two newest manifests written.       *)
(*                                                                         *)
(* RetainsNewestTwo is not inductive by itself: a collector deletes what  *)
(* it listed earlier, after the indexer may have written more.  It rests  *)
(* on two facts:                                                           *)
(*   - the bucket only holds manifests Update wrote (StoreWritten);       *)
(*   - every key a collector still has to Get or Delete has two distinct  *)
(*     written keys above it (TargetsExpired).  FindExpiredManifests takes *)
(*     its targets from a listing of the bucket, whose keys were written, *)
(*     and written keys are never forgotten, so a key that had two larger *)
(*     ones when it was listed still has them when it is deleted.         *)
(***************************************************************************)
EXTENDS ManifestManager, TLAPS

StoreWritten == store \subseteq written

TargetsExpired ==
    \A g \in Collector : gcTodo[g] \cup gcFound[g] \subseteq written \ Newest(written)

IInv ==
    /\ TypeOK
    /\ StoreWritten
    /\ RetainsNewestTwo
    /\ TargetsExpired

-----------------------------------------------------------------------------

(* A key with two distinct written keys above it keeps them when the      *)
(* indexer writes more: Newest only shrinks back into the new keys.       *)
LEMMA NewestGrow ==
    ASSUME NEW S, NEW T, NEW m \in Newest(S \cup T), m \notin T
    PROVE  m \in Newest(S)
BY DEF Newest

(* The targets of a listing are no newest manifest of anything holding    *)
(* that listing.                                                           *)
LEMMA ExpiredNotNewest ==
    ASSUME NEW S, NEW W, S \subseteq W
    PROVE  Expired(S) \subseteq W \ Newest(W)
BY DEF Expired, Newest

LEMMA InitIInv == Init => IInv
BY DEF Init, IInv, TypeOK, Results, StoreWritten, RetainsNewestTwo,
       TargetsExpired, Newest

LEMMA NextIInv == IInv /\ [Next]_vars => IInv'
<1> SUFFICES ASSUME IInv, [Next]_vars PROVE IInv'
    OBVIOUS
<1> USE KeyAssumption
<1>1. ASSUME NEW k \in Key, Update(k) PROVE IInv'
  <2>1. TypeOK'
    BY <1>1 DEF IInv, TypeOK, Update
  <2>2. StoreWritten'
    BY <1>1 DEF IInv, StoreWritten, Update
  <2>3. RetainsNewestTwo'
    <3> SUFFICES ASSUME NEW m \in Newest(written') PROVE m \in store'
      BY DEF RetainsNewestTwo
    <3>1. CASE m = k
      BY <1>1, <3>1 DEF Update
    <3>2. CASE m # k
      <4>1. m \in Newest(written)
        BY <1>1, <3>2, NewestGrow DEF Update
      <4>2. QED
        BY <1>1, <4>1 DEF IInv, RetainsNewestTwo, Update
    <3>3. QED
      BY <3>1, <3>2
  <2>4. TargetsExpired'
    BY <1>1 DEF IInv, TargetsExpired, Update, Newest
  <2>5. QED
    BY <2>1, <2>2, <2>3, <2>4 DEF IInv
<1>2. ASSUME NEW r \in Reader, GetLatestList(r) PROVE IInv'
  <2>1. UNCHANGED <<store, written, gcPc, gcTodo, gcFound>>
    BY <1>2 DEF GetLatestList
  <2>2. rdPc' \in [Reader -> {"idle", "get"}]
    BY <1>2 DEF IInv, TypeOK, GetLatestList
  <2>3. rdLatest' \in [Reader -> Key \cup {0}]
    BY <1>2 DEF IInv, TypeOK, GetLatestList
  <2>4. rdResult' \in [Reader -> Results]
    BY <1>2 DEF IInv, TypeOK, Results, GetLatestList
  <2>5. QED
    BY <2>1, <2>2, <2>3, <2>4 DEF IInv, TypeOK, StoreWritten,
                                  RetainsNewestTwo, TargetsExpired
<1>3. ASSUME NEW r \in Reader, GetLatestGet(r) PROVE IInv'
  BY <1>3 DEF IInv, TypeOK, Results, GetLatestGet, StoreWritten,
              RetainsNewestTwo, TargetsExpired
<1>4. ASSUME NEW g \in Collector, FindExpiredList(g) PROVE IInv'
  <2>1. Expired(store) \subseteq written \ Newest(written)
    BY ExpiredNotNewest DEF IInv, StoreWritten
  <2>2. Expired(store) \subseteq Key
    BY DEF IInv, TypeOK, Expired
  <2>3. QED
    BY <1>4, <2>1, <2>2 DEF IInv, TypeOK, FindExpiredList, StoreWritten,
                           RetainsNewestTwo, TargetsExpired
<1>5. ASSUME NEW g \in Collector, FindExpiredGet(g) PROVE IInv'
  <2>1. PICK k \in gcTodo[g] :
            /\ \/ /\ k \in store
                  /\ gcTodo' = [gcTodo EXCEPT ![g] = @ \ {k}]
                  /\ gcFound' = [gcFound EXCEPT ![g] = @ \cup {k}]
                  /\ UNCHANGED gcPc
               \/ /\ k \notin store
                  /\ gcPc' = [gcPc EXCEPT ![g] = "idle"]
                  /\ gcTodo' = [gcTodo EXCEPT ![g] = {}]
                  /\ gcFound' = [gcFound EXCEPT ![g] = {}]
            /\ UNCHANGED <<store, written, rdPc, rdLatest, rdResult>>
    BY <1>5 DEF FindExpiredGet
  <2>2. QED
    BY <2>1 DEF IInv, TypeOK, StoreWritten, RetainsNewestTwo, TargetsExpired
<1>6. ASSUME NEW g \in Collector, FindExpiredReturn(g) PROVE IInv'
  BY <1>6 DEF IInv, TypeOK, FindExpiredReturn, StoreWritten,
              RetainsNewestTwo, TargetsExpired
<1>7. ASSUME NEW g \in Collector, Delete(g) PROVE IInv'
  <2>1. CASE \E k \in gcFound[g] :
               /\ store' = store \ {k}
               /\ gcFound' = [gcFound EXCEPT ![g] = @ \ {k}]
               /\ UNCHANGED gcPc
               /\ UNCHANGED <<written, rdPc, rdLatest, rdResult, gcTodo>>
    <3>1. PICK k \in gcFound[g] :
               /\ store' = store \ {k}
               /\ gcFound' = [gcFound EXCEPT ![g] = @ \ {k}]
               /\ UNCHANGED gcPc
               /\ UNCHANGED <<written, rdPc, rdLatest, rdResult, gcTodo>>
      BY <2>1
    <3>2. k \notin Newest(written)
      BY <3>1 DEF IInv, TargetsExpired
    <3>3. QED
      BY <3>1, <3>2 DEF IInv, TypeOK, StoreWritten, RetainsNewestTwo,
                       TargetsExpired
  <2>5. CASE /\ gcFound[g] = {}
             /\ gcPc' = [gcPc EXCEPT ![g] = "idle"]
             /\ UNCHANGED <<store, gcFound>>
             /\ UNCHANGED <<written, rdPc, rdLatest, rdResult, gcTodo>>
    BY <2>5 DEF IInv, TypeOK, StoreWritten, RetainsNewestTwo, TargetsExpired
  <2>6. QED
    BY <1>7, <2>1, <2>5 DEF Delete
<1>8. CASE UNCHANGED vars
  BY <1>8 DEF vars, IInv, TypeOK, StoreWritten, RetainsNewestTwo,
              TargetsExpired
<1>9. QED
  BY <1>1, <1>2, <1>3, <1>4, <1>5, <1>6, <1>7, <1>8 DEF Next

-----------------------------------------------------------------------------

(* Every reachable state of the manifest index is well typed.             *)
THEOREM TypeCorrect == Spec => []TypeOK
<1>1. IInv => TypeOK
  BY DEF IInv
<1>2. QED
  BY InitIInv, NextIInv, <1>1, PTL DEF Spec

(* However the collectors' List, Get and Delete calls interleave with     *)
(* each other and with the indexer's Update, the two newest manifests     *)
(* ever written stay in the bucket.                                        *)
THEOREM NewestTwoRetained == Spec => []RetainsNewestTwo
<1>1. IInv => RetainsNewestTwo
  BY DEF IInv
<1>2. QED
  BY InitIInv, NextIInv, <1>1, PTL DEF Spec

=============================================================================
