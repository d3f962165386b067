------------------------ MODULE ObjectStorageRefsProofs ------------------------
(***************************************************************************)
(* A proof that one client's use of ObjectStorageStorer implements the    *)
(* atomic reference store RefStore, on a bucket that starts without a     *)
(* git-written packed-refs (the instance of the run refs_single_writer),  *)
(* for every set of names and hashes.                                      *)
(*                                                                         *)
(* The argument has two halves.                                            *)
(*   - packed-refs never resolves a reference: the only entries this      *)
(*     storer writes come from readRefs, which names a loose reference    *)
(*     by its trimmed name, and RemoveReference only keeps entries.  So   *)
(*     Resolved is the loose references (ResolvedIsLoose).                 *)
(*   - With one client nothing changes a reference between the Get and    *)
(*     the Put of CheckAndSetReference (CasChecked), so the Put is the    *)
(*     atomic store's ApplyCheckAndSet.                                    *)
(* The proof needs that no reference name is the trimmed name of another  *)
(* (refs/heads/x is never /heads/y); the two clients of refs_cas_race     *)
(* show the second half failing.                                           *)
(***************************************************************************)
EXTENDS ObjectStorageRefs, TLAPS

(* No name of a reference is the name readRefs gives a loose one.          *)
NamesDistinct == \A n, m \in RefName : Trimmed(m) # n

(* Every entry of a set of packed-refs lines names a reference by the     *)
(* name readRefs gives it.                                                 *)
TrimmedOnly(E) == \A e \in E : e[1] \in {Trimmed(m) : m \in RefName}

(* The operation a client is in, with its arguments.                      *)
PcStates ==
    {Idle}
    \cup [op : {"casPut"}, name : RefName, old : Hash, new : Hash]
    \cup [op : {"rmRead"}, name : RefName]
    \cup [op : {"rmWrite"}, name : RefName, file : PackedFiles]
    \cup [op : {"packWrite"}, entries : SUBSET (Names \X Hash)]

(* A CheckAndSet between its Get and its Put still sees the hash it      *)
(* checked.                                                                *)
CasChecked ==
    \A c \in Client : pc[c].op = "casPut" => loose[pc[c].name] = pc[c].old

IInv ==
    /\ TypeOK
    /\ pc \in [Client -> PcStates]
    /\ TrimmedOnly(packed.entries)
    /\ \A c \in Client : pc[c].op = "rmWrite" => TrimmedOnly(pc[c].file.entries)
    /\ \A c \in Client : pc[c].op = "packWrite" => TrimmedOnly(pc[c].entries)
    /\ CasChecked

-----------------------------------------------------------------------------

(* RemoveReference's rewrite of packed-refs keeps a subset of its lines. *)
LEMMA RewrittenKeeps ==
    ASSUME NEW f \in PackedFiles, NEW n
    PROVE  /\ Rewritten(f, n) \in PackedFiles
           /\ Rewritten(f, n).entries \subseteq f.entries
BY DEF Rewritten, PackedFiles

(* Where packed-refs holds trimmed names only, a reference resolves to   *)
(* its loose object.                                                       *)
LEMMA ResolvedIsLoose ==
    ASSUME NamesDistinct, TypeOK, TrimmedOnly(packed.entries)
    PROVE  Resolved = loose
<1>1. \A n \in RefName : PackedValue(n) = None
  BY DEF NamesDistinct, TrimmedOnly, PackedValue
<1>2. QED
  BY <1>1 DEF Resolved, TypeOK

LEMMA InitIInv ==
    ASSUME InitPacked = FALSE
    PROVE  Init => IInv
<1> SUFFICES ASSUME Init PROVE IInv
  OBVIOUS
<1>1. packed = Absent
  BY DEF Init
<1>2. pc = [c \in Client |-> Idle]
  BY DEF Init
<1>3. TypeOK
  <2>1. packed \in PackedFiles
    BY <1>1 DEF Absent, PackedFiles
  <2>2. \A c \in Client : pc[c].op \in {"idle", "casPut", "rmRead", "rmWrite", "packWrite"}
    BY <1>2 DEF Idle
  <2>3. QED
    BY <2>1, <2>2 DEF Init, TypeOK, ObjectStates, FileStates
<1>4. pc \in [Client -> PcStates]
  BY <1>2 DEF PcStates
<1>5. TrimmedOnly(packed.entries)
  BY <1>1 DEF Absent, TrimmedOnly
<1>6. QED
  BY <1>2, <1>3, <1>4, <1>5 DEF IInv, CasChecked, Idle

(* The conjuncts of IInv other than the types of pc and packed, unchanged *)
(* by a step that leaves these variables alone.                            *)
LEMMA NextIInv ==
    ASSUME NEW c0, Client = {c0}
    PROVE  IInv /\ [Next]_vars => IInv'
<1> SUFFICES ASSUME IInv, [Next]_vars PROVE IInv'
  OBVIOUS
<1> USE DEF IInv
<1>1. ASSUME NEW c \in Client, NEW n \in RefName, NEW h \in Hash,
             SetReference(c, n, h)
      PROVE  IInv'
  <2>1. pc[c] = Idle /\ c = c0
    BY <1>1 DEF SetReference
  <2>2. CasChecked'
    BY <1>1, <2>1 DEF SetReference, CasChecked, Idle
  <2>3. QED
    BY <1>1, <2>2 DEF SetReference, TypeOK, files
<1>2. ASSUME NEW c \in Client, NEW n \in RefName, NEW o \in Hash, NEW h \in Hash,
             CheckAndSetGet(c, n, o, h)
      PROVE  IInv'
  <2>1. pc' = [pc EXCEPT ![c] = [op |-> "casPut", name |-> n, old |-> o, new |-> h]]
    BY <1>2 DEF CheckAndSetGet
  <2>2. pc' \in [Client -> PcStates]
    BY <2>1 DEF PcStates
  <2>3. CasChecked'
    BY <1>2, <2>1 DEF CheckAndSetGet, CasChecked
  <2>4. QED
    BY <1>2, <2>1, <2>2, <2>3 DEF CheckAndSetGet, TypeOK, files
<1>3. ASSUME NEW c \in Client, CheckAndSetPut(c)
      PROVE  IInv'
  <2>1. pc[c] \in [op : {"casPut"}, name : RefName, old : Hash, new : Hash]
    BY <1>3 DEF CheckAndSetPut, PcStates, Idle
  <2>2. pc' = [pc EXCEPT ![c] = Idle] /\ c = c0
    BY <1>3 DEF CheckAndSetPut
  <2>3. pc' \in [Client -> PcStates] /\ CasChecked'
    BY <2>2 DEF PcStates, CasChecked, Idle
  <2>4. QED
    BY <1>3, <2>1, <2>2, <2>3 DEF CheckAndSetPut, TypeOK, Idle, files
<1>4. ASSUME NEW c \in Client, NEW n \in RefName, RemoveDelete(c, n)
      PROVE  IInv'
  <2>1. pc' = [pc EXCEPT ![c] = [op |-> "rmRead", name |-> n]] /\ c = c0
    BY <1>4 DEF RemoveDelete
  <2>2. pc' \in [Client -> PcStates] /\ CasChecked'
    BY <2>1 DEF PcStates, CasChecked
  <2>3. QED
    BY <1>4, <2>1, <2>2 DEF RemoveDelete, TypeOK, files
<1>5. ASSUME NEW c \in Client, RemoveRead(c)
      PROVE  IInv'
  <2> DEFINE n == pc[c].name
  <2>1. pc[c] \in [op : {"rmRead"}, name : RefName]
    BY <1>5 DEF RemoveRead, PcStates, Idle
  <2>2. c = c0 /\ UNCHANGED <<loose, packed, files>>
    BY <1>5 DEF RemoveRead
  <2>3. CASE packed.present /\ ~packed.junk /\ \E e \in packed.entries : e[1] = n
    <3>1. pc' = [pc EXCEPT ![c] = [op |-> "rmWrite", name |-> n,
                                   file |-> Rewritten(packed, n)]]
      BY <1>5, <2>3 DEF RemoveRead
    <3>2. Rewritten(packed, n) \in PackedFiles
          /\ TrimmedOnly(Rewritten(packed, n).entries)
      BY RewrittenKeeps DEF TypeOK, TrimmedOnly
    <3>3. pc' \in [Client -> PcStates]
      BY <2>1, <3>1, <3>2 DEF PcStates
    <3>4. \A d \in Client : pc'[d].op = "rmWrite" => TrimmedOnly(pc'[d].file.entries)
      BY <2>2, <3>1, <3>2
    <3>5. \A d \in Client : pc'[d].op \notin {"casPut", "packWrite"}
      BY <2>2, <3>1
    <3>6. TypeOK'
      BY <2>2, <3>1 DEF TypeOK, files
    <3>7. QED
      BY <2>2, <3>3, <3>4, <3>5, <3>6 DEF CasChecked
  <2>4. CASE ~(packed.present /\ ~packed.junk /\ \E e \in packed.entries : e[1] = n)
    <3>1. pc' = [pc EXCEPT ![c] = Idle]
      BY <1>5, <2>4 DEF RemoveRead
    <3>2. pc' \in [Client -> PcStates] /\ \A d \in Client : pc'[d] = Idle
      BY <2>2, <3>1 DEF PcStates
    <3>3. TypeOK'
      BY <2>2, <3>1 DEF TypeOK, Idle, files
    <3>4. QED
      BY <2>2, <3>2, <3>3 DEF CasChecked, Idle
  <2>5. QED
    BY <2>3, <2>4
<1>6. ASSUME NEW c \in Client, RemoveWrite(c)
      PROVE  IInv'
  <2>1. pc[c] \in [op : {"rmWrite"}, name : RefName, file : PackedFiles]
    BY <1>6 DEF RemoveWrite, PcStates, Idle
  <2>2. packed' = pc[c].file /\ TrimmedOnly(pc[c].file.entries)
    BY <1>6, <2>1 DEF RemoveWrite
  <2>3. pc' = [pc EXCEPT ![c] = Idle] /\ c = c0
    BY <1>6 DEF RemoveWrite
  <2>4. pc' \in [Client -> PcStates] /\ \A d \in Client : pc'[d] = Idle
    BY <2>3 DEF PcStates
  <2>5. QED
    BY <1>6, <2>1, <2>2, <2>4 DEF RemoveWrite, TypeOK, CasChecked, Idle, files
<1>7. ASSUME NEW c \in Client, PackRefsRead(c)
      PROVE  IInv'
  <2> DEFINE E == ReadRefs \cup ReadPackedRefs
  <2>1. E \subseteq Names \X Hash /\ TrimmedOnly(E)
    <3>1. E = ReadRefs
      BY DEF ReadPackedRefs
    <3>2. ASSUME NEW m \in RefName, loose[m] # None
          PROVE  /\ <<Trimmed(m), loose[m]>> \in Names \X Hash
                 /\ <<Trimmed(m), loose[m]>>[1] \in {Trimmed(k) : k \in RefName}
      BY <3>2 DEF Names, TypeOK
    <3>3. QED
      BY <3>1, <3>2 DEF ReadRefs, TrimmedOnly
  <2>2. pc' = [pc EXCEPT ![c] = [op |-> "packWrite", entries |-> E]]
        /\ c = c0
    BY <1>7 DEF PackRefsRead
  <2>3. pc' \in [Client -> PcStates]
    BY <2>1, <2>2 DEF PcStates
  <2>4. \A d \in Client : pc'[d].op = "packWrite" => TrimmedOnly(pc'[d].entries)
    BY <2>1, <2>2
  <2>5. \A d \in Client : pc'[d].op \notin {"casPut", "rmWrite"}
    BY <2>2
  <2>6. TypeOK'
    BY <1>7, <2>2 DEF PackRefsRead, TypeOK, files
  <2>7. QED
    BY <1>7, <2>3, <2>4, <2>5, <2>6 DEF PackRefsRead, CasChecked
<1>8. ASSUME NEW c \in Client, PackRefsWrite(c)
      PROVE  IInv'
  <2>1. pc[c] \in [op : {"packWrite"}, entries : SUBSET (Names \X Hash)]
    BY <1>8 DEF PackRefsWrite, PcStates, Idle
  <2>2. packed' \in PackedFiles /\ TrimmedOnly(packed'.entries)
    BY <1>8, <2>1 DEF PackRefsWrite, PackedFiles
  <2>3. pc' = [pc EXCEPT ![c] = Idle] /\ c = c0
    BY <1>8 DEF PackRefsWrite
  <2>4. pc' \in [Client -> PcStates] /\ \A d \in Client : pc'[d] = Idle
    BY <2>3 DEF PcStates
  <2>5. QED
    BY <1>8, <2>2, <2>4 DEF PackRefsWrite, TypeOK, CasChecked, Idle, files
<1>9. ASSUME NEW c \in Client,
             \/ \E h \in Hash : SetEncodedObject(c, h)
             \/ SetConfig(c) \/ SetIndex(c) \/ SetShallow(c)
      PROVE  IInv'
  BY <1>9 DEF SetEncodedObject, SetConfig, SetIndex, SetShallow, TypeOK,
              CasChecked, ObjectStates, FileStates
<1>10. CASE UNCHANGED vars
  BY <1>10 DEF vars, TypeOK, CasChecked
<1>11. QED
  BY <1>1, <1>2, <1>3, <1>4, <1>5, <1>6, <1>7, <1>8, <1>9, <1>10 DEF Next

(* InFlight, one client at a time.                                        *)
KindOf(p) ==
    CASE p.op = "casPut" -> [kind |-> "cas", name |-> p.name, old |-> p.old, new |-> p.new]
      [] p.op = "packWrite" -> [kind |-> "pack"]
      [] OTHER -> [kind |-> "idle"]

LEMMA KindOfValues ==
    ASSUME NEW p
    PROVE  /\ p.op = "casPut" =>
                KindOf(p) = [kind |-> "cas", name |-> p.name, old |-> p.old, new |-> p.new]
           /\ p.op = "packWrite" => KindOf(p) = [kind |-> "pack"]
           /\ p.op \notin {"casPut", "packWrite"} => KindOf(p) = [kind |-> "idle"]
BY DEF KindOf

(* Every step of the one client is a step of the atomic store under the  *)
(* refinement mapping, or leaves the mapped state alone.                   *)
LEMMA StepRefines ==
    ASSUME NEW c0, Client = {c0}, NamesDistinct
    PROVE  IInv /\ IInv' /\ [Next]_vars => [Atomic!Next]_<<Resolved, InFlight>>
<1> SUFFICES ASSUME IInv, IInv', [Next]_vars
             PROVE  [Atomic!Next]_<<Resolved, InFlight>>
  OBVIOUS
<1>0. /\ \A d \in Client : d = c0
      /\ InFlight = [d \in Client |-> KindOf(pc[d])]
      /\ InFlight' = [d \in Client |-> KindOf(pc'[d])]
  BY DEF InFlight, KindOf
<1>1. Resolved = loose
  BY ResolvedIsLoose DEF IInv
<1>2. Resolved' = loose'
  <2>1. \A n \in RefName : PackedValue(n)' = None
    BY DEF IInv, NamesDistinct, TrimmedOnly, PackedValue
  <2>2. QED
    BY <2>1 DEF Resolved, IInv, TypeOK
<1>3. ASSUME NEW c \in Client, NEW n \in RefName, NEW h \in Hash,
             SetReference(c, n, h)
      PROVE  Atomic!Set(c, n, h)
  BY <1>1, <1>2, <1>3 DEF SetReference, Atomic!Set, Atomic!Idle, InFlight, Idle
<1>4. ASSUME NEW c \in Client, NEW n \in RefName, NEW o \in Hash, NEW h \in Hash,
             CheckAndSetGet(c, n, o, h)
      PROVE  Atomic!BeginCheckAndSet(c, n, o, h)
  <2>1. pc[c] = Idle /\ pc'[c] = [op |-> "casPut", name |-> n, old |-> o, new |-> h]
    BY <1>4 DEF CheckAndSetGet, IInv
  <2>2. InFlight[c] = Atomic!Idle
    BY <1>0, <2>1, KindOfValues DEF Idle, Atomic!Idle
  <2>3. InFlight' = [InFlight EXCEPT ![c] = [kind |-> "cas", name |-> n, old |-> o, new |-> h]]
    <3>1. KindOf(pc'[c]) = [kind |-> "cas", name |-> n, old |-> o, new |-> h]
      BY <2>1, KindOfValues
    <3>2. QED
      BY <1>0, <3>1
  <2>4. QED
    BY <1>1, <1>2, <1>4, <2>2, <2>3 DEF CheckAndSetGet, Atomic!BeginCheckAndSet
<1>5. ASSUME NEW c \in Client, CheckAndSetPut(c)
      PROVE  Atomic!ApplyCheckAndSet(c)
  BY <1>1, <1>2, <1>5 DEF CheckAndSetPut, Atomic!ApplyCheckAndSet, Atomic!Idle,
                         InFlight, Idle, IInv, CasChecked
<1>6. ASSUME NEW c \in Client, NEW n \in RefName, RemoveDelete(c, n)
      PROVE  Atomic!Remove(c, n)
  BY <1>1, <1>2, <1>6 DEF RemoveDelete, Atomic!Remove, Atomic!Idle, InFlight, Idle
<1>7. ASSUME NEW c \in Client, RemoveRead(c) \/ RemoveWrite(c)
      PROVE  UNCHANGED <<Resolved, InFlight>>
  <2>1. pc[c].op \in {"rmRead", "rmWrite"} /\ pc'[c].op \in {"rmWrite", "idle"}
    BY <1>7 DEF RemoveRead, RemoveWrite, Idle, IInv
  <2>2. KindOf(pc[c]) = [kind |-> "idle"] /\ KindOf(pc'[c]) = [kind |-> "idle"]
    BY <2>1, KindOfValues
  <2>3. UNCHANGED loose
    BY <1>7 DEF RemoveRead, RemoveWrite
  <2>4. QED
    BY <1>0, <1>1, <1>2, <2>2, <2>3
<1>8. ASSUME NEW c \in Client, PackRefsRead(c)
      PROVE  Atomic!BeginPack(c)
  <2>1. pc[c] = Idle /\ pc'[c].op = "packWrite"
    BY <1>8 DEF PackRefsRead, IInv
  <2>2. InFlight[c] = Atomic!Idle
    BY <1>0, <2>1, KindOfValues DEF Idle, Atomic!Idle
  <2>3. InFlight' = [InFlight EXCEPT ![c] = [kind |-> "pack"]]
    BY <1>0, <2>1, KindOfValues
  <2>4. QED
    BY <1>1, <1>2, <1>8, <2>2, <2>3 DEF PackRefsRead, Atomic!BeginPack
<1>9. ASSUME NEW c \in Client, PackRefsWrite(c)
      PROVE  Atomic!Finish(c)
  <2>1. pc[c].op = "packWrite" /\ pc'[c] = Idle
    BY <1>9 DEF PackRefsWrite, IInv
  <2>2. InFlight[c] # Atomic!Idle
    BY <1>0, <2>1, KindOfValues DEF Atomic!Idle
  <2>3. InFlight' = [InFlight EXCEPT ![c] = Atomic!Idle]
    BY <1>0, <2>1, KindOfValues DEF Idle, Atomic!Idle
  <2>4. QED
    BY <1>1, <1>2, <1>9, <2>2, <2>3 DEF PackRefsWrite, Atomic!Finish
<1>10. ASSUME NEW c \in Client,
              \/ \E h \in Hash : SetEncodedObject(c, h)
              \/ SetConfig(c) \/ SetIndex(c) \/ SetShallow(c)
       PROVE  UNCHANGED <<Resolved, InFlight>>
  BY <1>1, <1>2, <1>10 DEF SetEncodedObject, SetConfig, SetIndex, SetShallow, InFlight
<1>11. CASE UNCHANGED vars
  BY <1>1, <1>2, <1>11 DEF vars, InFlight
<1>12. QED
  BY <1>3, <1>4, <1>5, <1>6, <1>7, <1>8, <1>9, <1>10, <1>11 DEF Next, Atomic!Next

-----------------------------------------------------------------------------

(* One client's SetReference, CheckAndSetReference, RemoveReference and   *)
(* PackRefs calls, on a bucket without a git-written packed-refs, change  *)
(* the references exactly as the atomic store's operations would, for    *)
(* every set of names and hashes: the run refs_single_writer checks the   *)
(* same statement on two names and two hashes.                             *)
THEOREM SingleClientRefinesRefStore ==
    ASSUME NEW c0, Client = {c0}, InitPacked = FALSE, NamesDistinct
    PROVE  Spec => RefinesRefStore
<1>1. Init => Atomic!Init
  <2> SUFFICES ASSUME Init PROVE Atomic!Init
    OBVIOUS
  <2>1. IInv
    BY InitIInv
  <2>2. Resolved \in [RefName -> Hash \cup {None}]
    BY <2>1, ResolvedIsLoose DEF IInv, TypeOK
  <2>3. \A d \in Client : pc[d] = Idle
    BY DEF Init
  <2>4. InFlight = [d \in Client |-> [kind |-> "idle"]]
    BY <2>3, KindOfValues DEF InFlight, KindOf, Idle
  <2>5. QED
    BY <2>2, <2>4 DEF Atomic!Init, Atomic!Idle
<1>2. Spec => []IInv
  BY InitIInv, NextIInv, PTL DEF Spec
<1>3. QED
  BY <1>1, <1>2, StepRefines, PTL DEF Spec, RefinesRefStore, Atomic!Spec


-----------------------------------------------------------------------------
(* RemoveReference, one client, whatever packed-refs git wrote.            *)
(*                                                                         *)
(* RemoveTakesEffect rests on two facts about a RemoveReference between   *)
(* its Delete and its return: nothing has put the loose object back (one  *)
(* client), and the packed-refs it is about to Put names the reference in *)
(* no line that parses.  The types hold for any number of clients.         *)

(* No correctly parsed line of packed-refs file f names n.                *)
Unnamed(f, n) == ~(f.present /\ ~f.junk /\ \E e \in f.entries : e[1] = n)

TypeInv == TypeOK /\ pc \in [Client -> PcStates]

RmInv ==
    /\ TypeInv
    /\ \A c \in Client : pc[c].op \in {"rmRead", "rmWrite"} => loose[pc[c].name] = None
    /\ \A c \in Client : pc[c].op = "rmWrite" => Unnamed(pc[c].file, pc[c].name)

(* The step RemoveTakesEffect asks of every change of the variables.       *)
RemoveDone ==
    \A c \in Client :
        pc[c].op \in {"rmRead", "rmWrite"} /\ pc'[c] = Idle
            => Resolved'[pc[c].name] = None

(* The packed-refs RemoveReference writes back names the reference in no *)
(* line that parses: the header case drops every line, a single kept line *)
(* is another reference's, and two kept lines become one malformed line.  *)
LEMMA RewrittenUnnamed ==
    ASSUME NEW f \in PackedFiles, NEW n
    PROVE  Unnamed(Rewritten(f, n), n)
BY DEF Rewritten, Unnamed, PackedFiles

(* A reference that no parsed line of packed-refs names has no packed     *)
(* value.                                                                  *)
LEMMA UnnamedNoValue ==
    ASSUME NEW n, Unnamed(packed, n)
    PROVE  PackedValue(n) = None
<1>1. ~(packed.present /\ ~packed.junk /\ \E h \in Hash : <<n, h>> \in packed.entries)
  <2>1. ASSUME NEW h \in Hash, <<n, h>> \in packed.entries
        PROVE  \E e \in packed.entries : e[1] = n
    BY <2>1
  <2>2. QED
    BY <2>1, Zenon DEF Unnamed
<1>2. QED
  BY <1>1 DEF PackedValue

(* Every operation a client can be in is one TypeOK names.                *)
LEMMA PcOps ==
    ASSUME NEW x \in PcStates
    PROVE  x.op \in {"idle", "casPut", "rmRead", "rmWrite", "packWrite"}
BY DEF PcStates, Idle

LEMMA InitTypeInv == Init => TypeInv
<1> SUFFICES ASSUME Init PROVE TypeInv
  OBVIOUS
<1>1. packed \in PackedFiles
  <2>1. CASE InitPacked
    <3>1. PICK f \in UNION {[S -> Hash] : S \in SUBSET RefName} : packed = GitPacked(f)
      BY <2>1 DEF Init
    <3>2. PICK S \in SUBSET RefName : f \in [S -> Hash]
      BY <3>1
    <3>3. {<<n, f[n]>> : n \in DOMAIN f} \subseteq Names \X Hash
      BY <3>2 DEF Names
    <3>4. QED
      BY <3>1, <3>3 DEF GitPacked, PackedFiles
  <2>2. CASE ~InitPacked
    <3>1. packed = Absent
      BY <2>2 DEF Init
    <3>2. QED
      BY <3>1 DEF Absent, PackedFiles
  <2>3. QED
    BY <2>1, <2>2
<1>2. pc = [c \in Client |-> Idle]
  BY DEF Init
<1>3. QED
  BY <1>1, <1>2 DEF Init, TypeInv, TypeOK, PcStates, Idle, ObjectStates, FileStates

LEMMA NextTypeInv == TypeInv /\ [Next]_vars => TypeInv'
<1> SUFFICES ASSUME TypeInv, [Next]_vars PROVE TypeInv'
  OBVIOUS
<1> USE DEF TypeInv
(* The types of the other variables follow from pc's.                     *)
<1>0. ASSUME pc' \in [Client -> PcStates], packed' \in PackedFiles,
             UNCHANGED <<loose, files>>
      PROVE  TypeInv'
  <2>1. \A c \in Client : pc'[c].op \in {"idle", "casPut", "rmRead", "rmWrite", "packWrite"}
    BY <1>0, PcOps
  <2>2. QED
    BY <1>0, <2>1 DEF TypeOK, files
<1>1. ASSUME NEW c \in Client, NEW n \in RefName, NEW h \in Hash,
             SetReference(c, n, h)
      PROVE  TypeInv'
  BY <1>1 DEF SetReference, TypeOK, files
<1>2. ASSUME NEW c \in Client, NEW n \in RefName, NEW o \in Hash, NEW h \in Hash,
             CheckAndSetGet(c, n, o, h)
      PROVE  TypeInv'
  <2>1. pc' \in [Client -> PcStates]
    BY <1>2 DEF CheckAndSetGet, PcStates
  <2>2. QED
    BY <1>0, <1>2, <2>1 DEF CheckAndSetGet, TypeOK
<1>3. ASSUME NEW c \in Client, CheckAndSetPut(c)
      PROVE  TypeInv'
  <2>1. pc[c] \in [op : {"casPut"}, name : RefName, old : Hash, new : Hash]
    BY <1>3 DEF CheckAndSetPut, PcStates, Idle
  <2>2. loose' \in [RefName -> Hash \cup {None}]
    BY <1>3, <2>1 DEF CheckAndSetPut, TypeOK
  <2>3. pc' \in [Client -> PcStates]
    BY <1>3 DEF CheckAndSetPut, PcStates
  <2>4. \A d \in Client : pc'[d].op \in {"idle", "casPut", "rmRead", "rmWrite", "packWrite"}
    BY <2>3, PcOps
  <2>5. QED
    BY <1>3, <2>2, <2>3, <2>4 DEF CheckAndSetPut, TypeOK, files
<1>4. ASSUME NEW c \in Client, NEW n \in RefName, RemoveDelete(c, n)
      PROVE  TypeInv'
  <2>1. pc' \in [Client -> PcStates]
    BY <1>4 DEF RemoveDelete, PcStates
  <2>2. loose' \in [RefName -> Hash \cup {None}]
    BY <1>4 DEF RemoveDelete, TypeOK
  <2>3. \A d \in Client : pc'[d].op \in {"idle", "casPut", "rmRead", "rmWrite", "packWrite"}
    BY <2>1, PcOps
  <2>4. QED
    BY <1>4, <2>1, <2>2, <2>3 DEF RemoveDelete, TypeOK, files
<1>5. ASSUME NEW c \in Client, RemoveRead(c)
      PROVE  TypeInv'
  <2>1. pc[c] \in [op : {"rmRead"}, name : RefName]
    BY <1>5 DEF RemoveRead, PcStates, Idle
  <2>2. Rewritten(packed, pc[c].name) \in PackedFiles
    BY RewrittenKeeps DEF TypeOK
  <2>3. pc' \in [Client -> PcStates]
    BY <1>5, <2>1, <2>2 DEF RemoveRead, PcStates
  <2>4. QED
    BY <1>0, <1>5, <2>3 DEF RemoveRead, TypeOK
<1>6. ASSUME NEW c \in Client, RemoveWrite(c)
      PROVE  TypeInv'
  <2>1. pc[c] \in [op : {"rmWrite"}, name : RefName, file : PackedFiles]
    BY <1>6 DEF RemoveWrite, PcStates, Idle
  <2>2. pc' \in [Client -> PcStates]
    BY <1>6 DEF RemoveWrite, PcStates
  <2>3. QED
    BY <1>0, <1>6, <2>1, <2>2 DEF RemoveWrite
<1>7. ASSUME NEW c \in Client, PackRefsRead(c)
      PROVE  TypeInv'
  <2>1. ReadRefs \cup ReadPackedRefs \subseteq Names \X Hash
    BY DEF ReadRefs, ReadPackedRefs, Names, TypeOK
  <2>2. pc' \in [Client -> PcStates]
    BY <1>7, <2>1 DEF PackRefsRead, PcStates
  <2>3. QED
    BY <1>0, <1>7, <2>2 DEF PackRefsRead, TypeOK
<1>8. ASSUME NEW c \in Client, PackRefsWrite(c)
      PROVE  TypeInv'
  <2>1. pc[c] \in [op : {"packWrite"}, entries : SUBSET (Names \X Hash)]
    BY <1>8 DEF PackRefsWrite, PcStates, Idle
  <2>2. packed' \in PackedFiles
    BY <1>8, <2>1 DEF PackRefsWrite, PackedFiles
  <2>3. pc' \in [Client -> PcStates]
    BY <1>8 DEF PackRefsWrite, PcStates
  <2>4. QED
    BY <1>0, <1>8, <2>2, <2>3 DEF PackRefsWrite
<1>9. ASSUME NEW c \in Client,
             \/ \E h \in Hash : SetEncodedObject(c, h)
             \/ SetConfig(c) \/ SetIndex(c) \/ SetShallow(c)
      PROVE  TypeInv'
  BY <1>9 DEF SetEncodedObject, SetConfig, SetIndex, SetShallow, TypeOK,
              ObjectStates, FileStates
<1>10. CASE UNCHANGED vars
  BY <1>10 DEF vars, TypeOK
<1>11. QED
  BY <1>1, <1>2, <1>3, <1>4, <1>5, <1>6, <1>7, <1>8, <1>9, <1>10 DEF Next



LEMMA InitRmInv == Init => RmInv
BY InitTypeInv DEF Init, RmInv, Idle

(* Only the one client's RemoveDelete empties a loose object and only its *)
(* RemoveRead starts the write of packed-refs; no other client can put    *)
(* the reference back in between.                                          *)
LEMMA NextRmInv ==
    ASSUME NEW c0, Client = {c0}
    PROVE  RmInv /\ [Next]_vars => RmInv'
<1> SUFFICES ASSUME RmInv, [Next]_vars PROVE RmInv'
  OBVIOUS
<1>0. TypeInv'
  BY NextTypeInv DEF RmInv
<1> DEFINE Removing(c) == pc[c].op \in {"rmRead", "rmWrite"}
<1> USE DEF RmInv
<1>1. ASSUME NEW c \in Client, NEW n \in RefName, NEW h \in Hash,
             SetReference(c, n, h)
      PROVE  RmInv'
  BY <1>0, <1>1 DEF SetReference, Idle
<1>2. ASSUME NEW c \in Client, NEW n \in RefName, NEW o \in Hash, NEW h \in Hash,
             CheckAndSetGet(c, n, o, h)
      PROVE  RmInv'
  BY <1>0, <1>2 DEF CheckAndSetGet
<1>3. ASSUME NEW c \in Client, CheckAndSetPut(c)
      PROVE  RmInv'
  <2>1. pc'[c] = Idle /\ ~Removing(c) /\ c = c0
    BY <1>3 DEF CheckAndSetPut, TypeInv
  <2>2. QED
    BY <1>0, <1>3, <2>1 DEF CheckAndSetPut, Idle
<1>4. ASSUME NEW c \in Client, NEW n \in RefName, RemoveDelete(c, n)
      PROVE  RmInv'
  <2>1. pc'[c] = [op |-> "rmRead", name |-> n] /\ c = c0
    BY <1>4 DEF RemoveDelete, TypeInv
  <2>2. loose'[n] = None
    BY <1>4 DEF RemoveDelete, TypeInv, TypeOK
  <2>3. QED
    BY <1>0, <1>4, <2>1, <2>2 DEF RemoveDelete
<1>5. ASSUME NEW c \in Client, RemoveRead(c)
      PROVE  RmInv'
  <2> DEFINE n == pc[c].name
  <2>1. pc[c].op = "rmRead" /\ c = c0 /\ UNCHANGED loose
    BY <1>5 DEF RemoveRead
  <2>2. loose[n] = None
    BY <2>1
  <2>3. CASE packed.present /\ ~packed.junk /\ \E e \in packed.entries : e[1] = n
    <3>1. pc'[c] = [op |-> "rmWrite", name |-> n, file |-> Rewritten(packed, n)]
      BY <1>5, <2>3 DEF RemoveRead, TypeInv
    <3>2. Unnamed(Rewritten(packed, n), n)
      BY RewrittenUnnamed DEF TypeInv, TypeOK
    <3>3. QED
      BY <1>0, <2>1, <2>2, <3>1, <3>2
  <2>4. CASE ~(packed.present /\ ~packed.junk /\ \E e \in packed.entries : e[1] = n)
    <3>1. pc'[c] = Idle
      BY <1>5, <2>4 DEF RemoveRead, TypeInv
    <3>2. QED
      BY <1>0, <2>1, <3>1 DEF Idle
  <2>5. QED
    BY <2>3, <2>4
<1>6. ASSUME NEW c \in Client, RemoveWrite(c)
      PROVE  RmInv'
  <2>1. pc'[c] = Idle /\ c = c0
    BY <1>6 DEF RemoveWrite, TypeInv
  <2>2. QED
    BY <1>0, <1>6, <2>1 DEF RemoveWrite, Idle
<1>7. ASSUME NEW c \in Client, PackRefsRead(c)
      PROVE  RmInv'
  <2>1. pc'[c].op = "packWrite" /\ c = c0
    BY <1>7 DEF PackRefsRead, TypeInv
  <2>2. QED
    BY <1>0, <1>7, <2>1 DEF PackRefsRead
<1>8. ASSUME NEW c \in Client, PackRefsWrite(c)
      PROVE  RmInv'
  <2>1. pc'[c] = Idle /\ c = c0
    BY <1>8 DEF PackRefsWrite, TypeInv
  <2>2. QED
    BY <1>0, <1>8, <2>1 DEF PackRefsWrite, Idle
<1>9. ASSUME NEW c \in Client,
             \/ \E h \in Hash : SetEncodedObject(c, h)
             \/ SetConfig(c) \/ SetIndex(c) \/ SetShallow(c)
      PROVE  RmInv'
  BY <1>0, <1>9 DEF SetEncodedObject, SetConfig, SetIndex, SetShallow
<1>10. CASE UNCHANGED vars
  BY <1>0, <1>10 DEF vars
<1>11. QED
  BY <1>1, <1>2, <1>3, <1>4, <1>5, <1>6, <1>7, <1>8, <1>9, <1>10 DEF Next

(* Under RmInv, a RemoveReference that returns leaves its reference       *)
(* resolving to nothing.                                                   *)
LEMMA StepRemoveDone ==
    ASSUME NEW c0, Client = {c0}
    PROVE  RmInv /\ [Next]_vars => [RemoveDone]_vars
<1> SUFFICES ASSUME RmInv, [Next]_vars,
                    NEW c \in Client, pc[c].op \in {"rmRead", "rmWrite"}, pc'[c] = Idle
             PROVE  Resolved'[pc[c].name] = None
  BY DEF RemoveDone
<1>0. c = c0 /\ pc[c].name \in RefName /\ loose[pc[c].name] = None
  <2>1. pc[c] \in [op : {"rmRead"}, name : RefName]
                  \cup [op : {"rmWrite"}, name : RefName, file : PackedFiles]
    BY DEF RmInv, TypeInv, PcStates, Idle
  <2>2. QED
    BY <2>1 DEF RmInv
<1> PICK n \in RefName : n = pc[c].name
  BY <1>0
<1>1. CASE RemoveRead(c)
  <2>1. Unnamed(packed, n)
    <3>1. CASE packed.present /\ ~packed.junk /\ \E e \in packed.entries : e[1] = n
      <4>1. pc'[c] = [op |-> "rmWrite", name |-> n, file |-> Rewritten(packed, n)]
        BY <1>1, <3>1 DEF RemoveRead, RmInv, TypeInv
      <4>2. QED
        BY <4>1 DEF Idle
    <3>2. QED
      BY <3>1 DEF Unnamed
  <2>2. PackedValue(n) = None
    BY <2>1, UnnamedNoValue
  <2>3. UNCHANGED <<loose, packed>>
    BY <1>1 DEF RemoveRead
  <2>4. QED
    BY <1>0, <2>2, <2>3 DEF Resolved, PackedValue
<1>2. CASE RemoveWrite(c)
  <2>1. packed' = pc[c].file /\ UNCHANGED loose /\ pc[c].op = "rmWrite"
    BY <1>2 DEF RemoveWrite
  <2>2. Unnamed(packed', n)
    BY <2>1 DEF RmInv
  <2>3. ~(packed'.present /\ ~packed'.junk /\ \E h \in Hash : <<n, h>> \in packed'.entries)
    <3>1. ASSUME NEW h \in Hash, <<n, h>> \in packed'.entries
          PROVE  \E e \in packed'.entries : e[1] = n
      BY <3>1
    <3>2. QED
      BY <2>2, <3>1, Zenon DEF Unnamed
  <2>4. loose'[n] = None
    BY <1>0, <2>1
  <2>5. PackedValue(n)' = None
    BY <2>3 DEF PackedValue
  <2>6. QED
    BY <2>4, <2>5 DEF Resolved
<1>3. CASE ~RemoveRead(c) /\ ~RemoveWrite(c)
  (* Only c's own RemoveRead or RemoveWrite ends its RemoveReference.       *)
  <2>1. pc'[c] = pc[c]
    BY <1>0, <1>3 DEF Next, vars, SetReference, CheckAndSetGet, CheckAndSetPut,
                      RemoveDelete, PackRefsRead, PackRefsWrite, SetEncodedObject,
                      SetConfig, SetIndex, SetShallow, Idle
  <2>2. QED
    BY <2>1 DEF Idle
<1>4. QED
  BY <1>1, <1>2, <1>3

-----------------------------------------------------------------------------

(* Whatever packed-refs git uploaded with the repository, a               *)
(* RemoveReference of one client that returns leaves the reference        *)
(* resolving to nothing: its loose object is deleted and the packed-refs  *)
(* it writes back names it in no line that parses.  The run               *)
(* refs_remove_sequential checks the same on two names and two hashes.    *)
THEOREM SingleClientRemoveTakesEffect ==
    ASSUME NEW c0, Client = {c0}
    PROVE  Spec => RemoveTakesEffect
<1>1. Spec => []RmInv
  BY InitRmInv, NextRmInv, PTL DEF Spec
<1>2. QED
  BY <1>1, StepRemoveDone, PTL DEF Spec, RemoveTakesEffect, RemoveDone

=============================================================================
