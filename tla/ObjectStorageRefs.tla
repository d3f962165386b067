--------------------------- MODULE ObjectStorageRefs ---------------------------
(***************************************************************************)
(* The references of a git repository kept in an object store by          *)
(* ObjectStorageStorer (go/pkg/git/objectstorage.go), shared by several   *)
(* clients of one bucket.                                                  *)
(*                                                                         *)
(* The bucket holds a loose object <root>/refs/... per reference (its     *)
(* hash) and, when the repository was uploaded from a git clone or packed *)
(* by PackRefs, a <root>/packed-refs object.  Every Get, Put, List and    *)
(* Delete is atomic on its own; an operation made of several of them is  *)
(* not, and the model takes one step per call that changes or reads what  *)
(* another client may change in between.                                   *)
(*                                                                         *)
(* packed-refs is a list of lines: git writes a "# pack-refs with: ..."   *)
(* header, then one "<hash> <name>" line per reference.  The model keeps  *)
(* whether the header is there, the set of entries, and whether a line is *)
(* malformed (parsePackedRefsLine fails on it).  readRefs names a loose    *)
(* reference by strings.TrimPrefix(v.Name, path.Join(root, "refs")), which  *)
(* turns refs/heads/x into /heads/x: Trimmed(n) is that name.             *)
(*                                                                         *)
(* The meaning of the bucket is git's: a loose reference wins over a      *)
(* packed one (Resolved).  HEAD is left out.                               *)
(*                                                                         *)
(* The same bucket holds the objects (<root>/objects/xx/yyyy..., loose;   *)
(* git's pack files under objects/pack, which this storer never reads),   *)
(* and the config, index and shallow files.  An object is represented by  *)
(* what a read of it finds: nothing, a loose zlib object, an object only  *)
(* in a pack, or an empty body.  config, index and shallow are opaque     *)
(* files, present or absent.                                               *)
(***************************************************************************)
EXTENDS Naturals, FiniteSets

CONSTANTS
    RefName,    \* the names refs/... of references
    Hash,       \* commit hashes
    None,       \* no such reference
    Client,     \* the processes sharing the bucket
    InitPacked  \* the repository was uploaded with a packed-refs file

ASSUME InitPackedAssumption == InitPacked \in BOOLEAN

VARIABLES
    loose,   \* loose[n]: the hash in <root>/refs/..., or None when absent
    packed,  \* the <root>/packed-refs object
    pc,      \* the operation client c is in the middle of
    objects, \* objects[h]: what <root>/objects/... holds for object h
    config,  \* <root>/config
    index,   \* <root>/index
    shallow  \* <root>/shallow

files == <<objects, config, index, shallow>>
vars == <<loose, packed, pc, objects, config, index, shallow>>

ObjectStates == {"none", "loose", "packed", "empty"}
FileStates == {"absent", "present"}

(* The name readRefs gives the loose reference n.                         *)
Trimmed(n) == <<"trimmed", n>>
Names == RefName \cup {Trimmed(n) : n \in RefName}

Absent == [present |-> FALSE, header |-> FALSE, junk |-> FALSE, entries |-> {}]
PackedFiles == [present : BOOLEAN, header : BOOLEAN, junk : BOOLEAN,
                entries : SUBSET (Names \X Hash)]

(* A packed-refs file as git pack-refs writes it.                         *)
GitPacked(f) == [present |-> TRUE, header |-> TRUE, junk |-> FALSE,
                 entries |-> {<<n, f[n]>> : n \in DOMAIN f}]

Idle == [op |-> "idle"]

(* The hash packed-refs gives n when parsed correctly.                    *)
PackedValue(n) ==
    IF packed.present /\ ~packed.junk /\ \E h \in Hash : <<n, h>> \in packed.entries
    THEN CHOOSE h \in Hash : <<n, h>> \in packed.entries
    ELSE None

(* The references the bucket holds, read as git reads them.               *)
Resolved == [n \in RefName |-> IF loose[n] # None THEN loose[n] ELSE PackedValue(n)]

TypeOK ==
    /\ loose \in [RefName -> Hash \cup {None}]
    /\ packed \in PackedFiles
    /\ \A c \in Client : pc[c].op \in {"idle", "casPut", "rmRead", "rmWrite", "packWrite"}
    /\ objects \in [Hash -> ObjectStates]
    /\ {config, index, shallow} \subseteq FileStates

Init ==
    /\ loose \in [RefName -> Hash \cup {None}]
    /\ packed \in IF InitPacked
                  THEN {GitPacked(f) : f \in UNION {[S -> Hash] : S \in SUBSET RefName}}
                  ELSE {Absent}
    /\ pc = [c \in Client |-> Idle]
    /\ objects \in [Hash -> {"none", "loose", "packed"}]
    /\ config \in FileStates
    /\ index \in FileStates
    /\ shallow \in FileStates

-----------------------------------------------------------------------------
(* Reads.                                                                  *)

(* Reference(name): Get <root>/<name> and parse it; a missing object is   *)
(* ErrReferenceNotFound.  packed-refs is not consulted.                    *)
Reference(n) == loose[n]

(* readPackedRefs: a missing file is no references and a malformed line   *)
(* an error; otherwise refs stays nil and "if refs != nil" never appends. *)
ReadPackedRefsFails == packed.present /\ packed.junk
ReadPackedRefs == {}

(* readRefs: List <root>/refs, Get each object, name it by TrimPrefix.    *)
ReadRefs == {<<Trimmed(n), loose[n]>> : n \in {m \in RefName : loose[m] # None}}

(* IterReferences (HEAD left out): readRefs, then the packed references   *)
(* not named already.                                                      *)
IterReferences == ReadRefs \cup {e \in ReadPackedRefs : \A l \in ReadRefs : l[1] # e[1]}

-----------------------------------------------------------------------------
(* Writes.                                                                 *)

(* SetReference: Put "<hash>\n" into <root>/<name>.                        *)
SetReference(c, n, h) ==
    /\ pc[c] = Idle
    /\ loose' = [loose EXCEPT ![n] = h]
    /\ UNCHANGED <<packed, pc, files>>

(* Plausible bug: the comparison of oldRef.Hash() with old.Hash() is left *)
(* out.                                                                     *)
CheckAndSetGetUnchecked(c, n, o, h) ==
    /\ pc[c] = Idle
    /\ loose[n] # None
    /\ pc' = [pc EXCEPT ![c] = [op |-> "casPut", name |-> n, old |-> o, new |-> h]]
    /\ UNCHANGED <<loose, packed, files>>

(* CheckAndSetReference(new, old), first call: Get <root>/<old.Name()>;   *)
(* a missing object or another hash is an error.                          *)
CheckAndSetGet(c, n, o, h) ==
    /\ pc[c] = Idle
    /\ loose[n] = o
    /\ pc' = [pc EXCEPT ![c] = [op |-> "casPut", name |-> n, old |-> o, new |-> h]]
    /\ UNCHANGED <<loose, packed, files>>

(* CheckAndSetReference, second call: SetReference(new).                  *)
CheckAndSetPut(c) ==
    /\ pc[c].op = "casPut"
    /\ loose' = [loose EXCEPT ![pc[c].name] = pc[c].new]
    /\ pc' = [pc EXCEPT ![c] = Idle]
    /\ UNCHANGED <<packed, files>>

(* RemoveReference, first call: Delete <root>/<name>.                     *)
RemoveDelete(c, n) ==
    /\ pc[c] = Idle
    /\ loose' = [loose EXCEPT ![n] = None]
    /\ pc' = [pc EXCEPT ![c] = [op |-> "rmRead", name |-> n]]
    /\ UNCHANGED <<packed, files>>

(* The lines RemoveReference writes back: WriteString(line) adds no       *)
(* newline, so the kept lines become one.  Behind the header the whole    *)
(* line is a comment; two entries joined are a malformed line.            *)
Rewritten(file, n) ==
    LET rest == {e \in file.entries : e[1] # n} IN
    IF file.header THEN [file EXCEPT !.entries = {}]
    ELSE IF Cardinality(rest) <= 1 THEN [file EXCEPT !.entries = rest]
    ELSE [file EXCEPT !.entries = {}, !.junk = TRUE]

(* Plausible bug: the test on found inverted, so the file is rewritten   *)
(* only when it does not name the reference.                               *)
RemoveReadInverted(c) ==
    /\ pc[c].op = "rmRead"
    /\ LET n == pc[c].name IN
       IF packed.present /\ ~packed.junk /\ ~\E e \in packed.entries : e[1] = n
       THEN pc' = [pc EXCEPT ![c] = [op |-> "rmWrite", name |-> n,
                                     file |-> Rewritten(packed, n)]]
       ELSE pc' = [pc EXCEPT ![c] = Idle]
    /\ UNCHANGED <<loose, packed, files>>

(* RemoveReference, second call: Get packed-refs (missing: the call       *)
(* fails), scan it (a malformed line fails it), and stop unless an entry  *)
(* is named n.                                                             *)
RemoveRead(c) ==
    /\ pc[c].op = "rmRead"
    /\ LET n == pc[c].name IN
       IF packed.present /\ ~packed.junk /\ \E e \in packed.entries : e[1] = n
       THEN pc' = [pc EXCEPT ![c] = [op |-> "rmWrite", name |-> n,
                                     file |-> Rewritten(packed, n)]]
       ELSE pc' = [pc EXCEPT ![c] = Idle]
    /\ UNCHANGED <<loose, packed, files>>

(* RemoveReference, last call: Put the new packed-refs.                   *)
RemoveWrite(c) ==
    /\ pc[c].op = "rmWrite"
    /\ packed' = pc[c].file
    /\ pc' = [pc EXCEPT ![c] = Idle]
    /\ UNCHANGED <<loose, files>>

(* PackRefs, reads: readRefs (none: return), readPackedRefs (an error     *)
(* ends the call); the set to write is every reference read.               *)
PackRefsRead(c) ==
    /\ pc[c] = Idle
    /\ ReadRefs # {}
    /\ ~ReadPackedRefsFails
    /\ pc' = [pc EXCEPT ![c] = [op |-> "packWrite",
                                entries |-> ReadRefs \cup ReadPackedRefs]]
    /\ UNCHANGED <<loose, packed, files>>

(* PackRefs, writes: Put packed-refs with one "<hash> <name>" line per    *)
(* reference and no header, then Delete path.Join(root, name) for each    *)
(* loose one: with the trimmed name that is <root>/heads/..., not the     *)
(* loose object, so nothing is deleted.                                    *)
PackRefsWrite(c) ==
    /\ pc[c].op = "packWrite"
    /\ packed' = [present |-> TRUE, header |-> FALSE, junk |-> FALSE,
                  entries |-> pc[c].entries]
    /\ pc' = [pc EXCEPT ![c] = Idle]
    /\ UNCHANGED <<loose, files>>

-----------------------------------------------------------------------------
(* Objects and the other files.                                           *)

(* getUnpackedEncodedObject: Get the loose object (missing: not found),  *)
(* then objfile.NewReader and Header, which fail on an empty body.  An    *)
(* object only in a pack is not found: pack files are never read.         *)
GetUnpacked(h) ==
    CASE objects[h] = "loose" -> "ok"
      [] objects[h] = "empty" -> "corrupt"
      [] OTHER                -> "notFound"

(* EncodedObject (and EncodedObjectSize) return what                      *)
(* getUnpackedEncodedObject does; pack files are a TODO.                   *)
EncodedObject(h) == GetUnpacked(h)

(* HasEncodedObject: the error of getUnpackedEncodedObject. *)
HasEncodedObject(h) == GetUnpacked(h) = "ok"

(* IterEncodedObjects: List <root>/objects, skip the names that are not   *)
(* objects/xx/<38 characters> (the pack files), Get and read every other *)
(* one; one failed read fails the whole call.                              *)
IterEncodedObjects ==
    IF \E h \in Hash : objects[h] = "empty" THEN "error"
    ELSE {h \in Hash : objects[h] = "loose"}

(* git-data-service, a go-git Repository opened on the storer; known says *)
(* whether the request names a repository the service opened.              *)

(* ListReferences fails for an unknown repository, and with the error of *)
(* repo.References(), that is of IterReferences (a malformed packed-refs; *)
(* HEAD is left out).                                                      *)
ListReferencesFails(known) == ~known \/ ReadPackedRefsFails

(* Otherwise it answers what the iterator of IterReferences yields.       *)
ListReferences == IterReferences

(* GetCommit(sha): an unknown repository, and an empty sha (None), are    *)
(* errors; otherwise repo.CommitObject, that is EncodedObject.            *)
GetCommit(known, h) ==
    CASE ~known   -> "repository not found"
      [] h = None -> "SHA field is required"
      [] OTHER    -> EncodedObject(h)

(* Config: a missing file is config.NewConfig(). *)
Config == IF config = "absent" THEN "default" ELSE "stored"

(* Index and Shallow: a missing file is an error. *)
Index == IF index = "absent" THEN "error" ELSE "stored"
Shallow == IF shallow = "absent" THEN "error" ELSE "stored"

(* SetEncodedObject of a non-delta object: encode it with objfile into    *)
(* buf, then PutReader(<root>/objects/xx/yyyy..., nil): the body passed   *)
(* is nil, not buf, so the object stored is empty.  A delta type, a       *)
(* failed encoding or a failed Put is an error and changes nothing.       *)
SetEncodedObject(c, h) ==
    /\ pc[c] = Idle
    /\ objects' = [objects EXCEPT ![h] = "empty"]
    /\ UNCHANGED <<loose, packed, pc, config, index, shallow>>

(* SetConfig, SetIndex, SetShallow: encode, then Put the file. *)
SetConfig(c) ==
    /\ pc[c] = Idle
    /\ config' = "present"
    /\ UNCHANGED <<loose, packed, pc, objects, index, shallow>>

SetIndex(c) ==
    /\ pc[c] = Idle
    /\ index' = "present"
    /\ UNCHANGED <<loose, packed, pc, objects, config, shallow>>

SetShallow(c) ==
    /\ pc[c] = Idle
    /\ shallow' = "present"
    /\ UNCHANGED <<loose, packed, pc, objects, config, index>>

Next ==
    \E c \in Client :
        \/ \E n \in RefName, h \in Hash : SetReference(c, n, h)
        \/ \E n \in RefName, o, h \in Hash : CheckAndSetGet(c, n, o, h)
        \/ CheckAndSetPut(c)
        \/ \E n \in RefName : RemoveDelete(c, n)
        \/ RemoveRead(c)
        \/ RemoveWrite(c)
        \/ PackRefsRead(c)
        \/ PackRefsWrite(c)
        \/ \E h \in Hash : SetEncodedObject(c, h)
        \/ SetConfig(c) \/ SetIndex(c) \/ SetShallow(c)

Spec == Init /\ [][Next]_vars

-----------------------------------------------------------------------------
(* Properties.                                                             *)

(* The CheckAndSet or PackRefs each client is in, as the atomic store     *)
(* sees it; a RemoveReference takes effect at its Delete.                  *)
InFlight ==
    [c \in Client |->
        CASE pc[c].op = "casPut" ->
                [kind |-> "cas", name |-> pc[c].name, old |-> pc[c].old, new |-> pc[c].new]
          [] pc[c].op = "packWrite" -> [kind |-> "pack"]
          [] OTHER -> [kind |-> "idle"]]

Atomic == INSTANCE RefStore WITH refs <- Resolved, inflight <- InFlight

(* The storer implements an atomic reference store: every call sequence  *)
(* of the clients changes the references as the atomic operations would, *)
(* CheckAndSetReference writing only over the hash it checked ("reference *)
(* has changed concurrently") and PackRefs changing no reference.          *)
RefinesRefStore == Atomic!Spec

(* RemoveReference(n) leaves every other reference as it was.              *)
RemoveKeepsOthers ==
    [][\A c \in Client :
          pc[c].op = "rmWrite" /\ packed' # packed
            => \A m \in RefName \ {pc[c].name} : Resolved'[m] = Resolved[m]]_vars

(* PackRefs moves references into packed-refs without changing any.     *)
PackRefsKeepsRefs ==
    [][\A c \in Client : pc[c].op = "packWrite" /\ pc'[c] = Idle => Resolved' = Resolved]_vars

(* When RemoveReference(n) returns, n no longer resolves: neither its     *)
(* loose object nor a packed-refs entry is left to name it.               *)
RemoveTakesEffect ==
    [][\A c \in Client :
          pc[c].op \in {"rmRead", "rmWrite"} /\ pc'[c] = Idle
            => Resolved'[pc[c].name] = None]_vars

(* The reads return what the bucket holds, as go-git's own storers do:   *)
(* Reference(n) and ListReferences (IterReferences) the references under *)
(* their names, GetCommit (EncodedObject) and IterEncodedObjects every    *)
(* object stored (loose or packed), and Index and Shallow an empty result *)
(* for a missing file.                                                     *)
ReadsMatchStore ==
    /\ \A n \in RefName : Reference(n) = Resolved[n]
    /\ ~ListReferencesFails(TRUE)
    /\ ListReferences = {<<n, Resolved[n]>> : n \in {m \in RefName : Resolved[m] # None}}
    /\ \A h \in Hash : objects[h] # "none" => HasEncodedObject(h) /\ GetCommit(TRUE, h) = "ok"
    /\ IterEncodedObjects = {h \in Hash : objects[h] # "none"}
    /\ Index # "error" /\ Shallow # "error"

=============================================================================
