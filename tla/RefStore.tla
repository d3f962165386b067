------------------------------ MODULE RefStore ------------------------------
(***************************************************************************)
(* What a go-git reference storer promises its callers: a map from        *)
(* reference names to hashes in which every operation takes effect at one *)
(* instant.  SetReference and RemoveReference are single steps;           *)
(* CheckAndSetReference is begun by a client and later applied only if    *)
(* the reference still holds the expected hash (or abandoned with an      *)
(* error); PackRefs is begun and finished without changing any reference. *)
(***************************************************************************)
CONSTANTS RefName, Hash, None, Client

VARIABLES
    refs,     \* refs[n]: the hash reference n points to, or None
    inflight  \* inflight[c]: the CheckAndSet or PackRefs client c is in

Idle == [kind |-> "idle"]

Init ==
    /\ refs \in [RefName -> Hash \cup {None}]
    /\ inflight = [c \in Client |-> Idle]

Set(c, n, h) ==
    /\ inflight[c] = Idle
    /\ refs' = [refs EXCEPT ![n] = h]
    /\ UNCHANGED inflight

Remove(c, n) ==
    /\ inflight[c] = Idle
    /\ refs' = [refs EXCEPT ![n] = None]
    /\ UNCHANGED inflight

BeginCheckAndSet(c, n, o, h) ==
    /\ inflight[c] = Idle
    /\ inflight' = [inflight EXCEPT ![c] = [kind |-> "cas", name |-> n, old |-> o, new |-> h]]
    /\ UNCHANGED refs

ApplyCheckAndSet(c) ==
    /\ inflight[c].kind = "cas"
    /\ refs[inflight[c].name] = inflight[c].old
    /\ refs' = [refs EXCEPT ![inflight[c].name] = inflight[c].new]
    /\ inflight' = [inflight EXCEPT ![c] = Idle]

BeginPack(c) ==
    /\ inflight[c] = Idle
    /\ inflight' = [inflight EXCEPT ![c] = [kind |-> "pack"]]
    /\ UNCHANGED refs

(* PackRefs finishes, or an operation in flight fails: nothing changes.   *)
Finish(c) ==
    /\ inflight[c] # Idle
    /\ inflight' = [inflight EXCEPT ![c] = Idle]
    /\ UNCHANGED refs

Next ==
    \E c \in Client :
        \/ \E n \in RefName, h \in Hash : Set(c, n, h)
        \/ \E n \in RefName : Remove(c, n)
        \/ \E n \in RefName, o, h \in Hash : BeginCheckAndSet(c, n, o, h)
        \/ ApplyCheckAndSet(c)
        \/ BeginPack(c)
        \/ Finish(c)

Spec == Init /\ [][Next]_<<refs, inflight>>

=============================================================================
