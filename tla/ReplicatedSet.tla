---------------------------- MODULE ReplicatedSet ----------------------------
(***************************************************************************)
(* What the OR-Set promises (crates/crdt-sync/src/lib.rs, "OR-Set with     *)
(* proper concurrent add/remove semantics"): every replica only ever       *)
(* learns.  It knows a growing set of additions and a growing set of       *)
(* removals, shows an addition until it knows of its removal, and a        *)
(* removal takes away what its replica showed, nothing else.               *)
(***************************************************************************)
CONSTANTS Replicas, Items, Elements

VARIABLES known, gone

vars == <<known, gone>>

Init ==
  /\ known = [r \in Replicas |-> {}]
  /\ gone = [r \in Replicas |-> {}]

Shown(r) == known[r] \ gone[r]

AddItem(r, x) ==
  /\ \A q \in Replicas : x \notin known[q]
  /\ known' = [known EXCEPT ![r] = @ \union {x}]
  /\ UNCHANGED gone

RemoveElement(r, e) ==
  /\ gone' = [gone EXCEPT ![r] = @ \union {x \in Shown(r) : x[1] = e}]
  /\ UNCHANGED known

\* r hears of additions and removals that some replica knows.
Learn(r) ==
  /\ \E K \in SUBSET UNION {known[q] : q \in Replicas} :
       known' = [known EXCEPT ![r] = @ \union K]
  /\ \E G \in SUBSET (UNION {gone[q] : q \in Replicas}) :
       /\ gone' = [gone EXCEPT ![r] = @ \union G]
       /\ G \subseteq known'[r]

Next ==
  \E r \in Replicas :
    \/ \E x \in Items : AddItem(r, x)
    \/ \E e \in Elements : RemoveElement(r, e)
    \/ Learn(r)

Spec == Init /\ [][Next]_vars
=============================================================================
