----------------------------- MODULE LwwRegister -----------------------------
(***************************************************************************)
(* VectorClock and LwwRegister of crates/crdt-sync/src/lib.rs on several   *)
(* replicas.  A replica sets its register under its own peer id and merges *)
(* register states of others, which arrive late, out of order or more than *)
(* once.  hash_clock is some function of the clock: the behaviours start   *)
(* from each function of the set Hashes, collisions included.              *)
(***************************************************************************)
EXTENDS Naturals

CONSTANTS
  Replicas,
  MaxSets,    \* calls of set per replica
  Hashes      \* functions from clocks to numbers

\* A missing entry counts as 0, and no entry is 0.
Clocks == [Replicas -> 0..MaxSets]

ASSUME MaxAssumption == MaxSets \in Nat
ASSUME HashAssumption == Hashes \subseteq [Clocks -> Nat]

VARIABLES
  hash,     \* DefaultHasher
  reg,      \* each replica's value and clock
  sent      \* register states that may still arrive

\* History: the writes, each with its clock.
VARIABLE writes

vars == <<hash, reg, sent, writes>>

Zero == [p \in Replicas |-> 0]

\* A value is named by its write, the replica and the count of its sets; <<>>
\* is the first value.
Values == {<<>>} \union (Replicas \X (1..MaxSets))
Registers == [value : Values, clock : Clocks]

Init ==
  /\ hash \in Hashes
  /\ reg = [r \in Replicas |-> [value |-> <<>>, clock |-> Zero]]
  /\ sent = {}
  /\ writes = {}

\* VectorClock::merge
MergeClocks(c, d) == [p \in Replicas |-> IF c[p] < d[p] THEN d[p] ELSE c[p]]

HappensBefore(c, d) ==
  /\ \A p \in Replicas : c[p] <= d[p]
  /\ \E p \in Replicas : c[p] < d[p]

Concurrent(c, d) == ~HappensBefore(c, d) /\ ~HappensBefore(d, c) /\ c # d

\* LwwRegister::set
Set(r) ==
  LET c == [reg[r].clock EXCEPT ![r] = @ + 1]
      w == [value |-> <<r, c[r]>>, clock |-> c]
  IN /\ c[r] <= MaxSets
     /\ reg' = [reg EXCEPT ![r] = w]
     /\ writes' = writes \union {w}
     /\ UNCHANGED <<hash, sent>>

\* Mutant: a concurrent value is taken without its clock.
MergedKeepsClock(m, n) ==
  IF HappensBefore(n.clock, m.clock) THEN m
  ELSE IF HappensBefore(m.clock, n.clock) THEN n
  ELSE IF Concurrent(m.clock, n.clock) /\ hash[n.clock] < hash[m.clock]
  THEN [m EXCEPT !.value = n.value] ELSE m

\* Mutant: the tiebreaker decides whatever the clocks say.
MergedByHash(m, n) ==
  [value |-> IF hash[n.clock] < hash[m.clock] THEN n.value ELSE m.value,
   clock |-> MergeClocks(m.clock, n.clock)]

\* Mutant: a concurrent value is taken with its own clock.
MergedForgetful(m, n) ==
  IF HappensBefore(n.clock, m.clock) THEN m
  ELSE IF HappensBefore(m.clock, n.clock) THEN n
  ELSE IF Concurrent(m.clock, n.clock) /\ hash[n.clock] < hash[m.clock] THEN n ELSE m

\* LwwRegister::merge of n into m
Merged(m, n) ==
  IF HappensBefore(n.clock, m.clock) THEN m
  ELSE IF HappensBefore(m.clock, n.clock) THEN n
  ELSE IF Concurrent(m.clock, n.clock)
  THEN [value |-> IF hash[n.clock] < hash[m.clock] THEN n.value ELSE m.value,
        clock |-> MergeClocks(m.clock, n.clock)]
  ELSE m

Publish(r) ==
  /\ sent' = sent \union {reg[r]}
  /\ UNCHANGED <<hash, reg, writes>>

Merge(r, m) ==
  /\ reg' = [reg EXCEPT ![r] = Merged(@, m)]
  /\ UNCHANGED <<hash, sent, writes>>

Next ==
  \E r \in Replicas : Set(r) \/ Publish(r) \/ \E m \in sent : Merge(r, m)

Spec == Init /\ [][Next]_vars
-----------------------------------------------------------------------------
(* Properties. *)

TypeOK ==
  /\ hash \in Hashes
  /\ reg \in [Replicas -> Registers]
  /\ sent \subseteq Registers /\ writes \subseteq Registers

Leq(c, d) == \A p \in Replicas : c[p] <= d[p]

\* A replica whose clock is the clock of a write has the value of that write:
\* after a write that saw all others, everybody who has heard of it agrees.
States == {reg[r] : r \in Replicas} \union sent \union writes

WriteIsItsClock ==
  \A m \in States, w \in writes : m.clock = w.clock => m.value = w.value

\* Why: no clock is ahead of the replica it counts, and whoever has counted
\* the n-th write of p has counted all that this write had seen.  A register
\* has counted the write that it shows.
LwwInvariant ==
  /\ TypeOK
  /\ \A m \in States, p \in Replicas : m.clock[p] <= reg[p].clock[p]
  /\ \A w \in writes : \E p \in Replicas :
       /\ w.value = <<p, w.clock[p]>>
       /\ \A m \in States : w.clock[p] <= m.clock[p] => Leq(w.clock, m.clock)
  /\ \A m \in States : m.value # <<>> => m.value[2] <= m.clock[m.value[1]]
  /\ WriteIsItsClock

\* A register has seen all that the write whose value it shows had seen: a
\* merge never shows a value under a clock that does not cover it.
ClockCovers ==
  \A m \in States, w \in writes : m.value = w.value => Leq(w.clock, m.clock)

\* The clock of a register never goes back, whatever it is merged with.
ClocksGrow ==
  [][\A r, p \in Replicas : reg[r].clock[p] <= reg'[r].clock[p]]_reg
=============================================================================
