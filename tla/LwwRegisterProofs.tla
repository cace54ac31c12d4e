-------------------------- MODULE LwwRegisterProofs --------------------------
(***************************************************************************)
(* Proofs about the LWW register, for any replicas, any number of writes   *)
(* and any hash of the clocks.                                             *)
(***************************************************************************)
EXTENDS LwwRegister, TLAPS

\* A leaf is proved by Zenon unless it names another prover.
USE Zenon

LEMMA InitInvariant == Init => LwwInvariant
  BY SMT, MaxAssumption DEF Init, LwwInvariant, TypeOK, Registers, Clocks, Values, Zero, States,
     WriteIsItsClock

LEMMA StatesTyped ==
  ASSUME TypeOK
  PROVE  States \subseteq Registers
  BY DEF TypeOK, States

LEMMA ClockEntries ==
  ASSUME NEW c \in Clocks
  PROVE  /\ \A p \in Replicas : c[p] \in Nat
         /\ Leq(c, c)
  BY SMT, MaxAssumption DEF Clocks, Leq

LEMMA LeqTransitive ==
  ASSUME NEW c \in Clocks, NEW d \in Clocks, NEW e \in Clocks, Leq(c, d), Leq(d, e)
  PROVE  Leq(c, e)
  <1> SUFFICES ASSUME NEW p \in Replicas
               PROVE  c[p] <= e[p]
    BY DEF Leq
  <1>1. c[p] <= d[p] /\ d[p] <= e[p]
    BY DEF Leq
  <1>2. c[p] \in Nat /\ d[p] \in Nat /\ e[p] \in Nat
    BY ClockEntries
  <1> QED
    BY SMT, <1>1, <1>2

LEMMA LeqCases ==
  ASSUME NEW c \in Clocks, NEW d \in Clocks, Leq(c, d)
  PROVE  c = d \/ HappensBefore(c, d)
  <1>1. CASE \E p \in Replicas : c[p] < d[p]
    BY <1>1 DEF HappensBefore, Leq
  <1>2. CASE \A p \in Replicas : ~(c[p] < d[p])
    <2>1. ASSUME NEW p \in Replicas
          PROVE  c[p] = d[p]
      <3>1. c[p] \in Nat /\ d[p] \in Nat
        BY ClockEntries
      <3>2. c[p] <= d[p] /\ ~(c[p] < d[p])
        BY <1>2 DEF Leq
      <3> QED
        BY SMT, <3>1, <3>2
    <2> QED
      BY SMT, <2>1 DEF Clocks
  <1> QED
    BY <1>1, <1>2

\* The join of two clocks is above both and below every common bound.
LEMMA JoinClocks ==
  ASSUME NEW c \in Clocks, NEW d \in Clocks
  PROVE  /\ MergeClocks(c, d) \in Clocks
         /\ Leq(c, MergeClocks(c, d)) /\ Leq(d, MergeClocks(c, d))
         /\ \A p \in Replicas : MergeClocks(c, d)[p] \in {c[p], d[p]}
  BY SMT, MaxAssumption DEF Clocks, MergeClocks, Leq

\* Clocks that are neither ordered nor equal have a join above both of them.
LEMMA ConcurrentJoin ==
  ASSUME NEW c \in Clocks, NEW d \in Clocks, Concurrent(c, d)
  PROVE  MergeClocks(c, d) # c /\ MergeClocks(c, d) # d
  BY LeqCases, JoinClocks DEF Concurrent

LEMMA SetInvariant ==
  ASSUME LwwInvariant, NEW r \in Replicas, Set(r)
  PROVE  LwwInvariant'
  <1> DEFINE c == [reg[r].clock EXCEPT ![r] = @ + 1]
             w == [value |-> <<r, c[r]>>, clock |-> c]
  <1>1. /\ reg[r] \in Registers /\ reg[r] \in States
        /\ MaxSets \in Nat
    BY MaxAssumption DEF LwwInvariant, TypeOK, States
  <1>2. /\ c \in Clocks /\ c[r] = reg[r].clock[r] + 1 /\ c[r] \in 1..MaxSets
        /\ \A p \in Replicas \ {r} : c[p] = reg[r].clock[p]
    BY SMT, <1>1 DEF Set, Registers, Clocks
  <1>3. w \in Registers
    BY SMT, <1>2 DEF Registers, Values
  <1>4. /\ reg' = [reg EXCEPT ![r] = w] /\ writes' = writes \union {w}
        /\ UNCHANGED <<hash, sent>>
    BY DEF Set
  <1> HIDE DEF w
  <1>5. TypeOK'
    BY <1>3, <1>4 DEF LwwInvariant, TypeOK
  <1>6. reg'[r] = w /\ \A q \in Replicas \ {r} : reg'[q] = reg[q]
    BY <1>4 DEF LwwInvariant, TypeOK
  <1>7. w.clock = c /\ w.value = <<r, c[r]>>
    BY DEF w
  <1> HIDE DEF c
  <1>8. States' \subseteq States \union {w}
    BY <1>4, <1>6 DEF States
  <1>9. \A m \in States : m \in Registers /\ m.clock[r] < c[r]
    <2>1. \A m \in States : m \in Registers
      BY StatesTyped DEF LwwInvariant
    <2>2. \A m \in States : m.clock[r] <= reg[r].clock[r]
      BY DEF LwwInvariant
    <2> QED
      BY SMT, <1>1, <1>2, <2>1, <2>2 DEF Registers, Clocks
  <1>10. ASSUME NEW m \in States', NEW p \in Replicas
         PROVE  m.clock[p] <= reg'[p].clock[p]
    <2>1. CASE m = w
      <3>1. CASE p = r
        BY SMT, <1>2, <1>6, <1>7, <2>1, <3>1
      <3>2. CASE p # r
        BY <1>1, <1>2, <1>6, <1>7, <2>1, <3>2 DEF LwwInvariant
      <3> QED
        BY <3>1, <3>2
    <2>2. CASE m \in States
      <3>1. CASE p = r
        BY SMT, <1>2, <1>6, <1>7, <1>9, <2>2, <3>1 DEF Registers, Clocks
      <3>2. CASE p # r
        BY <1>6, <2>2, <3>2 DEF LwwInvariant
      <3> QED
        BY <3>1, <3>2
    <2> QED
      BY <1>8, <2>1, <2>2
  <1>11. \A m \in States' : c[r] <= m.clock[r] => Leq(c, m.clock)
    <2>1. Leq(c, c)
      BY <1>2, ClockEntries
    <2> QED
      BY SMT, <1>2, <1>7, <1>8, <1>9, <2>1 DEF Registers, Clocks
  <1>12. ASSUME NEW v \in writes
         PROVE  \E p \in Replicas :
                  /\ v.value = <<p, v.clock[p]>>
                  /\ \A m \in States' : v.clock[p] <= m.clock[p] => Leq(v.clock, m.clock)
    <2>1. PICK p \in Replicas :
            /\ v.value = <<p, v.clock[p]>>
            /\ \A m \in States : v.clock[p] <= m.clock[p] => Leq(v.clock, m.clock)
      BY DEF LwwInvariant
    <2>2. v \in States /\ v \in Registers /\ v.clock \in Clocks /\ reg[r].clock \in Clocks
      BY SMT, <1>1, <1>9 DEF States, Registers
    <2>3. v.clock[p] <= c[p] => Leq(v.clock, c)
      <3>0. Leq(reg[r].clock, c)
        <4>1. \A q \in Replicas : reg[r].clock[q] \in Nat
          BY <2>2, ClockEntries
        <4>2. ASSUME NEW q \in Replicas
              PROVE  reg[r].clock[q] <= c[q]
          BY SMT, <1>2, <4>1
        <4> QED
          BY <4>2 DEF Leq
      <3>1. CASE p = r
        <4>1. \A q \in Replicas : v.clock[q] <= reg[q].clock[q]
          BY <2>2 DEF LwwInvariant
        <4>2. v.clock[r] <= reg[r].clock[r] => Leq(v.clock, reg[r].clock)
          BY <1>1, <2>1, <3>1
        <4> QED
          BY <1>2, <2>2, <4>1, <4>2, <3>1, ClockEntries DEF Leq
      <3>2. CASE p # r
        <4>1. v.clock[p] <= c[p] => Leq(v.clock, reg[r].clock)
          BY <1>1, <1>2, <2>1, <3>2
        <4> QED
          BY <1>2, <2>2, <3>0, <4>1, LeqTransitive
      <3> QED
        BY <3>1, <3>2
    <2> QED
      BY <1>7, <1>8, <2>1, <2>3
  <1>13. \A v \in writes' : \E p \in Replicas :
           /\ v.value = <<p, v.clock[p]>>
           /\ \A m \in States' : v.clock[p] <= m.clock[p] => Leq(v.clock, m.clock)
    BY <1>4, <1>7, <1>11, <1>12
  <1>14. WriteIsItsClock'
    <2> SUFFICES ASSUME NEW m \in States', NEW v \in writes', m.clock = v.clock
                 PROVE  m.value = v.value
      BY DEF WriteIsItsClock
    <2>1. CASE m \in States /\ v \in writes
      BY <2>1 DEF LwwInvariant, WriteIsItsClock
    <2>2. \A x \in States : x.clock # c
      BY SMT, <1>2, <1>9 DEF Registers, Clocks
    <2>3. writes \subseteq States
      BY DEF States
    <2> QED
      BY <1>4, <1>7, <1>8, <2>1, <2>2, <2>3
  <1>15. \A m \in States' : m.value # <<>> => m.value[2] <= m.clock[m.value[1]]
    <2>1. w.value[2] <= w.clock[w.value[1]]
      BY SMT, <1>2, <1>7
    <2> QED
      BY <1>8, <2>1 DEF LwwInvariant
  <1> QED
    BY <1>5, <1>10, <1>13, <1>14, <1>15 DEF LwwInvariant

LEMMA PublishInvariant ==
  ASSUME LwwInvariant, NEW r \in Replicas, Publish(r)
  PROVE  LwwInvariant'
  <1>1. TypeOK'
    BY DEF Publish, LwwInvariant, TypeOK
  <1>2. States' = States /\ writes' = writes /\ reg' = reg
    BY DEF Publish, States
  <1> QED
    BY <1>1, <1>2 DEF LwwInvariant, WriteIsItsClock

\* What a merge leaves is one of the two registers, or one of their values
\* with the join of two concurrent clocks.
LEMMA MergedCases ==
  ASSUME NEW m \in Registers, NEW n \in Registers
  PROVE  /\ Merged(m, n) \in Registers
         /\ \/ Merged(m, n) \in {m, n}
            \/ /\ Concurrent(m.clock, n.clock)
               /\ Merged(m, n).clock = MergeClocks(m.clock, n.clock)
         /\ Leq(m.clock, Merged(m, n).clock)
         /\ \/ Merged(m, n).value = m.value
            \/ Merged(m, n).value = n.value /\ Leq(n.clock, Merged(m, n).clock)
  <1>1. m.clock \in Clocks /\ n.clock \in Clocks /\ m.value \in Values /\ n.value \in Values
    BY DEF Registers
  <1>2. CASE HappensBefore(n.clock, m.clock)
    BY <1>1, <1>2, ClockEntries DEF Merged
  <1>3. CASE ~HappensBefore(n.clock, m.clock) /\ HappensBefore(m.clock, n.clock)
    BY <1>1, <1>3, ClockEntries DEF Merged, HappensBefore, Leq
  <1>4. CASE Concurrent(m.clock, n.clock)
    BY <1>1, <1>4, JoinClocks DEF Merged, Concurrent, Registers
  <1>5. CASE m.clock = n.clock
    BY <1>1, <1>5, ClockEntries DEF Merged, Concurrent
  <1> QED
    BY <1>2, <1>3, <1>4, <1>5 DEF Concurrent

LEMMA MergeInvariant ==
  ASSUME LwwInvariant, NEW r \in Replicas, NEW n \in sent, Merge(r, n)
  PROVE  LwwInvariant'
  <1>1. /\ reg[r] \in Registers /\ reg[r] \in States
        /\ n \in Registers /\ n \in States /\ States \subseteq Registers
        /\ writes \subseteq States
    BY StatesTyped DEF LwwInvariant, TypeOK, States
  <1>2. PICK m \in Registers : m = Merged(reg[r], n)
    BY <1>1, MergedCases
  <1>3. /\ m \in {reg[r], n} \/ ( /\ Concurrent(reg[r].clock, n.clock)
                                 /\ m.clock = MergeClocks(reg[r].clock, n.clock))
        /\ Leq(reg[r].clock, m.clock)
        /\ m.value = reg[r].value \/ (m.value = n.value /\ Leq(n.clock, m.clock))
    BY <1>1, <1>2, MergedCases
  <1>4. reg' = [reg EXCEPT ![r] = m] /\ UNCHANGED <<hash, sent, writes>>
    BY <1>2 DEF Merge
  <1>5. reg'[r] = m /\ \A q \in Replicas \ {r} : reg'[q] = reg[q]
    BY <1>4 DEF LwwInvariant, TypeOK
  <1>6. TypeOK'
    BY <1>4 DEF LwwInvariant, TypeOK
  <1>7. States' \subseteq States \union {m}
    BY <1>4, <1>5 DEF States
  <1>8. /\ m.clock \in Clocks /\ reg[r].clock \in Clocks /\ n.clock \in Clocks
        /\ \A x \in States : x.clock \in Clocks
    BY <1>1 DEF Registers
  \* Every entry of the new clock is an entry of one of the two.
  <1>9. \A p \in Replicas : m.clock[p] \in {reg[r].clock[p], n.clock[p]}
    BY <1>3, <1>8, JoinClocks
  <1>10. ASSUME NEW x \in States', NEW p \in Replicas
         PROVE  x.clock[p] <= reg'[p].clock[p]
    <2>1. \A y \in States : y.clock[p] <= reg[p].clock[p]
      BY DEF LwwInvariant
    <2>2. x.clock[p] <= reg[p].clock[p]
      BY <1>1, <1>7, <1>9, <2>1
    <2>3. reg[p].clock[p] <= reg'[p].clock[p]
      BY <1>3, <1>5, <1>8, <2>1 DEF Leq, States
    <2>4. x.clock[p] \in Nat /\ reg[p].clock[p] \in Nat /\ reg'[p].clock[p] \in Nat
      <3>1. reg[p] \in States /\ reg'[p].clock \in Clocks /\ x.clock \in Clocks
        BY <1>5, <1>7, <1>8 DEF States
      <3> QED
        BY <1>8, <3>1, ClockEntries
    <2> QED
      BY SMT, <2>2, <2>3, <2>4
  <1>11. ASSUME NEW v \in writes
         PROVE  \E p \in Replicas :
                  /\ v.value = <<p, v.clock[p]>>
                  /\ \A x \in States' : v.clock[p] <= x.clock[p] => Leq(v.clock, x.clock)
    <2>1. PICK p \in Replicas :
            /\ v.value = <<p, v.clock[p]>>
            /\ \A x \in States : v.clock[p] <= x.clock[p] => Leq(v.clock, x.clock)
      BY DEF LwwInvariant
    <2>2. v.clock[p] <= m.clock[p] => Leq(v.clock, m.clock)
      <3>1. CASE m \in {reg[r], n}
        BY <1>1, <2>1, <3>1
      <3>2. CASE m.clock = MergeClocks(reg[r].clock, n.clock)
        <4>1. v.clock[p] <= m.clock[p] => Leq(v.clock, reg[r].clock) \/ Leq(v.clock, n.clock)
          BY <1>1, <1>9, <2>1
        <4>2. Leq(reg[r].clock, m.clock) /\ Leq(n.clock, m.clock) /\ v.clock \in Clocks
          BY SMT, <1>1, <1>8, <3>2, JoinClocks
        <4> QED
          BY <1>8, <4>1, <4>2, LeqTransitive
      <3> QED
        BY <1>3, <3>1, <3>2
    <2> QED
      BY <1>7, <2>1, <2>2
  <1>12. WriteIsItsClock'
    <2> SUFFICES ASSUME NEW x \in States', NEW v \in writes, x.clock = v.clock
                 PROVE  x.value = v.value
      BY <1>4 DEF WriteIsItsClock
    <2>1. CASE x \in States
      BY <2>1 DEF LwwInvariant, WriteIsItsClock
    <2>2. CASE x = m /\ Concurrent(reg[r].clock, n.clock)
                    /\ m.clock = MergeClocks(reg[r].clock, n.clock)
      \* The join of concurrent clocks is not the clock of a write.
      <3>1. PICK p \in Replicas : \A y \in States : v.clock[p] <= y.clock[p] => Leq(v.clock, y.clock)
        BY DEF LwwInvariant
      <3>2. v.clock[p] = reg[r].clock[p] \/ v.clock[p] = n.clock[p]
        BY <1>9, <2>2
      <3>3. v.clock \in Clocks
        BY <1>1, <1>8
      <3>4. Leq(v.clock, reg[r].clock) \/ Leq(v.clock, n.clock)
        BY SMT, <1>1, <1>8, <3>1, <3>2, <3>3, ClockEntries
      <3>5. Leq(reg[r].clock, v.clock) /\ Leq(n.clock, v.clock)
        BY SMT, <1>8, <2>2, JoinClocks
      <3>6. v.clock = reg[r].clock \/ v.clock = n.clock
        <4>1. \A d \in Clocks : Leq(v.clock, d) /\ Leq(d, v.clock) => v.clock = d
          BY SMT, <3>3, LeqCases, ClockEntries DEF HappensBefore, Leq
        <4> QED
          BY <1>8, <3>4, <3>5, <4>1
      <3> QED
        BY <1>8, <2>2, <3>6, ConcurrentJoin
    <2> QED
      BY <1>1, <1>3, <1>7, <2>1, <2>2
  <1>13. \A x \in States' : x.value # <<>> => x.value[2] <= x.clock[x.value[1]]
    <2>1. ASSUME NEW y \in {reg[r], n}, m.value = y.value, Leq(y.clock, m.clock), m.value # <<>>
          PROVE  m.value[2] <= m.clock[m.value[1]]
      <3>1. y \in States /\ y.clock \in Clocks
        BY <1>1, <1>8
      <3>2. y.value[2] <= y.clock[y.value[1]]
        BY <2>1, <3>1 DEF LwwInvariant
      <3>3. y.value[1] \in Replicas /\ y.value[2] \in Nat
        BY SMT, <1>1, <2>1, <3>1, MaxAssumption DEF Registers, Values
      <3>4. y.clock[y.value[1]] <= m.clock[y.value[1]]
        BY <2>1, <3>3 DEF Leq
      <3>5. y.clock[y.value[1]] \in Nat /\ m.clock[y.value[1]] \in Nat
        BY <1>8, <3>1, <3>3, ClockEntries
      <3> QED
        BY SMT, <2>1, <3>2, <3>3, <3>4, <3>5
    <2>2. m.value # <<>> => m.value[2] <= m.clock[m.value[1]]
      BY <1>3, <2>1
    <2> QED
      BY <1>7, <2>2 DEF LwwInvariant
  <1> QED
    BY <1>4, <1>6, <1>10, <1>11, <1>12, <1>13 DEF LwwInvariant

\* The clocks keep count of what each register has seen.
THEOREM InvariantTheorem == Spec => []LwwInvariant
  <1>1. LwwInvariant /\ [Next]_vars => LwwInvariant'
    <2> SUFFICES ASSUME LwwInvariant, [Next]_vars PROVE LwwInvariant'
      OBVIOUS
    <2>1. CASE Next
      BY <2>1, SetInvariant, PublishInvariant, MergeInvariant DEF Next
    <2>2. CASE UNCHANGED vars
      BY SMT, <2>2 DEF vars, LwwInvariant, TypeOK, States, WriteIsItsClock
    <2> QED
      BY <2>1, <2>2
  <1> QED
    BY <1>1, InitInvariant, PTL DEF Spec

\* A register whose clock is the clock of a write has the value of that write,
\* whatever the hash that breaks ties.
THEOREM WriteTheorem == Spec => []WriteIsItsClock
  <1>1. LwwInvariant => WriteIsItsClock
    BY DEF LwwInvariant
  <1> QED
    BY <1>1, InvariantTheorem, PTL

\* A register never shows a value under a clock that has not counted the write
\* of that value and all that the write had seen (LwwRegister::merge).
THEOREM CoversTheorem == Spec => []ClockCovers
  <1>1. LwwInvariant => ClockCovers
    <2> SUFFICES ASSUME LwwInvariant, NEW m \in States, NEW w \in writes, m.value = w.value
                 PROVE  Leq(w.clock, m.clock)
      BY DEF ClockCovers
    <2>1. PICK p \in Replicas :
            /\ w.value = <<p, w.clock[p]>>
            /\ \A x \in States : w.clock[p] <= x.clock[p] => Leq(w.clock, x.clock)
      BY DEF LwwInvariant
    <2>2. m.value # <<>> /\ m.value[1] = p /\ m.value[2] = w.clock[p]
      BY SMT, <2>1
    <2> QED
      BY <2>1, <2>2 DEF LwwInvariant
  <1> QED
    BY <1>1, InvariantTheorem, PTL

\* No set and no merge takes a clock back (LwwRegister::set, VectorClock::merge).
THEOREM ClocksTheorem == Spec => ClocksGrow
  <1>1. LwwInvariant /\ [Next]_vars
        => [\A r, p \in Replicas : reg[r].clock[p] <= reg'[r].clock[p]]_reg
    <2> SUFFICES ASSUME LwwInvariant, Next, NEW r \in Replicas, NEW p \in Replicas
                 PROVE  reg[r].clock[p] <= reg'[r].clock[p]
      BY DEF vars
    <2>0. reg \in [Replicas -> Registers] /\ sent \subseteq Registers
      BY DEF LwwInvariant, TypeOK
    <2>1. \A q \in Replicas : reg[q].clock \in Clocks /\ Leq(reg[q].clock, reg[q].clock)
      BY <2>0, ClockEntries DEF Registers
    <2>2. ASSUME NEW q \in Replicas, Set(q) PROVE Leq(reg[r].clock, reg'[r].clock)
      <3> DEFINE c == [reg[q].clock EXCEPT ![q] = @ + 1]
      <3>1. reg' = [reg EXCEPT ![q] = [value |-> <<q, c[q]>>, clock |-> c]]
        BY <2>2 DEF Set
      <3>2. \A x \in Replicas : reg[q].clock[x] <= c[x]
        <4>1. \A x \in Replicas : reg[q].clock[x] \in Nat
          BY <2>1, ClockEntries
        <4>2. \A x \in Replicas : c[x] = IF x = q THEN reg[q].clock[q] + 1 ELSE reg[q].clock[x]
          BY <2>1 DEF Clocks
        <4> HIDE DEF c
        <4>3. ASSUME NEW x \in Replicas PROVE reg[q].clock[x] <= c[x]
          <5>1. reg[q].clock[x] \in Nat
            BY <4>1
          <5>2. c[x] = reg[q].clock[x] + 1 \/ c[x] = reg[q].clock[x]
            BY <4>2
          <5> QED
            BY SMT, <5>1, <5>2
        <4> QED
          BY <4>3
      <3> HIDE DEF c
      <3>3. r = q => reg'[r].clock = c
        BY <2>0, <3>1
      <3>4. r # q => reg'[r] = reg[r]
        BY <2>0, <3>1
      <3> QED
        BY <2>1, <3>2, <3>3, <3>4 DEF Leq
    <2>3. ASSUME NEW q \in Replicas, NEW m \in sent, Merge(q, m)
          PROVE  Leq(reg[r].clock, reg'[r].clock)
      <3>1. reg' = [reg EXCEPT ![q] = Merged(reg[q], m)]
        BY <2>3 DEF Merge
      <3>2. Leq(reg[q].clock, Merged(reg[q], m).clock)
        BY <2>0, MergedCases
      <3> QED
        BY <2>0, <2>1, <3>1, <3>2
    <2>4. ASSUME NEW q \in Replicas, Publish(q) PROVE Leq(reg[r].clock, reg'[r].clock)
      BY <2>1, <2>4 DEF Publish
    <2>5. Leq(reg[r].clock, reg'[r].clock)
      BY <2>2, <2>3, <2>4 DEF Next
    <2> QED
      BY <2>5 DEF Leq
  <1> QED
    BY <1>1, InvariantTheorem, PTL DEF Spec, ClocksGrow
=============================================================================
