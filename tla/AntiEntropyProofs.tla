-------------------------- MODULE AntiEntropyProofs --------------------------
(***************************************************************************)
(* Proofs about the OR-Set and its anti-entropy, for any replicas, any     *)
(* managers with any number of overlapping tasks, any number of additions  *)
(* and any arguments of compact.                                           *)
(***************************************************************************)
EXTENDS AntiEntropy, FiniteSetTheorems, WellFoundedInduction, TLAPS

\* A leaf is proved by Zenon unless it names another prover.
USE Zenon

-----------------------------------------------------------------------------
(* What an operation may do to the set of its replica. *)

SameLog(s, t) ==
  /\ t.version = s.version
  /\ Known(t) = Known(s) /\ t.tombstones = s.tombstones
  /\ DOMAIN t.changelog \subseteq DOMAIN s.changelog
  /\ \A v \in DOMAIN t.changelog : t.changelog[v] = s.changelog[v]

OneEntryMore(s, t) ==
  /\ t.version = s.version + 1
  /\ DOMAIN t.changelog = DOMAIN s.changelog \union {t.version}
  /\ \A v \in DOMAIN s.changelog : t.changelog[v] = s.changelog[v]
  /\ t.changelog[t.version].added \subseteq Known(t)
  /\ t.changelog[t.version].removed \subseteq t.tombstones
  /\ Known(t) \subseteq Known(s) \union t.changelog[t.version].added
                           \union t.changelog[t.version].removed
  /\ t.tombstones \subseteq s.tombstones \union t.changelog[t.version].removed

\* Nothing is forgotten, and what is new is in the new entry of the changelog.
Grown(s, t) ==
  /\ IsOrSet(t)
  /\ t.elements \intersect t.tombstones = {}
  /\ Known(s) \subseteq Known(t) /\ s.tombstones \subseteq t.tombstones
  /\ SameLog(s, t) \/ OneEntryMore(s, t)

\* t is s with new elements and tombstones, and with a new entry of the log
\* unless there is nothing to log.
Recorded(s, t, elems, tombs, adds, dels) ==
  /\ IsOrSet(t)
  /\ t.elements = elems /\ t.tombstones = tombs
  /\ adds = {} /\ dels = {} => t.version = s.version /\ t.changelog = s.changelog
  /\ ~(adds = {} /\ dels = {}) =>
       /\ t.version = s.version + 1
       /\ DOMAIN t.changelog = DOMAIN s.changelog \union {t.version}
       /\ \A v \in DOMAIN s.changelog : t.changelog[v] = s.changelog[v]
       /\ t.changelog[t.version] = [added |-> adds, removed |-> dels]

\* What record_changelog_entry returns.
LEMMA RecordFields ==
  ASSUME NEW s, IsOrSet(s), NEW elems \in SUBSET Items, NEW tombs \in SUBSET Items,
         NEW adds \in SUBSET Items, NEW dels \in SUBSET Items
  PROVE  Recorded(s, Record(s, elems, tombs, adds, dels), elems, tombs, adds, dels)
  <1> DEFINE t == Record(s, elems, tombs, adds, dels)
  <1>1. s.version \in Nat /\ s.floor \in 0..s.version /\ DOMAIN s.changelog \subseteq 1..s.version
    BY DEF IsOrSet
  <1>2. CASE adds = {} /\ dels = {}
    <2>1. t = [elements |-> elems, tombstones |-> tombs, floor |-> s.floor,
               version |-> s.version, changelog |-> s.changelog]
      BY <1>2 DEF Record
    <2> HIDE DEF t
    <2>2. IsOrSet(t)
      BY <2>1, <1>1 DEF IsOrSet
    <2> QED
      BY SMT, <2>1, <2>2, <1>2 DEF Recorded, t
  <1>3. CASE ~(adds = {} /\ dels = {})
    <2> DEFINE log == [v \in DOMAIN s.changelog \union {s.version + 1} |->
                         IF v = s.version + 1 THEN [added |-> adds, removed |-> dels]
                         ELSE s.changelog[v]]
    <2>1. t = [elements |-> elems, tombstones |-> tombs, floor |-> s.floor,
               version |-> s.version + 1, changelog |-> log]
      BY <1>3 DEF Record
    <2> HIDE DEF t
    <2>2. \A v \in DOMAIN s.changelog : v # s.version + 1
      BY SMT, <1>1
    <2>3. \A v \in DOMAIN log : log[v] \in [added : SUBSET Items, removed : SUBSET Items]
      BY DEF IsOrSet
    <2>4. DOMAIN log \subseteq 1..(s.version + 1)
      BY SMT, <1>1
    <2>5. IsOrSet(t)
      BY SMTT(30), <2>1, <2>3, <2>4, <1>1 DEF IsOrSet
    <2> QED
      BY SMT, <2>1, <2>2, <2>5, <1>3 DEF Recorded, t
  <1> QED
    BY <1>2, <1>3

LEMMA AddGrows ==
  ASSUME NEW s, IsOrSet(s), s.elements \intersect s.tombstones = {},
         NEW x \in Items, x \notin Known(s), NEW t, t = Add(s, x)
  PROVE  Grown(s, t) /\ Known(t) = Known(s) \union {x} /\ t.tombstones = s.tombstones
  <1>1. /\ s.elements \union {x} \in SUBSET Items /\ s.tombstones \ {x} \in SUBSET Items
        /\ s.tombstones \ {x} = s.tombstones
        /\ {x} \in SUBSET Items /\ {} \in SUBSET Items
    BY DEF IsOrSet, Known
  <1>2. t = Record(s, s.elements \union {x}, s.tombstones, {x}, {})
    BY <1>1 DEF Add
  <1>3. Recorded(s, t, s.elements \union {x}, s.tombstones, {x}, {})
    BY SMT, <1>1, <1>2, RecordFields
  <1> QED
    BY SMT, <1>3 DEF Recorded, Grown, OneEntryMore, Known

LEMMA RemoveGrows ==
  ASSUME NEW s, IsOrSet(s), s.elements \intersect s.tombstones = {},
         NEW e, NEW t, t = Remove(s, e)
  PROVE  /\ Grown(s, t) /\ Known(t) = Known(s)
         /\ t.tombstones = s.tombstones \union {x \in s.elements : x[1] = e}
  <1> DEFINE gone == {x \in s.elements : x[1] = e}
  <1>1. /\ s.elements \ gone \in SUBSET Items /\ s.tombstones \union gone \in SUBSET Items
        /\ gone \in SUBSET Items /\ {} \in SUBSET Items
    BY DEF IsOrSet
  <1>2. t = Record(s, s.elements \ gone, s.tombstones \union gone, {}, gone)
    BY DEF Remove
  <1> HIDE DEF gone
  <1>3. Recorded(s, t, s.elements \ gone, s.tombstones \union gone, {}, gone)
    BY SMT, <1>1, <1>2, RecordFields
  <1> USE DEF gone
  <1>4. Known(t) = Known(s)
    BY <1>3 DEF Recorded, Known
  <1>5. CASE gone = {}
    BY <1>3, <1>4, <1>5 DEF Recorded, Grown, SameLog, Known
  <1>6. CASE gone # {}
    <2>1. OneEntryMore(s, t)
      BY SMT, <1>3, <1>4, <1>6 DEF Recorded, OneEntryMore
    <2> QED
      BY <2>1, <1>3, <1>4 DEF Recorded, Grown
  <1> QED
    BY <1>5, <1>6, <1>3, <1>4 DEF Recorded

LEMMA ApplyGrows ==
  ASSUME NEW s, IsOrSet(s), s.elements \intersect s.tombstones = {},
         NEW adds \in SUBSET Items, NEW dels \in SUBSET Items, NEW t, t = Apply(s, adds, dels)
  PROVE  /\ Grown(s, t)
         /\ Known(t) = Known(s) \union adds \union dels
         /\ t.tombstones = s.tombstones \union dels
  <1> DEFINE fresh == adds \ s.tombstones
             tombs == s.tombstones \union dels
             kept == {x \in s.elements \union fresh : x \in tombs => ~\E y \in dels : y[1] = x[1]}
             new == fresh \ s.elements
             gone == dels \ s.tombstones
  <1>1. /\ kept \in SUBSET Items /\ tombs \in SUBSET Items
        /\ new \in SUBSET Items /\ gone \in SUBSET Items
    BY DEF IsOrSet
  <1>2. t = Record(s, kept, tombs, new, gone)
    BY DEF Apply
  <1> HIDE DEF fresh, tombs, kept, new, gone
  <1>3. Recorded(s, t, kept, tombs, new, gone)
    BY SMT, <1>1, <1>2, RecordFields
  <1> USE DEF fresh, tombs, kept, new, gone
  <1>4. kept \intersect tombs = {}
    OBVIOUS
  <1>5. Known(t) = Known(s) \union adds \union dels
    BY <1>3 DEF Recorded, Known
  <1>6. CASE new = {} /\ gone = {}
    <2>1. SameLog(s, t)
      BY SMT, <1>3, <1>5, <1>6 DEF Recorded, SameLog, Known
    <2> QED
      BY <2>1, <1>3, <1>4, <1>5 DEF Recorded, Grown
  <1>7. CASE ~(new = {} /\ gone = {})
    <2>1. OneEntryMore(s, t)
      BY SMT, <1>3, <1>5, <1>7 DEF Recorded, OneEntryMore, Known
    <2> QED
      BY <2>1, <1>3, <1>4, <1>5 DEF Recorded, Grown
  <1> QED
    BY <1>6, <1>7, <1>3, <1>5 DEF Recorded

LEMMA CompactGrows ==
  ASSUME NEW s, IsOrSet(s), s.elements \intersect s.tombstones = {}, NEW keep \in Nat,
         NEW t, t = Compact(s, keep)
  PROVE  Grown(s, t) /\ Known(t) = Known(s) /\ t.tombstones = s.tombstones
  <1>1. CASE s.version > keep
    <2> DEFINE min == s.version - keep
               log == [v \in {w \in DOMAIN s.changelog : w > min} |-> s.changelog[v]]
               floor == IF s.floor > min THEN s.floor ELSE min
    <2>1. t = [elements |-> s.elements, tombstones |-> s.tombstones, version |-> s.version,
               floor |-> floor, changelog |-> log]
      BY <1>1 DEF Compact, IsOrSet
    <2>2. floor \in 0..s.version
      BY SMT, <1>1 DEF IsOrSet
    <2>3. IsOrSet(t)
      BY SMT, <2>1, <2>2 DEF IsOrSet
    <2> QED
      BY SMT, <2>1, <2>3 DEF Grown, SameLog, Known
  <1>2. CASE ~(s.version > keep)
    BY <1>2 DEF Compact, Grown, SameLog
  <1> QED
    BY <1>1, <1>2

-----------------------------------------------------------------------------
(* A step that changes the set of one replica. *)

\* What delta(v) contains.
LEMMA InDelta ==
  ASSUME NEW s, NEW v, NEW x
  PROVE  /\ x \in Delta(s, v).added <=> \E w \in v + 1..s.version : x \in s.changelog[w].added
         /\ x \in Delta(s, v).removed <=> \E w \in v + 1..s.version : x \in s.changelog[w].removed
  BY DEF Delta

\* What the history h of a set says is what the history g still says.
Extends(g, h) == \A v \in DOMAIN h : v \in DOMAIN g /\ g[v] = h[v]

\* No version loses what it stood for, and no replica forgets.
Monotone ==
  \A q \in Replicas :
    /\ Known(crdt[q]) \subseteq Known(crdt'[q])
    /\ crdt[q].tombstones \subseteq crdt'[q].tombstones
    /\ Extends(past'[q], past[q])

LEMMA CoversKept ==
  ASSUME NEW h, NEW g, Extends(g, h), NEW v \in DOMAIN h,
         NEW s, NEW t, Known(s) \subseteq Known(t), s.tombstones \subseteq t.tombstones, Covers(s, h, v)
  PROVE  v \in DOMAIN g /\ Covers(t, g, v)
  BY DEF Extends, Covers

\* The history of a set that has grown.
LEMMA HistoryKept ==
  ASSUME NEW s, IsOrSet(s), NEW t, Grown(s, t), NEW h, DOMAIN h = 0..s.version, Complete(s, h)
  PROVE  /\ DOMAIN Recall(h, t) = 0..t.version
         /\ Recall(h, t)[t.version] = Snapshot(t)
         /\ Extends(Recall(h, t), h)
  <1>1. s.version \in Nat /\ t.version \in Nat
    BY DEF IsOrSet, Grown
  <1>2. CASE SameLog(s, t)
    <2>1. Snapshot(t) = h[s.version]
      BY <1>2 DEF SameLog, Snapshot, Complete
    <2> QED
      BY SMT, <1>1, <1>2, <2>1 DEF SameLog, Recall, Extends
  <1>3. CASE OneEntryMore(s, t)
    BY SMT, <1>1, <1>3 DEF OneEntryMore, Recall, Extends
  <1> QED
    BY <1>2, <1>3 DEF Grown

LEMMA CompleteKept ==
  ASSUME NEW s, IsOrSet(s), NEW t, Grown(s, t), NEW h, DOMAIN h = 0..s.version, Complete(s, h)
  PROVE  Complete(t, Recall(h, t))
  <1> DEFINE g == Recall(h, t)
  <1>1. /\ s.version \in Nat /\ t.version \in Nat
        /\ DOMAIN s.changelog \subseteq 1..s.version
    BY DEF IsOrSet, Grown
  <1>2. g[t.version] = Snapshot(t) /\ \A v \in 0..s.version : g[v] = h[v]
    <2>1. g[t.version] = Snapshot(t) /\ Extends(g, h)
      BY HistoryKept
    <2> HIDE DEF g
    <2> QED
      BY <2>1 DEF Extends
  <1> HIDE DEF g
  <1>3. \A v \in DOMAIN t.changelog :
          t.changelog[v].added \subseteq Known(t) /\ t.changelog[v].removed \subseteq t.tombstones
    BY DEF Grown, SameLog, OneEntryMore, Complete
  <1>4. ASSUME NEW v \in 0..t.version, v + 1..t.version \subseteq DOMAIN t.changelog
        PROVE  /\ Known(t) \subseteq g[v].known \union Delta(t, v).added \union Delta(t, v).removed
               /\ t.tombstones \subseteq g[v].tombs \union Delta(t, v).removed
    <2>1. CASE SameLog(s, t)
      <3>1. v \in 0..s.version /\ v + 1..s.version \subseteq DOMAIN s.changelog
        BY <2>1, <1>4 DEF SameLog
      <3>2. /\ Known(s) \subseteq h[v].known \union Delta(s, v).added \union Delta(s, v).removed
            /\ s.tombstones \subseteq h[v].tombs \union Delta(s, v).removed
        BY <3>1 DEF Complete
      <3>3. \A w \in v + 1..s.version : t.changelog[w] = s.changelog[w]
        BY <2>1, <1>4 DEF SameLog
      <3>4. \A x : /\ x \in Delta(s, v).added => x \in Delta(t, v).added
                   /\ x \in Delta(s, v).removed => x \in Delta(t, v).removed
        BY SMT, <3>3, <2>1, InDelta DEF SameLog
      <3> QED
        BY <3>1, <3>2, <3>4, <2>1, <1>2 DEF SameLog
    <2>2. CASE OneEntryMore(s, t) /\ v = t.version
      BY SMT, <2>2, <1>2 DEF Snapshot
    <2>3. CASE OneEntryMore(s, t) /\ v # t.version
      <3>1. /\ v \in 0..s.version /\ v + 1..s.version \subseteq DOMAIN s.changelog
            /\ t.version \in v + 1..t.version
            /\ v + 1..s.version \subseteq v + 1..t.version
        BY SMT, <2>3, <1>4, <1>1 DEF OneEntryMore
      <3>2. /\ Known(s) \subseteq h[v].known \union Delta(s, v).added \union Delta(s, v).removed
            /\ s.tombstones \subseteq h[v].tombs \union Delta(s, v).removed
        BY <3>1 DEF Complete
      <3>3. \A w \in v + 1..s.version : t.changelog[w] = s.changelog[w]
        BY <2>3, <3>1 DEF OneEntryMore
      <3>4. \A x : /\ x \in Delta(s, v).added => x \in Delta(t, v).added
                   /\ x \in Delta(s, v).removed => x \in Delta(t, v).removed
                   /\ x \in t.changelog[t.version].added => x \in Delta(t, v).added
                   /\ x \in t.changelog[t.version].removed => x \in Delta(t, v).removed
        BY SMTT(30), <3>1, <3>3, InDelta
      <3> QED
        BY <3>1, <3>2, <3>4, <2>3, <1>2 DEF OneEntryMore
    <2> QED
      BY <2>1, <2>2, <2>3 DEF Grown
  <1>5. g[0] = Snapshot(NewSet)
    BY SMT, <1>1, <1>2 DEF Complete
  <1>6. Complete(t, g)
    BY <1>2, <1>3, <1>4, <1>5 DEF Complete
  <1> QED
    BY <1>6 DEF g

LEMMA UpdateKeeps ==
  ASSUME SyncInvariant, NEW r \in Replicas, NEW t, Grown(crdt[r], t), Update(r, t),
         Known(t) \subseteq issued', t.tombstones \subseteq removed',
         issued \subseteq issued', removed \subseteq removed'
  PROVE  /\ DOMAIN crdt' = Replicas /\ DOMAIN past' = Replicas
         /\ \A q \in Replicas : IsOrSet(crdt'[q]) /\ DOMAIN past'[q] = 0..crdt'[q].version
         /\ crdt' = [crdt EXCEPT ![r] = t]
         /\ Monotone /\ ObservedRemove' /\ DeltaComplete'
  <1> DEFINE g == Recall(past[r], t)
  <1>1. /\ DOMAIN crdt = Replicas /\ DOMAIN past = Replicas
        /\ \A q \in Replicas : IsOrSet(crdt[q]) /\ DOMAIN past[q] = 0..crdt[q].version
        /\ \A q \in Replicas : Complete(crdt[q], past[q])
    BY DEF SyncInvariant, TypeOK, DeltaComplete
  <1>2. crdt' = [crdt EXCEPT ![r] = t] /\ past' = [past EXCEPT ![r] = g]
    BY DEF Update
  <1>3. DOMAIN g = 0..t.version /\ Extends(g, past[r]) /\ Complete(t, g)
    BY SMT, <1>1, HistoryKept, CompleteKept
  <1> HIDE DEF g
  <1>4. /\ crdt'[r] = t /\ past'[r] = g
        /\ \A q \in Replicas \ {r} : crdt'[q] = crdt[q] /\ past'[q] = past[q]
        /\ DOMAIN crdt' = Replicas /\ DOMAIN past' = Replicas
    BY <1>1, <1>2
  <1>5. IsOrSet(t) /\ t.elements \intersect t.tombstones = {}
    BY DEF Grown
  <1>6. Monotone
    <2>1. Known(crdt[r]) \subseteq Known(t) /\ crdt[r].tombstones \subseteq t.tombstones
      BY DEF Grown
    <2>2. \A h : Extends(h, h)
      BY DEF Extends
    <2> QED
      BY <2>1, <2>2, <1>3, <1>4 DEF Monotone
  <1>7. \A q \in Replicas : IsOrSet(crdt'[q]) /\ DOMAIN past'[q] = 0..crdt'[q].version
    BY <1>1, <1>3, <1>4, <1>5
  <1>8. DeltaComplete'
    BY <1>1, <1>3, <1>4 DEF DeltaComplete
  <1>9. ObservedRemove'
    <2>1. ObservedRemove
      BY DEF SyncInvariant
    <2> QED
      BY <2>1, <1>4, <1>5 DEF ObservedRemove
  <1> QED
    BY <1>2, <1>4, <1>6, <1>7, <1>8, <1>9

-----------------------------------------------------------------------------
(* What a manager goes by stays true while all replicas only learn. *)

LEMMA TableKept ==
  ASSUME Monotone, NEW r \in Replicas, NEW f, DOMAIN f \subseteq Replicas, IsTable(f, crdt, past[r])
  PROVE  IsTable(f, crdt', past'[r])
  BY CoversKept DEF Monotone, IsTable

LEMMA TaskKept ==
  ASSUME Monotone, NEW r \in Replicas, NEW t, IsTask(r, t), TaskIsSound(r, t, crdt, past[r])
  PROVE  TaskIsSound(r, t, crdt', past'[r])
  <1>1. IsTable(t.todo, crdt', past'[r])
    BY TableKept DEF TaskIsSound, IsTask
  <1>2. CASE t.pc = "call"
    <2>1. t.peer \in Replicas
      BY <1>2 DEF IsTask
    <2> QED
      BY <1>1, <1>2, <2>1 DEF TaskIsSound, Monotone, Extends
  <1>3. CASE t.pc = "ack"
    <2>1. t.peer \in Replicas
      BY <1>3 DEF IsTask
    <2>2. t.sent \in DOMAIN past'[r] /\ Covers(crdt'[t.peer], past'[r], t.sent)
      BY SMT, <1>3, <2>1, CoversKept DEF TaskIsSound, Monotone
    <2> QED
      BY <1>1, <1>3, <2>2 DEF TaskIsSound
  <1> QED
    BY <1>1, <1>2, <1>3 DEF TaskIsSound

\* The part of the invariant that is about the sets and their history.
SetsOK ==
  /\ DOMAIN crdt = Replicas /\ DOMAIN past = Replicas
  /\ \A r \in Replicas : IsOrSet(crdt[r]) /\ DOMAIN past[r] = 0..crdt[r].version
  /\ issued \subseteq Items /\ IsFiniteSet(issued) /\ removed \subseteq issued
  /\ TagsFresh /\ ObservedRemove /\ DeltaComplete

\* The part about the managers, one entry at a time.
TableOK(r, f, sets, h) == DOMAIN f \subseteq Replicas \ {r} /\ IsTable(f, sets, h)
TaskOK(r, t, sets, h) == IsTask(r, t) /\ TaskIsSound(r, t, sets, h)

LEMMA Parts ==
  SyncInvariant <=>
    /\ SetsOK
    /\ DOMAIN peers = Managers /\ live \in [Managers -> 0..Tasks] /\ DOMAIN task = Managers
    /\ \A r \in Managers :
         /\ TableOK(r, peers[r], crdt, past[r])
         /\ DOMAIN task[r] = 1..Tasks
         /\ \A k \in 1..Tasks : TaskOK(r, task[r][k], crdt, past[r])
  BY DEF SyncInvariant, SetsOK, TypeOK, AckedIsKnown, TableOK, TaskOK

\* A step is safe when the replicas only learn, and the entries it writes are
\* right.
LEMMA StepKeeps ==
  ASSUME SyncInvariant, SetsOK', Monotone,
         DOMAIN peers' = Managers, live' \in [Managers -> 0..Tasks], DOMAIN task' = Managers,
         \A r \in Managers : peers'[r] = peers[r] \/ TableOK(r, peers'[r], crdt', past'[r]),
         \A r \in Managers : DOMAIN task'[r] = 1..Tasks,
         \A r \in Managers, k \in 1..Tasks :
            task'[r][k] = task[r][k] \/ TaskOK(r, task'[r][k], crdt', past'[r])
  PROVE  SyncInvariant'
  <1>1. ASSUME NEW r \in Managers
        PROVE  TableOK(r, peers'[r], crdt', past'[r])
    <2>1. TableOK(r, peers[r], crdt, past[r])
      BY Parts
    <2>2. TableOK(r, peers[r], crdt', past'[r])
      BY <2>1, TableKept, SyncAssumption DEF TableOK
    <2> QED
      BY <2>2
  <1>2. ASSUME NEW r \in Managers, NEW k \in 1..Tasks
        PROVE  TaskOK(r, task'[r][k], crdt', past'[r])
    <2>1. TaskOK(r, task[r][k], crdt, past[r])
      BY Parts
    <2>2. TaskOK(r, task[r][k], crdt', past'[r])
      BY <2>1, TaskKept, SyncAssumption DEF TaskOK
    <2> QED
      BY <2>2
  <1> QED
    BY <1>1, <1>2 DEF SyncInvariant, SetsOK, TypeOK, AckedIsKnown, TableOK, TaskOK

LEMMA SetsSame ==
  ASSUME SyncInvariant, UNCHANGED <<crdt, past, issued, removed>>
  PROVE  SetsOK' /\ Monotone
  <1>1. SetsOK
    BY Parts
  <1>2. SetsOK'
    BY <1>1 DEF SetsOK, TagsFresh, ObservedRemove, DeltaComplete
  <1> QED
    BY <1>2 DEF Monotone, Extends

\* What a step tells one replica: items K, and removals G.
Learns(r, K, G) ==
  \A q \in Replicas :
    /\ Known(crdt'[q]) = IF q = r THEN Known(crdt[q]) \union K ELSE Known(crdt[q])
    /\ crdt'[q].tombstones = IF q = r THEN crdt[q].tombstones \union G ELSE crdt[q].tombstones

LEMMA UpdateLearns ==
  ASSUME SyncInvariant, NEW r \in Replicas, NEW t, Update(r, t), NEW K, NEW G,
         Known(t) = Known(crdt[r]) \union K, t.tombstones = crdt[r].tombstones \union G
  PROVE  Learns(r, K, G)
  <1>1. DOMAIN crdt = Replicas
    BY DEF SyncInvariant, TypeOK
  <1> QED
    BY <1>1 DEF Update, Learns

\* A step that lets the set of one replica grow, with nothing new issued.
LEMMA SetGrows ==
  ASSUME SyncInvariant, NEW r \in Replicas, NEW t, Grown(crdt[r], t), Update(r, t),
         Known(t) \subseteq issued, t.tombstones \subseteq removed',
         issued' = issued, removed \subseteq removed', removed' \subseteq issued
  PROVE  SetsOK' /\ Monotone
  <1>1. /\ DOMAIN crdt' = Replicas /\ DOMAIN past' = Replicas
        /\ \A q \in Replicas : IsOrSet(crdt'[q]) /\ DOMAIN past'[q] = 0..crdt'[q].version
        /\ crdt' = [crdt EXCEPT ![r] = t]
        /\ Monotone /\ ObservedRemove' /\ DeltaComplete'
    BY UpdateKeeps
  <1>2. issued \subseteq Items /\ IsFiniteSet(issued) /\ TagsFresh /\ DOMAIN crdt = Replicas
    BY DEF SyncInvariant, TypeOK
  <1>3. TagsFresh'
    BY SMT, <1>1, <1>2 DEF TagsFresh, Monotone
  <1> QED
    BY <1>1, <1>2, <1>3 DEF SetsOK, Monotone

\* Managers that a step leaves alone.
LEMMA ManagersSame ==
  ASSUME SyncInvariant, SetsOK', Monotone, UNCHANGED manager
  PROVE  SyncInvariant'
  <1>1. /\ DOMAIN peers = Managers /\ live \in [Managers -> 0..Tasks] /\ DOMAIN task = Managers
        /\ \A r \in Managers : DOMAIN task[r] = 1..Tasks
    BY Parts
  <1> QED
    BY <1>1, StepKeeps DEF manager

-----------------------------------------------------------------------------
(* Local operations and merges. *)

LEMMA RemoveLocalKeeps ==
  ASSUME SyncInvariant, NEW r \in Replicas, NEW e \in Elements, RemoveLocal(r, e)
  PROVE  SyncInvariant' /\ Learns(r, {}, {x \in crdt[r].elements : x[1] = e})
  <1> DEFINE t == Remove(crdt[r], e)
             gone == {x \in crdt[r].elements : x[1] = e}
  <1>1. /\ IsOrSet(crdt[r]) /\ crdt[r].elements \intersect crdt[r].tombstones = {}
        /\ Known(crdt[r]) \subseteq issued /\ crdt[r].tombstones \subseteq removed
        /\ removed \subseteq issued
    BY DEF SyncInvariant, TypeOK, ObservedRemove
  <1>2. /\ Grown(crdt[r], t) /\ Known(t) = Known(crdt[r])
        /\ t.tombstones = crdt[r].tombstones \union gone
    BY <1>1, RemoveGrows
  <1>3. Update(r, t) /\ removed' = removed \union gone /\ UNCHANGED <<manager, issued>>
    BY DEF RemoveLocal
  <1>4. gone \subseteq issued
    BY <1>1 DEF Known
  <1> HIDE DEF t, gone
  <1>5. /\ Known(t) \subseteq issued /\ t.tombstones \subseteq removed' /\ issued' = issued
        /\ removed \subseteq removed' /\ removed' \subseteq issued
    BY <1>1, <1>2, <1>3, <1>4
  <1>6. SetsOK' /\ Monotone
    BY <1>2, <1>3, <1>5, SetGrows
  <1>7. Learns(r, {}, gone)
    BY <1>2, <1>3, UpdateLearns
  <1>8. SyncInvariant'
    BY <1>3, <1>6, ManagersSame
  <1> QED
    BY <1>7, <1>8 DEF gone

LEMMA CompactLocalKeeps ==
  ASSUME SyncInvariant, NEW r \in Replicas, NEW keep \in Keeps, CompactLocal(r, keep)
  PROVE  SyncInvariant' /\ Learns(r, {}, {})
  <1> DEFINE t == Compact(crdt[r], keep)
  <1>1. /\ IsOrSet(crdt[r]) /\ crdt[r].elements \intersect crdt[r].tombstones = {}
        /\ Known(crdt[r]) \subseteq issued /\ crdt[r].tombstones \subseteq removed
        /\ removed \subseteq issued /\ keep \in Nat
    BY SyncAssumption DEF SyncInvariant, TypeOK, ObservedRemove
  <1>2. Grown(crdt[r], t) /\ Known(t) = Known(crdt[r]) /\ t.tombstones = crdt[r].tombstones
    BY <1>1, CompactGrows
  <1>3. Update(r, t) /\ UNCHANGED <<manager, issued, removed>>
    BY DEF CompactLocal
  <1> HIDE DEF t
  <1>4. SetsOK' /\ Monotone
    BY <1>1, <1>2, <1>3, SetGrows
  <1>5. Learns(r, {}, {})
    BY <1>2, <1>3, UpdateLearns
  <1> QED
    BY <1>3, <1>4, <1>5, ManagersSame

\* A replica that applies what another one knows.
LEMMA ApplyKeeps ==
  ASSUME SyncInvariant, NEW r \in Replicas, NEW q \in Replicas, NEW adds, NEW dels,
         adds \subseteq Known(crdt[q]), dels \subseteq crdt[q].tombstones,
         Update(r, Apply(crdt[r], adds, dels)), UNCHANGED <<issued, removed>>
  PROVE  SetsOK' /\ Monotone /\ Learns(r, adds \union dels, dels)
  <1> DEFINE t == Apply(crdt[r], adds, dels)
  <1>1. /\ IsOrSet(crdt[r]) /\ crdt[r].elements \intersect crdt[r].tombstones = {}
        /\ Known(crdt[r]) \subseteq issued /\ crdt[r].tombstones \subseteq removed
        /\ removed \subseteq issued /\ issued \subseteq Items
        /\ Known(crdt[q]) \subseteq issued /\ crdt[q].tombstones \subseteq removed
    BY DEF SyncInvariant, TypeOK, ObservedRemove
  <1>2. adds \in SUBSET Items /\ dels \in SUBSET Items
    BY <1>1
  <1>4. Update(r, t) /\ t = Apply(crdt[r], adds, dels)
    OBVIOUS
  <1> HIDE DEF t
  <1>3. /\ Grown(crdt[r], t) /\ Known(t) = Known(crdt[r]) \union adds \union dels
        /\ t.tombstones = crdt[r].tombstones \union dels
    <2> DEFINE s == crdt[r]
    <2>1. IsOrSet(s) /\ s.elements \intersect s.tombstones = {} /\ t = Apply(s, adds, dels)
      BY <1>1, <1>4
    <2> HIDE DEF s
    <2>2. /\ Grown(s, t) /\ Known(t) = Known(s) \union adds \union dels
          /\ t.tombstones = s.tombstones \union dels
      BY SMT, <2>1, <1>2, ApplyGrows
    <2> QED
      BY <2>2 DEF s
  <1>5. Known(t) \subseteq issued /\ t.tombstones \subseteq removed'
    BY <1>1, <1>3
  <1>6. SetsOK' /\ Monotone
    BY <1>1, <1>3, <1>4, <1>5, SetGrows
  <1>7. Known(t) = Known(crdt[r]) \union (adds \union dels)
    BY <1>3
  <1>8. Learns(r, adds \union dels, dels)
    BY <1>3, <1>4, <1>7, UpdateLearns
  <1> QED
    BY <1>6, <1>8

LEMMA MergeFromKeeps ==
  ASSUME SyncInvariant, NEW r \in Replicas, NEW q \in Replicas, MergeFrom(r, q)
  PROVE  SyncInvariant' /\ Learns(r, Known(crdt[q]), crdt[q].tombstones)
  <1>1. crdt[q].elements \subseteq Known(crdt[q])
    BY DEF Known
  <1>2. Update(r, Apply(crdt[r], crdt[q].elements, crdt[q].tombstones)) /\ UNCHANGED <<issued, removed>>
    BY DEF MergeFrom, MergeState
  <1>3. SetsOK' /\ Monotone /\ Learns(r, Known(crdt[q]), crdt[q].tombstones)
    BY <1>1, <1>2, ApplyKeeps DEF Known
  <1> QED
    BY <1>3, ManagersSame DEF MergeFrom

-----------------------------------------------------------------------------
(* Fresh sequence numbers. *)

LEMMA Largest ==
  ASSUME NEW N \in Nat, NEW S \in SUBSET (1..N), S # {}
  PROVE  \E n \in S : \A m \in S : m <= n
  <1> DEFINE T == {N - n : n \in S}
             R == OpToRel(<, Nat)
  <1>1. \A n \in S : n \in Nat /\ N - n \in Nat
    BY SMT
  <1>7. T \subseteq Nat /\ T # {}
    BY <1>1
  <1>2. IsWellFoundedOn(R, Nat)
    BY NatLessThanWellFounded
  <1> HIDE DEF R
  <1>3. PICK x \in T : \A y \in T : ~(<<y, x>> \in R)
    BY <1>7, <1>2, WFMin
  <1>4. \A y \in T : ~(y < x)
    BY <1>7, <1>3 DEF R, OpToRel
  <1>5. PICK n \in S : x = N - n
    OBVIOUS
  <1>6. ASSUME NEW m \in S PROVE m <= n
    <2>1. N - m \in T
      OBVIOUS
    <2> QED
      BY SMT, <2>1, <1>1, <1>4, <1>5
  <1> QED
    BY <1>6

\* What max_retained_sequence_for_peer returns: the numbers of r run from 1 to
\* it, and the next one is still free and within the bound.
LEMMA NextNumber ==
  ASSUME SyncInvariant, NEW r \in Replicas, Cardinality(issued) < MaxAdds
  PROVE  LET n == MaxRetained(crdt[r], r)
         IN /\ n \in Nat /\ n + 1 \in 1..MaxAdds
            /\ \A x \in issued : x[2] = r => x[3] <= n
            /\ \A m \in 1..n : \E y \in issued : y[2] = r /\ y[3] = m
  <1> DEFINE mine == {x \in issued : x[2] = r}
             seqs == {x[3] : x \in {y \in Known(crdt[r]) : y[2] = r}}
             n == MaxRetained(crdt[r], r)
  <1>1. /\ issued \subseteq Items /\ IsFiniteSet(issued) /\ MaxAdds \in Nat
        /\ mine = {y \in Known(crdt[r]) : y[2] = r}
        /\ \A x \in issued : \A m \in 1..x[3] : \E y \in issued : y[2] = x[2] /\ y[3] = m
    BY SyncAssumption DEF SyncInvariant, TypeOK, TagsFresh, ObservedRemove
  <1>2. \A x \in issued : x[3] \in 1..MaxAdds
    BY <1>1 DEF Items
  <1>3. seqs = {x[3] : x \in mine} /\ seqs \subseteq 1..MaxAdds
    BY <1>1, <1>2
  <1>4. n = IF seqs = {} THEN 0 ELSE CHOOSE i \in seqs : \A m \in seqs : m <= i
    BY DEF MaxRetained
  <1> HIDE DEF n, seqs
  <1>5. CASE seqs = {}
    <2>1. n = 0 /\ mine = {}
      BY <1>3, <1>4, <1>5
    <2>2. MaxAdds # 0
      BY SMT, <1>1, FS_CardinalityType
    <2> QED
      BY SMTT(30), <2>1, <2>2, <1>1 DEF n
  <1>6. CASE seqs # {}
    <2>1. n \in seqs /\ \A m \in seqs : m <= n
      BY <1>1, <1>3, <1>4, <1>6, Largest
    <2>2. PICK x \in mine : x[3] = n
      BY <2>1, <1>3
    <2>3. n \in 1..MaxAdds /\ \A m \in 1..n : \E y \in issued : y[2] = r /\ y[3] = m
      BY SMT, <2>2, <1>1, <1>2
    <2>4. \A y \in issued : y[2] = r => y[3] <= n
      BY <2>1, <1>3
    <2>5. n <= Cardinality(issued)
      <3> DEFINE f == [m \in 1..n |-> CHOOSE y \in issued : y[2] = r /\ y[3] = m]
      <3>1. \A m \in 1..n : f[m] \in issued /\ f[m][3] = m
        BY <2>3
      <3> HIDE DEF f
      <3>2. f \in [1..n -> issued]
        BY <3>1 DEF f
      <3>3. f \in Injection(1..n, issued)
        BY SMT, <3>1, <3>2 DEF Injection, IsInjective
      <3>4. Cardinality(1..n) <= Cardinality(issued)
        BY <3>3, <1>1, FS_Injection
      <3>5. Cardinality(1..n) = n
        BY SMT, <2>3, FS_Interval
      <3> QED
        BY <3>4, <3>5
    <2>6. n + 1 \in 1..MaxAdds
      BY SMT, <2>3, <2>5, <1>1, FS_CardinalityType
    <2> QED
      BY SMT, <2>3, <2>4, <2>6 DEF n
  <1> QED
    BY <1>5, <1>6

LEMMA AddLocalKeeps ==
  ASSUME SyncInvariant, NEW r \in Replicas, NEW e \in Elements, AddLocal(r, e)
  PROVE  /\ SyncInvariant'
         /\ \E x \in Items : (\A q \in Replicas : x \notin Known(crdt[q])) /\ Learns(r, {x}, {})
  <1> DEFINE n == MaxRetained(crdt[r], r)
             x == <<e, r, n + 1>>
             t == Add(crdt[r], x)
  <1>1. /\ IsOrSet(crdt[r]) /\ crdt[r].elements \intersect crdt[r].tombstones = {}
        /\ Known(crdt[r]) \subseteq issued /\ crdt[r].tombstones \subseteq removed
        /\ removed \subseteq issued /\ issued \subseteq Items /\ IsFiniteSet(issued)
        /\ TagsFresh /\ DOMAIN crdt = Replicas
    BY DEF SyncInvariant, TypeOK, ObservedRemove
  <1>2. /\ Update(r, t) /\ issued' = issued \union {x} /\ Cardinality(issued) < MaxAdds
        /\ UNCHANGED <<manager, removed>>
    BY DEF AddLocal
  <1>3. /\ n \in Nat /\ n + 1 \in 1..MaxAdds
        /\ \A y \in issued : y[2] = r => y[3] <= n
        /\ \A m \in 1..n : \E y \in issued : y[2] = r /\ y[3] = m
    BY <1>2, NextNumber
  <1> HIDE DEF n
  <1>5. x \in Items /\ x \notin issued
    BY SMTT(30), <1>3 DEF Items
  <1>6. Grown(crdt[r], t) /\ Known(t) = Known(crdt[r]) \union {x} /\ t.tombstones = crdt[r].tombstones
    BY SMT, <1>1, <1>5, AddGrows
  <1> HIDE DEF t
  <1>7. /\ Known(t) \subseteq issued' /\ t.tombstones \subseteq removed'
        /\ issued \subseteq issued' /\ removed \subseteq removed'
    BY <1>1, <1>2, <1>6
  <1>8. /\ DOMAIN crdt' = Replicas /\ DOMAIN past' = Replicas
        /\ \A q \in Replicas : IsOrSet(crdt'[q]) /\ DOMAIN past'[q] = 0..crdt'[q].version
        /\ crdt' = [crdt EXCEPT ![r] = t]
        /\ Monotone /\ ObservedRemove' /\ DeltaComplete'
    BY <1>2, <1>6, <1>7, UpdateKeeps
  <1>9. issued' \subseteq Items /\ IsFiniteSet(issued') /\ removed' \subseteq issued'
    BY <1>1, <1>2, <1>5, FS_AddElement
  <1>10. TagsFresh'
    <2>1. ASSUME NEW q \in Replicas, NEW y \in issued', y[2] = q
          PROVE  y \in Known(crdt'[q])
      <3>1. CASE y \in issued
        BY <3>1, <2>1, <1>1, <1>8 DEF TagsFresh, Monotone
      <3>2. CASE y = x
        BY <3>2, <2>1, <1>1, <1>6, <1>8
      <3> QED
        BY <3>1, <3>2, <1>2
    <2>2. ASSUME NEW y \in issued', NEW m \in 1..y[3]
          PROVE  \E z \in issued' : z[2] = y[2] /\ z[3] = m
      <3>1. CASE y \in issued
        BY SMTT(30), <3>1, <2>2, <1>1, <1>2 DEF TagsFresh
      <3>2. CASE y = x /\ m = n + 1
        BY <3>2, <1>2
      <3>3. CASE y = x /\ m # n + 1
        <4>1. m \in 1..n
          BY SMT, <3>3, <1>3, <2>2
        <4> QED
          BY <4>1, <3>3, <1>2, <1>3
      <3> QED
        BY <3>1, <3>2, <3>3, <1>2
    <2> QED
      BY <2>1, <2>2 DEF TagsFresh
  <1>11. SetsOK' /\ Monotone
    BY <1>8, <1>9, <1>10 DEF SetsOK
  <1>12. Learns(r, {x}, {})
    BY <1>2, <1>6, UpdateLearns
  <1>13. \A q \in Replicas : x \notin Known(crdt[q])
    BY <1>5 DEF SyncInvariant, ObservedRemove
  <1>14. SyncInvariant'
    BY <1>2, <1>11, ManagersSame
  <1> HIDE DEF x
  <1> QED
    BY <1>5, <1>12, <1>13, <1>14

-----------------------------------------------------------------------------
(* The peer table and the background task. *)

\* A step that writes the table of one manager.
LEMMA TableWritten ==
  ASSUME SyncInvariant, SetsOK', Monotone, NEW r \in Managers, NEW f,
         TableOK(r, f, crdt', past'[r]), peers' = [peers EXCEPT ![r] = f], UNCHANGED <<live, task>>
  PROVE  SyncInvariant'
  <1>1. /\ DOMAIN peers = Managers /\ live \in [Managers -> 0..Tasks] /\ DOMAIN task = Managers
        /\ \A q \in Managers : DOMAIN task[q] = 1..Tasks
    BY Parts
  <1>2. DOMAIN peers' = Managers /\ \A q \in Managers : peers'[q] = IF q = r THEN f ELSE peers[q]
    BY <1>1
  <1> QED
    BY <1>1, <1>2, StepKeeps

\* A step that writes one task.
LEMMA TaskWritten ==
  ASSUME SyncInvariant, SetsOK', Monotone, NEW r \in Managers, NEW k \in 1..Tasks, NEW t,
         TaskOK(r, t, crdt', past'[r]), task' = [task EXCEPT ![r][k] = t],
         live' \in [Managers -> 0..Tasks], DOMAIN peers' = Managers,
         \A q \in Managers : peers'[q] = peers[q] \/ TableOK(q, peers'[q], crdt', past'[q])
  PROVE  SyncInvariant'
  <1>1. DOMAIN task = Managers /\ \A q \in Managers : DOMAIN task[q] = 1..Tasks
    BY Parts
  <1>2. /\ DOMAIN task' = Managers /\ \A q \in Managers : DOMAIN task'[q] = 1..Tasks
        /\ \A q \in Managers, j \in 1..Tasks :
             task'[q][j] = IF q = r /\ j = k THEN t ELSE task[q][j]
    BY <1>1
  <1> QED
    BY <1>1, <1>2, StepKeeps

\* The entry of a table after insert, or_insert and remove.
LEMMA SetVersionOK ==
  ASSUME NEW r, NEW p \in Replicas \ {r}, NEW f, NEW v, NEW sets, NEW h,
         TableOK(r, f, sets, h), v \in DOMAIN h, Covers(sets[p], h, v)
  PROVE  TableOK(r, SetVersion(f, p, v), sets, h)
  BY DEF TableOK, IsTable, SetVersion

LEMMA RestOK ==
  ASSUME NEW r, NEW p, NEW f, NEW sets, NEW h, TableOK(r, f, sets, h)
  PROVE  TableOK(r, Rest(f, p), sets, h)
  BY DEF TableOK, IsTable, Rest

\* Version 0 knew nothing, so any peer may be taken to be at it.
LEMMA VersionZero ==
  ASSUME SyncInvariant, NEW r \in Replicas, NEW p \in Replicas
  PROVE  0 \in DOMAIN past[r] /\ Covers(crdt[p], past[r], 0)
  <1>1. /\ DOMAIN past[r] = 0..crdt[r].version /\ crdt[r].version \in Nat
        /\ past[r][0] = Snapshot(NewSet)
    BY DEF SyncInvariant, TypeOK, IsOrSet, DeltaComplete, Complete
  <1> QED
    BY SMTT(30), <1>1 DEF Covers, Snapshot, NewSet, Known

LEMMA RegisterOK ==
  ASSUME NEW r, NEW p \in Replicas \ {r}, NEW f, NEW sets, NEW h,
         TableOK(r, f, sets, h), 0 \in DOMAIN h, Covers(sets[p], h, 0)
  PROVE  TableOK(r, Register(f, p), sets, h)
  BY SetVersionOK DEF Register

LEMMA AddPeerKeeps ==
  ASSUME SyncInvariant, NEW r \in Managers, NEW p \in Replicas \ {r}, AddPeer(r, p)
  PROVE  SyncInvariant'
  <1>1. SetsOK' /\ Monotone /\ UNCHANGED <<crdt, past, live, task>>
    BY SetsSame DEF AddPeer, history
  <1>2. TableOK(r, peers[r], crdt, past[r]) /\ DOMAIN peers = Managers
    BY Parts
  <1>3. TableOK(r, Register(peers[r], p), crdt, past[r])
    BY <1>2, VersionZero, RegisterOK, SyncAssumption
  <1>4. TableOK(r, Register(peers[r], p), crdt', past'[r])
    BY <1>1, <1>3
  <1>5. peers' = [peers EXCEPT ![r] = Register(peers[r], p)]
    BY <1>2 DEF AddPeer
  <1> QED
    BY <1>1, <1>4, <1>5, TableWritten

LEMMA RemovePeerKeeps ==
  ASSUME SyncInvariant, NEW r \in Managers, NEW p, RemovePeer(r, p)
  PROVE  SyncInvariant'
  <1>1. SetsOK' /\ Monotone /\ UNCHANGED <<crdt, past, live, task>>
    BY SetsSame DEF RemovePeer, history
  <1>2. TableOK(r, peers[r], crdt, past[r]) /\ DOMAIN peers = Managers
    BY Parts
  <1>3. TableOK(r, Rest(peers[r], p), crdt', past'[r])
    BY <1>1, <1>2, RestOK
  <1>4. peers' = [peers EXCEPT ![r] = Rest(peers[r], p)]
    BY <1>2 DEF RemovePeer, Rest
  <1> QED
    BY <1>1, <1>3, <1>4, TableWritten

LEMMA UpdatePeerVersionKeeps ==
  ASSUME SyncInvariant, NEW r \in Managers, NEW p \in Replicas \ {r}, NEW v \in DOMAIN past[r],
         UpdatePeerVersion(r, p, v)
  PROVE  SyncInvariant'
  <1>1. SetsOK' /\ Monotone /\ UNCHANGED <<crdt, past, live, task>> /\ Covers(crdt[p], past[r], v)
    BY SetsSame DEF UpdatePeerVersion, history
  <1>2. TableOK(r, peers[r], crdt, past[r]) /\ DOMAIN peers = Managers
    BY Parts
  <1>3. TableOK(r, SetVersion(peers[r], p, v), crdt', past'[r])
    BY <1>1, <1>2, SetVersionOK
  <1>4. peers' = [peers EXCEPT ![r] = SetVersion(peers[r], p, v)]
    BY <1>2 DEF UpdatePeerVersion
  <1> QED
    BY <1>1, <1>3, <1>4, TableWritten

\* A task that waits for its next tick, and one that goes through its table.
LEMMA PlainTask ==
  ASSUME NEW r, NEW f, NEW sets, NEW h, TableOK(r, f, sets, h), NEW c \in {"none", "select", "sync"}
  PROVE  TaskOK(r, [pc |-> c, todo |-> f], sets, h)
  BY DEF TableOK, TaskOK, IsTask, TaskIsSound

\* A step of a task that leaves the sets and the tables alone.
LEMMA TaskOnly ==
  ASSUME SyncInvariant, NEW r \in Managers, NEW k \in 1..Tasks, NEW t,
         TaskOK(r, t, crdt, past[r]), task' = [task EXCEPT ![r][k] = t],
         live' \in [Managers -> 0..Tasks], UNCHANGED <<crdt, peers, history>>
  PROVE  SyncInvariant'
  <1>1. SetsOK' /\ Monotone /\ UNCHANGED <<crdt, past, peers>> /\ DOMAIN peers = Managers
    BY SetsSame, Parts DEF history
  <1>2. TaskOK(r, t, crdt', past'[r])
    BY <1>1
  <1> QED
    BY <1>1, <1>2, TaskWritten

LEMMA NoPeersOK ==
  ASSUME NEW r, NEW sets, NEW h
  PROVE  TableOK(r, NoPeers, sets, h)
  BY DEF TableOK, IsTable, NoPeers

LEMMA StartKeeps ==
  ASSUME SyncInvariant, NEW r \in Managers, Start(r)
  PROVE  SyncInvariant'
  <1>1. PICK k \in 1..Tasks :
          /\ live' = [live EXCEPT ![r] = k]
          /\ task' = [task EXCEPT ![r][k] = [pc |-> "select", todo |-> NoPeers]]
          /\ UNCHANGED <<crdt, peers, history>>
    BY DEF Start
  <1>2. live' \in [Managers -> 0..Tasks]
    BY SMT, <1>1, Parts, SyncAssumption
  <1>3. TaskOK(r, [pc |-> "select", todo |-> NoPeers], crdt, past[r])
    BY NoPeersOK, PlainTask
  <1> QED
    BY <1>1, <1>2, <1>3, TaskOnly

LEMMA StopKeeps ==
  ASSUME SyncInvariant, NEW r \in Managers, Stop(r)
  PROVE  SyncInvariant'
  <1>1. /\ DOMAIN peers = Managers /\ live \in [Managers -> 0..Tasks] /\ DOMAIN task = Managers
        /\ \A q \in Managers : DOMAIN task[q] = 1..Tasks
    BY Parts
  <1>2. live' \in [Managers -> 0..Tasks] /\ UNCHANGED <<crdt, peers, task, history>>
    BY SMT, <1>1, SyncAssumption DEF Stop
  <1>3. SetsOK' /\ Monotone
    BY <1>2, SetsSame DEF history
  <1> QED
    BY <1>1, <1>2, <1>3, StepKeeps

LEMMA TickKeeps ==
  ASSUME SyncInvariant, NEW r \in Managers, NEW k \in 1..Tasks,
         Tick(r, k) \/ Exit(r, k) \/ EndTick(r, k) \/ Failed(r, k)
  PROVE  SyncInvariant'
  <1> DEFINE f == task[r][k].todo
  <1>1. /\ TableOK(r, peers[r], crdt, past[r]) /\ TaskOK(r, task[r][k], crdt, past[r])
        /\ live \in [Managers -> 0..Tasks]
    BY Parts
  <1>2. TableOK(r, f, crdt, past[r])
    BY <1>1 DEF TaskOK, TableOK, IsTask, TaskIsSound
  <1>3. /\ TaskOK(r, [pc |-> "sync", todo |-> peers[r]], crdt, past[r])
        /\ TaskOK(r, [pc |-> "sync", todo |-> f], crdt, past[r])
        /\ TaskOK(r, [pc |-> "none", todo |-> NoPeers], crdt, past[r])
        /\ TaskOK(r, [pc |-> "select", todo |-> NoPeers], crdt, past[r])
    BY <1>1, <1>2, PlainTask, NoPeersOK
  <1> HIDE DEF f
  <1>4. CASE Tick(r, k)
    BY <1>1, <1>3, <1>4, TaskOnly DEF Tick
  <1>5. CASE Exit(r, k)
    BY <1>1, <1>3, <1>5, TaskOnly DEF Exit, Idle
  <1>6. CASE EndTick(r, k)
    BY <1>1, <1>3, <1>6, TaskOnly DEF EndTick
  <1>7. CASE Failed(r, k)
    BY <1>1, <1>3, <1>7, TaskOnly DEF Failed, f
  <1> QED
    BY <1>4, <1>5, <1>6, <1>7

\* The delta that a task takes brings its peer to the version it notes.
LEMMA NextPeerKeeps ==
  ASSUME SyncInvariant, NEW r \in Managers, NEW k \in 1..Tasks, NEW p \in Replicas, NextPeer(r, k, p)
  PROVE  SyncInvariant'
  <1> DEFINE t == task[r][k]
             s == crdt[r]
             v == t.todo[p]
             rest == Rest(t.todo, p)
             call == [pc |-> "call", todo |-> rest, peer |-> p, delta |-> Delta(s, v), sent |-> s.version]
             next == IF HasDelta(s, v) THEN call ELSE [pc |-> "sync", todo |-> rest]
  <1>1. /\ TaskOK(r, t, crdt, past[r]) /\ live \in [Managers -> 0..Tasks] /\ r \in Replicas
    BY Parts, SyncAssumption
  <1>2. p \in DOMAIN t.todo /\ task' = [task EXCEPT ![r][k] = next]
        /\ UNCHANGED <<crdt, peers, live, history>>
    BY DEF NextPeer
  <1>3. TableOK(r, t.todo, crdt, past[r])
    BY <1>1 DEF TaskOK, TableOK, IsTask, TaskIsSound
  <1>4. TableOK(r, rest, crdt, past[r])
    BY <1>3, RestOK
  <1>5. p \in Replicas \ {r} /\ v \in DOMAIN past[r] /\ Covers(crdt[p], past[r], v)
    BY <1>2, <1>3 DEF TableOK, IsTable
  <1>6. /\ IsOrSet(s) /\ Complete(s, past[r]) /\ DOMAIN past[r] = 0..s.version
    BY <1>1 DEF SyncInvariant, TypeOK, DeltaComplete
  <1> HIDE DEF t, s, v, rest
  <1>7. CASE HasDelta(s, v)
    <2> DEFINE d == Delta(s, v)
    <2>1. v \in 0..s.version /\ v + 1..s.version \subseteq DOMAIN s.changelog /\ s.version \in Nat
      BY <1>5, <1>6, <1>7 DEF HasDelta, IsOrSet
    <2>2. /\ \A x \in d.added : \E w \in DOMAIN s.changelog : x \in s.changelog[w].added
          /\ \A x \in d.removed : \E w \in DOMAIN s.changelog : x \in s.changelog[w].removed
      BY <2>1, InDelta
    <2>3. d.added \subseteq Known(s) /\ d.removed \subseteq s.tombstones
      BY <2>2, <1>6 DEF Complete
    <2>4. d \in [added : SUBSET Items, removed : SUBSET Items]
      <3>1. Known(s) \subseteq Items /\ s.tombstones \subseteq Items
        BY <1>6 DEF IsOrSet, Known
      <3>2. d = [added |-> d.added, removed |-> d.removed]
        BY DEF Delta
      <3> HIDE DEF d
      <3> QED
        BY <2>3, <3>1, <3>2
    <2>5. /\ Known(s) \subseteq past[r][v].known \union d.added \union d.removed
          /\ s.tombstones \subseteq past[r][v].tombs \union d.removed
          /\ past[r][s.version] = Snapshot(s)
      BY <2>1, <1>6 DEF Complete
    <2> HIDE DEF d
    <2>6. /\ past[r][s.version].known \subseteq Known(crdt[p]) \union d.added \union d.removed
          /\ past[r][s.version].tombs \subseteq crdt[p].tombstones \union d.removed
      BY SMTT(30), <2>5, <1>5 DEF Snapshot, Covers
    <2>7. next = [pc |-> "call", todo |-> rest, peer |-> p, delta |-> d, sent |-> s.version]
      BY <1>7 DEF d
    <2> HIDE DEF next
    <2>8. IsTask(r, next)
      BY <2>4, <2>7, <1>4, <1>5 DEF IsTask, TableOK
    <2>9. TaskIsSound(r, next, crdt, past[r])
      <3>1. /\ next.pc = "call" /\ next.todo = rest /\ next.peer = p
            /\ next.delta = d /\ next.sent = s.version
        BY <2>7
      <3>2. IsTable(rest, crdt, past[r])
        BY <1>4 DEF TableOK
      <3>3. s.version \in DOMAIN past[r]
        BY SMT, <2>1, <1>6
      <3> QED
        BY <3>1, <3>2, <3>3, <2>3, <2>6 DEF TaskIsSound, s
    <2> QED
      BY <2>8, <2>9, <1>1, <1>2, TaskOnly DEF TaskOK
  <1>8. CASE ~HasDelta(s, v)
    <2>1. next = [pc |-> "sync", todo |-> rest]
      BY <1>8
    <2>2. TaskOK(r, next, crdt, past[r])
      BY <2>1, <1>4, PlainTask
    <2> HIDE DEF next
    <2> QED
      BY <2>2, <1>1, <1>2, TaskOnly
  <1> QED
    BY <1>7, <1>8

\* Once its peer has applied the delta, a task may record the version.
LEMMA DeliverKeeps ==
  ASSUME SyncInvariant, NEW r \in Managers, NEW k \in 1..Tasks, Deliver(r, k)
  PROVE  /\ SyncInvariant'
         /\ \E p \in Replicas : \E K \in SUBSET Known(crdt[r]) : \E G \in SUBSET crdt[r].tombstones :
              G \subseteq K /\ Learns(p, K, G)
  <1> DEFINE t == task[r][k]
             p == t.peer
             d == t.delta
  <1>1. /\ TaskOK(r, t, crdt, past[r]) /\ live \in [Managers -> 0..Tasks] /\ r \in Replicas
        /\ DOMAIN peers = Managers /\ \A q \in Managers : TableOK(q, peers[q], crdt, past[q])
    BY Parts, SyncAssumption
  <1>2. PICK reply \in {"ack", "error"} :
          /\ t.pc = "call"
          /\ Update(p, Apply(crdt[p], d.added, d.removed))
          /\ peers' = IF p \in Managers THEN [peers EXCEPT ![p] = Register(peers[p], r)] ELSE peers
          /\ task' = [task EXCEPT ![r][k] = Returned(t, reply)]
          /\ UNCHANGED <<live, issued, removed>>
    BY <1>1 DEF Deliver
  <1> HIDE DEF t
  <1>3. /\ p \in Replicas \ {r} /\ d \in [added : SUBSET Items, removed : SUBSET Items]
        /\ DOMAIN t.todo \subseteq Replicas \ {r} /\ IsTable(t.todo, crdt, past[r])
        /\ t.sent \in DOMAIN past[r]
        /\ past[r][t.sent].known \subseteq Known(crdt[p]) \union d.added \union d.removed
        /\ past[r][t.sent].tombs \subseteq crdt[p].tombstones \union d.removed
        /\ d.added \subseteq Known(crdt[r]) /\ d.removed \subseteq crdt[r].tombstones
    BY <1>1, <1>2 DEF TaskOK, IsTask, TaskIsSound
  <1> HIDE DEF p, d
  <1>4. /\ SetsOK' /\ Monotone /\ Learns(p, d.added \union d.removed, d.removed)
    <2> DEFINE adds == d.added
               dels == d.removed
    <2>1. /\ adds \subseteq Known(crdt[r]) /\ dels \subseteq crdt[r].tombstones
          /\ Update(p, Apply(crdt[p], adds, dels)) /\ UNCHANGED <<issued, removed>>
          /\ p \in Replicas /\ r \in Replicas
      BY <1>1, <1>2, <1>3
    <2> HIDE DEF adds, dels
    <2>2. SetsOK' /\ Monotone /\ Learns(p, adds \union dels, dels)
      BY <2>1, ApplyKeeps
    <2> QED
      BY <2>2 DEF adds, dels
  <1>5. TaskOK(r, Returned(t, reply), crdt', past'[r])
    <2>1. Extends(past'[r], past[r])
      BY <1>1, <1>4 DEF Monotone
    <2>2. t.sent \in DOMAIN past'[r] /\ Covers(crdt'[p], past'[r], t.sent)
      BY <2>1, <1>3, <1>4 DEF Extends, Covers, Learns
    <2>3. IsTable(t.todo, crdt', past'[r])
      BY <1>1, <1>3, <1>4, TableKept
    <2>4. IsTask(r, Returned(t, reply))
      BY <1>3 DEF IsTask, Returned, p, d
    <2>5. TaskIsSound(r, Returned(t, reply), crdt', past'[r])
      BY <2>2, <2>3 DEF TaskIsSound, Returned, p
    <2> QED
      BY <2>4, <2>5 DEF TaskOK
  <1>6. ASSUME NEW q \in Managers
        PROVE  peers'[q] = peers[q] \/ TableOK(q, peers'[q], crdt', past'[q])
    <2>1. CASE q = p
      <3>1. TableOK(q, Register(peers[q], r), crdt, past[q])
        BY <2>1, <1>1, <1>3, VersionZero, RegisterOK, SyncAssumption
      <3>2. TableOK(q, Register(peers[q], r), crdt', past'[q])
        BY <3>1, <1>4, TableKept, SyncAssumption DEF TableOK
      <3>3. peers'[q] = Register(peers[q], r)
        BY <2>1, <1>1, <1>2
      <3> QED
        BY <3>2, <3>3
    <2>2. CASE q # p
      BY <2>2, <1>1, <1>2
    <2> QED
      BY <2>1, <2>2
  <1>7. DOMAIN peers' = Managers /\ live' \in [Managers -> 0..Tasks]
    BY <1>1, <1>2
  <1>8. SyncInvariant'
    BY <1>2, <1>4, <1>5, <1>6, <1>7, TaskWritten
  <1>9. d.added \union d.removed \in SUBSET Known(crdt[r]) /\ d.removed \in SUBSET crdt[r].tombstones
    BY <1>3 DEF Known
  <1> QED
    BY <1>3, <1>4, <1>8, <1>9

LEMMA LoseKeeps ==
  ASSUME SyncInvariant, NEW r \in Managers, NEW k \in 1..Tasks, Lose(r, k)
  PROVE  SyncInvariant'
  <1> DEFINE t == task[r][k]
  <1>1. TaskOK(r, t, crdt, past[r]) /\ live \in [Managers -> 0..Tasks]
    BY Parts
  <1>2. /\ t.pc = "call" /\ task' = [task EXCEPT ![r][k] = Returned(t, "error")]
        /\ UNCHANGED <<crdt, peers, live, history>>
    BY DEF Lose
  <1> HIDE DEF t
  <1>3. TaskOK(r, Returned(t, "error"), crdt, past[r])
    BY <1>1, <1>2 DEF TaskOK, IsTask, TaskIsSound, Returned
  <1> QED
    BY <1>1, <1>2, <1>3, TaskOnly

LEMMA AckKeeps ==
  ASSUME SyncInvariant, NEW r \in Managers, NEW k \in 1..Tasks, Ack(r, k)
  PROVE  SyncInvariant'
  <1> DEFINE t == task[r][k]
             f == SetVersion(peers[r], t.peer, t.sent)
  <1>1. /\ TaskOK(r, t, crdt, past[r]) /\ live \in [Managers -> 0..Tasks]
        /\ DOMAIN peers = Managers /\ TableOK(r, peers[r], crdt, past[r])
    BY Parts
  <1>2. /\ t.pc = "ack" /\ peers' = [peers EXCEPT ![r] = f]
        /\ task' = [task EXCEPT ![r][k] = [pc |-> "sync", todo |-> t.todo]]
        /\ UNCHANGED <<crdt, live, history>>
    BY <1>1 DEF Ack
  <1> HIDE DEF t
  <1>3. /\ t.peer \in Replicas \ {r} /\ t.sent \in DOMAIN past[r]
        /\ Covers(crdt[t.peer], past[r], t.sent) /\ TableOK(r, t.todo, crdt, past[r])
    BY <1>1, <1>2 DEF TaskOK, TableOK, IsTask, TaskIsSound
  <1>4. TableOK(r, f, crdt, past[r])
    BY <1>1, <1>3, SetVersionOK
  <1>5. TaskOK(r, [pc |-> "sync", todo |-> t.todo], crdt, past[r])
    BY <1>3, PlainTask
  <1>6. SetsOK' /\ Monotone /\ UNCHANGED <<crdt, past>>
    BY <1>2, SetsSame DEF history
  <1> HIDE DEF f
  <1>7. /\ DOMAIN peers' = Managers /\ live' \in [Managers -> 0..Tasks]
        /\ \A q \in Managers : peers'[q] = peers[q] \/ TableOK(q, peers'[q], crdt', past'[q])
    BY <1>1, <1>2, <1>4, <1>6
  <1>8. TaskOK(r, [pc |-> "sync", todo |-> t.todo], crdt', past'[r])
    BY <1>5, <1>6
  <1> QED
    BY <1>2, <1>6, <1>7, <1>8, TaskWritten

-----------------------------------------------------------------------------
(* The theorems. *)

LEMMA InitOK == Init => SyncInvariant
  <1> SUFFICES ASSUME Init PROVE SyncInvariant
    OBVIOUS
  <1>1. /\ NewSet.elements = {} /\ NewSet.tombstones = {} /\ NewSet.version = 0
        /\ IsOrSet(NewSet) /\ Known(NewSet) = {}
    BY SMT DEF IsOrSet, NewSet, Known
  <1>2. Complete(NewSet, [v \in {0} |-> [known |-> {}, tombs |-> {}]])
    <2> DEFINE h == [v \in {0} |-> [known |-> {}, tombs |-> {}]]
    <2>1. h[0] = Snapshot(NewSet) /\ h[NewSet.version] = Snapshot(NewSet)
      BY <1>1 DEF Snapshot
    <2>2. DOMAIN NewSet.changelog = {}
      BY DEF NewSet
    <2> HIDE DEF h
    <2>3. Complete(NewSet, h)
      BY <1>1, <2>1, <2>2 DEF Complete
    <2> QED
      BY <2>3 DEF h
  <1>3. SetsOK
    <2>1. /\ DOMAIN crdt = Replicas /\ DOMAIN past = Replicas /\ issued = {} /\ removed = {}
          /\ \A r \in Replicas : crdt[r] = NewSet
                              /\ past[r] = [v \in {0} |-> [known |-> {}, tombs |-> {}]]
      BY DEF Init
    <2>2. \A r \in Replicas : IsOrSet(crdt[r]) /\ DOMAIN past[r] = 0..crdt[r].version
      <3>1. DOMAIN [v \in {0} |-> [known |-> {}, tombs |-> {}]] = 0..0
        BY SMT
      <3> QED
        BY <2>1, <1>1, <3>1
    <2>3. TagsFresh /\ DeltaComplete
      BY <2>1, <1>2 DEF TagsFresh, DeltaComplete
    <2>4. ObservedRemove
      BY <2>1, <1>1 DEF ObservedRemove
    <2>5. IsFiniteSet(issued)
      BY <2>1, FS_EmptySet
    <2> QED
      BY <2>1, <2>2, <2>3, <2>4, <2>5 DEF SetsOK
  <1>4. /\ DOMAIN peers = Managers /\ live \in [Managers -> 0..Tasks] /\ DOMAIN task = Managers
    BY SMT, SyncAssumption DEF Init
  <1>5. ASSUME NEW r \in Managers
        PROVE  /\ TableOK(r, peers[r], crdt, past[r])
               /\ DOMAIN task[r] = 1..Tasks
               /\ \A k \in 1..Tasks : TaskOK(r, task[r][k], crdt, past[r])
    BY NoPeersOK, PlainTask DEF Init, Idle
  <1> QED
    BY <1>3, <1>4, <1>5, Parts

LEMMA NextOK == SyncInvariant /\ [Next]_vars => SyncInvariant'
  <1> SUFFICES ASSUME SyncInvariant, [Next]_vars PROVE SyncInvariant'
    OBVIOUS
  <1>1. CASE UNCHANGED vars
    <2>1. SetsOK' /\ Monotone /\ UNCHANGED manager
      BY <1>1, SetsSame DEF vars, manager
    <2> QED
      BY <2>1, ManagersSame
  <1>2. ASSUME NEW r \in Replicas, NEW e \in Elements, AddLocal(r, e) \/ RemoveLocal(r, e)
        PROVE  SyncInvariant'
    BY <1>2, AddLocalKeeps, RemoveLocalKeeps
  <1>3. ASSUME NEW r \in Replicas, NEW keep \in Keeps, CompactLocal(r, keep)
        PROVE  SyncInvariant'
    BY <1>3, CompactLocalKeeps
  <1>4. ASSUME NEW r \in Replicas, NEW q \in Replicas \ {r}, MergeFrom(r, q)
        PROVE  SyncInvariant'
    BY <1>4, MergeFromKeeps
  <1>5. ASSUME NEW r \in Managers, NEW q \in Replicas \ {r}, AddPeer(r, q) \/ RemovePeer(r, q)
        PROVE  SyncInvariant'
    BY <1>5, AddPeerKeeps, RemovePeerKeeps
  <1>6. ASSUME NEW r \in Managers, NEW q \in Replicas \ {r}, NEW v \in DOMAIN past[r],
               UpdatePeerVersion(r, q, v)
        PROVE  SyncInvariant'
    BY <1>6, UpdatePeerVersionKeeps
  <1>7. ASSUME NEW r \in Managers, Start(r) \/ Stop(r)
        PROVE  SyncInvariant'
    BY <1>7, StartKeeps, StopKeeps
  <1>8. ASSUME NEW r \in Managers, NEW k \in 1..Tasks, TaskStep(r, k) \/ Deliver(r, k) \/ Lose(r, k)
        PROVE  SyncInvariant'
    BY <1>8, TickKeeps, NextPeerKeeps, DeliverKeeps, LoseKeeps, AckKeeps DEF TaskStep
  <1> QED
    BY <1>1, <1>2, <1>3, <1>4, <1>5, <1>6, <1>7, <1>8 DEF Next

\* Whatever is merged, compacted, lost, sent twice or sent by overlapping
\* tasks: a recorded version is known to its peer, a delta is complete, tags
\* are fresh and removals are of what was observed.
THEOREM SyncTheorem == Spec => []SyncInvariant
  BY InitOK, NextOK, PTL DEF Spec

-----------------------------------------------------------------------------
(* What a step does to what the replicas know. *)

LEMMA Shapes ==
  ASSUME Next
  PROVE  \/ \E r \in Replicas, e \in Elements : AddLocal(r, e)
         \/ \E r \in Replicas, e \in Elements : RemoveLocal(r, e)
         \/ \E r \in Replicas, keep \in Keeps : CompactLocal(r, keep)
         \/ \E r, q \in Replicas : MergeFrom(r, q)
         \/ \E r \in Managers, k \in 1..Tasks : Deliver(r, k)
         \/ UNCHANGED crdt
  <1>1. ASSUME NEW r, NEW q, AddPeer(r, q) \/ RemovePeer(r, q) PROVE UNCHANGED crdt
    BY <1>1 DEF AddPeer, RemovePeer
  <1>2. ASSUME NEW r, NEW q, NEW v, UpdatePeerVersion(r, q, v) PROVE UNCHANGED crdt
    BY <1>2 DEF UpdatePeerVersion
  <1>3. ASSUME NEW r, Start(r) \/ Stop(r) PROVE UNCHANGED crdt
    BY <1>3 DEF Start, Stop
  <1>4. ASSUME NEW r, NEW k, TaskStep(r, k) \/ Lose(r, k) PROVE UNCHANGED crdt
    BY <1>4 DEF TaskStep, Tick, Exit, EndTick, Ack, Failed, NextPeer, Lose
  <1> QED
    BY <1>1, <1>2, <1>3, <1>4 DEF Next

AddsItem ==
  \E r \in Replicas : \E x \in Items :
    (\A q \in Replicas : x \notin Known(crdt[q])) /\ Learns(r, {x}, {})

RemovesElement ==
  \E r \in Replicas, e \in Elements : Learns(r, {}, {x \in crdt[r].elements : x[1] = e})

Hears ==
  \E r, q \in Replicas : \E K \in SUBSET Known(crdt[q]) : \E G \in SUBSET crdt[q].tombstones :
    G \subseteq K /\ Learns(r, K, G)

LEMMA StepShape ==
  ASSUME SyncInvariant, Next
  PROVE  AddsItem \/ RemovesElement \/ Hears \/ UNCHANGED crdt
  <1>1. ASSUME NEW r \in Replicas, NEW keep \in Keeps, CompactLocal(r, keep)
        PROVE  Hears
    <2>1. Learns(r, {}, {})
      BY <1>1, CompactLocalKeeps
    <2> QED
      BY <2>1 DEF Hears
  <1>2. ASSUME NEW r \in Replicas, NEW q \in Replicas, MergeFrom(r, q)
        PROVE  Hears
    <2>1. Learns(r, Known(crdt[q]), crdt[q].tombstones) /\ crdt[q].tombstones \subseteq Known(crdt[q])
      BY <1>2, MergeFromKeeps DEF Known
    <2> QED
      BY <2>1 DEF Hears
  <1>3. ASSUME NEW r \in Managers, NEW k \in 1..Tasks, Deliver(r, k)
        PROVE  Hears
    BY <1>3, DeliverKeeps, SyncAssumption DEF Hears
  <1>4. ASSUME NEW r \in Replicas, NEW e \in Elements, AddLocal(r, e)
        PROVE  AddsItem
    BY <1>4, AddLocalKeeps DEF AddsItem
  <1>5. ASSUME NEW r \in Replicas, NEW e \in Elements, RemoveLocal(r, e)
        PROVE  RemovesElement
    BY <1>5, RemoveLocalKeeps DEF RemovesElement
  <1> QED
    BY <1>1, <1>2, <1>3, <1>4, <1>5, Shapes

\* A removal, once seen by a replica, is never undone there.
THEOREM NoResurrectionTheorem == Spec => NoResurrection
  <1>1. SyncInvariant /\ [Next]_vars => [NoResurrectionStep]_vars
    <2> SUFFICES ASSUME SyncInvariant, Next PROVE NoResurrectionStep
      BY DEF vars
    <2>1. ASSUME NEW r, NEW K, NEW G, Learns(r, K, G) PROVE NoResurrectionStep
      BY <2>1 DEF Learns, NoResurrectionStep
    <2>2. CASE UNCHANGED crdt
      BY <2>2 DEF NoResurrectionStep
    <2> QED
      BY <2>1, <2>2, StepShape DEF AddsItem, RemovesElement, Hears
  <1> QED
    BY <1>1, SyncTheorem, PTL DEF Spec, NoResurrection

\* The step of the abstract specification that a step of a replica is.
LEMMA AbstractStep ==
  ASSUME SyncInvariant, Next
  PROVE  [Abstract!Next]_(Abstract!vars)
  <1> DEFINE known == [r \in Replicas |-> Known(crdt[r])]
             gone == [r \in Replicas |-> crdt[r].tombstones]
  <1>2. ASSUME NEW r \in Replicas, NEW x \in Items, \A q \in Replicas : x \notin Known(crdt[q]),
               Learns(r, {x}, {})
        PROVE  Abstract!Next
    <2>1. known' = [known EXCEPT ![r] = known[r] \union {x}] /\ gone' = gone
      BY <1>2 DEF Learns
    <2>2. Abstract!AddItem(r, x)
      BY <1>2, <2>1 DEF Abstract!AddItem
    <2> QED
      BY <2>2 DEF Abstract!Next
  <1>3. ASSUME NEW r \in Replicas, NEW e \in Elements, Learns(r, {}, {x \in crdt[r].elements : x[1] = e})
        PROVE  Abstract!Next
    <2> DEFINE G == {x \in crdt[r].elements : x[1] = e}
    <2>1. crdt[r].elements \intersect crdt[r].tombstones = {}
      BY DEF SyncInvariant, ObservedRemove
    <2>2. G = {x \in known[r] \ gone[r] : x[1] = e}
      BY <2>1 DEF Known
    <2>3. Learns(r, {}, G)
      BY <1>3
    <2> HIDE DEF G
    <2>4. known' = known /\ gone' = [gone EXCEPT ![r] = gone[r] \union G]
      BY <2>3 DEF Learns
    <2>5. Abstract!RemoveElement(r, e)
      BY <2>2, <2>4 DEF Abstract!RemoveElement, Abstract!Shown
    <2> QED
      BY <2>5 DEF Abstract!Next
  <1>4. ASSUME NEW r \in Replicas, NEW q \in Replicas, NEW K \in SUBSET Known(crdt[q]),
               NEW G \in SUBSET crdt[q].tombstones, G \subseteq K, Learns(r, K, G)
        PROVE  Abstract!Next
    <2>1. /\ known' = [known EXCEPT ![r] = known[r] \union K]
          /\ gone' = [gone EXCEPT ![r] = gone[r] \union G]
      BY <1>4 DEF Learns
    <2>2. /\ K \in SUBSET UNION {known[i] : i \in Replicas}
          /\ G \in SUBSET UNION {gone[i] : i \in Replicas}
      BY <1>4
    <2>3. G \subseteq known'[r]
      BY <2>1, <1>4
    <2>4. Abstract!Learn(r)
      BY <2>1, <2>2, <2>3 DEF Abstract!Learn
    <2> QED
      BY <2>4 DEF Abstract!Next
  <1>5. CASE UNCHANGED crdt
    BY <1>5 DEF Abstract!vars
  <1> QED
    BY ZenonT(60), <1>2, <1>3, <1>4, <1>5, StepShape DEF AddsItem, RemovesElement, Hears

\* The OR-Set with its deltas, its compaction and its anti-entropy implements
\* the replicated set: each replica only learns, adds what nobody knows, and
\* removes what it shows.
THEOREM Refinement == Spec => ImplementsReplicatedSet
  <1>1. Init => Abstract!Init
    BY SMT DEF Init, Abstract!Init, NewSet, Known
  <1>2. SyncInvariant /\ [Next]_vars => [Abstract!Next]_(Abstract!vars)
    <2>1. CASE UNCHANGED vars
      BY <2>1 DEF vars, Abstract!vars
    <2> QED
      BY <2>1, AbstractStep
  <1> QED
    BY <1>1, <1>2, SyncTheorem, PTL DEF Spec, ImplementsReplicatedSet, Abstract!Spec
=============================================================================
