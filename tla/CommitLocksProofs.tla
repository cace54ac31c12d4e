-------------------------- MODULE CommitLocksProofs -------------------------
(***************************************************************************)
(* Proofs about the locks of the membership layer, for any number of       *)
(* concurrent commits and lock users and any bound on the rounds: writers  *)
(* are exclusive, every wait respects the lock order, and hence no set of  *)
(* tasks is ever deadlocked.                                               *)
(***************************************************************************)
EXTENDS CommitLocks, SequenceTheorems, TLAPS

\* A leaf is proved by Zenon unless it names another prover.
USE Zenon

\* What the three changes of a queue do to who waits where.
LEMMA EnqueueWaits ==
  ASSUME TypeOK, QueuedOnce, NEW t \in Tasks, NEW l \in Locks, ~IsWaiting(t), Enqueue(t, l)
  PROVE  /\ queue' \in [Locks -> Seq(Tasks)]
         /\ QueuedOnce'
         /\ \A u \in Tasks, m \in Locks : Waiting(u, m)' <=> Waiting(u, m) \/ (u = t /\ m = l)
  <1>1. queue' \in [Locks -> Seq(Tasks)]
    BY SMT DEF TypeOK, Enqueue
  <1>2. /\ DOMAIN queue'[l] = 1..(Len(queue[l]) + 1)
        /\ DOMAIN queue[l] = 1..Len(queue[l])
        /\ Len(queue[l]) \in Nat
        /\ queue'[l][Len(queue[l]) + 1] = t
        /\ \A i \in DOMAIN queue[l] : queue'[l][i] = queue[l][i]
    BY SMT DEF TypeOK, Enqueue
  <1>3. \A m \in Locks : m # l => queue'[m] = queue[m]
    BY DEF TypeOK, Enqueue
  <1>4. \A m \in Locks : \A i \in DOMAIN queue[m] : queue[m][i] # t
    BY DEF IsWaiting, Waiting
  <1>5. QueuedOnce'
    <2> SUFFICES ASSUME NEW k \in Locks, NEW m \in Locks,
                        NEW i \in DOMAIN queue'[k], NEW j \in DOMAIN queue'[m],
                        queue'[k][i] = queue'[m][j]
                 PROVE  k = m /\ i = j
      BY DEF QueuedOnce
    <2>1. i \in DOMAIN queue[k] \/ (k = l /\ i = Len(queue[l]) + 1)
      BY SMT, <1>2, <1>3
    <2>2. j \in DOMAIN queue[m] \/ (m = l /\ j = Len(queue[l]) + 1)
      BY SMT, <1>2, <1>3
    <2>3. i \in DOMAIN queue[k] => queue'[k][i] = queue[k][i]
      BY <1>2, <1>3
    <2>4. j \in DOMAIN queue[m] => queue'[m][j] = queue[m][j]
      BY <1>2, <1>3
    <2> QED
      BY SMT, <1>2, <1>4, <2>1, <2>2, <2>3, <2>4 DEF QueuedOnce
  <1>6. \A u \in Tasks, m \in Locks : Waiting(u, m)' <=> Waiting(u, m) \/ (u = t /\ m = l)
    BY SMT, <1>2, <1>3 DEF Waiting
  <1> QED
    BY <1>1, <1>5, <1>6

LEMMA TailWaits ==
  ASSUME TypeOK, QueuedOnce, NEW l \in Locks, queue[l] # <<>>,
         queue' = [queue EXCEPT ![l] = Tail(@)]
  PROVE  /\ queue' \in [Locks -> Seq(Tasks)]
         /\ QueuedOnce'
         /\ Head(queue[l]) \in Tasks
         /\ Waiting(Head(queue[l]), l)
         /\ \A u \in Tasks, m \in Locks :
              Waiting(u, m)' => Waiting(u, m) /\ u # Head(queue[l])
  <1>1. queue' \in [Locks -> Seq(Tasks)] /\ Head(queue[l]) \in Tasks
    BY SMT DEF TypeOK
  <1>2. /\ DOMAIN queue'[l] = 1..(Len(queue[l]) - 1)
        /\ DOMAIN queue[l] = 1..Len(queue[l])
        /\ Len(queue[l]) \in Nat /\ Len(queue[l]) > 0
        /\ Head(queue[l]) = queue[l][1]
        /\ \A i \in DOMAIN queue'[l] : queue'[l][i] = queue[l][i + 1]
    BY SMT DEF TypeOK
  <1>3. \A m \in Locks : m # l => queue'[m] = queue[m]
    BY DEF TypeOK
  <1>4. QueuedOnce'
    BY SMTT(30), <1>2, <1>3 DEF QueuedOnce
  <1>5. ASSUME NEW u \in Tasks, NEW m \in Locks, Waiting(u, m)'
        PROVE  Waiting(u, m) /\ u # Head(queue[l])
    BY SMT, <1>2, <1>3, <1>5 DEF Waiting, QueuedOnce
  <1>6. Waiting(Head(queue[l]), l)
    <2>1. 1 \in DOMAIN queue[l] /\ queue[l][1] = Head(queue[l])
      BY SMT, <1>2
    <2> QED
      BY <2>1 DEF Waiting
  <1> QED
    BY <1>1, <1>4, <1>5, <1>6

\* The i-th element is gone and the later ones have moved up.
LEMMA RemoveWaiterElements ==
  ASSUME NEW q \in Seq(Tasks), NEW i \in 1..Len(q)
  PROVE  /\ RemoveWaiter(q, i) \in Seq(Tasks)
         /\ DOMAIN RemoveWaiter(q, i) = 1..(Len(q) - 1)
         /\ \A j \in 1..(Len(q) - 1) : j < i => RemoveWaiter(q, i)[j] = q[j]
         /\ \A j \in 1..(Len(q) - 1) : j >= i => RemoveWaiter(q, i)[j] = q[j + 1]
  <1> DEFINE a == SubSeq(q, 1, i - 1)
             b == SubSeq(q, i + 1, Len(q))
  <1>1. a \in Seq(Tasks) /\ Len(a) = i - 1 /\ \A j \in 1..(i - 1) : a[j] = q[j]
    BY SMT
  <1>2. b \in Seq(Tasks) /\ Len(b) = Len(q) - i /\ \A j \in 1..(Len(q) - i) : b[j] = q[i + j]
    BY SMT
  <1>3. RemoveWaiter(q, i) = a \o b
    BY DEF RemoveWaiter
  <1> HIDE DEF a, b
  <1>4. /\ a \o b \in Seq(Tasks)
        /\ Len(a \o b) = Len(q) - 1
        /\ \A j \in 1..(Len(q) - 1) : (a \o b)[j] = IF j <= i - 1 THEN a[j] ELSE b[j - (i - 1)]
    <2>1. Len(a) + Len(b) = Len(q) - 1
      BY SMT, <1>1, <1>2
    <2>2. /\ a \o b \in Seq(Tasks)
          /\ Len(a \o b) = Len(a) + Len(b)
          /\ \A j \in 1..(Len(a) + Len(b)) : (a \o b)[j] = IF j <= Len(a) THEN a[j] ELSE b[j - Len(a)]
      BY <1>1, <1>2, ConcatProperties
    <2> QED
      BY <1>1, <2>1, <2>2
  <1>5. DOMAIN (a \o b) = 1..(Len(q) - 1)
    BY SMT, <1>4
  <1>6. ASSUME NEW j \in 1..(Len(q) - 1), j < i
        PROVE  (a \o b)[j] = q[j]
    BY SMT, <1>1, <1>4, <1>6
  <1>7. ASSUME NEW j \in 1..(Len(q) - 1), j >= i
        PROVE  (a \o b)[j] = q[j + 1]
    <2>1. j - (i - 1) \in 1..(Len(q) - i) /\ i + (j - (i - 1)) = j + 1
      BY SMT, <1>7
    <2>2. (a \o b)[j] = b[j - (i - 1)]
      <3>1. ~(j <= i - 1)
        BY SMT, <1>7
      <3> QED
        BY <1>4, <3>1
    <2> QED
      BY <1>2, <2>1, <2>2
  <1> QED
    BY <1>3, <1>4, <1>5, <1>6, <1>7

LEMMA RemoveWaits ==
  ASSUME TypeOK, QueuedOnce, NEW l \in Locks, NEW i \in DOMAIN queue[l],
         queue' = [queue EXCEPT ![l] = RemoveWaiter(@, i)]
  PROVE  /\ queue' \in [Locks -> Seq(Tasks)]
         /\ QueuedOnce'
         /\ \A u \in Tasks, m \in Locks :
              Waiting(u, m)' => Waiting(u, m) /\ u # queue[l][i]
  <1> DEFINE Old(m, j) == IF m = l /\ j >= i THEN j + 1 ELSE j
  <1>1. queue[l] \in Seq(Tasks) /\ i \in 1..Len(queue[l]) /\ Len(queue[l]) \in Nat
    BY SMT DEF TypeOK
  <1>2. queue' \in [Locks -> Seq(Tasks)]
    BY <1>1, RemoveWaiterElements DEF TypeOK
  <1>3. queue'[l] = RemoveWaiter(queue[l], i) /\ \A m \in Locks : m # l => queue'[m] = queue[m]
    BY DEF TypeOK
  <1>4. ASSUME NEW m \in Locks, NEW j \in DOMAIN queue'[m]
        PROVE  /\ j \in Nat
               /\ Old(m, j) \in DOMAIN queue[m]
               /\ queue'[m][j] = queue[m][Old(m, j)]
               /\ m = l => Old(m, j) # i
    <2>1. CASE m = l
      <3>1. j \in 1..(Len(queue[l]) - 1) /\ DOMAIN queue[l] = 1..Len(queue[l])
        BY SMT, <1>1, <1>3, <1>4, <2>1, RemoveWaiterElements
      <3>0. /\ \A x \in 1..(Len(queue[l]) - 1) : x < i => RemoveWaiter(queue[l], i)[x] = queue[l][x]
            /\ \A x \in 1..(Len(queue[l]) - 1) : x >= i => RemoveWaiter(queue[l], i)[x] = queue[l][x + 1]
        BY <1>1, RemoveWaiterElements
      <3>2. j < i => queue'[l][j] = queue[l][j]
        BY <1>3, <3>0, <3>1
      <3>3. j >= i => queue'[l][j] = queue[l][j + 1]
        BY <1>3, <3>0, <3>1
      <3> QED
        BY SMT, <1>1, <2>1, <3>1, <3>2, <3>3
    <2>2. CASE m # l
      <3>1. queue'[m] = queue[m] /\ DOMAIN queue[m] = 1..Len(queue[m]) /\ Len(queue[m]) \in Nat
        BY SMT, <1>3, <2>2 DEF TypeOK
      <3> QED
        BY SMT, <1>4, <2>2, <3>1
    <2> QED
      BY <2>1, <2>2
  <1>5. QueuedOnce'
    <2> SUFFICES ASSUME NEW k \in Locks, NEW m \in Locks,
                        NEW x \in DOMAIN queue'[k], NEW y \in DOMAIN queue'[m],
                        queue'[k][x] = queue'[m][y]
                 PROVE  k = m /\ x = y
      BY DEF QueuedOnce
    <2>1. k = m /\ Old(k, x) = Old(m, y)
      <3> HIDE DEF Old
      <3> QED
        BY SMT, <1>4 DEF QueuedOnce
    <2>2. x \in Nat /\ y \in Nat /\ i \in Nat
      BY SMTT(30), <1>1, <1>4
    <2> QED
      BY SMT, <2>1, <2>2
  <1>6. ASSUME NEW u \in Tasks, NEW m \in Locks, Waiting(u, m)'
        PROVE  Waiting(u, m) /\ u # queue[l][i]
    <2>1. PICK j \in DOMAIN queue'[m] : queue'[m][j] = u
      BY <1>6 DEF Waiting
    <2> HIDE DEF Old
    <2> QED
      BY SMT, <1>4, <2>1 DEF Waiting, QueuedOnce
  <1> QED
    BY <1>2, <1>5, <1>6

\* A step of another task does not disturb what the invariant says of u.
LEMMA OthersKeep ==
  ASSUME LockInvariant, NEW u \in Tasks, UNCHANGED <<pc[u], holding[u]>>,
         u \in Background => plan'[u] = plan[u],
         u \in Committers => waitFor'[u] = waitFor[u] /\ busy'[u] = busy[u],
         \A l \in Locks : Waiting(u, l)' => Waiting(u, l)
  PROVE  /\ u \in Background => PlanOrder(u)'
         /\ u \in Committers => CommitPhase(u)'
  <1>1. IsWaiting(u)' => IsWaiting(u)
    BY DEF IsWaiting
  <1>2. u \in Background => PlanOrder(u)'
    BY <1>1 DEF LockInvariant, PlanOrder
  <1>3. u \in Committers => CommitPhase(u)'
    BY SMT, <1>1 DEF LockInvariant, CommitPhase
  <1> QED
    BY <1>2, <1>3

\* A step that changes only what t holds, waits for and does keeps the
\* invariant when it keeps it for t.
LEMMA OneTask ==
  ASSUME LockInvariant, NEW t \in Tasks, TypeOK', QueuedOnce', Exclusive',
         \A u \in Tasks \ {t} :
           /\ UNCHANGED <<pc[u], holding[u]>>
           /\ u \in Background => plan'[u] = plan[u]
           /\ u \in Committers => waitFor'[u] = waitFor[u] /\ busy'[u] = busy[u]
           /\ \A l \in Locks : Waiting(u, l)' => Waiting(u, l),
         t \in Background => PlanOrder(t)',
         t \in Committers => CommitPhase(t)'
  PROVE  LockInvariant'
  <1>1. \A u \in Background : PlanOrder(u)'
    BY OthersKeep DEF Tasks
  <1>2. \A u \in Committers : CommitPhase(u)'
    BY OthersKeep DEF Tasks
  <1> QED
    BY <1>1, <1>2 DEF LockInvariant

\* Giving locks up, or just changing nothing, keeps writers exclusive.
LEMMA ExclusiveKept ==
  ASSUME LockInvariant, \A u \in Tasks : holding'[u] \subseteq holding[u],
         \A u \in Tasks, l \in Locks : l \in holding'[u] /\ Reads(u, l) => Reads(u, l)'
  PROVE  Exclusive'
  BY DEF LockInvariant, Exclusive, Holders

LEMMA Disjoint ==
  /\ \A c \in Committers : c \notin Background
  /\ Committers \subseteq Tasks /\ Background \subseteq Tasks
  BY TaskAssumption DEF Background, Tasks

LEMMA InitLocks == Init => LockInvariant
  <1> SUFFICES ASSUME Init PROVE LockInvariant
    OBVIOUS
  <1>1. TypeOK
    BY SMT, TaskAssumption DEF Init, TypeOK, CommitPc
  <1>2. \A t \in Tasks : holding[t] = {} /\ pc[t] = "idle" /\ ~IsWaiting(t)
    BY SMT DEF Init, IsWaiting, Waiting
  <1>3. Exclusive /\ QueuedOnce
    BY SMT, <1>2 DEF Init, Exclusive, QueuedOnce, Holders
  <1>4. \A t \in Background : PlanOrder(t)
    BY <1>2, Disjoint DEF Init, PlanOrder, IsWaiting
  <1>5. \A c \in Committers : CommitPhase(c)
    BY <1>2, Disjoint DEF CommitPhase, IsWaiting
  <1> QED
    BY <1>1, <1>3, <1>4, <1>5 DEF LockInvariant

LEMMA BeginLocks ==
  ASSUME LockInvariant, NEW t \in Background, Begin(t)
  PROVE  LockInvariant'
  <1>1. \A u \in Tasks, l \in Locks : Waiting(u, l)' <=> Waiting(u, l)
    BY DEF Begin, Waiting
  <1>2. TypeOK'
    <2>1. plan' \in [Background -> SUBSET Locks]
      BY SMT DEF Begin, Plans, LockInvariant, TypeOK, Locks
    <2> QED
      BY <2>1, Disjoint DEF Begin, LockInvariant, TypeOK, CommitPc, commit
  <1>3. QueuedOnce'
    BY SMT DEF Begin, LockInvariant, QueuedOnce
  <1>4. holding[t] = {} /\ ~IsWaiting(t) /\ holding' = holding
    BY DEF Begin, LockInvariant, PlanOrder
  <1>5. Exclusive'
    <2>1. \A u \in Tasks, l \in Locks : l \in holding'[u] /\ Reads(u, l) => Reads(u, l)'
      BY <1>4 DEF Begin, Reads
    <2> QED
      BY <1>4, <2>1, ExclusiveKept
  <1>6. PlanOrder(t)'
    BY <1>1, <1>4, Disjoint DEF Begin, PlanOrder, LockInvariant, TypeOK, IsWaiting
  <1> QED
    BY <1>1, <1>2, <1>3, <1>4, <1>5, <1>6, Disjoint, OneTask
       DEF Begin, LockInvariant, TypeOK, commit

LEMMA RankType == \A l \in Locks : Rank[l] \in 0..5
  BY SMT DEF Locks, Rank

\* NextLock is the first missing lock.
LEMMA NextLockFirst ==
  ASSUME NEW t, NEW S \in SUBSET Locks, S \ holding[t] # {}
  PROVE  /\ NextLock(t, S) \in S \ holding[t]
         /\ \A k \in S \ holding[t] : Rank[NextLock(t, S)] <= Rank[k]
  <1> DEFINE T == S \ holding[t]
  <1>0. T \subseteq Locks /\ T # {}
    OBVIOUS
  <1> HIDE DEF T
  <1>1. \E l \in T : \A k \in T : Rank[l] <= Rank[k]
    <2>1. CASE "gate" \in T
      BY SMT, <1>0, <2>1 DEF Locks, Rank
    <2>2. CASE "gate" \notin T /\ "pending" \in T
      BY SMT, <1>0, <2>2 DEF Locks, Rank
    <2>3. CASE T \intersect {"gate", "pending"} = {} /\ "indirect" \in T
      BY SMT, <1>0, <2>3 DEF Locks, Rank
    <2>4. CASE T \intersect {"gate", "pending", "indirect"} = {} /\ "states" \in T
      BY SMT, <1>0, <2>4 DEF Locks, Rank
    <2>5. CASE T \intersect {"gate", "pending", "indirect", "states"} = {} /\ "active" \in T
      BY SMT, <1>0, <2>5 DEF Locks, Rank
    <2>6. CASE T = {"passive"}
      BY SMT, <2>6 DEF Rank
    <2> QED
      BY <1>0, <2>1, <2>2, <2>3, <2>4, <2>5, <2>6 DEF Locks
  <1> QED
    BY <1>1 DEF NextLock, T

LEMMA RequestLocks ==
  ASSUME LockInvariant, NEW t \in Background, Request(t)
  PROVE  LockInvariant'
  <1> DEFINE l == NextLock(t, plan[t])
  <1>1. /\ l \in plan[t] \ holding[t]
        /\ \A k \in plan[t] \ holding[t] : Rank[l] <= Rank[k]
    BY NextLockFirst DEF LockInvariant, TypeOK, Request
  <1>2. l \in Locks /\ t \in Tasks
    BY <1>1, Disjoint DEF LockInvariant, TypeOK
  <1>3. Enqueue(t, l) /\ ~IsWaiting(t) /\ pc[t] = "ordered"
        /\ UNCHANGED <<holding, pc, plan, reading, busy, waitFor>>
    BY DEF Request, background, commit
  <1> HIDE DEF l
  <1>4. /\ queue' \in [Locks -> Seq(Tasks)] /\ QueuedOnce'
        /\ \A u \in Tasks, m \in Locks : Waiting(u, m)' <=> Waiting(u, m) \/ (u = t /\ m = l)
    BY <1>2, <1>3, EnqueueWaits DEF LockInvariant
  <1>5. TypeOK'
    BY <1>3, <1>4 DEF LockInvariant, TypeOK
  <1>6. Exclusive'
    BY <1>3, ExclusiveKept DEF Reads
  <1>7. PlanOrder(t)'
    <2>1. \A m \in Locks : Waiting(t, m)' => m = l
      BY <1>2, <1>3, <1>4 DEF IsWaiting
    <2> QED
      BY <1>1, <1>3, <2>1 DEF LockInvariant, PlanOrder
  <1> QED
    BY <1>2, <1>3, <1>4, <1>5, <1>6, <1>7, Disjoint, OneTask

LEMMA FinishLocks ==
  ASSUME LockInvariant, NEW t \in Background, Finish(t)
  PROVE  LockInvariant'
  <1>1. \A u \in Tasks, l \in Locks : Waiting(u, l)' <=> Waiting(u, l)
    BY DEF Finish, Waiting
  <1>2. \A l \in Locks : ~Waiting(t, l)
    BY DEF LockInvariant, PlanOrder, Finish
  <1>3. TypeOK'
    BY DEF Finish, LockInvariant, TypeOK, CommitPc, commit
  <1>4. QueuedOnce'
    BY SMT DEF Finish, LockInvariant, QueuedOnce
  <1>5. Exclusive'
    <2>1. \A u \in Tasks : holding'[u] \subseteq holding[u]
      BY DEF Finish, LockInvariant, TypeOK
    <2>2. \A u \in Tasks, l \in Locks : l \in holding'[u] /\ Reads(u, l) => Reads(u, l)'
      BY Disjoint DEF Finish, Reads, LockInvariant, TypeOK
    <2> QED
      BY <2>1, <2>2, ExclusiveKept
  <1>6. PlanOrder(t)'
    BY <1>1, <1>2, Disjoint DEF Finish, PlanOrder, LockInvariant, TypeOK, IsWaiting
  <1> QED
    BY <1>1, <1>3, <1>4, <1>5, <1>6, Disjoint, OneTask DEF Finish, LockInvariant, TypeOK, commit

\* The head of the queue waited for exactly this lock, so it now holds it and
\* waits for nothing.
LEMMA GrantLocks ==
  ASSUME LockInvariant, NEW l \in Locks, Grant(l)
  PROVE  LockInvariant'
  <1>0. PICK t : t = Head(queue[l])
    OBVIOUS
  <1>1. /\ queue[l] # <<>>
        /\ queue' = [queue EXCEPT ![l] = Tail(@)]
        /\ Holders(l) = {} \/ (Reads(t, l) /\ \A u \in Holders(l) : Reads(u, l))
        /\ holding' = [holding EXCEPT ![t] = @ \union {l}]
        /\ UNCHANGED <<pc, plan, reading, busy, waitFor>>
    BY <1>0 DEF Grant, background, commit
  <1>2. /\ queue' \in [Locks -> Seq(Tasks)] /\ QueuedOnce'
        /\ t \in Tasks /\ Waiting(t, l)
        /\ \A u \in Tasks, m \in Locks : Waiting(u, m)' => Waiting(u, m) /\ u # t
    BY <1>0, <1>1, TailWaits DEF LockInvariant
  <1>3. /\ holding' \in [Tasks -> SUBSET Locks]
        /\ holding'[t] = holding[t] \union {l}
        /\ \A u \in Tasks \ {t} : holding'[u] = holding[u]
    BY <1>1, <1>2 DEF LockInvariant, TypeOK
  <1>4. TypeOK'
    BY <1>1, <1>2, <1>3 DEF LockInvariant, TypeOK
  <1>5. Exclusive'
    <2> SUFFICES ASSUME NEW m \in Locks, NEW u \in Tasks, NEW v \in Tasks,
                        m \in holding'[u], m \in holding'[v], u # v
                 PROVE  Reads(u, m)' /\ Reads(v, m)'
      BY DEF Exclusive, Holders
    <2>1. Reads(u, m)' = Reads(u, m) /\ Reads(v, m)' = Reads(v, m)
      BY <1>1 DEF Reads
    <2>2. CASE m \in holding[u] /\ m \in holding[v]
      BY <2>1, <2>2 DEF LockInvariant, Exclusive, Holders
    <2>3. CASE m \notin holding[u]
      BY SMT, <1>1, <1>3, <2>1, <2>3 DEF Holders
    <2>4. CASE m \notin holding[v]
      BY <1>1, <1>3, <2>1, <2>4 DEF Holders
    <2> QED
      BY <2>2, <2>3, <2>4
  <1>6. ~IsWaiting(t)'
    BY <1>2 DEF IsWaiting
  <1>7. ASSUME t \in Background PROVE PlanOrder(t)'
    <2>1. /\ l \in plan[t] \ holding[t]
          /\ \A k \in plan[t] \ holding[t] : Rank[l] <= Rank[k]
          /\ \A k \in holding[t], m \in plan[t] \ holding[t] : Rank[k] < Rank[m]
          /\ pc[t] = "ordered" /\ holding[t] \subseteq plan[t] /\ plan[t] \subseteq Locks
      BY <1>2, <1>7 DEF LockInvariant, PlanOrder, IsWaiting, TypeOK
    <2>2. \A k \in Locks : k # l => Rank[k] # Rank[l]
      BY SMT DEF Locks, Rank
    <2>3. \A k \in holding'[t], m \in plan[t] \ holding'[t] : Rank[k] < Rank[m]
      BY SMT, <1>3, <2>1, <2>2, RankType
    <2> QED
      BY <1>1, <1>2, <1>3, <1>6, <2>1, <2>3 DEF PlanOrder
  <1>8. ASSUME t \in Committers PROVE CommitPhase(t)'
    BY <1>1, <1>2, <1>3, <1>6, <1>8 DEF LockInvariant, CommitPhase, IsWaiting
  <1> QED
    BY <1>1, <1>2, <1>3, <1>4, <1>5, <1>7, <1>8, OneTask

\* A commit step gives locks up or keeps them, and touches nobody else.
LEMMA CommitFrame ==
  ASSUME LockInvariant, NEW c \in Committers, TypeOK', QueuedOnce', UNCHANGED background,
         \A u \in Tasks : holding'[u] \subseteq holding[u],
         \A u \in Tasks \ {c} :
           /\ UNCHANGED <<pc[u], holding[u]>>
           /\ u \in Committers => waitFor'[u] = waitFor[u] /\ busy'[u] = busy[u]
           /\ \A l \in Locks : Waiting(u, l)' => Waiting(u, l),
         CommitPhase(c)'
  PROVE  LockInvariant'
  <1>1. Exclusive'
    BY ExclusiveKept DEF Reads, background
  <1> QED
    BY <1>1, Disjoint, OneTask DEF background

\* A step that leaves the queues alone
LEMMA QueuesKept ==
  ASSUME UNCHANGED queue
  PROVE  /\ \A u, l : Waiting(u, l)' = Waiting(u, l)
         /\ \A u : IsWaiting(u)' = IsWaiting(u)
         /\ QueuedOnce' = QueuedOnce
  BY SMT DEF Waiting, IsWaiting, QueuedOnce

\* A step that makes c wait for l, and moves it to p
LEMMA EnqueueLocks ==
  ASSUME LockInvariant, NEW c \in Committers, NEW l \in Locks, NEW p \in CommitPc,
         ~IsWaiting(c), Enqueue(c, l), pc' = [pc EXCEPT ![c] = p],
         UNCHANGED <<holding, plan, reading, busy, waitFor>>,
         p \in {"gate", "wait", "ordered", "demote"},
         p = "wait" => busy[c] < Rounds,
         \/ p = "gate" /\ l = "gate" /\ holding[c] = {}
         \/ p = "wait" /\ l = waitFor[c] /\ holding[c] = {"gate"}
         \/ p = "ordered" /\ l = "states" /\ holding[c] = {"gate"}
         \/ p = "ordered" /\ l = "active" /\ holding[c] = {"gate", "states"}
         \/ p = "demote" /\ l = "passive" /\ holding[c] = {"gate", "states", "active"}
  PROVE  LockInvariant'
  <1>1. c \in Tasks
    BY Disjoint
  <1>2. /\ queue' \in [Locks -> Seq(Tasks)] /\ QueuedOnce'
        /\ \A u \in Tasks, m \in Locks : Waiting(u, m)' <=> Waiting(u, m) \/ (u = c /\ m = l)
    BY <1>1, EnqueueWaits DEF LockInvariant
  <1>3. TypeOK'
    BY <1>2 DEF LockInvariant, TypeOK
  <1>4. \A m \in Locks : Waiting(c, m)' => m = l
    BY <1>1, <1>2 DEF IsWaiting
  <1>5. pc'[c] = p /\ \A u \in Tasks \ {c} : pc'[u] = pc[u]
    BY <1>1 DEF LockInvariant, TypeOK
  <1>6. CommitPhase(c)'
    BY <1>4, <1>5 DEF CommitPhase
  <1> QED
    BY <1>1, <1>2, <1>3, <1>5, <1>6, CommitFrame DEF background

LEMMA StartCommitLocks ==
  ASSUME LockInvariant, NEW c \in Committers, StartCommit(c)
  PROVE  LockInvariant'
  <1>1. holding[c] = {} /\ ~IsWaiting(c)
    BY DEF StartCommit, LockInvariant, CommitPhase
  <1>2. "gate" \in Locks /\ "gate" \in CommitPc
    BY DEF Locks, CommitPc
  <1> QED
    BY <1>1, <1>2, EnqueueLocks DEF StartCommit, background, commit

LEMMA EnterRoundsLocks ==
  ASSUME LockInvariant, NEW c \in Committers, EnterRounds(c)
  PROVE  LockInvariant'
  <1>1. TypeOK'
    <2>1. busy' \in [Committers -> 0..Rounds]
      BY SMT, TaskAssumption DEF EnterRounds, LockInvariant, TypeOK
    <2> QED
      BY <2>1 DEF EnterRounds, LockInvariant, TypeOK, CommitPc, background
  <1>2. pc'[c] = "round" /\ busy'[c] = 0 /\ 0 < Rounds
    BY SMT, Disjoint, TaskAssumption DEF EnterRounds, LockInvariant, TypeOK
  <1>3. ~IsWaiting(c)
    BY DEF EnterRounds, LockInvariant, CommitPhase, IsWaiting
  <1>4. CommitPhase(c)'
    BY <1>2, <1>3, QueuesKept DEF EnterRounds, CommitPhase, IsWaiting
  <1> QED
    BY <1>1, <1>4, QueuesKept, CommitFrame DEF EnterRounds, LockInvariant, TypeOK

LEMMA AppliedLocks ==
  ASSUME LockInvariant, NEW c \in Committers, ~IsWaiting(c), Applied(c)
  PROVE  LockInvariant'
  <1>1. TypeOK'
    BY DEF Applied, LockInvariant, TypeOK, CommitPc, background, commit
  <1>2. CommitPhase(c)'
    BY Disjoint, QueuesKept DEF Applied, CommitPhase, IsWaiting, LockInvariant, TypeOK
  <1> QED
    BY <1>1, <1>2, QueuesKept, CommitFrame DEF Applied, LockInvariant, TypeOK, commit

LEMMA BusyRoundLocks ==
  ASSUME LockInvariant, NEW c \in Committers, NEW l \in {"states", "active", "passive"},
         pc[c] = "round", BusyRound(c, l)
  PROVE  LockInvariant'
  <1>1. busy[c] < Rounds /\ "gate" \in holding[c] /\ ~IsWaiting(c)
    BY DEF LockInvariant, CommitPhase
  <1>2. TypeOK'
    <2>1. busy' \in [Committers -> 0..Rounds]
      BY SMT, <1>1, TaskAssumption DEF BusyRound, LockInvariant, TypeOK
    <2> QED
      BY <2>1 DEF BusyRound, LockInvariant, TypeOK, CommitPc, Locks, background
  <1>3. pc'[c] = "retry" /\ holding'[c] = {"gate"}
    BY Disjoint DEF BusyRound, LockInvariant, TypeOK
  <1>4. CommitPhase(c)'
    BY <1>1, <1>3, QueuesKept DEF BusyRound, CommitPhase, IsWaiting
  <1>5. \A u \in Tasks : holding'[u] \subseteq holding[u]
    BY <1>1 DEF BusyRound, LockInvariant, TypeOK
  <1> QED
    BY <1>2, <1>4, <1>5, QueuesKept, CommitFrame DEF BusyRound, LockInvariant, TypeOK

LEMMA RoundLocks ==
  ASSUME LockInvariant, NEW c \in Committers, Round(c)
  PROVE  LockInvariant'
  <1>1. pc[c] = "round" /\ ~IsWaiting(c)
    BY DEF Round, LockInvariant, CommitPhase
  <1>2. Applied(c) \/ \E l \in {"states", "active", "passive"} : BusyRound(c, l)
    BY DEF Round
  <1> QED
    BY <1>1, <1>2, AppliedLocks, BusyRoundLocks

LEMMA RetryLocks ==
  ASSUME LockInvariant, NEW c \in Committers, Retry(c)
  PROVE  LockInvariant'
  <1>1. pc[c] = "retry" /\ holding[c] = {"gate"} /\ ~IsWaiting(c)
    BY DEF Retry, LockInvariant, CommitPhase
  <1>2. /\ waitFor[c] \in Locks /\ "states" \in Locks
        /\ busy[c] \in 0..Rounds /\ Rounds \in Nat
        /\ "wait" \in CommitPc /\ "ordered" \in CommitPc
    BY TaskAssumption DEF LockInvariant, TypeOK, Locks, CommitPc
  <1>3. CASE busy[c] = Rounds
    <2>1. pc' = [pc EXCEPT ![c] = "ordered"] /\ Enqueue(c, "states")
      BY <1>3 DEF Retry
    <2>2. UNCHANGED <<holding, plan, reading, busy, waitFor>>
      BY DEF Retry, background, commit
    <2> QED
      BY <1>1, <1>2, <2>1, <2>2, EnqueueLocks
  <1>4. CASE busy[c] # Rounds
    <2>1. pc' = [pc EXCEPT ![c] = "wait"] /\ Enqueue(c, waitFor[c]) /\ busy[c] < Rounds
      BY SMT, <1>2, <1>4 DEF Retry
    <2>2. UNCHANGED <<holding, plan, reading, busy, waitFor>>
      BY DEF Retry, background, commit
    <2> QED
      BY <1>1, <1>2, <2>1, <2>2, EnqueueLocks
  <1> QED
    BY <1>3, <1>4

LEMMA WokenLocks ==
  ASSUME LockInvariant, NEW c \in Committers, Woken(c)
  PROVE  LockInvariant'
  <1>1. TypeOK'
    BY DEF Woken, LockInvariant, TypeOK, CommitPc, background, commit
  <1>2. ~IsWaiting(c) /\ "gate" \in holding[c] /\ busy[c] < Rounds
    BY DEF Woken, LockInvariant, TypeOK, CommitPhase, IsWaiting
  <1>3. CommitPhase(c)'
    BY <1>2, Disjoint, QueuesKept DEF Woken, CommitPhase, IsWaiting, LockInvariant, TypeOK, commit
  <1> QED
    BY <1>1, <1>3, QueuesKept, CommitFrame DEF Woken, LockInvariant, TypeOK, commit

LEMMA OrderedLocks ==
  ASSUME LockInvariant, NEW c \in Committers, OrderedActive(c) \/ OrderedPassive(c)
  PROVE  LockInvariant'
  <1>1. /\ {"active", "passive"} \subseteq Locks
        /\ {"ordered", "demote"} \subseteq CommitPc
    BY DEF Locks, CommitPc
  <1>2. holding[c] \subseteq {"gate", "states", "active"} /\ "gate" \in holding[c]
    BY DEF OrderedActive, OrderedPassive, LockInvariant, CommitPhase
  <1>3. CASE OrderedActive(c)
    <2>1. holding[c] = {"gate", "states"} /\ ~IsWaiting(c)
      BY <1>2, <1>3 DEF OrderedActive
    <2>2. pc' = [pc EXCEPT ![c] = "ordered"]
      BY <1>3, Disjoint DEF OrderedActive, LockInvariant, TypeOK
    <2> QED
      BY <1>1, <1>3, <2>1, <2>2, EnqueueLocks DEF OrderedActive, background, commit
  <1>4. CASE OrderedPassive(c)
    <2>1. holding[c] = {"gate", "states", "active"} /\ pc[c] = "ordered"
      BY <1>2, <1>4 DEF OrderedPassive
    <2>2. ~IsWaiting(c)
      BY <2>1 DEF LockInvariant, CommitPhase, IsWaiting
    <2> QED
      BY <1>1, <1>4, <2>1, <2>2, EnqueueLocks, AppliedLocks DEF OrderedPassive, background, commit
  <1> QED
    BY <1>3, <1>4

LEMMA DemoteLocks ==
  ASSUME LockInvariant, NEW c \in Committers, Demote(c)
  PROVE  LockInvariant'
  <1>1. ~IsWaiting(c)
    BY DEF Demote, LockInvariant, CommitPhase, IsWaiting
  <1> QED
    BY <1>1, AppliedLocks DEF Demote

LEMMA CancelLocks ==
  ASSUME LockInvariant, NEW c \in Committers, Cancel(c)
  PROVE  LockInvariant'
  <1>1. PICK l \in Locks : \E i \in DOMAIN queue[l] :
          queue[l][i] = c /\ queue' = [queue EXCEPT ![l] = RemoveWaiter(@, i)]
    BY DEF Cancel
  <1>2. PICK i \in DOMAIN queue[l] :
          queue[l][i] = c /\ queue' = [queue EXCEPT ![l] = RemoveWaiter(@, i)]
    BY <1>1
  <1>3. /\ queue' \in [Locks -> Seq(Tasks)] /\ QueuedOnce'
        /\ \A u \in Tasks, m \in Locks : Waiting(u, m)' => Waiting(u, m) /\ u # c
    BY <1>2, RemoveWaits DEF LockInvariant
  <1>4. TypeOK'
    BY <1>3 DEF Cancel, LockInvariant, TypeOK, CommitPc, background, commit
  <1>5. pc'[c] = "idle" /\ holding'[c] = {} /\ ~IsWaiting(c)'
    BY <1>3, Disjoint DEF Cancel, IsWaiting, LockInvariant, TypeOK
  <1>6. CommitPhase(c)'
    BY <1>5 DEF CommitPhase, IsWaiting
  <1> QED
    BY <1>3, <1>4, <1>6, CommitFrame DEF Cancel, LockInvariant, TypeOK, commit

\* The reason of the lock order: every state the locks can reach satisfies the
\* invariant LockInvariant, whatever the numbers of commits, users and rounds.
THEOREM LockTheorem == Spec => []LockInvariant
  <1>1. LockInvariant /\ [Next]_vars => LockInvariant'
    <2> SUFFICES ASSUME LockInvariant, [Next]_vars PROVE LockInvariant'
      OBVIOUS
    <2>1. CASE \E l \in Locks : Grant(l)
      BY <2>1, GrantLocks
    <2>2. CASE \E t \in Background : Begin(t) \/ TaskStep(t)
      BY <2>2, BeginLocks, RequestLocks, FinishLocks DEF TaskStep
    <2>3. CASE \E c \in Committers : StartCommit(c) \/ CommitStep(c) \/ Cancel(c)
      BY <2>3, StartCommitLocks, EnterRoundsLocks, RoundLocks, RetryLocks, WokenLocks,
         OrderedLocks, DemoteLocks, CancelLocks DEF CommitStep
    <2>4. CASE UNCHANGED vars
      BY SMTT(30), <2>4 DEF vars, LockInvariant, TypeOK, Exclusive, QueuedOnce, PlanOrder,
         CommitPhase,
                  Holders, Waiting, IsWaiting, Reads
    <2> QED
      BY <2>1, <2>2, <2>3, <2>4 DEF Next
  <1> QED
    BY <1>1, InitLocks, PTL DEF Spec

\* Writers are exclusive, and a task that waits for a lock only holds locks
\* that come before it: the order the comments of commit_active name.
THEOREM OrderTheorem == Spec => [](Exclusive /\ LockOrder)
  <1>1. LockInvariant => Exclusive /\ LockOrder
    <2> SUFFICES ASSUME LockInvariant, NEW t \in Tasks, NEW l \in Locks, Waiting(t, l),
                        NEW k \in holding[t]
                 PROVE  Rank[k] < Rank[l]
      BY DEF LockInvariant, LockOrder
    <2>1. CASE t \in Background
      BY <2>1 DEF LockInvariant, PlanOrder
    <2>2. CASE t \in Committers
      BY SMTT(30), <2>2 DEF LockInvariant, CommitPhase, TypeOK, Rank
    <2> QED
      BY <2>1, <2>2 DEF Tasks
  <1> QED
    BY <1>1, LockTheorem, PTL

\* A set of locks has a last one.
LEMMA LastLock ==
  ASSUME NEW T \in SUBSET Locks, T # {}
  PROVE  \E l \in T : \A k \in T : Rank[k] <= Rank[l]
  <1>1. CASE "passive" \in T
    BY SMT, <1>1 DEF Locks, Rank
  <1>2. CASE "passive" \notin T /\ "active" \in T
    BY SMT, <1>2 DEF Locks, Rank
  <1>3. CASE T \intersect {"passive", "active"} = {} /\ "states" \in T
    BY SMT, <1>3 DEF Locks, Rank
  <1>4. CASE T \intersect {"passive", "active", "states"} = {} /\ "indirect" \in T
    BY SMT, <1>4 DEF Locks, Rank
  <1>5. CASE T \intersect {"passive", "active", "states", "indirect"} = {} /\ "pending" \in T
    BY SMT, <1>5 DEF Locks, Rank
  <1>6. CASE T = {"gate"}
    BY SMT, <1>6 DEF Rank
  <1> QED
    BY <1>1, <1>2, <1>3, <1>4, <1>5, <1>6 DEF Locks

\* No tasks of the membership layer are ever deadlocked on its locks: the
\* holder of the last lock held in the set would wait for a later one.
THEOREM DeadlockFreedom == Spec => []NoDeadlock
  <1>1. TypeOK /\ LockOrder => NoDeadlock
    <2> SUFFICES ASSUME TypeOK, LockOrder, NEW S \in SUBSET Tasks, S # {},
                        \A t \in S : \E u \in S, l \in Locks : Waiting(t, l) /\ l \in holding[u]
                 PROVE  FALSE
      BY DEF NoDeadlock, IsWaiting
    <2> DEFINE Held == {l \in Locks : \E u \in S : l \in holding[u]}
    <2>1. Held # {} /\ Held \in SUBSET Locks
      OBVIOUS
    <2> HIDE DEF Held
    <2>2. PICK m \in Held : \A k \in Held : Rank[k] <= Rank[m]
      BY <2>1, LastLock
    <2>3. PICK t \in S : m \in holding[t]
      BY <2>2 DEF Held
    <2>4. PICK l \in Locks : Waiting(t, l) /\ \E u \in S : l \in holding[u]
      BY <2>3
    <2>5. Rank[m] < Rank[l]
      BY <2>3, <2>4 DEF LockOrder
    <2>6. l \in Held /\ Rank[l] <= Rank[m]
      BY <2>2, <2>4 DEF Held
    <2> QED
      BY SMT, <2>1, <2>5, <2>6, RankType
  <1>2. LockInvariant => TypeOK
    BY DEF LockInvariant
  <1> QED
    BY <1>1, <1>2, LockTheorem, OrderTheorem, PTL

\* A commit that waits before its fallback blocks nobody but other commits: it
\* holds at most the gate (commit_active).
THEOREM WaitsTheorem == Spec => []WaitsHoldingNothing
  <1>1. LockInvariant => WaitsHoldingNothing
    <2> SUFFICES ASSUME LockInvariant, NEW c \in Committers, pc[c] \in {"gate", "wait"},
                        NEW l \in Locks, Waiting(c, l)
                 PROVE  holding[c] \subseteq {"gate"}
      BY DEF WaitsHoldingNothing, IsWaiting
    <2> QED
      BY DEF LockInvariant, CommitPhase
  <1> QED
    BY <1>1, LockTheorem, PTL
=============================================================================
