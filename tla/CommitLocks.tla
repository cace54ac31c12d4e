----------------------------- MODULE CommitLocks ----------------------------
(***************************************************************************)
(* How the membership layer takes its locks (crates/membership/src/lib.rs):*)
(* commit_active with its rounds of try_write, its single waits and its    *)
(* ordered fallback, the degree maintenance round, the re-check of the     *)
(* probe-timeout task, and every code path that takes one lock at a time.  *)
(* What they do under the locks is in modules Views and Swim.              *)
(*                                                                         *)
(* A tokio lock is fair: a task that waits stands in a queue, the head of  *)
(* the queue gets the lock before any later request, and try_write fails   *)
(* while somebody waits.                                                   *)
(***************************************************************************)
EXTENDS Naturals, Sequences, FiniteSets

CONSTANTS
  Committers,   \* tasks that run commit_active
  Users,        \* tasks that take one lock at a time
  Rounds        \* COMMIT_TRY_ROUNDS

ASSUME TaskAssumption ==
  /\ Rounds \in Nat \ {0}
  /\ Committers \intersect Users = {}
  /\ {"maintenance", "timeout"} \intersect (Committers \union Users) = {}

Background == Users \union {"maintenance", "timeout"}
Tasks == Committers \union Background

Locks == {"gate", "pending", "indirect", "states", "active", "passive"}
Rank == [gate |-> 0, pending |-> 1, indirect |-> 2, states |-> 3, active |-> 4, passive |-> 5]

VARIABLES
  holding,   \* locks each task holds
  queue,     \* tasks that wait for each lock
  pc,        \* where each task is
  plan,      \* locks a background task takes in this round
  reading,   \* users that want their lock for reading
  busy,      \* busy_rounds of each committer
  waitFor    \* wait_for of each committer

vars == <<holding, queue, pc, plan, reading, busy, waitFor>>
background == <<plan, reading>>
commit == <<busy, waitFor>>

CommitPc == {"idle", "gate", "round", "retry", "wait", "ordered", "demote"}

TypeOK ==
  /\ holding \in [Tasks -> SUBSET Locks]
  /\ queue \in [Locks -> Seq(Tasks)]
  /\ pc \in [Tasks -> CommitPc]
  /\ plan \in [Background -> SUBSET Locks]
  /\ reading \in SUBSET Users
  /\ busy \in [Committers -> 0..Rounds]
  /\ waitFor \in [Committers -> {"states", "active", "passive"}]

Init ==
  /\ holding = [t \in Tasks |-> {}]
  /\ queue = [l \in Locks |-> <<>>]
  /\ pc = [t \in Tasks |-> "idle"]
  /\ plan = [t \in Background |-> {}]
  /\ reading = {}
  /\ busy = [c \in Committers |-> 0]
  /\ waitFor = [c \in Committers |-> "states"]
-----------------------------------------------------------------------------
(* The locks. *)

Holders(l) == {t \in Tasks : l \in holding[t]}
Waiting(t, l) == \E i \in DOMAIN queue[l] : queue[l][i] = t
IsWaiting(t) == \E l \in Locks : Waiting(t, l)

\* The probe-timeout task reads the probe table; a user may read any lock.
Reads(t, l) == (t = "timeout" /\ l = "pending") \/ t \in reading

\* try_write
Available(l) == Holders(l) = {} /\ queue[l] = <<>>

\* A queue without its i-th waiter
RemoveWaiter(q, i) == SubSeq(q, 1, i - 1) \o SubSeq(q, i + 1, Len(q))

Enqueue(t, l) == queue' = [queue EXCEPT ![l] = Append(@, t)]

\* Mutant: a reader does not mind a writer.
GrantReaders(l) ==
  /\ queue[l] # <<>>
  /\ LET t == Head(queue[l])
     IN /\ Holders(l) = {} \/ Reads(t, l)
        /\ holding' = [holding EXCEPT ![t] = @ \union {l}]
  /\ queue' = [queue EXCEPT ![l] = Tail(@)]
  /\ UNCHANGED <<pc, background, commit>>

\* The head of the queue gets the lock.
Grant(l) ==
  /\ queue[l] # <<>>
  /\ LET t == Head(queue[l])
     IN /\ \/ Holders(l) = {}
           \/ Reads(t, l) /\ \A u \in Holders(l) : Reads(u, l)
        /\ holding' = [holding EXCEPT ![t] = @ \union {l}]
  /\ queue' = [queue EXCEPT ![l] = Tail(@)]
  /\ UNCHANGED <<pc, background, commit>>
-----------------------------------------------------------------------------
(* Tasks that take their locks one after the other and wait holding the    *)
(* earlier ones.                                                           *)

\* The locks such a task takes: a maintenance round all of them, the re-check
\* of a timed-out probe the probe table and the SWIM states, a user just one.
Plans(t) ==
  CASE t = "maintenance" -> {{"pending", "indirect", "states", "active", "passive"}}
    [] t = "timeout" -> {{"pending", "states"}}
    [] OTHER -> {{l} : l \in Locks \ {"gate"}}

Begin(t) ==
  /\ pc[t] = "idle"
  /\ pc' = [pc EXCEPT ![t] = "ordered"]
  /\ \E p \in Plans(t) : plan' = [plan EXCEPT ![t] = p]
  /\ reading' \in IF t \in Users THEN {reading \ {t}, reading \union {t}} ELSE {reading}
  /\ UNCHANGED <<holding, queue, commit>>

\* Mutant: the locks are taken in the opposite order.
NextLockReversed(t, S) ==
  CHOOSE l \in S \ holding[t] : \A k \in S \ holding[t] : Rank[l] >= Rank[k]

\* The first lock of S, in lock order, that t does not hold
NextLock(t, S) ==
  CHOOSE l \in S \ holding[t] : \A k \in S \ holding[t] : Rank[l] <= Rank[k]

Request(t) ==
  /\ pc[t] = "ordered"
  /\ ~IsWaiting(t)
  /\ plan[t] \ holding[t] # {}
  /\ Enqueue(t, NextLock(t, plan[t]))
  /\ UNCHANGED <<holding, pc, background, commit>>

\* Under all its locks the task does its work, then drops them.
Finish(t) ==
  /\ pc[t] = "ordered"
  /\ plan[t] \subseteq holding[t]
  /\ holding' = [holding EXCEPT ![t] = {}]
  /\ pc' = [pc EXCEPT ![t] = "idle"]
  /\ plan' = [plan EXCEPT ![t] = {}]
  /\ reading' = reading \ {t}
  /\ UNCHANGED <<queue, commit>>
-----------------------------------------------------------------------------
(* commit_active. *)

\* commit_gate.lock()
StartCommit(c) ==
  /\ pc[c] = "idle"
  /\ pc' = [pc EXCEPT ![c] = "gate"]
  /\ Enqueue(c, "gate")
  /\ UNCHANGED <<holding, background, commit>>

EnterRounds(c) ==
  /\ pc[c] = "gate"
  /\ "gate" \in holding[c]
  /\ pc' = [pc EXCEPT ![c] = "round"]
  /\ busy' = [busy EXCEPT ![c] = 0]
  /\ UNCHANGED <<holding, queue, background, waitFor>>

Got(c, l) == l \in holding[c] \/ Available(l)

\* Every lock is held: apply_commit, then all of them are dropped.
Applied(c) ==
  /\ holding' = [holding EXCEPT ![c] = {}]
  /\ pc' = [pc EXCEPT ![c] = "idle"]
  /\ UNCHANGED <<queue, background, commit>>

\* Mutant: busy rounds are not counted.
BusyRoundUncounted(c, l) ==
  /\ busy' = busy
  /\ waitFor' = [waitFor EXCEPT ![c] = l]
  /\ holding' = [holding EXCEPT ![c] = {"gate"}]
  /\ pc' = [pc EXCEPT ![c] = "retry"]
  /\ UNCHANGED <<queue, background>>

\* Lock l was busy: the round drops what it holds.
BusyRound(c, l) ==
  /\ busy' = [busy EXCEPT ![c] = @ + 1]
  /\ waitFor' = [waitFor EXCEPT ![c] = l]
  /\ holding' = [holding EXCEPT ![c] = {"gate"}]
  /\ pc' = [pc EXCEPT ![c] = "retry"]
  /\ UNCHANGED <<queue, background>>

\* One round of try_write.  The passive view is needed when a demotion is
\* due, which depends on the active view.
Round(c) ==
  /\ pc[c] = "round"
  /\ \/ ~Got(c, "states") /\ BusyRound(c, "states")
     \/ Got(c, "states") /\ ~Got(c, "active") /\ BusyRound(c, "active")
     \/ /\ Got(c, "states") /\ Got(c, "active")
        /\ \/ ~Got(c, "passive") /\ BusyRound(c, "passive")
           \/ Applied(c)

\* Mutant: one round too many before the fallback.
RetryLate(c) ==
  /\ pc[c] = "retry"
  /\ pc' = [pc EXCEPT ![c] = IF busy[c] > Rounds THEN "ordered" ELSE "wait"]
  /\ Enqueue(c, IF busy[c] > Rounds THEN "states" ELSE waitFor[c])
  /\ UNCHANGED <<holding, background, commit>>

\* Wait for the lock that was busy, holding no other, or, after the last
\* round, for the locks in order.
Retry(c) ==
  /\ pc[c] = "retry"
  /\ pc' = [pc EXCEPT ![c] = IF busy[c] = Rounds THEN "ordered" ELSE "wait"]
  /\ Enqueue(c, IF busy[c] = Rounds THEN "states" ELSE waitFor[c])
  /\ UNCHANGED <<holding, background, commit>>

Woken(c) ==
  /\ pc[c] = "wait"
  /\ waitFor[c] \in holding[c]
  /\ pc' = [pc EXCEPT ![c] = "round"]
  /\ UNCHANGED <<holding, queue, background, commit>>

\* The fallback: the active view after the SWIM states, ...
OrderedActive(c) ==
  /\ pc[c] = "ordered"
  /\ "states" \in holding[c]
  /\ "active" \notin holding[c]
  /\ ~IsWaiting(c)
  /\ Enqueue(c, "active")
  /\ UNCHANGED <<holding, pc, background, commit>>

\* ... then the passive view when a demotion is due.
OrderedPassive(c) ==
  /\ pc[c] = "ordered"
  /\ {"states", "active"} \subseteq holding[c]
  /\ \/ Applied(c)
     \/ /\ pc' = [pc EXCEPT ![c] = "demote"]
        /\ Enqueue(c, "passive")
        /\ UNCHANGED <<holding, background, commit>>

Demote(c) ==
  /\ pc[c] = "demote"
  /\ "passive" \in holding[c]
  /\ Applied(c)

\* The future of a commit that waits is dropped: it leaves the queue, and
\* what it holds is released.
Cancel(c) ==
  /\ \E l \in Locks : \E i \in DOMAIN queue[l] :
       /\ queue[l][i] = c
       /\ queue' = [queue EXCEPT ![l] = RemoveWaiter(@, i)]
  /\ holding' = [holding EXCEPT ![c] = {}]
  /\ pc' = [pc EXCEPT ![c] = "idle"]
  /\ UNCHANGED <<background, commit>>

CommitStep(c) ==
  EnterRounds(c) \/ Round(c) \/ Retry(c) \/ Woken(c) \/ OrderedActive(c)
    \/ OrderedPassive(c) \/ Demote(c)

TaskStep(t) == Request(t) \/ Finish(t)

Next ==
  \/ \E l \in Locks : Grant(l)
  \/ \E t \in Background : Begin(t) \/ TaskStep(t)
  \/ \E c \in Committers : StartCommit(c) \/ CommitStep(c) \/ Cancel(c)

Spec == Init /\ [][Next]_vars
-----------------------------------------------------------------------------
(* Properties. *)

\* A lock held for writing has one holder.
Exclusive ==
  \A l \in Locks : \A t, u \in Holders(l) : t # u => Reads(t, l) /\ Reads(u, l)

\* The lock order that the comments of commit_active, of the maintenance task
\* and of the probe-timeout task rely on: whoever waits for a lock holds only
\* locks that come before it.
LockOrder ==
  \A t \in Tasks, l \in Locks :
    Waiting(t, l) => \A k \in holding[t] : Rank[k] < Rank[l]

\* Why the order holds.  A task stands in at most one queue, once.
QueuedOnce ==
  \A l, m \in Locks : \A i \in DOMAIN queue[l], j \in DOMAIN queue[m] :
    queue[l][i] = queue[m][j] => l = m /\ i = j

\* A background task takes the locks of its plan from the first to the last.
PlanOrder(t) ==
  /\ pc[t] \in {"idle", "ordered"}
  /\ pc[t] = "idle" => holding[t] = {} /\ ~IsWaiting(t)
  /\ holding[t] \subseteq plan[t]
  /\ \A k \in holding[t], l \in plan[t] \ holding[t] : Rank[k] < Rank[l]
  /\ \A l \in Locks : Waiting(t, l) =>
       l \in plan[t] \ holding[t] /\ \A k \in plan[t] \ holding[t] : Rank[l] <= Rank[k]

\* What a commit holds and waits for, in each of its phases
CommitPhase(c) ==
  /\ pc[c] = "idle" => holding[c] = {}
  /\ pc[c] \in {"idle", "round", "retry"} => ~IsWaiting(c)
  /\ pc[c] \in {"round", "wait"} => busy[c] < Rounds
  /\ pc[c] = "retry" => holding[c] = {"gate"}
  /\ pc[c] = "ordered" => holding[c] \subseteq {"gate", "states", "active"}
  /\ pc[c] \in {"round", "wait", "ordered"} => "gate" \in holding[c]
  /\ \A l \in Locks : Waiting(c, l) =>
       \/ pc[c] = "gate" /\ l = "gate" /\ holding[c] = {}
       \/ pc[c] = "wait" /\ l = waitFor[c] /\ holding[c] = {"gate"}
       \/ pc[c] = "ordered" /\ l = "states" /\ holding[c] = {"gate"}
       \/ pc[c] = "ordered" /\ l = "active" /\ holding[c] = {"gate", "states"}
       \/ pc[c] = "demote" /\ l = "passive" /\ holding[c] = {"gate", "states", "active"}

\* The inductive invariant behind the lock order
LockInvariant ==
  /\ TypeOK /\ Exclusive /\ QueuedOnce
  /\ \A t \in Background : PlanOrder(t)
  /\ \A c \in Committers : CommitPhase(c)

\* No set of tasks is deadlocked: never does each member wait for a lock that
\* another member holds.
NoDeadlock ==
  \A S \in SUBSET {t \in Tasks : IsWaiting(t)} :
    S # {} => ~\A t \in S : \E u \in S, l \in Locks : Waiting(t, l) /\ l \in holding[u]

\* Before the fallback, a commit that waits for the SWIM states or a view
\* holds none of these locks, so contention on one does not block the others
\* (an ACK is not delayed by the views, active_view is not hidden by SWIM).
WaitsHoldingNothing ==
  \A c \in Committers : pc[c] \in {"gate", "wait"} /\ IsWaiting(c) => holding[c] \subseteq {"gate"}
=============================================================================
