--------------------------- MODULE EagerReplyProofs ---------------------------
(***************************************************************************)
(* Proofs about the replies to IWANT requests, for any peers, messages,    *)
(* handlers and send tasks, ids, and cap of the custody.                   *)
(***************************************************************************)
EXTENDS EagerReply, FiniteSetTheorems, TLAPS

\* A leaf is proved by Zenon unless it names another prover.
USE Zenon

-----------------------------------------------------------------------------
(* The invariant in terms of a state and of tasks. *)

StateOK(s) ==
  /\ s \in States
  /\ \A p \in Peers : s.probe[p] # NoId => s.cool[p] = "expired"
  /\ \A e, f \in s.custody : Key(e) = Key(f) => e = f
  /\ IsFiniteSet(s.custody) /\ Cardinality(s.custody) <= MaxCustody

ReplyOK(x, l, s) ==
  /\ TaskConsistent(x)
  /\ x.role = "send" => l # "dropped"
  /\ x.role # "send" /\ Current(s, x) =>
       s.claims[Key(x)].probe = x.attempt.id /\ l # "dropped"

\* x is an ordinary send to p that carries the probe i.
Carries(x, p, i) ==
  x.stage \in {"sending", "booking"} /\ x.role = "send" /\ x.peer = p /\ x.attempt.id = i

\* The claim of a reply to p that carries the probe i.
Claimed(s, p, i) == \E m \in Msgs : s.claims[<<p, m>>] # NoClaim /\ s.claims[<<p, m>>].probe = i

Resolved(s, tasks) ==
  \A p \in Peers : s.probe[p] # NoId =>
    Claimed(s, p, s.probe[p]) \/ \E t \in Tasks : Carries(tasks[t], p, s.probe[p])

OwnTokens(tasks) ==
  \A t, u \in Tasks :
    tasks[t] # Idle /\ tasks[u] # Idle /\ tasks[t].token # NoId /\ tasks[t].token = tasks[u].token
    => t = u

Inv ==
  /\ present \in BOOLEAN /\ conn \in SUBSET Peers
  /\ task \in [Tasks -> Busy \union {Idle}] /\ link \in [Tasks -> {"up", "lost", "dropped"}]
  /\ StateOK(state) /\ (~present => state = NewTopicState)
  /\ Resolved(state, task) /\ OwnTokens(task)
  /\ \A t \in Tasks : task[t] # Idle => ReplyOK(task[t], link[t], state)

LEMMA SameInvariant == ReplyInvariant <=> Inv
  <1>1. state \in States /\ ProbeAfterCooldown /\ CustodyUnique <=> StateOK(state)
    BY DEF ProbeAfterCooldown, CustodyUnique, StateOK
  <1>2. ProbeResolvable <=> Resolved(state, task)
    BY DEF ProbeResolvable, Resolver, Resolved, Claimed, Carries, At, eager_reply_claimed
  <1>3. (\A t \in BusyTasks : ReplyConsistent(t))
        <=> \A t \in Tasks : task[t] # Idle => ReplyOK(task[t], link[t], state)
    BY DEF BusyTasks, ReplyConsistent, ReplyOK
  <1>4. (\A t, u \in BusyTasks : task[t].token # NoId /\ task[t].token = task[u].token => t = u)
        <=> OwnTokens(task)
    BY DEF BusyTasks, OwnTokens
  <1> QED
    BY <1>1, <1>2, <1>3, <1>4 DEF ReplyInvariant, TypeOK, Inv

\* A claim is there exactly when it has a token.
LEMMA ClaimToken ==
  ASSUME NEW c \in Claims \union {NoClaim}
  PROVE  /\ c # NoClaim <=> c \in Claims
         /\ c # NoClaim <=> c.token # NoId
         /\ c # NoClaim => c.token \in Ids
  BY SMT, EagerReplyAssumption DEF Claims, NoClaim, NoId

-----------------------------------------------------------------------------
(* Custody. *)

\* Only the custody differs.
SameRecords(s, q) ==
  /\ q.members = s.members /\ q.cool = s.cool /\ q.probe = s.probe
  /\ q.cached = s.cached /\ q.claims = s.claims

CustodyStep(s, q) == StateOK(q) /\ SameRecords(s, q)

LEMMA CustodyShrinks ==
  ASSUME NEW s, StateOK(s), NEW kept \in SUBSET s.custody, NEW q, q = [s EXCEPT !.custody = kept]
  PROVE  CustodyStep(s, q) /\ q.custody = kept
  <1>1. q \in States /\ q.custody = kept /\ SameRecords(s, q)
    BY DEF StateOK, States, SameRecords
  <1>2. IsFiniteSet(kept) /\ Cardinality(kept) <= Cardinality(s.custody)
    BY FS_Subset DEF StateOK
  <1>3. Cardinality(kept) <= MaxCustody
    BY SMT, <1>2, FS_CardinalityType, EagerReplyAssumption DEF StateOK
  <1>4. \A e, f \in kept : Key(e) = Key(f) => e = f
    BY DEF StateOK
  <1>5. \A p \in Peers : q.probe[p] # NoId => q.cool[p] = "expired"
    BY <1>1 DEF StateOK, SameRecords
  <1> QED
    BY <1>1, <1>2, <1>3, <1>4, <1>5 DEF StateOK, CustodyStep

\* What retain_deferred_eager_reply leaves, and that the request is kept while
\* its message is cached and there is room.
LEMMA Retained ==
  ASSUME NEW s, StateOK(s), NEW k \in Keys, NEW r \in retain_deferred_eager_reply(s, k)
  PROVE  /\ CustodyStep(s, r)
         /\ Cardinality(s.custody) < MaxCustody => \E e \in r.custody : Key(e) = k
  <1> DEFINE kept == {e \in s.custody : e.msg \in s.cached}
             q == prune_deferred_eager_replies(s)
  <1>1. CustodyStep(s, q) /\ q.custody = kept
    BY CustodyShrinks DEF prune_deferred_eager_replies
  <1>2. Cardinality(kept) <= Cardinality(s.custody) /\ Cardinality(s.custody) \in Nat
        /\ Cardinality(kept) \in Nat /\ IsFiniteSet(kept)
    BY FS_Subset, FS_CardinalityType DEF StateOK
  <1> HIDE DEF kept, q
  <1>3. CASE (\E e \in q.custody : Key(e) = k) \/ Cardinality(q.custody) >= MaxCustody
    <2>1. r = q
      BY <1>3 DEF retain_deferred_eager_reply, q
    <2> QED
      BY SMT, <2>1, <1>1, <1>2, <1>3, EagerReplyAssumption
  <1>4. CASE ~((\E e \in q.custody : Key(e) = k) \/ Cardinality(q.custody) >= MaxCustody)
    <2>1. PICK i \in FreshCustodyIds(q) :
            r = [q EXCEPT !.custody = @ \union {[id |-> i, peer |-> k[1], msg |-> k[2]]}]
      BY <1>4 DEF retain_deferred_eager_reply, q
    <2> DEFINE n == [id |-> i, peer |-> k[1], msg |-> k[2]]
    <2>2. n \in Entries /\ Key(n) = k
      BY SMT DEF FreshCustodyIds, Fresh, Entries, Key, Keys
    <2> HIDE DEF n
    <2>3. q \in States /\ q.custody \subseteq Entries
      BY <1>1 DEF CustodyStep, StateOK, States
    <2>4. r \in States /\ r.custody = q.custody \union {n} /\ SameRecords(q, r)
      BY <2>1, <2>2, <2>3 DEF States, SameRecords, n
    <2>5. n \notin q.custody
      BY <1>4, <2>2
    <2>6. IsFiniteSet(r.custody) /\ Cardinality(r.custody) <= MaxCustody
      <3>1. /\ IsFiniteSet(q.custody) /\ Cardinality(q.custody) \in Nat
            /\ ~(Cardinality(q.custody) >= MaxCustody) /\ MaxCustody \in Nat
        BY <1>1, <1>2, <1>4, EagerReplyAssumption
      <3>2. /\ IsFiniteSet(q.custody \union {n})
            /\ Cardinality(q.custody \union {n}) = Cardinality(q.custody) + 1
        BY <3>1, <2>5, FS_AddElement
      <3> QED
        BY SMT, <3>1, <3>2, <2>4
    <2>7. \A e, f \in r.custody : Key(e) = Key(f) => e = f
      BY <2>2, <2>4, <1>1, <1>4 DEF CustodyStep, StateOK
    <2>8. \A p \in Peers : r.probe[p] # NoId => r.cool[p] = "expired"
      BY <2>4, <1>1 DEF CustodyStep, StateOK, SameRecords
    <2> QED
      BY <2>2, <2>4, <2>6, <2>7, <2>8, <1>1 DEF CustodyStep, StateOK, SameRecords
  <1> QED
    BY <1>3, <1>4

LEMMA OutcomeApplied ==
  ASSUME NEW s, StateOK(s), NEW x, Key(x) \in Keys, NEW o \in Outcomes, NEW again \in BOOLEAN,
         NEW r \in apply_eager_reply_outcome(s, x, o, again)
  PROVE  /\ CustodyStep(s, r)
         /\ Cardinality(s.custody) < MaxCustody /\ o # "Sent" /\ again
              => \E e \in r.custody : Key(e) = Key(x)
  <1> DEFINE others == [s EXCEPT !.custody = s.custody \ {x.own}]
  <1>1. CustodyStep(s, others) /\ others.custody = s.custody \ {x.own}
    BY SMT, CustodyShrinks
  <1> HIDE DEF others
  <1>2. CASE o = "Sent"
    <2>1. r = [s EXCEPT !.custody = {e \in s.custody : Key(e) # Key(x)}]
      BY <1>2 DEF apply_eager_reply_outcome
    <2> QED
      BY <2>1, <1>2, CustodyShrinks
  <1>3. CASE o = "Deferred"
    <2>1. r \in retain_deferred_eager_reply(s, Key(x))
      BY <1>3 DEF apply_eager_reply_outcome
    <2> QED
      BY <2>1, Retained
  <1>4. CASE o = "Failed" /\ again
    <2>1. r \in retain_deferred_eager_reply(others, Key(x))
      BY <1>4 DEF apply_eager_reply_outcome, others
    <2>2. /\ CustodyStep(others, r)
          /\ Cardinality(others.custody) < MaxCustody => \E e \in r.custody : Key(e) = Key(x)
      BY <2>1, <1>1, Retained DEF CustodyStep
    <2>3. CustodyStep(s, r)
      BY <2>2, <1>1 DEF CustodyStep, SameRecords
    <2>4. Cardinality(others.custody) <= Cardinality(s.custody)
      BY <1>1, FS_Subset DEF StateOK
    <2>5. /\ Cardinality(others.custody) \in Nat /\ Cardinality(s.custody) \in Nat /\ MaxCustody \in Nat
      BY <1>1, FS_CardinalityType, EagerReplyAssumption DEF CustodyStep, StateOK
    <2> QED
      BY SMT, <2>2, <2>3, <2>4, <2>5
  <1>5. CASE o = "Failed" /\ ~again
    <2>1. r = others
      BY <1>5 DEF apply_eager_reply_outcome, others
    <2> QED
      BY <2>1, <1>1, <1>5
  <1> QED
    BY <1>2, <1>3, <1>4, <1>5 DEF Outcomes

-----------------------------------------------------------------------------
(* Cooling. *)

\* What the booking of a send to p may do: suppress or restore p and resolve
\* its probe, or drop everything about p.
Spares(s, r, p) ==
  /\ r.members = s.members /\ r.custody = s.custody /\ r.claims = s.claims
  /\ \A q \in Peers : r.probe[q] = s.probe[q] \/ (q = p /\ r.probe[q] = NoId)

Evicts(s, r, p) ==
  /\ p \notin r.members
  /\ \A k \in Keys : r.claims[k] = IF k[1] = p THEN NoClaim ELSE s.claims[k]
  /\ \A q \in Peers : r.probe[q] = IF q = p THEN NoId ELSE s.probe[q]

LEMMA Evicted ==
  ASSUME NEW s, StateOK(s), NEW p \in Peers
  PROVE  StateOK(evict_not_connected_peer(s, p)) /\ Evicts(s, evict_not_connected_peer(s, p), p)
  <1> DEFINE kept == {e \in s.custody : e.peer # p}
             r == evict_not_connected_peer(s, p)
  <1>1. /\ r \in States /\ r.custody = kept /\ r.members = s.members \ {p}
        /\ r.claims = [k \in Keys |-> IF k[1] = p THEN NoClaim ELSE s.claims[k]]
        /\ r.cool = [s.cool EXCEPT ![p] = "ok"] /\ r.probe = [s.probe EXCEPT ![p] = NoId]
    BY DEF evict_not_connected_peer, drop_eager_reply_records_for_peer, StateOK, States
  <1> HIDE DEF r
  <1>2. IsFiniteSet(kept) /\ Cardinality(kept) <= Cardinality(s.custody)
    BY FS_Subset DEF StateOK
  <1>3. Cardinality(kept) <= MaxCustody
    BY SMT, <1>2, FS_CardinalityType, EagerReplyAssumption DEF StateOK
  <1>4. \A e, f \in kept : Key(e) = Key(f) => e = f
    BY DEF StateOK
  <1>5. s.probe \in [Peers -> Ids \union {NoId}] /\ s.cool \in [Peers -> {"ok", "active", "expired"}]
    BY DEF StateOK, States
  <1>6. \A q \in Peers : r.probe[q] # NoId => r.cool[q] = "expired"
    BY <1>1, <1>5 DEF StateOK
  <1>7. StateOK(r)
    BY <1>1, <1>2, <1>3, <1>4, <1>6 DEF StateOK
  <1>8. Evicts(s, r, p)
    BY <1>1, <1>5 DEF Evicts
  <1> QED
    BY <1>7, <1>8 DEF r

LEMMA Suppressed ==
  ASSUME NEW s, StateOK(s), NEW p \in Peers, NEW c \in {"ok", "active"},
         NEW r, r = [s EXCEPT !.cool[p] = c, !.probe[p] = NoId]
  PROVE  StateOK(r) /\ Spares(s, r, p) /\ r.probe[p] = NoId
  <1>1. /\ s.probe \in [Peers -> Ids \union {NoId}] /\ s.cool \in [Peers -> {"ok", "active", "expired"}]
    BY DEF StateOK, States
  <1>2. /\ r \in States /\ r.custody = s.custody /\ r.members = s.members /\ r.claims = s.claims
        /\ r.cool = [s.cool EXCEPT ![p] = c] /\ r.probe = [s.probe EXCEPT ![p] = NoId]
    BY DEF StateOK, States
  <1>3. \A q \in Peers : r.probe[q] # NoId => r.cool[q] = "expired"
    BY SMT, <1>1, <1>2 DEF StateOK
  <1>4. StateOK(r)
    BY <1>2, <1>3 DEF StateOK
  <1> QED
    BY SMT, <1>1, <1>2, <1>4 DEF Spares

Results == {"sent", "not_connected", "timed_out", "none"}

LEMMA AttemptBooked ==
  ASSUME NEW s, StateOK(s), NEW p \in Peers, NEW a, NEW result \in Results,
         NEW r \in book_topic_send_attempt_results(s, p, a, result)
  PROVE  /\ StateOK(r)
         /\ IF result = "not_connected" THEN Evicts(s, r, p) ELSE Spares(s, r, p)
         /\ a.kind = "RecoveryProbe" /\ result # "none" /\ s.probe[p] = a.id => r.probe[p] = NoId
  <1>1. Spares(s, s, p)
    BY DEF Spares
  <1>2. CASE result = "sent"
    <2>1. r = record_send_success(s, p, a)
      BY <1>2 DEF book_topic_send_attempt_results
    <2> QED
      BY <2>1, <1>1, <1>2, Suppressed DEF record_send_success
  <1>3. CASE result = "not_connected"
    <2>1. r = evict_not_connected_peer(s, p)
      BY <1>3 DEF book_topic_send_attempt_results
    <2>2. StateOK(r) /\ Evicts(s, r, p)
      BY <2>1, Evicted
    <2> QED
      BY <2>2, <1>3 DEF Evicts
  <1>4. CASE result = "timed_out"
    <2>1. r \in record_send_timeout(s, p, a)
      BY <1>4 DEF book_topic_send_attempt_results
    <2>2. /\ r = s \/ r = Suppress(s, p)
          /\ a.kind = "RecoveryProbe" /\ s.probe[p] = a.id => r = Suppress(s, p)
      BY <2>1 DEF record_send_timeout
    <2>3. r = Suppress(s, p) => StateOK(r) /\ Spares(s, r, p) /\ r.probe[p] = NoId
      BY Suppressed DEF Suppress
    <2> QED
      BY <2>2, <2>3, <1>1, <1>4
  <1>5. CASE result = "none"
    BY <1>1, <1>5 DEF book_topic_send_attempt_results
  <1> QED
    BY <1>2, <1>3, <1>4, <1>5 DEF Results

-----------------------------------------------------------------------------
(* What a step may do to the claims and the probes. *)

\* A claim of r is one of s, or has this token, which is then not that of
\* another claim of its key.
Keeps(s, r, token) ==
  \A k \in Keys :
    \/ r.claims[k] = NoClaim
    \/ /\ s.claims[k] # NoClaim
       /\ r.claims[k].token = s.claims[k].token /\ r.claims[k].probe = s.claims[k].probe
    \/ r.claims[k].token = token /\ (s.claims[k] = NoClaim \/ s.claims[k].token = token)

\* A probe of r is one of s, and the reply claim that carried it still does.
ProbesKept(s, r) ==
  \A p \in Peers : r.probe[p] # NoId =>
    /\ r.probe[p] = s.probe[p]
    /\ \A m \in Msgs : s.claims[<<p, m>>] # NoClaim /\ s.claims[<<p, m>>].probe = s.probe[p]
         => r.claims[<<p, m>>] # NoClaim /\ r.claims[<<p, m>>].probe = s.probe[p]

LEMMA ResolvedKept ==
  ASSUME NEW s, NEW r, NEW T, NEW T2, Resolved(s, T), ProbesKept(s, r),
         \A t \in Tasks, p \in Peers :
           r.probe[p] # NoId /\ Carries(T[t], p, r.probe[p]) => Carries(T2[t], p, r.probe[p])
  PROVE  Resolved(r, T2)
  <1> SUFFICES ASSUME NEW p \in Peers, r.probe[p] # NoId
               PROVE  Claimed(r, p, r.probe[p]) \/ \E t \in Tasks : Carries(T2[t], p, r.probe[p])
    BY DEF Resolved
  <1>1. r.probe[p] = s.probe[p]
    BY DEF ProbesKept
  <1>2. CASE Claimed(s, p, s.probe[p])
    BY <1>1, <1>2 DEF Claimed, ProbesKept
  <1>3. CASE \E t \in Tasks : Carries(T[t], p, s.probe[p])
    BY <1>1, <1>3
  <1> QED
    BY <1>1, <1>2, <1>3 DEF Resolved

\* The key of a reply is a requester and a message.
LEMMA ReplyKey ==
  ASSUME NEW x \in Busy, TaskConsistent(x), x.role # "send"
  PROVE  Key(x) \in Keys /\ Key(x)[1] = x.peer
  BY EagerReplyAssumption DEF Busy, TaskConsistent, Key, Keys, NoMsg

LEMMA Unstolen ==
  ASSUME NEW token, Keeps(state, state', token)
  PROVE  ClaimNeverStolenStep
  BY DEF Keeps, ClaimNeverStolenStep, eager_reply_claimed

LEMMA ReplyKept ==
  ASSUME NEW s, NEW r, StateOK(s), StateOK(r), NEW x \in Busy, NEW l, NEW l2, ReplyOK(x, l, s),
         NEW token, token = NoId \/ token # x.token, Keeps(s, r, token),
         x.role = "send" => l2 # "dropped",
         l2 = "dropped" => l = "dropped" \/ \A m \in Msgs : r.claims[<<x.peer, m>>] = NoClaim
  PROVE  ReplyOK(x, l2, r)
  <1> SUFFICES ASSUME x.role # "send", Current(r, x)
               PROVE  r.claims[Key(x)].probe = x.attempt.id /\ l2 # "dropped"
    BY DEF ReplyOK
  <1>1. Key(x) \in Keys /\ x.msg \in Msgs /\ Key(x) = <<x.peer, x.msg>>
    BY ReplyKey, EagerReplyAssumption DEF ReplyOK, Key, Keys
  <1>2. r.claims[Key(x)] # NoClaim /\ r.claims[Key(x)].token = x.token
    BY DEF Current, eager_reply_claimed
  <1>3. r.claims[Key(x)].token # NoId
    BY <1>1, <1>2, ClaimToken DEF StateOK, States
  <1>4. /\ s.claims[Key(x)] # NoClaim
        /\ r.claims[Key(x)].token = s.claims[Key(x)].token
        /\ r.claims[Key(x)].probe = s.claims[Key(x)].probe
    BY <1>1, <1>2, <1>3 DEF Keeps
  <1>5. Current(s, x)
    BY <1>2, <1>4 DEF Current, eager_reply_claimed
  <1> QED
    BY <1>1, <1>2, <1>4, <1>5 DEF ReplyOK

\* Where the link of task x may go.
LinkKept(x, l, l2, r) ==
  \/ l2 = l
  \/ l2 # "dropped"
  \/ x.role # "send" /\ \A m \in Msgs : r.claims[<<x.peer, m>>] = NoClaim

\* A step that no task takes.
LEMMA StateStep ==
  ASSUME Inv, UNCHANGED task, present' \in BOOLEAN, conn' \in SUBSET Peers,
         link' \in [Tasks -> {"up", "lost", "dropped"}],
         StateOK(state'), ~present' => state' = NewTopicState,
         Keeps(state, state', NoId), Resolved(state', task),
         \A u \in Tasks : task[u] # Idle => LinkKept(task[u], link[u], link'[u], state')
  PROVE  Inv' /\ ClaimNeverStolenStep
  <1>1. \A u \in Tasks : task'[u] # Idle => ReplyOK(task'[u], link'[u], state')
    <2> SUFFICES ASSUME NEW u \in Tasks, task[u] # Idle
                 PROVE  ReplyOK(task[u], link'[u], state')
      OBVIOUS
    <2>1. /\ StateOK(state) /\ task[u] \in Busy /\ ReplyOK(task[u], link[u], state)
          /\ LinkKept(task[u], link[u], link'[u], state')
      BY DEF Inv
    <2>2. task[u].role = "send" => link'[u] # "dropped"
      BY <2>1 DEF ReplyOK, LinkKept
    <2>3. link'[u] = "dropped" => link[u] = "dropped"
                               \/ \A m \in Msgs : state'.claims[<<task[u].peer, m>>] = NoClaim
      BY <2>1 DEF LinkKept
    <2> QED
      BY <2>1, <2>2, <2>3, ReplyKept
  <1>2. Resolved(state', task') /\ OwnTokens(task')
    BY DEF Inv
  <1> QED
    BY <1>1, <1>2, Unstolen DEF Inv

\* No other task than t has this token.
Owns(t, token) == \A u \in Tasks \ {t} : task[u] # Idle => token = NoId \/ token # task[u].token

\* A step of task t, which goes on as y.
LEMMA TaskStep ==
  ASSUME Inv, NEW t \in Tasks, NEW y \in Busy \union {Idle}, task' = [task EXCEPT ![t] = y],
         present' = present, conn' = conn, link' \in [Tasks -> {"up", "lost", "dropped"}],
         StateOK(state'), ~present => state' = NewTopicState,
         NEW token, Owns(t, token), Keeps(state, state', token),
         y # Idle => y.token \in {NoId, token} /\ ReplyOK(y, link'[t], state'),
         Resolved(state', task'),
         \A u \in Tasks \ {t} : task[u] # Idle => LinkKept(task[u], link[u], link'[u], state')
  PROVE  Inv' /\ ClaimNeverStolenStep
  <1>0. task' \in [Tasks -> Busy \union {Idle}] /\ task'[t] = y
        /\ \A u \in Tasks \ {t} : task'[u] = task[u]
    BY DEF Inv
  <1>1. \A u \in Tasks : task'[u] # Idle => ReplyOK(task'[u], link'[u], state')
    <2> SUFFICES ASSUME NEW u \in Tasks \ {t}, task[u] # Idle
                 PROVE  ReplyOK(task[u], link'[u], state')
      BY <1>0
    <2>1. /\ StateOK(state) /\ task[u] \in Busy /\ ReplyOK(task[u], link[u], state)
          /\ LinkKept(task[u], link[u], link'[u], state')
          /\ token = NoId \/ token # task[u].token
      BY DEF Inv, Owns
    <2>2. task[u].role = "send" => link'[u] # "dropped"
      BY <2>1 DEF ReplyOK, LinkKept
    <2>3. link'[u] = "dropped" => link[u] = "dropped"
                               \/ \A m \in Msgs : state'.claims[<<task[u].peer, m>>] = NoClaim
      BY <2>1 DEF LinkKept
    <2> QED
      BY <2>1, <2>2, <2>3, ReplyKept
  <1>2. OwnTokens(task')
    <2> SUFFICES ASSUME NEW u \in Tasks, NEW v \in Tasks, task'[u] # Idle, task'[v] # Idle,
                        task'[u].token # NoId, task'[u].token = task'[v].token
                 PROVE  u = v
      BY DEF OwnTokens
    <2>1. CASE u # t /\ v # t
      BY <2>1, <1>0 DEF Inv, OwnTokens
    <2>2. CASE u = t \/ v = t
      BY SMT, <2>2, <1>0 DEF Owns
    <2> QED
      BY <2>1, <2>2
  <1>3. ClaimNeverStolenStep
    BY Unstolen
  <1> QED
    BY <1>0, <1>1, <1>2, <1>3 DEF Inv

-----------------------------------------------------------------------------
(* Completions. *)

\* What the completion of the reply or send x may do to the topic.
Completion(s, r, x, result) ==
  /\ StateOK(r) /\ Keeps(s, r, NoId)
  /\ result = "not_connected" => \A m \in Msgs : r.claims[<<x.peer, m>>] = NoClaim
  /\ \A p \in Peers : r.probe[p] # NoId =>
       /\ r.probe[p] = s.probe[p]
       /\ x.attempt.kind = "RecoveryProbe" => ~(p = x.peer /\ s.probe[p] = x.attempt.id)

LEMMA SendBooked ==
  ASSUME NEW s, StateOK(s), NEW x \in Busy, NEW result \in Results,
         x.attempt.kind = "RecoveryProbe" => result # "none",
         NEW r \in book_topic_send_attempt_results(s, x.peer, x.attempt, result)
  PROVE  /\ Completion(s, r, x, result)
         /\ result # "not_connected" => r.claims = s.claims /\ r.custody = s.custody
         /\ result = "not_connected" => x.peer \notin r.members
         /\ \A k \in Keys : r.claims[k] = s.claims[k] \/ (k[1] = x.peer /\ r.claims[k] = NoClaim)
         /\ \A p \in Peers : r.probe[p] # NoId /\ result = "not_connected" => p # x.peer
  <1>1. x.peer \in Peers
    BY DEF Busy
  <1> DEFINE a == x.attempt
             p0 == x.peer
  <1>2. /\ StateOK(r)
        /\ IF result = "not_connected" THEN Evicts(s, r, p0) ELSE Spares(s, r, p0)
        /\ a.kind = "RecoveryProbe" /\ result # "none" /\ s.probe[p0] = a.id => r.probe[p0] = NoId
    <2> HIDE DEF a, p0
    <2>1. p0 \in Peers /\ r \in book_topic_send_attempt_results(s, p0, a, result)
      BY <1>1 DEF p0, a
    <2> QED
      BY SMT, <2>1, AttemptBooked
  <1>3. CASE result = "not_connected"
    <2>1. Evicts(s, r, p0)
      BY <1>2, <1>3
    <2>2. \A k \in Keys : r.claims[k] = s.claims[k] \/ (k[1] = p0 /\ r.claims[k] = NoClaim)
      BY <2>1 DEF Evicts
    <2>3. \A m \in Msgs : r.claims[<<p0, m>>] = NoClaim
      BY <2>1, <1>1 DEF Evicts, Keys
    <2>4. Keeps(s, r, NoId)
      BY <2>2 DEF Keeps
    <2> QED
      BY <2>1, <2>2, <2>3, <2>4, <1>2, <1>3 DEF Completion, Evicts
  <1>4. CASE result # "not_connected"
    <2>1. Spares(s, r, p0)
      BY <1>2, <1>4
    <2>2. Keeps(s, r, NoId)
      BY <2>1 DEF Keeps, Spares
    <2> QED
      BY <2>1, <2>2, <1>1, <1>2, <1>4 DEF Completion, Spares
  <1> QED
    BY <1>3, <1>4

Releases(s, k, r) == r = [s EXCEPT !.claims[k] = NoClaim]

LEMMA Released ==
  ASSUME NEW s, StateOK(s), NEW k \in Keys, NEW r, Releases(s, k, r)
  PROVE  /\ StateOK(r) /\ r.claims = [s.claims EXCEPT ![k] = NoClaim]
         /\ s.claims \in [Keys -> Claims \union {NoClaim}]
         /\ r.members = s.members /\ r.cool = s.cool /\ r.probe = s.probe
         /\ r.cached = s.cached /\ r.custody = s.custody
  <1>1. s.claims \in [Keys -> Claims \union {NoClaim}]
    BY DEF StateOK, States
  <1>2. /\ r \in States /\ r.claims = [s.claims EXCEPT ![k] = NoClaim]
        /\ r.members = s.members /\ r.cool = s.cool /\ r.probe = s.probe
        /\ r.cached = s.cached /\ r.custody = s.custody
    BY <1>1 DEF StateOK, States, Releases
  <1> QED
    BY <1>1, <1>2 DEF StateOK

\* What became of the request of x, when it was repeated.
Requeued(s, r, x, outcome) ==
  Cardinality(s.custody) < MaxCustody /\ outcome # "Sent" /\ s.claims[Key(x)].rerequested
  => (\E e \in r.custody : Key(e) = Key(x)) \/ x.peer \notin r.members

\* complete_eager_reply of a current reply.
LEMMA ReplyCompleted ==
  ASSUME NEW s, StateOK(s), NEW x \in Busy, TaskConsistent(x), x.role # "send", Current(s, x),
         s.claims[Key(x)].probe = x.attempt.id,
         NEW outcome \in Outcomes, NEW result \in Results,
         x.attempt.kind = "RecoveryProbe" => result # "none",
         NEW r \in complete_eager_reply(s, x, outcome, result)
  PROVE  /\ Completion(s, r, x, result) /\ ProbesKept(s, r) /\ Requeued(s, r, x, outcome)
         /\ r.claims[Key(x)] = NoClaim
  <1> DEFINE k0 == Key(x)
             again == s.claims[k0].rerequested
             released == [s EXCEPT !.claims[k0] = NoClaim]
  <1>1. k0 \in Keys /\ k0[1] = x.peer /\ x.peer \in Peers
    BY ReplyKey DEF Busy
  <1>2. PICK q \in apply_eager_reply_outcome(released, x, outcome, again) :
          r \in book_topic_send_attempt_results(q, x.peer, x.attempt, result)
    BY DEF complete_eager_reply
  <1>3. s.claims[k0] # NoClaim /\ s.claims[k0].token = x.token /\ again \in BOOLEAN
    BY <1>1, ClaimToken DEF Current, eager_reply_claimed, StateOK, States, Claims
  <1>4. /\ StateOK(released) /\ released.claims = [s.claims EXCEPT ![k0] = NoClaim]
        /\ s.claims \in [Keys -> Claims \union {NoClaim}]
        /\ released.probe = s.probe /\ released.custody = s.custody
    <2>1. Releases(s, k0, released)
      BY DEF Releases
    <2> HIDE DEF k0, released
    <2> QED
      BY SMT, <1>1, <2>1, Released
  <1> HIDE DEF k0, again, released
  <1>5. /\ CustodyStep(released, q)
        /\ Cardinality(released.custody) < MaxCustody /\ outcome # "Sent" /\ again
             => \E e \in q.custody : Key(e) = k0
    BY SMTT(30), <1>1, <1>2, <1>3, <1>4, OutcomeApplied DEF k0
  <1>6. /\ StateOK(q) /\ q.claims = released.claims /\ q.probe = released.probe
    BY <1>5 DEF CustodyStep, SameRecords
  <1>7. /\ Completion(q, r, x, result)
        /\ result # "not_connected" => r.claims = q.claims /\ r.custody = q.custody
        /\ result = "not_connected" => x.peer \notin r.members
        /\ \A k \in Keys : r.claims[k] = q.claims[k] \/ (k[1] = x.peer /\ r.claims[k] = NoClaim)
        /\ \A p \in Peers : r.probe[p] # NoId /\ result = "not_connected" => p # x.peer
    BY <1>2, <1>6, SendBooked
  <1>8. \A k \in Keys : \/ r.claims[k] = NoClaim
                        \/ k # k0 /\ r.claims[k] = s.claims[k]
    BY SMT, <1>7, <1>6, <1>4
  <1>9. Completion(s, r, x, result)
    <2>1. Keeps(s, r, NoId)
      BY <1>8 DEF Keeps
    <2> QED
      BY SMT, <2>1, <1>7, <1>6, <1>4 DEF Completion
  <1>10. ProbesKept(s, r)
    <2> SUFFICES ASSUME NEW p \in Peers, r.probe[p] # NoId, NEW m \in Msgs,
                        s.claims[<<p, m>>] # NoClaim, s.claims[<<p, m>>].probe = s.probe[p]
                 PROVE  r.claims[<<p, m>>] = s.claims[<<p, m>>]
      BY <1>9 DEF ProbesKept, Completion
    <2>1. <<p, m>> \in Keys /\ <<p, m>>[1] = p
      BY DEF Keys
    <2>2. r.probe[p] = s.probe[p]
      BY <1>9 DEF Completion
    <2>3. CASE <<p, m>> = k0
      <3>1. p = x.peer /\ s.probe[p] = x.attempt.id
        BY <2>1, <2>3, <1>1 DEF k0
      <3>2. x.attempt.kind = "RecoveryProbe"
        BY <3>1, <2>2 DEF TaskConsistent
      <3> QED
        BY <3>1, <3>2, <1>9 DEF Completion
    <2>4. CASE <<p, m>> # k0 /\ p = x.peer
      <3>1. result # "not_connected"
        BY <1>7, <2>4
      <3>2. r.claims = released.claims
        BY <3>1, <1>7, <1>6
      <3> QED
        BY <3>2, <2>1, <2>4, <1>4
    <2>5. CASE p # x.peer
      <3>1. r.claims[<<p, m>>] = q.claims[<<p, m>>]
        BY <2>1, <2>5, <1>7
      <3>2. <<p, m>> # k0
        BY <2>1, <2>5, <1>1
      <3> QED
        BY <3>1, <3>2, <2>1, <1>6, <1>4
    <2> QED
      BY <2>3, <2>4, <2>5
  <1>11. Requeued(s, r, x, outcome)
    BY <1>4, <1>5, <1>7 DEF Requeued, again, k0
  <1> QED
    BY <1>1, <1>8, <1>9, <1>10, <1>11 DEF k0

\* A completion leaves the probes that other sends carry to them.
LEMMA CompletionResolved ==
  ASSUME NEW s, NEW r, NEW T, NEW T2, NEW t \in Tasks, NEW result, Completion(s, r, T[t], result),
         Resolved(s, T), ProbesKept(s, r), \A u \in Tasks \ {t} : T2[u] = T[u],
         TaskConsistent(T[t])
  PROVE  Resolved(r, T2)
  <1>1. \A u \in Tasks, p \in Peers :
           r.probe[p] # NoId /\ Carries(T[u], p, r.probe[p]) => Carries(T2[u], p, r.probe[p])
    <2> SUFFICES ASSUME NEW p \in Peers, r.probe[p] # NoId, Carries(T[t], p, r.probe[p])
                 PROVE  FALSE
      OBVIOUS
    <2>1. T[t].attempt.id = r.probe[p] /\ T[t].peer = p
      BY DEF Carries
    <2>2. T[t].attempt.kind = "RecoveryProbe"
      BY <2>1 DEF TaskConsistent
    <2> QED
      BY <2>1, <2>2 DEF Completion
  <1> QED
    BY <1>1, ResolvedKept

\* The completion of t: whatever it reports, with a result for the probe.
LEMMA BookedStep ==
  ASSUME Inv, NEW t \in Tasks, task[t] # Idle, NEW outcome \in Outcomes, NEW result \in Results,
         NEW y \in Busy \union {Idle}, Booked(t, outcome, result, y),
         task[t].stage \in {"sending", "booking", "settling"},
         present' = present, conn' = conn,
         task[t].attempt.kind = "RecoveryProbe" => result # "none",
         y # Idle => TaskConsistent(y) /\ y.role # "send" /\ y.attempt.id = NoId
                     /\ y.token = task[t].token /\ Key(y) = Key(task[t])
                     /\ task[t].role # "send"
  PROVE  Inv' /\ ClaimNeverStolenStep
  <1> DEFINE x == task[t]
             evicts == present /\ Books(x) /\ result = "not_connected"
  <1>1. /\ x \in Busy /\ TaskConsistent(x) /\ StateOK(state) /\ ReplyOK(x, link[t], state)
        /\ link \in [Tasks -> {"up", "lost", "dropped"}]
    BY DEF Inv, ReplyOK
  <1>2. /\ IF ~present THEN UNCHANGED state
           ELSE IF x.role = "send"
           THEN state' \in book_topic_send_attempt_results(state, x.peer, x.attempt, result)
           ELSE state' \in complete_eager_reply(state, x, outcome, result)
        /\ task' = [task EXCEPT ![t] = y]
        /\ link' = [(IF evicts THEN Dropped({x.peer}) ELSE link) EXCEPT ![t] = "up"]
    BY DEF Booked
  <1>3. /\ link' \in [Tasks -> {"up", "lost", "dropped"}] /\ link'[t] = "up"
        /\ \A u \in Tasks \ {t} : task[u] # Idle =>
             \/ link'[u] = link[u]
             \/ evicts /\ task[u].role # "send" /\ task[u].peer = x.peer
    BY <1>1, <1>2 DEF Dropped
  <1>4. /\ task' \in [Tasks -> Busy \union {Idle}] /\ task'[t] = y
        /\ \A u \in Tasks \ {t} : task'[u] = task[u]
    BY <1>2 DEF Inv
  <1> HIDE DEF x, evicts
  <1>5. /\ StateOK(state') /\ Keeps(state, state', NoId) /\ Resolved(state', task')
        /\ evicts => \A m \in Msgs : state'.claims[<<x.peer, m>>] = NoClaim
        /\ ~present => state' = NewTopicState
        /\ x.role # "send" => ~Current(state', x)
    <2>0. Resolved(state, task) /\ Keeps(state, state, NoId)
      BY DEF Inv, Keeps
    <2>1. CASE ~present
      <3>1. state' = state /\ state = NewTopicState /\ ~evicts
        BY <1>2, <2>1 DEF Inv, evicts
      <3>2. /\ \A p \in Peers : state.probe[p] = NoId
            /\ \A k \in Keys : state.claims[k] = NoClaim
        BY <3>1 DEF NewTopicState
      <3>3. Resolved(state', task')
        BY <3>1, <3>2 DEF Resolved
      <3>4. x.role # "send" => ~Current(state', x)
        BY <3>1, <3>2, <1>1, ReplyKey DEF Current, eager_reply_claimed, x
      <3> QED
        BY <3>1, <3>3, <3>4, <1>1, <2>0
    <2>2. CASE present /\ x.role = "send"
      <3>1. state' \in book_topic_send_attempt_results(state, x.peer, x.attempt, result)
        BY <1>2, <2>2
      <3>2. /\ Completion(state, state', x, result)
            /\ \A k \in Keys : \/ state'.claims[k] = state.claims[k]
                               \/ k[1] = x.peer /\ state'.claims[k] = NoClaim
            /\ result # "not_connected" => state'.claims = state.claims
            /\ \A p \in Peers : state'.probe[p] # NoId /\ result = "not_connected" => p # x.peer
        BY SMTT(30), <3>1, <1>1, SendBooked DEF x
      <3>3. ProbesKept(state, state')
        <4> SUFFICES ASSUME NEW p \in Peers, state'.probe[p] # NoId, NEW m \in Msgs
                     PROVE  state'.claims[<<p, m>>] = state.claims[<<p, m>>]
          BY <3>2 DEF ProbesKept, Completion
        <4>1. <<p, m>> \in Keys /\ <<p, m>>[1] = p
          BY DEF Keys
        <4> QED
          BY <3>2, <4>1
      <3>4. Resolved(state', task')
        BY <3>2, <3>3, <2>0, <1>1, <1>4, CompletionResolved DEF x
      <3> QED
        BY <2>2, <3>2, <3>4 DEF Completion, evicts
    <2>3. CASE present /\ x.role # "send" /\ Current(state, x)
      <3>1. state' \in complete_eager_reply(state, x, outcome, result)
        BY <1>2, <2>3
      <3>2. state.claims[Key(x)].probe = x.attempt.id
        BY <1>1, <2>3 DEF ReplyOK
      <3>3. /\ Completion(state, state', x, result) /\ ProbesKept(state, state')
            /\ state'.claims[Key(x)] = NoClaim
        BY SMTT(30), <3>1, <3>2, <1>1, <2>3, ReplyCompleted DEF x
      <3>4. Resolved(state', task')
        BY <3>3, <2>0, <1>1, <1>4, CompletionResolved DEF x
      <3> QED
        BY <2>3, <3>3, <3>4 DEF Completion, evicts, Current, eager_reply_claimed
    <2>4. CASE present /\ x.role # "send" /\ ~Current(state, x)
      <3>1. state' \in complete_eager_reply(state, x, outcome, result)
        BY <1>2, <2>4
      <3>2. state' = [state EXCEPT !.custody = state.custody \ {x.own}]
        BY <3>1, <2>4 DEF complete_eager_reply
      <3>3. CustodyStep(state, state')
        BY <3>2, <1>1, CustodyShrinks
      <3>4. ~evicts
        BY <2>4 DEF evicts, Books
      <3>5. Keeps(state, state', NoId) /\ ProbesKept(state, state')
        BY <3>3 DEF Keeps, ProbesKept, CustodyStep, SameRecords
      <3>6. \A u \in Tasks, p \in Peers : Carries(task[u], p, state'.probe[p])
              => Carries(task'[u], p, state'.probe[p])
        BY <1>4, <2>4 DEF Carries, x
      <3>7. Resolved(state', task')
        BY <3>5, <3>6, <2>0, ResolvedKept
      <3>8. ~Current(state', x)
        BY <3>3, <2>4 DEF CustodyStep, SameRecords, Current, eager_reply_claimed
      <3> QED
        BY <3>3, <3>4, <3>5, <3>7, <3>8, <2>4 DEF CustodyStep
    <2> QED
      BY <2>1, <2>2, <2>3, <2>4
  <1>6. \A u \in Tasks \ {t} : task[u] # Idle => LinkKept(task[u], link[u], link'[u], state')
    BY <1>3, <1>5 DEF LinkKept
  <1>7. Owns(t, x.token)
    BY DEF Owns, Inv, OwnTokens, x
  <1>8. Keeps(state, state', x.token)
    BY <1>5, ClaimToken DEF Keeps, StateOK, States
  <1>9. ASSUME y # Idle PROVE ReplyOK(y, link'[t], state') /\ y.token \in {NoId, x.token}
    <2>1. Key(y) = Key(x) /\ Key(y) \in Keys /\ y.token = x.token
      BY <1>9, ReplyKey DEF x
    <2>2. ~Current(state', y)
      BY <2>1, <1>5, <1>9 DEF Current, x
    <2> QED
      BY <2>1, <2>2, <1>3, <1>9 DEF ReplyOK, x
  <1> QED
    BY <1>1, <1>2, <1>3, <1>5, <1>6, <1>7, <1>8, <1>9, TaskStep DEF x

\* The steps that complete a reply or a send.
LEMMA Completions ==
  ASSUME Inv, NEW t \in Tasks,
         ServeComplete(t) \/ ServeSettle(t) \/ RetryComplete(t) \/ SendComplete(t) \/ CancelBook(t)
  PROVE  Inv' /\ ClaimNeverStolenStep
  <1> DEFINE x == task[t]
  <1>0. task[t] \in Busy \union {Idle} /\ Idle.stage = "idle"
        /\ "Failed" \in Outcomes /\ Idle \in Busy \union {Idle}
    BY DEF Inv, Idle, Outcomes
  <1>1. CASE ServeComplete(t)
    <2>1. PICK r \in ServeResults(x) :
            /\ At(t, {"sending"}) /\ x.role = "serve" /\ UNCHANGED <<present, conn>>
            /\ Booked(t, r[1], r[2], [x EXCEPT !.stage = "settling", !.outcome = r[1],
                                               !.attempt = NoAttempt])
      BY <1>1 DEF ServeComplete
    <2> DEFINE y == [x EXCEPT !.stage = "settling", !.outcome = r[1], !.attempt = NoAttempt]
    <2>2. task[t] \in Busy /\ task[t] # Idle /\ task[t].stage = "sending" /\ task[t].role = "serve"
      BY <2>1, <1>0 DEF At
    <2>3. TaskConsistent(task[t])
      BY <2>2 DEF Inv, ReplyOK
    <2>4. /\ r[1] \in Outcomes /\ r[2] \in Results
          /\ task[t].attempt.kind = "RecoveryProbe" => r[2] # "none"
      BY SMT DEF ServeResults, ProbeTimeout, Outcomes, Results
    <2>5. /\ y \in Busy /\ y.stage = "settling" /\ y.role = "serve" /\ y.attempt = NoAttempt
          /\ y.token = task[t].token /\ y.peer = task[t].peer /\ y.msg = task[t].msg
      BY <2>2, <2>4 DEF Busy, Attempts, NoAttempt
    <2>6. Booked(t, r[1], r[2], y)
      BY <2>1
    <2> HIDE DEF y
    <2>7. TaskConsistent(y) /\ y.attempt.id = NoId /\ Key(y) = Key(task[t])
      BY SMTT(30), <2>2, <2>3, <2>5 DEF TaskConsistent, NoAttempt, Key
    <2> QED
      BY <2>1, <2>2, <2>4, <2>5, <2>6, <2>7, BookedStep
  <1>2. CASE ServeSettle(t)
    <2>1. /\ task[t] \in Busy /\ task[t] # Idle /\ task[t].stage = "settling"
          /\ Booked(t, task[t].outcome, "none", Idle) /\ present' = present /\ conn' = conn
      BY <1>2, <1>0 DEF ServeSettle, At
    <2>2. task[t].attempt.kind # "RecoveryProbe"
      BY SMT, <2>1 DEF Inv, ReplyOK, TaskConsistent, NoAttempt
    <2>3. task[t].outcome \in Outcomes /\ "none" \in Results
      BY <2>1 DEF Busy, Results
    <2> QED
      BY <1>0, <2>1, <2>2, <2>3, BookedStep
  <1>3. CASE RetryComplete(t)
    <2>1. PICK r \in RetryResults(x) :
            /\ At(t, {"sending"}) /\ UNCHANGED <<present, conn>> /\ Booked(t, r[1], r[2], Idle)
      BY <1>3 DEF RetryComplete
    <2>2. task[t] # Idle /\ task[t].stage = "sending"
      BY <2>1, <1>0 DEF At
    <2>3. /\ r[1] \in Outcomes /\ r[2] \in Results
          /\ task[t].attempt.kind = "RecoveryProbe" => r[2] # "none"
      BY SMT DEF RetryResults, Outcomes, Results
    <2> QED
      BY <1>0, <2>1, <2>2, <2>3, BookedStep
  <1>4. CASE SendComplete(t)
    <2>1. PICK r \in {"sent", "timed_out", "not_connected", ProbeTimeout(x)} :
            /\ At(t, {"sending"}) /\ UNCHANGED <<present, conn>> /\ Booked(t, "Failed", r, Idle)
      BY <1>4 DEF SendComplete
    <2>2. task[t] # Idle /\ task[t].stage = "sending"
      BY <2>1, <1>0 DEF At
    <2>3. r \in Results /\ task[t].attempt.kind = "RecoveryProbe" => r # "none"
      BY DEF Results, ProbeTimeout
    <2>4. r \in Results
      BY DEF Results, ProbeTimeout
    <2> QED
      BY <1>0, <2>1, <2>2, <2>3, <2>4, BookedStep
  <1>5. CASE CancelBook(t)
    <2>1. /\ task[t] # Idle /\ task[t].stage = "booking" /\ Booked(t, "Failed", "timed_out", Idle)
          /\ present' = present /\ conn' = conn
      BY <1>5, <1>0 DEF CancelBook, At
    <2>2. "timed_out" \in Results /\ "timed_out" # "none"
      BY DEF Results
    <2> QED
      BY <1>0, <2>1, <2>2, BookedStep
  <1> QED
    BY <1>1, <1>2, <1>3, <1>4, <1>5

-----------------------------------------------------------------------------
(* The steps that claim. *)

LEMMA ProceedStep ==
  ASSUME Inv, NEW t \in Tasks, NEW y \in Busy \union {Idle}, Proceed(t, y),
         present' = present, conn' = conn,
         StateOK(state'), ~present => state' = NewTopicState,
         NEW token, Owns(t, token), Keeps(state, state', token),
         y # Idle => /\ y.token \in {NoId, token} /\ TaskConsistent(y)
                     /\ y.role # "send" /\ Current(state', y)
                          => /\ state'.claims[Key(y)].probe = y.attempt.id
                             /\ task[t].stage \in Linked => link[t] # "dropped"
                     /\ y.role = "send" /\ task[t].stage \in Linked => link[t] # "dropped",
         Resolved(state', task')
  PROVE  Inv' /\ ClaimNeverStolenStep
  <1>1. link \in [Tasks -> {"up", "lost", "dropped"}]
    BY DEF Inv
  <1>2. /\ task' = [task EXCEPT ![t] = y] /\ link' \in [Tasks -> {"up", "lost", "dropped"}]
        /\ \A u \in Tasks \ {t} : link'[u] = link[u]
        /\ link'[t] # "dropped" \/ (task[t].stage \in Linked /\ link'[t] = link[t])
    BY <1>1 DEF Proceed, At
  <1>3. y # Idle => ReplyOK(y, link'[t], state')
    BY <1>2 DEF ReplyOK
  <1>4. \A u \in Tasks \ {t} : task[u] # Idle => LinkKept(task[u], link[u], link'[u], state')
    BY <1>2 DEF LinkKept
  <1> QED
    BY <1>2, <1>3, <1>4, TaskStep

LEMMA FreshToken ==
  ASSUME NEW token \in FreshTokens, NEW t
  PROVE  /\ token \in Ids /\ token # NoId /\ Owns(t, token)
         /\ \A k \in Keys : state.claims[k].token # token
  BY EagerReplyAssumption DEF FreshTokens, Fresh, BusyTasks, Owns, NoId

LEMMA FreshProbe ==
  ASSUME NEW i \in FreshProbes
  PROVE  i \in Ids /\ i # NoId
  BY EagerReplyAssumption DEF FreshProbes, Fresh, NoId

\* Records that leave the claims and the probes alone.
LEMMA RecordsKept ==
  ASSUME NEW s, NEW r, r.claims = s.claims, r.probe = s.probe, NEW token
  PROVE  Keeps(s, r, token) /\ ProbesKept(s, r)
  BY DEF Keeps, ProbesKept

\* A step of a task that carries no probe of an ordinary send.
LEMMA StillResolved ==
  ASSUME Inv, NEW t \in Tasks, NEW y, Proceed(t, y), ProbesKept(state, state'),
         task[t] = Idle \/ task[t].role # "send"
  PROVE  Resolved(state', task')
  <1>1. \A u \in Tasks \ {t} : task'[u] = task[u]
    BY DEF Proceed, Inv
  <1>2. \A p, i : ~Carries(task[t], p, i)
    BY SMT DEF Carries, Idle
  <1>3. \A u \in Tasks, p \in Peers : Carries(task[u], p, state'.probe[p])
          => Carries(task'[u], p, state'.probe[p])
    BY <1>1, <1>2
  <1> QED
    BY <1>3, ResolvedKept DEF Inv

LEMMA IwantStep ==
  ASSUME Inv, NEW t \in Tasks, NEW p \in Peers, NEW m \in Msgs, Iwant(t, p, m)
  PROVE  Inv' /\ ClaimNeverStolenStep
  <1> DEFINE y == New("serve", p, m, "collected")
  <1>1. /\ task[t] = Idle /\ present /\ present' = present /\ conn' = conn
        /\ state' = [state EXCEPT !.members = @ \union {p}] /\ Proceed(t, y)
    BY DEF Iwant
  <1>2. /\ state' \in States /\ state'.custody = state.custody /\ state'.claims = state.claims
        /\ state'.probe = state.probe /\ state'.cool = state.cool
    BY <1>1 DEF Inv, StateOK, States
  <1>3. StateOK(state')
    BY <1>2 DEF Inv, StateOK
  <1>4. Keeps(state, state', NoId) /\ ProbesKept(state, state')
    BY <1>2, RecordsKept
  <1>5. y \in Busy /\ y.token = NoId /\ y.role # "send" /\ TaskConsistent(y) /\ Key(y) \in Keys
    BY EagerReplyAssumption
    DEF New, Busy, TaskConsistent, NoMsg, NoAttempt, NoEntry, NoId, Attempts, Outcomes, Key, Keys
  <1>6. ~Current(state', y)
    BY <1>2, <1>5, ClaimToken DEF Current, eager_reply_claimed, States
  <1>7. Resolved(state', task')
    BY <1>1, <1>4, StillResolved
  <1>8. Owns(t, NoId)
    BY DEF Owns
  <1> HIDE DEF y
  <1> QED
    BY <1>1, <1>3, <1>4, <1>5, <1>6, <1>7, <1>8, ProceedStep

LEMMA IwantClaimStep ==
  ASSUME Inv, NEW t \in Tasks, IwantClaim(t)
  PROVE  Inv' /\ ClaimNeverStolenStep
  <1> DEFINE x == task[t]
             k0 == Key(x)
  <1>0. /\ x \in Busy /\ x # Idle /\ x.stage = "collected" /\ TaskConsistent(x) /\ x.role = "serve"
        /\ x.token = NoId /\ x.attempt = NoAttempt /\ present' = present /\ conn' = conn
    <2>1. task[t] \in Busy \union {Idle} /\ task[t].stage = "collected"
      BY DEF Inv, IwantClaim, At
    <2>2. task[t] # Idle
      BY SMT, <2>1 DEF Idle
    <2>3. TaskConsistent(task[t])
      BY <2>2 DEF Inv, ReplyOK
    <2>4. task[t].role \in {"serve", "retry", "send"}
      BY <2>1, <2>2 DEF Busy
    <2> QED
      BY <2>1, <2>2, <2>3, <2>4 DEF TaskConsistent, IwantClaim
  <1>1. k0 \in Keys /\ StateOK(state)
    BY <1>0, ReplyKey DEF Inv
  <1>2. /\ state \in States /\ state.claims \in [Keys -> Claims \union {NoClaim}]
    BY <1>1 DEF StateOK, States
  <1>3. Idle \in Busy \union {Idle} /\ Owns(t, NoId)
    BY DEF Owns
  <1> HIDE DEF k0
  <1>4. CASE ~present /\ UNCHANGED state /\ Proceed(t, Idle)
    <2>1. Keeps(state, state', NoId) /\ ProbesKept(state, state') /\ StateOK(state')
          /\ (~present => state' = NewTopicState)
      BY <1>1, <1>4, RecordsKept DEF Inv
    <2>2. Resolved(state', task')
      BY <2>1, <1>0, <1>4, StillResolved
    <2> QED
      BY <2>1, <2>2, <1>0, <1>3, <1>4, ProceedStep
  <1>5. CASE /\ present /\ eager_reply_claimed(state, k0) /\ Proceed(t, Idle)
             /\ state' = [state EXCEPT !.claims[k0] =
                  [token |-> @.token, rerequested |-> TRUE, probe |-> @.probe]]
    <2> DEFINE c == [token |-> state.claims[k0].token, rerequested |-> TRUE,
                     probe |-> state.claims[k0].probe]
    <2>1. state.claims[k0] \in Claims
      BY <1>1, <1>2, <1>5, ClaimToken DEF eager_reply_claimed
    <2>2. /\ c \in Claims /\ c # NoClaim /\ c.token = state.claims[k0].token
          /\ c.probe = state.claims[k0].probe
      BY <2>1, EagerReplyAssumption DEF Claims, NoClaim, NoId
    <2> HIDE DEF c
    <2>3. state' = [state EXCEPT !.claims[k0] = c]
      BY <1>5 DEF c
    <2>4. /\ state' \in States /\ state'.claims = [state.claims EXCEPT ![k0] = c]
          /\ state'.probe = state.probe /\ state'.cool = state.cool /\ state'.custody = state.custody
      BY <1>1, <1>2, <2>2, <2>3 DEF States
    <2>5. StateOK(state')
      BY <1>1, <2>4 DEF StateOK
    <2>6. Keeps(state, state', NoId)
      BY SMTT(30), <1>2, <2>2, <2>4, <1>5 DEF Keeps, eager_reply_claimed
    <2>7. ProbesKept(state, state')
      BY <1>2, <2>2, <2>4 DEF ProbesKept, Keys
    <2>8. Resolved(state', task')
      BY <2>7, <1>0, <1>5, StillResolved
    <2> QED
      BY <2>5, <2>6, <2>8, <1>0, <1>3, <1>5, ProceedStep
  <1>6. CASE /\ present /\ ~eager_reply_claimed(state, k0)
             /\ \E token \in FreshTokens :
                  /\ state' = insert_eager_reply_claim(state, k0, token)
                  /\ Proceed(t, [x EXCEPT !.stage = "claimed", !.token = token])
    <2>1. PICK token \in FreshTokens :
            /\ state' = insert_eager_reply_claim(state, k0, token)
            /\ Proceed(t, [x EXCEPT !.stage = "claimed", !.token = token])
      BY <1>6
    <2>2. /\ token \in Ids /\ token # NoId /\ Owns(t, token)
      BY FreshToken
    <2> DEFINE y == [x EXCEPT !.stage = "claimed", !.token = token]
               c == [token |-> token, rerequested |-> FALSE, probe |-> NoId]
    <2>3. /\ y \in Busy /\ y.stage = "claimed" /\ y.token = token /\ y.role = "serve"
          /\ y.attempt = NoAttempt /\ y.msg = x.msg /\ y.peer = x.peer
      BY <1>0, <2>2 DEF Busy
    <2>4. TaskConsistent(y) /\ Key(y) = k0 /\ y.attempt.id = NoId
      BY SMTT(30), <1>0, <2>2, <2>3 DEF TaskConsistent, Key, k0, NoAttempt
    <2>5. c \in Claims /\ c # NoClaim /\ c.token = token /\ c.probe = NoId
      BY <2>2, EagerReplyAssumption DEF Claims, NoClaim, NoId
    <2>6. state' = [state EXCEPT !.claims[k0] = c] /\ Proceed(t, y)
      BY <2>1 DEF insert_eager_reply_claim
    <2> HIDE DEF y, c
    <2>7. /\ state' \in States /\ state'.claims = [state.claims EXCEPT ![k0] = c]
          /\ state'.probe = state.probe /\ state'.cool = state.cool /\ state'.custody = state.custody
      BY <1>1, <1>2, <2>5, <2>6 DEF States
    <2>8. StateOK(state')
      BY <1>1, <2>7 DEF StateOK
    <2>9. Keeps(state, state', token)
      BY <1>2, <1>6, <2>5, <2>7 DEF Keeps, eager_reply_claimed
    <2>10. ProbesKept(state, state')
      BY <1>2, <2>5, <2>7, <1>6 DEF ProbesKept, Keys, eager_reply_claimed
    <2>11. Resolved(state', task')
      BY <2>6, <2>10, <1>0, StillResolved
    <2>12. state'.claims[k0].probe = y.attempt.id
      BY <1>1, <1>2, <2>4, <2>5, <2>7
    <2>13. task[t].stage \notin Linked
      BY <1>0 DEF Linked
    <2> QED
      BY <2>2, <2>3, <2>4, <2>6, <2>8, <2>9, <2>11, <2>12, <2>13, <1>0, <1>6, ProceedStep
  <1> QED
    BY <1>4, <1>5, <1>6 DEF IwantClaim, k0

LEMMA BusyTask ==
  ASSUME Inv, NEW t \in Tasks, task[t].stage # "idle"
  PROVE  /\ task[t] \in Busy /\ task[t] # Idle /\ TaskConsistent(task[t])
         /\ ReplyOK(task[t], link[t], state)
         /\ task[t].role \in {"serve", "retry", "send"} /\ task[t].peer \in Peers
  <1>1. task[t] # Idle
    BY SMT DEF Idle
  <1> QED
    BY <1>1 DEF Inv, ReplyOK, Busy

LEMMA ServeRefusedStep ==
  ASSUME Inv, NEW t \in Tasks, NEW o, ServeRefused(t, o)
  PROVE  Inv' /\ ClaimNeverStolenStep
  <1> DEFINE x == task[t]
             y == [x EXCEPT !.stage = "settling", !.outcome = o]
  <1>1. /\ x.stage = "claimed" /\ o \in Outcomes /\ Proceed(t, y)
        /\ present' = present /\ conn' = conn /\ state' = state
    BY DEF ServeRefused, At, Outcomes
  <1>2. x \in Busy /\ x # Idle /\ TaskConsistent(x) /\ ReplyOK(x, link[t], state)
        /\ x.role \in {"serve", "retry", "send"}
    BY <1>1, BusyTask
  <1>3. x.role = "serve" /\ x.attempt = NoAttempt
    BY <1>1, <1>2 DEF TaskConsistent
  <1>4. /\ y \in Busy /\ y.stage = "settling" /\ y.role = "serve" /\ y.attempt = NoAttempt
        /\ y.token = x.token /\ y.peer = x.peer /\ y.msg = x.msg
    BY <1>1, <1>2, <1>3 DEF Busy
  <1> HIDE DEF y
  <1>5. TaskConsistent(y) /\ Key(y) = Key(x)
    BY SMTT(30), <1>1, <1>2, <1>3, <1>4 DEF TaskConsistent, Key
  <1>6. /\ StateOK(state') /\ Keeps(state, state', x.token) /\ ProbesKept(state, state')
        /\ (~present => state' = NewTopicState)
    BY <1>1, RecordsKept DEF Inv
  <1>7. Owns(t, x.token)
    BY <1>2 DEF Owns, Inv, OwnTokens
  <1>8. Resolved(state', task')
    BY <1>1, <1>3, <1>6, StillResolved
  <1>9. y.role # "send" /\ Current(state', y)
          => state'.claims[Key(y)].probe = y.attempt.id /\ link[t] # "dropped"
    BY <1>1, <1>2, <1>3, <1>4, <1>5 DEF ReplyOK, Current
  <1> HIDE DEF x
  <1> QED
    BY <1>1, <1>4, <1>5, <1>6, <1>7, <1>8, <1>9, ProceedStep

LEMMA Granted ==
  ASSUME NEW s, NEW p, NEW a \in Grants(s, p)
  PROVE  /\ a \in Attempts /\ (a.kind = "RecoveryProbe") = (a.id # NoId)
         /\ a.kind = "RecoveryProbe" =>
              a.id \in Ids /\ s.cool[p] = "expired" /\ s.probe[p] = NoId
  <1>1. \/ a = NoAttempt \/ a = [NoAttempt EXCEPT !.kind = "Normal"]
        \/ a = [NoAttempt EXCEPT !.kind = "CooldownBypass"]
        \/ /\ s.cool[p] = "expired" /\ s.probe[p] = NoId
           /\ \E i \in FreshProbes : a = [kind |-> "RecoveryProbe", id |-> i]
    BY DEF Grants
  <1>2. CASE a = NoAttempt
    BY <1>2 DEF NoAttempt, Attempts, NoId
  <1>3. CASE a = [NoAttempt EXCEPT !.kind = "Normal"]
    BY <1>3 DEF NoAttempt, Attempts, NoId
  <1>4. CASE a = [NoAttempt EXCEPT !.kind = "CooldownBypass"]
    BY <1>4 DEF NoAttempt, Attempts, NoId
  <1>5. CASE /\ s.cool[p] = "expired" /\ s.probe[p] = NoId
             /\ \E i \in FreshProbes : a = [kind |-> "RecoveryProbe", id |-> i]
    BY SMT, <1>5, FreshProbe DEF Attempts
  <1> QED
    BY <1>1, <1>2, <1>3, <1>4, <1>5

\* The probe of p0 is armed for the reply or the send that resolves it.
LEMMA ResolvedArmed ==
  ASSUME NEW s, NEW r, NEW T, NEW T2, Resolved(s, T), NEW p0 \in Peers,
         \A p \in Peers \ {p0} :
           r.probe[p] = s.probe[p] /\ \A m \in Msgs : r.claims[<<p, m>>] = s.claims[<<p, m>>],
         \A t \in Tasks, p \in Peers \ {p0} :
           Carries(T[t], p, r.probe[p]) => Carries(T2[t], p, r.probe[p]),
         Claimed(r, p0, r.probe[p0]) \/ \E t \in Tasks : Carries(T2[t], p0, r.probe[p0])
  PROVE  Resolved(r, T2)
  <1> SUFFICES ASSUME NEW p \in Peers \ {p0}, r.probe[p] # NoId
               PROVE  Claimed(r, p, r.probe[p]) \/ \E t \in Tasks : Carries(T2[t], p, r.probe[p])
    BY DEF Resolved
  <1>1. Claimed(s, p, s.probe[p]) => Claimed(r, p, r.probe[p])
    BY DEF Claimed
  <1> QED
    BY <1>1 DEF Resolved

\* State s with the probe i of p armed and the claim c recorded for k.
Arms(s, p, i, k, c, r) ==
  r = [s EXCEPT !.probe = [s.probe EXCEPT ![p] = i], !.claims = [s.claims EXCEPT ![k] = c]]

LEMMA ArmedClaim ==
  ASSUME NEW s, StateOK(s), NEW p \in Peers, NEW i \in Ids, s.cool[p] = "expired",
         NEW k \in Keys, NEW c \in Claims \union {NoClaim}, NEW r, Arms(s, p, i, k, c, r)
  PROVE  /\ StateOK(r) /\ r.probe[p] = i /\ r.claims[k] = c
         /\ \A q \in Peers \ {p} : r.probe[q] = s.probe[q]
         /\ \A j \in Keys \ {k} : r.claims[j] = s.claims[j]
  <1>1. /\ s \in States /\ s.probe \in [Peers -> Ids \union {NoId}]
        /\ s.claims \in [Keys -> Claims \union {NoClaim}]
        /\ s.cool \in [Peers -> {"ok", "active", "expired"}]
    BY DEF StateOK, States
  <1>2. /\ r \in States /\ r.probe = [s.probe EXCEPT ![p] = i]
        /\ r.claims = [s.claims EXCEPT ![k] = c] /\ r.cool = s.cool /\ r.custody = s.custody
    BY <1>1 DEF States, Arms
  <1>3. StateOK(r)
    BY <1>1, <1>2 DEF StateOK
  <1> QED
    BY <1>1, <1>2, <1>3

LEMMA ServeClaimStep ==
  ASSUME Inv, NEW t \in Tasks, ServeClaim(t)
  PROVE  Inv' /\ ClaimNeverStolenStep
  <1> DEFINE x == task[t]
             k0 == Key(x)
             p0 == x.peer
  <1>1. PICK a \in ServeGrants(x) :
          /\ state' = attach_probe_to_eager_reply_claim(Arm(state, p0, a), k0, x.token, a)
          /\ Proceed(t, IF a = NoAttempt
                        THEN [x EXCEPT !.stage = "settling", !.outcome = "Deferred"]
                        ELSE [x EXCEPT !.stage = "sending", !.attempt = a])
    BY DEF ServeClaim
  <1>2. x.stage = "claimed" /\ present' = present /\ conn' = conn
    BY DEF ServeClaim, At
  <1>3. x \in Busy /\ x # Idle /\ TaskConsistent(x) /\ ReplyOK(x, link[t], state)
        /\ x.role \in {"serve", "retry", "send"} /\ p0 \in Peers /\ StateOK(state)
    BY <1>2, BusyTask DEF Inv
  <1>4. x.role = "serve" /\ x.attempt = NoAttempt /\ k0 \in Keys /\ k0[1] = p0 /\ x.token # NoId
    <2>1. x.role = "serve" /\ x.attempt = NoAttempt
      BY <1>2, <1>3 DEF TaskConsistent
    <2>2. x.token # NoId
      BY <2>1, <1>2, <1>3 DEF TaskConsistent
    <2> QED
      BY <2>1, <2>2, <1>3, ReplyKey
  <1>5. /\ a \in Attempts /\ (a.kind = "RecoveryProbe") = (a.id # NoId)
        /\ a # NoAttempt => Current(state, x)
        /\ a.kind = "RecoveryProbe" =>
             a.id \in Ids /\ state.cool[p0] = "expired" /\ state.probe[p0] = NoId
    <2>1. CASE Current(state, x)
      BY SMTT(30), <2>1, Granted DEF ServeGrants
    <2>2. CASE ~Current(state, x)
      BY SMT, <2>2 DEF ServeGrants, NoAttempt, Attempts, NoId
    <2> QED
      BY <2>1, <2>2
  <1> DEFINE y == IF a = NoAttempt
                  THEN [x EXCEPT !.stage = "settling", !.outcome = "Deferred"]
                  ELSE [x EXCEPT !.stage = "sending", !.attempt = a]
  <1>6. /\ y \in Busy /\ y.role = "serve" /\ y.token = x.token /\ y.peer = x.peer /\ y.msg = x.msg
        /\ y.stage = IF a = NoAttempt THEN "settling" ELSE "sending"
        /\ y.attempt = a /\ Proceed(t, y)
    <2>1. CASE a = NoAttempt
      BY <1>1, <1>3, <1>4, <2>1 DEF Busy, Outcomes
    <2>2. CASE a # NoAttempt
      BY <1>1, <1>3, <1>4, <1>5, <2>2 DEF Busy
    <2> QED
      BY <2>1, <2>2
  <1> HIDE DEF y
  <1>7. TaskConsistent(y) /\ Key(y) = k0
    BY SMTT(30), <1>2, <1>3, <1>4, <1>5, <1>6 DEF TaskConsistent, Key
  <1>8. Owns(t, x.token)
    BY <1>3 DEF Owns, Inv, OwnTokens
  <1>9. Current(state, x) => state.claims[k0].probe = NoId /\ link[t] # "dropped"
    BY SMTT(30), <1>3, <1>4 DEF ReplyOK, NoAttempt
  <1>10. CASE a.kind # "RecoveryProbe"
    <2>1. state' = state /\ a.id = NoId
      BY <1>1, <1>5, <1>10 DEF attach_probe_to_eager_reply_claim, Arm
    <2>2. /\ StateOK(state') /\ Keeps(state, state', x.token) /\ ProbesKept(state, state')
          /\ (~present => state' = NewTopicState)
      BY <2>1, RecordsKept DEF Inv
    <2>3. Resolved(state', task')
      BY <1>4, <1>6, <2>2, StillResolved
    <2>4. Current(state', y) => state'.claims[Key(y)].probe = y.attempt.id /\ link[t] # "dropped"
      BY <2>1, <1>6, <1>7, <1>9 DEF Current
    <2> HIDE DEF x, k0, p0
    <2> QED
      BY <2>2, <2>3, <2>4, <1>2, <1>6, <1>7, <1>8, ProceedStep
  <1>11. CASE a.kind = "RecoveryProbe"
    <2> DEFINE c == [token |-> x.token, rerequested |-> state.claims[k0].rerequested,
                     probe |-> a.id]
    <2>1. Current(state, x) /\ a # NoAttempt
      BY SMTT(30), <1>5, <1>11 DEF NoAttempt
    <2>2. /\ state.claims[k0] # NoClaim /\ state.claims[k0].token = x.token
          /\ state.claims[k0] \in Claims
      BY <2>1, <1>3, <1>4, ClaimToken DEF Current, eager_reply_claimed, StateOK, States
    <2>3. c \in Claims /\ c # NoClaim /\ c.token = x.token /\ c.probe = a.id
      BY <2>2, <1>5, <1>11, ClaimToken DEF Claims, NoClaim
    <2>4. Arms(state, p0, a.id, k0, c, state')
      <3> HIDE DEF x, k0, p0
      <3>1. Arm(state, p0, a) = [state EXCEPT !.probe[p0] = a.id]
        BY <1>11 DEF Arm
      <3>2. Arm(state, p0, a).claims = state.claims
        BY <3>1, <1>3 DEF StateOK, States
      <3>3. state' = [Arm(state, p0, a) EXCEPT !.claims[k0] = c]
        BY <1>1, <1>11, <2>2, <3>2 DEF attach_probe_to_eager_reply_claim
      <3> QED
        BY <3>1, <3>3, <1>3 DEF StateOK, States, Arms
    <2>5. a.id \in Ids /\ state.cool[p0] = "expired"
      BY <1>5, <1>11
    <2> HIDE DEF c, k0, p0
    <2>6. /\ StateOK(state') /\ state'.probe[p0] = a.id /\ state'.claims[k0] = c
          /\ \A q \in Peers \ {p0} : state'.probe[q] = state.probe[q]
          /\ \A j \in Keys \ {k0} : state'.claims[j] = state.claims[j]
      BY SMTT(30), <1>3, <1>4, <2>3, <2>4, <2>5, ArmedClaim
    <2>7. Keeps(state, state', x.token)
      <3> SUFFICES ASSUME NEW k \in Keys
                   PROVE  \/ state'.claims[k] = NoClaim \/ state'.claims[k] = state.claims[k]
                          \/ state'.claims[k].token = x.token /\ state.claims[k].token = x.token
        BY DEF Keeps
      <3> QED
        BY <2>2, <2>3, <2>6
    <2>8. Resolved(state', task')
      <3>1. \A p \in Peers \ {p0}, m \in Msgs : state'.claims[<<p, m>>] = state.claims[<<p, m>>]
        BY SMTT(30), <2>6, <1>4 DEF Keys
      <3>2. Claimed(state', p0, state'.probe[p0])
        <4>1. k0 = <<p0, x.msg>> /\ x.msg \in Msgs
          BY <1>4 DEF k0, p0, Key, Keys
        <4> QED
          BY <4>1, <2>3, <2>6 DEF Claimed
      <3>3. \A u \in Tasks, p \in Peers : Carries(task[u], p, state'.probe[p])
              => Carries(task'[u], p, state'.probe[p])
        BY <1>4, <1>6 DEF Carries, Proceed, Inv
      <3>4. Resolved(state, task)
        BY DEF Inv
      <3> QED
        BY SMTT(30), <3>1, <3>2, <3>3, <3>4, <2>6, <1>3, ResolvedArmed
    <2>9. state'.claims[Key(y)].probe = y.attempt.id /\ link[t] # "dropped"
      BY <2>1, <2>3, <2>6, <1>6, <1>7, <1>9
    <2>10. present
      <3>1. ~present => state.claims[k0] = NoClaim
        BY SMT, <1>4 DEF Inv, NewTopicState
      <3> QED
        BY <3>1, <2>2
    <2> HIDE DEF x
    <2> QED
      BY ZenonT(60), <2>6, <2>7, <2>8, <2>9, <2>10, <1>2, <1>6, <1>7, <1>8, ProceedStep
  <1> QED
    BY <1>10, <1>11

LEMMA RetryCheckStep ==
  ASSUME Inv, NEW t \in Tasks, NEW e \in state.custody, RetryCheck(t, e)
  PROVE  Inv' /\ ClaimNeverStolenStep
  <1> DEFINE y == [New("retry", e.peer, e.msg, "checked") EXCEPT !.own = e]
  <1>1. /\ task[t] = Idle /\ present /\ present' = present /\ conn' = conn /\ Proceed(t, y)
        /\ state' = [state EXCEPT !.custody = {f \in state.custody : f.msg \in state.cached}]
    BY DEF RetryCheck, prune_deferred_eager_replies
  <1>2. CustodyStep(state, state')
    BY ZenonT(60), <1>1, CustodyShrinks DEF Inv
  <1>3. StateOK(state') /\ state'.claims = state.claims /\ state'.probe = state.probe
    BY <1>2 DEF CustodyStep, SameRecords
  <1>4. Keeps(state, state', NoId) /\ ProbesKept(state, state')
    BY <1>3, RecordsKept
  <1>5. e \in Entries
    BY DEF Inv, StateOK, States
  <1>6. y \in Busy /\ y.token = NoId /\ y.role # "send" /\ TaskConsistent(y) /\ Key(y) \in Keys
    BY <1>5, EagerReplyAssumption
    DEF New, Busy, TaskConsistent, NoMsg, NoAttempt, NoEntry, NoId, Attempts, Outcomes, Key, Keys,
        Entries
  <1>7. ~Current(state', y)
    BY <1>3, <1>6, ClaimToken DEF Current, eager_reply_claimed, StateOK, States
  <1>8. Resolved(state', task')
    BY <1>1, <1>4, StillResolved
  <1>9. Owns(t, NoId)
    BY DEF Owns
  <1> HIDE DEF y
  <1> QED
    BY ZenonT(60), <1>1, <1>3, <1>4, <1>6, <1>7, <1>8, <1>9, ProceedStep

LEMMA RetryDropStep ==
  ASSUME Inv, NEW t \in Tasks, RetryDrop(t)
  PROVE  Inv' /\ ClaimNeverStolenStep
  <1>1. /\ task[t].stage = "checked" /\ present' = present /\ conn' = conn /\ Proceed(t, Idle)
        /\ state' = [state EXCEPT !.custody = state.custody \ {task[t].own}]
    BY DEF RetryDrop, At
  <1>2. task[t] \in Busy /\ task[t].role # "send"
    BY <1>1, BusyTask DEF TaskConsistent
  <1>3. CustodyStep(state, state')
    BY ZenonT(60), <1>1, CustodyShrinks DEF Inv
  <1>4. StateOK(state') /\ state'.claims = state.claims /\ state'.probe = state.probe
    BY <1>3 DEF CustodyStep, SameRecords
  <1>5. Keeps(state, state', NoId) /\ ProbesKept(state, state')
    BY <1>4, RecordsKept
  <1>6. ASSUME ~present PROVE state' = NewTopicState
    <2>1. state = NewTopicState
      BY <1>6 DEF Inv
    <2>2. state.custody \ {task[t].own} = {} /\ state.custody = {}
      BY <2>1 DEF NewTopicState
    <2>3. state' = [state EXCEPT !.custody = {}]
      BY <1>1, <2>2
    <2>4. state \in States
      BY DEF Inv, StateOK
    <2>5. state' = state
      BY ZenonT(60), <2>2, <2>3, <2>4 DEF States
    <2> QED
      BY <2>1, <2>5
  <1>7. Resolved(state', task')
    BY <1>1, <1>2, <1>5, StillResolved
  <1>8. Owns(t, NoId) /\ Idle \in Busy \union {Idle}
    BY DEF Owns
  <1> QED
    BY <1>1, <1>4, <1>5, <1>6, <1>7, <1>8, ProceedStep

LEMMA SendClaimStep ==
  ASSUME Inv, NEW t \in Tasks, NEW p \in Peers, SendClaim(t, p)
  PROVE  Inv' /\ ClaimNeverStolenStep
  <1>1. PICK a \in (IF present THEN Grants(state, p) ELSE {[NoAttempt EXCEPT !.kind = "Normal"]}) :
          /\ a # NoAttempt /\ state' = Arm(state, p, a)
          /\ Proceed(t, [New("send", p, NoMsg, "sending") EXCEPT !.attempt = a])
    BY DEF SendClaim
  <1>2. task[t] = Idle /\ present' = present /\ conn' = conn /\ StateOK(state)
    BY DEF SendClaim, Inv
  <1>3. /\ a \in Attempts /\ (a.kind = "RecoveryProbe") = (a.id # NoId)
        /\ a.kind = "RecoveryProbe" =>
             present /\ a.id \in Ids /\ state.cool[p] = "expired" /\ state.probe[p] = NoId
    <2>1. CASE present
      BY SMTT(30), <2>1, <1>1, Granted
    <2>2. CASE ~present
      BY <2>2, <1>1 DEF NoAttempt, Attempts, NoId
    <2> QED
      BY <2>1, <2>2
  <1> DEFINE y == [New("send", p, NoMsg, "sending") EXCEPT !.attempt = a]
  <1>4. /\ y \in Busy /\ y.token = NoId /\ y.role = "send" /\ y.stage = "sending"
        /\ y.peer = p /\ y.attempt = a /\ y.msg = NoMsg
    BY <1>3 DEF New, Busy, NoEntry, NoId, Outcomes
  <1>5. Proceed(t, y)
    BY <1>1
  <1> HIDE DEF y
  <1>6. TaskConsistent(y)
    BY <1>3, <1>4 DEF TaskConsistent
  <1>7. Owns(t, NoId) /\ task[t].stage \notin Linked
    BY SMT, <1>2 DEF Owns, Idle, Linked
  <1>8. task' = [task EXCEPT ![t] = y] /\ task'[t] = y
    BY <1>5 DEF Proceed, Inv
  <1>9. CASE a.kind # "RecoveryProbe"
    <2>1. state' = state
      BY <1>1, <1>9 DEF Arm
    <2>2. /\ Keeps(state, state', NoId) /\ ProbesKept(state, state')
          /\ (~present => state' = NewTopicState)
      BY <2>1, RecordsKept DEF Inv
    <2>3. Resolved(state', task')
      BY <2>2, <1>2, <1>5, StillResolved
    <2> QED
      BY <2>1, <2>2, <2>3, <1>2, <1>4, <1>5, <1>6, <1>7, ProceedStep
  <1>10. CASE a.kind = "RecoveryProbe"
    <2>1. state' = [state EXCEPT !.probe[p] = a.id]
      BY <1>1, <1>10 DEF Arm
    <2>2. /\ state.probe \in [Peers -> Ids \union {NoId}]
          /\ state.cool \in [Peers -> {"ok", "active", "expired"}]
      BY <1>2 DEF StateOK, States
    <2>3. /\ state' \in States /\ state'.probe = [state.probe EXCEPT ![p] = a.id]
          /\ state'.claims = state.claims /\ state'.cool = state.cool
          /\ state'.custody = state.custody
      BY <1>2, <1>3, <1>10, <2>1, <2>2 DEF StateOK, States
    <2>4. StateOK(state')
      BY SMTT(30), <1>2, <1>3, <1>10, <2>2, <2>3 DEF StateOK
    <2>5. Keeps(state, state', NoId)
      BY <2>3 DEF Keeps
    <2>6. Resolved(state', task')
      <3>1. \A q \in Peers \ {p} : state'.probe[q] = state.probe[q]
                                   /\ \A m \in Msgs : state'.claims[<<q, m>>] = state.claims[<<q, m>>]
        BY <2>2, <2>3
      <3>2. Carries(task'[t], p, state'.probe[p])
        BY <1>4, <1>8, <2>2, <2>3 DEF Carries
      <3>3. \A u \in Tasks, q \in Peers : Carries(task[u], q, state'.probe[q])
              => Carries(task'[u], q, state'.probe[q])
        BY SMTT(30), <1>2, <1>8 DEF Carries, Idle, Inv
      <3>4. Resolved(state, task)
        BY DEF Inv
      <3> QED
        BY SMTT(30), <3>1, <3>2, <3>3, <3>4, ResolvedArmed
    <2> QED
      BY ZenonT(60), <2>4, <2>5, <2>6, <1>2, <1>3, <1>4, <1>5, <1>6, <1>7, <1>10, ProceedStep
  <1> QED
    BY <1>9, <1>10

LEMMA CancelStep ==
  ASSUME Inv, NEW t \in Tasks, Cancel(t)
  PROVE  Inv' /\ ClaimNeverStolenStep
  <1> DEFINE x == task[t]
  <1>1. /\ x.stage \in {"collected", "claimed", "checked", "sending", "settling"}
        /\ present' = present /\ conn' = conn /\ state' = state
        /\ IF x.stage = "sending" /\ x.attempt.kind = "RecoveryProbe"
           THEN Proceed(t, [x EXCEPT !.stage = "booking"]) ELSE Proceed(t, Idle)
    BY DEF Cancel, At
  <1>2. x \in Busy /\ x # Idle /\ TaskConsistent(x) /\ ReplyOK(x, link[t], state)
    BY <1>1, BusyTask
  <1>3. /\ StateOK(state') /\ Keeps(state, state', x.token) /\ ProbesKept(state, state')
        /\ (~present => state' = NewTopicState)
    BY <1>1, RecordsKept DEF Inv
  <1>4. Owns(t, x.token)
    BY <1>2 DEF Owns, Inv, OwnTokens
  <1>5. CASE x.stage = "sending" /\ x.attempt.kind = "RecoveryProbe"
    <2> DEFINE y == [x EXCEPT !.stage = "booking"]
    <2>1. /\ y \in Busy /\ y.stage = "booking" /\ y.role = x.role /\ y.attempt = x.attempt
          /\ y.token = x.token /\ y.peer = x.peer /\ y.msg = x.msg /\ Proceed(t, y)
      BY <1>1, <1>2, <1>5 DEF Busy
    <2> HIDE DEF y
    <2>2. TaskConsistent(y) /\ Key(y) = Key(x)
      BY SMTT(30), <1>2, <1>5, <2>1 DEF TaskConsistent, Key
    <2>3. task'[t] = y /\ \A u \in Tasks \ {t} : task'[u] = task[u]
      BY <2>1 DEF Proceed, Inv
    <2>4. \A u \in Tasks, p \in Peers : Carries(task[u], p, state'.probe[p])
            => Carries(task'[u], p, state'.probe[p])
      BY ZenonT(60), <2>1, <2>3, <1>5 DEF Carries
    <2>5. Resolved(state', task')
      BY <2>4, <1>3, ResolvedKept DEF Inv
    <2>6. /\ y.role # "send" /\ Current(state', y)
               => state'.claims[Key(y)].probe = y.attempt.id /\ link[t] # "dropped"
          /\ y.role = "send" => link[t] # "dropped"
      BY <1>1, <1>2, <2>1, <2>2 DEF ReplyOK, Current
    <2> HIDE DEF x
    <2> QED
      BY ZenonT(60), <2>1, <2>2, <2>5, <2>6, <1>1, <1>3, <1>4, ProceedStep
  <1>6. CASE ~(x.stage = "sending" /\ x.attempt.kind = "RecoveryProbe")
    <2>1. Proceed(t, Idle) /\ Idle \in Busy \union {Idle}
      BY <1>1, <1>6
    <2>2. \A u \in Tasks \ {t} : task'[u] = task[u]
      BY <2>1 DEF Proceed, Inv
    <2>3. \A p \in Peers : state'.probe[p] # NoId => ~Carries(task[t], p, state'.probe[p])
      BY <1>1, <1>2, <1>6 DEF Carries, TaskConsistent
    <2>4. Resolved(state', task')
      BY SMTT(30), <2>2, <2>3, <1>3, ResolvedKept DEF Inv
    <2> HIDE DEF x
    <2> QED
      BY <2>1, <2>4, <1>1, <1>3, <1>4, ProceedStep
  <1> QED
    BY <1>5, <1>6

LEMMA RetryClaimStep ==
  ASSUME Inv, NEW t \in Tasks, RetryClaim(t)
  PROVE  Inv' /\ ClaimNeverStolenStep
  <1> DEFINE x == task[t]
             k0 == Key(x)
             p0 == x.peer
             Taken(a, token) == attach_probe_to_eager_reply_claim(
                                  insert_eager_reply_claim(Arm(state, p0, a), k0, token),
                                  k0, token, a)
  <1>1. PICK a \in RetryGrants(x) :
          IF a = NoAttempt
          THEN UNCHANGED state /\ Proceed(t, Idle)
          ELSE \E token \in FreshTokens :
                 /\ state' = Taken(a, token)
                 /\ Proceed(t, [x EXCEPT !.stage = "sending", !.token = token, !.attempt = a])
    BY DEF RetryClaim
  <1>2. x.stage = "checked" /\ present' = present /\ conn' = conn
    BY DEF RetryClaim, At
  <1>3. x \in Busy /\ x # Idle /\ TaskConsistent(x) /\ ReplyOK(x, link[t], state)
        /\ x.role \in {"serve", "retry", "send"} /\ p0 \in Peers /\ StateOK(state)
    BY <1>2, BusyTask DEF Inv
  <1>4. x.role = "retry" /\ k0 \in Keys /\ k0[1] = p0
    <2>1. x.role = "retry"
      BY <1>2, <1>3 DEF TaskConsistent
    <2> QED
      BY <2>1, <1>3, ReplyKey
  <1>5. CASE a = NoAttempt
    <2>1. state' = state /\ Proceed(t, Idle) /\ Idle \in Busy \union {Idle} /\ Owns(t, NoId)
      BY <1>1, <1>5 DEF Owns
    <2>2. /\ StateOK(state') /\ Keeps(state, state', NoId) /\ ProbesKept(state, state')
          /\ (~present => state' = NewTopicState)
      BY <2>1, RecordsKept DEF Inv
    <2>3. Resolved(state', task')
      BY <1>4, <2>1, <2>2, StillResolved
    <2> QED
      BY <2>1, <2>2, <2>3, <1>2, ProceedStep
  <1>6. CASE a # NoAttempt
    <2>1. PICK token \in FreshTokens :
            /\ state' = Taken(a, token)
            /\ Proceed(t, [x EXCEPT !.stage = "sending", !.token = token, !.attempt = a])
      BY <1>1, <1>6
    <2>2. token \in Ids /\ token # NoId /\ Owns(t, token)
      BY FreshToken
    <2>3. /\ present /\ state.claims[k0] = NoClaim
          /\ a \in Attempts /\ (a.kind = "RecoveryProbe") = (a.id # NoId)
          /\ a.kind = "RecoveryProbe" =>
               a.id \in Ids /\ state.cool[p0] = "expired" /\ state.probe[p0] = NoId
      <3>1. present /\ ~eager_reply_claimed(state, k0) /\ a \in Grants(state, p0)
        BY <1>6 DEF RetryGrants
      <3> QED
        BY SMTT(30), <3>1, Granted DEF eager_reply_claimed
    <2> DEFINE y == [x EXCEPT !.stage = "sending", !.token = token, !.attempt = a]
               c == [token |-> token, rerequested |-> FALSE, probe |-> a.id]
    <2>4. /\ y \in Busy /\ y.role = "retry" /\ y.token = token /\ y.peer = x.peer
          /\ y.msg = x.msg /\ y.stage = "sending" /\ y.attempt = a /\ Proceed(t, y)
      BY <1>3, <1>4, <2>1, <2>2, <2>3 DEF Busy
    <2>5. c \in Claims /\ c # NoClaim /\ c.token = token /\ c.probe = a.id
      BY <2>2, <2>3, EagerReplyAssumption DEF Claims, NoClaim, NoId, Attempts
    <2> HIDE DEF y
    <2>6. TaskConsistent(y) /\ Key(y) = k0
      BY SMTT(30), <1>3, <1>4, <2>2, <2>3, <2>4 DEF TaskConsistent, Key
    <2>7. /\ StateOK(state') /\ state'.claims[k0] = c
          /\ \A q \in Peers \ {p0} : state'.probe[q] = state.probe[q]
          /\ \A j \in Keys \ {k0} : state'.claims[j] = state.claims[j]
          /\ state'.probe[p0] = IF a.kind = "RecoveryProbe" THEN a.id ELSE state.probe[p0]
      <3>1. state' = Taken(a, token)
        BY <2>1
      <3>2. /\ state \in States /\ state.claims \in [Keys -> Claims \union {NoClaim}]
            /\ state.probe \in [Peers -> Ids \union {NoId}]
        BY <1>3 DEF StateOK, States
      <3> DEFINE d == [token |-> token, rerequested |-> FALSE, probe |-> NoId]
      <3>3. CASE a.kind # "RecoveryProbe"
        <4>1. c = d
          BY <3>3, <2>3
        <4> HIDE DEF x, k0, p0, c, d
        <4>2. state' = [state EXCEPT !.claims[k0] = d]
          BY <3>1, <3>3 DEF insert_eager_reply_claim, Arm, attach_probe_to_eager_reply_claim, d
        <4>3. /\ state' \in States /\ state'.claims = [state.claims EXCEPT ![k0] = c]
              /\ state'.probe = state.probe /\ state'.cool = state.cool
              /\ state'.custody = state.custody
          BY <3>2, <4>1, <4>2, <2>5, <1>4 DEF States
        <4>4. StateOK(state')
          BY <4>3, <1>3 DEF StateOK
        <4> QED
          BY <3>2, <3>3, <4>3, <4>4, <1>4
      <3>4. CASE a.kind = "RecoveryProbe"
        <4> HIDE DEF x, k0, p0
        <4> DEFINE armed == [state EXCEPT !.probe[p0] = a.id]
                   taken == [armed EXCEPT !.claims[k0] = d]
        <4>1. state' = attach_probe_to_eager_reply_claim(taken, k0, token, a)
          BY <3>1, <3>4 DEF insert_eager_reply_claim, Arm
        <4>2. /\ armed \in States /\ armed.claims = state.claims
              /\ armed.probe = [state.probe EXCEPT ![p0] = a.id]
              /\ armed.members = state.members /\ armed.cool = state.cool
              /\ armed.cached = state.cached /\ armed.custody = state.custody
          BY <3>2, <2>3, <3>4 DEF States
        <4>3. d \in Claims
          BY <2>2 DEF Claims
        <4> HIDE DEF armed
        <4>4. /\ taken \in States /\ taken.claims = [state.claims EXCEPT ![k0] = d]
              /\ taken.probe = armed.probe
              /\ taken.members = state.members /\ taken.cool = state.cool
              /\ taken.cached = state.cached /\ taken.custody = state.custody
          <5> HIDE DEF d
          <5> QED
            BY <3>2, <4>2, <4>3, <1>4 DEF States
        <4> HIDE DEF taken
        <4>5. taken.claims[k0] = d
          BY <4>4, <3>2, <1>4
        <4>6. taken.claims[k0].token = token /\ taken.claims[k0].rerequested = FALSE
          BY SMTT(30), <4>5
        <4>7. state' = [taken EXCEPT !.claims[k0] = c]
          BY <4>1, <4>6, <3>4 DEF attach_probe_to_eager_reply_claim
        <4> HIDE DEF c, d
        <4>8. /\ state' \in States /\ state'.claims = [taken.claims EXCEPT ![k0] = c]
              /\ state'.probe = armed.probe /\ state'.cool = state.cool
              /\ state'.custody = state.custody /\ state'.members = state.members
              /\ state'.cached = state.cached
          BY <4>4, <4>7, <2>5 DEF States
        <4>9. state'.claims = [state.claims EXCEPT ![k0] = c]
          BY <4>4, <4>8, <3>2, <1>4
        <4>10. Arms(state, p0, a.id, k0, c, state')
          BY <4>2, <4>8, <4>9, <3>2 DEF Arms, States
        <4> QED
          BY SMTT(30), <4>10, <2>3, <2>5, <3>4, <1>3, <1>4, ArmedClaim
      <3> QED
        BY <3>3, <3>4
    <2> HIDE DEF c, Taken
    <2>8. Keeps(state, state', token)
      <3> SUFFICES ASSUME NEW k \in Keys
                   PROVE  \/ state'.claims[k] = state.claims[k]
                          \/ state'.claims[k].token = token /\ state.claims[k] = NoClaim
        BY DEF Keeps
      <3> QED
        BY <2>3, <2>5, <2>7
    <2>9. Resolved(state', task')
      <3>1. \A u \in Tasks, p \in Peers : Carries(task[u], p, state'.probe[p])
              => Carries(task'[u], p, state'.probe[p])
        BY <1>4, <2>4 DEF Carries, Proceed, Inv
      <3>2. Resolved(state, task)
        BY DEF Inv
      <3>3. CASE a.kind = "RecoveryProbe"
        <4>1. \A p \in Peers \ {p0}, m \in Msgs : state'.claims[<<p, m>>] = state.claims[<<p, m>>]
          BY SMTT(30), <2>7, <1>4 DEF Keys
        <4>2. Claimed(state', p0, state'.probe[p0])
          <5>1. k0 = <<p0, x.msg>> /\ x.msg \in Msgs
            BY <1>4 DEF Key, Keys
          <5> QED
            BY ZenonT(60), <5>1, <3>3, <2>5, <2>7 DEF Claimed
        <4> HIDE DEF p0, k0, x
        <4> QED
          BY SMTT(30), <3>1, <3>2, <4>1, <4>2, <2>7, <1>3, ResolvedArmed
      <3>4. CASE a.kind # "RecoveryProbe"
        <4>1. ProbesKept(state, state')
          BY <2>3, <2>7, <3>4 DEF ProbesKept, Keys
        <4> QED
          BY <3>1, <3>2, <4>1, ResolvedKept
      <3> QED
        BY <3>3, <3>4
    <2>10. state'.claims[Key(y)].probe = y.attempt.id
      BY <2>4, <2>5, <2>6, <2>7
    <2>11. task[t].stage \notin Linked
      BY <1>2 DEF Linked
    <2> HIDE DEF x, k0, p0
    <2> QED
      BY ZenonT(60), <2>2, <2>3, <2>4, <2>6, <2>7, <2>8, <2>9, <2>10, <2>11, <1>2, ProceedStep
  <1> QED
    BY <1>5, <1>6

-----------------------------------------------------------------------------
(* What else happens to the topic. *)

LEMMA TopicStep ==
  ASSUME Inv, UNCHANGED task, present' \in BOOLEAN, conn' \in SUBSET Peers,
         link' \in [Tasks -> {"up", "lost", "dropped"}],
         StateOK(state'), ~present' => state' = NewTopicState,
         Keeps(state, state', NoId), ProbesKept(state, state'),
         \A u \in Tasks : task[u] # Idle => LinkKept(task[u], link[u], link'[u], state')
  PROVE  Inv' /\ ClaimNeverStolenStep
  <1>1. Resolved(state', task)
    BY ResolvedKept DEF Inv
  <1> QED
    BY <1>1, StateStep

LEMMA RecordStep ==
  ASSUME Inv, UNCHANGED <<conn, task, link>>, present' \in BOOLEAN,
         StateOK(state'), ~present' => state' = NewTopicState,
         Keeps(state, state', NoId), ProbesKept(state, state')
  PROVE  Inv' /\ ClaimNeverStolenStep
  <1>1. \A u \in Tasks : LinkKept(task[u], link[u], link'[u], state')
    BY DEF LinkKept
  <1>2. conn' \in SUBSET Peers /\ link' \in [Tasks -> {"up", "lost", "dropped"}] /\ task' = task
    BY DEF Inv
  <1> QED
    BY <1>1, <1>2, TopicStep

LEMMA NewTopic ==
  /\ StateOK(NewTopicState)
  /\ \A k \in Keys : NewTopicState.claims[k] = NoClaim
  /\ \A p \in Peers : NewTopicState.probe[p] = NoId /\ NewTopicState.cool[p] = "ok"
  /\ NewTopicState.cached = {}
  <1>1. NewTopicState \in States
    BY DEF NewTopicState, States
  <1>2. /\ NewTopicState.custody = {} /\ NewTopicState.cached = {}
        /\ \A k \in Keys : NewTopicState.claims[k] = NoClaim
        /\ \A p \in Peers : NewTopicState.probe[p] = NoId /\ NewTopicState.cool[p] = "ok"
    BY DEF NewTopicState
  <1>3. IsFiniteSet({}) /\ Cardinality({}) <= MaxCustody
    BY SMTT(30), FS_EmptySet, EagerReplyAssumption
  <1> QED
    BY <1>1, <1>2, <1>3 DEF StateOK

LEMMA ExpireClaimStep ==
  ASSUME Inv, NEW k \in Keys, ExpireClaim(k)
  PROVE  Inv' /\ ClaimNeverStolenStep
  <1> DEFINE s == [state EXCEPT !.claims[k] = NoClaim]
             c == state.claims[k]
             i == state.claims[k].probe
             p == k[1]
  <1>1. /\ c # NoClaim /\ UNCHANGED <<present, conn, task, link>>
        /\ state' = IF i = NoId THEN s ELSE abandon_unsent_recovery_probe(s, p, i)
    BY DEF ExpireClaim, eager_reply_claimed
  <1>2. /\ StateOK(s) /\ s.claims = [state.claims EXCEPT ![k] = NoClaim]
        /\ state.claims \in [Keys -> Claims \union {NoClaim}]
        /\ s.members = state.members /\ s.cool = state.cool /\ s.probe = state.probe
        /\ s.cached = state.cached /\ s.custody = state.custody /\ StateOK(state)
    <2>1. Releases(state, k, s) /\ StateOK(state)
      BY DEF Releases, Inv
    <2> HIDE DEF s
    <2> QED
      BY SMTT(30), <2>1, Released
  <1>3. present
    BY <1>1, NewTopic DEF Inv
  <1>4. p \in Peers
    BY DEF Keys
  <1>5. /\ state.probe \in [Peers -> Ids \union {NoId}]
        /\ state.cool \in [Peers -> {"ok", "active", "expired"}]
    BY <1>2 DEF StateOK, States
  <1> HIDE DEF s
  <1>6. /\ StateOK(state') /\ state'.claims = s.claims
        /\ \A q \in Peers : state'.probe[q] = IF q = p /\ s.probe[p] = i THEN NoId ELSE s.probe[q]
    <2>1. CASE i = NoId \/ s.probe[p] # i
      BY <2>1, <1>1, <1>2 DEF abandon_unsent_recovery_probe
    <2>2. CASE i # NoId /\ s.probe[p] = i
      <3>1. state' = [s EXCEPT !.probe[p] = NoId]
        BY <2>2, <1>1 DEF abandon_unsent_recovery_probe
      <3>2. /\ state' \in States /\ state'.probe = [s.probe EXCEPT ![p] = NoId]
            /\ state'.claims = s.claims /\ state'.cool = s.cool /\ state'.custody = s.custody
        BY <3>1, <1>2, <1>5 DEF StateOK, States
      <3>3. StateOK(state')
        BY <3>2, <1>2, <1>5 DEF StateOK
      <3> QED
        BY <3>2, <3>3, <2>2, <1>2, <1>5
    <2> QED
      BY <2>1, <2>2
  <1>7. Keeps(state, state', NoId)
    BY SMT, <1>2, <1>6 DEF Keeps
  <1>8. ProbesKept(state, state')
    <2> SUFFICES ASSUME NEW q \in Peers, state'.probe[q] # NoId, NEW m \in Msgs,
                        state.claims[<<q, m>>].probe = state.probe[q]
                 PROVE  state'.probe[q] = state.probe[q] /\ <<q, m>> # k
      BY SMTT(30), <1>2, <1>6 DEF ProbesKept, Keys
    <2> QED
      BY SMTT(30), <1>2, <1>6
  <1> QED
    BY <1>1, <1>3, <1>6, <1>7, <1>8, RecordStep DEF Inv

LEMMA CoolingStep ==
  ASSUME Inv, NEW p \in Peers, CooldownEnds(p) \/ Inbound(p) \/ CleanCooling(p)
  PROVE  Inv' /\ ClaimNeverStolenStep
  <1>0. /\ state \in States /\ StateOK(state) /\ state.probe \in [Peers -> Ids \union {NoId}]
        /\ state.cool \in [Peers -> {"ok", "active", "expired"}]
    BY DEF Inv, StateOK, States
  <1>1. CASE CooldownEnds(p)
    <2>1. /\ state' = [state EXCEPT !.cool[p] = "expired"] /\ UNCHANGED <<present, conn, task, link>>
          /\ state.cool[p] = "active"
      BY <1>1 DEF CooldownEnds
    <2>2. /\ state' \in States /\ state'.probe = state.probe /\ state'.claims = state.claims
          /\ state'.cool = [state.cool EXCEPT ![p] = "expired"] /\ state'.custody = state.custody
      BY <2>1, <1>0 DEF States
    <2>3. StateOK(state')
      BY <2>2, <1>0 DEF StateOK
    <2>4. present /\ present' \in BOOLEAN
      BY <2>1, NewTopic DEF Inv
    <2> QED
      BY <2>1, <2>2, <2>3, <2>4, RecordsKept, RecordStep
  <1>2. CASE Inbound(p)
    <2>1. /\ state' = [state EXCEPT !.cool[p] = "ok", !.probe[p] = NoId]
          /\ UNCHANGED <<conn, task, link>> /\ present' = TRUE
      BY <1>2 DEF Inbound
    <2>2. StateOK(state') /\ Spares(state, state', p)
      BY <2>1, <1>0, Suppressed
    <2>3. Keeps(state, state', NoId) /\ ProbesKept(state, state')
      BY <2>2 DEF Keeps, ProbesKept, Spares
    <2> QED
      BY <2>1, <2>2, <2>3, RecordStep
  <1>3. CASE CleanCooling(p)
    <2>1. /\ state' = [state EXCEPT !.cool[p] = "ok"] /\ UNCHANGED <<present, conn, task, link>>
          /\ state.cool[p] = "expired" /\ state.probe[p] = NoId
      BY <1>3 DEF CleanCooling
    <2>2. /\ state' \in States /\ state'.probe = state.probe /\ state'.claims = state.claims
          /\ state'.cool = [state.cool EXCEPT ![p] = "ok"] /\ state'.custody = state.custody
      BY <2>1, <1>0 DEF States
    <2>3. StateOK(state')
      BY SMTT(30), <2>1, <2>2, <1>0 DEF StateOK
    <2>4. present /\ present' \in BOOLEAN
      BY <2>1, NewTopic DEF Inv
    <2> QED
      BY <2>1, <2>2, <2>3, <2>4, RecordsKept, RecordStep
  <1> QED
    BY <1>1, <1>2, <1>3

LEMMA CacheStep ==
  ASSUME Inv, FlushTick \/ \E m \in Msgs : Cache(m) \/ Uncache(m)
  PROVE  Inv' /\ ClaimNeverStolenStep
  <1>1. CASE FlushTick
    <2>1. /\ state' = [state EXCEPT !.custody = {e \in state.custody : e.msg \in state.cached}]
          /\ UNCHANGED <<present, conn, task, link>> /\ present /\ StateOK(state)
      BY <1>1 DEF FlushTick, prune_deferred_eager_replies, Inv
    <2>2. CustodyStep(state, state')
      BY <2>1, CustodyShrinks
    <2>3. StateOK(state') /\ state'.claims = state.claims /\ state'.probe = state.probe
      BY <2>2 DEF CustodyStep, SameRecords
    <2> QED
      BY <2>1, <2>3, RecordsKept, RecordStep
  <1>2. ASSUME NEW m \in Msgs, Cache(m) \/ Uncache(m) PROVE Inv' /\ ClaimNeverStolenStep
    <2>1. /\ \/ state' = [state EXCEPT !.cached = @ \union {m}] /\ present' = TRUE
             \/ state' = [state EXCEPT !.cached = @ \ {m}] /\ present' = present
                /\ m \in state.cached
          /\ UNCHANGED <<conn, task, link>> /\ StateOK(state)
      BY <1>2 DEF Cache, Uncache, Inv
    <2>2. /\ state' \in States /\ state'.probe = state.probe /\ state'.claims = state.claims
          /\ state'.cool = state.cool /\ state'.custody = state.custody
      BY SMTT(30), <2>1 DEF StateOK, States
    <2>3. StateOK(state')
      BY <2>1, <2>2 DEF StateOK
    <2>4. present'
      BY SMTT(30), <2>1, NewTopic DEF Inv
    <2>5. present' \in BOOLEAN
      BY <2>1 DEF Inv
    <2> QED
      BY ZenonT(60), <2>1, <2>2, <2>3, <2>4, <2>5, RecordsKept, RecordStep
  <1> QED
    BY <1>1, <1>2

LEMMA ConnectionStep ==
  ASSUME Inv, NEW p \in Peers, Disconnect(p) \/ Reconnect(p)
  PROVE  Inv' /\ ClaimNeverStolenStep
  <1>1. /\ conn' \in SUBSET Peers /\ UNCHANGED <<present, state, task>>
        /\ link' \in [Tasks -> {"up", "lost", "dropped"}]
        /\ \A t \in Tasks : link'[t] = link[t] \/ link'[t] = "lost"
    BY DEF Disconnect, Reconnect, Inv
  <1>2. \A u \in Tasks : LinkKept(task[u], link[u], link'[u], state')
    BY <1>1 DEF LinkKept
  <1>3. Keeps(state, state', NoId) /\ ProbesKept(state, state')
    BY <1>1, RecordsKept
  <1> QED
    BY <1>1, <1>2, <1>3, TopicStep DEF Inv

\* The claims of ps are gone with the members.
LEMMA LinksDropped ==
  ASSUME Inv, NEW ps \in SUBSET Peers, link' = Dropped(ps),
         \A q \in ps, m \in Msgs : state'.claims[<<q, m>>] = NoClaim
  PROVE  /\ link' \in [Tasks -> {"up", "lost", "dropped"}]
         /\ \A u \in Tasks : LinkKept(task[u], link[u], link'[u], state')
  BY DEF Dropped, LinkKept, Inv

LEMMA RefreshStep ==
  ASSUME Inv, NEW c \in SUBSET Peers, Refresh(c) \/ SetTopicPeers(c)
  PROVE  Inv' /\ ClaimNeverStolenStep
  <1>0. /\ state \in States /\ StateOK(state) /\ state.probe \in [Peers -> Ids \union {NoId}]
        /\ state.cool \in [Peers -> {"ok", "active", "expired"}]
        /\ state.claims \in [Keys -> Claims \union {NoClaim}]
    BY DEF Inv, StateOK, States
  <1> DEFINE cool == [p \in Peers |-> IF p \in c THEN state.cool[p] ELSE "ok"]
             probe == [p \in Peers |-> IF p \in c THEN state.probe[p] ELSE NoId]
             claims == [k \in Keys |-> IF k[1] \in c THEN state.claims[k] ELSE NoClaim]
             kept == {e \in state.custody : e.peer \in c}
  <1>1. /\ cool \in [Peers -> {"ok", "active", "expired"}]
        /\ probe \in [Peers -> Ids \union {NoId}]
        /\ claims \in [Keys -> Claims \union {NoClaim}]
        /\ \A p \in Peers : probe[p] # NoId => cool[p] = "expired" /\ probe[p] = state.probe[p]
                                               /\ p \in c
        /\ \A k \in Keys : claims[k] = IF k[1] \in c THEN state.claims[k] ELSE NoClaim
    BY <1>0 DEF StateOK
  <1> HIDE DEF cool, probe, claims
  <1>2. CASE Refresh(c)
    <2>1. /\ state' = [[state EXCEPT !.members = @ \intersect c] EXCEPT !.cool = cool, !.probe = probe]
          /\ present /\ UNCHANGED <<present, conn, task, link>>
      <3> DEFINE q == [state EXCEPT !.members = @ \intersect c]
      <3>1. q.cool = state.cool /\ q.probe = state.probe
        BY <1>0 DEF States
      <3>2. state' = ClearDisconnected(q, c) /\ present /\ UNCHANGED <<present, conn, task, link>>
        BY <1>2 DEF Refresh
      <3> HIDE DEF q
      <3>3. ClearDisconnected(q, c) = [q EXCEPT !.cool = cool, !.probe = probe]
        BY <3>1 DEF ClearDisconnected, cool, probe
      <3> QED
        BY <3>2, <3>3 DEF q
    <2>2. /\ state' \in States /\ state'.cool = cool /\ state'.probe = probe
          /\ state'.claims = state.claims /\ state'.custody = state.custody
      BY <2>1, <1>0, <1>1 DEF States
    <2>3. StateOK(state')
      BY <2>2, <1>0, <1>1 DEF StateOK
    <2>4. Keeps(state, state', NoId) /\ ProbesKept(state, state')
      BY <2>2, <1>1 DEF Keeps, ProbesKept
    <2> QED
      BY <2>1, <2>3, <2>4, RecordStep
  <1>3. CASE SetTopicPeers(c)
    <2> DEFINE q == [state EXCEPT !.members = c, !.custody = kept, !.claims = claims]
    <2>1. /\ state' = ClearDisconnected(q, c) /\ present' = TRUE /\ link' = Dropped(Peers \ c)
          /\ UNCHANGED <<conn, task>>
      BY <1>3 DEF SetTopicPeers, claims
    <2>2. /\ q \in States /\ q.cool = state.cool /\ q.probe = state.probe /\ q.claims = claims
          /\ q.custody = kept
      BY <1>0, <1>1 DEF States
    <2> HIDE DEF q
    <2>3. state' = [q EXCEPT !.cool = cool, !.probe = probe]
      BY <2>1, <2>2 DEF ClearDisconnected, cool, probe
    <2>4. /\ state' \in States /\ state'.cool = cool /\ state'.probe = probe
          /\ state'.claims = claims /\ state'.custody = kept
      BY <2>2, <2>3, <1>1 DEF States
    <2>5. IsFiniteSet(kept) /\ Cardinality(kept) <= MaxCustody
      <3>1. IsFiniteSet(kept) /\ Cardinality(kept) <= Cardinality(state.custody)
        BY <1>0, FS_Subset DEF StateOK
      <3> QED
        BY SMTT(30), <3>1, <1>0, FS_CardinalityType, EagerReplyAssumption DEF StateOK
    <2>6. StateOK(state')
      BY <2>4, <2>5, <1>0, <1>1 DEF StateOK
    <2>7. Keeps(state, state', NoId)
      BY <2>4, <1>1 DEF Keeps
    <2>8. ProbesKept(state, state')
      BY <2>4, <1>1 DEF ProbesKept, Keys
    <2>9. \A p \in Peers \ c, m \in Msgs : state'.claims[<<p, m>>] = NoClaim
      BY SMTT(30), <2>4, <1>1 DEF Keys
    <2>10. /\ link' \in [Tasks -> {"up", "lost", "dropped"}]
           /\ \A u \in Tasks : LinkKept(task[u], link[u], link'[u], state')
      BY <2>1, <2>9, LinksDropped
    <2> QED
      BY <2>1, <2>6, <2>7, <2>8, <2>10, TopicStep DEF Inv
  <1> QED
    BY <1>2, <1>3

LEMMA RemoveTopicStep ==
  ASSUME Inv, RemoveTopic
  PROVE  Inv' /\ ClaimNeverStolenStep
  <1>1. /\ present' = FALSE /\ state' = NewTopicState /\ link' = Dropped(Peers)
        /\ UNCHANGED <<conn, task>>
    BY DEF RemoveTopic
  <1>2. Keeps(state, state', NoId) /\ ProbesKept(state, state') /\ StateOK(state')
    BY <1>1, NewTopic DEF Keeps, ProbesKept
  <1>3. \A p \in Peers, m \in Msgs : state'.claims[<<p, m>>] = NoClaim
    BY <1>1, NewTopic DEF Keys
  <1>4. /\ link' \in [Tasks -> {"up", "lost", "dropped"}]
        /\ \A u \in Tasks : LinkKept(task[u], link[u], link'[u], state')
    BY <1>1, <1>3, LinksDropped
  <1> QED
    BY <1>1, <1>2, <1>4, TopicStep DEF Inv

-----------------------------------------------------------------------------
LEMMA Initially == Init => Inv
  <1> SUFFICES ASSUME Init PROVE Inv
    OBVIOUS
  <1>1. StateOK(state) /\ Resolved(state, task) /\ state = NewTopicState
    BY NewTopic DEF Init, Resolved
  <1>2. \A t \in Tasks : task[t] = Idle
    BY DEF Init
  <1> QED
    BY <1>1, <1>2 DEF Init, Inv, OwnTokens

LEMMA Steps == Inv /\ Next => Inv' /\ ClaimNeverStolenStep
  <1> SUFFICES ASSUME Inv, Next PROVE Inv' /\ ClaimNeverStolenStep
    OBVIOUS
  <1>1. ASSUME NEW t \in Tasks, Step(t) PROVE Inv' /\ ClaimNeverStolenStep
    BY <1>1, IwantClaimStep, ServeClaimStep, RetryClaimStep, Completions DEF Step
  <1>2. ASSUME NEW t \in Tasks, RetryDrop(t) \/ Cancel(t) PROVE Inv' /\ ClaimNeverStolenStep
    BY <1>2, RetryDropStep, CancelStep
  <1>3. ASSUME NEW t \in Tasks, NEW o \in Outcomes, ServeRefused(t, o)
        PROVE  Inv' /\ ClaimNeverStolenStep
    BY <1>3, ServeRefusedStep
  <1>4. ASSUME NEW t \in Tasks, NEW p \in Peers, SendClaim(t, p) \/ \E m \in Msgs : Iwant(t, p, m)
        PROVE  Inv' /\ ClaimNeverStolenStep
    BY <1>4, SendClaimStep, IwantStep
  <1>5. ASSUME NEW t \in Tasks, NEW e \in state.custody, RetryCheck(t, e)
        PROVE  Inv' /\ ClaimNeverStolenStep
    BY <1>5, RetryCheckStep
  <1>6. ASSUME NEW k \in Keys, ExpireClaim(k) PROVE Inv' /\ ClaimNeverStolenStep
    BY <1>6, ExpireClaimStep
  <1>7. ASSUME NEW p \in Peers, CooldownEnds(p) \/ Inbound(p) \/ CleanCooling(p)
                                 \/ Disconnect(p) \/ Reconnect(p)
        PROVE  Inv' /\ ClaimNeverStolenStep
    BY <1>7, CoolingStep, ConnectionStep
  <1>8. ASSUME NEW m \in Msgs, Cache(m) \/ Uncache(m) PROVE Inv' /\ ClaimNeverStolenStep
    BY <1>8, CacheStep
  <1>9. ASSUME NEW c \in SUBSET Peers, Refresh(c) \/ SetTopicPeers(c)
        PROVE  Inv' /\ ClaimNeverStolenStep
    BY <1>9, RefreshStep
  <1>10. CASE FlushTick
    BY <1>10, CacheStep
  <1>11. CASE RemoveTopic
    BY <1>11, RemoveTopicStep
  <1> QED
    BY ZenonT(60), <1>1, <1>2, <1>3, <1>4, <1>5, <1>6, <1>7, <1>8, <1>9, <1>10, <1>11 DEF Next

LEMMA Stutters == Inv /\ UNCHANGED vars => Inv'
  BY SMT DEF Inv, vars

\* ReplyInvariant holds in every reachable state, whatever the number of peers,
\* messages and tasks: a recovery probe in flight always has a reply claim or a
\* send that will resolve it, custody keeps one entry per request within its
\* cap, and a completion acts only on the claim of its own reply.
THEOREM InvariantTheorem == Spec => []ReplyInvariant
  <1>1. Init => Inv
    BY Initially
  <1>2. Inv /\ [Next]_vars => Inv'
    BY Steps, Stutters
  <1>3. Inv => ReplyInvariant
    BY SameInvariant
  <1> QED
    BY <1>1, <1>2, <1>3, PTL DEF Spec

-----------------------------------------------------------------------------
(* The action property. *)

\* Only its own completion or cancellation moves a send on.
LEMMA SendMoves ==
  ASSUME Inv, Next, NEW t \in Tasks, task[t].stage \in {"sending", "booking"}, task'[t] # task[t]
  PROVE  \/ ServeComplete(t) \/ RetryComplete(t) \/ SendComplete(t) \/ Cancel(t) \/ CancelBook(t)
  <1>0. task \in [Tasks -> Busy \union {Idle}] /\ task[t] # Idle
    BY SMT DEF Inv, Idle
  <1>1. task' # task
    OBVIOUS
  <1>2. ASSUME NEW u \in Tasks, NEW y, Proceed(u, y) PROVE u = t
    BY <1>0, <1>2 DEF Proceed
  <1>3. ASSUME NEW u \in Tasks, NEW o, NEW r, NEW y, Booked(u, o, r, y) PROVE u = t
    BY <1>0, <1>3 DEF Booked
  <1>4. ~(FlushTick \/ RemoveTopic \/ \E k \in Keys : ExpireClaim(k))
    BY <1>1 DEF FlushTick, RemoveTopic, ExpireClaim
  <1>5. ~(\E p \in Peers : CooldownEnds(p) \/ Inbound(p) \/ CleanCooling(p) \/ Disconnect(p)
                           \/ Reconnect(p))
    BY <1>1 DEF CooldownEnds, Inbound, CleanCooling, Disconnect, Reconnect
  <1>6. ~(\E m \in Msgs : Cache(m) \/ Uncache(m)) /\ ~(\E c \in SUBSET Peers : Refresh(c) \/ SetTopicPeers(c))
    BY <1>1 DEF Cache, Uncache, Refresh, SetTopicPeers
  <1>7. PICK u \in Tasks :
          \/ Step(u) \/ RetryDrop(u) \/ Cancel(u) \/ \E o \in Outcomes : ServeRefused(u, o)
          \/ \E p \in Peers : SendClaim(u, p) \/ \E m \in Msgs : Iwant(u, p, m)
          \/ \E e \in state.custody : RetryCheck(u, e)
    BY <1>4, <1>5, <1>6 DEF Next
  <1>8. ~(\E p \in Peers : SendClaim(u, p) \/ \E m \in Msgs : Iwant(u, p, m))
    <2>1. \A p \in Peers : ~SendClaim(u, p)
      BY <1>0, <1>2 DEF SendClaim
    <2>2. \A p \in Peers, m \in Msgs : ~Iwant(u, p, m)
      BY <1>0, <1>2 DEF Iwant
    <2> QED
      BY <2>1, <2>2
  <1>9. ~\E e \in state.custody : RetryCheck(u, e)
    BY <1>0, <1>2 DEF RetryCheck
  <1>10. ~RetryDrop(u) /\ ~\E o \in Outcomes : ServeRefused(u, o)
    BY <1>2 DEF RetryDrop, ServeRefused, At
  <1>11. ~IwantClaim(u)
    BY <1>2 DEF IwantClaim, At
  <1>12. ~ServeClaim(u)
    BY <1>2 DEF ServeClaim, At
  <1>13. ~RetryClaim(u)
    BY <1>2 DEF RetryClaim, At
  <1>14. ~ServeSettle(u)
    BY <1>3 DEF ServeSettle, At
  <1>15. ServeComplete(u) => u = t
    BY <1>3 DEF ServeComplete
  <1>16. RetryComplete(u) => u = t
    BY <1>3 DEF RetryComplete
  <1>17. SendComplete(u) => u = t
    BY <1>3 DEF SendComplete
  <1>18. Cancel(u) => u = t
    BY <1>2 DEF Cancel
  <1>19. CancelBook(u) => u = t
    BY <1>3 DEF CancelBook
  <1> QED
    BY ZenonT(60), <1>7, <1>8, <1>9, <1>10, <1>11, <1>12, <1>13, <1>14, <1>15, <1>16, <1>17,
       <1>18, <1>19
    DEF Step

LEMMA Spared == Inv /\ Next => SparesReconnectedStep
  <1> SUFFICES ASSUME Inv, Next, NEW t \in Tasks, task[t].stage \in {"sending", "booking"},
                      link[t] = "dropped", task'[t] # task[t]
               PROVE  /\ state'.members = state.members /\ state'.cool = state.cool
                      /\ state'.probe = state.probe /\ state'.claims = state.claims
    BY DEF SparesReconnectedStep, At
  <1>1. task[t] # Idle /\ ReplyOK(task[t], link[t], state) /\ StateOK(state)
    BY BusyTask DEF Inv
  <1>2. task[t].role # "send" /\ ~Current(state, task[t])
    BY <1>1 DEF ReplyOK
  <1>3. ASSUME NEW o, NEW r, NEW y, Booked(t, o, r, y)
        PROVE  /\ state'.members = state.members /\ state'.cool = state.cool
               /\ state'.probe = state.probe /\ state'.claims = state.claims
    <2>1. CASE ~present
      BY <1>3, <2>1 DEF Booked
    <2>2. CASE present
      <3>1. state' = [state EXCEPT !.custody = state.custody \ {task[t].own}]
        BY <1>2, <1>3, <2>2 DEF Booked, complete_eager_reply
      <3> QED
        BY SMTT(30), <3>1, <1>1, CustodyShrinks DEF CustodyStep, SameRecords
    <2> QED
      BY <2>1, <2>2
  <1>4. CASE Cancel(t)
    BY <1>4 DEF Cancel
  <1> QED
    BY <1>3, <1>4, SendMoves DEF ServeComplete, RetryComplete, SendComplete, CancelBook

LEMMA Coalesced == Inv /\ Next => CoalescedRequestKeptStep
  <1> SUFFICES ASSUME Inv, Next, NEW t \in Tasks, task[t] # Idle, task[t].role # "send", present,
                      Current(state, task[t]), state.claims[Key(task[t])].rerequested,
                      \/ task[t].stage = "booking" /\ task'[t] = Idle
                      \/ /\ task[t].stage = "sending" /\ task'[t].stage = "settling"
                         /\ task'[t].outcome # "Sent",
                      task[t].peer \in state'.members, Cardinality(state.custody) < MaxCustody
               PROVE  \E e \in state'.custody : Key(e) = Key(task[t])
    BY DEF CoalescedRequestKeptStep, At
  <1> DEFINE x == task[t]
  <1>1. /\ x \in Busy /\ TaskConsistent(x) /\ StateOK(state)
        /\ state.claims[Key(x)].probe = x.attempt.id
    BY DEF Inv, ReplyOK
  <1>2. task'[t] # task[t]
    OBVIOUS
  <1>3. ASSUME NEW o \in Outcomes, NEW r \in Results, NEW y, Booked(t, o, r, y), o # "Sent",
               x.attempt.kind = "RecoveryProbe" => r # "none"
        PROVE  \E e \in state'.custody : Key(e) = Key(x)
    <2>1. state' \in complete_eager_reply(state, x, o, r)
      BY <1>3 DEF Booked
    <2>2. x.role # "send" /\ Current(state, x)
      OBVIOUS
    <2>3. Requeued(state, state', x, o)
      <3> HIDE DEF x
      <3> QED
        BY <1>1, <1>3, <2>1, <2>2, ReplyCompleted
    <2> QED
      BY <1>3, <2>3 DEF Requeued
  <1>4. CASE task[t].stage = "booking"
    <2>1. ~ServeComplete(t) /\ ~RetryComplete(t) /\ ~SendComplete(t) /\ ~Cancel(t)
      BY <1>4 DEF ServeComplete, RetryComplete, SendComplete, Cancel, At
    <2>2. Booked(t, "Failed", "timed_out", Idle)
      BY <1>2, <1>4, <2>1, SendMoves DEF CancelBook
    <2> QED
      BY <2>2, <1>3 DEF Outcomes, Results
  <1>5. CASE task[t].stage = "sending" /\ task'[t].stage = "settling" /\ task'[t].outcome # "Sent"
    <2>0. task \in [Tasks -> Busy \union {Idle}]
      BY DEF Inv
    <2>1. \A o, r : ~Booked(t, o, r, Idle)
      BY SMTT(30), <1>5, <2>0 DEF Booked, Idle
    <2>2. ~CancelBook(t) /\ ~RetryComplete(t) /\ ~SendComplete(t)
      BY <2>1 DEF CancelBook, RetryComplete, SendComplete
    <2>3. ~Cancel(t)
      <3>1. ~Proceed(t, Idle)
        BY SMTT(30), <1>5, <2>0 DEF Proceed, Idle
      <3>2. ~Proceed(t, [x EXCEPT !.stage = "booking"])
        <4>1. [x EXCEPT !.stage = "booking"].stage = "booking"
          BY <1>1 DEF Busy
        <4> QED
          BY <4>1, <1>5, <2>0 DEF Proceed
      <3> QED
        BY <3>1, <3>2 DEF Cancel
    <2>4. PICK r \in ServeResults(x) :
            Booked(t, r[1], r[2], [x EXCEPT !.stage = "settling", !.outcome = r[1],
                                            !.attempt = NoAttempt])
      BY <1>2, <1>5, <2>2, <2>3, SendMoves DEF ServeComplete
    <2>5. /\ r[1] \in Outcomes /\ r[2] \in Results
          /\ x.attempt.kind = "RecoveryProbe" => r[2] # "none"
      BY SMTT(30) DEF ServeResults, ProbeTimeout, Outcomes, Results
    <2>6. task'[t].outcome = r[1]
      <3>1. task'[t] = [x EXCEPT !.stage = "settling", !.outcome = r[1], !.attempt = NoAttempt]
        BY <2>0, <2>4 DEF Booked
      <3> QED
        BY <3>1, <1>1 DEF Busy
    <2> QED
      BY <1>3, <1>5, <2>4, <2>5, <2>6
  <1> QED
    BY <1>4, <1>5

\* No step takes a claim over, touches through a stale completion the records
\* of a peer that is back, or loses a request coalesced into a reply that ends
\* unsent (complete_eager_reply, claim_eager_reply_for_iwant).
THEOREM ClaimsKeptTheorem == Spec => ClaimsKept
  <1>1. Init => Inv
    BY Initially
  <1>2. Inv /\ [Next]_vars => Inv'
    BY Steps, Stutters
  <1>3. Inv /\ [Next]_vars
        => [ClaimNeverStolenStep /\ SparesReconnectedStep /\ CoalescedRequestKeptStep]_vars
    BY Steps, Spared, Coalesced
  <1> QED
    BY <1>1, <1>2, <1>3, PTL DEF Spec, ClaimsKept
===============================================================================
