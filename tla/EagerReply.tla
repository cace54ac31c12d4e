----------------------------- MODULE EagerReply -----------------------------
(***************************************************************************)
(* The life of an IWANT reply on one topic of one node                     *)
(* (crates/pubsub/src/lib.rs), together with the recovery probe its send   *)
(* may carry.                                                              *)
(*                                                                         *)
(* A reply for k = <<requester, message>> is claimed, sent and completed   *)
(* in separate sections under the topic's write lock.  Between them run    *)
(* other serves of the same request, detached retries of deferred replies, *)
(* ordinary sends to the same peer, disconnect cleanup, the claim TTL,     *)
(* cache expiry and the removal of the topic.  One action is one section   *)
(* under the lock.                                                         *)
(*                                                                         *)
(* Time is abstracted: a claim may outlive its TTL, a cooldown may end and *)
(* a message may leave the cache at any moment.  Whether a claim gets its  *)
(* permit, byte reservation and admission is a free choice.                *)
(***************************************************************************)
EXTENDS Naturals, FiniteSets

CONSTANTS
  Peers,
  Msgs,
  Tasks,       \* bound: handlers and send tasks alive at one time
  Ids,         \* bound: tokens, custody ids and probe ids
  MaxCustody   \* MAX_DEFERRED_EAGER_REPLIES

ASSUME EagerReplyAssumption ==
  /\ Ids \subseteq Nat \ {0}
  /\ "none" \notin Msgs
  /\ MaxCustody \in Nat

VARIABLES
  present,   \* whether the topic map has the topic
  state,     \* its TopicState
  conn,      \* the peers the transport is connected to
  task       \* handlers and send tasks

\* What became of the connection to the peer of a task since the task claimed
\* its reply or send: the transport lost it, or the records of the peer were
\* dropped (by an eviction, by set_topic_peers or with the topic).
VARIABLE link

vars == <<present, state, conn, task, link>>

Keys == Peers \X Msgs
NoId == 0
NoMsg == "none"
NoClaim == [token |-> NoId]
NoEntry == [id |-> NoId]
NoAttempt == [kind |-> "None", id |-> NoId]

\* A TopicState: the members of its mesh, the suppression and the probe of
\* each peer, the messages in the cache that may be served, deferred_eager_replies
\* and eager_reply_claims.
NewTopicState ==
  [members |-> {},
   cool |-> [p \in Peers |-> "ok"],
   probe |-> [p \in Peers |-> NoId],
   cached |-> {},
   custody |-> {},
   claims |-> [k \in Keys |-> NoClaim]]

Attempts == [kind : {"None", "Normal", "CooldownBypass", "RecoveryProbe"},
             id : Ids \union {NoId}]
Entries == [id : Ids, peer : Peers, msg : Msgs]
Claims == [token : Ids, rerequested : BOOLEAN, probe : Ids \union {NoId}]
States ==
  [members : SUBSET Peers,
   cool : [Peers -> {"ok", "active", "expired"}],
   probe : [Peers -> Ids \union {NoId}],
   cached : SUBSET Msgs,
   custody : SUBSET Entries,
   claims : [Keys -> Claims \union {NoClaim}]]

Idle == [stage |-> "idle"]
Outcomes == {"Sent", "Deferred", "Failed"}
Busy ==
  [stage : {"collected", "claimed", "checked", "sending", "booking", "settling"},
   role : {"serve", "retry", "send"},
   peer : Peers,
   msg : Msgs \union {NoMsg},
   token : Ids \union {NoId},
   own : Entries \union {NoEntry},
   attempt : Attempts,
   outcome : Outcomes]

Init ==
  /\ present = FALSE
  /\ state = NewTopicState
  /\ conn = Peers
  /\ task = [t \in Tasks |-> Idle]
  /\ link = [t \in Tasks |-> "up"]

At(t, stages) == task[t].stage \in stages
Key(x) == <<x.peer, x.msg>>
-----------------------------------------------------------------------------
(* Ids are never reused.  An id that nothing refers to any more cannot be  *)
(* told from a new one, so the smallest such id is taken; a step that      *)
(* needs an id waits for one.                                              *)

Fresh(used) == {i \in Ids \ used : \A j \in Ids \ used : i <= j}

BusyTasks == {t \in Tasks : task[t] # Idle}

FreshTokens ==
  Fresh({state.claims[k].token : k \in Keys} \union {task[t].token : t \in BusyTasks})
FreshCustodyIds(s) ==
  Fresh({e.id : e \in s.custody} \union {task[t].own.id : t \in BusyTasks})
FreshProbes ==
  Fresh({state.probe[p] : p \in Peers}
        \union {task[t].attempt.id : t \in BusyTasks}
        \union {state.claims[k].probe : k \in {j \in Keys : state.claims[j] # NoClaim}})
-----------------------------------------------------------------------------
(* Custody and claims: methods of TopicState. *)

prune_deferred_eager_replies(s) ==
  [s EXCEPT !.custody = {e \in @ : e.msg \in s.cached}]

\* Mutant: the request is queued without looking for its entry.
RetainTwice(s, k) ==
  LET q == prune_deferred_eager_replies(s)
  IN IF Cardinality(q.custody) >= MaxCustody
     THEN {q}
     ELSE {[q EXCEPT !.custody = @ \union {[id |-> i, peer |-> k[1], msg |-> k[2]]}] :
             i \in FreshCustodyIds(q)}

\* The states it may lead to, which differ in the id of the new entry.
retain_deferred_eager_reply(s, k) ==
  LET q == prune_deferred_eager_replies(s)
  IN IF \/ \E e \in q.custody : Key(e) = k
        \/ Cardinality(q.custody) >= MaxCustody
     THEN {q}
     ELSE {[q EXCEPT !.custody = @ \union {[id |-> i, peer |-> k[1], msg |-> k[2]]}] :
             i \in FreshCustodyIds(q)}

insert_eager_reply_claim(s, k, token) ==
  [s EXCEPT !.claims[k] = [token |-> token, rerequested |-> FALSE, probe |-> NoId]]

eager_reply_claimed(s, k) == s.claims[k] # NoClaim

attach_probe_to_eager_reply_claim(s, k, token, attempt) ==
  IF attempt.kind = "RecoveryProbe" /\ s.claims[k].token = token
  THEN [s EXCEPT !.claims[k] = [token |-> token, rerequested |-> @.rerequested,
                                probe |-> attempt.id]]
  ELSE s

drop_eager_reply_records_for_peer(s, p) ==
  [s EXCEPT !.custody = {e \in @ : e.peer # p},
            !.claims = [k \in Keys |-> IF k[1] = p THEN NoClaim ELSE @[k]]]

abandon_unsent_recovery_probe(s, p, i) ==
  IF s.probe[p] = i THEN [s EXCEPT !.probe[p] = NoId] ELSE s

\* Mutant: any claim of the key will do.
CurrentAnyToken(s, x) == eager_reply_claimed(s, Key(x))

\* A completion is current while the claim of its key carries its token.
Current(s, x) == eager_reply_claimed(s, Key(x)) /\ s.claims[Key(x)].token = x.token

\* Mutant: a request repeated while the reply was in flight is forgotten.
ApplyForgetting(s, x, outcome, rerequested) ==
  LET others == [s EXCEPT !.custody = @ \ {x.own}]
  IN CASE outcome = "Sent" -> {[s EXCEPT !.custody = {e \in @ : Key(e) # Key(x)}]}
       [] outcome = "Deferred" -> retain_deferred_eager_reply(s, Key(x))
       [] outcome = "Failed" -> {others}

apply_eager_reply_outcome(s, x, outcome, rerequested) ==
  LET others == [s EXCEPT !.custody = @ \ {x.own}]
  IN CASE outcome = "Sent" -> {[s EXCEPT !.custody = {e \in @ : Key(e) # Key(x)}]}
       [] outcome = "Deferred" -> retain_deferred_eager_reply(s, Key(x))
       [] outcome = "Failed" /\ rerequested -> retain_deferred_eager_reply(others, Key(x))
       [] outcome = "Failed" /\ ~rerequested -> {others}
-----------------------------------------------------------------------------
(* Cooling: what a send attempt does to the suppression of its peer.  The  *)
(* timeouts counted towards the threshold, the health of the peer and the  *)
(* floor that may forbid a suppression are a free choice here.             *)

evict_not_connected_peer(s, p) ==
  LET q == drop_eager_reply_records_for_peer(s, p)
  IN [q EXCEPT !.members = @ \ {p}, !.cool[p] = "ok", !.probe[p] = NoId]

record_send_success(s, p, attempt) ==
  IF attempt.kind = "RecoveryProbe" /\ s.probe[p] = attempt.id
  THEN [s EXCEPT !.cool[p] = "ok", !.probe[p] = NoId]
  ELSE s

\* Mutant: the probe stays in flight.
SuppressKeepsProbe(s, p) == [s EXCEPT !.cool[p] = "active"]

Suppress(s, p) == [s EXCEPT !.cool[p] = "active", !.probe[p] = NoId]

\* The states a timeout may lead to.
record_send_timeout(s, p, attempt) ==
  IF attempt.kind = "RecoveryProbe"
  THEN {IF s.probe[p] = attempt.id THEN Suppress(s, p) ELSE s}
  ELSE IF attempt.kind = "Normal" /\ s.cool[p] = "ok"
  THEN {s, Suppress(s, p)}
  ELSE {s}

book_topic_send_attempt_results(s, p, attempt, result) ==
  CASE result = "sent" -> {record_send_success(s, p, attempt)}
    [] result = "not_connected" -> {evict_not_connected_peer(s, p)}
    [] result = "timed_out" -> record_send_timeout(s, p, attempt)
    [] result = "none" -> {s}

\* The lifecycle gate, the outcome and the transport results, under one lock.
complete_eager_reply(s, x, outcome, result) ==
  IF Current(s, x)
  THEN LET released == [s EXCEPT !.claims[Key(x)] = NoClaim]
           settled == apply_eager_reply_outcome(released, x, outcome,
                                                s.claims[Key(x)].rerequested)
       IN UNION {book_topic_send_attempt_results(q, x.peer, x.attempt, result) : q \in settled}
  ELSE {[s EXCEPT !.custody = @ \ {x.own}]}

\* claim_send_attempt_at_for: the attempts a send to p may be granted.  Only
\* critical data passes a suppression as an ordinary attempt.
Grants(s, p) ==
  IF s.cool[p] = "active"
  THEN {NoAttempt, [NoAttempt EXCEPT !.kind = "Normal"],
        [NoAttempt EXCEPT !.kind = "CooldownBypass"]}
  ELSE IF s.cool[p] = "expired" /\ s.probe[p] = NoId
  THEN {NoAttempt} \union {[kind |-> "RecoveryProbe", id |-> i] : i \in FreshProbes}
  ELSE {NoAttempt, [NoAttempt EXCEPT !.kind = "Normal"]}

\* A probe is armed when it is claimed; without a permit it is abandoned.
Arm(s, p, attempt) ==
  IF attempt.kind = "RecoveryProbe" THEN [s EXCEPT !.probe[p] = attempt.id] ELSE s
-----------------------------------------------------------------------------
Linked == {"claimed", "sending", "booking"}

\* t goes on as x.  The link of a task matters from its claim to its completion.
Proceed(t, x) ==
  /\ task' = [task EXCEPT ![t] = x]
  /\ link' = [link EXCEPT ![t] = IF x.stage \in Linked /\ At(t, Linked) THEN @
                                 ELSE IF x.stage \in Linked /\ x.peer \notin conn THEN "lost"
                                 ELSE "up"]

\* The records of the peers ps are dropped.
Dropped(ps) ==
  [t \in Tasks |-> IF At(t, Linked) /\ task[t].role # "send" /\ task[t].peer \in ps
                   THEN "dropped" ELSE link[t]]

New(role, p, m, stage) ==
  [stage |-> stage, role |-> role, peer |-> p, msg |-> m, token |-> NoId,
   own |-> NoEntry, attempt |-> NoAttempt, outcome |-> "Failed"]

(* An IWANT serve. *)

\* The message is read from the cache and the requester, which may be gone by
\* now, joins the mesh.
Iwant(t, p, m) ==
  /\ task[t] = Idle
  /\ present /\ m \in state.cached
  /\ state' = [state EXCEPT !.members = @ \union {p}]
  /\ Proceed(t, New("serve", p, m, "collected"))
  /\ UNCHANGED <<present, conn>>

\* claim_eager_reply_for_iwant: a reply in flight takes the request over.
IwantClaim(t) ==
  LET x == task[t]
  IN /\ At(t, {"collected"})
     /\ \/ /\ ~present
           /\ UNCHANGED state
           /\ Proceed(t, Idle)
        \/ /\ present /\ eager_reply_claimed(state, Key(x))
           /\ state' = [state EXCEPT !.claims[Key(x)] =
                [token |-> @.token, rerequested |-> TRUE, probe |-> @.probe]]
           /\ Proceed(t, Idle)
        \/ /\ present /\ ~eager_reply_claimed(state, Key(x))
           /\ \E token \in FreshTokens :
                /\ state' = insert_eager_reply_claim(state, Key(x), token)
                /\ Proceed(t, [x EXCEPT !.stage = "claimed", !.token = token])
     /\ UNCHANGED <<present, conn>>

\* The reply is refused before its send is claimed: an oversized or suspect
\* payload fails, a missing byte reservation or admission defers.
ServeRefused(t, outcome) ==
  /\ At(t, {"claimed"})
  /\ outcome \in {"Deferred", "Failed"}
  /\ Proceed(t, [task[t] EXCEPT !.stage = "settling", !.outcome = outcome])
  /\ UNCHANGED <<present, state, conn>>

\* Mutant: the claim is not looked at again.
ServeGrantsUnchecked(x) == Grants(state, x.peer)

\* claim_topic_send_attempts_for_reply: a reply that lost its claim arms
\* nothing.
ServeGrants(x) == IF Current(state, x) THEN Grants(state, x.peer) ELSE {NoAttempt}

ServeClaim(t) ==
  LET x == task[t]
  IN /\ At(t, {"claimed"})
     /\ \E a \in ServeGrants(x) :
          /\ state' = attach_probe_to_eager_reply_claim(Arm(state, x.peer, a),
                                                        Key(x), x.token, a)
          /\ Proceed(t, IF a = NoAttempt
                      THEN [x EXCEPT !.stage = "settling", !.outcome = "Deferred"]
                      ELSE [x EXCEPT !.stage = "sending", !.attempt = a])
     /\ UNCHANGED <<present, conn>>

\* What the transport reports of the send of x, and the outcome it is for the
\* reply.
ProbeTimeout(x) == IF x.attempt.kind = "RecoveryProbe" THEN "timed_out" ELSE "none"

ServeResults(x) ==
  {<<"Sent", "sent">>, <<"Failed", "timed_out">>, <<"Failed", "not_connected">>,
   <<"Deferred", ProbeTimeout(x)>>, <<"Failed", ProbeTimeout(x)>>}

\* The transport finds a peer not connected only if it was away meanwhile.
Observable(t, result) == result = "not_connected" => link[t] # "up"

\* A send that is not a reply books its results whatever happened meanwhile.
Books(x) == x.role = "send" \/ Current(state, x)

\* The completion of t, which goes on as y; an eviction is a cleanup too.
Booked(t, outcome, result, y) ==
  LET x == task[t]
      evicts == present /\ Books(x) /\ result = "not_connected"
  IN /\ Observable(t, result)
     /\ IF ~present THEN UNCHANGED state
        ELSE IF x.role = "send"
        THEN state' \in book_topic_send_attempt_results(state, x.peer, x.attempt, result)
        ELSE state' \in complete_eager_reply(state, x, outcome, result)
     /\ task' = [task EXCEPT ![t] = y]
     /\ link' = [(IF evicts THEN Dropped({x.peer}) ELSE link) EXCEPT ![t] = "up"]

\* The send completes the reply, and the handler presents it again.
ServeComplete(t) ==
  LET x == task[t]
  IN /\ At(t, {"sending"}) /\ x.role = "serve"
     /\ \E r \in ServeResults(x) :
          Booked(t, r[1], r[2], [x EXCEPT !.stage = "settling", !.outcome = r[1],
                                          !.attempt = NoAttempt])
     /\ UNCHANGED <<present, conn>>

\* settle_eager_reply
ServeSettle(t) ==
  LET x == task[t]
  IN /\ At(t, {"settling"})
     /\ Booked(t, x.outcome, "none", Idle)
     /\ UNCHANGED <<present, conn>>
-----------------------------------------------------------------------------
(* A detached retry of a deferred reply: flush_deferred_eager_replies. *)

\* The one flusher re-reads custody and cache under the lock, then signs without it.
RetryCheck(t, e) ==
  LET s == prune_deferred_eager_replies(state)
  IN /\ task[t] = Idle /\ ~\E u \in Tasks : At(u, {"checked"})
     /\ present /\ e \in s.custody /\ ~eager_reply_claimed(s, Key(e))
     /\ state' = s
     /\ Proceed(t, [New("retry", e.peer, e.msg, "checked") EXCEPT !.own = e])
     /\ UNCHANGED <<present, conn>>

\* The frame cannot be built: the entry is dropped.
RetryDrop(t) ==
  /\ At(t, {"checked"})
  /\ state' = [state EXCEPT !.custody = @ \ {task[t].own}]
  /\ Proceed(t, Idle)
  /\ UNCHANGED <<present, conn>>

\* Mutant: the reply claim is not looked at again.
RetryGrantsUnchecked(x) == IF present THEN Grants(state, x.peer) ELSE {NoAttempt}

RetryGrants(x) ==
  IF present /\ ~eager_reply_claimed(state, Key(x))
  THEN Grants(state, x.peer) ELSE {NoAttempt}

\* The reply claim and the send attempt are taken under one lock.
RetryClaim(t) ==
  LET x == task[t]
      Claimed(a, token) == attach_probe_to_eager_reply_claim(
                      insert_eager_reply_claim(Arm(state, x.peer, a), Key(x), token),
                      Key(x), token, a)
  IN /\ At(t, {"checked"})
     /\ \E a \in RetryGrants(x) :
          IF a = NoAttempt
          THEN UNCHANGED state /\ Proceed(t, Idle)
          ELSE \E token \in FreshTokens :
                 /\ state' = Claimed(a, token)
                 /\ Proceed(t, [x EXCEPT !.stage = "sending", !.token = token, !.attempt = a])
     /\ UNCHANGED <<present, conn>>

RetryResults(x) ==
  {<<"Sent", "sent">>, <<"Failed", "timed_out">>, <<"Failed", "not_connected">>}
  \union IF x.attempt.kind = "RecoveryProbe" THEN {} ELSE {<<"Deferred", "none">>}

RetryComplete(t) ==
  LET x == task[t]
  IN /\ At(t, {"sending"}) /\ x.role = "retry"
     /\ \E r \in RetryResults(x) : Booked(t, r[1], r[2], Idle)
     /\ UNCHANGED <<present, conn>>
-----------------------------------------------------------------------------
(* Sends that are not replies: publish and forward fan-out, IHAVE, IWANT.  *)

\* Without the topic there is no cooling to consult.
SendClaim(t, p) ==
  /\ task[t] = Idle
  /\ \E a \in (IF present THEN Grants(state, p) ELSE {[NoAttempt EXCEPT !.kind = "Normal"]})
             \ {NoAttempt} :
       /\ state' = Arm(state, p, a)
       /\ Proceed(t, [New("send", p, NoMsg, "sending") EXCEPT !.attempt = a])
  /\ UNCHANGED <<present, conn>>

SendComplete(t) ==
  LET x == task[t]
  IN /\ At(t, {"sending"}) /\ x.role = "send"
     /\ \E r \in {"sent", "timed_out", "not_connected", ProbeTimeout(x)} :
          Booked(t, "Failed", r, Idle)
     /\ UNCHANGED <<present, conn>>

(* Cancellation: the future of a handler or a send is dropped. *)

\* SendAttemptClaims::drop books a probe from a task of its own.
Cancel(t) ==
  /\ At(t, {"collected", "claimed", "checked", "sending", "settling"})
  /\ IF At(t, {"sending"}) /\ task[t].attempt.kind = "RecoveryProbe"
     THEN Proceed(t, [task[t] EXCEPT !.stage = "booking"])
     ELSE Proceed(t, Idle)
  /\ UNCHANGED <<present, state, conn>>

CancelBook(t) ==
  /\ At(t, {"booking"})
  /\ Booked(t, "Failed", "timed_out", Idle)
  /\ UNCHANGED <<present, conn>>
-----------------------------------------------------------------------------
(* What else happens to the topic. *)

\* prune_eager_reply_claims: a claim past its TTL goes, and its probe with it.
ExpireClaim(k) ==
  LET c == state.claims[k]
      s == [state EXCEPT !.claims[k] = NoClaim]
  IN /\ eager_reply_claimed(state, k)
     /\ state' = IF c.probe = NoId THEN s ELSE abandon_unsent_recovery_probe(s, k[1], c.probe)
     /\ UNCHANGED <<present, conn, task, link>>

CooldownEnds(p) ==
  /\ state.cool[p] = "active"
  /\ state' = [state EXCEPT !.cool[p] = "expired"]
  /\ UNCHANGED <<present, conn, task, link>>

\* A verified message of p, which may be gone by now: record_inbound_peer_activity_at.
Inbound(p) ==
  /\ present' = TRUE
  /\ state' = [state EXCEPT !.cool[p] = "ok", !.probe[p] = NoId]
  /\ UNCHANGED <<conn, task, link>>

\* prune_churned_peer_state, clean_expired_peer_cooling
CleanCooling(p) ==
  /\ p \notin state.members /\ state.cool[p] = "expired" /\ state.probe[p] = NoId
  /\ state' = [state EXCEPT !.cool[p] = "ok"]
  /\ UNCHANGED <<present, conn, task, link>>

Cache(m) ==
  /\ present' = TRUE
  /\ state' = [state EXCEPT !.cached = @ \union {m}]
  /\ UNCHANGED <<conn, task, link>>

\* A message leaves the cache, or the validator drops it.
Uncache(m) ==
  /\ m \in state.cached
  /\ state' = [state EXCEPT !.cached = @ \ {m}]
  /\ UNCHANGED <<present, conn, task, link>>

\* The flush tick prunes custody.
FlushTick ==
  /\ present
  /\ state' = prune_deferred_eager_replies(state)
  /\ UNCHANGED <<present, conn, task, link>>

Disconnect(p) ==
  /\ p \in conn
  /\ conn' = conn \ {p}
  /\ link' = [t \in Tasks |-> IF At(t, Linked) /\ task[t].peer = p /\ link[t] = "up"
                              THEN "lost" ELSE link[t]]
  /\ UNCHANGED <<present, state, task>>

Reconnect(p) ==
  /\ p \notin conn
  /\ conn' = conn \union {p}
  /\ UNCHANGED <<present, state, task, link>>

\* Cooling of the peers outside c is forgotten: clear_disconnected_peer_cooling.
ClearDisconnected(s, c) ==
  [s EXCEPT !.cool = [p \in Peers |-> IF p \in c THEN @[p] ELSE "ok"],
            !.probe = [p \in Peers |-> IF p \in c THEN @[p] ELSE NoId]]

\* refresh_connected_peers_snapshot_once.  The connected peers c were read
\* before the lock was taken and may be out of date.
Refresh(c) ==
  /\ present
  /\ state' = ClearDisconnected([state EXCEPT !.members = @ \intersect c], c)
  /\ UNCHANGED <<present, conn, task, link>>

\* set_topic_peers, with the peers c the caller believes connected.
SetTopicPeers(c) ==
  /\ present' = TRUE
  /\ state' = ClearDisconnected(
                [state EXCEPT
                   !.members = c,
                   !.custody = {e \in @ : e.peer \in c},
                   !.claims = [k \in Keys |-> IF k[1] \in c THEN @[k] ELSE NoClaim]], c)
  /\ link' = Dropped(Peers \ c)
  /\ UNCHANGED <<conn, task>>

\* Mutant: the records outlive the topic.
RemoveTopicOnly ==
  /\ present
  /\ present' = FALSE
  /\ link' = Dropped(Peers)
  /\ UNCHANGED <<state, conn, task>>

\* unsubscribe, or the reaper of idle topics
RemoveTopic ==
  /\ present
  /\ present' = FALSE
  /\ state' = NewTopicState
  /\ link' = Dropped(Peers)
  /\ UNCHANGED <<conn, task>>
-----------------------------------------------------------------------------
Step(t) ==
  \/ IwantClaim(t) \/ ServeClaim(t) \/ ServeComplete(t) \/ ServeSettle(t)
  \/ RetryClaim(t) \/ RetryComplete(t) \/ SendComplete(t) \/ CancelBook(t)

Next ==
  \/ \E t \in Tasks :
       \/ Step(t) \/ RetryDrop(t) \/ Cancel(t)
       \/ \E o \in Outcomes : ServeRefused(t, o)
       \/ \E p \in Peers : SendClaim(t, p) \/ \E m \in Msgs : Iwant(t, p, m)
       \/ \E e \in state.custody : RetryCheck(t, e)
  \/ \E k \in Keys : ExpireClaim(k)
  \/ \E p \in Peers :
       CooldownEnds(p) \/ Inbound(p) \/ CleanCooling(p) \/ Disconnect(p) \/ Reconnect(p)
  \/ \E m \in Msgs : Cache(m) \/ Uncache(m)
  \/ \E c \in SUBSET Peers : Refresh(c) \/ SetTopicPeers(c)
  \/ FlushTick \/ RemoveTopic

Spec == Init /\ [][Next]_vars
-----------------------------------------------------------------------------
\* Every variable has its type; without the topic there is no state of it.
TypeOK ==
  /\ present \in BOOLEAN
  /\ state \in States
  /\ conn \in SUBSET Peers
  /\ task \in [Tasks -> Busy \union {Idle}]
  /\ link \in [Tasks -> {"up", "lost", "dropped"}]
  /\ ~present => state = NewTopicState

\* Somebody will resolve the recovery probe i of p: the claim of the reply that
\* carries it, or the ordinary send that carries it.
Resolver(p, i) ==
  \/ \E m \in Msgs : /\ eager_reply_claimed(state, <<p, m>>)
                     /\ state.claims[<<p, m>>].probe = i
  \/ \E t \in Tasks : /\ At(t, {"sending", "booking"}) /\ task[t].role = "send"
                      /\ task[t].peer = p /\ task[t].attempt.id = i

\* A recovery probe in flight always has a resolver.  recovery_probe_in_flight
\* blocks every further claim for the peer, so a probe whose only completion is
\* stale, cancelled or lost would suppress the peer for good.
ProbeResolvable ==
  \A p \in Peers : state.probe[p] # NoId => Resolver(p, state.probe[p])

\* A probe is in flight only after the cooldown has ended: every path that
\* suppresses a peer again takes the probe away (claim_send_attempt_at_for).
ProbeAfterCooldown ==
  \A p \in Peers : state.probe[p] # NoId => state.cool[p] = "expired"

\* Custody holds one entry per requester and message, and no more than its cap.
CustodyUnique ==
  /\ \A e, f \in state.custody : Key(e) = Key(f) => e = f
  /\ IsFiniteSet(state.custody) /\ Cardinality(state.custody) <= MaxCustody

\* What the fields of a task are at each stage.
TaskConsistent(x) ==
  /\ (x.role = "send") = (x.msg = NoMsg)
  /\ x.role = "send" => x.stage \in {"sending", "booking"} /\ x.token = NoId
  /\ x.role = "retry" => x.stage \in {"checked", "sending", "booking"}
  /\ x.role = "serve" => x.stage # "checked"
  /\ x.role # "send" => (x.token = NoId) = (x.stage \in {"collected", "checked"})
  /\ (x.attempt.kind = "RecoveryProbe") = (x.attempt.id # NoId)
  /\ x.stage \in {"collected", "claimed", "checked", "settling"} => x.attempt = NoAttempt
  /\ x.stage = "booking" => x.attempt.kind = "RecoveryProbe"

\* A reply that is still current carries the probe its claim records, and a
\* reply whose records were dropped is not current; sends have no such records.
ReplyConsistent(t) ==
  /\ TaskConsistent(task[t])
  /\ task[t].role = "send" => link[t] # "dropped"
  /\ task[t].role # "send" /\ Current(state, task[t]) =>
       /\ state.claims[Key(task[t])].probe = task[t].attempt.id
       /\ link[t] # "dropped"

\* The inductive invariant: the three facts above, and that no two tasks hold
\* one token, so that a completion releases the claim and the probe of its own
\* reply and no other (claim_eager_reply_for_iwant, complete_eager_reply,
\* attach_probe_to_eager_reply_claim).
ReplyInvariant ==
  /\ TypeOK
  /\ ProbeResolvable /\ ProbeAfterCooldown /\ CustodyUnique
  /\ \A t \in BusyTasks : ReplyConsistent(t)
  /\ \A t, u \in BusyTasks : task[t].token # NoId /\ task[t].token = task[u].token => t = u

\* A claim is never taken over: until it is released the key keeps its token,
\* so no second reply for the same request is sent while one is in flight.
ClaimNeverStolenStep ==
  \A k \in Keys : eager_reply_claimed(state, k) /\ eager_reply_claimed(state', k)
                    => state.claims[k].token = state'.claims[k].token

\* The completion of a reply whose records went with an eviction, a membership
\* refresh or the topic itself touches neither the mesh, the cooling nor the
\* claims of the peer, which may be back with a newer request.
SparesReconnectedStep ==
  \A t \in Tasks :
    At(t, {"sending", "booking"}) /\ link[t] = "dropped" /\ task'[t] # task[t]
    => /\ state'.members = state.members /\ state'.cool = state.cool
       /\ state'.probe = state.probe /\ state'.claims = state.claims

\* A request that was coalesced into a reply in flight goes back to custody when
\* that reply is deferred, fails or is cancelled, as long as the message is in
\* the cache, custody has room and the peer stays.
CoalescedRequestKeptStep ==
  \A t \in Tasks :
    (/\ task[t] # Idle /\ task[t].role # "send" /\ present
     /\ Current(state, task[t]) /\ state.claims[Key(task[t])].rerequested
     /\ \/ At(t, {"booking"}) /\ task'[t] = Idle
        \/ At(t, {"sending"}) /\ task'[t].stage = "settling" /\ task'[t].outcome # "Sent"
     /\ task[t].peer \in state.members \intersect state'.members
     /\ task[t].msg \in state.cached /\ Cardinality(state.custody) < MaxCustody)
    => \E e \in state'.custody : Key(e) = Key(task[t])

\* Claims are neither stolen nor, with the requests coalesced into them, lost,
\* and a stale completion spares the peer that is back (complete_eager_reply).
ClaimsKept ==
  [][ClaimNeverStolenStep /\ SparesReconnectedStep /\ CoalescedRequestKeptStep]_vars
=============================================================================
