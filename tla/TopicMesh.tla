----------------------------- MODULE TopicMesh -----------------------------
(***************************************************************************)
(* The peers of one topic at one node (TopicState in                       *)
(* crates/pubsub/src/lib.rs): eager and lazy sets, send-side cooling with  *)
(* recovery probes, peer preferences and degree maintenance.               *)
(*                                                                         *)
(* One action is one section of code under the topic's write lock.  Scores *)
(* are two levels, below PEER_SCORE_EAGER_MIN and at least it, and peers   *)
(* of one level may be ordered either way.  Instants are left out: a       *)
(* cooldown, a timeout window and the interval between opportunistic       *)
(* grafts may end at any moment.  Who holds which probe is in module       *)
(* EagerReply; here a probe is in flight or not.                           *)
(***************************************************************************)
EXTENDS Naturals, Sequences, FiniteSets, SequencesExt

CONSTANTS
  Peers,
  Connected,     \* sets of peers the transport may report
  MinDegree,     \* MIN_EAGER_DEGREE
  Ceilings,      \* arguments of set_eager_degree_ceiling
  MaxPreferred,  \* MAX_PREFERRED_EAGER_PEERS
  Threshold      \* PEER_TIMEOUT_THRESHOLD

VARIABLES
  state,         \* the TopicState
  subscribed     \* whether a local subscriber is alive

vars == <<state, subscribed>>

Members(s) == s.eager \union s.lazy

\* Distinct peers, in the caller's order, cut at MAX_PREFERRED_EAGER_PEERS.
Preferences ==
  {q \in UNION {[1..k -> Peers] : k \in 0..MaxPreferred} : IsInjective(q)}

\* What peer_cooling says of a peer: no suppression, a running cooldown, one
\* that ended, a probe in flight.
Cooling == {"clear", "cooling", "expired", "probing"}

TypeOK ==
  /\ state \in [eager : SUBSET Peers, lazy : SUBSET Peers,
                preferred : Preferences, configured : Ceilings,
                cooling : [Peers -> Cooling],
                timeouts : [Peers -> 0..Threshold - 1],
                score : [Peers -> {0, 1}]]
  /\ state.eager \intersect state.lazy = {}
  /\ subscribed \in BOOLEAN

new_topic_state(ceiling) ==
  [eager |-> {}, lazy |-> {}, preferred |-> <<>>, configured |-> ceiling,
   cooling |-> [p \in Peers |-> "clear"],
   timeouts |-> [p \in Peers |-> 0],
   score |-> [p \in Peers |-> 1]]

Init ==
  /\ \E c \in Ceilings : state = new_topic_state(c)
  /\ subscribed = FALSE
-----------------------------------------------------------------------------
(* Reading the state. *)

is_suppressed(s, p) == s.cooling[p] # "clear"
is_score_eligible_for_eager(s, p) == ~is_suppressed(s, p) /\ s.score[p] = 1

refresh_preferred_eager_ceiling(s) ==
  IF s.configured >= Len(s.preferred) THEN s.configured ELSE Len(s.preferred)

Target(s) ==
  IF MinDegree <= refresh_preferred_eager_ceiling(s)
  THEN MinDegree ELSE refresh_preferred_eager_ceiling(s)

is_healthy_preferred(s, p) ==
  p \in Range(s.preferred) /\ is_score_eligible_for_eager(s, p)

\* The k peers of a set with the lowest, or highest, scores, ties broken anyhow.
Picks(k, S, Before(_, _)) ==
  {D \in SUBSET S :
     /\ Cardinality(D) = IF k <= Cardinality(S) THEN k ELSE Cardinality(S)
     /\ \A d \in D, e \in S \ D : Before(d, e)}
Lowest(s, k, S) == LET before(d, e) == s.score[d] <= s.score[e] IN Picks(k, S, before)
Highest(s, k, S) == LET before(d, e) == s.score[d] >= s.score[e] IN Picks(k, S, before)
-----------------------------------------------------------------------------
(* Moving peers.  Where scores decide, an operator returns the set of states *)
(* it may lead to.                                                           *)

Demoted(s, D) == [s EXCEPT !.eager = @ \ D, !.lazy = @ \union D]

prune_peer(s, p) == Demoted(s, {p} \intersect s.eager)

graft_peer(s, p) ==
  IF /\ Cardinality(s.eager) < refresh_preferred_eager_ceiling(s)
     /\ ~is_suppressed(s, p)
     /\ p \in s.lazy
  THEN [s EXCEPT !.eager = @ \union {p}, !.lazy = @ \ {p}]
  ELSE s

graft_peers(s, G) == FoldLeft(graft_peer, s, SetToSeq(G))

RECURSIVE maintain_degree(_)

\* A graft that fails although a peer was displaced: maintenance goes on with
\* what is left, and tries the preferred peers again.
GraftOrMaintain(s, p) ==
  IF graft_peer(s, p) # s THEN {graft_peer(s, p)} ELSE maintain_degree(s)

\* Mutant: any eager peer may be displaced.
PreferDisplacingAny(s, p) ==
  CASE ~(p \in s.lazy /\ is_score_eligible_for_eager(s, p)) -> {s}
    [] Cardinality(s.eager) < refresh_preferred_eager_ceiling(s) -> {graft_peer(s, p)}
    [] OTHER -> UNION {GraftOrMaintain(Demoted(s, D), p) : D \in Lowest(s, 1, s.eager)}

\* Mutant: a failed graft is left at that.
PreferOnce(s, p) ==
  LET others == {q \in s.eager : ~is_healthy_preferred(s, q)}
  IN CASE ~(p \in s.lazy /\ is_score_eligible_for_eager(s, p)) -> {s}
       [] Cardinality(s.eager) < refresh_preferred_eager_ceiling(s) -> {graft_peer(s, p)}
       [] others = {} -> {s}
       [] OTHER -> {graft_peer(Demoted(s, D), p) : D \in Lowest(s, 1, others)}

\* One peer makes room.  When the ceiling was lowered by more than one, the
\* graft still fails, and the maintenance it starts displaces the others.
prefer_eager_peer(s, p) ==
  LET others == {q \in s.eager : ~is_healthy_preferred(s, q)}
  IN CASE ~(p \in s.lazy /\ is_score_eligible_for_eager(s, p)) -> {s}
       [] Cardinality(s.eager) < refresh_preferred_eager_ceiling(s) -> {graft_peer(s, p)}
       [] others = {} -> {s}
       [] OTHER -> UNION {GraftOrMaintain(Demoted(s, D), p) : D \in Lowest(s, 1, others)}

\* Each preferred peer in turn: an unhealthy eager one is demoted, the others
\* are preferred.
apply_preferred_eager(s) ==
  LET step(S, p) ==
        UNION {IF p \in t.eager /\ ~is_score_eligible_for_eager(t, p)
               THEN {prune_peer(t, p)} ELSE prefer_eager_peer(t, p) : t \in S}
  IN FoldLeft(step, {s}, s.preferred)

\* Mutant: the excess is one short.
ShrinkOffByOne(s) ==
  IF Cardinality(s.eager) <= refresh_preferred_eager_ceiling(s) + 1 THEN {s}
  ELSE {Demoted(s, D) : D \in Lowest(s,
         Cardinality(s.eager) - refresh_preferred_eager_ceiling(s) - 1, s.eager)}

\* Above the ceiling the lowest scores go, healthy preferred peers last.
Shrink(s) ==
  LET excess == Cardinality(s.eager) - refresh_preferred_eager_ceiling(s)
      kept == {p \in s.eager : is_healthy_preferred(s, p)}
  IN IF Cardinality(s.eager) <= refresh_preferred_eager_ceiling(s) THEN {s}
     ELSE UNION {{Demoted(s, D \union E) : E \in Lowest(s, excess - Cardinality(D), kept)} :
                   D \in Lowest(s, excess, s.eager \ kept)}

\* Below the target the highest scores come; preferred peers do not come this
\* way.
Grow(s) ==
  LET able == {p \in s.lazy : ~is_suppressed(s, p) /\ p \notin Range(s.preferred)}
  IN IF Cardinality(s.eager) >= Target(s) THEN {s}
     ELSE {graft_peers(s, G) : G \in Highest(s, Target(s) - Cardinality(s.eager), able)}

\* A low eager peer gives way to a lazy one that is clearly better, when the
\* interval since the last time has passed.
opportunistic_graft(s) ==
  LET low == {p \in s.eager : ~is_healthy_preferred(s, p) /\ s.score[p] = 0}
      high == {p \in s.lazy : is_score_eligible_for_eager(s, p)}
  IN IF Cardinality(s.eager) \notin Target(s)..refresh_preferred_eager_ceiling(s) THEN {s}
     ELSE {s} \union {graft_peer(prune_peer(s, x[1]), x[2]) : x \in low \X high}

maintain_degree(s) ==
  LET after(S, Op(_)) == UNION {Op(t) : t \in S}
  IN after(after(after(apply_preferred_eager(s), Shrink), Grow), opportunistic_graft)
-----------------------------------------------------------------------------
(* Membership. *)

\* What is known of the cooling of some peers is dropped.
Forget(s, gone) ==
  [s EXCEPT !.cooling = [p \in Peers |-> IF p \in gone THEN "clear" ELSE @[p]],
            !.timeouts = [p \in Peers |-> IF p \in gone THEN 0 ELSE @[p]]]

add_new_peer_lazy(s, new) == [s EXCEPT !.lazy = @ \union (new \ s.eager)]

Only(s, connected) ==
  Forget([s EXCEPT !.eager = @ \intersect connected, !.lazy = @ \intersect connected],
         Peers \ connected)

initialize_topic_peers(new) ==
  /\ state' \in maintain_degree(add_new_peer_lazy(state, new))
  /\ UNCHANGED subscribed

set_topic_peers_with_preferred_eager(connected, preferred) ==
  LET s == add_new_peer_lazy(Only(state, connected), connected)
  IN /\ state' \in maintain_degree(
          [s EXCEPT !.preferred = IF preferred = {} THEN @ ELSE SetToSeq(preferred)])
     /\ UNCHANGED subscribed

set_topic_preferred_eager_set(preferred) ==
  /\ state' \in maintain_degree([state EXCEPT !.preferred = preferred])
  /\ UNCHANGED subscribed

set_eager_degree_ceiling(degree) ==
  /\ state' \in maintain_degree([state EXCEPT !.configured = degree])
  /\ UNCHANGED subscribed

\* The periodic refresh removes disconnected peers and maintains nothing.  An
\* empty list of connections is taken for an unknown one.
refresh_connected_peers_snapshot_once(connected) ==
  /\ connected # {}
  /\ state' = Only(state, connected)
  /\ UNCHANGED subscribed

evict_not_connected_peer(p) ==
  /\ state' = Only(state, Peers \ {p})
  /\ UNCHANGED subscribed

spawn_degree_maintainer ==
  /\ state' \in maintain_degree(state)
  /\ UNCHANGED subscribed

\* The cleaner drops what it knows of peers that left: all of it but a running
\* cooldown and a probe in flight.
prune_churned_peer_state ==
  /\ state' = Forget(state, {p \in Peers \ Members(state) :
                               state.cooling[p] \in {"clear", "expired"}})
  /\ UNCHANGED subscribed
-----------------------------------------------------------------------------
(* Frames from peers. *)

record_inbound_peer_activity(s, p) == Forget(s, {p})

\* A duplicate moves its sender to lazy, unless it is healthy and preferred.
\* One found before its signature is checked says nothing of the sender.
EagerDuplicate(p, verified) ==
  LET s == IF verified THEN record_inbound_peer_activity(state, p) ELSE state
  IN /\ state' = IF is_healthy_preferred(s, p) THEN s ELSE prune_peer(s, p)
     /\ UNCHANGED subscribed

\* A new message, or a request that is served, makes its sender a member.
Inbound(p) ==
  LET s == record_inbound_peer_activity(state, p)
  IN /\ state' \in (IF p \in Members(s) THEN {s}
                    ELSE maintain_degree(add_new_peer_lazy(s, {p})))
     /\ UNCHANGED subscribed
-----------------------------------------------------------------------------
(* Sends and their outcomes. *)

Eligible(s) == {p \in s.eager : ~is_suppressed(s, p)}

\* The floor is off when no local subscriber is alive or p is not eager.
FloorArmed(p) == subscribed /\ p \in state.eager
eligible_eager_after_suppressing(p) == Eligible(state) \ {p}

cooling_floor_last_peer_blocks(p) ==
  FloorArmed(p) /\ eligible_eager_after_suppressing(p) = {}

\* Mutant: a lazy replacement also lifts the protection of the last peer.
FloorReplaceable(p) ==
  /\ FloorArmed(p)
  /\ \A q \in state.lazy : is_suppressed(state, q)
  /\ \/ eligible_eager_after_suppressing(p) = {}
     \/ Cardinality(eligible_eager_after_suppressing(p)) + 1 = Target(state)

cooling_floor_blocks(p) ==
  /\ FloorArmed(p)
  /\ \/ eligible_eager_after_suppressing(p) = {}
     \/ /\ \A q \in state.lazy : is_suppressed(state, q)
        /\ Cardinality(eligible_eager_after_suppressing(p)) + 1 = Target(state)

Suppress(p) ==
  prune_peer([state EXCEPT !.cooling[p] = "cooling", !.timeouts[p] = 0], p)

Counted(p, n) ==
  [state EXCEPT !.timeouts[p] = IF n < Threshold THEN n ELSE Threshold - 1]

\* A send that was no probe timed out.  The count restarts when the window has
\* passed.  A dead peer is suppressed at once; for a suspect one an indirect
\* probe is requested in place of the suppression.  While the floor blocks, the
\* count goes on (the next one reaches the threshold again).
record_send_timeout(p) ==
  /\ ~is_suppressed(state, p)
  /\ \E count \in {1, state.timeouts[p] + 1}, health \in {"Alive", "Suspect", "Dead"} :
       state' = CASE health = "Dead" /\ ~cooling_floor_last_peer_blocks(p) -> Suppress(p)
                  [] health = "Suspect" /\ count >= Threshold -> Counted(p, count)
                  [] OTHER -> IF count < Threshold \/ cooling_floor_blocks(p)
                              THEN Counted(p, count) ELSE Suppress(p)
  /\ UNCHANGED subscribed

Cool(p, from, to) ==
  /\ state.cooling[p] = from
  /\ state' = [state EXCEPT !.cooling[p] = to]
  /\ UNCHANGED subscribed

suppression_expired(p) == Cool(p, "cooling", "expired")

\* The first send after the cooldown is the probe; when its permit is refused
\* or its claim given up, the next one is.
claim_send_attempt(p) == Cool(p, "expired", "probing")
abandon_unsent_recovery_probe(p) == Cool(p, "probing", "expired")

ProbeTimeout(p) ==
  /\ state.cooling[p] = "probing"
  /\ state' = Suppress(p)
  /\ UNCHANGED subscribed

\* A probe that succeeds ends the suppression, a normal send resets the count.
record_send_success(p) ==
  /\ state.cooling[p] \in {"clear", "probing"}
  /\ state' = Forget(state, {p})
  /\ UNCHANGED subscribed

\* Evidence, or its decay, moves a score.
Rescore(p) ==
  /\ state' = [state EXCEPT !.score[p] = 1 - @]
  /\ UNCHANGED subscribed
-----------------------------------------------------------------------------
(* Publishing. *)

\* Mutant: the lazy set is not searched.
RescueEagerOnly(s) == {p \in s.eager : is_suppressed(s, p)}

Rescuable(s) == {p \in Members(s) : is_suppressed(s, p)}

\* A publish that finds every eager peer suppressed, or none, lifts one
\* suppression; a lazy peer is grafted, for which the lowest eager peer makes
\* room when the mesh is full.
rescue_suppressed_eager_peer_if_needed(s) ==
  LET others == {q \in s.eager : ~is_healthy_preferred(s, q)}
      full == Cardinality(s.eager) >= refresh_preferred_eager_ceiling(s)
      room(p) == IF p \in s.lazy /\ full THEN Lowest(s, 1, others) ELSE {{}}
  IN IF ~subscribed \/ Eligible(s) # {} \/ Rescuable(s) = {} THEN {s}
     ELSE UNION {{graft_peer(Demoted([s EXCEPT !.cooling[p] = "clear"], D), p) :
                    D \in room(p)} : p \in Rescuable(s)}

publish_local ==
  /\ state' \in rescue_suppressed_eager_peer_if_needed(state)
  /\ UNCHANGED subscribed

\* A subscription is added, or the last receiver is dropped.
subscribe ==
  /\ subscribed' = ~subscribed
  /\ UNCHANGED state

Next ==
  \/ \E p \in Peers : initialize_topic_peers({p})
  \/ \E S \in Connected :
       \/ refresh_connected_peers_snapshot_once(S)
       \/ set_topic_peers_with_preferred_eager(S, {})
       \/ \E p \in Peers : set_topic_peers_with_preferred_eager(S, {p})
  \/ \E q \in Preferences : set_topic_preferred_eager_set(q)
  \/ \E c \in Ceilings : set_eager_degree_ceiling(c)
  \/ spawn_degree_maintainer
  \/ prune_churned_peer_state
  \/ publish_local
  \/ subscribe
  \/ \E p \in Peers :
       \/ evict_not_connected_peer(p)
       \/ \E verified \in BOOLEAN : EagerDuplicate(p, verified)
       \/ Inbound(p)
       \/ record_send_timeout(p)
       \/ claim_send_attempt(p)
       \/ abandon_unsent_recovery_probe(p)
       \/ ProbeTimeout(p)
       \/ record_send_success(p)
       \/ suppression_expired(p)
       \/ Rescore(p)

Spec == Init /\ [][Next]_vars
-----------------------------------------------------------------------------
(* Properties. *)

\* The eager set never exceeds its ceiling, the configured one or the number
\* of preferred peers, whichever is larger, also while a publish rescues a
\* peer and after preferences are withdrawn ("so even this last-delivery-path
\* promotion respects the ceiling").
CeilingHolds == Cardinality(state.eager) <= refresh_preferred_eager_ceiling(state)

\* A peer in cooldown, waiting for its probe or being probed is never eager:
\* suppression demotes it, and no path grafts it before its probe succeeded.
SuppressedNotEager == \A p \in state.eager : ~is_suppressed(state, p)

\* Timeouts never take the last delivery path: with a local subscriber, the
\* outcome of a send leaves an eligible eager peer if there was one, dead peers
\* and lazy replacements notwithstanding (the cooling floor).
FloorHoldsStep ==
  (/\ subscribed
   /\ Eligible(state) # {}
   /\ \E p \in Peers : state.cooling[p] # "cooling" /\ state'.cooling[p] = "cooling")
  => Eligible(state') # {}

\* While it stays healthy, connected and preferred, an eager peer stays eager:
\* neither duplicates nor other preferences nor a lower ceiling demote it.
PreferredStaysEagerStep ==
  \A p \in state.eager :
    (/\ is_healthy_preferred(state, p)
     /\ is_healthy_preferred(state', p)
     /\ p \in Members(state'))
    => p \in state'.eager

AllPreferredEager(s) == \A p \in Members(s) : is_healthy_preferred(s, p) => p \in s.eager

\* New preferences make all healthy preferred members eager, for which the
\* ceiling has room, and so would a round of maintenance at any time.
PreferredBecomesEagerStep == state'.preferred # state.preferred => AllPreferredEager(state')
MaintenanceGrafts == \A s \in maintain_degree(state) : AllPreferredEager(s)

\* A publish with a local subscriber would leave an eligible eager peer whenever
\* some member is suppressed: the floor peer may have disconnected, yet the
\* topic does not go silent until a cooldown ends.
PublishReaches ==
  subscribed /\ (\E p \in Members(state) : is_suppressed(state, p)) =>
    \A s \in rescue_suppressed_eager_peer_if_needed(state) : Eligible(s) # {}
=============================================================================
