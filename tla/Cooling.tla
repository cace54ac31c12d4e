------------------------------ MODULE Cooling -------------------------------
(***************************************************************************)
(* One peer on one topic: its cooling entry and its send-side score over   *)
(* time (PeerCoolingState, PeerScore and DecayedCounter of                 *)
(* crates/pubsub/src/lib.rs, AdaptiveCoolingConfig of timing.rs).  Sends   *)
(* are claimed and end later, in any order, by a delivery or a timeout.    *)
(* TopicMesh has the same entry without its durations and counts.  What    *)
(* decays halves every unit of time; counters are in 1/Unit.               *)
(*                                                                         *)
(* The table of suppressed peers that the node keeps for its operator      *)
(* beside the cooling entries of the topics, and the report stage_stats    *)
(* makes of it (crates/pubsub/src/lib.rs).  Every handler that changes a   *)
(* cooling entry books the change in the table, under the topic's lock.    *)
(* stage_stats takes no lock over its readings: it reads the table, later  *)
(* the peers admission control knows, and regroups what it has read by     *)
(* topic and by peer.  A cooling entry is "window" while its peer is not   *)
(* suppressed, "ready" once its cooldown has run out.  Topics that come    *)
(* and go, and the scores a report lists, are in module Topics.            *)
(***************************************************************************)
EXTENDS Integers, FiniteSets, Naturals, FiniteSetsExt

CONSTANTS Slots, Initial, MaxCooldown, Threshold, Window, Bypass, Retention, MaxTime, MaxSends

CONSTANTS Topics, Peers

VARIABLES
  now,
  member,     \* the peer is eager or lazy
  cool,       \* its entry of peer_cooling
  score,      \* its entry of peer_scores
  slot,       \* the sends under way
  sends,      \* sends claimed so far
  probes,     \* NEXT_RECOVERY_PROBE_ID
  late,       \* timeouts of ordinary sends since evidence to the contrary
  event       \* what the last step was

VARIABLES
  cooled,      \* peer_cooling of each topic
  mesh,      \* each topic's peers: "eager", "lazy" or "out"
  row,       \* stage_stats.suppressed_peers
  known,     \* the peers admission control keeps counts of
  report     \* the call of stage_stats in progress

coolVars == <<now, member, cool, score, slot, sends, probes, late, event>>

Never == -1
Unit == 2^MaxTime
Counters == {"success", "timeout", "cooled", "probe", "recovered"}
NoProbe == 0
Free == [kind |-> "none", probe |-> NoProbe]

NoCooling == [present |-> FALSE, started |-> 0, count |-> 0, until |-> Never, cooldown |-> 0,
              suppressed |-> Never, probe |-> NoProbe, bypassed |-> Never]
NewCooling == [NoCooling EXCEPT !.present = TRUE, !.started = now]

NoScore == [present |-> FALSE, seen |-> 0, sum |-> [c \in Counters |-> 0],
            at |-> [c \in Counters |-> 0]]
NewScore == [NoScore EXCEPT !.present = TRUE, !.seen = now, !.at = [c \in Counters |-> now]]

CoolInit ==
  /\ now = 0
  /\ member = TRUE
  /\ cool = NoCooling
  /\ score = NoScore
  /\ slot = [s \in Slots |-> Free]
  /\ sends = 0
  /\ probes = 0
  /\ late = 0
  /\ event = "other"

CoolTypeOK ==
  /\ now \in 0..MaxTime
  /\ cool.count \in 0..Threshold
  /\ cool.started \in 0..now
  /\ \A c \in Counters : score.sum[c] >= 0 /\ score.at[c] \in 0..now
  /\ \A s \in Slots : slot[s].kind \in {"none", "normal", "bypass", "probe"}
  /\ cool.probe \in 0..probes
  /\ ~cool.present => cool = NoCooling
  /\ ~score.present => score = NoScore

-----------------------------------------------------------------------------
(* The cooldown a suppression gets, and what a delivery leaves of it.      *)

AtMost(a, b) == IF a < b THEN a ELSE b

next_cooldown(previous) == AtMost(IF previous = 0 THEN Initial ELSE 2 * previous, MaxCooldown)
escalate_on_dead(current) == AtMost(2 * (IF current = 0 THEN Initial ELSE current), MaxCooldown)

\* Mutant: the decay does not stop at the initial cooldown.
DecayToZero(current, elapsed) == current \div 2^elapsed

decay_on_success(current, elapsed) ==
  IF current <= Initial THEN Initial
  ELSE AtMost(Initial + (current - Initial) \div 2^elapsed, MaxCooldown)

Remembered(c) ==
  IF c.suppressed = Never THEN c.cooldown ELSE decay_on_success(c.cooldown, now - c.suppressed)

suppression_expired(c) == c.until # Never /\ c.until <= now
is_suppressed(c) == c.until > now \/ c.probe # NoProbe \/ suppression_expired(c)
bypass_due(c) ==
  c.until > now /\ c.probe = NoProbe /\ (c.bypassed = Never \/ now - c.bypassed >= Bypass)

-----------------------------------------------------------------------------
(* The score.                                                              *)

value_at(sc, c, t) == sc.sum[c] \div 2^(t - sc.at[c])
OrNew == IF score.present THEN score ELSE NewScore
Added(sc, c) == [sc EXCEPT !.sum[c] = value_at(sc, c, now) + Unit, !.at[c] = now]

\* Mutant: only what the peer sends counts as activity.
LastSeen(sc) == sc.seen

last_activity(sc) ==
  CHOOSE t \in 0..now :
    LET ts == {sc.seen} \union {sc.at[c] : c \in {d \in Counters : sc.sum[d] > 0}}
    IN t \in ts /\ \A u \in ts : u <= t

Good(sc, t) == 2 * value_at(sc, "success", t) + 4 * value_at(sc, "recovered", t)

\* Mutant: the events of a suppressed peer speak for it.
BadCounted(sc, t) == 2 * value_at(sc, "timeout", t) - 6 * value_at(sc, "cooled", t) + value_at(sc, "probe", t)

Bad(sc, t) == 2 * value_at(sc, "timeout", t) + 6 * value_at(sc, "cooled", t) + value_at(sc, "probe", t)

\* send_health is Good + 1 over Good + Bad + 1; x is at most y.
HealthAtMost(x, tx, y, ty) ==
  (Good(x, tx) + 2 * Unit) * (Good(y, ty) + Bad(y, ty) + 2 * Unit) <=
    (Good(y, ty) + 2 * Unit) * (Good(x, tx) + Bad(x, tx) + 2 * Unit)

-----------------------------------------------------------------------------
(* Claims.                                                                 *)

\* What the claim makes of a send: nothing when the peer is cooling.
Kind(critical) ==
  IF ~cool.present \/ cool.until = Never THEN "normal"
  ELSE IF cool.until > now
       THEN IF critical THEN "normal" ELSE IF bypass_due(cool) THEN "bypass" ELSE "none"
       ELSE IF cool.probe = NoProbe THEN "probe" ELSE IF critical THEN "normal" ELSE "none"

Claim(s, critical) ==
  LET k == Kind(critical)
  IN /\ slot[s] = Free
     /\ sends < MaxSends
     /\ sends' = sends + 1
     /\ k # "none"
     /\ slot' = [slot EXCEPT ![s] = [kind |-> k, probe |-> IF k = "probe" THEN probes + 1 ELSE NoProbe]]
     /\ probes' = IF k = "probe" THEN probes + 1 ELSE probes
     /\ cool' = IF k = "probe" THEN [cool EXCEPT !.probe = probes + 1]
                ELSE IF k = "bypass" THEN [cool EXCEPT !.bypassed = now] ELSE cool
     /\ score' = IF k = "probe" THEN Added(OrNew, "probe") ELSE score
     /\ event' = "other"
     /\ UNCHANGED <<now, member, late>>

\* No permit: the probe that was marked is undone (abandon_unsent_recovery_probe).
ClaimRefused ==
  /\ Kind(FALSE) = "probe"
  /\ sends < MaxSends
  /\ sends' = sends + 1
  /\ probes' = probes + 1
  /\ event' = "other"
  /\ UNCHANGED <<now, member, cool, score, slot, late>>

-----------------------------------------------------------------------------
(* Outcomes.                                                               *)


matches_recovery_probe(s) == cool.present /\ cool.probe # NoProbe /\ cool.probe = slot[s].probe

\* Mutant: a delivery does not end the count of timeouts.
CoolAfterKeeping(s) ==
  CASE slot[s].kind = "probe" /\ matches_recovery_probe(s) ->
         [cool EXCEPT !.cooldown = Remembered(cool), !.until = Never, !.count = 0,
                      !.started = now, !.probe = NoProbe]
    [] slot[s].kind = "bypass" /\ cool.present -> [cool EXCEPT !.cooldown = Remembered(cool)]
    [] slot[s].kind = "normal" /\ cool.present /\ ~is_suppressed(cool) ->
         [cool EXCEPT !.cooldown = Remembered(cool)]
    [] OTHER -> cool

CoolAfterSuccess(s) ==
  CASE slot[s].kind = "probe" /\ matches_recovery_probe(s) ->
         [cool EXCEPT !.cooldown = Remembered(cool), !.until = Never, !.count = 0,
                      !.started = now, !.probe = NoProbe]
    [] slot[s].kind = "bypass" /\ cool.present -> [cool EXCEPT !.cooldown = Remembered(cool)]
    [] slot[s].kind = "normal" /\ cool.present /\ ~is_suppressed(cool) ->
         [cool EXCEPT !.cooldown = Remembered(cool), !.count = 0, !.started = now]
    [] OTHER -> cool

record_send_success(s) ==
  /\ slot[s] # Free
  /\ score' = IF slot[s].kind = "probe" THEN Added(Added(OrNew, "success"), "recovered")
              ELSE Added(OrNew, "success")
  /\ cool' = CoolAfterSuccess(s)
  /\ late' = IF matches_recovery_probe(s) \/ (slot[s].kind = "normal" /\ ~is_suppressed(cool))
             THEN 0 ELSE late
  /\ slot' = [slot EXCEPT ![s] = Free]
  /\ event' = "success"
  /\ UNCHANGED <<now, member, sends, probes>>

Suppressed(c, cooldown) ==
  [c EXCEPT !.cooldown = cooldown, !.until = now + cooldown, !.suppressed = now, !.probe = NoProbe,
            !.started = now, !.count = 0]

\* Of a probe: the suppression begins again, for longer.
ProbeTimeout(s) ==
  /\ slot[s].kind = "probe"
  /\ matches_recovery_probe(s)
  /\ cool' = Suppressed(cool, next_cooldown(cool.cooldown))
  /\ score' = Added(Added(OrNew, "timeout"), "cooled")
  /\ late' = 0

\* Of an ordinary send; the floor of the mesh may forbid a suppression.
NormalTimeout(s, health, floor, last) ==
  LET c == IF cool.present THEN cool ELSE NewCooling
      w == IF now - c.started > Window THEN [c EXCEPT !.started = now, !.count = 0] ELSE c
      n == w.count + 1
      sc == Added(OrNew, "timeout")
  IN /\ slot[s].kind = "normal"
     /\ late' = AtMost(late + 1, Threshold)
     /\ \/ /\ is_suppressed(c)
           /\ cool' = c
           /\ score' = sc
        \/ /\ ~is_suppressed(c)
           /\ \/ /\ health = "Dead" /\ ~last
                 /\ cool' = Suppressed(w, escalate_on_dead(w.cooldown))
                 /\ score' = Added(sc, "cooled")
              \/ /\ ~(health = "Dead" /\ ~last)
                 /\ n >= Threshold /\ health = "Suspect"
                 /\ cool' = [w EXCEPT !.count = Threshold - 1, !.started = now]
                 /\ score' = sc
              \/ /\ ~(health = "Dead" /\ ~last)
                 /\ n < Threshold \/ (health # "Suspect" /\ floor)
                 /\ cool' = [w EXCEPT !.count = AtMost(n, Threshold)]
                 /\ score' = sc
              \/ /\ n >= Threshold /\ health = "Alive" /\ ~floor
                 /\ cool' = Suppressed(w, next_cooldown(w.cooldown))
                 /\ score' = Added(sc, "cooled")

record_send_timeout(s, health, floor, last) ==
  /\ slot[s] # Free
  /\ \/ ProbeTimeout(s)
     \/ NormalTimeout(s, health, floor, last)
     \/ /\ slot[s].kind = "bypass" \/ (slot[s].kind = "probe" /\ ~matches_recovery_probe(s))
        /\ UNCHANGED <<cool, score, late>>
  /\ slot' = [slot EXCEPT ![s] = Free]
  /\ event' = IF health = "Dead" THEN "dead" ELSE "timeout"
  /\ UNCHANGED <<now, member, sends, probes>>

-----------------------------------------------------------------------------
(* The rest of the topic.                                                  *)

\* A verified message of the peer (record_inbound_peer_activity_at).
Inbound ==
  /\ score' = [OrNew EXCEPT !.seen = now]
  /\ cool' = NoCooling
  /\ late' = 0
  /\ event' = "other"
  /\ UNCHANGED <<now, member, slot, sends, probes>>

Rescue ==
  /\ cool.present /\ is_suppressed(cool)
  /\ cool' = [cool EXCEPT !.until = Never, !.probe = NoProbe]
  /\ event' = "rescue"
  /\ UNCHANGED <<now, member, score, slot, sends, probes, late>>

Leave ==
  /\ member
  /\ member' = FALSE
  /\ cool' = NoCooling
  /\ late' = 0
  /\ event' = "other"
  /\ UNCHANGED <<now, score, slot, sends, probes>>

Return ==
  /\ ~member
  /\ member' = TRUE
  /\ event' = "other"
  /\ UNCHANGED <<now, cool, score, slot, sends, probes, late>>

\* clean_cache and prune_churned_peer_state.
Clean ==
  /\ score' = IF score.present /\ (~member \/ now - last_activity(score) >= Retention)
              THEN NoScore ELSE score
  /\ cool' = IF member \/ cool.until > now \/ cool.probe # NoProbe THEN cool ELSE NoCooling
  /\ late' = IF cool' = NoCooling THEN 0 ELSE late
  /\ event' = "other"
  /\ UNCHANGED <<now, member, slot, sends, probes>>

Tick ==
  /\ now < MaxTime
  /\ now' = now + 1
  /\ event' = "other"
  /\ UNCHANGED <<member, cool, score, slot, sends, probes, late>>

CoolNext ==
  \/ \E s \in Slots :
       \/ \E critical \in BOOLEAN : Claim(s, critical)
       \/ record_send_success(s)
       \/ \E h \in {"Alive", "Suspect", "Dead"}, floor \in BOOLEAN, last \in BOOLEAN :
            (last => floor) /\ record_send_timeout(s, h, floor, last)
  \/ ClaimRefused
  \/ Inbound \/ Rescue \/ Leave \/ Return \/ Clean
  \/ Tick

-----------------------------------------------------------------------------
\* However suppressions, probes, bypasses and deliveries alternate, a cooldown
\* stays between its initial and its maximal length (AdaptiveCoolingConfig).
CooldownBounded ==
  /\ cool.suppressed # Never => cool.cooldown \in Initial..MaxCooldown
  /\ cool.until # Never => cool.until <= now + MaxCooldown

\* A suppression is lifted only by the delivery of the probe that is under way
\* for it, not by that of an earlier one that comes late; otherwise the entry
\* goes altogether, or its topic needs the peer (RecoveryProbeId).
LiftedByItsProbeStep ==
  cool.until # Never /\ cool'.present /\ cool'.until = Never =>
    \/ event' = "rescue"
    \/ \E s \in Slots : slot[s].kind = "probe" /\ slot[s].probe = cool.probe /\ slot'[s] = Free

\* LiftedByItsProbeStep, of every step.
LiftedByItsProbe == [][LiftedByItsProbeStep]_coolVars

\* A peer that is not known to be dead is first suppressed after Threshold
\* timeouts with no delivery among them (PEER_TIMEOUT_THRESHOLD).
SuppressionEarnedStep ==
  cool'.until > cool.until /\ cool.until = Never => event' = "dead" \/ late' >= Threshold

\* A delivery does not make a peer's send health worse, a timeout does not make
\* it better, and time alone only mends it (PeerScore::components_at).
HealthMovesStep ==
  score.present /\ score'.present =>
    /\ event' = "success" => HealthAtMost(score, now, score', now)
    /\ event' \in {"timeout", "dead"} => HealthAtMost(score', now, score, now)
    /\ now' # now => HealthAtMost(score, now, score', now')

\* The score of a member that is in its cooldown is not dropped: retention
\* covers the longest cooldown ("Retain score evidence long enough to cover
\* maximum cooling backoff plus decay").
EvidenceKeptStep ==
  member /\ cool.until > now /\ score.present => score'.present

-----------------------------------------------------------------------------
tableVars == <<cooled, mesh, row, known, report>>

Pairs == Topics \X Peers
NoRow == [kept |-> FALSE, over |-> FALSE, probe |-> FALSE]
Row(over, probe) == [kept |-> TRUE, over |-> over, probe |-> probe]
NoReport == [at |-> "idle", rows |-> [x \in Pairs |-> NoRow], known |-> {}]

TableTypeOK ==
  /\ cooled \in [Pairs -> {"none", "window", "cooling", "ready", "probe"}]
  /\ mesh \in [Pairs -> {"eager", "lazy", "out"}]
  /\ row \in [Pairs -> {NoRow} \union {Row(o, b) : o, b \in BOOLEAN}]
  /\ known \subseteq Peers
  /\ report.at \in {"idle", "rows", "done"}

TableInit ==
  /\ cooled = [x \in Pairs |-> "none"]
  /\ mesh = [x \in Pairs |-> "lazy"]
  /\ row = [x \in Pairs |-> NoRow]
  /\ known = {}
  /\ report = NoReport

InCooldown(x) == cooled[x] \in {"cooling", "ready", "probe"}
Member(x) == mesh[x] # "out"
Others == <<known, report>>

-----------------------------------------------------------------------------
(* The handlers, each under its topic's lock.                              *)

clear_peer_suppression(xs) == row' = [x \in Pairs |-> IF x \in xs THEN NoRow ELSE row[x]]

\* Mutant: a suppression after a recovery probe leaves the probe's row.
SuppressedOnce(x) == row' = [row EXCEPT ![x] = IF @.probe THEN @ ELSE Row(FALSE, FALSE)]
record_peer_suppressed(x) == row' = [row EXCEPT ![x] = Row(FALSE, FALSE)]
record_peer_recovery_probe(x) == row' = [row EXCEPT ![x] = Row(TRUE, TRUE)]

\* A send to the peer timed out: its first timeouts only open a window; one
\* that suppresses it demotes it too.
SendTimeout(x) ==
  /\ cooled[x] \in {"none", "window", "probe"}
  /\ \/ /\ cooled[x] # "probe"
        /\ cooled' = [cooled EXCEPT ![x] = "window"]
        /\ UNCHANGED <<mesh, row>>
     \/ /\ cooled' = [cooled EXCEPT ![x] = "cooling"]
        /\ mesh' = [mesh EXCEPT ![x] = IF @ = "eager" THEN "lazy" ELSE @]
        /\ record_peer_suppressed(x)
  /\ UNCHANGED Others

ClaimProbe(x) ==
  /\ cooled[x] = "ready"
  /\ cooled' = [cooled EXCEPT ![x] = "probe"]
  /\ record_peer_recovery_probe(x)
  /\ UNCHANGED <<mesh, Others>>

ProbeSent(x) ==
  /\ cooled[x] = "probe"
  /\ cooled' = [cooled EXCEPT ![x] = "window"]
  /\ clear_peer_suppression({x})
  /\ UNCHANGED <<mesh, Others>>

\* Whatever send it was, the peer leaves the topic.
NotConnected(x) ==
  /\ clear_peer_suppression({x})
  /\ cooled' = [cooled EXCEPT ![x] = "none"]
  /\ mesh' = [mesh EXCEPT ![x] = "out"]
  /\ UNCHANGED Others

record_inbound_peer_activity(x) ==
  /\ cooled[x] # "none"
  /\ cooled' = [cooled EXCEPT ![x] = "none"]
  /\ clear_peer_suppression({x})
  /\ UNCHANGED <<mesh, Others>>

\* The topic's peers become the connected ones.
set_topic_peers(t, connected) ==
  LET left == {x \in Pairs : x[1] = t /\ x[2] \notin connected}
      came == {x \in Pairs : x[1] = t /\ x[2] \in connected /\ ~Member(x)}
  IN /\ cooled' = [x \in Pairs |-> IF x \in left THEN "none" ELSE cooled[x]]
     /\ mesh' = [x \in Pairs |-> IF x \in left THEN "out" ELSE IF x \in came THEN "lazy" ELSE mesh[x]]
     /\ clear_peer_suppression({x \in left : cooled[x] # "none"})
     /\ UNCHANGED Others

maintain_degree(x) ==
  /\ \/ mesh[x] = "lazy" /\ ~InCooldown(x) /\ mesh' = [mesh EXCEPT ![x] = "eager"]
     \/ mesh[x] = "eager" /\ mesh' = [mesh EXCEPT ![x] = "lazy"]
  /\ UNCHANGED <<cooled, row, Others>>

\* A local publish that finds no eager peer it may send to lifts the
\* suppression of one member.
rescue_suppressed_eager_peer(x) ==
  /\ \A y \in Pairs : y[1] = x[1] /\ mesh[y] = "eager" => InCooldown(y)
  /\ Member(x) /\ InCooldown(x)
  /\ cooled' = [cooled EXCEPT ![x] = "window"]
  /\ mesh' = [mesh EXCEPT ![x] = "eager"]
  /\ UNCHANGED <<row, Others>>

Expired == {x \in Pairs : cooled[x] = "ready"}

clean_expired_peer_cooling ==
  /\ clear_peer_suppression(Expired)
  /\ cooled' = [x \in Pairs |-> IF ~Member(x) /\ cooled[x] \in {"window", "ready"} THEN "none" ELSE cooled[x]]
  /\ UNCHANGED <<mesh, Others>>

\* The cooldown runs out, of the entry and of the row made with it.
CooldownOver(x) ==
  /\ cooled[x] = "cooling" \/ (row[x].kept /\ ~row[x].over)
  /\ cooled' = [cooled EXCEPT ![x] = IF @ = "cooling" THEN "ready" ELSE @]
  /\ row' = [row EXCEPT ![x].over = @ \/ row[x].kept]
  /\ UNCHANGED <<mesh, Others>>

Admit(p) ==
  /\ known' = known \union {p}
  /\ UNCHANGED <<cooled, mesh, row, report>>

-----------------------------------------------------------------------------
(* The report.                                                             *)

ReadRows ==
  /\ report.at = "idle"
  /\ report' = [report EXCEPT !.at = "rows", !.rows = row]
  /\ UNCHANGED <<cooled, mesh, row, known>>

ReadKnown ==
  /\ report.at = "rows"
  /\ report' = [report EXCEPT !.at = "done", !.known = known]
  /\ UNCHANGED <<cooled, mesh, row, known>>

ReturnPeer ==
  /\ report.at = "done"
  /\ report' = NoReport
  /\ UNCHANGED <<cooled, mesh, row, known>>

Kept == {x \in Pairs : report.rows[x].kept}

RowState(x) ==
  LET r == report.rows[x]
  IN IF r.probe THEN "recovery_probe" ELSE IF r.over THEN "recovery_ready" ELSE "cooldown"

affected_topics(p) == Cardinality({x \in Kept : x[2] = p})

suppressed_peers_by_topic == [t \in {x[1] : x \in Kept} |-> {x[2] : x \in {y \in Kept : y[1] = t}}]

Alive == [state |-> "alive", suppressed |-> 0, cooled |-> 0, probing |-> 0, ready |-> 0]

Tally(x, e) ==
  LET s == RowState(x)
  IN [e EXCEPT !.suppressed = @ + 1,
               !.probing = IF s = "recovery_probe" THEN @ + 1 ELSE @,
               !.ready = IF s = "recovery_ready" THEN @ + 1 ELSE @,
               !.cooled = IF s = "cooldown" THEN @ + 1 ELSE @]

\* Mutant: the state of a peer is that of a topic that recovers, before that
\* of one that still cools.
RecoveringFirst(e) ==
  CASE e.probing > 0 -> "recovery_probe"
    [] e.probing = 0 /\ e.ready > 0 -> "recovery_ready"
    [] e.probing = 0 /\ e.ready = 0 /\ e.cooled > 0 -> "cooled"
    [] e.suppressed = 0 -> "alive"
WorstState(e) ==
  CASE e.cooled > 0 -> "cooled"
    [] e.cooled = 0 /\ e.probing > 0 -> "recovery_probe"
    [] e.cooled = 0 /\ e.probing = 0 /\ e.ready > 0 -> "recovery_ready"
    [] e.suppressed = 0 -> "alive"

build_admission_state_by_peer ==
  [p \in {x[2] : x \in Kept} |->
     LET e == FoldSet(Tally, Alive, {x \in Kept : x[2] = p}) IN [e EXCEPT !.state = WorstState(e)]]

admission_state_by_peer ==
  LET built == build_admission_state_by_peer
  IN [p \in DOMAIN built \union report.known |-> IF p \in DOMAIN built THEN built[p] ELSE Alive]

-----------------------------------------------------------------------------
TableNext ==
  \/ \E x \in Pairs :
       \/ SendTimeout(x)
       \/ ClaimProbe(x)
       \/ ProbeSent(x)
       \/ NotConnected(x)
       \/ record_inbound_peer_activity(x)
       \/ maintain_degree(x)
       \/ rescue_suppressed_eager_peer(x)
       \/ CooldownOver(x)
  \/ \E t \in Topics, connected \in SUBSET Peers : set_topic_peers(t, connected)
  \/ clean_expired_peer_cooling
  \/ \E p \in Peers : Admit(p)
  \/ ReadRows
  \/ ReadKnown
  \/ ReturnPeer

-----------------------------------------------------------------------------
(* Properties.                                                             *)

\* No cooling goes unseen: while a topic sends a peer nothing because of a
\* cooldown, or waits for its recovery probe, the table has the peer's row,
\* and the row shows which of the two it is.  (Rows are made and dropped in
\* nine handlers; an expired row is swept while the entry stays.)
CoolingShown ==
  \A x \in Pairs : cooled[x] \in {"cooling", "probe"} =>
    row[x] = Row(cooled[x] = "probe", cooled[x] = "probe")

\* The tables of a report agree: a peer is counted once for every topic whose
\* list names it and once in exactly one of the three classes; it is reported
\* "cooled" exactly when its row of some topic is a running cooldown, and
\* alive exactly when no topic lists it.
ReportAddsUp ==
  report.at = "done" =>
    LET listed == suppressed_peers_by_topic
        states == admission_state_by_peer
        In(p) == {t \in DOMAIN listed : p \in listed[t]}
    IN /\ report.known \subseteq DOMAIN states
       /\ \A p \in DOMAIN states :
            /\ states[p].suppressed = Cardinality(In(p))
            /\ states[p].suppressed = affected_topics(p)
            /\ states[p].suppressed = states[p].cooled + states[p].probing + states[p].ready
            /\ (states[p].state = "alive") = (In(p) = {})
            /\ (states[p].state = "cooled")
                 = (\E t \in In(p) : RowState(<<t, p>>) = "cooldown")

-----------------------------------------------------------------------------
(* Both parts. *)

vars == <<coolVars, tableVars>>

Init == CoolInit /\ TableInit

Next ==
  \/ CoolNext /\ UNCHANGED tableVars
  \/ TableNext /\ UNCHANGED coolVars

Spec == Init /\ [][Next]_vars
=============================================================================
