------------------------------- MODULE Fanout -------------------------------
(***************************************************************************)
(* What one send call reports of the peers it was given                    *)
(* (parallel_send_to_peers and send_to_peer_bounded_outcome_tracked in     *)
(* crates/pubsub/src/lib.rs, AdmissionStats in admission.rs).  A publish   *)
(* or a forward takes its peers through the byte limiter, admission and    *)
(* the claim of a send, and returns FanoutCounts; a Critical publish under *)
(* an enforcing limiter runs one tracked send per peer instead, and a      *)
(* control message is one tracked send.  What is read of a peer (bytes,    *)
(* connection, health, cooling, permits) is left open at every reading;    *)
(* the priority is the one registered at the start.                        *)
(*                                                                         *)
(* The counters behind `/diagnostics/gossip`: the outbound wire meters by  *)
(* kind and by topic with the publish-origin split, the verdict counters   *)
(* of the topic validators, and the timing counters of one stage together  *)
(* with the per-kind verify meter.  Every counter is an atomic of its own  *)
(* and the tasks that record do not wait for each other, so a step is ONE  *)
(* atomic operation; only the two by-topic tables have a mutex.  A         *)
(* snapshot is a sequence of loads, in the order the struct literal of     *)
(* `snapshot` lists them, between which anybody may record.                *)
(***************************************************************************)
EXTENDS Naturals, FiniteSets, FiniteSetsExt

CONSTANT Peers

CONSTANTS Senders, Verifiers, Validators,  \* tasks that record
          Topics, Sizes, Durations,
          Cap,                             \* OUTBOUND_TOPIC_METER_CAP
          MaxSends, MaxVerifies, MaxVerdicts

VARIABLES
  priority,     \* the topic's entry of TopicPriorityRegistry
  limiter,      \* LeafEgressLimiter: off, observing or shedding
  topic,        \* whether the TopicState exists
  call,         \* the call: what it is, where it is, what it has computed
  fate,         \* FanoutPeerStage of every candidate
  sent,         \* candidates whose send succeeded
  queued,       \* candidates queued as direct IHAVE targets
  stats         \* AdmissionStats

VARIABLES kinds,       \* [k |-> [msgs, bytes]]: outbound_kind_msgs / outbound_kind_bytes
          topics,     \* the by-topic table; a topic has an entry once a send of its is recorded
          uncounted,  \* topics_uncounted
          origin,     \* [local, relay]: bytes of outbound_publish_origin
          verdicts,   \* [all, byTopic]: ValidatorMeters
          verify,     \* [attempts, failures]: PerKindVerifyMeter, one kind
          timing,     \* StageTimingStats of the verify stage
          held,       \* [topics, verdicts]: who holds each mutex
          task,       \* what each recording task is doing
          reader,     \* the snapshot in progress: next load, what it loaded
          started,    \* records started (bounds)
          observed    \* history: the durations of the verifications begun, and how many failed

fanVars == <<priority, limiter, topic, call, fate, sent, queued, stats>>

Priorities == {"Critical", "Normal", "Bulk"}
Skips == {"disconnected", "cooling", "budget"}
Fates == {"candidate", "byte_rejected", "admission_dropped", "attempted"} \union Skips
Counters == {"admitted", "dropped", "hard_error", "cooling", "no_target"}
NoCounts == [candidates |-> 0, byte_rejected |-> 0, admission_dropped |-> 0, claim_skipped |-> 0,
             disconnected |-> 0, cooling |-> 0, budget |-> 0, attempted |-> 0, succeeded |-> 0]

FanTypeOK ==
  /\ priority \in Priorities
  /\ limiter \in {"off", "observe", "shed"}
  /\ topic \in BOOLEAN
  /\ call.kind \in {"none", "publish", "forward", "control"}
  /\ call.stage \in {"idle", "bytes", "admission", "claim", "announce", "sends", "tracked",
                     "tail", "returned"}
  /\ call.admitted \subseteq call.passed /\ call.passed \subseteq call.peers
  /\ fate \in [Peers -> Fates]
  /\ sent \subseteq Peers /\ queued \subseteq Peers
  /\ DOMAIN stats = Counters

FanInit ==
  /\ priority \in Priorities
  /\ limiter \in {"off", "observe", "shed"}
  /\ topic \in BOOLEAN
  /\ call = [kind |-> "none", stage |-> "idle", peers |-> {}, passed |-> {}, admitted |-> {},
             tracked |-> [p \in Peers |-> "none"], counts |-> NoCounts]
  /\ fate = [p \in Peers |-> "candidate"]
  /\ sent = {} /\ queued = {}
  /\ stats = [c \in Counters |-> 0]

With(f) == {p \in call.peers : fate[p] = f}
Skipped == {p \in call.peers : fate[p] \in Skips}
Count(c, n) == stats' = [stats EXCEPT ![c] = @ + n]

-----------------------------------------------------------------------------
(* A call starts, and the topic may be created or dropped meanwhile.       *)

Call(kind, peers) ==
  /\ call.stage = "idle"
  /\ kind = "control" => Cardinality(peers) = 1
  /\ call' = [call EXCEPT !.kind = kind, !.peers = peers,
                !.stage = IF kind = "control" THEN "tracked"
                          ELSE IF limiter = "shed" /\ priority = "Critical" /\ kind = "publish"
                               THEN "tracked" ELSE "bytes",
                !.tracked = [p \in Peers |-> IF p \in peers THEN "start" ELSE "none"]]
  /\ UNCHANGED <<priority, limiter, topic, fate, sent, queued, stats>>

TopicChanges ==
  /\ call.stage \notin {"idle", "returned"}
  /\ topic' = ~topic
  /\ UNCHANGED <<priority, limiter, call, fate, sent, queued, stats>>

-----------------------------------------------------------------------------
(* The shared fan-out.                                                     *)

\* Only a forwarded frame that is not Critical can be shed.  The peers shed are
\* offered the message lazily.
ByteAdmission(shed) ==
  /\ call.stage = "bytes"
  /\ shed \subseteq call.peers
  /\ shed # {} => limiter = "shed" /\ call.kind = "forward" /\ priority # "Critical"
  /\ fate' = [p \in Peers |-> IF p \in shed THEN "byte_rejected" ELSE fate[p]]
  /\ queued' = IF topic THEN queued \union shed ELSE queued
  /\ call' = [call EXCEPT !.stage = "admission", !.passed = call.peers \ shed]
  /\ UNCHANGED <<priority, limiter, topic, sent, stats>>

\* AdmissionControl::admit: who may be turned away, given the priority.
Droppable == priority # "Critical"

\* Mutant: the byte-rejected peers are counted again as dropped.
EmptyTwice(n) ==
  [NoCounts EXCEPT !.candidates = n, !.byte_rejected = n - Cardinality(call.passed),
                   !.admission_dropped = n]

EmptyCounts(n) ==
  [NoCounts EXCEPT !.candidates = n, !.byte_rejected = n - Cardinality(call.passed),
                   !.admission_dropped = n - (n - Cardinality(call.passed))]

\* A disconnected peer is left out without being counted; the others are
\* counted as admitted or dropped.
filter_peers_through_admission(away, dropped) ==
  /\ call.stage = "admission"
  /\ away \subseteq call.passed /\ dropped \subseteq call.passed \ away
  /\ dropped # {} => Droppable
  /\ LET admitted == call.passed \ (away \union dropped)
     IN /\ call' = IF admitted = {}
                   THEN [call EXCEPT !.stage = "returned",
                                     !.counts = EmptyCounts(Cardinality(call.peers))]
                   ELSE [call EXCEPT !.stage = "claim", !.admitted = admitted]
        /\ stats' = [stats EXCEPT !["admitted"] = @ + Cardinality(admitted),
                                  !["dropped"] = @ + Cardinality(dropped)]
  /\ fate' = [p \in Peers |-> IF p \in away \union dropped THEN "admission_dropped" ELSE fate[p]]
  /\ UNCHANGED <<priority, limiter, topic, sent, queued>>

\* What a claim may find of a peer: Critical data does not cool, and neither does
\* a peer of a topic without state.
Claimable(data) ==
  {"attempted", "disconnected", "budget"}
    \union (IF topic /\ ~(priority = "Critical" /\ data) THEN {"cooling"} ELSE {})

CriticalOverflow(n, data) == IF priority = "Critical" /\ data THEN n ELSE 0

claim_topic_send_attempts(found) ==
  /\ call.stage = "claim"
  /\ found \in [call.admitted -> Claimable(TRUE)]
  /\ fate' = [p \in Peers |-> IF p \in call.admitted THEN found[p] ELSE fate[p]]
  /\ Count("hard_error",
           CriticalOverflow(Cardinality({p \in call.admitted : found[p] = "budget"}), TRUE))
  /\ call' = [call EXCEPT !.stage = "announce"]
  /\ UNCHANGED <<priority, limiter, topic, sent, queued>>

\* Mutant: only a fan-out with no attempt at all announces what it skipped.
AnnouncedUnlessAttempted ==
  IF call.kind = "publish" /\ topic /\ With("attempted") = {} THEN call.admitted ELSE {}

\* queue_retained_announce of the peers a local publish could not claim.
Announced ==
  IF call.kind = "publish" /\ topic THEN call.admitted \ With("attempted") ELSE {}

CountsOf(succeeded) ==
  LET n == Cardinality(call.peers)
      rejected == n - Cardinality(call.passed)
      attempted == Cardinality(With("attempted"))
  IN [candidates |-> n, byte_rejected |-> rejected,
      admission_dropped |-> (n - rejected) - Cardinality(call.admitted),
      claim_skipped |-> Cardinality(call.admitted) - attempted,
      disconnected |-> Cardinality(With("disconnected")),
      cooling |-> Cardinality(With("cooling")), budget |-> Cardinality(With("budget")),
      attempted |-> attempted, succeeded |-> succeeded]

\* The skipped are announced; without an attempt the call is over, and a forward
\* returns once its sends are spawned.
AnnounceSkipped ==
  /\ call.stage = "announce"
  /\ queued' = queued \union Announced
  /\ call' = IF With("attempted") = {} \/ call.kind = "forward"
             THEN [call EXCEPT !.stage = "returned", !.counts = CountsOf(0)]
             ELSE [call EXCEPT !.stage = "sends"]
  /\ UNCHANGED <<priority, limiter, topic, fate, sent, stats>>

collect_results(delivered) ==
  /\ call.stage = "sends"
  /\ delivered \subseteq With("attempted")
  /\ sent' = delivered
  /\ call' = [call EXCEPT !.stage = "returned", !.counts = CountsOf(Cardinality(delivered))]
  /\ UNCHANGED <<priority, limiter, topic, fate, queued, stats>>

-----------------------------------------------------------------------------
(* The tracked send of one peer.                                           *)

Track(p, f, step) ==
  /\ fate' = [fate EXCEPT ![p] = f]
  /\ call' = [call EXCEPT !.tracked[p] = step]

Data == call.kind # "control"
Protected == limiter # "shed" \/ priority = "Critical" \/ call.kind = "publish"

TrackedReserve(p) ==
  /\ call.stage = "tracked" /\ call.tracked[p] = "start"
  /\ \/ Track(p, "candidate", "reserved")
     \/ ~Protected /\ Track(p, "byte_rejected", "done")
  /\ UNCHANGED <<priority, limiter, topic, sent, queued, stats>>

TrackedAdmit(p) ==
  /\ call.stage = "tracked" /\ call.tracked[p] = "reserved"
  /\ \/ Track(p, "candidate", "admitted") /\ Count("admitted", 1)
     \/ Droppable /\ Track(p, "admission_dropped", "done") /\ Count("dropped", 1)
  /\ UNCHANGED <<priority, limiter, topic, sent, queued>>

\* Mutant: a control send to a disconnected peer is not counted.
ControlSkipSilent(found) ==
  CASE found = "budget" -> {"hard_error"} [] found = "cooling" -> {"cooling"} [] OTHER -> {}

\* The counter a skipped Critical control send is booked under.
ControlSkip(found) ==
  CASE found = "budget" -> {"hard_error"}
    [] found = "cooling" -> {"cooling"}
    [] OTHER -> {"no_target"}

\* Data overflowing the Critical gate is counted by the claim, control by the
\* caller, by the reason of the skip.
SkipCounters(found) ==
  IF found \notin Skips \/ priority # "Critical" THEN {}
  ELSE IF Data THEN {c \in {"hard_error"} : found = "budget"}
  ELSE ControlSkip(found)

TrackedClaim(p, found) ==
  /\ call.stage = "tracked" /\ call.tracked[p] = "admitted"
  /\ found \in Claimable(Data)
  /\ Track(p, found, IF found = "attempted" THEN "sending" ELSE "done")
  /\ stats' = [c \in Counters |-> IF c \in SkipCounters(found) THEN stats[c] + 1 ELSE stats[c]]
  /\ UNCHANGED <<priority, limiter, topic, sent, queued>>

TrackedSent(p, ok) ==
  /\ call.stage = "tracked" /\ call.tracked[p] = "sending"
  /\ call' = [call EXCEPT !.tracked[p] = "done"]
  /\ sent' = IF ok THEN sent \union {p} ELSE sent
  /\ UNCHANGED <<priority, limiter, topic, fate, queued, stats>>

\* The loop of the Critical fan-out takes a finished task and books its stage.
BookCompleted(counts, p) ==
  LET one(f) == IF fate[p] = f THEN 1 ELSE 0
  IN [counts EXCEPT
        !.byte_rejected = @ + one("byte_rejected"),
        !.admission_dropped = @ + one("admission_dropped"),
        !.claim_skipped = @ + IF fate[p] \in Skips THEN 1 ELSE 0,
        !.disconnected = @ + one("disconnected"),
        !.cooling = @ + one("cooling"),
        !.budget = @ + one("budget"),
        !.attempted = @ + one("attempted"),
        !.succeeded = @ + IF p \in sent THEN 1 ELSE 0]

Completed(p) ==
  /\ call.stage = "tracked" /\ call.tracked[p] = "done"
  /\ LET counts == BookCompleted(call.counts, p)
         tracked == [call.tracked EXCEPT ![p] = "none"]
         over == \A q \in Peers : tracked[q] = "none"
     IN call' = [call EXCEPT !.counts = counts, !.tracked = tracked,
                             !.stage = IF over THEN "tail" ELSE "tracked"]
  /\ UNCHANGED <<priority, limiter, topic, fate, sent, queued, stats>>

\* The Critical fan-out offers what was not attempted, and returns.
Tail ==
  /\ call.stage = "tail"
  /\ queued' = IF Data /\ topic THEN queued \union (call.peers \ With("attempted")) ELSE queued
  /\ call' = [call EXCEPT !.stage = "returned",
                          !.counts.candidates = Cardinality(call.peers)]
  /\ UNCHANGED <<priority, limiter, topic, fate, sent, stats>>

Over == call.stage = "returned" /\ UNCHANGED fanVars

FanNext ==
  \/ \E kind \in {"publish", "forward", "control"}, peers \in SUBSET Peers \ {{}} : Call(kind, peers)
  \/ TopicChanges
  \/ \E shed \in SUBSET Peers : ByteAdmission(shed)
  \/ \E away, dropped \in SUBSET Peers : filter_peers_through_admission(away, dropped)
  \/ \E found \in [call.admitted -> Skips \union {"attempted"}] : claim_topic_send_attempts(found)
  \/ AnnounceSkipped
  \/ \E delivered \in SUBSET Peers : collect_results(delivered)
  \/ \E p \in Peers : TrackedReserve(p) \/ TrackedAdmit(p) \/ Completed(p)
  \/ \E p \in Peers, found \in Skips \union {"attempted"} : TrackedClaim(p, found)
  \/ \E p \in Peers, ok \in BOOLEAN : TrackedSent(p, ok)
  \/ Tail
  \/ Over

-----------------------------------------------------------------------------

\* FanoutCounts tells where every candidate ended, on every return path:
\* candidates == byte_rejected + admission_dropped + claim_skipped + attempted,
\* claim_skipped is the sum of its three reasons, and each bucket holds as many
\* peers as really ended there, although most are computed by subtraction.
CountsTrue ==
  call.stage = "returned" =>
    LET c == call.counts
    IN /\ c.candidates = c.byte_rejected + c.admission_dropped + c.claim_skipped + c.attempted
       /\ c.claim_skipped = c.disconnected + c.cooling + c.budget
       /\ c.byte_rejected = Cardinality(With("byte_rejected"))
       /\ c.admission_dropped = Cardinality(With("admission_dropped"))
       /\ c.attempted = Cardinality(With("attempted"))
       /\ c.disconnected = Cardinality(With("disconnected"))
       /\ c.cooling = Cardinality(With("cooling"))
       /\ c.succeeded = Cardinality(sent)

\* A Critical send that is admitted and then not attempted moves exactly one of
\* the drop counters when it is a control message, and the hard-error counter
\* alone, once per peer whose gate was full, when it is data.
OneCounterPerSkip ==
  call.stage = "returned" =>
    stats["hard_error"] + stats["cooling"] + stats["no_target"]
      = IF priority # "Critical" THEN 0
        ELSE IF Data THEN Cardinality(With("budget")) ELSE Cardinality(Skipped)

\* Once a local publish has announced what it skipped, every peer it admitted has
\* exactly one of a send and a queued announcement: none is left without a pull
\* path, none is offered what it was sent (as long as the topic has its state).
OnePathEachStep ==
  (/\ call.kind = "publish" /\ topic
   /\ call.stage \in {"announce", "tail"} /\ call'.stage \notin {"announce", "tail"})
    => Skipped \subseteq queued' /\ queued' \intersect With("attempted") = {}

\* OnePathEachStep, of every step.
OnePathEach == [][OnePathEachStep]_fanVars

-----------------------------------------------------------------------------
sends == <<kinds, topics, uncounted, origin>>
verifies == <<verify, timing, observed>>
meterVars == <<sends, verdicts, verifies, held, task, reader, started>>

Kinds == {"eager", "ihave"}
Verdicts == {"dropped", "deliver_only", "lazy_forward"}
Zero == [msgs |-> 0, bytes |-> 0]
NoVerdicts == [v \in Verdicts |-> 0]
Seconds == [over_1s |-> 1, over_5s |-> 5, over_30s |-> 30]
Thresholds == DOMAIN Seconds
Tasks == Senders \union Verifiers \union Validators
Idle == [at |-> "idle"]
Free == {}

\* The topics with an entry: `record` makes one only to add to it.
Listed == {t \in Topics : \E k \in Kinds : topics[t][k].msgs > 0}

MeterTypeOK ==
  /\ kinds \in [Kinds -> [msgs : 0..MaxSends, bytes : Nat]]
  /\ topics \in [Topics -> [Kinds -> [msgs : 0..MaxSends, bytes : Nat]]]
  /\ Cardinality(Listed) <= Cap
  /\ uncounted \in 0..MaxSends
  /\ origin \in [{"local", "relay"} -> Nat]
  /\ verdicts \in [all : [Verdicts -> 0..MaxVerdicts], byTopic : [Topics -> [Verdicts -> 0..MaxVerdicts]]]
  /\ verify \in [attempts : 0..MaxVerifies, failures : 0..MaxVerifies]
  /\ timing.over \in [Thresholds -> 0..MaxVerifies]
  /\ \A m \in {"topics", "verdicts"} : held[m] \subseteq Tasks \union {"reader"} /\ Cardinality(held[m]) <= 1
  /\ \A w \in Tasks : task[w].at \in {"idle", "kind_msgs", "kind_bytes", "topic", "topic_bytes", "origin",
                                      "verdict", "verdict_all", "attempts", "failures", "count", "total",
                                      "max"} \union Thresholds

MeterInit ==
  /\ kinds = [k \in Kinds |-> Zero] /\ topics = [t \in Topics |-> [k \in Kinds |-> Zero]] /\ uncounted = 0
  /\ origin = [local |-> 0, relay |-> 0]
  /\ verdicts = [all |-> NoVerdicts, byTopic |-> [t \in Topics |-> NoVerdicts]]
  /\ verify = [attempts |-> 0, failures |-> 0]
  /\ timing = [count |-> 0, total |-> 0, max |-> 0, over |-> [n \in Thresholds |-> 0]]
  /\ held = [topics |-> Free, verdicts |-> Free]
  /\ task = [w \in Tasks |-> Idle]
  /\ reader = [at |-> "idle", verdicts |-> verdicts, topics |-> topics, kind |-> kinds]
  /\ started = [send |-> 0, verify |-> 0, verdict |-> 0]
  /\ observed = [took |-> [d \in Durations |-> 0], failed |-> 0]

At(w, step) == task[w].at = step
To(w, step) == task' = [task EXCEPT ![w].at = step]
Ends(w) == task' = [task EXCEPT ![w] = Idle]
Lock(m, who) == held[m] = Free /\ held' = [held EXCEPT ![m] = {who}]
Unlock(m) == held' = [held EXCEPT ![m] = Free]

-----------------------------------------------------------------------------
(* A wire send: record_outbound, and record_publish_origin_bytes after it for  *)
(* a metered EAGER.                                                            *)
Send(w, t, k, size, from) ==
  /\ At(w, "idle") /\ started.send < MaxSends
  /\ k # "eager" => from = "none"
  /\ task' = [task EXCEPT ![w] = [at |-> "kind_msgs", topic |-> t, kind |-> k, size |-> size, from |-> from]]
  /\ started' = [started EXCEPT !.send = @ + 1]
  /\ UNCHANGED <<sends, verdicts, verifies, held, reader>>

record_outbound(w) ==
  /\ \/ /\ At(w, "kind_msgs") /\ To(w, "kind_bytes")
        /\ kinds' = [kinds EXCEPT ![task[w].kind].msgs = @ + 1]
     \/ /\ At(w, "kind_bytes") /\ To(w, "topic")
        /\ kinds' = [kinds EXCEPT ![task[w].kind].bytes = @ + task[w].size]
  /\ UNCHANGED <<topics, uncounted, origin, verdicts, verifies, held, reader, started>>

\* Where the send goes once its topic is recorded.
AfterTopic(w) == IF task[w].from = "none" THEN Ends(w) ELSE To(w, "origin")

TableFull(t) == t \notin Listed /\ Cardinality(Listed) >= Cap

\* Mutant: a full table is left without a trace.
CountNothing == UNCHANGED uncounted

CountUncounted == uncounted' = uncounted + 1

\* OutboundTopicMeters::record, its two additions under the table's mutex.
MeterTopic(w) ==
  /\ \/ /\ At(w, "topic") /\ held.topics = Free /\ TableFull(task[w].topic)
        /\ CountUncounted /\ AfterTopic(w)
        /\ UNCHANGED <<topics, held>>
     \/ /\ At(w, "topic") /\ Lock("topics", w) /\ ~TableFull(task[w].topic)
        /\ topics' = [topics EXCEPT ![task[w].topic][task[w].kind].msgs = @ + 1]
        /\ To(w, "topic_bytes") /\ UNCHANGED uncounted
     \/ /\ At(w, "topic_bytes") /\ Unlock("topics")
        /\ topics' = [topics EXCEPT ![task[w].topic][task[w].kind].bytes = @ + task[w].size]
        /\ AfterTopic(w) /\ UNCHANGED uncounted
  /\ UNCHANGED <<kinds, origin, verdicts, verifies, reader, started>>

record_publish_origin_bytes(w) ==
  /\ At(w, "origin") /\ Ends(w)
  /\ origin' = [origin EXCEPT ![task[w].from] = @ + task[w].size]
  /\ UNCHANGED <<kinds, topics, uncounted, verdicts, verifies, held, reader, started>>

-----------------------------------------------------------------------------
(* A validator's verdict other than ForwardAndDeliver: ValidatorMeters::record *)
(* adds to the topic and to the total under the mutex of the topic table.      *)
Verdict(w, t, v) ==
  /\ At(w, "idle") /\ started.verdict < MaxVerdicts
  /\ task' = [task EXCEPT ![w] = [at |-> "verdict", topic |-> t, verdict |-> v]]
  /\ started' = [started EXCEPT !.verdict = @ + 1]
  /\ UNCHANGED <<sends, verdicts, verifies, held, reader>>

\* Mutant: the mutex is given up before the total is added to.
record_verdict_split(w) ==
  /\ \/ /\ At(w, "verdict") /\ held.verdicts = Free /\ To(w, "verdict_all")
        /\ verdicts' = [verdicts EXCEPT !.byTopic[task[w].topic][task[w].verdict] = @ + 1]
     \/ /\ At(w, "verdict_all") /\ Ends(w)
        /\ verdicts' = [verdicts EXCEPT !.all[task[w].verdict] = @ + 1]
  /\ UNCHANGED <<sends, verifies, held, reader, started>>

record_verdict(w) ==
  /\ \/ /\ At(w, "verdict") /\ Lock("verdicts", w) /\ To(w, "verdict_all")
        /\ verdicts' = [verdicts EXCEPT !.byTopic[task[w].topic][task[w].verdict] = @ + 1]
     \/ /\ At(w, "verdict_all") /\ Unlock("verdicts") /\ Ends(w)
        /\ verdicts' = [verdicts EXCEPT !.all[task[w].verdict] = @ + 1]
  /\ UNCHANGED <<sends, verifies, reader, started>>

-----------------------------------------------------------------------------
(* One signature verification: PerKindVerifyMeter::record, then the verify     *)
(* stage's StageTimingStats::record.                                           *)
Verify(w, ok, d) ==
  /\ At(w, "idle") /\ started.verify < MaxVerifies
  /\ task' = [task EXCEPT ![w] = [at |-> "attempts", ok |-> ok, took |-> d]]
  /\ started' = [started EXCEPT !.verify = @ + 1]
  /\ observed' = [took |-> [observed.took EXCEPT ![d] = @ + 1],
                  failed |-> observed.failed + IF ok THEN 0 ELSE 1]
  /\ UNCHANGED <<sends, verdicts, verify, timing, held, reader>>

MeterVerify(w) ==
  /\ \/ /\ At(w, "attempts") /\ verify' = [verify EXCEPT !.attempts = @ + 1]
        /\ To(w, IF task[w].ok THEN "count" ELSE "failures")
     \/ /\ At(w, "failures") /\ verify' = [verify EXCEPT !.failures = @ + 1]
        /\ To(w, "count")
  /\ UNCHANGED <<sends, verdicts, timing, observed, held, reader, started>>

\* The next threshold in the order they are compared with, where the duration
\* reaches it: one it does not reach, no later one is.
Onward(w, n) == IF n \in Thresholds /\ task[w].took >= Seconds[n] THEN To(w, n) ELSE Ends(w)
After(n) == CASE n = "over_1s" -> "over_5s" [] n = "over_5s" -> "over_30s" [] OTHER -> "end"

MaxOf(max, d) == IF d > max THEN d ELSE max

StageRecord(w) ==
  /\ \/ /\ At(w, "count") /\ timing' = [timing EXCEPT !.count = @ + 1] /\ To(w, "total")
     \/ /\ At(w, "total") /\ timing' = [timing EXCEPT !.total = @ + task[w].took] /\ To(w, "max")
     \/ /\ At(w, "max") /\ timing' = [timing EXCEPT !.max = MaxOf(@, task[w].took)] /\ Onward(w, "over_1s")
     \/ \E n \in Thresholds :
          /\ At(w, n) /\ timing' = [timing EXCEPT !.over[n] = @ + 1]
          /\ Onward(w, After(n))
  /\ UNCHANGED <<sends, verdicts, verify, observed, held, reader, started>>

-----------------------------------------------------------------------------
(* PubSubStageStats::snapshot.  The loads of the counters no property relates  *)
(* are left out; a later snapshot starts over.                                 *)
ReadVerdicts ==
  /\ \/ /\ reader.at \in {"idle", "done"} /\ Lock("verdicts", "reader")
        /\ reader' = [reader EXCEPT !.at = "by_topic", !.verdicts.all = verdicts.all]
     \/ /\ reader.at = "by_topic" /\ Unlock("verdicts")
        /\ reader' = [reader EXCEPT !.at = "topics", !.verdicts.byTopic = verdicts.byTopic]
  /\ UNCHANGED <<sends, verdicts, verifies, task, started>>

ReadTopics ==
  /\ reader.at = "topics" /\ held.topics = Free
  /\ reader' = [reader EXCEPT !.at = "eager_msgs", !.topics = topics]
  /\ UNCHANGED <<sends, verdicts, verifies, held, task, started>>

LoadKind(from, k, field, to) ==
  reader.at = from /\ reader' = [reader EXCEPT !.at = to, !.kind[k][field] = kinds[k][field]]

ReadKinds ==
  /\ \/ LoadKind("eager_msgs", "eager", "msgs", "eager_bytes")
     \/ LoadKind("eager_bytes", "eager", "bytes", "ihave_msgs")
     \/ LoadKind("ihave_msgs", "ihave", "msgs", "ihave_bytes")
     \/ LoadKind("ihave_bytes", "ihave", "bytes", "done")
  /\ UNCHANGED <<sends, verdicts, verifies, held, task, started>>

MeterNext ==
  \/ \E w \in Senders :
       \/ \E t \in Topics, k \in Kinds, size \in Sizes, from \in {"none", "local", "relay"} :
            Send(w, t, k, size, from)
       \/ record_outbound(w)
       \/ MeterTopic(w)
       \/ record_publish_origin_bytes(w)
  \/ \E w \in Validators : (\E t \in Topics, v \in Verdicts : Verdict(w, t, v)) \/ record_verdict(w)
  \/ \E w \in Verifiers :
       (\E ok \in BOOLEAN, d \in Durations : Verify(w, ok, d)) \/ MeterVerify(w) \/ StageRecord(w)
  \/ ReadVerdicts
  \/ ReadTopics
  \/ ReadKinds

-----------------------------------------------------------------------------
TopicSum(table, k, field) == MapThenSumSet(LAMBDA t : table[t][k][field], Topics)

\* In a finished snapshot no topic sum exceeds the total of its kind, in
\* messages or in bytes: record_outbound adds to the kind before the topic and
\* snapshot reads the topics before the kinds, so what a topic shows the kind
\* shows too, whatever is recorded between two loads.
SnapshotCovers ==
  reader.at = "done" =>
    \A k \in Kinds, field \in {"msgs", "bytes"} : TopicSum(reader.topics, k, field) <= reader.kind[k][field]

\* In a finished snapshot a validator's total is the sum of its topics: both
\* sides of a verdict are added, and both are loaded, under the table's mutex.
VerdictsAddUp ==
  reader.at = "done" =>
    \A v \in Verdicts : reader.verdicts.all[v] = MapThenSumSet(LAMBDA t : reader.verdicts.byTopic[t][v], Topics)

\* Once no send is being recorded the books balance: every message is in its
\* topic's meter or among the uncounted, and the bytes of the origin split are
\* bytes of EAGER frames.
BooksBalance ==
  (\A w \in Senders : At(w, "idle")) =>
    /\ kinds["eager"].msgs + kinds["ihave"].msgs
         = TopicSum(topics, "eager", "msgs") + TopicSum(topics, "ihave", "msgs") + uncounted
    /\ origin.local + origin.relay <= kinds["eager"].bytes

\* Once no verification is being recorded the timing counters are those of the
\* durations observed, whoever recorded them in whatever order: no record is
\* lost between concurrent receive workers.
TimingExact ==
  (\A w \in Verifiers : At(w, "idle")) =>
    LET atLeast(n) == MapThenSumSet(LAMBDA d : IF d >= n THEN observed.took[d] ELSE 0, Durations)
    IN  /\ timing.count = atLeast(0) /\ verify.attempts = atLeast(0)
        /\ verify.failures = observed.failed
        /\ timing.total = MapThenSumSet(LAMBDA d : d * observed.took[d], Durations)
        /\ timing.max = Max({0} \union {d \in Durations : observed.took[d] > 0})
        /\ \A n \in Thresholds : timing.over[n] = atLeast(Seconds[n])

-----------------------------------------------------------------------------
(* Both parts. *)

vars == <<fanVars, meterVars>>

Init == FanInit /\ MeterInit

Next ==
  \/ FanNext /\ UNCHANGED meterVars
  \/ MeterNext /\ UNCHANGED fanVars

Spec == Init /\ [][Next]_vars
=============================================================================
