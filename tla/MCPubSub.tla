------------------------------ MODULE MCPubSub ------------------------------
(***************************************************************************)
(* What the broadcast layer keeps for its peers and topics: admission and  *)
(* egress limits, cooling, scores, timing, the shards of the topic map,    *)
(* and its diagnostics.  Each part is an instance of its own module, and a *)
(* behaviour is about one part, named by focus.                            *)
(***************************************************************************)
EXTENDS Integers, Sequences, FiniteSets, TLC

CONSTANTS k1, k2, k3, k4, P, R, S, W, X, Y   \* model values

VARIABLES
  focus,   \* the part of the system that this behaviour is about
  v1, v2, v3, v4, v5, v6, v7, v8, v9, v10, v11, v12   \* its variables

vars == <<focus, v1, v2, v3, v4, v5, v6, v7, v8, v9, v10, v11, v12>>

\* Intents of the egress limiter: two topics of one peer, and k3, another peer's,
\* that needs two slots; then k1 and k4, a newer and larger form of it.
OfPeer == k1 :> "p" @@ k2 :> "p" @@ k3 :> "q"
OfScope == k1 :> "s" @@ k2 :> "t" @@ k3 :> "u"
OfFamily == k1 :> 1 @@ k2 :> 2 @@ k3 :> 3
OfSize == k1 :> 2 @@ k2 :> 1 @@ k3 :> 3
FormPeer == k1 :> "p" @@ k4 :> "p"
FormScope == k1 :> "s" @@ k4 :> "s"
FormFamily == k1 :> 1 @@ k4 :> 1
FormSize == k1 :> 2 @@ k4 :> 3

\* X and Y stand for two peers, threads or sends of one kind.
Symmetry == Permutations({X, Y})

OnShard == [t \in {"t", "u"} |-> IF t = "t" THEN 1 ELSE 2]

\* Three intents and one waiter for a bucket that holds four tokens.
Limit == INSTANCE Egress WITH
  Keys <- {k1, k2, k3}, Peer <- OfPeer, Scope <- OfScope, Family <- OfFamily,
  Size <- OfSize, DataKeys <- {k2}, Waiters <- {W}, Burst <- 4, Rate <- 1,
  SoftRate <- 0, MaxFrame <- 3, Quantum <- 2, CriticalSlots <- 1,
  MaxAge <- 2, MaxLife <- 2, OrdinaryMax <- 2, CriticalMax <- 1,
  OrdinaryWaiters <- 1, CriticalWaiters <- 1, PeerOrdinary <- 1,
  PeerWaiters <- 2, MaxCredit <- 1, Configs <- {"ShedNormal"},
  Elapsed <- {0, 1}, MaxGeneration <- 1, lim <- v1, waiter <- v2, ghost <- v3

\* Two forms of one intent, the newer of which takes the place of the older.
Form == INSTANCE Egress WITH
  Keys <- {k1, k4}, Peer <- FormPeer, Scope <- FormScope,
  Family <- FormFamily, Size <- FormSize, DataKeys <- {k1}, Waiters <- {W},
  Burst <- 3, Rate <- 1, SoftRate <- 0, MaxFrame <- 3, Quantum <- 2,
  CriticalSlots <- 1, MaxAge <- 2, MaxLife <- 3, OrdinaryMax <- 2,
  CriticalMax <- 1, OrdinaryWaiters <- 1, CriticalWaiters <- 1,
  PeerOrdinary <- 1, PeerWaiters <- 2, MaxCredit <- 1,
  Configs <- {"ShedNormal"}, Elapsed <- {0, 1}, MaxGeneration <- 1,
  lim <- v1, waiter <- v2, ghost <- v3

\* One call for two peers.
Fan == INSTANCE Fanout WITH
  Peers <- {X, Y}, Senders <- {}, Verifiers <- {}, Validators <- {},
  Topics <- {}, Sizes <- {}, Durations <- {}, Cap <- {}, MaxSends <- {},
  MaxVerifies <- {}, MaxVerdicts <- {}, priority <- v1, limiter <- v2,
  topic <- v3, call <- v4, fate <- v5, sent <- v6, queued <- v7, stats <- v8,
  kinds <- 0, topics <- 0, uncounted <- 0, origin <- 0, verdicts <- 0,
  verify <- 0, timing <- 0, held <- 0, task <- 0, reader <- 0, started <- 0,
  observed <- 0

\* The tasks that send in the background.
Sends == INSTANCE Background WITH
  Peers <- {X, Y}, Topics <- {"b", "n"}, BulkTopics <- {"b"},
  Tasks <- {"flush", "reply", "retry"}, Threshold <- 2, task <- v1,
  work <- v2, present <- v3, depth <- v4, permits <- v5

\* The same with the anti-entropy task.
Digest == INSTANCE Background WITH
  Peers <- {P}, Topics <- {"b", "n"}, BulkTopics <- {"b"},
  Tasks <- {"flush", "reply", "digest"}, Threshold <- 2, task <- v1,
  work <- v2, present <- v3, depth <- v4, permits <- v5

\* Two timeouts in a window cool a peer.
Cool == INSTANCE Cooling WITH
  Slots <- {X, Y}, Initial <- 1, MaxCooldown <- 2, Threshold <- 2,
  Window <- 1, Bypass <- 1, Retention <- 2, MaxTime <- 2, MaxSends <- 3,
  Topics <- {}, Peers <- {}, now <- v1, member <- v2, cool <- v3,
  score <- v4, slot <- v5, sends <- v6, probes <- v7, late <- v8,
  event <- v9, cooled <- 0, mesh <- 0, row <- 0, known <- 0, report <- 0

\* One timeout cools a peer, so that recovery probes overlap.
Probe == INSTANCE Cooling WITH
  Slots <- {X, Y}, Initial <- 1, MaxCooldown <- 1, Threshold <- 1,
  Window <- 1, Bypass <- 1, Retention <- 2, MaxTime <- 2, MaxSends <- 4,
  Topics <- {}, Peers <- {}, now <- v1, member <- v2, cool <- v3,
  score <- v4, slot <- v5, sends <- v6, probes <- v7, late <- v8,
  event <- v9, cooled <- 0, mesh <- 0, row <- 0, known <- 0, report <- 0

\* Two threads report on one peer.
Score == INSTANCE PeerScoring WITH
  Topics <- {"t"}, Peers <- {P}, Threads <- {X, Y},
  Reported <- {"deficit", "invalid"}, MaxIdle <- 1, Cap <- 2, MaxTime <- 2,
  MaxEvents <- 2, Samples <- {}, Ring <- {}, Percent <- {}, Half <- {},
  Floor <- {}, Ceiling <- {}, clock <- v1, entry <- v2, call <- v3,
  log <- v4, ring <- 0, next <- 0, filled <- 0, recent <- 0

\* A ring of five samples.
Time == INSTANCE PeerScoring WITH
  Topics <- {}, Peers <- {}, Threads <- {}, Reported <- {}, MaxIdle <- {},
  Cap <- {}, MaxTime <- {}, MaxEvents <- {}, Samples <- {1, 2, 4, 9},
  Ring <- 5, Percent <- 70, Half <- 5, Floor <- 2, Ceiling <- 12, ring <- v1,
  next <- v2, filled <- v3, recent <- v4, clock <- 0, entry <- 0, call <- 0,
  log <- 0

\* Two verifications that overlap.
Verify == INSTANCE Fanout WITH
  Peers <- {}, Senders <- {}, Verifiers <- {X, Y}, Validators <- {},
  Topics <- {}, Sizes <- {}, Durations <- {0, 1, 7, 30}, Cap <- 1,
  MaxSends <- 0, MaxVerifies <- 2, MaxVerdicts <- 0, kinds <- v1,
  topics <- v2, uncounted <- v3, origin <- v4, verdicts <- v5, verify <- v6,
  timing <- v7, held <- v8, task <- v9, reader <- v10, started <- v11,
  observed <- v12, priority <- 0, limiter <- 0, topic <- 0, call <- 0,
  fate <- 0, sent <- 0, queued <- 0, stats <- 0

\* Two validations that overlap.
Verdict == INSTANCE Fanout WITH
  Peers <- {}, Senders <- {}, Verifiers <- {}, Validators <- {X, Y},
  Topics <- {"t", "u"}, Sizes <- {}, Durations <- {0, 1, 7, 30}, Cap <- 1,
  MaxSends <- 0, MaxVerifies <- 0, MaxVerdicts <- 3, kinds <- v1,
  topics <- v2, uncounted <- v3, origin <- v4, verdicts <- v5, verify <- v6,
  timing <- v7, held <- v8, task <- v9, reader <- v10, started <- v11,
  observed <- v12, priority <- 0, limiter <- 0, topic <- 0, call <- 0,
  fate <- 0, sent <- 0, queued <- 0, stats <- 0

\* Two shards, a worker, a change of the ceiling and a reader.
Shard == INSTANCE Topics WITH
  Topics <- {}, Subs <- {}, Peers <- {}, MaxMoves <- {}, Count <- 2,
  ShardTopics <- {"t", "u"}, ShardOf <- OnShard, Ceilings <- {1, 2},
  Workers <- {W}, Setters <- {S}, Cleaners <- {}, Listers <- {},
  Readers <- {R}, lock <- v1, topics <- v2, ceiling <- v3, task <- v4,
  stored <- v5, topic <- 0, sub <- 0, row <- 0, score <- 0, cleaner <- 0,
  leaving <- 0, moves <- 0

\* One peer in two topics.
Table == INSTANCE Cooling WITH
  Slots <- {}, Initial <- {}, MaxCooldown <- {}, Threshold <- {},
  Window <- {}, Bypass <- {}, Retention <- {}, MaxTime <- {}, MaxSends <- {},
  Topics <- {"t", "u"}, Peers <- {P}, cooled <- v1, mesh <- v2, row <- v3,
  known <- v4, report <- v5, now <- 0, member <- 0, cool <- 0, score <- 0,
  slot <- 0, sends <- 0, probes <- 0, late <- 0, event <- 0

\* Two peers in one topic.
Report == INSTANCE Cooling WITH
  Slots <- {}, Initial <- {}, MaxCooldown <- {}, Threshold <- {},
  Window <- {}, Bypass <- {}, Retention <- {}, MaxTime <- {}, MaxSends <- {},
  Topics <- {"t"}, Peers <- {X, Y}, cooled <- v1, mesh <- v2, row <- v3,
  known <- v4, report <- v5, now <- 0, member <- 0, cool <- 0, score <- 0,
  slot <- 0, sends <- 0, probes <- 0, late <- 0, event <- 0

Init ==
  \/ focus = "egress" /\ Limit!Init /\ v4 = 0 /\ v5 = 0 /\ v6 = 0 /\ v7 = 0 /\ v8 = 0 /\ v9 = 0 /\ v10 = 0 /\ v11 = 0 /\ v12 = 0
  \/ focus = "forms" /\ Form!Init /\ v4 = 0 /\ v5 = 0 /\ v6 = 0 /\ v7 = 0 /\ v8 = 0 /\ v9 = 0 /\ v10 = 0 /\ v11 = 0 /\ v12 = 0
  \/ focus = "fanout" /\ Fan!FanInit /\ v9 = 0 /\ v10 = 0 /\ v11 = 0 /\ v12 = 0
  \/ focus = "background" /\ Sends!Init /\ v6 = 0 /\ v7 = 0 /\ v8 = 0 /\ v9 = 0 /\ v10 = 0 /\ v11 = 0 /\ v12 = 0
  \/ focus = "digest" /\ Digest!Init /\ v6 = 0 /\ v7 = 0 /\ v8 = 0 /\ v9 = 0 /\ v10 = 0 /\ v11 = 0 /\ v12 = 0
  \/ focus = "cooling" /\ Cool!CoolInit /\ v10 = 0 /\ v11 = 0 /\ v12 = 0
  \/ focus = "probing" /\ Probe!CoolInit /\ v10 = 0 /\ v11 = 0 /\ v12 = 0
  \/ focus = "scores" /\ Score!ScoreInit /\ v5 = 0 /\ v6 = 0 /\ v7 = 0 /\ v8 = 0 /\ v9 = 0 /\ v10 = 0 /\ v11 = 0 /\ v12 = 0
  \/ focus = "timing" /\ Time!TimingInit /\ v5 = 0 /\ v6 = 0 /\ v7 = 0 /\ v8 = 0 /\ v9 = 0 /\ v10 = 0 /\ v11 = 0 /\ v12 = 0
  \/ focus = "verify" /\ Verify!MeterInit
  \/ focus = "verdicts" /\ Verdict!MeterInit
  \/ focus = "shards" /\ Shard!ShardInit /\ v6 = 0 /\ v7 = 0 /\ v8 = 0 /\ v9 = 0 /\ v10 = 0 /\ v11 = 0 /\ v12 = 0
  \/ focus = "table" /\ Table!TableInit /\ v6 = 0 /\ v7 = 0 /\ v8 = 0 /\ v9 = 0 /\ v10 = 0 /\ v11 = 0 /\ v12 = 0
  \/ focus = "report" /\ Report!TableInit /\ v6 = 0 /\ v7 = 0 /\ v8 = 0 /\ v9 = 0 /\ v10 = 0 /\ v11 = 0 /\ v12 = 0

Next ==
  \/ focus = "egress" /\ Limit!Next /\ UNCHANGED <<focus, v4, v5, v6, v7, v8, v9, v10, v11, v12>>
  \/ focus = "forms" /\ Form!Next /\ UNCHANGED <<focus, v4, v5, v6, v7, v8, v9, v10, v11, v12>>
  \/ focus = "fanout" /\ Fan!FanNext /\ UNCHANGED <<focus, v9, v10, v11, v12>>
  \/ focus = "background" /\ Sends!Next /\ UNCHANGED <<focus, v6, v7, v8, v9, v10, v11, v12>>
  \/ focus = "digest" /\ Digest!Next /\ UNCHANGED <<focus, v6, v7, v8, v9, v10, v11, v12>>
  \/ focus = "cooling" /\ Cool!CoolNext /\ UNCHANGED <<focus, v10, v11, v12>>
  \/ focus = "probing" /\ Probe!CoolNext /\ UNCHANGED <<focus, v10, v11, v12>>
  \/ focus = "scores" /\ Score!ScoreNext /\ UNCHANGED <<focus, v5, v6, v7, v8, v9, v10, v11, v12>>
  \/ focus = "timing" /\ Time!TimingNext /\ UNCHANGED <<focus, v5, v6, v7, v8, v9, v10, v11, v12>>
  \/ focus = "verify" /\ Verify!MeterNext /\ UNCHANGED <<focus>>
  \/ focus = "verdicts" /\ Verdict!MeterNext /\ UNCHANGED <<focus>>
  \/ focus = "shards" /\ Shard!ShardNext /\ UNCHANGED <<focus, v6, v7, v8, v9, v10, v11, v12>>
  \/ focus = "table" /\ Table!TableNext /\ UNCHANGED <<focus, v6, v7, v8, v9, v10, v11, v12>>
  \/ focus = "report" /\ Report!TableNext /\ UNCHANGED <<focus, v6, v7, v8, v9, v10, v11, v12>>

Spec == Init /\ [][Next]_vars

-----------------------------------------------------------------------------

\* The type invariant of every part.
Types ==
  /\ focus = "egress" => Limit!TypeOK
  /\ focus = "forms" => Form!TypeOK
  /\ focus = "fanout" => Fan!FanTypeOK
  /\ focus = "background" => Sends!TypeOK
  /\ focus = "digest" => Digest!TypeOK
  /\ focus = "cooling" => Cool!CoolTypeOK
  /\ focus = "probing" => Probe!CoolTypeOK
  /\ focus = "scores" => Score!ScoreTypeOK
  /\ focus = "timing" => Time!TimingTypeOK
  /\ focus = "verify" => Verify!MeterTypeOK
  /\ focus = "verdicts" => Verdict!MeterTypeOK
  /\ focus = "shards" => Shard!ShardTypeOK
  /\ focus = "table" => Table!TableTypeOK
  /\ focus = "report" => Report!TableTypeOK

\* While the limiter has tokens for an intent it does not sit on them, and
\* ordinary intents get their share of the slots although critical ones are
\* served first (the service round of the IHAVE egress limiter).
OrdinaryNotStarved ==
  /\ focus = "egress" => Limit!OrdinaryNotStarved
  /\ focus = "egress" => Limit!WorkConserving
  /\ focus = "forms" => Form!OrdinaryNotStarved
  /\ focus = "forms" => Form!WorkConserving

\* A step takes and gives only what its cause accounts for: an intent leaves
\* the limiter by being served, shed or replaced; a score moves with the
\* evidence for it and a sweep only lowers it; and a topic that is stored was
\* built under the ceiling in force.
NothingInvented ==
  [][/\ focus = "egress" => Limit!NothingFromNothingStep
     /\ focus = "forms" => Form!NothingFromNothingStep
     /\ focus = "scores" => Score!EvidenceMovesStep
     /\ focus = "scores" => Score!SweepBoundsStep
     /\ focus = "shards" => Shard!StoredIsCurrentStep]_vars

\* What the layer counts is what happened, on every early return and under
\* every overlap of two threads: the counters of a fan-out, the meters of
\* verifications and verdicts, decayed scores, the percentile of the ring of
\* timings, and the report of suppressed peers.
CountsExact ==
  /\ focus = "fanout" => Fan!CountsTrue
  /\ focus = "fanout" => Fan!OneCounterPerSkip
  /\ focus = "verify" => Verify!TimingExact
  /\ focus = "verdicts" => Verdict!VerdictsAddUp
  /\ focus = "scores" => Score!DecayExact
  /\ focus = "timing" => Time!IsPercentile
  /\ focus = "timing" => Time!CoversTail
  /\ focus = "table" => Table!ReportAddsUp
  /\ focus = "report" => Report!ReportAddsUp

\* Once a local publish has announced what it skipped, every peer it admitted has
\* exactly one of a send and a queued announcement: none is left without a pull
\* path, none is offered what it was sent (as long as the topic has its state).
OnePathEach == [][focus = "fanout" => Fan!OnePathEachStep]_vars

\* Every claimed send attempt of a background task belongs to a send that
\* will give it back, and the depth of bulk work covers the sends that
\* reserved it (claim_topic_send_attempts_for_state and the background tasks
\* of the pubsub crate).
PermitsOwned ==
  /\ focus = "background" => Sends!PermitsOwned
  /\ focus = "background" => Sends!DepthReturned
  /\ focus = "digest" => Digest!PermitsOwned
  /\ focus = "digest" => Digest!DepthCovers

\* The cooling of a peer ends early only by the success of the recovery probe
\* of this very suppression, it starts only with the timeouts that earn it,
\* health moves one step at a time, and a sweep forgets no evidence that is
\* still in its window (the peer health of the pubsub crate).
LiftedByItsProbe ==
  [][/\ focus = "cooling" => Cool!LiftedByItsProbeStep
     /\ focus = "cooling" => Cool!SuppressionEarnedStep
     /\ focus = "cooling" => Cool!HealthMovesStep
     /\ focus = "cooling" => Cool!EvidenceKeptStep
     /\ focus = "probing" => Probe!LiftedByItsProbeStep
     /\ focus = "probing" => Probe!SuppressionEarnedStep
     /\ focus = "probing" => Probe!HealthMovesStep
     /\ focus = "probing" => Probe!EvidenceKeptStep]_vars

\* A topic somebody could look at has the ceiling that is in force: creation
\* reads it under the topic's shard and the setter changes it under all of
\* them, so no topic is created with the old value after the rewriting.
CeilingInForce == focus = "shards" => Shard!CeilingInForce

\* A peer that is cooled is shown as cooled in every topic that knows it, and
\* no cooldown is shorter than the first or longer than the longest one
\* (record_peer_suppressed, decay_on_success).
CoolingShown ==
  /\ focus = "table" => Table!CoolingShown
  /\ focus = "report" => Report!CoolingShown
  /\ focus = "cooling" => Cool!CooldownBounded
  /\ focus = "probing" => Probe!CooldownBounded
=============================================================================
