------------------------------- MODULE MCLive -------------------------------
(***************************************************************************)
(* What must eventually happen, part by part, under weak fairness of its   *)
(* tasks and timers and strong fairness of what waits in a fair queue or   *)
(* is offered again and again: the locks of the membership layer (module   *)
(* CommitLocks, extended here), and an instance of every other part that   *)
(* makes a promise of this kind.  A behaviour is about one part, named by  *)
(* focus.                                                                  *)
(***************************************************************************)
EXTENDS CommitLocks, Integers, Functions, TLC

CONSTANTS A, B, D, E, G, H, K, P, Q, S, X, Y, Z   \* model values

VARIABLES
  focus,   \* the part of the system that this behaviour is about
  v1, v2, v3, v4, v5, v6, v7, v8, v9, v10, v11, v12   \* its variables

mcvars == <<focus, holding, queue, pc, plan, reading, busy, waitFor, v1, v2, v3, v4, v5, v6, v7, v8, v9, v10, v11, v12>>

\* The relay forwards or only announces, the last node may answer anything.
LineVerdicts == (A :> {"ForwardAndDeliver"}) @@ (B :> {"ForwardAndDeliver", "LazyForward"})
                @@ (D :> {"DeliverOnly", "Drop"})

\* Two ids, of which one at a time may be claimed, announced by a peer that
\* answers and by one that need not.
Want == INSTANCE IwantClaims WITH
  Ids <- {A, B}, Peers <- {P, G}, Good <- G, Handlers <- {H}, MaxAge <- 2,
  MaxClaims <- 1, MaxDeferred <- 2, MaxAnnounce <- 2, state <- v1,
  handler <- v2, flush <- v3, asked <- v4, announced <- v5

\* Three sends for two permits.
Adapter == INSTANCE AdapterSend WITH
  Sends <- {X, Y, Z}, Permits <- 2, MaxLocks <- 3, Bootstrap <- FALSE,
  MaxFaults <- 2, connected <- v1, cached <- v2, lockmap <- v3, locks <- v4,
  permits <- v5, send <- v6, dialing <- v7, faults <- v8

\* A query among three nodes.
Ask == INSTANCE Presence WITH
  Nodes <- {A, B, D}, Beaconers <- {}, Rebooting <- {}, Askers <- {D},
  Joined <- {A, B, D}, Queries <- {Q}, Fanout <- 3, Burst <- 1, Ttl <- 1,
  QueryTtl <- 2, Enough <- 3, MaxTime <- 1, MaxBeacons <- 1, MaxBoots <- 0,
  Starters <- {}, Stoppers <- {}, Peers <- {}, MaxTasks <- {}, MaxSeq <- {},
  time <- v1, boot <- v2, seq <- v3, beacons <- v4, seen <- v5,
  pending <- v6, waiting <- v7, tokens <- v8, net <- v9, passed <- v10,
  task <- 0, senders <- 0, signal <- 0, handle <- 0, tx <- 0, starter <- 0,
  stopper <- 0, spawned <- 0, beacon_seq <- 0, own <- 0, peers <- 0,
  started <- 0

\* The beacon task under one caller that starts it and one that stops it.
Task == INSTANCE Presence WITH
  Nodes <- {}, Beaconers <- {}, Rebooting <- {}, Askers <- {}, Joined <- {},
  Queries <- {}, Fanout <- {}, Burst <- {}, Ttl <- {}, QueryTtl <- {},
  Enough <- {}, MaxTime <- {}, MaxBeacons <- {}, MaxBoots <- {},
  Starters <- {S}, Stoppers <- {X}, Peers <- {P}, MaxTasks <- 2, MaxSeq <- 2,
  task <- v1, senders <- v2, signal <- v3, handle <- v4, tx <- v5,
  starter <- v6, stopper <- v7, spawned <- v8, beacon_seq <- v9, own <- v10,
  peers <- v11, started <- v12, time <- 0, boot <- 0, seq <- 0, beacons <- 0,
  seen <- 0, pending <- 0, waiting <- 0, tokens <- 0, net <- 0, passed <- 0

\* Two searches that share a queue of answers.
Foaf == INSTANCE Coordinator WITH
  Nodes <- {}, Coords <- {}, Tasks <- {}, Queries <- {}, Seekers <- {},
  Addressed <- {}, Ahead <- {}, Life <- {}, Window <- {}, MaxTtl <- {},
  ChanCap <- {}, MaxAdverts <- {}, MaxTime <- {}, Callers <- {X, Y},
  Active <- {P}, Others <- {K}, Self <- S, Fanout <- 1, MaxInbox <- 1,
  MaxPublish <- 1, Targets <- {}, Providers <- {}, Starters <- {},
  Shard <- {}, Validity <- {}, MaxCollectors <- {}, MaxVersion <- {},
  MaxMoment <- {}, cached <- v1, inbox <- v2, call <- v3, asked <- v4,
  sentOut <- v5, now <- 0, published <- 0, chan <- 0, cache <- 0, known <- 0,
  seen <- 0, pending <- 0, task <- 0, net <- 0, answered <- 0, picked <- 0,
  moment <- 0, version <- 0, subscriptions <- 0, registered <- 0,
  starter <- 0, collector <- 0, summaries <- 0, latest <- 0

\* Nodes that start, crash and start again.
Starting == INSTANCE NodeStart WITH
  Apps <- {X}, Coordinators <- {Y}, ReadFails <- FALSE, MaxKeys <- 8,
  MaxCrash <- 3, file <- v1, node <- v2, keys <- v3, crashes <- v4

\* The loop that dials a list of seeds.
Seed == INSTANCE HyParView WITH
  Nodes <- {}, Boot <- {}, ActiveDegree <- {}, MaxActive <- {},
  MaxPassive <- {}, ActiveWalk <- {}, PassiveWalk <- {}, SampleActive <- {},
  SamplePassive <- {}, MaxShuffles <- {}, MaxLost <- {}, Seeds <- {A, B},
  List <- <<A, B, A>>, MaxAttempts <- 3, MaxDelay <- 4, ledger <- v1,
  pc <- v2, seed <- v3, todo <- v4, sleep <- v5, addrs <- v6, view <- v7,
  dials <- v8, owed <- v9, asked <- v10, active <- 0, passive <- 0,
  alive <- 0, joined <- 0, net <- 0, shuffles <- 0, lost <- 0

\* Three nodes, one of which shuffles.
Mix == INSTANCE HyParView WITH
  Nodes <- {A, B, D}, Boot <- {A}, ActiveDegree <- 2, MaxActive <- 2,
  MaxPassive <- 1, ActiveWalk <- 2, PassiveWalk <- 1, SampleActive <- 1,
  SamplePassive <- 1, MaxShuffles <- 1, MaxLost <- 1, Seeds <- {},
  List <- {}, MaxAttempts <- {}, MaxDelay <- {}, active <- v1, passive <- v2,
  alive <- v3, joined <- v4, net <- v5, shuffles <- v6, lost <- v7,
  ledger <- 0, pc <- 0, seed <- 0, todo <- 0, sleep <- 0, addrs <- 0,
  view <- 0, dials <- 0, owed <- 0, asked <- 0

\* One subscriber of one topic.
Reaping == INSTANCE Topics WITH
  Topics <- {K}, Subs <- {S}, Peers <- {P}, MaxMoves <- 4, Count <- {},
  ShardTopics <- {}, ShardOf <- {}, Ceilings <- {}, Workers <- {},
  Setters <- {}, Cleaners <- {}, Listers <- {}, Readers <- {}, topic <- v1,
  sub <- v2, row <- v3, score <- v4, cleaner <- v5, leaving <- v6,
  moves <- v7, lock <- 0, topics <- 0, ceiling <- 0, task <- 0, stored <- 0

\* Two calls of shutdown.
Stopping == INSTANCE Upkeep WITH
  Peers <- {}, MaxChanges <- {}, Tasks <- {D, E}, Flusher <- D,
  Callers <- {X, Y}, signal <- v1, task <- v2, aborted <- v3, batch <- v4,
  handles <- v5, call <- v6, connected <- 0, oracle <- 0, mesh <- 0,
  snapshot <- 0, health <- 0, refresh <- 0, poll <- 0, changes <- 0,
  away <- 0

\* A worker, the cleaner and two readers of the whole map.
Shard == INSTANCE Topics WITH
  Topics <- {}, Subs <- {}, Peers <- {}, MaxMoves <- {}, Count <- 2,
  ShardTopics <- {"u"}, ShardOf <- [t \in {"u"} |-> 2], Ceilings <- {1},
  Workers <- {P}, Setters <- {}, Cleaners <- {S}, Listers <- {X},
  Readers <- {Y}, lock <- v1, topics <- v2, ceiling <- v3, task <- v4,
  stored <- v5, topic <- 0, sub <- 0, row <- 0, score <- 0, cleaner <- 0,
  leaving <- 0, moves <- 0

\* Two peers that connect and disconnect.
Poll == INSTANCE Upkeep WITH
  Peers <- {P, Q}, MaxChanges <- 1, Tasks <- {}, Flusher <- {},
  Callers <- {}, connected <- v1, oracle <- v2, mesh <- v3, snapshot <- v4,
  health <- v5, refresh <- v6, poll <- v7, changes <- v8, away <- v9,
  signal <- 0, task <- 0, aborted <- 0, batch <- 0, handles <- 0, call <- 0

\* Three late peers, one of which never takes anything.
Offers == INSTANCE Announce WITH
  Local <- {}, Relayed <- {}, Peers <- {}, MaxPending <- {}, Enforcing <- {},
  MaxMoves <- {}, NPeers <- 3, MaxIds <- 2, Page <- 1, PerFlush <- 1,
  MaxOffers <- 2, MaxJoins <- 2, Stuck <- {1}, published <- v1, live <- v2,
  joined <- v3, joins <- v4, offers <- v5, last_served <- v6, picks <- v7,
  page <- v8, tried <- v9, mesh <- 0, cached <- 0, pending <- 0,
  advertised <- 0, withheld <- 0, stranded <- 0, fanout <- 0, flush <- 0,
  retry <- 0, owed <- 0, unsent <- 0, offered <- 0, outcomes <- 0

\* A line of three nodes that loses no frame; its first node publishes.
Tree == INSTANCE Plumtree WITH
  Nodes <- {A, B, D}, Links <- {<<A, B>>, <<B, D>>}, Ids <- {K},
  Payloads <- {P}, Origin <- [x \in {K} |-> A], Payload <- [x \in {K} |-> P],
  Verdicts <- LineVerdicts, Cold <- {}, Faults <- {"claim"}, MaxFrames <- 24,
  topic <- v1, net <- v2, publishing <- v3, validator <- v4, published <- v5,
  delivered <- v6

MCInit ==
  \/ focus = "locks" /\ Init /\ v1 = 0 /\ v2 = 0 /\ v3 = 0 /\ v4 = 0 /\ v5 = 0 /\ v6 = 0 /\ v7 = 0 /\ v8 = 0 /\ v9 = 0 /\ v10 = 0 /\ v11 = 0 /\ v12 = 0
  \/ focus = "iwant" /\ Want!Init /\ Init /\ v6 = 0 /\ v7 = 0 /\ v8 = 0 /\ v9 = 0 /\ v10 = 0 /\ v11 = 0 /\ v12 = 0
  \/ focus = "sends" /\ Adapter!Init /\ Init /\ v9 = 0 /\ v10 = 0 /\ v11 = 0 /\ v12 = 0
  \/ focus = "presence" /\ Ask!PresenceInit /\ Init /\ v11 = 0 /\ v12 = 0
  \/ focus = "beacon" /\ Task!BeaconInit /\ Init
  \/ focus = "search" /\ Foaf!SearchInit /\ Init /\ v6 = 0 /\ v7 = 0 /\ v8 = 0 /\ v9 = 0 /\ v10 = 0 /\ v11 = 0 /\ v12 = 0
  \/ focus = "start" /\ Starting!Init /\ Init /\ v5 = 0 /\ v6 = 0 /\ v7 = 0 /\ v8 = 0 /\ v9 = 0 /\ v10 = 0 /\ v11 = 0 /\ v12 = 0
  \/ focus = "join" /\ Seed!SeedInit /\ Init /\ v11 = 0 /\ v12 = 0
  \/ focus = "overlay" /\ Mix!OverlayInit /\ Init /\ v8 = 0 /\ v9 = 0 /\ v10 = 0 /\ v11 = 0 /\ v12 = 0
  \/ focus = "topics" /\ Reaping!LifeInit /\ Init /\ v8 = 0 /\ v9 = 0 /\ v10 = 0 /\ v11 = 0 /\ v12 = 0
  \/ focus = "stop" /\ Stopping!StopInit /\ Init /\ v7 = 0 /\ v8 = 0 /\ v9 = 0 /\ v10 = 0 /\ v11 = 0 /\ v12 = 0
  \/ focus = "shards" /\ Shard!ShardInit /\ Init /\ v6 = 0 /\ v7 = 0 /\ v8 = 0 /\ v9 = 0 /\ v10 = 0 /\ v11 = 0 /\ v12 = 0
  \/ focus = "refresh" /\ Poll!RefreshInit /\ Init /\ v10 = 0 /\ v11 = 0 /\ v12 = 0
  \/ focus = "late" /\ Offers!LateInit /\ Init /\ v10 = 0 /\ v11 = 0 /\ v12 = 0
  \/ focus = "pull" /\ Tree!Init /\ Init /\ v7 = 0 /\ v8 = 0 /\ v9 = 0 /\ v10 = 0 /\ v11 = 0 /\ v12 = 0

MCNext ==
  \/ focus = "locks" /\ Next /\ UNCHANGED <<focus, v1, v2, v3, v4, v5, v6, v7, v8, v9, v10, v11, v12>>
  \/ focus = "iwant" /\ Want!Next /\ UNCHANGED <<focus, holding, queue, pc, plan, reading, busy, waitFor, v6, v7, v8, v9, v10, v11, v12>>
  \/ focus = "sends" /\ Adapter!Next /\ UNCHANGED <<focus, holding, queue, pc, plan, reading, busy, waitFor, v9, v10, v11, v12>>
  \/ focus = "presence" /\ Ask!PresenceNext /\ UNCHANGED <<focus, holding, queue, pc, plan, reading, busy, waitFor, v11, v12>>
  \/ focus = "beacon" /\ Task!BeaconNext /\ UNCHANGED <<focus, holding, queue, pc, plan, reading, busy, waitFor>>
  \/ focus = "search" /\ Foaf!SearchNext /\ UNCHANGED <<focus, holding, queue, pc, plan, reading, busy, waitFor, v6, v7, v8, v9, v10, v11, v12>>
  \/ focus = "start" /\ Starting!Next /\ UNCHANGED <<focus, holding, queue, pc, plan, reading, busy, waitFor, v5, v6, v7, v8, v9, v10, v11, v12>>
  \/ focus = "join" /\ Seed!SeedNext /\ UNCHANGED <<focus, holding, queue, pc, plan, reading, busy, waitFor, v11, v12>>
  \/ focus = "overlay" /\ Mix!OverlayNext /\ UNCHANGED <<focus, holding, queue, pc, plan, reading, busy, waitFor, v8, v9, v10, v11, v12>>
  \/ focus = "topics" /\ Reaping!LifeNext /\ UNCHANGED <<focus, holding, queue, pc, plan, reading, busy, waitFor, v8, v9, v10, v11, v12>>
  \/ focus = "stop" /\ Stopping!StopNext /\ UNCHANGED <<focus, holding, queue, pc, plan, reading, busy, waitFor, v7, v8, v9, v10, v11, v12>>
  \/ focus = "shards" /\ Shard!ShardNext /\ UNCHANGED <<focus, holding, queue, pc, plan, reading, busy, waitFor, v6, v7, v8, v9, v10, v11, v12>>
  \/ focus = "refresh" /\ Poll!RefreshNext /\ UNCHANGED <<focus, holding, queue, pc, plan, reading, busy, waitFor, v10, v11, v12>>
  \/ focus = "late" /\ Offers!LateNext /\ UNCHANGED <<focus, holding, queue, pc, plan, reading, busy, waitFor, v10, v11, v12>>
  \/ focus = "pull" /\ Tree!Next /\ UNCHANGED <<focus, holding, queue, pc, plan, reading, busy, waitFor, v7, v8, v9, v10, v11, v12>>

MCSpec == MCInit /\ [][MCNext]_mcvars

\* The fairness of each part: its tasks are polled and its timers fire, and
\* fair queues serve every waiter.  In a behaviour about one part only its own
\* steps count, so that the n-th fair action is that of the part in focus.
Weak(n) ==
  \/ /\ focus = "locks" /\ UNCHANGED <<focus, v1, v2, v3, v4, v5, v6, v7, v8, v9, v10, v11, v12>>
     /\ \/ n = 1 /\ Grant("gate")
        \/ n = 2 /\ Grant("pending")
        \/ n = 3 /\ Grant("indirect")
        \/ n = 4 /\ Grant("states")
        \/ n = 5 /\ Grant("active")
        \/ n = 6 /\ Grant("passive")
        \/ n = 7 /\ TaskStep("maintenance")
        \/ n = 8 /\ TaskStep("timeout")
        \/ n = 9 /\ \E t \in Users : TaskStep(t)
        \/ n = 10 /\ \E c \in Committers : CommitStep(c)
  \/ /\ focus = "iwant" /\ UNCHANGED <<focus, vars, v6, v7, v8, v9, v10, v11, v12>>
     /\ \/ n = 1 /\ Want!Tick
        \/ n = 2 /\ Want!FlushSnapshot
        \/ n = 3 /\ (Want!IwantSent(H) \/ Want!IwantDeferred(H) \/ Want!IwantFailed(H))
        \/ n = 4 /\ A \in v4 /\ Want!Receive(A)
        \/ n = 5 /\ B \in v4 /\ Want!Receive(B)
        \/ n = 6 /\ (\E w \in v3 : Want!FlushSent(w) \/ Want!FlushFailed(w) \/ Want!FlushRefused(w))
  \/ /\ focus = "sends" /\ UNCHANGED <<focus, vars, v9, v10, v11, v12>>
     /\ \/ n = 1 /\ Adapter!Step(X)
        \/ n = 2 /\ Adapter!Step(Y)
        \/ n = 3 /\ Adapter!Step(Z)
        \/ n = 4 /\ Adapter!Locked(X)
        \/ n = 5 /\ Adapter!Locked(Y)
        \/ n = 6 /\ Adapter!Locked(Z)
        \/ n = 7 /\ Adapter!Acquire(X)
        \/ n = 8 /\ Adapter!Acquire(Y)
        \/ n = 9 /\ Adapter!Acquire(Z)
  \/ /\ focus = "presence" /\ UNCHANGED <<focus, vars, v11, v12>>
     /\ \/ n = 1 /\ (\E m \in v9 : m.to = A /\ Ask!HandleResponse(m))
        \/ n = 2 /\ (\E m \in v9 : m.to = B /\ Ask!HandleResponse(m))
        \/ n = 3 /\ (\E m \in v9 : m.to = D /\ Ask!HandleResponse(m))
        \/ n = 4 /\ (\E m \in v9, ok \in BOOLEAN : m.to = A /\ \E to \in Ask!Selection(A) : Ask!HandleQuery(m, ok, to))
        \/ n = 5 /\ (\E m \in v9, ok \in BOOLEAN : m.to = B /\ \E to \in Ask!Selection(B) : Ask!HandleQuery(m, ok, to))
        \/ n = 6 /\ (\E m \in v9, ok \in BOOLEAN : m.to = D /\ \E to \in Ask!Selection(D) : Ask!HandleQuery(m, ok, to))
        \/ n = 7 /\ (\E w \in v7 : Ask!QueryReturns(w))
  \/ /\ focus = "beacon" /\ UNCHANGED <<focus, vars>>
     /\ \/ n = 1 /\ (Task!Spawn(S) \/ Task!StoreSender(S))
        \/ n = 2 /\ (Task!TaskJoined(X) \/ Task!Abort(X))
        \/ n = 3 /\ Task!TaskStep(1)
        \/ n = 4 /\ Task!TaskStep(2)
        \/ n = 5 /\ Task!StoreHandle(S)
        \/ n = 6 /\ Task!TakeHandle(X)
        \/ n = 7 /\ Task!Exit(1)
        \/ n = 8 /\ Task!Exit(2)
  \/ /\ focus = "search" /\ UNCHANGED <<focus, vars, v6, v7, v8, v9, v10, v11, v12>>
     /\ \/ n = 1 /\ Foaf!ReflectEnds(X)
        \/ n = 2 /\ Foaf!ReflectEnds(Y)
        \/ n = 3 /\ Foaf!CollectEnds(X, TRUE)
        \/ n = 4 /\ Foaf!CollectEnds(Y, TRUE)
        \/ n = 5 /\ Foaf!Store(X)
        \/ n = 6 /\ Foaf!Store(Y)
  \/ /\ focus = "start" /\ UNCHANGED <<focus, vars, v5, v6, v7, v8, v9, v10, v11, v12>>
     /\ \/ n = 1 /\ Starting!load_or_create(X, TRUE)
        \/ n = 2 /\ Starting!load_or_create(Y, TRUE)
        \/ n = 3 /\ Starting!SaveTruncates(X)
        \/ n = 4 /\ Starting!SaveTruncates(Y)
        \/ n = 5 /\ Starting!SaveWrites(X)
        \/ n = 6 /\ Starting!SaveWrites(Y)
        \/ n = 7 /\ Starting!Build(X)
        \/ n = 8 /\ Starting!Build(Y)
  \/ /\ focus = "join" /\ UNCHANGED <<focus, vars, v11, v12>>
     /\ \/ n = 1 /\ Seed!SeedNext
  \/ /\ focus = "overlay" /\ UNCHANGED <<focus, vars, v8, v9, v10, v11, v12>>
     /\ \/ n = 1 /\ (\E m \in v5 : Mix!Dispatch(m))
  \/ /\ focus = "topics" /\ UNCHANGED <<focus, vars, v8, v9, v10, v11, v12>>
     /\ \/ n = 1 /\ Reaping!Cleaner
        \/ n = 2 /\ Reaping!Register(S)
        \/ n = 3 /\ Reaping!IdleExpires(K)
        \/ n = 4 /\ Reaping!ScoreAges(<<K, P>>)
  \/ /\ focus = "stop" /\ UNCHANGED <<focus, vars, v7, v8, v9, v10, v11, v12>>
     /\ \/ n = 1 /\ Stopping!Call(X)
        \/ n = 2 /\ Stopping!Call(Y)
        \/ n = 3 /\ Stopping!AbortTakes(D)
        \/ n = 4 /\ Stopping!AbortTakes(E)
        \/ n = 5 /\ Stopping!SeesSignal(D)
        \/ n = 6 /\ Stopping!SeesSignal(E)
  \/ /\ focus = "shards" /\ UNCHANGED <<focus, vars, v6, v7, v8, v9, v10, v11, v12>>
     /\ \/ n = 1 /\ Shard!Step(P)
        \/ n = 2 /\ Shard!Step(S)
        \/ n = 3 /\ Shard!Step(X)
        \/ n = 4 /\ Shard!Step(Y)
  \/ /\ focus = "refresh" /\ UNCHANGED <<focus, vars, v10, v11, v12>>
     /\ \/ n = 1 /\ Poll!Refresher
        \/ n = 2 /\ Poll!Poller
  \/ /\ focus = "pull" /\ UNCHANGED <<focus, vars, v7, v8, v9, v10, v11, v12>>
     /\ \/ n = 1 /\ (\E x \in v3 : Tree!PublishSettle(A, x))
        \/ n = 2 /\ (\E f \in v2 : Tree!handle_eager(B, f))
        \/ n = 3 /\ (\E f \in v2 : Tree!handle_eager(D, f))
        \/ n = 4 /\ (\E f \in v2 : Tree!handle_ihave(B, f))
        \/ n = 5 /\ (\E f \in v2 : Tree!handle_ihave(D, f))
        \/ n = 6 /\ (\E f \in v2 : Tree!handle_iwant(A, f))
        \/ n = 7 /\ (\E f \in v2 : Tree!handle_iwant(B, f))
        \/ n = 8 /\ Tree!flush_ihave_batches(A)
        \/ n = 9 /\ Tree!flush_ihave_batches(B)
  \/ /\ focus = "late" /\ UNCHANGED <<focus, vars, v10, v11, v12>>
     /\ \/ n = 1 /\ Offers!Flush
        \/ n = 2 /\ Offers!BackoffEnds(1)
        \/ n = 3 /\ Offers!BackoffEnds(2)
        \/ n = 4 /\ Offers!BackoffEnds(3)

Strong(n) ==
  \/ /\ focus = "iwant" /\ UNCHANGED <<focus, vars, v6, v7, v8, v9, v10, v11, v12>>
     /\ \/ n = 1 /\ Want!handle_ihave(H, G, <<A>>) /\ v2' # v2
        \/ n = 2 /\ (\/ v2[H].peer = G /\ A \in Range(v2[H].ids) /\ Want!IwantSent(H)
                   \/ \E w \in v3 : w.peer = G /\ A \in Range(w.ids) /\ Want!FlushSent(w))
  \/ /\ focus = "sends" /\ UNCHANGED <<focus, vars, v9, v10, v11, v12>>
     /\ \/ n = 1 /\ Adapter!Acquire(X)
        \/ n = 2 /\ Adapter!Locked(X)

MCLiveSpec ==
  /\ MCSpec
  /\ \A n \in 1..10 : WF_mcvars(Weak(n))
  /\ \A n \in 1..2 : SF_mcvars(Strong(n))

\* What a part has under way, at rest.  Sends, searches and calls of shutdown
\* are interchangeable, so that the promise to one of them is the promise to all.
AtRest(n) ==
  /\ focus = "locks" => \/ n = 1 /\ \A c \in Committers : pc[c] = "idle"
                        \/ n = 2 /\ ~IsWaiting("maintenance")
                        \/ n = 3 /\ ~IsWaiting("timeout")
                        \/ n = 4 /\ \A u \in Users : ~IsWaiting(u)
  /\ focus = "sends" => v6[X].pc \in {"idle", "done"}
  /\ focus = "beacon" => n > 2 \/ ~Task!Running(n) \/ v2[n]
  /\ focus = "search" => v3[X].pc \notin {"collect", "store", "reflect"}
  /\ focus = "start" => v2[X].pc = "running"
  /\ focus = "join" => v2 \in {"joined", "failed"}
  /\ focus = "overlay" => v5 = {}
  /\ focus = "stop" => \/ v6[X].stage = "none"
                       \/ v6[X].stage = "returned" /\ \A t \in {D, E} : v2[t] = "ended"
  /\ focus = "shards" => Shard!At(<<P, S, X, Y>>[n], "idle")
  /\ focus = "late" => n \notin {2, 3} \/ v5[n] = Offers!NoOffer

\* What a part that repairs itself gets back to.
Repaired ==
  /\ focus = "presence" => \A m \in v9 : m.kind # "Query"
  /\ focus = "topics" => Reaping!IdleGone /\ Reaping!NoStaleScore
  /\ focus = "refresh" => Poll!Settled
  /\ focus = "pull" => K \notin v5 \/ \A n \in {A, B, D} : Tree!has_message(v1[n], K)

-----------------------------------------------------------------------------

\* What is begun comes to an end: a commit of the active view although its
\* locks stay contended, a wait for a lock of the membership layer, a send
\* through the adapter that got its permit, a beacon task that lost its
\* sender, a search for coordinators, a start after a crash, the dialling of
\* seeds, the walks of join and shuffle messages, a call of shutdown although
\* a task hangs, whoever waits for a shard of the topic map, and the offer of
\* late ids to a peer that takes them.
Ends == \A n \in 1..4 : []<>AtRest(n)

\* The parts that repair themselves get there: a presence query runs out; an
\* idle topic is reaped and the scores of those who left are forgotten; the
\* snapshot of connected peers catches up with the transport; a message
\* reaches every node by push or pull, also behind a relay whose validator
\* forwards nothing; and an announced message is pulled, again and again,
\* although claims, requests and cached messages are lost.
Settles ==
  /\ <>[]Repaired
  /\ []<>(focus = "iwant" => A \in v1.cached)
=============================================================================
