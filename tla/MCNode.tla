------------------------------- MODULE MCNode -------------------------------
(***************************************************************************)
(* The parts of a node around its broadcast layer: what it keeps for each  *)
(* peer and session, what it reads from and writes to disk, what it signs, *)
(* and the services of presence, coordinators and rendezvous.  Each part   *)
(* is an instance of its own module, and a behaviour is about one part,    *)
(* named by focus.                                                         *)
(***************************************************************************)
EXTENDS Integers, Sequences, FiniteSets, TLC

CONSTANTS A, B, K, P, Q, R, S, T, V, W, X, Y, Z   \* model values

VARIABLES
  focus,   \* the part of the system that this behaviour is about
  v1, v2, v3, v4, v5, v6, v7, v8, v9, v10, v11, v12, v13, v14, v15, v16   \* its variables

vars == <<focus, v1, v2, v3, v4, v5, v6, v7, v8, v9, v10, v11, v12, v13, v14, v15, v16>>

\* One key, a reconnect, and a receiver that may evict the key.
KeyRefs == INSTANCE Policy WITH
  Keys <- {K}, MaxPending <- 1, MaxData <- 1, MaxMoves <- 1, MaxRotate <- 0,
  Evicting <- {"b"}, Peers <- {}, MaxRev <- {}, MaxSessions <- {},
  MaxCrash <- {}, link <- v1, cur <- v2, cache <- v3, out <- v4, busy <- v5,
  ctl <- v6, wire <- v7, taught <- v8, greeted <- v9, disk <- 0, floors <- 0,
  floor_failed <- 0, reject_v1 <- 0, topic <- 0, grants <- 0, revisions <- 0,
  rolled <- 0, append <- 0, session <- 0, queued <- 0, egress <- 0,
  ingress <- 0, required <- 0, open <- 0, crashes <- 0

\* One key, and a session token that rotates at one side.
KeyRotation == INSTANCE Policy WITH
  Keys <- {K}, MaxPending <- 1, MaxData <- 1, MaxMoves <- 0, MaxRotate <- 1,
  Evicting <- {}, Peers <- {}, MaxRev <- {}, MaxSessions <- {},
  MaxCrash <- {}, link <- v1, cur <- v2, cache <- v3, out <- v4, busy <- v5,
  ctl <- v6, wire <- v7, taught <- v8, greeted <- v9, disk <- 0, floors <- 0,
  floor_failed <- 0, reject_v1 <- 0, topic <- 0, grants <- 0, revisions <- 0,
  rolled <- 0, append <- 0, session <- 0, queued <- 0, egress <- 0,
  ingress <- 0, required <- 0, open <- 0, crashes <- 0

\* A peer with two sessions, two revisions of the policy, one crash.
Mig == INSTANCE Policy WITH
  Keys <- {}, MaxPending <- {}, MaxData <- {}, MaxMoves <- {},
  MaxRotate <- {}, Evicting <- {}, Peers <- {P}, MaxRev <- 2,
  MaxSessions <- 2, MaxCrash <- 1, disk <- v1, floors <- v2,
  floor_failed <- v3, reject_v1 <- v4, topic <- v5, grants <- v6,
  revisions <- v7, rolled <- v8, append <- v9, session <- v10, queued <- v11,
  egress <- v12, ingress <- v13, required <- v14, open <- v15,
  crashes <- v16, link <- 0, cur <- 0, cache <- 0, out <- 0, busy <- 0,
  ctl <- 0, wire <- 0, taught <- 0, greeted <- 0

\* Two peers compete for the one entry of the session table.
Ses == INSTANCE Sessions WITH
  Peers <- {P, Q}, Senders <- {S}, MaxPeers <- 1, MaxGen <- 2, MaxToken <- 3,
  MaxFrames <- 1, gen <- v1, last <- v2, entries <- v3, recent <- v4,
  next <- v5, task <- v6, inbox <- v7, sent <- v8, issued <- v9

\* Two peers, of which the table may track one.
Map == INSTANCE PeerMap WITH
  Peers <- {P, Q}, Known <- {P}, MaxPeers <- 1, PeerTtl <- 1, MaxTime <- 1,
  MaxDrops <- 1, Direct <- {}, MaxFrames <- {}, live <- v1, seen <- v2,
  boot <- v3, connector <- v4, adds <- v5, refresh <- v6, closer <- v7,
  atClose <- v8, now <- v9, drops <- v10, calls <- 0, direct <- 0,
  channel <- 0, open <- 0, answered <- 0, read <- 0, dropped <- 0

\* A node that sends two beacons and may restart, and one that asks for it.
Pres == INSTANCE Presence WITH
  Nodes <- {A, B}, Beaconers <- {A}, Rebooting <- {A}, Askers <- {B},
  Joined <- {A, B}, Queries <- {Q}, Fanout <- 3, Burst <- 1, Ttl <- 1,
  QueryTtl <- 1, Enough <- 3, MaxTime <- 1, MaxBeacons <- 2, MaxBoots <- 1,
  Starters <- {}, Stoppers <- {}, Peers <- {}, MaxTasks <- {}, MaxSeq <- {},
  time <- v1, boot <- v2, seq <- v3, beacons <- v4, seen <- v5,
  pending <- v6, waiting <- v7, tokens <- v8, net <- v9, passed <- v10,
  task <- 0, senders <- 0, signal <- 0, handle <- 0, tx <- 0, starter <- 0,
  stopper <- 0, spawned <- 0, beacon_seq <- 0, own <- 0, peers <- 0,
  started <- 0

\* Three tasks of one node change its advert cache.
Ads == INSTANCE Coordinator WITH
  Nodes <- {A}, Coords <- {P, Q}, Tasks <- {T, V, W}, Queries <- {X},
  Seekers <- {}, Addressed <- {Q}, Ahead <- {}, Life <- 2, Window <- 1,
  MaxTtl <- 1, ChanCap <- 1, MaxAdverts <- 2, MaxTime <- 2, Callers <- {},
  Active <- {}, Others <- {}, Self <- {}, Fanout <- {}, MaxInbox <- {},
  MaxPublish <- {}, Targets <- {}, Providers <- {}, Starters <- {},
  Shard <- {}, Validity <- {}, MaxCollectors <- {}, MaxVersion <- {},
  MaxMoment <- {}, now <- v1, published <- v2, chan <- v3, cache <- v4,
  known <- v5, seen <- v6, pending <- v7, task <- v8, net <- v9,
  answered <- v10, picked <- v11, cached <- 0, inbox <- 0, call <- 0,
  asked <- 0, sentOut <- 0, moment <- 0, version <- 0, subscriptions <- 0,
  registered <- 0, starter <- 0, collector <- 0, summaries <- 0, latest <- 0

\* A node asks another one for coordinators.
Find == INSTANCE Coordinator WITH
  Nodes <- {A, B}, Coords <- {P}, Tasks <- {T}, Queries <- {X},
  Seekers <- {A}, Addressed <- {P}, Ahead <- {}, Life <- 1, Window <- 1,
  MaxTtl <- 1, ChanCap <- 1, MaxAdverts <- 1, MaxTime <- 1, Callers <- {},
  Active <- {}, Others <- {}, Self <- {}, Fanout <- {}, MaxInbox <- {},
  MaxPublish <- {}, Targets <- {}, Providers <- {}, Starters <- {},
  Shard <- {}, Validity <- {}, MaxCollectors <- {}, MaxVersion <- {},
  MaxMoment <- {}, now <- v1, published <- v2, chan <- v3, cache <- v4,
  known <- v5, seen <- v6, pending <- v7, task <- v8, net <- v9,
  answered <- v10, picked <- v11, cached <- 0, inbox <- 0, call <- 0,
  asked <- 0, sentOut <- 0, moment <- 0, version <- 0, subscriptions <- 0,
  registered <- 0, starter <- 0, collector <- 0, summaries <- 0, latest <- 0

\* Two targets on one shard, and two searches that start together.
Rend == INSTANCE Coordinator WITH
  Nodes <- {}, Coords <- {}, Tasks <- {}, Queries <- {}, Seekers <- {},
  Addressed <- {}, Ahead <- {}, Life <- {}, Window <- {}, MaxTtl <- {},
  ChanCap <- {}, MaxAdverts <- {}, MaxTime <- {}, Callers <- {},
  Active <- {}, Others <- {}, Self <- {}, Fanout <- {}, MaxInbox <- {},
  MaxPublish <- {}, Targets <- {1, 2}, Providers <- {P}, Starters <- {S, T},
  Shard <- [x \in {1, 2} |-> 7], Validity <- 1, MaxCollectors <- 3,
  MaxVersion <- 2, MaxMoment <- 1, moment <- v1, version <- v2,
  subscriptions <- v3, registered <- v4, starter <- v5, collector <- v6,
  summaries <- v7, latest <- v8, now <- 0, published <- 0, chan <- 0,
  cache <- 0, known <- 0, seen <- 0, pending <- 0, task <- 0, net <- 0,
  answered <- 0, picked <- 0, cached <- 0, inbox <- 0, call <- 0, asked <- 0,
  sentOut <- 0

\* Two processes save and load the same file, one may crash.
File == INSTANCE PeerCaches WITH
  Peers <- {}, Capacity <- {}, Scores <- {}, MaxTime <- {}, MaxUses <- {},
  FilePeers <- {P}, Procs <- {X, Y}, MaxSaves <- 3, MaxCrash <- 1,
  entries <- v1, file <- v2, snap <- v3, writer <- v4, readers <- v5,
  call <- v6, saves <- v7, crashes <- v8, order <- 0, adverts <- 0,
  poisoned <- 0, now <- 0, used <- 0

\* Every kind of signed record, over two hops.
Rec == INSTANCE Records WITH
  Kinds <- {"summary", "advert", "header", "presence"},
  SummaryForms <- {"whole"}, Hops <- 2, MaxSets <- 2, kind <- v1,
  release <- v2, rec <- v3, sig <- v4, asSigned <- v5, sent <- v6,
  copies <- v7, sets <- v8

\* Three adverts for two places.
Lru == INSTANCE PeerCaches WITH
  Peers <- {P, Q, R}, Capacity <- 2, Scores <- {0, 1}, MaxTime <- 1,
  MaxUses <- 4, FilePeers <- {}, Procs <- {}, MaxSaves <- {}, MaxCrash <- {},
  order <- v1, adverts <- v2, poisoned <- v3, now <- v4, used <- v5,
  entries <- 0, file <- 0, snap <- 0, writer <- 0, readers <- 0, call <- 0,
  saves <- 0, crashes <- 0

\* Two subscribers of one topic.
Reaping == INSTANCE Topics WITH
  Topics <- {T}, Subs <- {S, V}, Peers <- {P}, MaxMoves <- 5, Count <- {},
  ShardTopics <- {}, ShardOf <- {}, Ceilings <- {}, Workers <- {},
  Setters <- {}, Cleaners <- {}, Listers <- {}, Readers <- {}, topic <- v1,
  sub <- v2, row <- v3, score <- v4, cleaner <- v5, leaving <- v6,
  moves <- v7, lock <- 0, topics <- 0, ceiling <- 0, task <- 0, stored <- 0

\* The beacon task under one caller that starts it and two that stop it.
Task == INSTANCE Presence WITH
  Nodes <- {}, Beaconers <- {}, Rebooting <- {}, Askers <- {}, Joined <- {},
  Queries <- {}, Fanout <- {}, Burst <- {}, Ttl <- {}, QueryTtl <- {},
  Enough <- {}, MaxTime <- {}, MaxBeacons <- {}, MaxBoots <- {},
  Starters <- {S}, Stoppers <- {X, Y}, Peers <- {P}, MaxTasks <- 2,
  MaxSeq <- 2, task <- v1, senders <- v2, signal <- v3, handle <- v4,
  tx <- v5, starter <- v6, stopper <- v7, spawned <- v8, beacon_seq <- v9,
  own <- v10, peers <- v11, started <- v12, time <- 0, boot <- 0, seq <- 0,
  beacons <- 0, seen <- 0, pending <- 0, waiting <- 0, tokens <- 0, net <- 0,
  passed <- 0

\* Two searches that share a queue of answers.
Foaf == INSTANCE Coordinator WITH
  Nodes <- {}, Coords <- {}, Tasks <- {}, Queries <- {}, Seekers <- {},
  Addressed <- {}, Ahead <- {}, Life <- {}, Window <- {}, MaxTtl <- {},
  ChanCap <- {}, MaxAdverts <- {}, MaxTime <- {}, Callers <- {X, Y},
  Active <- {P, Q}, Others <- {K}, Self <- S, Fanout <- 1, MaxInbox <- 1,
  MaxPublish <- 1, Targets <- {}, Providers <- {}, Starters <- {},
  Shard <- {}, Validity <- {}, MaxCollectors <- {}, MaxVersion <- {},
  MaxMoment <- {}, cached <- v1, inbox <- v2, call <- v3, asked <- v4,
  sentOut <- v5, now <- 0, published <- 0, chan <- 0, cache <- 0, known <- 0,
  seen <- 0, pending <- 0, task <- 0, net <- 0, answered <- 0, picked <- 0,
  moment <- 0, version <- 0, subscriptions <- 0, registered <- 0,
  starter <- 0, collector <- 0, summaries <- 0, latest <- 0

\* Nodes that start, crash and start again.
Boot == INSTANCE NodeStart WITH
  Apps <- {X}, Coordinators <- {Y}, ReadFails <- FALSE, MaxKeys <- 8,
  MaxCrash <- 3, file <- v1, node <- v2, keys <- v3, crashes <- v4

\* Four messages for three places and four bytes.
Store == INSTANCE MessageCache WITH
  Ids <- {P, Q, R, S}, Sizes <- {1, 3, 5}, MaxCount <- 3, MaxBytes <- 4,
  MaxAge <- 2, lru <- v1, entry <- v2, total <- v3, live <- v4

\* Two senders and a table of byte counts with room for one topic.
Bytes == INSTANCE Fanout WITH
  Peers <- {}, Senders <- {X, Y}, Verifiers <- {}, Validators <- {},
  Topics <- {"t", "u"}, Sizes <- {1}, Durations <- {}, Cap <- 1,
  MaxSends <- 2, MaxVerifies <- 0, MaxVerdicts <- 0, kinds <- v1,
  topics <- v2, uncounted <- v3, origin <- v4, verdicts <- v5, verify <- v6,
  timing <- v7, held <- v8, task <- v9, reader <- v10, started <- v11,
  observed <- v12, priority <- 0, limiter <- 0, topic <- 0, call <- 0,
  fate <- 0, sent <- 0, queued <- 0, stats <- 0

\* Two peers that connect and disconnect while the transport is asked.
Poll == INSTANCE Upkeep WITH
  Peers <- {X, Y}, MaxChanges <- 1, Tasks <- {}, Flusher <- {},
  Callers <- {}, connected <- v1, oracle <- v2, mesh <- v3, snapshot <- v4,
  health <- v5, refresh <- v6, poll <- v7, changes <- v8, away <- v9,
  signal <- 0, task <- 0, aborted <- 0, batch <- 0, handles <- 0, call <- 0

\* Two calls of shutdown.
Stopping == INSTANCE Upkeep WITH
  Peers <- {}, MaxChanges <- {}, Tasks <- {S, T}, Flusher <- S,
  Callers <- {X, Y}, signal <- v1, task <- v2, aborted <- v3, batch <- v4,
  handles <- v5, call <- v6, connected <- 0, oracle <- 0, mesh <- 0,
  snapshot <- 0, health <- 0, refresh <- 0, poll <- 0, changes <- 0,
  away <- 0

\* Two frames, and a handler for one stream type.
Route == INSTANCE PeerMap WITH
  Peers <- {}, Known <- {}, MaxPeers <- {}, PeerTtl <- {}, MaxTime <- {},
  MaxDrops <- {}, Direct <- {"PubSub"}, MaxFrames <- 2, calls <- v1,
  direct <- v2, channel <- v3, open <- v4, answered <- v5, read <- v6,
  dropped <- v7, live <- 0, seen <- 0, boot <- 0, connector <- 0, adds <- 0,
  refresh <- 0, closer <- 0, atClose <- 0, now <- 0, drops <- 0

Init ==
  \/ focus = "keys" /\ KeyRefs!KeyInit /\ v10 = 0 /\ v11 = 0 /\ v12 = 0 /\ v13 = 0 /\ v14 = 0 /\ v15 = 0 /\ v16 = 0
  \/ focus = "rotation" /\ KeyRotation!KeyInit /\ v10 = 0 /\ v11 = 0 /\ v12 = 0 /\ v13 = 0 /\ v14 = 0 /\ v15 = 0 /\ v16 = 0
  \/ focus = "migration" /\ Mig!LegacyInit
  \/ focus = "sessions" /\ Ses!Init /\ v10 = 0 /\ v11 = 0 /\ v12 = 0 /\ v13 = 0 /\ v14 = 0 /\ v15 = 0 /\ v16 = 0
  \/ focus = "peers" /\ Map!PeerInit /\ v11 = 0 /\ v12 = 0 /\ v13 = 0 /\ v14 = 0 /\ v15 = 0 /\ v16 = 0
  \/ focus = "presence" /\ Pres!PresenceInit /\ v11 = 0 /\ v12 = 0 /\ v13 = 0 /\ v14 = 0 /\ v15 = 0 /\ v16 = 0
  \/ focus = "adverts" /\ Ads!AdvertInit /\ v12 = 0 /\ v13 = 0 /\ v14 = 0 /\ v15 = 0 /\ v16 = 0
  \/ focus = "query" /\ Find!AdvertInit /\ v12 = 0 /\ v13 = 0 /\ v14 = 0 /\ v15 = 0 /\ v16 = 0
  \/ focus = "rendezvous" /\ Rend!RendezvousInit /\ v9 = 0 /\ v10 = 0 /\ v11 = 0 /\ v12 = 0 /\ v13 = 0 /\ v14 = 0 /\ v15 = 0 /\ v16 = 0
  \/ focus = "file" /\ File!FileInit /\ v9 = 0 /\ v10 = 0 /\ v11 = 0 /\ v12 = 0 /\ v13 = 0 /\ v14 = 0 /\ v15 = 0 /\ v16 = 0
  \/ focus = "records" /\ Rec!Init /\ v9 = 0 /\ v10 = 0 /\ v11 = 0 /\ v12 = 0 /\ v13 = 0 /\ v14 = 0 /\ v15 = 0 /\ v16 = 0
  \/ focus = "cache" /\ Lru!LruInit /\ v6 = 0 /\ v7 = 0 /\ v8 = 0 /\ v9 = 0 /\ v10 = 0 /\ v11 = 0 /\ v12 = 0 /\ v13 = 0 /\ v14 = 0 /\ v15 = 0 /\ v16 = 0
  \/ focus = "topics" /\ Reaping!LifeInit /\ v8 = 0 /\ v9 = 0 /\ v10 = 0 /\ v11 = 0 /\ v12 = 0 /\ v13 = 0 /\ v14 = 0 /\ v15 = 0 /\ v16 = 0
  \/ focus = "beacon" /\ Task!BeaconInit /\ v13 = 0 /\ v14 = 0 /\ v15 = 0 /\ v16 = 0
  \/ focus = "search" /\ Foaf!SearchInit /\ v6 = 0 /\ v7 = 0 /\ v8 = 0 /\ v9 = 0 /\ v10 = 0 /\ v11 = 0 /\ v12 = 0 /\ v13 = 0 /\ v14 = 0 /\ v15 = 0 /\ v16 = 0
  \/ focus = "start" /\ Boot!Init /\ v5 = 0 /\ v6 = 0 /\ v7 = 0 /\ v8 = 0 /\ v9 = 0 /\ v10 = 0 /\ v11 = 0 /\ v12 = 0 /\ v13 = 0 /\ v14 = 0 /\ v15 = 0 /\ v16 = 0
  \/ focus = "messages" /\ Store!Init /\ v5 = 0 /\ v6 = 0 /\ v7 = 0 /\ v8 = 0 /\ v9 = 0 /\ v10 = 0 /\ v11 = 0 /\ v12 = 0 /\ v13 = 0 /\ v14 = 0 /\ v15 = 0 /\ v16 = 0
  \/ focus = "bytes" /\ Bytes!MeterInit /\ v13 = 0 /\ v14 = 0 /\ v15 = 0 /\ v16 = 0
  \/ focus = "refresh" /\ Poll!RefreshInit /\ v10 = 0 /\ v11 = 0 /\ v12 = 0 /\ v13 = 0 /\ v14 = 0 /\ v15 = 0 /\ v16 = 0
  \/ focus = "stop" /\ Stopping!StopInit /\ v7 = 0 /\ v8 = 0 /\ v9 = 0 /\ v10 = 0 /\ v11 = 0 /\ v12 = 0 /\ v13 = 0 /\ v14 = 0 /\ v15 = 0 /\ v16 = 0
  \/ focus = "routes" /\ Route!RouteInit /\ v8 = 0 /\ v9 = 0 /\ v10 = 0 /\ v11 = 0 /\ v12 = 0 /\ v13 = 0 /\ v14 = 0 /\ v15 = 0 /\ v16 = 0

Next ==
  \/ focus = "keys" /\ KeyRefs!KeyNext /\ UNCHANGED <<focus, v10, v11, v12, v13, v14, v15, v16>>
  \/ focus = "rotation" /\ KeyRotation!KeyNext /\ UNCHANGED <<focus, v10, v11, v12, v13, v14, v15, v16>>
  \/ focus = "migration" /\ Mig!LegacyNext /\ UNCHANGED <<focus>>
  \/ focus = "sessions" /\ Ses!Next /\ UNCHANGED <<focus, v10, v11, v12, v13, v14, v15, v16>>
  \/ focus = "peers" /\ Map!PeerNext /\ UNCHANGED <<focus, v11, v12, v13, v14, v15, v16>>
  \/ focus = "presence" /\ Pres!PresenceNext /\ UNCHANGED <<focus, v11, v12, v13, v14, v15, v16>>
  \/ focus = "adverts" /\ Ads!AdvertNext /\ UNCHANGED <<focus, v12, v13, v14, v15, v16>>
  \/ focus = "query" /\ Find!AdvertNext /\ UNCHANGED <<focus, v12, v13, v14, v15, v16>>
  \/ focus = "rendezvous" /\ Rend!RendezvousNext /\ UNCHANGED <<focus, v9, v10, v11, v12, v13, v14, v15, v16>>
  \/ focus = "file" /\ File!FileNext /\ UNCHANGED <<focus, v9, v10, v11, v12, v13, v14, v15, v16>>
  \/ focus = "records" /\ Rec!Next /\ UNCHANGED <<focus, v9, v10, v11, v12, v13, v14, v15, v16>>
  \/ focus = "cache" /\ Lru!LruNext /\ UNCHANGED <<focus, v6, v7, v8, v9, v10, v11, v12, v13, v14, v15, v16>>
  \/ focus = "topics" /\ Reaping!LifeNext /\ UNCHANGED <<focus, v8, v9, v10, v11, v12, v13, v14, v15, v16>>
  \/ focus = "beacon" /\ Task!BeaconNext /\ UNCHANGED <<focus, v13, v14, v15, v16>>
  \/ focus = "search" /\ Foaf!SearchNext /\ UNCHANGED <<focus, v6, v7, v8, v9, v10, v11, v12, v13, v14, v15, v16>>
  \/ focus = "start" /\ Boot!Next /\ UNCHANGED <<focus, v5, v6, v7, v8, v9, v10, v11, v12, v13, v14, v15, v16>>
  \/ focus = "messages" /\ Store!Next /\ UNCHANGED <<focus, v5, v6, v7, v8, v9, v10, v11, v12, v13, v14, v15, v16>>
  \/ focus = "bytes" /\ Bytes!MeterNext /\ UNCHANGED <<focus, v13, v14, v15, v16>>
  \/ focus = "refresh" /\ Poll!RefreshNext /\ UNCHANGED <<focus, v10, v11, v12, v13, v14, v15, v16>>
  \/ focus = "stop" /\ Stopping!StopNext /\ UNCHANGED <<focus, v7, v8, v9, v10, v11, v12, v13, v14, v15, v16>>
  \/ focus = "routes" /\ Route!RouteNext /\ UNCHANGED <<focus, v8, v9, v10, v11, v12, v13, v14, v15, v16>>

Spec == Init /\ [][Next]_vars

-----------------------------------------------------------------------------

\* The type invariant of every part.
Types ==
  /\ focus = "keys" => KeyRefs!KeyTypeOK
  /\ focus = "rotation" => KeyRotation!KeyTypeOK
  /\ focus = "migration" => Mig!LegacyTypeOK
  /\ focus = "sessions" => Ses!TypeOK
  /\ focus = "peers" => Map!PeerTypeOK
  /\ focus = "presence" => Pres!PresenceTypeOK
  /\ focus = "adverts" => Ads!AdvertTypeOK
  /\ focus = "query" => Find!AdvertTypeOK
  /\ focus = "rendezvous" => Rend!RendezvousTypeOK
  /\ focus = "file" => File!FileTypeOK
  /\ focus = "records" => Rec!TypeOK
  /\ focus = "cache" => Lru!LruTypeOK
  /\ focus = "topics" => Reaping!LifeTypeOK
  /\ focus = "beacon" => Task!BeaconTypeOK
  /\ focus = "search" => Foaf!SearchTypeOK
  /\ focus = "start" => Boot!TypeOK
  /\ focus = "messages" => Store!TypeOK
  /\ focus = "bytes" => Bytes!MeterTypeOK
  /\ focus = "refresh" => Poll!RefreshTypeOK
  /\ focus = "stop" => Stopping!StopTypeOK
  /\ focus = "routes" => Route!RouteTypeOK


\* A legacy frame goes out only on a session for which the policy in force
\* grants it; a floor that the process has seen is never left again; and a
\* revision of the policy is never taken back by an older one (permitted,
\* refresh and grant of migration.rs).
LegacyOnlyWhileGranted ==
  [][/\ focus = "migration" => Mig!LegacyOnlyWhileGrantedStep
     /\ focus = "migration" => Mig!FloorHoldsStep
     /\ focus = "migration" => Mig!NoReplayStep]_vars

\* A frame that the application reads names the session it came in on, and a
\* guarded frame leaves on the session it was admitted for, whatever
\* reconnects happen in between: every session in use was handed out for the
\* connection it is used with (stamped_receive_session and
\* frame_guarded_admission of udp_transport_adapter.rs).
FrameProvenance == focus = "sessions" => Ses!SessionInvariant



\* A record that was signed verifies at every hop, and what its signer put
\* into it arrives (the signable and the wire form of the records of the
\* types, rendezvous and coordinator crates).
ArrivesAsSigned ==
  /\ focus = "records" => Rec!VerifiesAsSigned
  /\ focus = "records" => Rec!SignatureTravels
  /\ focus = "records" => Rec!ArrivesWhole



=============================================================================
