---------------------------- MODULE Coordinator -----------------------------
(***************************************************************************)
(* The coordinator crate: a coordinator publishes adverts, every node      *)
(* keeps the adverts it hears of in a map in front of the bootstrap cache  *)
(* of the QUIC layer (GossipCacheAdapter), and a node that knows none asks *)
(* its peers with a FIND_COORDINATOR query (CoordinatorHandler,            *)
(* Bootstrap).                                                             *)
(*                                                                         *)
(* insert_advert and remove change the map and the bootstrap cache in two  *)
(* steps with an await between them, so tasks of one node interleave.  An  *)
(* advert is its coordinator and the time it starts at; signatures verify. *)
(*                                                                         *)
(* CoordinatorClient of the runtime crate: callers of one node publish the *)
(* node's advert, look for coordinators and ask for their own address. All *)
(* of them read the one inbound queue of the transport, so a message goes  *)
(* to whichever caller takes it.  An advert is the peer it is about.       *)
(*                                                                         *)
(* RendezvousClient of the runtime crate: a node subscribes to the shard   *)
(* of a target, starts a collector task per target and keeps the newest    *)
(* provider summaries the collectors hand it.  A summary is its target,    *)
(* its provider, a version and the time it expires at.                     *)
(*                                                                         *)
(* start_collecting_for_target looks for a collector first and stores its  *)
(* own last, so two calls can both start one; targets share shards, so a   *)
(* collector also gets the summaries of other targets.                     *)
(***************************************************************************)
EXTENDS Integers, FiniteSets, Sequences, FiniteSetsExt, SequencesExt

CONSTANTS
  Nodes, Coords, Tasks, Queries,
  Seekers,    \* the nodes that look for a coordinator
  Addressed,  \* the coordinators whose adverts carry an address
  Ahead,      \* the nodes whose wall clock is one unit ahead
  Life,       \* an advert's validity
  Window,     \* thirty seconds: the life of a query and of a seen id
  MaxTtl, ChanCap, MaxAdverts, MaxTime

CONSTANTS
  Callers,
  Active,      \* the active view; the peers a query can be sent to
  Others,      \* the coordinators adverts are about, other than this node
  Self,
  Fanout, MaxInbox, MaxPublish

CONSTANTS
  Targets, Providers, Starters,
  Shard,           \* calculate_shard, as a function on the targets
  Validity,        \* how long a summary is valid
  MaxCollectors, MaxVersion, MaxMoment

VARIABLES
  now, published,
  chan,       \* chan[c]: adverts made by the periodic publisher, not yet sent
  cache,      \* cache[n][c]: start of the advert of c in n's map, or None
  known,      \* known[n]: the peers n last added to the bootstrap cache
  seen, pending,  \* times at which n saw, or asked, a query; or None
  task,       \* task[n][t]: the insertion or removal that task is at
  net, answered, picked

VARIABLES
  cached,      \* cached_adverts: the peers of the adverts held, in order
  inbox,       \* messages waiting in the transport's receive queue
  call,        \* call[c]: where the call of c is
  asked,       \* queries and requests peers have yet to answer
  sentOut

VARIABLES
  moment, version,
  subscriptions,   \* the shards this client subscribed to
  registered,      \* active_collectors: target -> collector, or 0
  starter,         \* starter[s]: where a call of start_collecting is
  collector,       \* collector[i]: its target and the messages it has to read
  summaries,       \* cached_summaries[t]: a sequence, as in the code
  latest           \* latest[t][p]: the last summary a collector of t was sent

advertVars == <<now, published, chan, cache, known, seen, pending, task, net, answered, picked>>

None == -1
IdleTask == [pc |-> "idle", peer |-> CHOOSE c \in Coords : TRUE, todo |-> {}, reply |-> FALSE]
unix_millis(n) == IF n \in Ahead THEN now + 1 ELSE now

AdvertInit ==
  /\ now = 0 /\ published = 0 /\ net = {}
  /\ chan = [c \in Coords |-> <<>>]
  /\ cache = [n \in Nodes |-> [c \in Coords |-> None]]
  /\ known = [n \in Nodes |-> {}]
  /\ seen = [n \in Nodes |-> [q \in Queries |-> None]]
  /\ pending = [n \in Nodes |-> [q \in Queries |-> None]]
  /\ task = [n \in Nodes |-> [t \in Tasks |-> IdleTask]]
  /\ answered = [n \in Nodes |-> [q \in Queries |-> 0]]
  /\ picked = [n \in Nodes |-> {}]

is_valid(n, from) == from <= unix_millis(n) /\ unix_millis(n) <= from + Life
get_all_adverts(n) == {c \in Coords : cache[n][c] # None /\ is_valid(n, cache[n][c])}

-----------------------------------------------------------------------------
(* The publisher of a coordinator node.                                    *)

\* A tick of the periodic publisher; it waits while its channel is full.
PublishTick(c) ==
  /\ published < MaxAdverts /\ Len(chan[c]) < ChanCap
  /\ published' = published + 1
  /\ chan' = [chan EXCEPT ![c] = Append(@, now)]
  /\ UNCHANGED <<now, cache, known, seen, pending, task, net, answered, picked>>

\* The coordinator sends its next advert to the peers it is connected to.
SendAdvert(c, peers) ==
  /\ chan[c] # <<>>
  /\ net' = net \cup {[kind |-> "Advert", to |-> n, peer |-> c, from |-> Head(chan[c])] : n \in peers}
  /\ chan' = [chan EXCEPT ![c] = Tail(@)]
  /\ UNCHANGED <<now, published, cache, known, seen, pending, task, answered, picked>>

-----------------------------------------------------------------------------
(* GossipCacheAdapter.                                                     *)

\* What a task does once nothing of its reply is left: it picks a coordinator.
Best(n, held) == {c \in held : c \in Addressed}
Resume(n, t, todo, reply) == [IdleTask EXCEPT !.pc = IF reply THEN "reply" ELSE "idle",
                                              !.todo = todo, !.reply = reply]

\* The first half of insert_advert: an advert that is valid replaces the one
\* held, newer or not.
Insert(n, t, a, todo, reply) ==
  IF is_valid(n, a.from)
  THEN /\ cache' = [cache EXCEPT ![n][a.peer] = a.from]
       /\ task' = [task EXCEPT ![n][t] = [pc |-> "add", peer |-> a.peer, todo |-> todo, reply |-> reply]]
  ELSE /\ task' = [task EXCEPT ![n][t] = Resume(n, t, todo, reply)]
       /\ UNCHANGED cache

\* The second half: the peer is added to the bootstrap cache.
AddKnown(n, t) ==
  /\ task[n][t].pc = "add"
  /\ known' = [known EXCEPT ![n] = @ \cup {task[n][t].peer}]
  /\ task' = [task EXCEPT ![n][t] = Resume(n, t, task[n][t].todo, task[n][t].reply)]
  /\ UNCHANGED <<now, published, chan, cache, seen, pending, net, answered, picked>>

\* remove: the bootstrap cache first, then the map.
RemoveEntry(n, t, c) ==
  /\ task[n][t].pc = "idle" /\ c \in known[n]
  /\ known' = [known EXCEPT ![n] = @ \ {c}]
  /\ task' = [task EXCEPT ![n][t] = [IdleTask EXCEPT !.pc = "drop", !.peer = c]]
  /\ UNCHANGED <<now, published, chan, cache, seen, pending, net, answered, picked>>

\* Mutant: the advert stays behind in the map.
RemoveHalf(n, t) ==
  /\ task[n][t].pc = "drop"
  /\ task' = [task EXCEPT ![n][t] = IdleTask]
  /\ UNCHANGED <<now, published, chan, cache, known, seen, pending, net, answered, picked>>

RemoveRest(n, t) ==
  /\ task[n][t].pc = "drop"
  /\ cache' = [cache EXCEPT ![n][task[n][t].peer] = None]
  /\ task' = [task EXCEPT ![n][t] = IdleTask]
  /\ UNCHANGED <<now, published, chan, known, seen, pending, net, answered, picked>>

clear_adverts(n) ==
  /\ get_all_adverts(n) # {}
  /\ cache' = [cache EXCEPT ![n] = [c \in Coords |-> None]]
  /\ UNCHANGED <<now, published, chan, known, seen, pending, task, net, answered, picked>>

-----------------------------------------------------------------------------
(* CoordinatorHandler.                                                     *)

handle_advert(n, t, m) ==
  /\ m.kind = "Advert" /\ m.to = n /\ task[n][t].pc = "idle"
  /\ Insert(n, t, m, {}, FALSE)
  /\ UNCHANGED <<now, published, chan, known, seen, pending, net, answered, picked>>

is_expired(n, m) == unix_millis(n) > m.created + Window

\* The id is marked as seen before the query's age and hops are looked at.
handle_find_query(n, m) ==
  LET answers == ~is_expired(n, m) /\ m.ttl > 0
  IN /\ m.kind = "Query" /\ m.to = n /\ seen[n][m.q] = None
     /\ seen' = [seen EXCEPT ![n][m.q] = now]
     /\ net' = IF answers
               THEN net \cup {[kind |-> "Response", to |-> m.origin, q |-> m.q,
                               adverts |-> {[peer |-> c, from |-> cache[n][c]] : c \in get_all_adverts(n)}]}
               ELSE net
     /\ answered' = [answered EXCEPT ![n][m.q] = @ + (IF answers THEN 1 ELSE 0)]
     /\ UNCHANGED <<now, published, chan, cache, known, pending, task, picked>>

\* Mutant: the prune forgets every query id.
PruneEverySeen(n) == [q \in Queries |-> None]

PruneSeen(n) ==
  [q \in Queries |-> IF seen[n][q] # None /\ now - seen[n][q] > Window THEN None ELSE seen[n][q]]

prune_expired_adverts(n) ==
  [c \in Coords |-> IF c \in get_all_adverts(n) THEN cache[n][c] ELSE None]

\* prune: expired adverts, and query ids older than thirty seconds.
prune(n) ==
  /\ cache' = [cache EXCEPT ![n] = prune_expired_adverts(n)]
  /\ seen' = [seen EXCEPT ![n] = PruneSeen(n)]
  /\ <<cache', seen'>> # <<cache, seen>>
  /\ UNCHANGED <<now, published, chan, known, pending, task, net, answered, picked>>

-----------------------------------------------------------------------------
(* Bootstrap.                                                              *)

\* A coordinator with an address is connected to; otherwise a fresh query is
\* noted as pending and handed to the caller, who sends it to its peers.
find_coordinator(n, q) ==
  LET best == Best(n, get_all_adverts(n))
  IN /\ n \in Seekers
     /\ IF best # {}
        THEN /\ picked' = [picked EXCEPT ![n] = best]
             /\ picked[n] # best
             /\ UNCHANGED <<pending, net>>
        ELSE /\ \A m \in net : ~(m.kind \in {"Query", "Response"} /\ m.q = q)
             /\ pending' = [pending EXCEPT ![n][q] = now]
             /\ net' = net \cup {[kind |-> "Query", to |-> p, origin |-> n, q |-> q, ttl |-> MaxTtl,
                                  created |-> unix_millis(n)] : p \in Nodes \ {n}}
             /\ UNCHANGED picked
     /\ UNCHANGED <<now, published, chan, cache, known, seen, task, answered>>

\* The caller's forwarding: a copy of the query with one hop less.
Forward(m, p) ==
  /\ m.kind = "Query" /\ m.ttl > 0
  /\ net' = net \cup {[m EXCEPT !.to = p, !.ttl = @ - 1]}
  /\ UNCHANGED <<now, published, chan, cache, known, seen, pending, task, answered, picked>>

\* handle_find_response, up to its loop over the adverts.
handle_find_response(n, t, m) ==
  /\ m.kind = "Response" /\ m.to = n /\ task[n][t].pc = "idle"
  /\ pending' = [pending EXCEPT ![n][m.q] = None]
  /\ task' = [task EXCEPT ![n][t] = Resume(n, t, m.adverts, TRUE)]
  /\ net' = net \ {m}
  /\ UNCHANGED <<now, published, chan, cache, known, seen, answered, picked>>

NextAdvert(n, t) ==
  /\ task[n][t].pc = "reply"
  /\ IF task[n][t].todo = {}
     THEN /\ picked' = [picked EXCEPT ![n] = Best(n, get_all_adverts(n))]
          /\ task' = [task EXCEPT ![n][t] = IdleTask]
          /\ UNCHANGED cache
     ELSE /\ \E a \in task[n][t].todo : Insert(n, t, a, task[n][t].todo \ {a}, TRUE)
          /\ UNCHANGED picked
  /\ UNCHANGED <<now, published, chan, known, seen, pending, net, answered>>

prune_expired_queries(n) ==
  /\ pending' = [pending EXCEPT ![n] = [q \in Queries |->
                   IF @[q] # None /\ now - @[q] > Window THEN None ELSE @[q]]]
  /\ pending' # pending
  /\ UNCHANGED <<now, published, chan, cache, known, seen, task, net, answered, picked>>

Tick ==
  /\ now < MaxTime /\ now' = now + 1
  /\ UNCHANGED <<published, chan, cache, known, seen, pending, task, net, answered, picked>>

AdvertNext ==
  \/ Tick
  \/ \E c \in Coords : PublishTick(c) \/ \E peers \in SUBSET Nodes : SendAdvert(c, peers)
  \/ \E n \in Nodes : prune(n) \/ clear_adverts(n) \/ prune_expired_queries(n)
  \/ \E n \in Nodes, q \in Queries : find_coordinator(n, q)
  \/ \E n \in Nodes, m \in net : handle_find_query(n, m) \/ Forward(m, n)
  \/ \E n \in Nodes, t \in Tasks :
       \/ AddKnown(n, t) \/ RemoveRest(n, t) \/ NextAdvert(n, t)
       \/ \E c \in Coords : RemoveEntry(n, t, c)
       \/ \E m \in net : handle_advert(n, t, m) \/ handle_find_response(n, t, m)

-----------------------------------------------------------------------------
\* The state of every node is of the shape the crate's types give it.
AdvertTypeOK ==
  /\ now \in 0 .. MaxTime
  /\ \A c \in Coords : Len(chan[c]) <= ChanCap
  /\ cache \in [Nodes -> [Coords -> {None} \cup 0 .. MaxTime]]
  /\ known \in [Nodes -> SUBSET Coords] /\ picked \in [Nodes -> SUBSET Addressed]
  /\ seen \in [Nodes -> [Queries -> {None} \cup 0 .. MaxTime]]
  /\ pending \in [Nodes -> [Queries -> {None} \cup 0 .. MaxTime]]
  /\ \A n \in Nodes, t \in Tasks : task[n][t].pc \in {"idle", "add", "drop", "reply"}

\* A node answers a FIND_COORDINATOR query at most once, whatever copies of
\* it arrive and whenever prune runs: a seen id outlives the query it stands
\* for (handle_find_query, prune).
AnsweredOnce == \A n \in Nodes, q \in Queries : answered[n][q] <= 1

\* insert_advert and remove touch the map and the bootstrap cache in opposite
\* orders: once no task is between its two halves, the coordinator of every
\* advert held is one the bootstrap cache was given.
AdvertBacked ==
  \A n \in Nodes, c \in Coords :
    cache[n][c] # None =>
      c \in known[n] \/ \E t \in Tasks : task[n][t].pc \in {"add", "drop"} /\ task[n][t].peer = c

-----------------------------------------------------------------------------
searchVars == <<cached, inbox, call, asked, sentOut>>

Idle == [pc |-> "idle", expected |-> {}, got |-> {}]
Holds(p) == \E i \in DOMAIN cached : cached[i] = p

SearchInit ==
  /\ cached = <<>> /\ inbox = <<>> /\ asked = {} /\ sentOut = 0
  /\ call = [c \in Callers |-> Idle]

\* publish_coordinator_advert: the advert is kept whether or not one of this
\* node is held already, then sent to the active view.
publish_coordinator_advert ==
  /\ sentOut < MaxPublish
  /\ sentOut' = sentOut + 1
  /\ cached' = Append(cached, Self)
  /\ UNCHANGED <<inbox, call, asked>>

\* find_coordinators_via_foaf with adverts in the cache, with an empty active
\* view or with no query that could be sent: it returns at once.
FindReturns(c) ==
  /\ call[c].pc = "idle"
  /\ call' = [call EXCEPT ![c].pc = "done"]
  /\ UNCHANGED <<cached, inbox, asked, sentOut>>

\* With nothing cached it queries up to Fanout peers, some of them in vain.
FindAsks(c, selected, reached) ==
  /\ call[c].pc = "idle" /\ cached = <<>>
  /\ Cardinality(selected) = IF Cardinality(Active) < Fanout THEN Cardinality(Active) ELSE Fanout
  /\ reached # {} /\ reached \subseteq selected
  /\ call' = [call EXCEPT ![c] = [pc |-> "collect", expected |-> selected, got |-> {}]]
  /\ asked' = asked \cup {[kind |-> "Advert", from |-> p] : p \in reached}
  /\ UNCHANGED <<cached, inbox, sentOut>>

\* request_address_reflection.
ReflectAsks(c, p) ==
  /\ call[c].pc = "idle"
  /\ call' = [call EXCEPT ![c] = [pc |-> "reflect", expected |-> {p}, got |-> {}]]
  /\ asked' = asked \cup {[kind |-> "Address", from |-> p]}
  /\ UNCHANGED <<cached, inbox, sentOut>>

\* A peer answers: with an advert, or with the address it saw.
Answer(a, p) ==
  /\ Len(inbox) < MaxInbox
  /\ inbox' = Append(inbox, [kind |-> a.kind, from |-> a.from, about |-> p])
  /\ asked' = asked \ {a}
  /\ UNCHANGED <<cached, call, sentOut>>

\* Any other frame of a peer.
Arrive(p) ==
  /\ Len(inbox) < MaxInbox
  /\ inbox' = Append(inbox, [kind |-> "Other", from |-> p, about |-> Self])
  /\ UNCHANGED <<cached, call, asked, sentOut>>

\* collect_coordinator_responses takes the next message: an advert from a
\* queried peer counts, anything else is dropped.
Collect(c) ==
  LET m == Head(inbox)
      counts == m.kind = "Advert" /\ m.from \in call[c].expected
      got == call[c].got \cup (IF counts THEN {m.about} ELSE {})
      full == m.from \in call[c].expected /\ Cardinality(got) >= Cardinality(call[c].expected)
  IN /\ call[c].pc = "collect" /\ inbox # <<>>
     /\ inbox' = Tail(inbox)
     /\ call' = [call EXCEPT ![c].got = got, ![c].pc = IF full THEN "store" ELSE "collect"]
     /\ UNCHANGED <<cached, asked, sentOut>>

\* The time is up, or the transport failed: what was collected is given up on
\* a timeout and kept on an error of the transport.
CollectEnds(c, timedOut) ==
  /\ call[c].pc = "collect"
  /\ call' = [call EXCEPT ![c].pc = "store", ![c].got = IF timedOut THEN {} ELSE @]
  /\ UNCHANGED <<cached, inbox, asked, sentOut>>

\* Mutant: the adverts found are kept without a look at what is held.
StoreUnchecked(c) ==
  /\ call[c].pc = "store"
  /\ cached' = cached \o SetToSeq(call[c].got)
  /\ call' = [call EXCEPT ![c].pc = "done"]
  /\ UNCHANGED <<inbox, asked, sentOut>>

\* Under the write lock, adverts of peers not held yet are kept.
Store(c) ==
  /\ call[c].pc = "store"
  /\ cached' = cached \o SetToSeq({p \in call[c].got : ~Holds(p)})
  /\ call' = [call EXCEPT ![c].pc = "done"]
  /\ UNCHANGED <<inbox, asked, sentOut>>

Reflect(c) ==
  LET m == Head(inbox)
  IN /\ call[c].pc = "reflect" /\ inbox # <<>>
     /\ inbox' = Tail(inbox)
     /\ call' = [call EXCEPT ![c].pc = IF m.kind = "Address" /\ m.from \in call[c].expected
                                       THEN "done" ELSE "reflect"]
     /\ UNCHANGED <<cached, asked, sentOut>>

\* Five seconds without an answer, or an error of the transport.
ReflectEnds(c) ==
  /\ call[c].pc = "reflect"
  /\ call' = [call EXCEPT ![c].pc = "done"]
  /\ UNCHANGED <<cached, inbox, asked, sentOut>>

\* The application calls again.
CallAgain(c) ==
  /\ call[c].pc = "done"
  /\ call' = [call EXCEPT ![c] = Idle]
  /\ UNCHANGED <<cached, inbox, asked, sentOut>>

SearchNext ==
  \/ publish_coordinator_advert
  \/ \E p \in Active : Arrive(p)
  \/ \E a \in asked, p \in Others : Answer(a, p)
  \/ \E c \in Callers :
       \/ FindReturns(c) \/ Collect(c) \/ Store(c) \/ Reflect(c) \/ ReflectEnds(c) \/ CallAgain(c)
       \/ \E s \in SUBSET Active : \E r \in SUBSET s : FindAsks(c, s, r)
       \/ \E p \in Active : ReflectAsks(c, p)
       \/ \E timedOut \in BOOLEAN : CollectEnds(c, timedOut)

-----------------------------------------------------------------------------
\* The calls, the queue and the cache have the shape of the client's fields.
SearchTypeOK ==
  /\ cached \in Seq(Others \cup {Self}) /\ Len(inbox) <= MaxInbox
  /\ \A c \in Callers : call[c].pc \in {"idle", "collect", "store", "reflect", "done"}
                        /\ call[c].got \subseteq Others /\ call[c].expected \subseteq Active

\* However many searches run side by side, the cache holds one advert of each
\* other coordinator: the check is repeated under the write lock
\* (find_coordinators_via_foaf).
OneAdvertPerPeer ==
  \A i, j \in DOMAIN cached : cached[i] = cached[j] /\ cached[i] # Self => i = j

-----------------------------------------------------------------------------
rendezvousVars == <<moment, version, subscriptions, registered, starter, collector, summaries, latest>>

CollectorIds == 1 .. MaxCollectors
NoSummary == [target |-> 0, provider |-> 0, ver |-> 0, exp |-> 0]
IdleStarter == [pc |-> "idle", target |-> 0]
Spawned == {i \in CollectorIds : collector[i].target # 0}

RendezvousInit ==
  /\ moment = 0 /\ version = 0 /\ subscriptions = {}
  /\ registered = [t \in Targets |-> 0]
  /\ starter = [s \in Starters |-> IdleStarter]
  /\ collector = [i \in CollectorIds |-> [target |-> 0, queue |-> <<>>]]
  /\ summaries = [t \in Targets |-> <<>>]
  /\ latest = [t \in Targets |-> [p \in Providers |-> NoSummary]]

\* subscribe_to_shard: a shard that is subscribed is left alone.  The receiver
\* it gets is dropped, so nothing is read through it.
subscribe_to_shard(t) ==
  /\ Shard[t] \notin subscriptions
  /\ subscriptions' = subscriptions \cup {Shard[t]}
  /\ UNCHANGED <<moment, version, registered, starter, collector, summaries, latest>>

\* start_collecting_for_target, up to the test for a running collector.
StartChecks(s, t) ==
  /\ starter[s].pc = "idle" /\ registered[t] = 0 /\ Shard[t] \in subscriptions
  /\ starter' = [starter EXCEPT ![s] = [pc |-> "checked", target |-> t]]
  /\ UNCHANGED <<moment, version, subscriptions, registered, collector, summaries, latest>>

\* The topic is subscribed to again and the task is spawned.
StartSpawns(s, i) ==
  /\ starter[s].pc = "checked" /\ i = Cardinality(Spawned) + 1 /\ i <= MaxCollectors
  /\ collector' = [collector EXCEPT ![i].target = starter[s].target]
  /\ starter' = [starter EXCEPT ![s].pc = "spawned"]
  /\ UNCHANGED <<moment, version, subscriptions, registered, summaries, latest>>

\* The handle is stored; one that is replaced detaches its task.
StartStores(s, i) ==
  /\ starter[s].pc = "spawned" /\ collector[i].target = starter[s].target
  /\ registered' = [registered EXCEPT ![starter[s].target] = i]
  /\ starter' = [starter EXCEPT ![s] = IdleStarter]
  /\ UNCHANGED <<moment, version, subscriptions, collector, summaries, latest>>

\* publish_provider_summary of a provider, delivered by the pub/sub layer to
\* every subscriber of the shard in the order of publication.
publish_provider_summary(t, p) ==
  LET m == [target |-> t, provider |-> p, ver |-> version + 1, exp |-> moment + Validity]
      reads == {i \in Spawned : Shard[collector[i].target] = Shard[t]}
  IN /\ version < MaxVersion
     /\ version' = version + 1
     /\ collector' = [i \in CollectorIds |->
                        IF i \in reads THEN [collector[i] EXCEPT !.queue = Append(@, m)] ELSE collector[i]]
     /\ latest' = IF \E i \in reads : collector[i].target = t
                  THEN [latest EXCEPT ![t][p] = m] ELSE latest
     /\ UNCHANGED <<moment, subscriptions, registered, starter, summaries>>


\* A summary replaces the one of the same provider, or is added.
WithSummary(held, m) ==
  IF \E k \in DOMAIN held : held[k].provider = m.provider
  THEN [k \in DOMAIN held |-> IF held[k].provider = m.provider THEN m ELSE held[k]]
  ELSE Append(held, m)


Matches(m, t) == m.target = t

\* process_incoming_summary, one message of one collector under the write lock.
process_incoming_summary(i) ==
  LET m == Head(collector[i].queue)
      t == collector[i].target
  IN /\ collector[i].queue # <<>>
     /\ collector' = [collector EXCEPT ![i].queue = Tail(@)]
     /\ summaries' = IF Matches(m, t) THEN [summaries EXCEPT ![t] = WithSummary(@, m)] ELSE summaries
     /\ UNCHANGED <<moment, version, subscriptions, registered, starter, latest>>

RendezvousTick ==
  /\ moment < MaxMoment /\ moment' = moment + 1
  /\ UNCHANGED <<version, subscriptions, registered, starter, collector, summaries, latest>>

RendezvousNext ==
  \/ RendezvousTick
  \/ \E t \in Targets : subscribe_to_shard(t) \/ \E p \in Providers : publish_provider_summary(t, p)
  \/ \E s \in Starters :
       \/ \E t \in Targets : StartChecks(s, t)
       \/ \E i \in CollectorIds : StartSpawns(s, i) \/ StartStores(s, i)
  \/ \E i \in CollectorIds : process_incoming_summary(i)

\* get_providers_for_target: the live summaries, longest validity first.
get_providers_for_target(t) == {k \in DOMAIN summaries[t] : summaries[t][k].exp > moment}

-----------------------------------------------------------------------------
\* The client's maps have the shape of its fields.
RendezvousTypeOK ==
  /\ subscriptions \subseteq {Shard[t] : t \in Targets}
  /\ \A t \in Targets : registered[t] \in 0 .. MaxCollectors
  /\ \A i \in CollectorIds : collector[i].target \in Targets \cup {0}
  /\ \A t \in Targets : \A k \in DOMAIN summaries[t] : summaries[t][k].provider \in Providers

\* Targets of one shard share its topic, and two starts may race into two
\* collectors: the cache of a target still holds only that target's summaries,
\* one per provider (process_incoming_summary).
OnePerProvider ==
  \A t \in Targets : \A j, k \in DOMAIN summaries[t] :
    summaries[t][j].target = t /\ (summaries[t][j].provider = summaries[t][k].provider => j = k)

\* A collector that lags puts an older summary back for a while, for a summary
\* replaces whatever is held; once the collectors of a target have read all
\* they were sent, a seeker is offered the newest summary of every provider,
\* as long as that one is valid (get_providers_for_target).
SettledOnLatest ==
  \A t \in Targets :
    (\A i \in Spawned : collector[i].target = t => collector[i].queue = <<>>)
    => \A p \in Providers : latest[t][p].exp > moment =>
         \E k \in get_providers_for_target(t) : summaries[t][k] = latest[t][p]

-----------------------------------------------------------------------------
(* The parts together. *)

vars == <<advertVars, searchVars, rendezvousVars>>

Init == AdvertInit /\ SearchInit /\ RendezvousInit

Next ==
  \/ AdvertNext /\ UNCHANGED <<searchVars, rendezvousVars>>
  \/ SearchNext /\ UNCHANGED <<advertVars, rendezvousVars>>
  \/ RendezvousNext /\ UNCHANGED <<advertVars, searchVars>>

Spec == Init /\ [][Next]_vars
=============================================================================
