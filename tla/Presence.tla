------------------------------ MODULE Presence ------------------------------
(***************************************************************************)
(* Presence of one topic (presence/src/lib.rs, rate_limiter.rs and         *)
(* PresenceRecord of types/src/lib.rs): beacons with a sequence number     *)
(* that starts again when their sender reboots, the records every node     *)
(* keeps, and friend-of-a-friend queries that walk the mesh with a TTL.    *)
(* Frames of different streams overtake each other.                        *)
(*                                                                         *)
(* One unit of time is longer than the reboot grace (120 s), the age of a  *)
(* seen query id (30 s), the timeout of a pending query (10 s) and the     *)
(* time a token bucket needs to fill (15 s).                               *)
(*                                                                         *)
(* The life of the beacon task of a PresenceManager (presence/src/lib.rs,  *)
(* start_beacons and stop_beacons): the handle and the shutdown sender are *)
(* kept in two slots, each under its own lock; a sender that is dropped    *)
(* closes the channel of its task.  A stop waits for the task with the     *)
(* handle's lock held and aborts it after five seconds.                    *)
(***************************************************************************)
EXTENDS Integers, FiniteSets, FiniteSetsExt

CONSTANTS
  Nodes,
  Beaconers,    \* nodes that broadcast beacons
  Rebooting,    \* nodes that reboot
  Askers,       \* nodes that start a query
  Joined,       \* nodes with the group in their table
  Queries,      \* query ids
  Fanout,       \* peers a query is sent to (3)
  Burst,        \* max_tokens of the rate limiter (3)
  Ttl,          \* life of a record, in units of time
  QueryTtl,     \* hops of a query
  Enough,       \* responses that end a query early (3)
  MaxTime, MaxBeacons, MaxBoots

CONSTANTS
  Starters,  \* callers of start_beacons
  Stoppers,  \* callers of stop_beacons
  Peers,     \* peers beacons are sent to
  MaxTasks,  \* bound on the tasks spawned
  MaxSeq     \* bound on the beacons sent

VARIABLES
  time,     \* wall clock
  boot,     \* [node -> incarnation]
  seq,      \* [node -> beacon_seq]
  beacons,  \* [node -> [peer -> record]] received_beacons
  seen,     \* [node -> seen_queries: [query -> time, or Never]]
  pending,  \* [node -> pending_queries: [query -> PendingQuery or NoQuery]]
  waiting,  \* queries whose initiator has not returned
  tokens,   \* [node -> [peer -> token bucket]]
  net,      \* frames on their way
  passed    \* [node -> [peer -> frames let through in this unit of time]] (history)

VARIABLES
  task,     \* [task -> where its loop is]
  senders,   \* [task -> whether its shutdown sender exists]
  signal,   \* [task -> whether a shutdown message waits for it]
  handle,   \* beacon_task: a task, or 0
  tx,       \* shutdown_tx: the task whose sender it holds, or 0
  starter,  \* [caller -> where it is]
  stopper,  \* [caller -> where it is]
  spawned,  \* number of tasks spawned
  beacon_seq,      \* beacon_seq
  own,      \* sequence number of our own record in received_beacons
  peers,    \* broadcast_peers
  started   \* tasks whose start_beacons returned (history)

presenceVars == <<time, boot, seq, beacons, seen, pending, waiting, tokens, net, passed>>

Never == -1
NoRecord == [seq |-> -1, since |-> 0, boot |-> 0]
NoQuery == [count |-> -1, got |-> [p \in Nodes |-> NoRecord]]
Bucket(t) == [tokens |-> Burst, last |-> t]
NoFrames == [n \in Nodes |-> [p \in Nodes |-> 0]]

PresenceInit ==
  /\ time = 0
  /\ boot = [n \in Nodes |-> 1] /\ seq = [n \in Nodes |-> 0]
  /\ beacons = [n \in Nodes |-> [p \in Nodes |-> NoRecord]]
  /\ seen = [n \in Nodes |-> [q \in Queries |-> Never]]
  /\ pending = [n \in Nodes |-> [q \in Queries |-> NoQuery]]
  /\ waiting = {}
  /\ tokens = [n \in Nodes |-> [p \in Nodes |-> Bucket(0)]]
  /\ net = {} /\ passed = NoFrames

is_expired(r) == r = NoRecord \/ time > r.since + Ttl
Live(n) == {p \in Nodes : ~is_expired(beacons[n][p])}

\* Mutant: whatever arrives is stored.
NewerAlways(r, existing) == TRUE

\* handle_beacon and add_responses: a higher sequence number, or a lower one
\* that is newer by more than the grace and taken for a reboot.
Newer(r, existing) == existing = NoRecord \/ r.seq > existing.seq \/ r.since > existing.since

Merge(r, existing) == IF Newer(r, existing) THEN r ELSE existing

-----------------------------------------------------------------------------
(* The rate limiter.                                                       *)

refill(b) == IF b.last < time THEN Bucket(time) ELSE b

\* Charge(n, p, ok): check_rate_limit took a token or refused the frame.
Charge(n, p, ok) ==
  LET b == refill(tokens[n][p])
  IN /\ ok = (b.tokens > 0)
     /\ tokens' = [tokens EXCEPT ![n][p] = IF ok THEN [b EXCEPT !.tokens = @ - 1] ELSE b]
     /\ passed' = IF ok THEN [passed EXCEPT ![n][p] = @ + 1] ELSE passed

\* Mutant: buckets are dropped whatever their age.
CleanupAll(n) ==
  /\ \E p \in Nodes : tokens[n][p] # Bucket(time)
  /\ tokens' = [tokens EXCEPT ![n] = [p \in Nodes |-> Bucket(time)]]
  /\ UNCHANGED <<time, boot, seq, beacons, seen, pending, waiting, net, passed>>

\* cleanup_stale, on every tenth tick of the beacon task: a bucket nobody
\* asked for 300 s goes, and the next frame of its peer finds a full one.
CleanupStale(n) ==
  /\ \E p \in Nodes : tokens[n][p].last < time
  /\ tokens' = [tokens EXCEPT ![n] = [p \in Nodes |-> refill(@[p])]]
  /\ UNCHANGED <<time, boot, seq, beacons, seen, pending, waiting, net, passed>>

-----------------------------------------------------------------------------
(* Beacons.                                                                *)

Beacon(n) ==
  LET r == [seq |-> seq[n], since |-> time, boot |-> boot[n]]
  IN /\ n \in Beaconers /\ n \in Joined /\ seq[n] < MaxBeacons
     /\ seq' = [seq EXCEPT ![n] = @ + 1]
     /\ beacons' = [beacons EXCEPT ![n][n] = r]
     /\ net' = net \cup {[kind |-> "Beacon", to |-> p, sender |-> n, record |-> r]
                          : p \in Nodes \ {n}}
     /\ UNCHANGED <<time, boot, seen, pending, waiting, tokens, passed>>

\* handle_presence_message of a Beacon: the limiter, then the group, then the
\* store.
HandleBeacon(m, ok) ==
  /\ m \in net /\ m.kind = "Beacon"
  /\ net' = net \ {m}
  /\ Charge(m.to, m.sender, ok)
  /\ beacons' = IF ok /\ m.to \in Joined
                THEN [beacons EXCEPT ![m.to][m.sender] = Merge(m.record, @)] ELSE beacons
  /\ UNCHANGED <<time, boot, seq, seen, pending, waiting>>

CleanupExpired(n) ==
  /\ \E p \in Nodes : beacons[n][p] # NoRecord /\ is_expired(beacons[n][p])
  /\ beacons' = [beacons EXCEPT ![n] =
       [p \in Nodes |-> IF is_expired(@[p]) THEN NoRecord ELSE @[p]]]
  /\ UNCHANGED <<time, boot, seq, seen, pending, waiting, tokens, net, passed>>

\* Everything a manager knows is in memory.
Reboot(n) ==
  /\ n \in Rebooting /\ boot[n] <= MaxBoots
  /\ boot' = [boot EXCEPT ![n] = @ + 1]
  /\ seq' = [seq EXCEPT ![n] = 0]
  /\ beacons' = [beacons EXCEPT ![n] = [p \in Nodes |-> NoRecord]]
  /\ seen' = [seen EXCEPT ![n] = [q \in Queries |-> Never]]
  /\ pending' = [pending EXCEPT ![n] = [q \in Queries |-> NoQuery]]
  /\ waiting' = {w \in waiting : w.origin # n}
  /\ tokens' = [tokens EXCEPT ![n] = [p \in Nodes |-> Bucket(time)]]
  /\ passed' = [passed EXCEPT ![n] = [p \in Nodes |-> 0]]
  /\ UNCHANGED <<time, net>>

Tick ==
  /\ time < MaxTime
  /\ time' = time + 1
  /\ passed' = NoFrames
  /\ UNCHANGED <<boot, seq, beacons, seen, pending, waiting, tokens, net>>

-----------------------------------------------------------------------------
(* Queries.                                                                *)

\* Up to Fanout random peers of a node.
Selection(n) == kSubset(Min({Fanout, Cardinality(Nodes) - 1}), Nodes \ {n})
Query(q, ttl, origin, targets) ==
  {[kind |-> "Query", to |-> p, q |-> q, ttl |-> ttl, origin |-> origin] : p \in targets}

\* initiate_foaf_query: an entry for the responses, the id marked as seen, the
\* query sent.
InitiateFoafQuery(n, q, targets) ==
  /\ n \in Askers
  /\ \A w \in waiting : w.q # q
  /\ \A x \in Nodes : seen[x][q] = Never
  /\ ~\E m \in net : m.kind # "Beacon" /\ m.q = q
  /\ pending' = [pending EXCEPT ![n][q] = [NoQuery EXCEPT !.count = 0]]
  /\ seen' = [seen EXCEPT ![n][q] = time]
  /\ waiting' = waiting \cup {[origin |-> n, q |-> q]}
  /\ net' = net \cup Query(q, QueryTtl, n, targets)
  /\ UNCHANGED <<time, boot, seq, beacons, tokens, passed>>

Forwarded(m, targets) ==
  IF m.ttl = 0 THEN {} ELSE Query(m.q, m.ttl - 1, m.origin, targets \ {m.origin})

\* The query arm of handle_presence_message: the limiter charges the origin;
\* a new query is answered to the origin when there are live records, and
\* forwarded.
HandleQuery(m, ok, targets) ==
  LET fresh == ok /\ seen[m.to][m.q] = Never
      answer == [kind |-> "Response", to |-> m.origin, q |-> m.q,
                 records |-> [p \in Live(m.to) |-> beacons[m.to][p]]]
  IN /\ m \in net /\ m.kind = "Query"
     /\ Charge(m.to, m.origin, ok)
     /\ seen' = IF fresh THEN [seen EXCEPT ![m.to][m.q] = time] ELSE seen
     /\ net' = (net \ {m}) \cup
          (IF fresh THEN Forwarded(m, targets) \cup
                         (IF Live(m.to) # {} THEN {answer} ELSE {})
           ELSE {})
     /\ UNCHANGED <<time, boot, seq, beacons, pending, waiting>>

\* Mutant: a late response opens the entry of its query again.
AggregateAlways(n, q, records) ==
  [count |-> pending[n][q].count + 1,
   got |-> [p \in Nodes |-> IF p \in DOMAIN records
                            THEN Merge(records[p], pending[n][q].got[p])
                            ELSE pending[n][q].got[p]]]

\* add_responses on the entry of the query, if it still has one.
Aggregate(n, q, records) ==
  IF pending[n][q] = NoQuery THEN NoQuery
  ELSE [count |-> pending[n][q].count + 1,
        got |-> [p \in Nodes |-> IF p \in DOMAIN records
                                 THEN Merge(records[p], pending[n][q].got[p])
                                 ELSE pending[n][q].got[p]]]

\* The response arm: records of a group the node is in that are still alive
\* go to the entry and to the store.
HandleResponse(m) ==
  LET n == m.to
      valid == {p \in DOMAIN m.records : ~is_expired(m.records[p]) /\ n \in Joined}
      records == [p \in valid |-> m.records[p]]
      known == pending[n][m.q] # NoQuery
  IN /\ m \in net /\ m.kind = "Response"
     /\ net' = net \ {m}
     /\ IF valid = {} THEN UNCHANGED <<pending, beacons>>
        ELSE /\ pending' = [pending EXCEPT ![n][m.q] = Aggregate(n, m.q, records)]
             /\ beacons' = IF known
                  THEN [beacons EXCEPT ![n] = [p \in Nodes |->
                          IF p \in valid THEN Merge(records[p], @[p]) ELSE @[p]]]
                  ELSE beacons
     /\ UNCHANGED <<time, boot, seq, seen, waiting, tokens, passed>>

\* The waiting loop ends early with Enough responses, or at its timeout; the
\* entry is removed and its live records are the result.
QueryReturns(w) ==
  /\ w \in waiting
  /\ waiting' = waiting \ {w}
  /\ pending' = [pending EXCEPT ![w.origin][w.q] = NoQuery]
  /\ UNCHANGED <<time, boot, seq, beacons, seen, tokens, net, passed>>

\* cleanup_pending_queries: entries older than 10 s, waited for or not.
CleanupPending(n, q) ==
  /\ pending[n][q] # NoQuery /\ seen[n][q] # time
  /\ pending' = [pending EXCEPT ![n][q] = NoQuery]
  /\ UNCHANGED <<time, boot, seq, beacons, seen, waiting, tokens, net, passed>>

\* cleanup_seen_queries: ids older than 30 s.
CleanupSeen(n) ==
  /\ \E q \in Queries : seen[n][q] \in 0 .. (time - 1)
  /\ seen' = [seen EXCEPT ![n] = [q \in Queries |-> IF @[q] < time THEN Never ELSE @[q]]]
  /\ UNCHANGED <<time, boot, seq, beacons, pending, waiting, tokens, net, passed>>

PresenceNext ==
  \/ \E n \in Nodes : Beacon(n) \/ CleanupExpired(n) \/ Reboot(n) \/ CleanupStale(n)
  \/ \E m \in net, ok \in BOOLEAN : HandleBeacon(m, ok)
  \/ Tick
  \/ \E n \in Nodes, q \in Queries : \E targets \in Selection(n) : InitiateFoafQuery(n, q, targets)
  \/ \E m \in net, ok \in BOOLEAN : \E targets \in Selection(m.to) : HandleQuery(m, ok, targets)
  \/ \E m \in net : HandleResponse(m)
  \/ \E w \in waiting : QueryReturns(w)
  \/ \E n \in Nodes, q \in Queries : CleanupPending(n, q)
  \/ \E n \in Nodes : CleanupSeen(n)

-----------------------------------------------------------------------------
\* The type of the state.
PresenceTypeOK ==
  /\ time \in 0 .. MaxTime
  /\ boot \in [Nodes -> 1 .. (MaxBoots + 1)] /\ seq \in [Nodes -> 0 .. MaxBeacons]
  /\ \A n, p \in Nodes :
       /\ beacons[n][p].seq \in -1 .. (MaxBeacons - 1)
       /\ tokens[n][p].tokens \in 0 .. Burst
  /\ seen \in [Nodes -> [Queries -> Never .. MaxTime]]
  /\ \A n \in Nodes, q \in Queries : pending[n][q].count >= -1
  /\ waiting \subseteq [origin : Askers, q : Queries]

\* Neither a beacon that was overtaken nor the answer to a query replaces a
\* record by an older one of the same incarnation of its sender
\* (handle_beacon, PendingQuery::add_responses).
NoGoingBackStep ==
  \A n, p \in Nodes :
    LET old == beacons[n][p]
        new == beacons'[n][p]
    IN old # NoRecord /\ new # NoRecord /\ old.boot = new.boot => new.seq >= old.seq

\* An entry of pending_queries belongs to a call that has not returned: a
\* response that comes too late leaves nothing behind (initiate_foaf_query and
\* the response arm of handle_presence_message).
PendingOwned ==
  \A n \in Nodes, q \in Queries :
    pending[n][q] # NoQuery => [origin |-> n, q |-> q] \in waiting

\* No peer gets more than one burst through the limiter in a unit of time,
\* whenever stale buckets are cleaned up (RateLimiter).
RateBound == \A n, p \in Nodes : passed[n][p] <= Burst

-----------------------------------------------------------------------------
beaconVars == <<task, senders, signal, handle, tx, starter, stopper, spawned, beacon_seq, own, peers, started>>

TaskIds == 1 .. MaxTasks
NoTask == [pc |-> "none", seq |-> 0, slow |-> {}]
IdleStart == [pc |-> "idle", task |-> 0]
IdleStop == [pc |-> "idle", task |-> 0, before |-> {}]
Running(i) == task[i].pc \notin {"none", "stopped"}

BeaconInit ==
  /\ task = [i \in TaskIds |-> NoTask]
  /\ senders = [i \in TaskIds |-> FALSE] /\ signal = [i \in TaskIds |-> FALSE]
  /\ handle = 0 /\ tx = 0
  /\ starter = [c \in Starters |-> IdleStart]
  /\ stopper = [c \in Stoppers |-> IdleStop]
  /\ spawned = 0 /\ beacon_seq = 0 /\ own = -1
  /\ peers = Peers /\ started = {}

\* stop_beacons keeps the write lock of the handle while it waits.
HandleLocked == \E c \in Stoppers : stopper[c].pc = "waiting"

-----------------------------------------------------------------------------
(* start_beacons.                                                          *)

\* Only a start that finds no handle goes on.
CheckNotRunning(c) ==
  /\ starter[c].pc = "idle" /\ ~HandleLocked /\ handle = 0
  /\ spawned + Cardinality({d \in Starters : starter[d].pc = "checked"}) < MaxTasks
  /\ starter' = [starter EXCEPT ![c].pc = "checked"]
  /\ UNCHANGED <<task, senders, signal, handle, tx, stopper, spawned, beacon_seq, own, peers, started>>

Spawn(c) ==
  LET i == spawned + 1
  IN /\ starter[c].pc = "checked"
     /\ spawned' = i
     /\ task' = [task EXCEPT ![i].pc = "select"]
     /\ senders' = [senders EXCEPT ![i] = TRUE]
     /\ starter' = [starter EXCEPT ![c] = [pc |-> "spawned", task |-> i]]
     /\ UNCHANGED <<signal, handle, tx, stopper, beacon_seq, own, peers, started>>

\* A handle that is overwritten detaches its task.
StoreHandle(c) ==
  /\ starter[c].pc = "spawned" /\ ~HandleLocked
  /\ handle' = starter[c].task
  /\ starter' = [starter EXCEPT ![c].pc = "stored"]
  /\ UNCHANGED <<task, senders, signal, tx, stopper, spawned, beacon_seq, own, peers, started>>

\* A sender that is overwritten is dropped.
StoreSender(c) ==
  /\ starter[c].pc = "stored"
  /\ tx' = starter[c].task
  /\ senders' = [i \in TaskIds |-> senders[i] /\ i # tx]
  /\ started' = started \cup {starter[c].task}
  /\ starter' = [starter EXCEPT ![c] = IdleStart]
  /\ UNCHANGED <<task, signal, handle, stopper, spawned, beacon_seq, own, peers>>

-----------------------------------------------------------------------------
(* stop_beacons.                                                           *)

\* The sender is taken, used once and dropped.
SendShutdown(c) ==
  /\ stopper[c].pc = "idle"
  /\ tx' = 0
  /\ signal' = [i \in TaskIds |-> signal[i] \/ i = tx]
  /\ senders' = [i \in TaskIds |-> senders[i] /\ i # tx]
  /\ stopper' = [stopper EXCEPT ![c] = [pc |-> "sent", task |-> 0, before |-> started]]
  /\ UNCHANGED <<task, handle, starter, spawned, beacon_seq, own, peers, started>>

TakeHandle(c) ==
  /\ stopper[c].pc = "sent" /\ ~HandleLocked
  /\ handle' = 0
  /\ stopper' = [stopper EXCEPT ![c].pc = IF handle = 0 THEN "done" ELSE "waiting",
                                ![c].task = handle]
  /\ UNCHANGED <<task, senders, signal, tx, starter, spawned, beacon_seq, own, peers, started>>

\* The task ended within its five seconds.
TaskJoined(c) ==
  /\ stopper[c].pc = "waiting" /\ ~Running(stopper[c].task)
  /\ stopper' = [stopper EXCEPT ![c].pc = "done"]
  /\ UNCHANGED <<task, senders, signal, handle, tx, starter, spawned, beacon_seq, own, peers, started>>

\* Mutant: the task that outlives the grace is left to itself.
AbortDetached(c) ==
  /\ stopper[c].pc = "waiting" /\ Running(stopper[c].task)
  /\ stopper' = [stopper EXCEPT ![c].pc = "done"]
  /\ UNCHANGED <<task, senders, signal, handle, tx, starter, spawned, beacon_seq, own, peers, started>>

\* Five seconds passed: the task is aborted at the await it is at.
Abort(c) ==
  /\ stopper[c].pc = "waiting" /\ Running(stopper[c].task)
  /\ task' = [task EXCEPT ![stopper[c].task] = [NoTask EXCEPT !.pc = "stopped"]]
  /\ stopper' = [stopper EXCEPT ![c].pc = "done"]
  /\ UNCHANGED <<senders, signal, handle, tx, starter, spawned, beacon_seq, own, peers, started>>

\* The caller may stop the beacons again later.
StopAgain(c) ==
  /\ stopper[c].pc = "done"
  /\ stopper' = [stopper EXCEPT ![c] = IdleStop]
  /\ UNCHANGED <<task, senders, signal, handle, tx, starter, spawned, beacon_seq, own, peers, started>>

-----------------------------------------------------------------------------
(* The task.                                                               *)

\* interval.tick(): the groups are snapshot, a record is made.
TickTask(i) ==
  /\ task[i].pc = "select" /\ beacon_seq < MaxSeq
  /\ beacon_seq' = beacon_seq + 1
  /\ task' = [task EXCEPT ![i] = [pc |-> "store", seq |-> beacon_seq, slow |-> {}]]
  /\ UNCHANGED <<senders, signal, handle, tx, starter, stopper, spawned, own, peers, started>>

StoreOwn(i) ==
  /\ task[i].pc = "store"
  /\ own' = task[i].seq
  /\ task' = [task EXCEPT ![i].pc = "send"]
  /\ UNCHANGED <<senders, signal, handle, tx, starter, stopper, spawned, beacon_seq, peers, started>>

\* The sends of one beacon run side by side; some of them time out.
Broadcast(i, slow) ==
  /\ task[i].pc = "send" /\ slow \subseteq peers
  /\ task' = [task EXCEPT ![i].pc = "reap", ![i].slow = slow]
  /\ UNCHANGED <<senders, signal, handle, tx, starter, stopper, spawned, beacon_seq, own, peers, started>>

\* Peers whose send timed out are dropped from the set as it is now.
RemoveTimedOut(i) ==
  /\ task[i].pc = "reap"
  /\ peers' = peers \ task[i].slow
  /\ task' = [task EXCEPT ![i] = [NoTask EXCEPT !.pc = "select"]]
  /\ UNCHANGED <<senders, signal, handle, tx, starter, stopper, spawned, beacon_seq, own, started>>

\* shutdown_rx.recv() got the message, or found the channel closed.
Exit(i) ==
  /\ task[i].pc = "select" /\ (signal[i] \/ ~senders[i])
  /\ task' = [task EXCEPT ![i].pc = "stopped"]
  /\ signal' = [signal EXCEPT ![i] = FALSE]
  /\ UNCHANGED <<senders, handle, tx, starter, stopper, spawned, beacon_seq, own, peers, started>>

\* The membership layer replaces the peers (replace_broadcast_peers and the
\* two single updates).
SetPeers(now) ==
  /\ peers # now
  /\ peers' = now
  /\ UNCHANGED <<task, senders, signal, handle, tx, starter, stopper, spawned, beacon_seq, own, started>>

TaskStep(i) ==
  \/ StoreOwn(i) \/ (\E slow \in SUBSET Peers : Broadcast(i, slow)) \/ RemoveTimedOut(i)

BeaconNext ==
  \/ \E c \in Starters : CheckNotRunning(c) \/ Spawn(c) \/ StoreHandle(c) \/ StoreSender(c)
  \/ \E c \in Stoppers :
       SendShutdown(c) \/ TakeHandle(c) \/ TaskJoined(c) \/ Abort(c) \/ StopAgain(c)
  \/ \E i \in TaskIds : TickTask(i) \/ TaskStep(i) \/ Exit(i)
  \/ \E now \in SUBSET Peers : SetPeers(now)

-----------------------------------------------------------------------------
\* The type of the state.
BeaconTypeOK ==
  /\ \A i \in TaskIds : task[i].pc \in {"none", "select", "store", "send", "reap", "stopped"}
  /\ senders \in [TaskIds -> BOOLEAN] /\ signal \in [TaskIds -> BOOLEAN]
  /\ handle \in 0 .. MaxTasks /\ tx \in 0 .. MaxTasks
  /\ beacon_seq \in 0 .. MaxSeq /\ own \in -1 .. (MaxSeq - 1)
  /\ peers \subseteq Peers /\ started \subseteq 1 .. spawned

\* "Abort and await the handle so the task is guaranteed stopped before this
\* returns": when stop_beacons returns no task of an earlier start runs.
StopMeansStopped ==
  \A c \in Stoppers : stopper[c].pc = "done" => \A i \in stopper[c].before : ~Running(i)

\* Our own record in received_beacons never gets an older sequence number: no
\* two tasks broadcast at once (start_beacons, "Beacon broadcasting already
\* started").
OwnRecordMonotoneStep ==
  own' >= own

-----------------------------------------------------------------------------
(* Both parts. *)

vars == <<presenceVars, beaconVars>>

Init == PresenceInit /\ BeaconInit

Next ==
  \/ PresenceNext /\ UNCHANGED beaconVars
  \/ BeaconNext /\ UNCHANGED presenceVars

Spec == Init /\ [][Next]_vars
=============================================================================
