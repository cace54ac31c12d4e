------------------------------- MODULE Topics -------------------------------
(***************************************************************************)
(* How a node's topics come and go (subscribe, subscribe_ready,            *)
(* unsubscribe, spawn_cache_cleaner and the functions it calls in          *)
(* crates/pubsub/src/lib.rs).  A topic's state is created by a             *)
(* subscription or by traffic.  subscribe registers in a spawned task; a   *)
(* subscriber ends by dropping its receiver or with its topic.  The        *)
(* cleaner reads the time, takes all topic locks, sweeps, reaps idle       *)
(* topics, and then, the locks dropped, clears what other tables keep      *)
(* about the topics it reaped: the rows of suppressed peers and the peer   *)
(* scores.  A cooling entry is "window" while its peer has timed out but   *)
(* is not suppressed.                                                      *)
(*                                                                         *)
(* ShardedTopicMap: the topic states, spread over shards that each have a  *)
(* read-write lock, and who takes more than one of them.  write_all and    *)
(* read_all wait for the shards in index order; try_read_all takes what is *)
(* free and gives up at the first shard that is not; a worker takes the    *)
(* shard of its topic.  The ceiling on eager peers is an atomic beside the *)
(* shards: set_eager_degree_ceiling stores it and rewrites every topic,    *)
(* and a topic that is created reads it.  The diagnostics reader caches    *)
(* what it built for the times when it finds a shard taken.                *)
(*                                                                         *)
(* The lock is tokio's: waiters are served in the order they came, and     *)
(* nobody, not even try_read, passes a waiter.                             *)
(***************************************************************************)
EXTENDS Naturals, FiniteSets, Sequences, SequencesExt

CONSTANTS Topics, Subs, Peers, MaxMoves

CONSTANTS Count,      \* shards
          ShardTopics,
          ShardOf,    \* the shard of a topic (shard_index)
          Ceilings,   \* the values the ceiling is set to
          Workers,    \* tasks that take the shard of one topic for writing
          Setters,    \* set_eager_degree_ceiling
          Cleaners,   \* tasks that sweep all topics under write_all
          Listers,    \* tasks that read all shards (read_all)
          Readers     \* diagnostics readers (try_read_all)

VARIABLES
  topic,      \* the topic map
  sub,        \* each subscriber: where it is and whether its receiver is open
  row,        \* stage_stats.suppressed_peers
  score,      \* peer_scores_v2: "none", or whether its evidence is recent
  cleaner,    \* the cleaner task
  leaving,    \* topics an unsubscribe removed and has yet to clear the rows of
  moves       \* moves of the environment so far

VARIABLES lock,       \* each shard's lock: who reads, who writes, who waits
          topics,     \* the ceiling in each topic's state, 0 for a topic without one
          ceiling,    \* max_eager_degree
          task,       \* what each task is doing
          stored      \* the diagnostics snapshot cached last

lifeVars == <<topic, sub, row, score, cleaner, leaving, moves>>

Pairs == Topics \X Peers
Cools == {"none", "window", "suppressed", "expired", "probing"}

Gone == [present |-> FALSE, subs |-> {}, idle |-> FALSE, members |-> {},
         cool |-> [p \in Peers |-> "none"]]
NewTopic == [Gone EXCEPT !.present = TRUE]
Waiting == [stage |-> "asleep", late |-> {}, reaped |-> {}, live |-> {}]

LifeTypeOK ==
  /\ \A t \in Topics :
       /\ topic[t].subs \subseteq Subs
       /\ topic[t].members \subseteq Peers
       /\ \A p \in Peers : topic[t].cool[p] \in Cools
       /\ ~topic[t].present => topic[t] = Gone
  /\ \A s \in Subs :
       /\ sub[s].at \in {"new", "pending", "registered", "ended"}
       /\ sub[s].at = "registered" => s \in topic[sub[s].topic].subs
  /\ row \subseteq Pairs
  /\ \A x \in Pairs : score[x] \in {"none", "fresh", "old"}
  /\ cleaner.stage \in {"asleep", "timed", "swept", "cleared", "read"}

LifeInit ==
  /\ topic = [t \in Topics |-> Gone]
  /\ sub = [s \in Subs |-> [at |-> "new", open |-> TRUE, topic |-> CHOOSE t \in Topics : TRUE]]
  /\ row = {}
  /\ score = [x \in Pairs |-> "none"]
  /\ cleaner = Waiting
  /\ leaving = {}
  /\ moves = 0

Move == moves < MaxMoves /\ moves' = moves + 1
OrNew(t) == IF topic[t].present THEN topic[t] ELSE NewTopic
OpenSubs(t) == {s \in topic[t].subs : sub[s].open}

-----------------------------------------------------------------------------
(* Subscribers.                                                            *)

subscribe(s, t) ==
  /\ Move
  /\ sub[s].at = "new"
  /\ sub' = [sub EXCEPT ![s].at = "pending", ![s].topic = t]
  /\ UNCHANGED <<topic, row, score, cleaner, leaving>>

\* The spawned task of subscribe, and subscribe_ready under its await.
Register(s) ==
  /\ sub[s].at = "pending"
  /\ LET t == sub[s].topic
     IN topic' = [topic EXCEPT ![t] = [OrNew(t) EXCEPT !.subs = @ \union {s}, !.idle = FALSE]]
  /\ sub' = [sub EXCEPT ![s].at = "registered"]
  /\ UNCHANGED <<row, score, cleaner, leaving, moves>>

DropReceiver(s) ==
  /\ Move
  /\ sub[s].at \in {"pending", "registered"}
  /\ sub[s].open
  /\ sub' = [sub EXCEPT ![s].open = FALSE]
  /\ UNCHANGED <<topic, row, score, cleaner, leaving>>

\* A registration that leaves the list is over.
Ended(ss) == [s \in Subs |-> IF s \in ss THEN [sub[s] EXCEPT !.at = "ended"] ELSE sub[s]]

unsubscribe(t) ==
  /\ Move
  /\ topic[t].present
  /\ t \notin leaving
  /\ sub' = Ended(topic[t].subs)
  /\ topic' = [topic EXCEPT ![t] = Gone]
  /\ leaving' = leaving \union {t}
  /\ UNCHANGED <<row, score, cleaner>>

clear_topic_suppressions(ts) == row' = {x \in row : x[1] \notin ts}

UnsubscribeEnds(t) ==
  /\ t \in leaving
  /\ clear_topic_suppressions({t})
  /\ leaving' = leaving \ {t}
  /\ UNCHANGED <<topic, sub, score, cleaner, moves>>

-----------------------------------------------------------------------------
(* Traffic.  A publish or an EAGER touches the topic and drops subscribers *)
(* whose receiver is closed.                                               *)

Traffic(t) ==
  /\ Move
  /\ topic' = [topic EXCEPT ![t] =
       [OrNew(t) EXCEPT !.idle = FALSE, !.subs = {s \in @ : sub[s].open}]]
  /\ sub' = Ended({s \in topic[t].subs : ~sub[s].open})
  /\ UNCHANGED <<row, score, cleaner, leaving>>

\* The topic's peers become the connected ones; a peer that left loses its
\* cooling entry and its row.
set_topic_peers(t, connected) ==
  /\ Move
  /\ topic' = [topic EXCEPT ![t] =
       [OrNew(t) EXCEPT !.members = connected,
                        !.cool = [p \in Peers |-> IF p \in connected THEN @[p] ELSE "none"]]]
  /\ row' = {x \in row : x[1] = t => x[2] \in connected \/ topic[t].cool[x[2]] = "none"}
  /\ UNCHANGED <<sub, score, cleaner, leaving>>

record_inbound_peer_activity(t, p) ==
  /\ Move
  /\ topic[t].cool[p] # "none"
  /\ topic' = [topic EXCEPT ![t].cool[p] = "none"]
  /\ row' = row \ {<<t, p>>}
  /\ UNCHANGED <<sub, score, cleaner, leaving>>

\* Evidence about a peer: of an invalid message even without a topic.
RecordScore(t, p) ==
  /\ Move
  /\ score' = [score EXCEPT ![<<t, p>>] = "fresh"]
  /\ UNCHANGED <<topic, sub, row, cleaner, leaving>>

\* A send may time out after its peer has left the topic.
SendTimeout(t, p) ==
  /\ Move
  /\ topic[t].present
  /\ topic[t].cool[p] \in {"none", "window", "probing"}
  /\ \/ /\ topic[t].cool[p] # "probing"
        /\ topic' = [topic EXCEPT ![t].cool[p] = "window"]
        /\ UNCHANGED row
     \/ /\ topic' = [topic EXCEPT ![t].cool[p] = "suppressed"]
        /\ row' = row \union {<<t, p>>}
  /\ UNCHANGED <<sub, score, cleaner, leaving>>

ClaimProbe(t, p) ==
  /\ Move
  /\ topic[t].cool[p] = "expired"
  /\ topic' = [topic EXCEPT ![t].cool[p] = "probing"]
  /\ UNCHANGED <<sub, row, score, cleaner, leaving>>

ProbeSent(t, p) ==
  /\ topic[t].cool[p] = "probing"
  /\ topic' = [topic EXCEPT ![t].cool[p] = "none"]
  /\ row' = row \ {<<t, p>>}
  /\ UNCHANGED <<sub, score, cleaner, leaving, moves>>

-----------------------------------------------------------------------------
(* Time.                                                                   *)

IdleExpires(t) ==
  /\ topic[t].present
  /\ ~topic[t].idle
  /\ topic' = [topic EXCEPT ![t].idle = TRUE]
  /\ UNCHANGED <<sub, row, score, cleaner, leaving, moves>>

SuppressionExpires(t, p) ==
  /\ topic[t].cool[p] = "suppressed"
  /\ topic' = [topic EXCEPT ![t].cool[p] = "expired"]
  /\ cleaner' = IF cleaner.stage = "timed" THEN [cleaner EXCEPT !.late = @ \union {<<t, p>>}] ELSE cleaner
  /\ UNCHANGED <<sub, row, score, leaving, moves>>

ScoreAges(x) ==
  /\ score[x] = "fresh"
  /\ score' = [score EXCEPT ![x] = "old"]
  /\ UNCHANGED <<topic, sub, row, cleaner, leaving, moves>>

-----------------------------------------------------------------------------
(* The cleaner.                                                            *)

\* cleanup_now is read before the locks are taken.
CleanupNow ==
  /\ cleaner.stage = "asleep"
  /\ cleaner' = [Waiting EXCEPT !.stage = "timed"]
  /\ UNCHANGED <<topic, sub, row, score, leaving, moves>>

ExpiredAt(t) == {p \in Peers : topic[t].cool[p] = "expired" /\ <<t, p>> \notin cleaner.late}

clean_expired_peer_cooling(t) ==
  [topic[t] EXCEPT !.cool = [p \in Peers |->
     IF p \in ExpiredAt(t) \ topic[t].members THEN "none" ELSE topic[t].cool[p]]]

\* clean_cache, of the subscribers, and the entries of peers that left.
prune_churned_peer_state(r) ==
  [r EXCEPT !.subs = {s \in @ : sub[s].open},
            !.cool = [p \in Peers |->
               IF p \in r.members \/ r.cool[p] \in {"suppressed", "probing"} THEN r.cool[p] ELSE "none"]]

\* Mutant: a topic is idle whether or not somebody subscribes to it.
IdleAlone(t) == topic[t].present /\ topic[t].idle

\* Mutant: a topic with peers in its mesh is not idle.
IdleUnlessMembers(t) ==
  topic[t].present /\ topic[t].idle /\ OpenSubs(t) = {} /\ topic[t].members = {}

is_idle(t) == topic[t].present /\ topic[t].idle /\ OpenSubs(t) = {}

clean_and_reap_topic_ids ==
  /\ cleaner.stage = "timed"
  /\ LET idle == {t \in Topics : is_idle(t)}
     IN /\ topic' = [t \in Topics |->
                       IF t \in idle THEN Gone
                       ELSE prune_churned_peer_state(clean_expired_peer_cooling(t))]
        /\ sub' = Ended({s \in Subs : sub[s].at = "registered" /\
                                      (~sub[s].open \/ sub[s].topic \in idle)})
        /\ row' = row \ {x \in Pairs : x[2] \in ExpiredAt(x[1])}
        /\ cleaner' = [cleaner EXCEPT !.stage = "swept", !.late = {}, !.reaped = idle]
  /\ UNCHANGED <<score, leaving, moves>>

ClearRows ==
  /\ cleaner.stage = "swept"
  /\ clear_topic_suppressions(cleaner.reaped)
  /\ cleaner' = [cleaner EXCEPT !.stage = "cleared"]
  /\ UNCHANGED <<topic, sub, score, leaving, moves>>

ReadLive ==
  /\ cleaner.stage = "cleared"
  /\ cleaner' = [cleaner EXCEPT !.stage = "read",
                                !.live = {x \in Pairs : x[2] \in topic[x[1]].members}]
  /\ UNCHANGED <<topic, sub, row, score, leaving, moves>>

retain_active(x) == x \in cleaner.live \/ score[x] = "fresh"

\* A reaped topic that is back is passed over.
remove_topic(x) == x[1] \in cleaner.reaped /\ ~\E y \in cleaner.live : y[1] = x[1]

prune_churned_peer_scoring ==
  /\ cleaner.stage = "read"
  /\ score' = [x \in Pairs |-> IF retain_active(x) /\ ~remove_topic(x) THEN score[x] ELSE "none"]
  /\ cleaner' = Waiting
  /\ UNCHANGED <<topic, sub, row, leaving, moves>>

Cleaner ==
  CleanupNow \/ clean_and_reap_topic_ids \/ ClearRows \/ ReadLive \/ prune_churned_peer_scoring

-----------------------------------------------------------------------------
LifeNext ==
  \/ \E s \in Subs : Register(s) \/ DropReceiver(s) \/ \E t \in Topics : subscribe(s, t)
  \/ \E t \in Topics : unsubscribe(t) \/ UnsubscribeEnds(t) \/ Traffic(t) \/ IdleExpires(t)
  \/ \E t \in Topics, m \in SUBSET Peers : set_topic_peers(t, m)
  \/ \E t \in Topics, p \in Peers :
       \/ record_inbound_peer_activity(t, p) \/ RecordScore(t, p) \/ SendTimeout(t, p) \/ ClaimProbe(t, p) \/ ProbeSent(t, p)
       \/ SuppressionExpires(t, p) \/ ScoreAges(<<t, p>>)
  \/ Cleaner

-----------------------------------------------------------------------------
\* A subscriber that still listens loses its registration only when somebody
\* unsubscribes from its topic, never to the cleaner or to traffic ("without
\* silently closing quiet local subscriptions").
SubscriberKeptStep ==
  \A s \in Subs :
    sub[s].at = "registered" /\ sub[s].open /\ sub'[s].at = "ended"
      => sub[s].topic \in leaving' \ leaving

\* A topic stays only for somebody who listens.
IdleGone == \A t \in Topics : topic[t].present => OpenSubs(t) # {}

\* Scores stay only for members of a mesh.
NoStaleScore == \A x \in Pairs : score[x] # "none" => x[2] \in topic[x[1]].members

-----------------------------------------------------------------------------
shardVars == <<lock, topics, ceiling, task, stored>>

Shards == 1..Count
Tasks == Workers \union Setters \union Cleaners \union Listers \union Readers
Writes(t) == t \in Workers \union Setters \union Cleaners
Idle == [at |-> "idle"]

ShardInit ==
  /\ lock = [s \in Shards |-> [readers |-> {}, writer |-> {}, queue |-> << >>]]
  /\ ceiling \in Ceilings
  /\ topics = [t \in ShardTopics |-> 0]
  /\ task = [t \in Tasks |-> Idle]
  /\ stored = topics

ShardTypeOK ==
  /\ \A s \in Shards :
       /\ lock[s].readers \subseteq Tasks /\ lock[s].writer \subseteq Tasks
       /\ Cardinality(lock[s].writer) <= 1 /\ (lock[s].writer # {} => lock[s].readers = {})
       /\ IsInjective(lock[s].queue)
  /\ topics \in [ShardTopics -> Ceilings \union {0}] /\ ceiling \in Ceilings
  /\ stored \in [ShardTopics -> Ceilings \union {0}]
  /\ \A t \in Tasks : task[t].at \in {"idle", "lock", "work", "rewrite", "store", "release"}

At(t, step) == task[t].at = step
To(t, step) == task' = [task EXCEPT ![t].at = step]
Holds(t) == {s \in Shards : t \in lock[s].readers \union lock[s].writer}

\* The shards a task takes, in the order it takes them.
Order(t, work) ==
  IF t \in Workers THEN << ShardOf[work.topic] >> ELSE [s \in Shards |-> s]

-----------------------------------------------------------------------------
Work(t) ==
  IF t \in Workers THEN [topic : ShardTopics] ELSE IF t \in Setters THEN [max : Ceilings] ELSE {<< >>}

Start(t, work) ==
  /\ At(t, "idle")
  /\ task' = [task EXCEPT ![t] = [at |-> "lock", work |-> work, todo |-> Order(t, work)]]
  /\ UNCHANGED <<lock, topics, ceiling, stored>>

\* The lock as it is with t holding it.
Granted(l, t) == IF Writes(t) THEN [l EXCEPT !.writer = {t}] ELSE [l EXCEPT !.readers = @ \union {t}]
Compatible(l, t) == l.writer = {} /\ (Writes(t) => l.readers = {})
Advance(t) ==
  task' = [task EXCEPT ![t].todo = Tail(@), ![t].at = IF Len(task[t].todo) = 1 THEN "work" ELSE "lock"]

\* read().await or write().await of the next shard: taken at once when it is
\* free and nobody waits, otherwise after everyone who came before.
Take(t) ==
  LET s == Head(task[t].todo)
  IN  /\ At(t, "lock") /\ t \notin Readers
      /\ \/ /\ lock[s].queue = << >> /\ Compatible(lock[s], t)
            /\ lock' = [lock EXCEPT ![s] = Granted(@, t)] /\ Advance(t)
         \/ /\ t \notin ToSet(lock[s].queue) /\ (lock[s].queue # << >> \/ ~Compatible(lock[s], t))
            /\ lock' = [lock EXCEPT ![s].queue = Append(@, t)] /\ UNCHANGED task
         \/ /\ lock[s].queue # << >> /\ Head(lock[s].queue) = t /\ Compatible(lock[s], t)
            /\ lock' = [lock EXCEPT ![s] = Granted([@ EXCEPT !.queue = Tail(@)], t)] /\ Advance(t)
      /\ UNCHANGED <<topics, ceiling, stored>>

\* try_read of the next shard; the first refusal drops the guards taken so far
\* and the reader answers from the snapshot stored last.
TryRead(t) ==
  LET s == Head(task[t].todo)
  IN  /\ At(t, "lock") /\ t \in Readers
      /\ IF lock[s].queue = << >> /\ Compatible(lock[s], t)
         THEN lock' = [lock EXCEPT ![s] = Granted(@, t)] /\ Advance(t)
         ELSE To(t, "release") /\ UNCHANGED lock
      /\ UNCHANGED <<topics, ceiling, stored>>

Release(t) ==
  /\ At(t, "release")
  /\ \/ /\ Holds(t) = {} /\ task' = [task EXCEPT ![t] = Idle] /\ UNCHANGED lock
     \/ /\ Holds(t) # {} /\ UNCHANGED task
        /\ LET s == CHOOSE s \in Holds(t) : \A u \in Holds(t) : s <= u
           IN  lock' = [lock EXCEPT ![s] = [@ EXCEPT !.readers = @ \ {t}, !.writer = @ \ {t}]]
  /\ UNCHANGED <<topics, ceiling, stored>>

-----------------------------------------------------------------------------
\* A worker's section: the topic's state, created if there is none.
new_topic_state(t) ==
  /\ At(t, "work") /\ t \in Workers /\ To(t, "release")
  /\ topics' = [topics EXCEPT ![task[t].work.topic] = IF @ = 0 THEN ceiling ELSE @]
  /\ UNCHANGED <<lock, ceiling, stored>>

\* Mutant: the ceiling is stored, and the topics rewritten one by one without
\* waiting for the shards.
SetUnlocked(t) ==
  /\ t \in Setters
  /\ \/ /\ At(t, "lock") /\ ceiling' = task[t].work.max /\ To(t, "rewrite") /\ UNCHANGED topics
     \/ /\ At(t, "rewrite") /\ To(t, "release") /\ ceiling' = ceiling
        /\ topics' = [u \in ShardTopics |-> IF topics[u] = 0 THEN 0 ELSE task[t].work.max]
  /\ UNCHANGED <<lock, stored>>

\* The store, then the rewriting of every topic, under all shards.
set_eager_degree_ceiling(t) ==
  /\ t \in Setters
  /\ \/ /\ At(t, "work") /\ ceiling' = task[t].work.max /\ To(t, "rewrite") /\ UNCHANGED topics
     \/ /\ At(t, "rewrite") /\ To(t, "release") /\ ceiling' = ceiling
        /\ topics' = [u \in ShardTopics |-> IF topics[u] = 0 THEN 0 ELSE task[t].work.max]
  /\ UNCHANGED <<lock, stored>>

\* A sweep under write_all; it may let a topic go.
Sweep(t, gone) ==
  /\ At(t, "work") /\ t \in Cleaners /\ To(t, "release")
  /\ topics' = [u \in ShardTopics |-> IF u \in gone THEN 0 ELSE topics[u]]
  /\ UNCHANGED <<lock, ceiling, stored>>

all_topic_ids(t) ==
  /\ At(t, "work") /\ t \in Listers /\ To(t, "release")
  /\ UNCHANGED <<lock, topics, ceiling, stored>>

\* peer_score_snapshots / topic_cache_snapshots: built, and stored, under the
\* read guards of all shards.
Build(t) ==
  /\ At(t, "work") /\ t \in Readers
  /\ task' = [task EXCEPT ![t] = [at |-> "store", todo |-> << >>, built |-> topics]]
  /\ UNCHANGED <<lock, topics, ceiling, stored>>

Store(t) ==
  /\ At(t, "store") /\ t \in Readers /\ To(t, "release")
  /\ stored' = task[t].built
  /\ UNCHANGED <<lock, topics, ceiling>>

Step(t) ==
  \/ Take(t)
  \/ TryRead(t)
  \/ Release(t)
  \/ new_topic_state(t)
  \/ set_eager_degree_ceiling(t)
  \/ \E gone \in SUBSET ShardTopics : Sweep(t, gone)
  \/ all_topic_ids(t)
  \/ Build(t)
  \/ Store(t)

ShardNext == \E t \in Tasks : (\E work \in Work(t) : Start(t, work)) \/ Step(t)

-----------------------------------------------------------------------------
\* A topic somebody could look at has the ceiling that is in force: creation
\* reads it under the topic's shard and the setter changes it under all of
\* them, so no topic is created with the old value after the rewriting.
CeilingInForce ==
  \A u \in ShardTopics : topics[u] # 0 /\ lock[ShardOf[u]].writer = {} => topics[u] = ceiling

\* A diagnostics snapshot is stored only while it is what all shards hold: it
\* shows no shard before and another after one sweep, and a slower reader never
\* puts an older snapshot over a newer one.
StoredIsCurrentStep ==
  stored' # stored => stored' = topics

-----------------------------------------------------------------------------
(* Both parts. *)

vars == <<lifeVars, shardVars>>

Init == LifeInit /\ ShardInit

Next ==
  \/ LifeNext /\ UNCHANGED shardVars
  \/ ShardNext /\ UNCHANGED lifeVars

Spec == Init /\ [][Next]_vars
=============================================================================
