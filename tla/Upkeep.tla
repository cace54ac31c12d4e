------------------------------- MODULE Upkeep -------------------------------
(***************************************************************************)
(* The two snapshots the send path reads instead of asking: which peers    *)
(* the transport is connected to, and how the SWIM oracle rates the peers  *)
(* pub/sub knows.  Each has a background task that asks, stores, and       *)
(* sleeps; the first also removes from every topic the peers its answer    *)
(* does not list.  The tasks await between asking and storing, so what     *)
(* they store may be old. One topic; eager and lazy peers are its mesh.    *)
(*                                                                         *)
(* The background tasks of a pub/sub node and how they stop (shutdown,     *)
(* retain_background_task and the loops of the spawn_ functions of         *)
(* crates/pubsub/src/lib.rs).  A task sleeps for its first jitter, then    *)
(* waits for its tick or for the shutdown signal, and works when its tick  *)
(* comes; its work may hang in a send.  The IHAVE flusher flushes once     *)
(* more on the signal.  A shutdown call raises the signal, takes the       *)
(* handles, waits for each until a deadline that all of them share, and    *)
(* aborts those that miss it.                                              *)
(***************************************************************************)
EXTENDS Naturals, FiniteSets

CONSTANTS Peers, MaxChanges   \* bound on what the environment changes

CONSTANTS Tasks, Flusher, Callers

VARIABLES connected,  \* the transport's connections
          oracle,     \* the health the oracle would answer with
          mesh,       \* the topic's eager and lazy peers
          snapshot,   \* connected_peers_snapshot
          health,     \* peer_health_snapshot
          refresh,    \* the connected-peers refresher
          poll,       \* the peer-health refresher
          changes,
          away        \* history: peers without a connection at some time of this pass

VARIABLES
  signal,     \* shutdown_tx
  task,       \* where each task is
  aborted,    \* tasks whose handle was aborted
  batch,      \* announcements the flusher has yet to hand off
  handles,    \* background_tasks
  call        \* each shutdown call: its stage, its handles, its deadline

refreshVars == <<connected, oracle, mesh, snapshot, health, refresh, poll, changes, away>>

Health == {"Alive", "Suspect", "Dead", "None"}
Unavailable == [list |-> {}, known |-> FALSE]
Listing(peers) == [list |-> peers, known |-> TRUE]
Asleep == [at |-> "sleep", answer |-> {}]
Resting == [at |-> "sleep", todo |-> {}, found |-> [p \in Peers |-> "None"]]

RefreshInit ==
  /\ connected \in SUBSET Peers /\ oracle \in [Peers -> {"Alive", "None"}]
  /\ mesh \in SUBSET Peers
  /\ snapshot = Unavailable /\ health = [p \in Peers |-> "None"]
  /\ refresh = Asleep /\ poll = Resting
  /\ changes = 0 /\ away = {}

RefreshTypeOK ==
  /\ snapshot \in [list : SUBSET Peers, known : BOOLEAN] /\ (snapshot.known <=> snapshot.list # {})
  /\ health \in [Peers -> Health]
  /\ refresh.at \in {"sleep", "store", "prune"} /\ refresh.answer \subseteq Peers
  /\ poll.at \in {"sleep", "ask"} /\ poll.todo \subseteq Peers

-----------------------------------------------------------------------------
Change == changes < MaxChanges /\ changes' = changes + 1

Connect(p) ==
  /\ p \notin connected /\ Change /\ connected' = connected \union {p}
  /\ UNCHANGED <<oracle, mesh, snapshot, health, refresh, poll, away>>

Disconnect(p) ==
  /\ p \in connected /\ Change /\ connected' = connected \ {p} /\ away' = away \union {p}
  /\ UNCHANGED <<oracle, mesh, snapshot, health, refresh, poll>>

Rate(p, h) ==
  /\ oracle[p] # h /\ Change /\ oracle' = [oracle EXCEPT ![p] = h]
  /\ UNCHANGED <<connected, mesh, snapshot, health, refresh, poll, away>>

\* A frame of the peer, or the membership, brings it into the topic.
Meet(p) ==
  /\ p \notin mesh /\ Change /\ mesh' = mesh \union {p}
  /\ UNCHANGED <<connected, oracle, snapshot, health, refresh, poll, away>>

-----------------------------------------------------------------------------
\* transport.connected_peer_ids().await
Ask ==
  /\ refresh.at = "sleep"
  /\ refresh' = [at |-> "store", answer |-> connected]
  /\ away' = Peers \ connected
  /\ UNCHANGED <<connected, oracle, mesh, snapshot, health, poll, changes>>

Answered == IF refresh.answer = {} THEN Unavailable ELSE Listing(refresh.answer)

\* Mutant: an empty answer is followed like any other.
PruneAlways(answer) == "prune"

\* An empty list means the transport cannot tell: the pass ends there.
AfterStore(answer) == IF answer = {} THEN "sleep" ELSE "prune"

StoreConnected ==
  /\ refresh.at = "store"
  /\ snapshot' = Answered
  /\ refresh' = [refresh EXCEPT !.at = AfterStore(refresh.answer)]
  /\ UNCHANGED <<connected, oracle, mesh, health, poll, changes, away>>

\* Under write_all, against the list that was stored.
PruneDisconnected ==
  /\ refresh.at = "prune"
  /\ mesh' = mesh \intersect refresh.answer
  /\ refresh' = Asleep
  /\ UNCHANGED <<connected, oracle, snapshot, health, poll, changes, away>>

\* known_pubsub_peers, then the oracle is asked about one after another.
PollStart ==
  /\ poll.at = "sleep"
  /\ poll' = [at |-> "ask", todo |-> mesh, found |-> [p \in Peers |-> "None"]]
  /\ UNCHANGED <<connected, oracle, mesh, snapshot, health, refresh, changes, away>>

PollPeer(p) ==
  /\ poll.at = "ask" /\ p \in poll.todo
  /\ poll' = [poll EXCEPT !.todo = @ \ {p}, !.found[p] = oracle[p]]
  /\ UNCHANGED <<connected, oracle, mesh, snapshot, health, refresh, changes, away>>

Refreshed(found) == found

StoreHealth ==
  /\ poll.at = "ask" /\ poll.todo = {}
  /\ health' = Refreshed(poll.found) /\ poll' = Resting
  /\ UNCHANGED <<connected, oracle, mesh, snapshot, refresh, changes, away>>

Refresher == Ask \/ StoreConnected \/ PruneDisconnected
Poller == PollStart \/ (\E p \in Peers : PollPeer(p)) \/ StoreHealth

RefreshNext ==
  \/ \E p \in Peers : Connect(p) \/ Disconnect(p) \/ Meet(p) \/ (\E h \in Health : Rate(p, h))
  \/ Refresher
  \/ Poller

-----------------------------------------------------------------------------
\* The refresher takes a peer out of a topic only if the peer had no connection
\* at some moment since the transport was asked, and never on the strength of
\* an empty list: a transport that reports nobody leaves the mesh as it is.
PrunesOnEvidenceStep ==
  \A p \in mesh \ mesh' : p \in away /\ refresh.answer # {}

\* The snapshots say what is so: the connections, or that they are not known
\* when there are none; no peer without a connection in the mesh; and the
\* oracle's rating of every peer in it, a rating withdrawn included.
Settled ==
  /\ snapshot = (IF connected = {} THEN Unavailable ELSE Listing(connected))
  /\ connected # {} => mesh \subseteq connected
  /\ \A p \in mesh : health[p] = oracle[p]

-----------------------------------------------------------------------------
stopVars == <<signal, task, aborted, batch, handles, call>>

NoCall == [stage |-> "none", drained |-> {}, late |-> FALSE]

StopTypeOK ==
  /\ signal \in BOOLEAN
  /\ task \in [Tasks -> {"jitter", "waiting", "working", "final", "ended"}]
  /\ aborted \subseteq Tasks
  /\ batch \in BOOLEAN
  /\ handles \subseteq Tasks
  /\ call \in [Callers -> [stage : {"none", "signalled", "joining", "returned"},
                           drained : SUBSET Tasks, late : BOOLEAN]]

StopInit ==
  /\ signal = FALSE
  /\ task = [k \in Tasks |-> "jitter"]
  /\ aborted = {}
  /\ batch = FALSE
  /\ handles = Tasks
  /\ call = [c \in Callers |-> NoCall]

Moves(k, to) == task' = [task EXCEPT ![k] = to]

-----------------------------------------------------------------------------
JitterOver(k) ==
  /\ task[k] = "jitter"
  /\ Moves(k, "waiting")
  /\ UNCHANGED <<signal, aborted, batch, handles, call>>

Tick(k) ==
  /\ task[k] = "waiting"
  /\ Moves(k, "working")
  /\ UNCHANGED <<signal, aborted, batch, handles, call>>

\* The work of a tick ends; the flusher has handed its batch off.
WorkEnds(k) ==
  /\ task[k] = "working"
  /\ Moves(k, "waiting")
  /\ batch' = IF k = Flusher THEN FALSE ELSE batch
  /\ UNCHANGED <<signal, aborted, handles, call>>


SeesSignal(k) ==
  /\ signal
  /\ task[k] \in {"jitter", "waiting"}
  /\ Moves(k, IF k = Flusher /\ task[k] = "waiting" THEN "final" ELSE "ended")
  /\ UNCHANGED <<signal, aborted, batch, handles, call>>

FinalFlush ==
  /\ task[Flusher] = "final"
  /\ Moves(Flusher, "ended")
  /\ batch' = FALSE
  /\ UNCHANGED <<signal, aborted, handles, call>>

\* An aborted task ends at the await it is in.
AbortTakes(k) ==
  /\ k \in aborted
  /\ task[k] # "ended"
  /\ Moves(k, "ended")
  /\ UNCHANGED <<signal, aborted, batch, handles, call>>

\* Something is published or forwarded lazily before the flusher stops.
Announce ==
  /\ ~signal
  /\ ~batch
  /\ batch' = TRUE
  /\ UNCHANGED <<signal, task, aborted, handles, call>>

-----------------------------------------------------------------------------
shutdown(c) ==
  /\ call[c].stage = "none"
  /\ signal' = TRUE
  /\ call' = [call EXCEPT ![c].stage = "signalled"]
  /\ UNCHANGED <<task, aborted, batch, handles>>

Drain(c) ==
  /\ call[c].stage = "signalled"
  /\ call' = [call EXCEPT ![c] = [stage |-> "joining", drained |-> handles, late |-> FALSE]]
  /\ handles' = {}
  /\ UNCHANGED <<signal, task, aborted, batch>>

DeadlinePasses(c) ==
  /\ call[c].stage = "joining"
  /\ ~call[c].late
  /\ call' = [call EXCEPT ![c].late = TRUE]
  /\ UNCHANGED <<signal, task, aborted, batch, handles>>

Join(c, k) ==
  /\ call[c].stage = "joining"
  /\ k \in call[c].drained
  /\ task[k] = "ended"
  /\ call' = [call EXCEPT ![c].drained = @ \ {k}]
  /\ UNCHANGED <<signal, task, aborted, batch, handles>>

AbortStraggler(c, k) ==
  /\ call[c].stage = "joining"
  /\ k \in call[c].drained
  /\ call[c].late
  /\ task[k] # "ended"
  /\ aborted' = aborted \union {k}
  /\ call' = [call EXCEPT ![c].drained = @ \ {k}]
  /\ UNCHANGED <<signal, task, batch, handles>>

Return(c) ==
  /\ call[c].stage = "joining"
  /\ call[c].drained = {}
  /\ call' = [call EXCEPT ![c].stage = "returned"]
  /\ UNCHANGED <<signal, task, aborted, batch, handles>>

Call(c) ==
  \/ Drain(c) \/ DeadlinePasses(c) \/ Return(c)
  \/ \E k \in Tasks : Join(c, k) \/ AbortStraggler(c, k)

StopNext ==
  \/ \E k \in Tasks : JitterOver(k) \/ Tick(k) \/ WorkEnds(k) \/ SeesSignal(k) \/ AbortTakes(k)
  \/ FinalFlush
  \/ Announce
  \/ \E c \in Callers : shutdown(c) \/ Call(c)

-----------------------------------------------------------------------------
\* An orderly stop loses no announcement: a flusher that ended after its first
\* jitter without being aborted has flushed ("without this the trailing
\* interval's batch would be dropped even on a live transport").
StopFlushesStep ==
  task[Flusher] = "waiting" /\ task'[Flusher] = "ended" => ~batch' \/ Flusher \in aborted

\* Every task that is left at the end of the call that took the handles has
\* been aborted, so none survives a shutdown unnoticed (BACKGROUND_SHUTDOWN_GRACE).
NoneForgotten ==
  \A c \in Callers : call[c].stage = "returned" /\ handles = {} =>
    \/ \A k \in Tasks : task[k] = "ended" \/ k \in aborted
    \/ \E d \in Callers : call[d].stage = "joining"

-----------------------------------------------------------------------------
(* Both parts. *)

vars == <<refreshVars, stopVars>>

Init == RefreshInit /\ StopInit

Next ==
  \/ RefreshNext /\ UNCHANGED stopVars
  \/ StopNext /\ UNCHANGED refreshVars

Spec == Init /\ [][Next]_vars
=============================================================================
