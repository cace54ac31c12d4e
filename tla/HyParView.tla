----------------------------- MODULE HyParView ------------------------------
(***************************************************************************)
(* The HyParView messages between the nodes of an overlay: JOIN,           *)
(* FORWARDJOIN, NEIGHBOR, SHUFFLE and their replies, as the handlers of    *)
(* HyParViewMembership send them (crates/membership/src/lib.rs).           *)
(*                                                                         *)
(* A handler is one step here; module Views has the interleavings inside a *)
(* node, and degree maintenance.  Messages arrive in any order, and a send *)
(* may fail.  HashSet iteration is any order.                              *)
(*                                                                         *)
(* Joining through seeds: JoinLedger, join_dial, join_send and the loop of *)
(* Membership::join in crates/membership/src/lib.rs.                       *)
(*                                                                         *)
(* Two callers are modelled.  The loop walks its list of seeds with a new  *)
(* ledger for each entry.  A stepwise caller keeps one ledger, takes the   *)
(* seeds in any order, may drop a future at any await, may end an attempt  *)
(* after the dial and reports lost connections.  Times are what is left of *)
(* them, in units of JOIN_INITIAL_DELAY_MS; the jitter, less than an       *)
(* eighth of its delay, rounds a delay up or not.                          *)
(***************************************************************************)
EXTENDS Integers, FiniteSets, Sequences

CONSTANTS
  Nodes,
  Boot,          \* nodes that start without a seed
  ActiveDegree,  \* config.active_degree
  MaxActive,     \* config.max_active_degree
  MaxPassive,    \* config.max_passive_degree
  ActiveWalk,    \* ACTIVE_RANDOM_WALK_LENGTH
  PassiveWalk,   \* PASSIVE_RANDOM_WALK_LENGTH
  SampleActive, SamplePassive,
  MaxShuffles, MaxLost

CONSTANTS
  Seeds,        \* seed addresses, each answered by the peer of that name
  List,         \* the list of the loop; << >> for the stepwise caller
  MaxAttempts,  \* JOIN_MAX_ATTEMPTS
  MaxDelay      \* JOIN_MAX_DELAY_MS

VARIABLES
  active, passive, \* the views of each node
  alive,           \* peers each node's SWIM table marks alive
  joined,          \* nodes that are part of the overlay
  net,             \* messages in flight
  shuffles, lost

VARIABLES
  ledger,   \* JoinSeedState of each seed, ready being what is left to wait
  pc, seed, \* where the caller is, and with which seed
  todo,     \* entries of the list after the current one
  sleep,    \* what is left of the loop's sleep
  addrs, view, \* stored addresses, and the active view
  dials,    \* dials made with the current ledger, per seed
  owed,     \* what is left of every wait a failure or a loss has started
  asked     \* peers that were sent a JOIN frame

overlayVars == <<active, passive, alive, joined, net, shuffles, lost>>

OverlayInit ==
  /\ active = [n \in Nodes |-> {}] /\ passive = [n \in Nodes |-> {}]
  /\ alive = [n \in Nodes |-> {}]
  /\ joined = Boot /\ net = {} /\ shuffles = 0 /\ lost = 0

Lesser(a, b) == IF a < b THEN a ELSE b
\* iter().take(k).
Take(S, k) == {T \in SUBSET S : Cardinality(T) = Lesser(k, Cardinality(S))}

Msg(kind, to, from, who, ttl) ==
  [kind |-> kind, to |-> to, from |-> from, who |-> who, ttl |-> ttl, peers |-> {}, ok |-> FALSE]

\* Mutant: the demoted peer is forgotten.
CommitDropping(n, p) ==
  \E out \in IF Cardinality(active[n]) >= ActiveDegree THEN Take(active[n], 1) ELSE {{}} :
    /\ active' = [active EXCEPT ![n] = (@ \ out) \cup {p}]
    /\ alive' = [alive EXCEPT ![n] = @ \cup {p}]
    /\ passive' = passive

\* commit_active.
Commit(n, p) ==
  \E out \in IF Cardinality(active[n]) >= ActiveDegree THEN Take(active[n], 1) ELSE {{}} :
    /\ active' = [active EXCEPT ![n] = (@ \ out) \cup {p}]
    /\ alive' = [alive EXCEPT ![n] = @ \cup {p}]
    /\ passive' = IF Cardinality(passive[n]) < MaxPassive
                  THEN [passive EXCEPT ![n] = @ \cup out] ELSE passive

\* add_to_passive for each of the peers, in any order, given the views act
\* and pas of node n: what the passive view becomes.
AddToPassive(n, act, pas, peers) ==
  {pas \cup new : new \in Take(peers \ ({n} \cup act \cup pas), MaxPassive - Cardinality(pas))}

\* Sends that the transport may refuse; handlers carry on or end with the
\* error, and nothing else depends on it.
Sent(base, msgs) ==
  \E refused \in {r \in SUBSET msgs : Cardinality(r) <= MaxLost - lost} :
    /\ net' = base \cup (msgs \ refused)
    /\ lost' = lost + Cardinality(refused)

-----------------------------------------------------------------------------
\* join_send to a seed, and its commit.
Join(n, s) ==
  /\ n \notin joined /\ s \in joined
  /\ net' = net \cup {Msg("Join", s, n, n, ActiveWalk)}
  /\ Commit(n, s)
  /\ joined' = joined \cup {n}
  /\ UNCHANGED <<shuffles, lost>>


\* handle_join: the new peer is taken in, and every other active peer hears.
HandleJoin(m) ==
  /\ Commit(m.to, m.who)
  /\ Sent(net \ {m}, IF m.ttl = 0 THEN {}
                     ELSE {Msg("ForwardJoin", t, m.to, m.who, m.ttl - 1) :
                             t \in active'[m.to] \ {m.who}})
  /\ UNCHANGED <<joined, shuffles>>

\* handle_forward_join, accepting: NEIGHBOR, and perhaps the passive view too
\* (which then holds the peer already, or it is active).
HandleForwardJoin(m) ==
  LET n == m.to
      room == Cardinality(active[n]) < ActiveDegree
      request == [Msg("Neighbor", m.who, n, n, 0) EXCEPT !.ok = (active[n] = {})]
  IN IF m.ttl = 0 \/ room
     THEN /\ Commit(n, m.who)
          /\ Sent(net \ {m}, {request})
          /\ UNCHANGED <<joined, shuffles>>
     ELSE /\ \/ /\ active[n] \subseteq {m.who}
                /\ Sent(net \ {m}, {})
             \/ \E t \in active[n] \ {m.who} :
                  Sent(net \ {m}, {Msg("ForwardJoin", t, n, m.who, m.ttl - 1)})
          /\ \E pas \in IF m.ttl = PassiveWalk /\ lost' = lost
                        THEN AddToPassive(n, active[n], passive[n], {m.who})
                        ELSE {passive[n]} :
               passive' = [passive EXCEPT ![n] = pas]
          /\ UNCHANGED <<active, alive, joined, shuffles>>

\* handle_neighbor.
HandleNeighbor(m) ==
  LET accepted == m.ok \/ Cardinality(active[m.to]) < MaxActive
  IN /\ IF accepted THEN Commit(m.to, m.from) ELSE UNCHANGED <<active, passive, alive>>
     /\ Sent(net \ {m}, {[Msg("NeighborReply", m.from, m.to, m.to, 0) EXCEPT !.ok = accepted]})
     /\ UNCHANGED <<joined, shuffles>>

\* handle_neighbor_reply.
HandleNeighborReply(m) ==
  /\ IF m.ok
     THEN /\ alive' = [alive EXCEPT ![m.to] = @ \cup {m.from}] /\ UNCHANGED <<active, passive>>
     ELSE /\ active' = [active EXCEPT ![m.to] = @ \ {m.from}]
          /\ \E pas \in IF m.from \in active[m.to]
                        THEN AddToPassive(m.to, active'[m.to], passive[m.to], {m.from})
                        ELSE {passive[m.to]} :
               passive' = [passive EXCEPT ![m.to] = pas]
          /\ UNCHANGED alive
  /\ net' = net \ {m}
  /\ UNCHANGED <<joined, shuffles, lost>>

-----------------------------------------------------------------------------
\* shuffle: the list is the node itself and samples of both views, for any
\* active peer.
ShuffleMsgs(n) ==
  {[Msg("Shuffle", t, n, n, PassiveWalk) EXCEPT !.peers = {n} \cup a \cup q] :
     t \in active[n], a \in Take(active[n], SampleActive), q \in Take(passive[n], SamplePassive)}

\* The periodic task; it skips its turn when the active view is empty.
Shuffle(n) ==
  /\ shuffles < MaxShuffles /\ shuffles' = shuffles + 1
  /\ \E m \in ShuffleMsgs(n) : Sent(net, {m})
  /\ UNCHANGED <<active, passive, alive, joined>>

\* handle_shuffle: the walk goes on while it may; its last node answers the
\* first one and keeps what fits.  A refused answer ends the handler.
HandleShuffle(m) ==
  LET n == m.to  onward == active[n] \ {m.who}
  IN IF m.ttl > 0 /\ Cardinality(active[n]) > 1 /\ onward # {}
     THEN /\ \E t \in onward : Sent(net \ {m}, {[m EXCEPT !.to = t, !.ttl = @ - 1]})
          /\ UNCHANGED <<active, passive, alive, joined, shuffles>>
     ELSE /\ \E back \in Take(passive[n], Cardinality(m.peers)) :
               Sent(net \ {m}, {[Msg("ShuffleReply", m.who, n, n, 0) EXCEPT !.peers = back]})
          /\ \E pas \in IF lost' > lost THEN {passive[n]}
                        ELSE AddToPassive(n, active[n], passive[n], m.peers) :
               passive' = [passive EXCEPT ![n] = pas]
          /\ UNCHANGED <<active, alive, joined, shuffles>>

\* handle_shuffle_reply.
HandleShuffleReply(m) ==
  /\ \E pas \in AddToPassive(m.to, active[m.to], passive[m.to], m.peers) :
       passive' = [passive EXCEPT ![m.to] = pas]
  /\ net' = net \ {m}
  /\ UNCHANGED <<active, alive, joined, shuffles, lost>>

\* dispatch_hyparview.
Dispatch(m) ==
  \/ m.kind = "Join" /\ HandleJoin(m)
  \/ m.kind = "ForwardJoin" /\ HandleForwardJoin(m)
  \/ m.kind = "Neighbor" /\ HandleNeighbor(m)
  \/ m.kind = "NeighborReply" /\ HandleNeighborReply(m)
  \/ m.kind = "Shuffle" /\ HandleShuffle(m)
  \/ m.kind = "ShuffleReply" /\ HandleShuffleReply(m)

OverlayNext ==
  \/ \E n, s \in Nodes : Join(n, s)
  \/ \E n \in Nodes : Shuffle(n)
  \/ \E m \in net : Dispatch(m)

-----------------------------------------------------------------------------
\* Views hold nodes and stay within their degrees.
OverlayTypeOK ==
  /\ \A n \in Nodes : /\ active[n] \subseteq joined /\ passive[n] \subseteq joined
                      /\ Cardinality(active[n]) <= ActiveDegree
                      /\ Cardinality(passive[n]) <= MaxPassive
                      /\ active[n] \subseteq alive[n]
  /\ \A m \in net : m.ttl \in 0 .. ActiveWalk

\* No node lists itself in a view, although its own name travels in walks and
\* shuffle lists: the walk of a JOIN never reaches the peer that joins, and a
\* SHUFFLE never comes back to its first sender (handle_join,
\* handle_forward_join, handle_shuffle).
NeverSelf ==
  /\ \A n \in Nodes : n \notin active[n] \cup passive[n]
  /\ \A m \in net : m.kind \in {"ForwardJoin", "Shuffle"} => m.to # m.who

\* A peer in a view is a link, and so is a JOIN that is on its way.
Edge(S, T) ==
  \/ \E n \in S, p \in T : p \in active[n] \cup passive[n]
  \/ \E m \in net : m.kind = "Join" /\ m.to \in S /\ m.who \in T


-----------------------------------------------------------------------------
seedVars == <<ledger, pc, seed, todo, sleep, addrs, view, dials, owed, asked>>

Loop == List # << >>
Fresh == [attempts |-> 0, delay |-> 1, loss |-> 1, ready |-> 0]
Later(a, b) == IF a > b THEN a ELSE b
Double(d) == IF 2 * d > MaxDelay THEN MaxDelay ELSE 2 * d
Jittered(d) == {d, d + 1}

SeedInit ==
  /\ ledger = [s \in Seeds |-> Fresh]
  /\ pc = "pick"
  /\ IF Loop THEN seed = List[1] /\ todo = Tail(List)
             ELSE seed \in Seeds /\ todo = << >>
  /\ sleep = 0
  /\ addrs = {} /\ view = {} /\ asked = {}
  /\ dials = [s \in Seeds |-> 0] /\ owed = [s \in Seeds |-> {}]

Exhausted(s) == ledger[s].attempts >= MaxAttempts
NotReady(s) == ledger[s].ready > 0

-----------------------------------------------------------------------------
(* join_dial.                                                              *)

\* Mutant: an attempt is counted when its dial has failed.
DialUncounted(s) ==
  /\ pc = "pick" /\ (Loop => s = seed)
  /\ ~Exhausted(s) /\ ~NotReady(s)
  /\ dials' = [dials EXCEPT ![s] = @ + 1]
  /\ pc' = "dialing" /\ seed' = s
  /\ UNCHANGED <<ledger, todo, sleep, addrs, view, owed, asked>>

\* The attempt counts from here, whatever becomes of it.
Dial(s) ==
  /\ pc = "pick" /\ (Loop => s = seed)
  /\ ~Exhausted(s) /\ ~NotReady(s)
  /\ ledger' = [ledger EXCEPT ![s].attempts = @ + 1]
  /\ dials' = [dials EXCEPT ![s] = @ + 1]
  /\ pc' = "dialing" /\ seed' = s
  /\ UNCHANGED <<todo, sleep, addrs, view, owed, asked>>

Answered ==
  /\ pc = "dialing"
  /\ pc' = "answered"
  /\ UNCHANGED <<ledger, seed, todo, sleep, addrs, view, dials, owed, asked>>

\* JoinDial::Failed: the backoff doubles.  The loop sleeps for retry_after.
Failed ==
  LET st == ledger[seed] IN
    /\ pc = "dialing"
    /\ \E wait \in Jittered(st.delay) :
         /\ ledger' = [ledger EXCEPT ![seed].delay = Double(st.delay),
                                     ![seed].ready = Later(st.ready, wait)]
         /\ owed' = [owed EXCEPT ![seed] = @ \cup {wait}]
         /\ sleep' = IF Loop THEN wait ELSE 0
    /\ pc' = IF Loop THEN "sleep" ELSE "pick"
    /\ UNCHANGED <<seed, todo, addrs, view, dials, asked>>

Wake ==
  /\ pc = "sleep" /\ sleep = 0
  /\ pc' = "pick"
  /\ UNCHANGED <<ledger, seed, todo, sleep, addrs, view, dials, owed, asked>>

\* Mutant: the cooldown replaces what is left of the backoff.
record_loss_replaces(s) ==
  LET st == ledger[s] IN
    /\ ~Loop /\ pc \in {"pick", "answered"} /\ dials[s] > 0
    /\ \E wait \in Jittered(st.loss) :
         /\ ledger' = [ledger EXCEPT ![s].loss = Double(st.loss), ![s].ready = wait]
         /\ owed' = [owed EXCEPT ![s] = @ \cup {wait}]
    /\ pc' = "pick"
    /\ UNCHANGED <<seed, todo, sleep, addrs, view, dials, asked>>

\* The peer that answered a dial lost its connection.  The caller may hear of
\* it late, when it has dialled the seed again.
record_loss(s) ==
  LET st == ledger[s] IN
    /\ ~Loop /\ pc \in {"pick", "answered"} /\ dials[s] > 0
    /\ \E wait \in Jittered(st.loss) :
         /\ ledger' = [ledger EXCEPT ![s].loss = Double(st.loss),
                                     ![s].ready = Later(st.ready, wait)]
         /\ owed' = [owed EXCEPT ![s] = @ \cup {wait}]
    /\ pc' = "pick"
    /\ UNCHANGED <<seed, todo, sleep, addrs, view, dials, asked>>

-----------------------------------------------------------------------------
(* join_send.                                                              *)

\* The address is stored before the frame is handed to the transport.
Send ==
  /\ pc = "answered"
  /\ addrs' = addrs \cup {seed}
  /\ pc' = "sending"
  /\ UNCHANGED <<ledger, seed, todo, sleep, view, dials, owed, asked>>

SendOk ==
  /\ pc = "sending"
  /\ asked' = asked \cup {seed}
  /\ pc' = "commit"
  /\ UNCHANGED <<ledger, seed, todo, sleep, addrs, view, dials, owed>>

\* Mutant: a failed send goes on to the commit.
SendFailedCommits ==
  /\ pc = "sending"
  /\ pc' = "commit"
  /\ UNCHANGED <<ledger, seed, todo, sleep, addrs, view, dials, owed, asked>>

\* JoinSend::SendFailed: the next attempt may start at once.
SendFailed ==
  /\ pc = "sending"
  /\ pc' = "pick"
  /\ UNCHANGED <<ledger, seed, todo, sleep, addrs, view, dials, owed, asked>>

\* add_active.  The stepwise caller may go on with another seed.
CommitSeed ==
  /\ pc = "commit"
  /\ view' = view \cup {seed}
  /\ pc' = IF Loop THEN "joined" ELSE "pick"
  /\ UNCHANGED <<ledger, seed, todo, sleep, addrs, dials, owed, asked>>

-----------------------------------------------------------------------------
\* The stepwise caller ends the attempt after the dial, or drops a future: of
\* the dial, of the send (the transport may have sent the frame) or of the
\* commit.
Drop ==
  /\ ~Loop /\ pc \in {"dialing", "answered", "sending", "commit"}
  /\ \/ UNCHANGED asked
     \/ pc = "sending" /\ asked' = asked \cup {seed}
  /\ pc' = "pick"
  /\ UNCHANGED <<ledger, seed, todo, sleep, addrs, view, dials, owed>>

\* The loop leaves an exhausted seed for the next entry, with a new ledger.
NextEntry ==
  /\ Loop /\ pc = "pick" /\ Exhausted(seed)
  /\ IF todo = << >>
     THEN pc' = "failed" /\ UNCHANGED <<ledger, seed, todo, dials, owed>>
     ELSE /\ seed' = Head(todo) /\ todo' = Tail(todo)
          /\ ledger' = [s \in Seeds |-> Fresh]
          /\ dials' = [s \in Seeds |-> 0] /\ owed' = [s \in Seeds |-> {}]
          /\ pc' = pc
  /\ UNCHANGED <<sleep, addrs, view, asked>>

Less(t) == IF t > 0 THEN t - 1 ELSE 0

\* The clock of the runtime.
Tick ==
  /\ sleep > 0 \/ \E s \in Seeds : NotReady(s)
  /\ sleep' = Less(sleep)
  /\ ledger' = [s \in Seeds |-> [ledger[s] EXCEPT !.ready = Less(@)]]
  /\ owed' = [s \in Seeds |-> {Less(w) : w \in owed[s]} \ {0}]
  /\ UNCHANGED <<pc, seed, todo, addrs, view, dials, asked>>

SeedNext ==
  \/ \E s \in Seeds : Dial(s) \/ record_loss(s)
  \/ Answered \/ Failed \/ Wake
  \/ Send \/ SendOk \/ SendFailed \/ CommitSeed
  \/ Drop \/ NextEntry \/ Tick

-----------------------------------------------------------------------------
\* The ledger and the caller have the shapes given above.
SeedTypeOK ==
  /\ \A s \in Seeds : /\ ledger[s].attempts \in 0 .. MaxAttempts
                      /\ {ledger[s].delay, ledger[s].loss} \subseteq 1 .. MaxDelay
                      /\ ledger[s].ready \in 0 .. MaxDelay + 1
  /\ pc \in {"pick", "dialing", "answered", "sending", "commit", "sleep", "joined", "failed"}
  /\ seed \in Seeds /\ view \subseteq addrs

\* A seed is dialled at most JOIN_MAX_ATTEMPTS times with one ledger, futures
\* that were dropped in the dial included (join_dial).
BudgetKept == \A s \in Seeds : dials[s] <= MaxAttempts

\* No dial starts inside a backoff or a cooldown that a failure or a loss has
\* started, in whichever order they overlap and whatever other seeds were
\* tried meanwhile (join_dial, record_loss).
WaitsKeptStep ==
  \A s \in Seeds : dials'[s] > dials[s] => owed[s] = {}

\* WaitsKeptStep, of every step.
WaitsKept == [][WaitsKeptStep]_seedVars

\* A seed is in the active view only if it was sent the JOIN frame, whatever
\* was dropped where (join_send).
ActiveWasAsked == view \subseteq asked

-----------------------------------------------------------------------------
(* Both parts. *)

vars == <<overlayVars, seedVars>>

Init == OverlayInit /\ SeedInit

Next ==
  \/ OverlayNext /\ UNCHANGED seedVars
  \/ SeedNext /\ UNCHANGED overlayVars

Spec == Init /\ [][Next]_vars
=============================================================================
