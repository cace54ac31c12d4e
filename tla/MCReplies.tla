----------------------------- MODULE MCReplies ------------------------------
(***************************************************************************)
(* Replies to requests (module EagerReply, extended here) and the paths of *)
(* a frame around them: the send path of one peer, the reception of        *)
(* frames, announcements, late offers and the transport adapter.  A        *)
(* behaviour is about one part, named by focus.                            *)
(***************************************************************************)
EXTENDS EagerReply, Integers, Sequences, TLC

CONSTANTS A, B, I, M, P, Q, R, X, Y, Z   \* model values

VARIABLES
  focus,   \* the part of the system that this behaviour is about
  v1, v2, v3, v4, v5, v6, v7, v8, v9, v10, v11, v12, v13   \* its variables

mcvars == <<focus, present, state, conn, task, link, v1, v2, v3, v4, v5, v6, v7, v8, v9, v10, v11, v12, v13>>

\* Sends of a topic registered Normal or Critical, and of a Bulk topic.
Sent(t, o, l) == [topic |-> t, op |-> o, local |-> l]
SentShapes == {Sent("n", "EAGER", TRUE), Sent("n", "EAGER", FALSE), Sent("n", "IWANT", FALSE),
               Sent("b", "EAGER", TRUE)}
EagerShapes == {Sent("n", "EAGER", FALSE), Sent("b", "EAGER", TRUE)}
SentPriorities == [n |-> {"Normal", "Critical"}, b |-> {"Bulk"}]
PairPriorities == [n |-> {"Critical"}, b |-> {"Bulk"}]

\* Frames of one id that differ in their encoding, in who signed and who sent
\* them and in what is wrong with them.
Arriving(k, form, s) ==
  [kind |-> k, id |-> I, from |-> P, signer |-> s, form |-> form, version |-> 2,
   signed |-> TRUE, whole |-> TRUE]
ArrivingFrames ==
  {Arriving("Eager", "legacy", Q),
   [Arriving("Eager", "ref", Q) EXCEPT !.from = Q],
   [Arriving("Eager", "full", Q) EXCEPT !.from = Q, !.whole = FALSE],
   [Arriving("Eager", "legacy", Q) EXCEPT !.signed = FALSE],
   [Arriving("Eager", "legacy", Q) EXCEPT !.version = 1, !.whole = FALSE],
   Arriving("Ping", "legacy", P), Arriving("Ping", "legacy", Q),
   Arriving("IWant", "legacy", P), Arriving("IHave", "full", Q),
   [Arriving("Other", "legacy", P) EXCEPT !.signed = FALSE]}

\* Two tasks, sends or workers may be exchanged.
Symmetry == Permutations({X, Y})

\* Sends of every shape to one peer, one at a time.
Alone == INSTANCE SendPath WITH
  Sends <- {X}, Topics <- {"n", "b"}, Shapes <- SentShapes,
  Priorities <- SentPriorities, Depth <- 1, GateCap <- 2, send <- v1,
  registry <- v2, depth <- v3, lanes <- v4, gate <- v5, cooling <- v6

\* Two sends at a time to one peer, of a Critical and a Bulk topic.
Path == INSTANCE SendPath WITH
  Sends <- {X, Y}, Topics <- {"n", "b"}, Shapes <- EagerShapes,
  Priorities <- PairPriorities, Depth <- 1, GateCap <- 2, send <- v1,
  registry <- v2, depth <- v3, lanes <- v4, gate <- v5, cooling <- v6

\* Two workers and two frames.
In == INSTANCE Inbound WITH
  Workers <- {X, Y}, Ids <- {I}, Peers <- {P, Q}, Frames <- ArrivingFrames,
  Registered <- FALSE, MaxArrivals <- 2, MaxChanges <- 1, cached <- v1,
  keys <- v2, cooled <- v3, session <- v4, policy <- v5, worker <- v6,
  arrivals <- v7, changes <- v8, lives <- v9, acted <- v10, lost <- v11

\* The same on a topic under the migration rules.
Reg == INSTANCE Inbound WITH
  Workers <- {X, Y}, Ids <- {I}, Peers <- {P, Q}, Frames <- ArrivingFrames,
  Registered <- TRUE, MaxArrivals <- 2, MaxChanges <- 1, cached <- v1,
  keys <- v2, cooled <- v3, session <- v4, policy <- v5, worker <- v6,
  arrivals <- v7, changes <- v8, lives <- v9, acted <- v10, lost <- v11

\* A publish and a relayed message, announced to one peer.
Tell == INSTANCE Announce WITH
  Local <- {A}, Relayed <- {R}, Peers <- {P}, MaxPending <- 1,
  Enforcing <- FALSE, MaxMoves <- 1, NPeers <- {}, MaxIds <- {}, Page <- {},
  PerFlush <- {}, MaxOffers <- {}, MaxJoins <- {}, Stuck <- {}, mesh <- v1,
  cached <- v2, pending <- v3, advertised <- v4, withheld <- v5,
  stranded <- v6, fanout <- v7, flush <- v8, retry <- v9, owed <- v10,
  unsent <- v11, offered <- v12, outcomes <- v13, published <- 0, live <- 0,
  joined <- 0, joins <- 0, offers <- 0, last_served <- 0, picks <- 0,
  page <- 0, tried <- 0

\* A relayed message under the byte limiter.
Pass == INSTANCE Announce WITH
  Local <- {}, Relayed <- {R}, Peers <- {P, Q}, MaxPending <- 1,
  Enforcing <- TRUE, MaxMoves <- 1, NPeers <- {}, MaxIds <- {}, Page <- {},
  PerFlush <- {}, MaxOffers <- {}, MaxJoins <- {}, Stuck <- {}, mesh <- v1,
  cached <- v2, pending <- v3, advertised <- v4, withheld <- v5,
  stranded <- v6, fanout <- v7, flush <- v8, retry <- v9, owed <- v10,
  unsent <- v11, offered <- v12, outcomes <- v13, published <- 0, live <- 0,
  joined <- 0, joins <- 0, offers <- 0, last_served <- 0, picks <- 0,
  page <- 0, tried <- 0

\* Three publishes that are offered to two late peers.
Late == INSTANCE Announce WITH
  Local <- {}, Relayed <- {}, Peers <- {}, MaxPending <- {}, Enforcing <- {},
  MaxMoves <- {}, NPeers <- 2, MaxIds <- 3, Page <- 1, PerFlush <- 1,
  MaxOffers <- 2, MaxJoins <- 2, Stuck <- {}, published <- v1, live <- v2,
  joined <- v3, joins <- v4, offers <- v5, last_served <- v6, picks <- v7,
  page <- v8, tried <- v9, mesh <- 0, cached <- 0, pending <- 0,
  advertised <- 0, withheld <- 0, stranded <- 0, fanout <- 0, flush <- 0,
  retry <- 0, owed <- 0, unsent <- 0, offered <- 0, outcomes <- 0

\* Two sends through the adapter, which may fall back to the bootstrap cache.
Adapter == INSTANCE AdapterSend WITH
  Sends <- {X, Y}, Permits <- 2, MaxLocks <- 3, Bootstrap <- TRUE,
  MaxFaults <- 2, connected <- v1, cached <- v2, lockmap <- v3, locks <- v4,
  permits <- v5, send <- v6, dialing <- v7, faults <- v8

MCInit ==
  \/ focus = "reply" /\ Init /\ v1 = 0 /\ v2 = 0 /\ v3 = 0 /\ v4 = 0 /\ v5 = 0 /\ v6 = 0 /\ v7 = 0 /\ v8 = 0 /\ v9 = 0 /\ v10 = 0 /\ v11 = 0 /\ v12 = 0 /\ v13 = 0
  \/ focus = "send" /\ Alone!Init /\ Init /\ v7 = 0 /\ v8 = 0 /\ v9 = 0 /\ v10 = 0 /\ v11 = 0 /\ v12 = 0 /\ v13 = 0
  \/ focus = "sends" /\ Path!Init /\ Init /\ v7 = 0 /\ v8 = 0 /\ v9 = 0 /\ v10 = 0 /\ v11 = 0 /\ v12 = 0 /\ v13 = 0
  \/ focus = "inbound" /\ In!Init /\ Init /\ v12 = 0 /\ v13 = 0
  \/ focus = "registered" /\ Reg!Init /\ Init /\ v12 = 0 /\ v13 = 0
  \/ focus = "announce" /\ Tell!AnnounceInit /\ Init
  \/ focus = "relay" /\ Pass!AnnounceInit /\ Init
  \/ focus = "late" /\ Late!LateInit /\ Init /\ v10 = 0 /\ v11 = 0 /\ v12 = 0 /\ v13 = 0
  \/ focus = "adapter" /\ Adapter!Init /\ Init /\ v9 = 0 /\ v10 = 0 /\ v11 = 0 /\ v12 = 0 /\ v13 = 0

MCNext ==
  \/ focus = "reply" /\ Next /\ UNCHANGED <<focus, v1, v2, v3, v4, v5, v6, v7, v8, v9, v10, v11, v12, v13>>
  \/ focus = "send" /\ Alone!Next /\ UNCHANGED <<focus, present, state, conn, task, link, v7, v8, v9, v10, v11, v12, v13>>
  \/ focus = "sends" /\ Path!Next /\ UNCHANGED <<focus, present, state, conn, task, link, v7, v8, v9, v10, v11, v12, v13>>
  \/ focus = "inbound" /\ In!Next /\ UNCHANGED <<focus, present, state, conn, task, link, v12, v13>>
  \/ focus = "registered" /\ Reg!Next /\ UNCHANGED <<focus, present, state, conn, task, link, v12, v13>>
  \/ focus = "announce" /\ Tell!AnnounceNext /\ UNCHANGED <<focus, present, state, conn, task, link>>
  \/ focus = "relay" /\ Pass!AnnounceNext /\ UNCHANGED <<focus, present, state, conn, task, link>>
  \/ focus = "late" /\ Late!LateNext /\ UNCHANGED <<focus, present, state, conn, task, link, v10, v11, v12, v13>>
  \/ focus = "adapter" /\ Adapter!Next /\ UNCHANGED <<focus, present, state, conn, task, link, v9, v10, v11, v12, v13>>

MCSpec == MCInit /\ [][MCNext]_mcvars

-----------------------------------------------------------------------------


\* A peer whose copy of a relayed message the byte limiter denied stays a
\* target of the pending announcement until a flush takes it up ("denied
\* EAGER peers are placed on the existing direct-IHAVE lazy recovery path",
\* parallel_send_to_peers).
DeferredAreTold == focus = "relay" => Pass!WithheldOffered
=============================================================================
