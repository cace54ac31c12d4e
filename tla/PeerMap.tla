------------------------------ MODULE PeerMap -------------------------------
(***************************************************************************)
(* The UDP adapter's view of who is connected: the lazily filled map       *)
(* connected_peers (peer, address, last seen), the addresses of bootstrap  *)
(* peers, and the QUIC node's own live connections, which the map follows  *)
(* from several tasks.  The startup task dials the known peers one by one; *)
(* the acceptor adds incoming peers; dial_bootstrap adds what it dialled;  *)
(* connected_peers() copies the node's list into the map; close()          *)
(* disconnects the node's list and clears the maps.  Each of them reads    *)
(* the node and takes the map's lock later, in another step.               *)
(*                                                                         *)
(* A peer has one usable address, so addresses are left out.  Connections  *)
(* also come and go without the adapter (Dropped).                         *)
(*                                                                         *)
(* Incoming frames of the shared transport: GossipProtocolHandler in       *)
(* crates/transport/src/protocol_handler.rs.                               *)
(*                                                                         *)
(* The transport calls handle_stream or handle_datagram for every frame,   *)
(* each call a task of its own.  A frame is its number in the order of     *)
(* arrival, its stream type and its carrier.  The type "Other" stands for  *)
(* the stream types outside StreamType::gossip_types.                      *)
(***************************************************************************)
EXTENDS Naturals, FiniteSets, Integers, Sequences

CONSTANTS Peers,
          Known,     \* config.known_peers
          MaxPeers,  \* config.max_peers
          PeerTtl,   \* PEER_TTL, in units of the clock
          MaxTime,   \* bound on the clock
          MaxDrops   \* bound: connections the network closes

CONSTANTS
  Direct,     \* stream types with a handler of their own
  MaxFrames   \* bound on the frames that arrive

VARIABLES live,      \* the node's connections
          seen,      \* connected_peers: tracked peer |-> last seen
          boot,      \* bootstrap_peer_ids
          connector, \* the startup task
          adds,      \* peers some task connected and has still to track
          refresh,   \* a connected_peers() call: the list it read, or NoCall
          closer,    \* a close() call
          atClose,   \* ghost: live when close was called, without the peers
                     \* that connected again since
          now, drops

VARIABLES
  calls,    \* calls the transport has made that have not sent or returned
  direct,   \* frames inside the handler of their stream type
  channel,  \* the unbounded channel to the application
  open,     \* the receiver exists
  answered, \* direct frames whose handler has returned
  read,     \* frames the application has received
  dropped   \* frames given up with a warning

peerVars == <<live, seen, boot, connector, adds, refresh, closer, atClose, now, drops>>

NoCall == [pc |-> "idle", list |-> {}]

Tracked == DOMAIN seen

PeerTypeOK ==
  /\ live \subseteq Peers /\ boot \subseteq Peers
  /\ Tracked \subseteq Peers /\ \A p \in Tracked : seen[p] \in 0..MaxTime
  /\ connector.pc \in {"next", "dial", "done"} /\ connector.left \subseteq Known
  /\ adds \subseteq Peers
  /\ refresh.pc \in {"idle", "listed"} /\ refresh.list \subseteq Peers
  /\ closer.pc \in {"idle", "disconnecting", "closed"} /\ closer.list \subseteq Peers
  /\ atClose \subseteq Peers
  /\ now \in 0..MaxTime /\ drops \in 0..MaxDrops

PeerInit ==
  /\ live = {} /\ seen = [p \in {} |-> 0] /\ boot = {}
  /\ connector = [pc |-> "next", left |-> Known, peer |-> CHOOSE p \in Peers : TRUE]
  /\ adds = {}
  /\ refresh = NoCall /\ closer = NoCall /\ atClose = {}
  /\ now = 0 /\ drops = 0

\* A connection is established, by whoever dialled.
Connected(p) ==
  /\ live' = live \union {p}
  /\ atClose' = atClose \ {p}

\* Mutant: a peer that is already in the map also makes room for itself.
EvictForAnyone(p) ==
  IF Cardinality(Tracked) >= MaxPeers
  THEN {q \in Tracked \ {p} : \A r \in Tracked \ {p} : seen[q] <= seen[r]} ELSE {}

\* The peers add_peer_with_lru may evict to make room for p: one that was
\* seen the longest ago; min_by_key picks any of them.
Evictable(p) ==
  IF Cardinality(Tracked) >= MaxPeers /\ p \notin Tracked
  THEN {q \in Tracked : \A r \in Tracked : seen[q] <= seen[r]} ELSE {}

\* add_peer_with_lru, under the map's write lock.
AddPeer(p) ==
  /\ p \in adds
  /\ \E out \in IF Evictable(p) = {} THEN {{}} ELSE {{q} : q \in Evictable(p)} :
       seen' = [q \in (Tracked \ out) \union {p} |-> IF q = p THEN now ELSE seen[q]]
  /\ adds' = adds \ {p}
  /\ UNCHANGED <<live, boot, connector, refresh, closer, atClose, now, drops>>

\* The startup task: the next known peer, unless it is connected already.
KnownNext(p) ==
  /\ connector.pc = "next" /\ p \in connector.left
  /\ connector' = [pc |-> IF p \in live THEN "next" ELSE "dial",
                   left |-> connector.left \ {p}, peer |-> p]
  /\ UNCHANGED <<live, seen, boot, adds, refresh, closer, atClose, now, drops>>

KnownDone ==
  /\ connector.pc = "next" /\ connector.left = {}
  /\ connector' = [connector EXCEPT !.pc = "done"]
  /\ UNCHANGED <<live, seen, boot, adds, refresh, closer, atClose, now, drops>>

\* connect_addr answers; the peer is tracked when the node still lists it.
KnownConnected ==
  /\ connector.pc = "dial"
  /\ Connected(connector.peer)
  /\ adds' \in {adds \union {connector.peer}, adds}
  /\ connector' = [connector EXCEPT !.pc = "next"]
  /\ UNCHANGED <<seen, boot, refresh, closer, now, drops>>

KnownFailed ==
  /\ connector.pc = "dial"
  /\ connector' = [connector EXCEPT !.pc = "next"]
  /\ UNCHANGED <<live, seen, boot, adds, refresh, closer, atClose, now, drops>>

\* dial_bootstrap: the address is remembered, then the peer is tracked.
dial_bootstrap(p) ==
  /\ Connected(p)
  /\ boot' = boot \union {p}
  /\ adds' = adds \union {p}
  /\ UNCHANGED <<seen, connector, refresh, closer, now, drops>>

\* The acceptor task.
Accept(p) ==
  /\ p \notin live
  /\ Connected(p)
  /\ adds' = adds \union {p}
  /\ UNCHANGED <<seen, boot, connector, refresh, closer, now, drops>>

\* connected_peers(): the node's list first, the map's lock afterwards.
RefreshList ==
  /\ refresh.pc = "idle"
  /\ refresh' = [pc |-> "listed", list |-> live]
  /\ UNCHANGED <<live, seen, boot, connector, adds, closer, atClose, now, drops>>

RefreshStore ==
  /\ refresh.pc = "listed"
  /\ LET stamped == [p \in Tracked \union refresh.list |->
                       IF p \in refresh.list THEN now ELSE seen[p]]
         fresh == {p \in DOMAIN stamped : now - stamped[p] <= PeerTtl}
     IN seen' = [p \in fresh |-> stamped[p]]
  /\ refresh' = NoCall
  /\ UNCHANGED <<live, boot, connector, adds, closer, atClose, now, drops>>

\* update_peer_last_seen, on a received frame.
FrameFrom(p) ==
  /\ p \in live \cap Tracked /\ seen[p] # now
  /\ seen' = [seen EXCEPT ![p] = now]
  /\ UNCHANGED <<live, boot, connector, adds, refresh, closer, atClose, now, drops>>

\* remove_peer, after a send that failed on a closed connection.
RemovePeer(p) ==
  /\ p \in Tracked \ live
  /\ seen' = [q \in Tracked \ {p} |-> seen[q]]
  /\ UNCHANGED <<live, boot, connector, adds, refresh, closer, atClose, now, drops>>

\* Mutant: close walks the adapter's lazy map.
ToCloseTracked == Tracked

\* close() iterates over the node's live peers.
ToClose == live

CloseCall ==
  /\ closer.pc = "idle"
  /\ closer' = [pc |-> "disconnecting", list |-> ToClose]
  /\ atClose' = live
  /\ UNCHANGED <<live, seen, boot, connector, adds, refresh, now, drops>>

\* node.disconnect; an error means that the peer is no longer connected.
CloseDisconnect(p) ==
  /\ closer.pc = "disconnecting" /\ p \in closer.list
  /\ live' = live \ {p}
  /\ closer' = [closer EXCEPT !.list = @ \ {p}]
  /\ UNCHANGED <<seen, boot, connector, adds, refresh, atClose, now, drops>>

CloseClear ==
  /\ closer.pc = "disconnecting" /\ closer.list = {}
  /\ seen' = [p \in {} |-> 0]
  /\ boot' = {}
  /\ closer' = [closer EXCEPT !.pc = "closed"]
  /\ UNCHANGED <<live, connector, adds, refresh, atClose, now, drops>>

\* The other side, or the network, closes a connection.
Dropped(p) ==
  /\ drops < MaxDrops /\ p \in live
  /\ live' = live \ {p}
  /\ drops' = drops + 1
  /\ UNCHANGED <<seen, boot, connector, adds, refresh, closer, atClose, now>>

Tick ==
  /\ now < MaxTime
  /\ now' = now + 1
  /\ UNCHANGED <<live, seen, boot, connector, adds, refresh, closer, atClose, drops>>

PeerNext ==
  \/ \E p \in Peers : \/ AddPeer(p) \/ KnownNext(p) \/ dial_bootstrap(p) \/ Accept(p)
                      \/ FrameFrom(p) \/ RemovePeer(p)
                      \/ CloseDisconnect(p) \/ Dropped(p)
  \/ KnownDone \/ KnownConnected \/ KnownFailed
  \/ RefreshList \/ RefreshStore
  \/ CloseCall \/ CloseClear
  \/ Tick

-----------------------------------------------------------------------------
(* Properties *)

\* When close() has returned, no connection the node held when it was called
\* is still up, unless the peers connected anew meanwhile: also connections
\* the lazy map never saw are torn down.
CloseTearsDown == closer.pc = "closed" => atClose \cap live = {}

\* Tracking a connected peer evicts at most one other, only when the map is at
\* max_peers and the peer is new, and then one that was seen the longest ago.
EvictsOldestStep ==
  adds' # adds /\ live' = live =>
    LET out == Tracked \ DOMAIN seen' IN
      /\ Cardinality(out) <= 1
      /\ out # {} => /\ Cardinality(Tracked) >= MaxPeers
                     /\ (adds \ adds') \cap Tracked = {}
                     /\ \A q \in out : \A r \in Tracked : seen[q] <= seen[r]

-----------------------------------------------------------------------------
GossipTypes == {"Membership", "PubSub", "GossipBulk"}
Types == GossipTypes \cup {"Other"}
Carriers == {"stream", "datagram"}

routeVars == <<calls, direct, channel, open, answered, read, dropped>>

Taken == calls \cup direct \cup answered \cup dropped
           \cup {channel[i] : i \in DOMAIN channel} \cup {read[i] : i \in DOMAIN read}

\* new, with_handlers: the receiver is handed to the caller.
RouteInit ==
  /\ calls = {} /\ direct = {} /\ channel = << >> /\ open = TRUE
  /\ answered = {} /\ read = << >> /\ dropped = {}

\* The transport hands a frame over.
Arrive(t, c) ==
  /\ Cardinality(Taken) < MaxFrames
  /\ calls' = calls \cup {[n |-> Cardinality(Taken) + 1, type |-> t, via |-> c]}
  /\ UNCHANGED <<direct, channel, open, answered, read, dropped>>

\* Mutant: the message is queued although its handler has it.
RouteTwice(f) ==
  /\ f.type \in Direct
  /\ direct' = direct \cup {f} /\ channel' = Append(channel, f)
  /\ UNCHANGED dropped

\* The direct handler of a stream type, used when it is set.
RouteDirect(f) ==
  /\ f.type \in Direct
  /\ direct' = direct \cup {f}
  /\ UNCHANGED <<channel, dropped>>

\* send_message: the channel, while it has a receiver.
send_message(f) ==
  /\ IF open
     THEN channel' = Append(channel, f) /\ UNCHANGED dropped
     ELSE dropped' = dropped \cup {f} /\ UNCHANGED channel
  /\ UNCHANGED direct

\* Stream types this handler is not for.
Unexpected(f) ==
  /\ dropped' = dropped \cup {f}
  /\ UNCHANGED <<channel, direct>>

\* Each gossip type has its own function of the same shape.
handle_stream(f) ==
  /\ f.via = "stream"
  /\ \/ f.type \in GossipTypes /\ RouteDirect(f)
     \/ f.type \in GossipTypes \ Direct /\ send_message(f)
     \/ f.type \notin GossipTypes /\ Unexpected(f)
  /\ calls' = calls \ {f} /\ UNCHANGED <<open, answered, read>>

handle_datagram(f) ==
  /\ f.via = "datagram" /\ send_message(f)
  /\ calls' = calls \ {f} /\ UNCHANGED <<open, answered, read>>

\* The direct handler returns, with an answer, without one or with an error.
HandlerReturns(f) ==
  /\ direct' = direct \ {f} /\ answered' = answered \cup {f}
  /\ UNCHANGED <<calls, channel, open, read, dropped>>

\* The application receives, or drops its receiver and what is queued there.
Receive ==
  /\ open /\ channel # << >>
  /\ read' = Append(read, Head(channel)) /\ channel' = Tail(channel)
  /\ UNCHANGED <<calls, direct, open, answered, dropped>>

DropReceiver ==
  /\ open /\ open' = FALSE /\ channel' = << >>
  /\ dropped' = dropped \cup {channel[i] : i \in DOMAIN channel}
  /\ UNCHANGED <<calls, direct, answered, read>>

Idle == calls = {} /\ direct = {} /\ UNCHANGED routeVars

RouteNext ==
  \/ \E t \in Types, c \in Carriers : Arrive(t, c)
  \/ \E f \in calls : handle_stream(f) \/ handle_datagram(f)
  \/ \E f \in direct : HandlerReturns(f)
  \/ Receive \/ DropReceiver \/ Idle

Frames == [n : 1..MaxFrames, type : Types, via : Carriers]

RouteTypeOK ==
  /\ calls \subseteq Frames /\ direct \subseteq Frames
  /\ answered \subseteq Frames /\ dropped \subseteq Frames
  /\ channel \in Seq(Frames) /\ read \in Seq(Frames) /\ open \in BOOLEAN

\* A frame handed to GossipProtocolHandler is in one place: still in its call,
\* with the handler of its stream type, with the application, or given up.
\* Only an unexpected stream type is given up while the receiver exists, and
\* only stream frames of a type with a handler reach that handler.
OnePlaceEach ==
  /\ Cardinality({f.n : f \in Taken})
       = Cardinality(calls) + Cardinality(direct) + Cardinality(answered)
           + Cardinality(dropped) + Len(channel) + Len(read)
  /\ \A f \in direct \cup answered : f.via = "stream" /\ f.type \in Direct
  /\ open => \A f \in dropped : f.via = "stream" /\ f.type = "Other"

-----------------------------------------------------------------------------
(* Both parts. *)

vars == <<peerVars, routeVars>>

Init == PeerInit /\ RouteInit

Next ==
  \/ PeerNext /\ UNCHANGED routeVars
  \/ RouteNext /\ UNCHANGED peerVars

Spec == Init /\ [][Next]_vars
=============================================================================
