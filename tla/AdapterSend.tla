----------------------------- MODULE AdapterSend -----------------------------
(***************************************************************************)
(* Sending and dialling over the QUIC adapter                              *)
(* (transport/src/udp_transport_adapter.rs: send_to_peer and send, dial,   *)
(* reconnect_peer, the cache of peer addresses and the per-peer send       *)
(* locks), for one remote peer.  A send takes a permit, then the lock      *)
(* object it finds for the peer, reconnects when the peer is not           *)
(* connected, and after a failed or timed out write disconnects,           *)
(* reconnects and writes once more.                                        *)
(***************************************************************************)
EXTENDS Integers, FiniteSets

CONSTANTS
  Sends,     \* calls of send_to_peer or TransportAdapter::send
  Permits,   \* max_inflight_sends
  MaxLocks,  \* bound on the lock objects made
  Bootstrap, \* whether the bootstrap cache knows an address of the peer
  MaxFaults  \* bound on lost connections, failed writes and failed dials

VARIABLES
  connected, \* node.is_connected(peer) (ant-quic)
  cached,    \* connected_peers holds an address of the peer
  lockmap,   \* peer_send_locks: lock object of the peer, 0 if there is none
  locks,     \* number of lock objects made
  permits,   \* send_semaphore
  send,      \* [send -> where it is and the lock it works with]
  dialing,   \* where dial() of the peer is
  faults

vars == <<connected, cached, lockmap, locks, permits, send, dialing, faults>>

Idle == [pc |-> "idle", lock |-> 0]

Init ==
  /\ connected = FALSE /\ cached = FALSE
  /\ lockmap = 0 /\ locks = 0 /\ permits = Permits
  /\ send = [s \in Sends |-> Idle] /\ dialing = "idle" /\ faults = 0

\* pcs at which a send holds the lock object it found.
Holding == {"check", "reconnect", "write", "again", "redial", "rewrite"}
At(s, pc) == send[s].pc = pc
Goto(s, pc) == send' = [send EXCEPT ![s].pc = pc]

\* Mutant: only the success path gives its permit back.
FinishKeepingPermit(s) ==
  /\ send' = [send EXCEPT ![s] = [Idle EXCEPT !.pc = "done"]]
  /\ permits' = IF At(s, "write") \/ At(s, "rewrite") THEN permits + 1 ELSE permits

\* The call returns: the guard of the lock and the permit are dropped.
Finish(s) ==
  /\ send' = [send EXCEPT ![s] = [Idle EXCEPT !.pc = "done"]]
  /\ permits' = permits + 1

Fault == faults < MaxFaults /\ faults' = faults + 1

-----------------------------------------------------------------------------
(* The address cache.                                                      *)

\* connected_peers(): the addresses of live connections are refreshed.
Refreshed == cached' = (cached \/ connected)

\* An address goes after PEER_TTL without traffic or to make room for another
\* peer (add_peer_with_lru).
Forget ==
  /\ cached /\ ~connected
  /\ cached' = FALSE
  /\ UNCHANGED <<connected, lockmap, locks, permits, send, dialing, faults>>

\* cached_peer_addr: the bootstrap cache is asked second and fills the first.
AddressKnown == cached \/ Bootstrap

\* remove_peer drops the address and the lock object of the peer.
RemovePeer == cached' = FALSE /\ lockmap' = 0

-----------------------------------------------------------------------------
(* A send.                                                                 *)

Acquire(s) ==
  /\ At(s, "idle") /\ permits > 0
  /\ permits' = permits - 1
  /\ Goto(s, "lock")
  /\ UNCHANGED <<connected, cached, lockmap, locks, dialing, faults>>

\* peer_send_lock: the lock object in the map, or a new one.
peer_send_lock(s) ==
  /\ At(s, "lock")
  /\ lockmap = 0 => locks < MaxLocks
  /\ locks' = IF lockmap = 0 THEN locks + 1 ELSE locks
  /\ lockmap' = IF lockmap = 0 THEN locks + 1 ELSE lockmap
  /\ send' = [send EXCEPT ![s] = [pc |-> "wait", lock |-> lockmap']]
  /\ UNCHANGED <<connected, cached, permits, dialing, faults>>

Locked(s) ==
  /\ At(s, "wait")
  /\ \A r \in Sends : send[r].pc \in Holding => send[r].lock # send[s].lock
  /\ Goto(s, "check")
  /\ UNCHANGED <<connected, cached, lockmap, locks, permits, dialing, faults>>

\* Refresh, then is_connected; without an address the peer is not connected.
Check(s) ==
  /\ At(s, "check")
  /\ IF connected THEN Goto(s, "write") /\ UNCHANGED permits /\ Refreshed
     ELSE IF AddressKnown THEN Goto(s, "reconnect") /\ cached' = TRUE /\ UNCHANGED permits
     ELSE Finish(s) /\ UNCHANGED cached
  /\ UNCHANGED <<connected, lockmap, locks, dialing, faults>>

\* reconnect_peer: connected, failed or timed out, or another identity
\* answered at that address.
Reconnected(s, from, to) ==
  /\ At(s, from)
  /\ connected' = TRUE /\ cached' = TRUE
  /\ Goto(s, to)
  /\ UNCHANGED <<lockmap, locks, permits, dialing, faults>>
ReconnectFailed(s, unexpected) ==
  /\ At(s, "reconnect") \/ At(s, "redial")
  /\ Fault
  /\ IF unexpected THEN RemovePeer ELSE UNCHANGED <<cached, lockmap>>
  /\ Finish(s)
  /\ UNCHANGED <<connected, locks, dialing>>

WriteOk(s) ==
  /\ At(s, "write") \/ At(s, "rewrite")
  /\ connected
  /\ Finish(s)
  /\ UNCHANGED <<connected, cached, lockmap, locks, dialing, faults>>

\* The first write failed or timed out: with an address the connection is
\* dropped and dialled again.
WriteFailed(s) ==
  /\ At(s, "write")
  /\ IF connected THEN Fault ELSE UNCHANGED faults
  /\ IF AddressKnown
     THEN Goto(s, "redial") /\ connected' = FALSE /\ cached' = TRUE /\ UNCHANGED permits
     ELSE Finish(s) /\ UNCHANGED <<connected, cached>>
  /\ UNCHANGED <<lockmap, locks, dialing>>

RewriteFailed(s) ==
  /\ At(s, "rewrite")
  /\ IF connected THEN Fault ELSE UNCHANGED faults
  /\ Finish(s)
  /\ UNCHANGED <<connected, cached, lockmap, locks, dialing>>

\* The caller makes its next send.
Again(s) ==
  /\ At(s, "done")
  /\ send' = [send EXCEPT ![s] = Idle]
  /\ UNCHANGED <<connected, cached, lockmap, locks, permits, dialing, faults>>

-----------------------------------------------------------------------------
(* dial() and the network.                                                 *)

\* Already connected, or a direct connection is tried and then the fallback.
Dial ==
  /\ dialing = "idle"
  /\ IF connected THEN cached' = TRUE /\ UNCHANGED dialing
                  ELSE dialing' = "direct" /\ UNCHANGED cached
  /\ UNCHANGED <<connected, lockmap, locks, permits, send, faults>>
DialOk ==
  /\ dialing \in {"direct", "fallback"}
  /\ dialing' = "idle" /\ connected' = TRUE /\ cached' = TRUE
  /\ UNCHANGED <<lockmap, locks, permits, send, faults>>
DirectFailed ==
  /\ dialing = "direct" /\ dialing' = "fallback"
  /\ UNCHANGED <<connected, cached, lockmap, locks, permits, send, faults>>
\* Another identity answered, or every strategy failed.
DialFailed ==
  /\ dialing \in {"direct", "fallback"}
  /\ Fault
  /\ dialing' = "idle" /\ RemovePeer
  /\ UNCHANGED <<connected, locks, permits, send>>

\* TransportAdapter::dial only knows the address: its failure removes nothing.
DialAddrFailed ==
  /\ dialing \in {"direct", "fallback"}
  /\ Fault
  /\ dialing' = "idle"
  /\ UNCHANGED <<connected, cached, lockmap, locks, permits, send>>

\* The peer dials in: the acceptor task records its address.
Accept ==
  /\ ~connected
  /\ connected' = TRUE /\ cached' = TRUE
  /\ UNCHANGED <<lockmap, locks, permits, send, dialing, faults>>
Lost ==
  /\ connected /\ Fault
  /\ connected' = FALSE
  /\ UNCHANGED <<cached, lockmap, locks, permits, send, dialing>>

Step(s) ==
  \/ peer_send_lock(s) \/ Locked(s) \/ Check(s)
  \/ Reconnected(s, "reconnect", "write") \/ Reconnected(s, "redial", "rewrite")
  \/ \E unexpected \in BOOLEAN : ReconnectFailed(s, unexpected)
  \/ WriteOk(s) \/ WriteFailed(s) \/ RewriteFailed(s)

Next ==
  \/ \E s \in Sends : Acquire(s) \/ Step(s) \/ Again(s)
  \/ Forget
  \/ Dial \/ DialOk \/ DirectFailed \/ DialFailed \/ DialAddrFailed
  \/ Accept \/ Lost

Spec == Init /\ [][Next]_vars
-----------------------------------------------------------------------------
\* The type of the state.
TypeOK ==
  /\ {connected, cached} \subseteq BOOLEAN
  /\ lockmap \in 0 .. MaxLocks /\ locks \in 0 .. MaxLocks /\ permits \in 0 .. Permits
  /\ \A s \in Sends : send[s].lock \in 0 .. locks
  /\ dialing \in {"idle", "direct", "fallback"} /\ faults \in 0 .. MaxFaults

\* Every way out of a send gives its permit back, and no lock object has two
\* holders (send_semaphore and peer_send_locks).
PermitsExact ==
  /\ permits + Cardinality({s \in Sends : send[s].pc \notin {"idle", "done"}}) = Permits
  /\ \A s, r \in Sends :
       s # r /\ send[s].pc \in Holding /\ send[r].pc \in Holding => send[s].lock # send[r].lock

\* "Serialize sends per peer to avoid exhausting per-connection stream
\* budgets." (field peer_send_locks): one send at a time works on the peer.
Serialized ==
  Cardinality({s \in Sends : send[s].pc \in Holding}) <= 1
=============================================================================
