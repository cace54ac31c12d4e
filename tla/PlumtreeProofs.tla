---------------------------- MODULE PlumtreeProofs ----------------------------
(***************************************************************************)
(* Proofs about Plumtree dissemination, for any nodes, links, ids and      *)
(* payloads, any verdicts of the validators, any faults and any number of  *)
(* frames in flight.                                                       *)
(***************************************************************************)
EXTENDS Plumtree, TLAPS

\* A leaf is proved by Zenon unless it names another prover.
USE Zenon

-----------------------------------------------------------------------------
(* What a handler may do to the state of its node. *)

IsState(s) == s \in TopicStates /\ s.eager \intersect s.lazy = {}

\* Only the mesh, the announcements and the claims differ.
SameCaches(s, t) == IsState(t) /\ t.cache = s.cache /\ t.replay = s.replay

LEMMA PeerAdded ==
  ASSUME NEW s, IsState(s), NEW m \in Nodes
  PROVE  SameCaches(s, add_new_peer_lazy(s, m))
  BY DEF IsState, SameCaches, TopicStates, add_new_peer_lazy

LEMMA PeerPruned ==
  ASSUME NEW s, IsState(s), NEW m \in Nodes
  PROVE  SameCaches(s, prune_peer(s, m))
  BY DEF IsState, SameCaches, TopicStates, prune_peer

LEMMA PeersGrafted ==
  ASSUME NEW s, IsState(s), NEW grafted \in SUBSET s.lazy
  PROVE  SameCaches(s, maintain_degree(s, grafted))
  BY DEF IsState, SameCaches, TopicStates, maintain_degree

LEMMA Announced ==
  ASSUME NEW s, IsState(s), NEW i \in Ids, NEW peers \in SUBSET Nodes
  PROVE  SameCaches(s, queue_lazy_withheld(s, i, peers))
  BY DEF IsState, SameCaches, TopicStates, queue_lazy_withheld

LEMMA MessageReceived ==
  ASSUME NEW s, IsState(s), NEW i \in Ids
  PROVE  /\ IsState(Received(s, i)) /\ Received(s, i).replay = s.replay
         /\ Received(s, i).cache = [s.cache EXCEPT ![i] = "relay"]
  BY DEF IsState, TopicStates, Received, Claims

-----------------------------------------------------------------------------
(* The invariant, node by node. *)

\* What a node may hold, with ids what was published so far.
NodeOK(n, s, ids, times) ==
  /\ IsState(s)
  /\ times \in [Payloads -> 0..2]
  /\ \A q \in Payloads :
       /\ times[q] <= 1
       /\ s.replay[q] = "new" => times[q] = 0
       /\ s.replay[q] = "seen" /\ validator[n][q] = "Drop" => Own(ids, n, q)
  /\ \A k \in Ids :
       Serveable(s, k) /\ validator[n][Payload[k]] = "Drop" => Own(ids, n, Payload[k])

\* What may be in flight.
FrameOK(f, ids) ==
  /\ f \in Frames
  /\ f.kind = "EAGER" =>
       \A i \in f.ids : validator[f.from][Payload[i]] = "Drop" => Own(ids, f.from, Payload[i])

LEMMA Parts ==
  PlumtreeInvariant <=>
    /\ DOMAIN topic = Nodes /\ topic = [n \in Nodes |-> topic[n]]
    /\ DOMAIN delivered = Nodes /\ delivered = [n \in Nodes |-> delivered[n]]
    /\ publishing \subseteq [id : Ids, missed : SUBSET Nodes]
    /\ \A n \in Nodes : validator[n] \in [Payloads -> Verdicts[n]]
    /\ published \subseteq Ids
    /\ \A n \in Nodes : NodeOK(n, topic[n], published, delivered[n])
    /\ \A f \in net : FrameOK(f, published)
  BY DEF PlumtreeInvariant, TypeOK, AtMostOnce, RefusedStaysHome, NodeOK, FrameOK, IsState

LEMMA OwnGrows ==
  ASSUME NEW ids, NEW more, ids \subseteq more, NEW n, NEW q, Own(ids, n, q)
  PROVE  Own(more, n, q)
  BY DEF Own

\* A step of node n is safe when what it leaves at n, and what it sends, is.
LEMMA NodeStep ==
  ASSUME PlumtreeInvariant, NEW n \in Nodes, NEW s, NEW times,
         topic' = [topic EXCEPT ![n] = s], delivered' = [delivered EXCEPT ![n] = times],
         NodeOK(n, s, published', times), UNCHANGED validator,
         published \subseteq published', published' \subseteq Ids,
         publishing' \subseteq [id : Ids, missed : SUBSET Nodes],
         \A f \in net' : f \in net \/ FrameOK(f, published')
  PROVE  PlumtreeInvariant'
  <1>1. ASSUME NEW m \in Nodes
        PROVE  NodeOK(m, topic'[m], published', delivered'[m])
    <2>1. CASE m = n
      BY <2>1, Parts
    <2>2. CASE m # n
      <3>1. NodeOK(m, topic[m], published, delivered[m])
        BY Parts
      <3>2. topic'[m] = topic[m] /\ delivered'[m] = delivered[m]
        BY <2>2, Parts
      <3> QED
        BY <3>1, <3>2, OwnGrows DEF NodeOK
    <2> QED
      BY <2>1, <2>2
  <1>2. \A f \in net' : FrameOK(f, published')
    BY Parts, OwnGrows DEF FrameOK
  <1>3. /\ DOMAIN topic' = Nodes /\ topic' = [m \in Nodes |-> topic'[m]]
        /\ DOMAIN delivered' = Nodes /\ delivered' = [m \in Nodes |-> delivered'[m]]
    BY Parts
  <1>4. \A m \in Nodes : validator'[m] \in [Payloads -> Verdicts[m]]
    BY Parts
  <1> QED
    BY <1>1, <1>2, <1>3, <1>4
       DEF PlumtreeInvariant, TypeOK, AtMostOnce, RefusedStaysHome, NodeOK, FrameOK, IsState

\* What Sends puts on the wire.
LEMMA Sent ==
  ASSUME NEW consumed, NEW frames, Sends(consumed, frames)
  PROVE  \A f \in net' : f \in net \/ f \in frames
  BY DEF Sends

\* A step that changes nothing but the mesh, announcements and claims of n,
\* and sends what is safe.
LEMMA MeshStep ==
  ASSUME PlumtreeInvariant, NEW n \in Nodes, NEW s, SameCaches(topic[n], s),
         topic' = [topic EXCEPT ![n] = s], UNCHANGED <<validator, published, delivered>>,
         publishing' \subseteq [id : Ids, missed : SUBSET Nodes],
         \A f \in net' : f \in net \/ FrameOK(f, published)
  PROVE  PlumtreeInvariant'
  <1>1. NodeOK(n, topic[n], published, delivered[n]) /\ delivered = [delivered EXCEPT ![n] = delivered[n]]
    BY Parts
  <1>2. NodeOK(n, s, published, delivered[n])
    BY <1>1 DEF NodeOK, SameCaches, Serveable
  <1>3. published \subseteq Ids
    BY Parts
  <1> QED
    BY <1>1, <1>2, <1>3, NodeStep

-----------------------------------------------------------------------------
(* Frames. *)

LEMMA PlainFrame ==
  ASSUME NEW kind \in {"IHAVE", "IWANT", "DIGEST"}, NEW n \in Nodes, NEW m \in Nodes,
         NEW batch \in SUBSET Ids, NEW ids
  PROVE  FrameOK(Frame(kind, n, m, batch), ids)
  BY DEF FrameOK, Frame, Frames

LEMMA EagerFrame ==
  ASSUME NEW n \in Nodes, NEW i \in Ids, NEW peers \in SUBSET Nodes, NEW ids,
         validator[n][Payload[i]] = "Drop" => Own(ids, n, Payload[i])
  PROVE  \A f \in Eager(n, i, peers) : FrameOK(f, ids)
  BY SMT DEF FrameOK, Eager, Frame, Frames

\* What a node serves.
LEMMA Served ==
  ASSUME PlumtreeInvariant, NEW n \in Nodes, NEW i \in Ids, Serveable(topic[n], i),
         NEW peers \in SUBSET Nodes
  PROVE  \A f \in Eager(n, i, peers) : FrameOK(f, published)
  <1>1. validator[n][Payload[i]] = "Drop" => Own(published, n, Payload[i])
    BY Parts DEF NodeOK
  <1> QED
    BY <1>1, EagerFrame

-----------------------------------------------------------------------------
(* Publishing. *)

LEMMA DeliverOnce ==
  ASSUME PlumtreeInvariant, NEW n \in Nodes, NEW p \in Payloads, Deliver(n, p),
         delivered[n][p] = 0
  PROVE  delivered' = [delivered EXCEPT ![n] = [delivered[n] EXCEPT ![p] = 1]]
  BY SMT, Parts DEF Deliver, NodeOK

LEMMA PublishKeeps ==
  ASSUME PlumtreeInvariant, NEW n \in Nodes, NEW i \in Ids, publish_local(n, i)
  PROVE  PlumtreeInvariant'
  <1> DEFINE s == topic[n]
             p == Payload[i]
             t == [s EXCEPT !.cache[i] = "local",
                            !.replay[p] = IF is_payload_replay(s, p) THEN @ ELSE "seen"]
             new == ~is_payload_replay(s, p)
             times == IF new THEN [delivered[n] EXCEPT ![p] = 1] ELSE delivered[n]
  <1>1. /\ NodeOK(n, s, published, delivered[n]) /\ p \in Payloads
        /\ published \subseteq Ids /\ publishing \subseteq [id : Ids, missed : SUBSET Nodes]
        /\ delivered = [delivered EXCEPT ![n] = delivered[n]]
    BY Parts, PlumtreeAssumption
  <1>2. /\ Origin[i] = n /\ published' = published \union {i} /\ topic' = [topic EXCEPT ![n] = t]
        /\ UNCHANGED validator
    BY DEF publish_local
  <1>3. delivered' = [delivered EXCEPT ![n] = times]
    <2>1. CASE new
      <3>1. delivered[n][p] = 0 /\ Deliver(n, p)
        BY <2>1, <1>1 DEF publish_local, NodeOK, is_payload_replay
      <3> QED
        BY <2>1, <3>1, <1>1, DeliverOnce
    <2>2. CASE ~new
      BY <2>2, <1>1 DEF publish_local
    <2> QED
      BY <2>1, <2>2
  <1>4. Own(published', n, p)
    BY <1>2 DEF Own
  <1>5. IsState(s) /\ s.eager \in SUBSET Nodes
    BY <1>1 DEF NodeOK, IsState, TopicStates
  <1>6. /\ IsState(t) /\ t.cache = [s.cache EXCEPT ![i] = "local"]
        /\ t.replay = [s.replay EXCEPT ![p] = IF new THEN "seen" ELSE s.replay[p]]
    BY <1>1, <1>5 DEF IsState, TopicStates, is_payload_replay
  <1>7. s.cache \in [Ids -> {"absent", "local", "relay", "dropped"}]
        /\ s.replay \in [Payloads -> {"new", "seen", "refused"}]
    BY <1>5 DEF IsState, TopicStates
  <1>8. new => s.replay[p] = "new"
    BY DEF is_payload_replay
  <1>9. /\ Sends({}, Eager(n, i, s.eager))
        /\ publishing' = publishing \union
             {[id |-> i, missed |-> {m \in s.eager : Frame("EAGER", n, m, {i}) \notin net'}]}
    BY DEF publish_local
  <1> HIDE DEF s, t, new
  <1>10. NodeOK(n, t, published', times)
    <2>1. times \in [Payloads -> 0..2]
      BY SMT, <1>1 DEF NodeOK
    <2>2. ASSUME NEW q \in Payloads
          PROVE  /\ times[q] <= 1
                 /\ t.replay[q] = "new" => times[q] = 0
                 /\ t.replay[q] = "seen" /\ validator[n][q] = "Drop" => Own(published', n, q)
      <3>1. CASE q = p
        BY SMT, <3>1, <1>1, <1>4, <1>6, <1>7, <1>8 DEF NodeOK
      <3>2. CASE q # p
        <4>1. t.replay[q] = s.replay[q] /\ times[q] = delivered[n][q]
          BY <3>2, <1>1, <1>6, <1>7 DEF NodeOK
        <4>2. Own(published, n, q) => Own(published', n, q)
          BY <1>2, OwnGrows
        <4> QED
          BY <4>1, <4>2, <1>1 DEF NodeOK
      <3> QED
        BY <3>1, <3>2
    <2>3. ASSUME NEW k \in Ids, Serveable(t, k), validator[n][Payload[k]] = "Drop"
          PROVE  Own(published', n, Payload[k])
      <3>1. CASE k = i
        BY <3>1, <1>4
      <3>2. CASE k # i
        <4>1. Serveable(s, k)
          BY <3>2, <2>3, <1>6, <1>7 DEF Serveable
        <4>2. Own(published, n, Payload[k])
          BY <4>1, <2>3, <1>1 DEF NodeOK
        <4> QED
          BY <4>2, <1>2, OwnGrows
      <3> QED
        BY <3>1, <3>2
    <2> QED
      BY <2>1, <2>2, <2>3, <1>6 DEF NodeOK
  <1>11. \A f \in net' : f \in net \/ FrameOK(f, published')
    BY <1>4, <1>5, <1>9, Sent, EagerFrame
  <1>12. /\ publishing' \subseteq [id : Ids, missed : SUBSET Nodes]
         /\ published \subseteq published' /\ published' \subseteq Ids
    BY SMT, <1>1, <1>2, <1>5, <1>9
  <1> HIDE DEF times
  <1> QED
    BY <1>2, <1>3, <1>10, <1>11, <1>12, NodeStep

LEMMA SettleKeeps ==
  ASSUME PlumtreeInvariant, NEW n \in Nodes, NEW x \in publishing, PublishSettle(n, x)
  PROVE  PlumtreeInvariant'
  <1>1. PICK direct \in SUBSET x.missed :
          topic' = [topic EXCEPT ![n] =
            [topic[n] EXCEPT !.pending = @ \union {x.id},
                             !.announce = @ \union ({x.id} \X direct)]]
    BY DEF PublishSettle
  <1>2. /\ IsState(topic[n]) /\ x.id \in Ids /\ direct \subseteq Nodes
        /\ publishing \subseteq [id : Ids, missed : SUBSET Nodes]
    BY <1>1, Parts DEF NodeOK
  <1> DEFINE t == [topic[n] EXCEPT !.pending = @ \union {x.id},
                                   !.announce = @ \union ({x.id} \X direct)]
  <1>3. SameCaches(topic[n], t)
    BY <1>2 DEF SameCaches, IsState, TopicStates
  <1>4. /\ topic' = [topic EXCEPT ![n] = t] /\ UNCHANGED <<net, validator, published, delivered>>
        /\ publishing' \subseteq publishing
    BY <1>1 DEF PublishSettle
  <1> HIDE DEF t
  <1> QED
    BY <1>2, <1>3, <1>4, MeshStep

-----------------------------------------------------------------------------
(* Receiving an EAGER frame. *)

\* What every handler of a frame may assume.
LEMMA Arrived ==
  ASSUME PlumtreeInvariant, NEW n \in Nodes, NEW f \in net
  PROVE  /\ f.from \in Nodes /\ f.ids \subseteq Ids
         /\ NodeOK(n, topic[n], published, delivered[n]) /\ IsState(topic[n])
         /\ delivered = [delivered EXCEPT ![n] = delivered[n]]
         /\ publishing \subseteq [id : Ids, missed : SUBSET Nodes] /\ published \subseteq Ids
         /\ topic = [topic EXCEPT ![n] = topic[n]]
  BY Parts DEF FrameOK, Frames, NodeOK

LEMMA DuplicateKeeps ==
  ASSUME PlumtreeInvariant, NEW n \in Nodes, NEW f \in net, NEW i, EagerDuplicate(n, f, i)
  PROVE  PlumtreeInvariant'
  <1>1. PICK keep \in BOOLEAN :
          topic' = [topic EXCEPT ![n] = IF keep THEN topic[n] ELSE prune_peer(topic[n], f.from)]
    BY Parts DEF EagerDuplicate
  <1> DEFINE t == IF keep THEN topic[n] ELSE prune_peer(topic[n], f.from)
  <1>2. SameCaches(topic[n], t)
    BY Arrived, PeerPruned DEF SameCaches
  <1>3. topic' = [topic EXCEPT ![n] = t] /\ UNCHANGED <<publishing, validator, published, delivered>>
    BY <1>1 DEF EagerDuplicate
  <1>4. \A g \in net' : g \in net
    BY SMT, Sent DEF EagerDuplicate
  <1> HIDE DEF t
  <1> QED
    BY <1>2, <1>3, <1>4, Arrived, MeshStep

\* A message that is kept and not delivered: one cache entry is written, and
\* the payload is new to no reader of the replay cache.
Kept(s, t, i, c) ==
  /\ IsState(t)
  /\ c \in {"relay", "dropped"} /\ t.cache = [s.cache EXCEPT ![i] = c]
  /\ c = "relay" => s.replay[Payload[i]] = "seen"
  /\ \A q \in Payloads : t.replay[q] = s.replay[q] \/ t.replay[q] = "refused"

LEMMA KeptKeeps ==
  ASSUME PlumtreeInvariant, NEW n \in Nodes, NEW f \in net, NEW i \in Ids, NEW t, NEW c,
         Kept(topic[n], t, i, c), topic' = [topic EXCEPT ![n] = t], Sends({f}, {}),
         UNCHANGED <<publishing, validator, published, delivered>>
  PROVE  PlumtreeInvariant'
  <1>1. NodeOK(n, topic[n], published, delivered[n]) /\ IsState(topic[n])
    BY Arrived
  <1>2. topic[n].cache \in [Ids -> {"absent", "local", "relay", "dropped"}] /\ Payload[i] \in Payloads
    BY <1>1, PlumtreeAssumption DEF IsState, TopicStates
  <1>3. ASSUME NEW k \in Ids, Serveable(t, k), validator[n][Payload[k]] = "Drop"
        PROVE  Own(published, n, Payload[k])
    <2>1. CASE k = i
      BY <2>1, <1>1, <1>2, <1>3 DEF Serveable, NodeOK, Kept
    <2>2. CASE k # i
      BY <2>2, <1>1, <1>2, <1>3 DEF Serveable, NodeOK, Kept
    <2> QED
      BY <2>1, <2>2
  <1>4. \A q \in Payloads :
          /\ t.replay[q] = "new" => delivered[n][q] = 0
          /\ t.replay[q] = "seen" /\ validator[n][q] = "Drop" => Own(published, n, q)
    BY <1>1 DEF NodeOK, Kept
  <1>5. NodeOK(n, t, published, delivered[n])
    BY <1>1, <1>3, <1>4 DEF NodeOK, Kept
  <1>6. \A g \in net' : g \in net
    BY SMT, Sent
  <1> QED
    BY <1>5, <1>6, Arrived, NodeStep

LEMMA ReplayKeeps ==
  ASSUME PlumtreeInvariant, NEW n \in Nodes, NEW f \in net, NEW i \in Ids, EagerReplay(n, f, i)
  PROVE  PlumtreeInvariant'
  <1> DEFINE s == topic[n]
             p == Payload[i]
             r == Received(s, i)
             t == [r EXCEPT !.cache[i] = IF payload_replay_was_refused(s, p) THEN "dropped" ELSE @]
             c == IF payload_replay_was_refused(s, p) THEN "dropped" ELSE "relay"
  <1>1. /\ is_payload_replay(s, p) /\ topic' = [topic EXCEPT ![n] = t] /\ Sends({f}, {})
        /\ UNCHANGED <<publishing, validator, published, delivered>>
    BY DEF EagerReplay
  <1>2. IsState(s) /\ p \in Payloads
    BY Arrived, PlumtreeAssumption
  <1>3. IsState(r) /\ r.replay = s.replay /\ r.cache = [s.cache EXCEPT ![i] = "relay"]
    BY <1>2, MessageReceived
  <1>4. s.cache \in [Ids -> {"absent", "local", "relay", "dropped"}]
        /\ s.replay \in [Payloads -> {"new", "seen", "refused"}]
    BY <1>2 DEF IsState, TopicStates
  <1> HIDE DEF r, s
  <1>5. IsState(t) /\ t.replay = s.replay /\ t.cache = [r.cache EXCEPT ![i] = c]
    BY <1>3, <1>4 DEF IsState, TopicStates
  <1>6. t.cache = [s.cache EXCEPT ![i] = c]
    BY <1>3, <1>4, <1>5
  <1>7. c \in {"relay", "dropped"} /\ (c = "relay" => s.replay[p] = "seen")
    BY <1>1, <1>2, <1>4 DEF is_payload_replay, payload_replay_was_refused
  <1> HIDE DEF t, c
  <1>8. \A q \in Payloads : t.replay[q] = s.replay[q]
    BY <1>5
  <1>9. Kept(topic[n], t, i, c)
    BY <1>5, <1>6, <1>7, <1>8 DEF Kept, s
  <1> QED
    BY <1>1, <1>9, KeptKeeps

LEMMA DroppedKeeps ==
  ASSUME PlumtreeInvariant, NEW n \in Nodes, NEW f \in net, NEW i \in Ids, EagerDropped(n, f, i)
  PROVE  PlumtreeInvariant'
  <1> DEFINE s == topic[n]
             p == Payload[i]
             r == Received(s, i)
             t == [r EXCEPT !.cache[i] = "dropped", !.replay[p] = "refused"]
  <1>1. /\ topic' = [topic EXCEPT ![n] = t] /\ Sends({f}, {})
        /\ UNCHANGED <<publishing, validator, published, delivered>>
    BY DEF EagerDropped
  <1>2. IsState(s) /\ p \in Payloads
    BY Arrived, PlumtreeAssumption
  <1>3. IsState(r) /\ r.replay = s.replay /\ r.cache = [s.cache EXCEPT ![i] = "relay"]
    BY <1>2, MessageReceived
  <1>4. s.cache \in [Ids -> {"absent", "local", "relay", "dropped"}]
        /\ s.replay \in [Payloads -> {"new", "seen", "refused"}]
    BY <1>2 DEF IsState, TopicStates
  <1> HIDE DEF r, s
  <1>5. /\ IsState(t) /\ t.replay = [s.replay EXCEPT ![p] = "refused"]
        /\ t.cache = [r.cache EXCEPT ![i] = "dropped"]
    BY <1>2, <1>3, <1>4 DEF IsState, TopicStates
  <1>6. t.cache = [s.cache EXCEPT ![i] = "dropped"]
    BY <1>3, <1>4, <1>5
  <1> HIDE DEF t
  <1>7. \A q \in Payloads : t.replay[q] = s.replay[q] \/ t.replay[q] = "refused"
    BY <1>4, <1>5
  <1>8. Kept(topic[n], t, i, "dropped")
    BY <1>5, <1>6, <1>7 DEF Kept, s
  <1> QED
    BY <1>1, <1>8, KeptKeeps

LEMMA AcceptedKeeps ==
  ASSUME PlumtreeInvariant, NEW n \in Nodes, NEW f \in net, NEW i \in Ids, EagerAccepted(n, f, i)
  PROVE  PlumtreeInvariant'
  <1> DEFINE o == topic[n]
             p == Payload[i]
             v == validator[n][p]
             w == Received(o, i)
             r == [w EXCEPT !.replay[p] = "seen"]
             q == add_new_peer_lazy(r, f.from)
  <1>1. /\ ~is_payload_replay(o, p) /\ v # "Drop" /\ Deliver(n, p)
        /\ UNCHANGED <<publishing, validator, published>>
    BY DEF EagerAccepted
  <1>2. PICK grafted \in SUBSET q.lazy :
          LET s == maintain_degree(q, grafted)
              next == s.eager \ {f.from}
              t == IF v = "LazyForward" THEN queue_lazy_withheld(s, i, next) ELSE s
          IN /\ topic' = [topic EXCEPT ![n] =
                  [t EXCEPT !.pending = IF v = "DeliverOnly" THEN @ ELSE @ \union {i}]]
             /\ Sends({f}, IF v = "ForwardAndDeliver" THEN Eager(n, i, next) ELSE {})
    BY DEF EagerAccepted
  <1> DEFINE s == maintain_degree(q, grafted)
             next == s.eager \ {f.from}
             t == IF v = "LazyForward" THEN queue_lazy_withheld(s, i, next) ELSE s
             u == [t EXCEPT !.pending = IF v = "DeliverOnly" THEN @ ELSE @ \union {i}]
  <1>3. topic' = [topic EXCEPT ![n] = u]
        /\ Sends({f}, IF v = "ForwardAndDeliver" THEN Eager(n, i, next) ELSE {})
    BY <1>2
  <1>4. /\ IsState(o) /\ p \in Payloads /\ f.from \in Nodes
        /\ NodeOK(n, o, published, delivered[n])
    BY Arrived, PlumtreeAssumption
  <1>5. IsState(w) /\ w.replay = o.replay /\ w.cache = [o.cache EXCEPT ![i] = "relay"]
    BY <1>4, MessageReceived
  <1> HIDE DEF w, o
  <1>6. IsState(r) /\ r.cache = w.cache /\ r.replay = [w.replay EXCEPT ![p] = "seen"]
    BY <1>4, <1>5 DEF IsState, TopicStates
  <1> HIDE DEF r
  <1>7. SameCaches(r, q)
    BY <1>4, <1>6, PeerAdded
  <1> HIDE DEF q
  <1>8. SameCaches(q, s)
    BY <1>7, PeersGrafted DEF SameCaches
  <1> HIDE DEF s
  <1>9. next \in SUBSET Nodes
    BY <1>8 DEF SameCaches, IsState, TopicStates
  <1>10. SameCaches(s, t)
    BY <1>8, <1>9, Announced DEF SameCaches
  <1> HIDE DEF t
  <1>11. SameCaches(t, u)
    BY <1>10 DEF SameCaches, IsState, TopicStates
  <1> HIDE DEF u
  <1>12. /\ IsState(u) /\ u.cache = [o.cache EXCEPT ![i] = "relay"]
         /\ u.replay = [o.replay EXCEPT ![p] = "seen"]
    BY <1>5, <1>6, <1>7, <1>8, <1>10, <1>11 DEF SameCaches
  <1>13. /\ o.cache \in [Ids -> {"absent", "local", "relay", "dropped"}]
         /\ o.replay \in [Payloads -> {"new", "seen", "refused"}]
    BY <1>4 DEF IsState, TopicStates
  <1> DEFINE times == [delivered[n] EXCEPT ![p] = 1]
  <1>14. delivered[n][p] = 0
    BY <1>1, <1>4 DEF NodeOK, is_payload_replay
  <1>15. delivered' = [delivered EXCEPT ![n] = times]
    BY <1>1, <1>4, <1>14, DeliverOnce
  <1>16. NodeOK(n, u, published, times)
    <2>1. times \in [Payloads -> 0..2]
      BY SMT, <1>4 DEF NodeOK
    <2>2. ASSUME NEW z \in Payloads
          PROVE  /\ times[z] <= 1
                 /\ u.replay[z] = "new" => times[z] = 0
                 /\ u.replay[z] = "seen" /\ validator[n][z] = "Drop" => Own(published, n, z)
      <3>1. CASE z = p
        BY SMT, <3>1, <1>1, <1>4, <1>12, <1>13 DEF NodeOK
      <3>2. CASE z # p
        BY <3>2, <1>4, <1>12, <1>13 DEF NodeOK
      <3> QED
        BY <3>1, <3>2
    <2>3. ASSUME NEW k \in Ids, Serveable(u, k), validator[n][Payload[k]] = "Drop"
          PROVE  Own(published, n, Payload[k])
      <3>1. CASE k = i
        BY <3>1, <2>3, <1>1
      <3>2. CASE k # i
        BY <3>2, <2>3, <1>4, <1>12, <1>13 DEF NodeOK, Serveable
      <3> QED
        BY <3>1, <3>2
    <2> QED
      BY <2>1, <2>2, <2>3, <1>12 DEF NodeOK
  <1>17. \A g \in net' : g \in net \/ FrameOK(g, published)
    <2>1. \A g \in Eager(n, i, next) : FrameOK(g, published)
      BY <1>1, <1>9, EagerFrame
    <2> QED
      BY SMT, <2>1, <1>3, Sent
  <1> HIDE DEF times
  <1> QED
    BY <1>1, <1>3, <1>15, <1>16, <1>17, Arrived, NodeStep

LEMMA EagerKeeps ==
  ASSUME PlumtreeInvariant, NEW n \in Nodes, NEW f \in net, handle_eager(n, f)
  PROVE  PlumtreeInvariant'
  <1>1. f.ids \subseteq Ids
    BY Arrived
  <1> QED
    BY <1>1, DuplicateKeeps, ReplayKeeps, DroppedKeeps, AcceptedKeeps DEF handle_eager

-----------------------------------------------------------------------------
(* Announcing, pulling and anti-entropy. *)

LEMMA FlushKeeps ==
  ASSUME PlumtreeInvariant, NEW n \in Nodes, flush_ihave_batches(n)
  PROVE  PlumtreeInvariant'
  <1> DEFINE s == topic[n]
             kept == {x[1] : x \in s.announce} \ s.pending
             direct(batch) == {x[2] : x \in {y \in s.announce : y[1] \in batch}}
             frames(w) == {Frame("IHAVE", n, m, w[1]) : m \in w[2]}
             t(batch, stay) == [s EXCEPT !.pending = @ \ batch,
                                         !.announce = {x \in @ : x[1] \notin batch} \union stay]
  <1>1. PICK w \in {<<s.pending, direct(s.pending) \union s.lazy>>, <<kept, direct(kept)>>} :
          /\ Sends({}, frames(w))
          /\ \/ topic' = topic
             \/ \E stay \in SUBSET s.announce : topic' = [topic EXCEPT ![n] = t(w[1], stay)]
    BY DEF flush_ihave_batches
  <1>2. UNCHANGED <<publishing, validator, published, delivered>>
    BY DEF flush_ihave_batches
  <1>3. /\ IsState(s) /\ s.pending \subseteq Ids /\ s.lazy \subseteq Nodes
        /\ s.announce \subseteq Ids \X Nodes /\ topic = [topic EXCEPT ![n] = s]
        /\ publishing \subseteq [id : Ids, missed : SUBSET Nodes]
    BY Parts DEF NodeOK, IsState, TopicStates
  <1>4. w[1] \subseteq Ids /\ w[2] \subseteq Nodes
    <2>1. \A x \in s.announce : x[1] \in Ids /\ x[2] \in Nodes
      BY <1>3
    <2>2. kept \subseteq Ids /\ direct(kept) \subseteq Nodes /\ direct(s.pending) \subseteq Nodes
      BY <2>1
    <2>3. CASE w = <<s.pending, direct(s.pending) \union s.lazy>>
      BY <1>3, <2>2, <2>3
    <2>4. CASE w = <<kept, direct(kept)>>
      BY <2>2, <2>4
    <2> QED
      BY <1>1, <2>3, <2>4
  <1>5. \A f \in net' : f \in net \/ FrameOK(f, published)
    <2>1. \A f \in frames(w) : FrameOK(f, published)
      BY <1>4, PlainFrame
    <2> QED
      BY <2>1, <1>1, Sent
  <1>6. CASE topic' = topic
    <2>1. SameCaches(s, s) /\ topic' = [topic EXCEPT ![n] = s]
      BY <1>3, <1>6 DEF SameCaches
    <2> QED
      BY <2>1, <1>2, <1>3, <1>5, MeshStep
  <1>7. ASSUME NEW stay \in SUBSET s.announce, topic' = [topic EXCEPT ![n] = t(w[1], stay)]
        PROVE  PlumtreeInvariant'
    <2>1. SameCaches(s, t(w[1], stay))
      BY <1>3, <1>4 DEF SameCaches, IsState, TopicStates
    <2> HIDE DEF t
    <2> QED
      BY <2>1, <1>2, <1>3, <1>5, <1>7, MeshStep
  <1> QED
    BY <1>1, <1>6, <1>7

LEMMA IhaveKeeps ==
  ASSUME PlumtreeInvariant, NEW n \in Nodes, NEW f \in net, handle_ihave(n, f)
  PROVE  PlumtreeInvariant'
  <1> DEFINE s == topic[n]
             iwant(ids) == IF ids = {} THEN {} ELSE {Frame("IWANT", n, f.from, ids)}
             t(ids, failed) == [s EXCEPT !.claim = [i \in Ids |->
               IF i \in ids THEN [peer |-> f.from, failed |-> failed] ELSE s.claim[i]]]
             ask == {i \in f.ids : MayClaim(s, i, f.from)}
             waiting == {i \in ask : s.claim[i] # NoClaim /\ s.claim[i].peer = f.from
                                     /\ s.claim[i].failed}
  <1>6. PICK backoff \in SUBSET waiting :
          /\ Sends({f}, iwant(ask \ backoff))
          /\ \E failed \in (IF "claim" \in Faults THEN BOOLEAN ELSE {FALSE}) :
               topic' = [topic EXCEPT ![n] = t(ask \ backoff, failed)]
    BY DEF handle_ihave
  <1> DEFINE ids == ask \ backoff
  <1>1. PICK failed \in BOOLEAN :
          Sends({f}, iwant(ids)) /\ topic' = [topic EXCEPT ![n] = t(ids, failed)]
    BY <1>6
  <1>2. UNCHANGED <<publishing, validator, published, delivered>>
    BY DEF handle_ihave
  <1>3. /\ f.from \in Nodes /\ ids \in SUBSET Ids /\ IsState(s)
        /\ publishing \subseteq [id : Ids, missed : SUBSET Nodes]
    BY Arrived
  <1> HIDE DEF ids
  <1>4. SameCaches(s, t(ids, failed))
    <2>1. s.claim \in [Ids -> Claims]
      BY <1>3 DEF IsState, TopicStates
    <2>2. t(ids, failed).claim \in [Ids -> Claims]
      BY <2>1, <1>3 DEF Claims, IsState, TopicStates
    <2> QED
      BY <2>2, <1>3 DEF SameCaches, IsState, TopicStates
  <1>5. \A g \in net' : g \in net \/ FrameOK(g, published)
    <2>1. \A g \in iwant(ids) : FrameOK(g, published)
      BY <1>3, PlainFrame
    <2> QED
      BY SMT, <2>1, <1>1, Sent
  <1> HIDE DEF t
  <1> QED
    BY <1>1, <1>2, <1>3, <1>4, <1>5, MeshStep

LEMMA IwantKeeps ==
  ASSUME PlumtreeInvariant, NEW n \in Nodes, NEW f \in net, handle_iwant(n, f)
  PROVE  PlumtreeInvariant'
  <1> DEFINE s == topic[n]
             serve == {i \in f.ids : Serveable(s, i)}
             q == add_new_peer_lazy(s, f.from)
             t(grafted) == IF serve = {} THEN s ELSE maintain_degree(q, grafted)
             frames == UNION {Eager(n, i, {f.from}) : i \in serve}
  <1>1. PICK grafted \in SUBSET q.lazy : topic' = [topic EXCEPT ![n] = t(grafted)]
    BY Parts DEF handle_iwant
  <1>2. Sends({f}, frames) /\ UNCHANGED <<publishing, validator, published, delivered>>
    BY DEF handle_iwant
  <1>3. /\ f.from \in Nodes /\ f.ids \subseteq Ids /\ IsState(s)
        /\ publishing \subseteq [id : Ids, missed : SUBSET Nodes]
    BY Arrived
  <1>4. SameCaches(s, q)
    BY <1>3, PeerAdded
  <1>5. SameCaches(s, t(grafted))
    <2> HIDE DEF q
    <2>1. SameCaches(q, maintain_degree(q, grafted))
      BY <1>4, PeersGrafted DEF SameCaches
    <2> QED
      BY <2>1, <1>3, <1>4 DEF SameCaches
  <1>6. \A g \in frames : FrameOK(g, published)
    <2>1. ASSUME NEW i \in serve
          PROVE  \A g \in Eager(n, i, {f.from}) : FrameOK(g, published)
      BY <1>3, Served
    <2> QED
      BY <2>1
  <1> HIDE DEF t, frames
  <1>7. \A g \in net' : g \in net \/ FrameOK(g, published)
    BY <1>2, <1>6, Sent
  <1> QED
    BY <1>1, <1>2, <1>3, <1>5, <1>7, MeshStep

\* A step that leaves every node as it is, and sends what is safe.
LEMMA WireStep ==
  ASSUME PlumtreeInvariant, NEW n \in Nodes,
         UNCHANGED <<topic, publishing, validator, published, delivered>>,
         \A g \in net' : g \in net \/ FrameOK(g, published)
  PROVE  PlumtreeInvariant'
  <1>1. /\ IsState(topic[n]) /\ topic' = [topic EXCEPT ![n] = topic[n]]
        /\ publishing \subseteq [id : Ids, missed : SUBSET Nodes]
    BY Parts DEF NodeOK
  <1>2. SameCaches(topic[n], topic[n])
    BY <1>1 DEF SameCaches
  <1> QED
    BY <1>1, <1>2, MeshStep

LEMMA TickKeeps ==
  ASSUME PlumtreeInvariant, NEW n \in Nodes, AntiEntropyTick(n)
  PROVE  PlumtreeInvariant'
  <1>1. PICK m \in topic[n].eager \union topic[n].lazy : send_anti_entropy_digest(n, m)
    BY DEF AntiEntropyTick
  <1>2. m \in Nodes
    BY Parts DEF NodeOK, IsState, TopicStates
  <1>3. cached_message_ids(topic[n]) \in SUBSET Ids
    BY DEF cached_message_ids
  <1>4. FrameOK(Frame("DIGEST", n, m, cached_message_ids(topic[n])), published)
    BY <1>2, <1>3, PlainFrame
  <1>5. \A g \in net' : g \in net \/ FrameOK(g, published)
    BY SMT, <1>1, <1>4, Sent DEF send_anti_entropy_digest
  <1> QED
    BY <1>5, WireStep DEF AntiEntropyTick

LEMMA DigestKeeps ==
  ASSUME PlumtreeInvariant, NEW n \in Nodes, NEW f \in net, handle_anti_entropy(n, f)
  PROVE  PlumtreeInvariant'
  <1>1. f.from \in Nodes /\ f.ids \subseteq Ids
    BY Arrived
  <1>2. \A g \in DigestServe(n, f) : FrameOK(g, published)
    <2> DEFINE ids == {i \in cached_message_ids(topic[n]) \ f.ids : Serveable(topic[n], i)}
    <2>1. ASSUME NEW i \in ids
          PROVE  \A g \in Eager(n, i, {f.from}) : FrameOK(g, published)
      BY <1>1, Served DEF cached_message_ids
    <2> QED
      BY <2>1 DEF DigestServe
  <1>3. \A g \in DigestAsk(n, f) : FrameOK(g, published)
    <2>1. f.ids \ cached_message_ids(topic[n]) \in SUBSET Ids
      BY <1>1
    <2> QED
      BY <2>1, <1>1, PlainFrame DEF DigestAsk
  <1>4. \A g \in net' : g \in net \/ FrameOK(g, published)
    BY SMT, <1>2, <1>3, Sent DEF handle_anti_entropy
  <1> QED
    BY <1>4, WireStep DEF handle_anti_entropy

-----------------------------------------------------------------------------
(* Maintenance, bounds and losses. *)

LEMMA DegreeKeeps ==
  ASSUME PlumtreeInvariant, NEW n \in Nodes, DegreeTick(n)
  PROVE  PlumtreeInvariant'
  <1>1. PICK grafted \in SUBSET topic[n].lazy :
          topic' = [topic EXCEPT ![n] = maintain_degree(topic[n], grafted)]
    BY Parts DEF DegreeTick
  <1>2. IsState(topic[n]) /\ publishing \subseteq [id : Ids, missed : SUBSET Nodes]
    BY Parts DEF NodeOK
  <1>3. SameCaches(topic[n], maintain_degree(topic[n], grafted))
    BY <1>2, PeersGrafted
  <1> QED
    BY <1>1, <1>2, <1>3, MeshStep DEF DegreeTick

LEMMA ClaimExpiresKeeps ==
  ASSUME PlumtreeInvariant, NEW n \in Nodes, NEW i \in Ids, ClaimExpires(n, i)
  PROVE  PlumtreeInvariant'
  <1> DEFINE t == [topic[n] EXCEPT !.claim[i] = NoClaim]
  <1>1. topic' = [topic EXCEPT ![n] = t] /\ UNCHANGED <<net, publishing, validator, published, delivered>>
    BY DEF ClaimExpires
  <1>2. IsState(topic[n]) /\ publishing \subseteq [id : Ids, missed : SUBSET Nodes]
    BY Parts DEF NodeOK
  <1>3. SameCaches(topic[n], t)
    BY <1>2 DEF SameCaches, IsState, TopicStates, Claims
  <1> HIDE DEF t
  <1> QED
    BY <1>1, <1>2, <1>3, MeshStep

\* An evicted message is forgotten, not its payload.
LEMMA EvictKeeps ==
  ASSUME PlumtreeInvariant, NEW n \in Nodes, NEW i \in Ids, Evict(n, i)
  PROVE  PlumtreeInvariant'
  <1> DEFINE s == topic[n]
             t == [s EXCEPT !.cache[i] = "absent"]
  <1>1. topic' = [topic EXCEPT ![n] = t] /\ UNCHANGED <<net, publishing, validator, published, delivered>>
    BY DEF Evict
  <1>2. /\ NodeOK(n, s, published, delivered[n]) /\ IsState(s) /\ published \subseteq Ids
        /\ publishing \subseteq [id : Ids, missed : SUBSET Nodes]
        /\ delivered = [delivered EXCEPT ![n] = delivered[n]]
    BY Parts DEF NodeOK
  <1>3. s.cache \in [Ids -> {"absent", "local", "relay", "dropped"}]
    BY <1>2 DEF IsState, TopicStates
  <1> HIDE DEF s
  <1>4. IsState(t) /\ t.replay = s.replay /\ t.cache = [s.cache EXCEPT ![i] = "absent"]
    BY <1>2 DEF IsState, TopicStates
  <1> HIDE DEF t
  <1>5. \A k \in Ids : Serveable(t, k) => Serveable(s, k)
    BY <1>3, <1>4 DEF Serveable
  <1>6. NodeOK(n, t, published, delivered[n])
    BY <1>2, <1>4, <1>5 DEF NodeOK
  <1> QED
    BY <1>1, <1>2, <1>6, NodeStep

\* A payload that leaves the replay cache may be delivered again; it counts
\* from zero.
LEMMA ReplayExpiresKeeps ==
  ASSUME PlumtreeInvariant, NEW n \in Nodes, NEW p \in Payloads, ReplayExpires(n, p)
  PROVE  PlumtreeInvariant'
  <1> DEFINE s == topic[n]
             t == [s EXCEPT !.replay[p] = "new"]
             times == [delivered[n] EXCEPT ![p] = 0]
  <1>1. topic' = [topic EXCEPT ![n] = t] /\ UNCHANGED <<net, publishing, validator, published>>
    BY DEF ReplayExpires
  <1>2. /\ NodeOK(n, s, published, delivered[n]) /\ IsState(s) /\ published \subseteq Ids
        /\ publishing \subseteq [id : Ids, missed : SUBSET Nodes]
    BY Parts DEF NodeOK
  <1>3. delivered' = [delivered EXCEPT ![n] = times]
    BY Parts DEF ReplayExpires
  <1>4. s.replay \in [Payloads -> {"new", "seen", "refused"}]
    BY <1>2 DEF IsState, TopicStates
  <1> HIDE DEF s
  <1>5. IsState(t) /\ t.cache = s.cache /\ t.replay = [s.replay EXCEPT ![p] = "new"]
    BY <1>2 DEF IsState, TopicStates
  <1> HIDE DEF t
  <1>6. /\ times \in [Payloads -> 0..2]
        /\ \A q \in Payloads : times[q] = IF q = p THEN 0 ELSE delivered[n][q]
    BY SMT, <1>2 DEF NodeOK
  <1> HIDE DEF times
  <1>7. \A q \in Payloads :
          /\ times[q] <= 1
          /\ t.replay[q] = "new" => times[q] = 0
          /\ t.replay[q] = "seen" /\ validator[n][q] = "Drop" => Own(published, n, q)
    BY SMT, <1>2, <1>4, <1>5, <1>6 DEF NodeOK
  <1>8. NodeOK(n, t, published, times)
    BY <1>2, <1>5, <1>6, <1>7 DEF NodeOK, Serveable
  <1> QED
    BY <1>1, <1>2, <1>3, <1>8, NodeStep

-----------------------------------------------------------------------------
(* The theorems. *)

LEMMA InitOK == Init => PlumtreeInvariant
  <1> SUFFICES ASSUME Init PROVE PlumtreeInvariant
    OBVIOUS
  <1>1. ASSUME NEW known \in SUBSET Nodes
        PROVE  IsState(NewTopicState(known))
    BY DEF IsState, TopicStates, NewTopicState, Claims
  <1>2. ASSUME NEW n \in Nodes
        PROVE  NodeOK(n, topic[n], published, delivered[n])
    <2>1. PICK known \in SUBSET Nodes : topic[n] = NewTopicState(known)
      BY DEF Init, Neighbours
    <2>2. /\ delivered[n] = [p \in Payloads |-> 0]
      BY DEF Init
    <2>3. /\ \A q \in Payloads : topic[n].replay[q] = "new"
          /\ \A k \in Ids : topic[n].cache[k] = "absent"
      BY SMT, <2>1 DEF NewTopicState
    <2>4. IsState(topic[n])
      BY <2>1, <1>1
    <2> QED
      BY SMT, <2>2, <2>3, <2>4 DEF NodeOK, Serveable
  <1>3. /\ DOMAIN topic = Nodes /\ topic = [n \in Nodes |-> topic[n]]
        /\ DOMAIN delivered = Nodes /\ delivered = [n \in Nodes |-> delivered[n]]
        /\ publishing = {} /\ net = {} /\ published = {}
        /\ \A n \in Nodes : validator[n] \in [Payloads -> Verdicts[n]]
    BY DEF Init
  <1> QED
    BY <1>2, <1>3, Parts

LEMMA NextOK == PlumtreeInvariant /\ [Next]_vars => PlumtreeInvariant'
  <1> SUFFICES ASSUME PlumtreeInvariant, [Next]_vars PROVE PlumtreeInvariant'
    OBVIOUS
  <1>1. CASE UNCHANGED vars
    BY <1>1 DEF vars, PlumtreeInvariant, TypeOK, AtMostOnce, RefusedStaysHome
  <1>2. ASSUME NEW n \in Nodes, NEW i \in Ids, publish_local(n, i) \/ Evict(n, i) \/ ClaimExpires(n, i)
        PROVE  PlumtreeInvariant'
    BY <1>2, PublishKeeps, EvictKeeps, ClaimExpiresKeeps
  <1>3. ASSUME NEW n \in Nodes, NEW x \in publishing, PublishSettle(n, x)
        PROVE  PlumtreeInvariant'
    BY <1>3, SettleKeeps
  <1>4. ASSUME NEW n \in Nodes, NEW f \in net,
               handle_eager(n, f) \/ handle_ihave(n, f) \/ handle_iwant(n, f) \/ handle_anti_entropy(n, f)
        PROVE  PlumtreeInvariant'
    BY <1>4, EagerKeeps, IhaveKeeps, IwantKeeps, DigestKeeps
  <1>5. ASSUME NEW n \in Nodes, flush_ihave_batches(n) \/ AntiEntropyTick(n) \/ DegreeTick(n)
        PROVE  PlumtreeInvariant'
    BY <1>5, FlushKeeps, TickKeeps, DegreeKeeps
  <1>6. ASSUME NEW n \in Nodes, NEW p \in Payloads, ReplayExpires(n, p)
        PROVE  PlumtreeInvariant'
    BY <1>6, ReplayExpiresKeeps
  <1> QED
    BY <1>1, <1>2, <1>3, <1>4, <1>5, <1>6 DEF Next

\* The inductive invariant holds: what a node has seen of a payload bounds how
\* often it delivered it, and tells what it may send.
THEOREM InvariantTheorem == Spec => []PlumtreeInvariant
  BY InitOK, NextOK, PTL DEF Spec

\* However many ids, senders and repair paths bring a payload, handle_eager
\* hands it to the subscribers once while it is in the replay cache.
THEOREM DeliveryTheorem == Spec => []AtMostOnce
  <1>1. PlumtreeInvariant => AtMostOnce
    BY DEF PlumtreeInvariant
  <1> QED
    BY <1>1, InvariantTheorem, PTL

\* A payload that the validator of a node drops is not in an EAGER frame of
\* that node, be it pushed, pulled or repaired, unless the node published it.
THEOREM RefusalTheorem == Spec => []RefusedStaysHome
  <1>1. PlumtreeInvariant => RefusedStaysHome
    BY DEF PlumtreeInvariant
  <1> QED
    BY <1>1, InvariantTheorem, PTL
===============================================================================
