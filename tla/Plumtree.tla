------------------------------ MODULE Plumtree ------------------------------
(***************************************************************************)
(* Plumtree dissemination on one topic (crates/pubsub/src/lib.rs): EAGER   *)
(* push along the mesh, IHAVE announcements answered by IWANT pulls, the   *)
(* payload replay cache, the storm-control validator and the anti-entropy  *)
(* exchange of cached ids.                                                 *)
(*                                                                         *)
(* One action is one handler's section under the topic lock together with  *)
(* the frames it sends after it: a frame is received in a later step, and  *)
(* any frame may be lost, so nothing can be told from the delay.  How a    *)
(* reply is claimed, deferred and retried is module EagerReply.            *)
(*                                                                         *)
(* Ids and payloads differ: the same payload may be published under two    *)
(* ids (by two nodes, or by one node in two seconds).                      *)
(***************************************************************************)
EXTENDS Naturals, FiniteSets

CONSTANTS
  Nodes,
  Links,       \* pairs of nodes that are connected
  Ids,         \* message ids
  Payloads,
  Origin,      \* [Ids -> Nodes], the node that publishes an id
  Payload,     \* [Ids -> Payloads]
  Verdicts,    \* [Nodes -> SUBSET ValidationAction], what a node's validator may say
  Cold,        \* nodes that know no peer on the topic yet
  Faults,      \* what may fail: frames, cache entries, claims
  MaxFrames    \* bound on the frames in flight

ValidationAction == {"ForwardAndDeliver", "DeliverOnly", "LazyForward", "Drop"}

ASSUME PlumtreeAssumption ==
  /\ Links \subseteq Nodes \X Nodes
  /\ Origin \in [Ids -> Nodes]
  /\ Payload \in [Ids -> Payloads]
  /\ Verdicts \in [Nodes -> SUBSET ValidationAction]
  /\ Cold \subseteq Nodes
  /\ Faults \subseteq {"frame", "cache", "claim"}
  /\ MaxFrames \in Nat

VARIABLES
  topic,      \* each node's TopicState
  net,        \* frames in flight
  publishing, \* publishes between their fan-out and their second section
  validator   \* the verdict of each node's validator on each payload

\* History: the ids that were published, and how often each node handed a
\* payload to its subscribers since the payload entered its replay cache.  A
\* publish always reaches the publisher's own subscribers; it counts when the
\* payload is new, so that an echo of it would count as the second time.
VARIABLES published, delivered

vars == <<topic, net, publishing, validator, published, delivered>>

Neighbours(n) == {m \in Nodes : <<n, m>> \in Links \/ <<m, n>> \in Links}

NoClaim == [peer |-> "none"]
Claims == [peer : Nodes, failed : BOOLEAN] \union {NoClaim}

\* cache: absent, published here, received, or received and dropped by the
\* validator.  replay: whether the payload was seen, and whether the validator
\* refused it.  announce: direct IHAVE targets (lazy_withheld, stranded_ihave).
TopicStates ==
  [eager : SUBSET Nodes, lazy : SUBSET Nodes,
   cache : [Ids -> {"absent", "local", "relay", "dropped"}],
   replay : [Payloads -> {"new", "seen", "refused"}],
   pending : SUBSET Ids,
   announce : SUBSET (Ids \X Nodes),
   claim : [Ids -> Claims]]

Frames == [kind : {"EAGER", "IHAVE", "IWANT", "DIGEST"},
           from : Nodes, to : Nodes, ids : SUBSET Ids]

\* Types, and no peer is eager and lazy at once (prune_peer, graft_peer).
TypeOK ==
  /\ topic \in [Nodes -> TopicStates]
  /\ \A n \in Nodes : topic[n].eager \intersect topic[n].lazy = {}
  /\ net \subseteq Frames
  /\ publishing \subseteq [id : Ids, missed : SUBSET Nodes]
  /\ \A n \in Nodes : validator[n] \in [Payloads -> Verdicts[n]]
  /\ published \subseteq Ids
  /\ delivered \in [Nodes -> [Payloads -> 0..2]]

\* set_topic_peers has added the neighbours and grafted them, or it has yet to.
NewTopicState(known) ==
  [eager |-> known, lazy |-> {},
   cache |-> [i \in Ids |-> "absent"],
   replay |-> [p \in Payloads |-> "new"],
   pending |-> {}, announce |-> {},
   claim |-> [i \in Ids |-> NoClaim]]

Init ==
  /\ topic = [n \in Nodes |->
       NewTopicState(IF n \in Cold THEN {} ELSE Neighbours(n))]
  /\ net = {}
  /\ publishing = {}
  /\ validator \in {v \in [Nodes -> [Payloads -> ValidationAction]] :
                     \A n \in Nodes : v[n] \in [Payloads -> Verdicts[n]]}
  /\ published = {}
  /\ delivered = [n \in Nodes |-> [p \in Payloads |-> 0]]
-----------------------------------------------------------------------------
(* Parts of the handlers. *)

has_message(s, i) == s.cache[i] # "absent"
Serveable(s, i) == s.cache[i] \in {"local", "relay"}
cached_message_ids(s) == {i \in Ids : has_message(s, i)}

Frame(kind, n, m, ids) == [kind |-> kind, from |-> n, to |-> m, ids |-> ids]
Eager(n, i, peers) == {Frame("EAGER", n, m, {i}) : m \in peers}

\* A send that is refused, times out or fails, and one whose frame is lost, is
\* one whose frame is not among those that reach the wire.  The sender does not
\* always know: where it acts on the outcome, the outcome is a choice of its own.
Sends(consumed, frames) ==
  \E wire \in (IF "frame" \in Faults THEN SUBSET frames ELSE {frames}) :
    /\ net' = (net \ consumed) \union wire
    /\ Cardinality(net') <= MaxFrames

add_new_peer_lazy(s, m) ==
  IF m \in s.eager THEN s ELSE [s EXCEPT !.lazy = @ \union {m}]

\* Mutant: the peer stays eager as well.
PruneKeeps(s, m) ==
  IF m \in s.eager THEN [s EXCEPT !.lazy = @ \union {m}] ELSE s

prune_peer(s, m) ==
  IF m \in s.eager
  THEN [s EXCEPT !.eager = @ \ {m}, !.lazy = @ \union {m}]
  ELSE s

\* The meshes here stay under MIN_EAGER_DEGREE, so maintenance only grafts:
\* the lazy peers that neither cooling nor score keeps out.
maintain_degree(s, grafted) ==
  [s EXCEPT !.eager = @ \union grafted, !.lazy = @ \ grafted]

\* Mutant: only refused payloads count as seen.
ReplayOfRefused(s, p) == s.replay[p] = "refused"

is_payload_replay(s, p) == s.replay[p] # "new"

\* Mutant: a refusal is not remembered with the payload.
RefusalForgotten(s, p) == FALSE

payload_replay_was_refused(s, p) == s.replay[p] = "refused"

queue_lazy_withheld(s, i, peers) ==
  [s EXCEPT !.announce = @ \union ({i} \X peers)]

Deliver(n, p) ==
  delivered' = [delivered EXCEPT ![n][p] = IF @ < 2 THEN @ + 1 ELSE @]
-----------------------------------------------------------------------------
(* Publishing. *)

\* A node publishes: it caches the message, seeds its replay cache, delivers
\* to its own subscribers and fans out to its eager peers.
publish_local(n, i) ==
  LET s == topic[n]
      p == Payload[i]
  IN /\ i \notin published
     /\ Origin[i] = n
     /\ published' = published \union {i}
     /\ topic' = [topic EXCEPT ![n] =
          [s EXCEPT !.cache[i] = "local",
                    !.replay[p] = IF is_payload_replay(s, p) THEN @ ELSE "seen"]]
     /\ IF is_payload_replay(s, p) THEN UNCHANGED delivered ELSE Deliver(n, p)
     /\ Sends({}, Eager(n, i, s.eager))
     /\ publishing' = publishing \union
          {[id |-> i, missed |-> {m \in s.eager : Frame("EAGER", n, m, {i}) \notin net'}]}
     /\ UNCHANGED validator

\* Its second section: the id is announced to the lazy peers and, where the
\* fan-out skipped or lost them, to eager peers directly.
PublishSettle(n, x) ==
  /\ Origin[x.id] = n
  /\ x \in publishing
  /\ publishing' = publishing \ {x}
  /\ \E direct \in SUBSET x.missed :
       topic' = [topic EXCEPT ![n] =
         [topic[n] EXCEPT !.pending = @ \union {x.id},
                          !.announce = @ \union ({x.id} \X direct)]]
  /\ UNCHANGED <<net, validator, published, delivered>>
-----------------------------------------------------------------------------
(* Receiving an EAGER frame. *)

\* The id is known: the sender leaves the eager mesh, unless it is a healthy
\* preferred peer.
EagerDuplicate(n, f, i) ==
  /\ has_message(topic[n], i)
  /\ \E keep \in BOOLEAN :
       topic' = [topic EXCEPT ![n] = IF keep THEN @ ELSE prune_peer(@, f.from)]
  /\ Sends({f}, {})
  /\ UNCHANGED <<publishing, validator, published, delivered>>

Received(s, i) ==
  [s EXCEPT !.cache[i] = "relay", !.claim[i] = NoClaim]

\* A new id around a payload seen before: kept for deduplication, and refused
\* like the payload was.
EagerReplay(n, f, i) ==
  LET s == topic[n]
      p == Payload[i]
  IN /\ ~has_message(s, i)
     /\ is_payload_replay(s, p)
     /\ topic' = [topic EXCEPT ![n] =
          [Received(s, i) EXCEPT
            !.cache[i] = IF payload_replay_was_refused(s, p) THEN "dropped" ELSE @]]
     /\ Sends({f}, {})
     /\ UNCHANGED <<publishing, validator, published, delivered>>

EagerDropped(n, f, i) ==
  LET s == topic[n]
      p == Payload[i]
  IN /\ ~has_message(s, i)
     /\ ~is_payload_replay(s, p)
     /\ validator[n][p] = "Drop"
     /\ topic' = [topic EXCEPT ![n] =
          [Received(s, i) EXCEPT !.cache[i] = "dropped", !.replay[p] = "refused"]]
     /\ Sends({f}, {})
     /\ UNCHANGED <<publishing, validator, published, delivered>>

EagerAccepted(n, f, i) ==
  LET p == Payload[i]
      v == validator[n][p]
      r == [Received(topic[n], i) EXCEPT !.replay[p] = "seen"]
      q == add_new_peer_lazy(r, f.from)
  IN /\ ~has_message(topic[n], i)
     /\ ~is_payload_replay(topic[n], p)
     /\ v # "Drop"
     /\ \E grafted \in (IF q = r THEN {{}} ELSE SUBSET q.lazy) :
          LET s == maintain_degree(q, grafted)
              next == s.eager \ {f.from}
              t == IF v = "LazyForward" THEN queue_lazy_withheld(s, i, next) ELSE s
          IN /\ topic' = [topic EXCEPT ![n] =
                  [t EXCEPT
                    !.pending = IF v = "DeliverOnly" THEN @ ELSE @ \union {i}]]
             /\ Sends({f}, IF v = "ForwardAndDeliver" THEN Eager(n, i, next) ELSE {})
     /\ Deliver(n, p)
     /\ UNCHANGED <<publishing, validator, published>>

handle_eager(n, f) ==
  /\ f \in net /\ f.to = n /\ f.kind = "EAGER"
  /\ \E i \in f.ids :
       \/ EagerDuplicate(n, f, i)
       \/ EagerReplay(n, f, i)
       \/ EagerDropped(n, f, i)
       \/ EagerAccepted(n, f, i)
-----------------------------------------------------------------------------
(* Announcing and pulling. *)

\* The flusher announces a batch: the pending ids to the lazy peers and to
\* their direct targets, or ids that are no longer pending to direct targets
\* that stayed.  The batch is consumed; a direct target the announcement was
\* not handed to may stay for a later flush.  When no send was claimed, the
\* batch stays.  Between the flusher's snapshot and its sends nothing is added
\* to the announcements of a batch, so both are one step.
flush_ihave_batches(n) ==
  LET s == topic[n]
      kept == {x[1] : x \in s.announce} \ s.pending
      direct(batch) == {x[2] : x \in {y \in s.announce : y[1] \in batch}}
  IN /\ \E w \in {<<s.pending, direct(s.pending) \union s.lazy>>, <<kept, direct(kept)>>} :
          LET batch == w[1]
              frame(m) == Frame("IHAVE", n, m, batch)
          IN /\ batch # {} /\ w[2] # {}
             /\ Sends({}, {frame(m) : m \in w[2]})
             /\ \/ topic' = topic /\ \A m \in w[2] : frame(m) \notin net'
                \/ \E stay \in SUBSET {x \in s.announce :
                                         x[1] \in batch /\ frame(x[2]) \notin net'} :
                     topic' = [topic EXCEPT ![n] =
                       [s EXCEPT !.pending = @ \ batch,
                                 !.announce = {x \in @ : x[1] \notin batch} \union stay]]
     /\ UNCHANGED <<publishing, validator, published, delivered>>

\* Whether an advertised id may be asked of its advertiser: a healthy claim
\* of another peer is not taken over; a failed one is.
MayClaim(s, i, m) ==
  /\ ~has_message(s, i)
  /\ \/ s.claim[i] = NoClaim
     \/ s.claim[i].peer = m
     \/ s.claim[i] # NoClaim /\ s.claim[i].failed

\* An announcement: the ids this node lacks and may claim are requested.  A
\* request that failed leaves its claims in the failed state.
handle_ihave(n, f) ==
  LET s == topic[n]
      ask == {i \in f.ids : MayClaim(s, i, f.from)}
      waiting == {i \in ask : s.claim[i] # NoClaim /\ s.claim[i].peer = f.from
                              /\ s.claim[i].failed}
  IN /\ f \in net /\ f.to = n /\ f.kind = "IHAVE"
     /\ \E backoff \in SUBSET waiting :
          LET ids == ask \ backoff
              iwant == IF ids = {} THEN {} ELSE {Frame("IWANT", n, f.from, ids)}
          IN /\ Sends({f}, iwant)
             /\ \E failed \in (IF "claim" \in Faults THEN BOOLEAN ELSE {FALSE}) :
                  topic' = [topic EXCEPT ![n] =
                    [s EXCEPT !.claim = [i \in Ids |->
                       IF i \in ids THEN [peer |-> f.from, failed |-> failed] ELSE s.claim[i]]]]
     /\ UNCHANGED <<publishing, validator, published, delivered>>

\* A request: what is cached and was not dropped is sent.
handle_iwant(n, f) ==
  LET s == topic[n]
      serve == {i \in f.ids : Serveable(s, i)}
      q == add_new_peer_lazy(s, f.from)
  IN /\ f \in net /\ f.to = n /\ f.kind = "IWANT"
     /\ \E grafted \in SUBSET q.lazy :
          topic' = [topic EXCEPT ![n] =
            IF serve = {} THEN @ ELSE maintain_degree(q, grafted)]
     /\ Sends({f}, UNION {Eager(n, i, {f.from}) : i \in serve})
     /\ UNCHANGED <<publishing, validator, published, delivered>>
-----------------------------------------------------------------------------
(* Anti-entropy. *)

send_anti_entropy_digest(n, m) ==
  LET ids == cached_message_ids(topic[n])
  IN ids # {} /\ Sends({}, {Frame("DIGEST", n, m, ids)})

\* The task's tick picks a peer of the topic, as trigger_anti_entropy does.
AntiEntropyTick(n) ==
  /\ \E m \in topic[n].eager \union topic[n].lazy : send_anti_entropy_digest(n, m)
  /\ UNCHANGED <<topic, publishing, validator, published, delivered>>

DigestServe(n, f) ==
  LET ids == {i \in cached_message_ids(topic[n]) \ f.ids : Serveable(topic[n], i)}
  IN UNION {Eager(n, i, {f.from}) : i \in ids}

DigestAsk(n, f) ==
  LET ids == f.ids \ cached_message_ids(topic[n])
  IN IF ids = {} THEN {} ELSE {Frame("IWANT", n, f.from, ids)}

\* The receiver of a digest pushes what the sender lacks and asks for what it
\* lacks itself, without a claim.
handle_anti_entropy(n, f) ==
  /\ f \in net /\ f.to = n /\ f.kind = "DIGEST"
  /\ Sends({f}, DigestServe(n, f) \union DigestAsk(n, f))
  /\ UNCHANGED <<topic, publishing, validator, published, delivered>>
-----------------------------------------------------------------------------
(* Maintenance, bounds and losses. *)

DegreeTick(n) ==
  /\ \E grafted \in SUBSET topic[n].lazy \ {{}} :
       topic' = [topic EXCEPT ![n] = maintain_degree(@, grafted)]
  /\ UNCHANGED <<net, publishing, validator, published, delivered>>

\* A message leaves the cache by age, bytes or count.
Evict(n, i) ==
  /\ "cache" \in Faults
  /\ has_message(topic[n], i)
  /\ topic' = [topic EXCEPT ![n] = [topic[n] EXCEPT !.cache[i] = "absent"]]
  /\ UNCHANGED <<net, publishing, validator, published, delivered>>

\* A payload leaves the replay cache.
ReplayExpires(n, p) ==
  /\ "cache" \in Faults
  /\ topic[n].replay[p] # "new"
  /\ topic' = [topic EXCEPT ![n] = [topic[n] EXCEPT !.replay[p] = "new"]]
  /\ delivered' = [delivered EXCEPT ![n][p] = 0]
  /\ UNCHANGED <<net, publishing, validator, published>>

\* A claim that nothing answered is swept with the age of the cache.
ClaimExpires(n, i) ==
  /\ "claim" \in Faults
  /\ topic[n].claim[i] # NoClaim
  /\ topic' = [topic EXCEPT ![n] = [topic[n] EXCEPT !.claim[i] = NoClaim]]
  /\ UNCHANGED <<net, publishing, validator, published, delivered>>

Next ==
  \E n \in Nodes :
       \/ \E i \in Ids :
            \/ publish_local(n, i)
            \/ Evict(n, i)
            \/ ClaimExpires(n, i)
       \/ \E x \in publishing : PublishSettle(n, x)
       \/ \E f \in net :
            \/ handle_eager(n, f)
            \/ handle_ihave(n, f)
            \/ handle_iwant(n, f)
            \/ handle_anti_entropy(n, f)
       \/ flush_ihave_batches(n)
       \/ AntiEntropyTick(n)
       \/ DegreeTick(n)
       \/ \E p \in Payloads : ReplayExpires(n, p)

Spec == Init /\ [][Next]_vars
-----------------------------------------------------------------------------
(* Properties. *)

\* While a payload is in a node's replay cache, the node's subscribers get it
\* once, however many ids, senders and repair paths bring it (is_payload_replay
\* in handle_eager, seeded by publish).
AtMostOnce == \A n \in Nodes, q \in Payloads : delivered[n][q] <= 1

Own(ids, n, p) == \E i \in ids : Origin[i] = n /\ Payload[i] = p

\* A payload a node's validator drops never leaves the node, under the id it
\* came with or a later one (mark_message_dropped, refuse_payload_replays; the
\* node's own publishes are not validated).
RefusedStaysHome ==
  \A f \in net : f.kind = "EAGER" =>
    \A i \in f.ids :
      validator[f.from][Payload[i]] = "Drop" => Own(published, f.from, Payload[i])

\* The inductive invariant: why a payload is delivered once, and why a refused
\* one is not sent.  A payload that is new to the replay cache has not been
\* delivered since, and what is cached to be served, or seen and not refused,
\* is the node's own when its validator drops it.
PlumtreeInvariant ==
  /\ TypeOK /\ AtMostOnce /\ RefusedStaysHome
  /\ \A n \in Nodes, q \in Payloads :
       /\ topic[n].replay[q] = "new" => delivered[n][q] = 0
       /\ topic[n].replay[q] = "seen" /\ validator[n][q] = "Drop" => Own(published, n, q)
  /\ \A n \in Nodes, k \in Ids :
       Serveable(topic[n], k) /\ validator[n][Payload[k]] = "Drop" => Own(published, n, Payload[k])
=============================================================================
