------------------------------- MODULE Policy -------------------------------
(***************************************************************************)
(* The signer-key cache of two adjacent nodes (pubsub/src/key_cache.rs and *)
(* its callers in pubsub/src/lib.rs and compat.rs).  A frame may carry a   *)
(* reference to its signer's key instead of the key itself once both nodes *)
(* exchanged a Hello and the receiver acknowledged that key on the current *)
(* authenticated session.  A reference that cannot be resolved is held     *)
(* back while the key is requested.  Node "a" sends the data frames, node  *)
(* "b" receives them, and both run the control flusher.                    *)
(*                                                                         *)
(* link is the number of the QUIC connection, cur[n] the session token of  *)
(* node n for its peer: a reconnect renews both tokens, an eviction from   *)
(* the session registry of the transport renews one of them.               *)
(*                                                                         *)
(* The legacy migration policy of PubSub (pubsub/src/compat.rs): whether a *)
(* frame of a registered topic may leave to, or come from, a peer in the   *)
(* old version 1 envelope.  A grant is bound to one authenticated session; *)
(* it is undone by a revocation, a new verifier, the RejectV1 policy, a    *)
(* wall clock that went back, or a modern floor.  Floors are records of an *)
(* append-only journal that other processes may append to as well; the     *)
(* process can crash at any point of an append.                            *)
(***************************************************************************)
EXTENDS Integers, Sequences, SequencesExt, FiniteSets, FiniteSetsExt

CONSTANTS
  Keys,        \* signer keys (PeerId of a signer)
  MaxPending,  \* MAX_PENDING_PER_SESSION
  MaxData,     \* bound on the data frames on their way
  MaxMoves,    \* bound on reconnects
  MaxRotate,   \* bound on token renewals without a reconnect
  Evicting     \* the nodes whose resolved LRU is under pressure

CONSTANTS
  Peers,
  MaxRev,      \* bound on grant and verifier revisions
  MaxSessions, \* bound on the session tokens of a peer
  MaxCrash     \* bound on crashes

VARIABLES
  link,   \* number of the current connection
  cur,    \* [node -> session token] authenticated_session(peer)
  cache,  \* [node -> KeyCache]
  out,    \* the data frame node "a" is sending
  busy,   \* the data frame node "b" is dispatching
  ctl,    \* [node -> control the flusher is sending]
  wire,   \* frames on their way
  taught, \* keys node "b" verified on this connection (history)
  greeted \* nodes whose Hello arrived on this connection (history)

VARIABLES
  disk,     \* the journal: records on disk, a torn tail, number of writes
  floors,   \* Option<ModernFloors>: what the process read of it
  floor_failed, reject_v1,
  topic,    \* revision of the registered verifier, 0 if none
  grants,   \* [peer -> grant or NoGrant]
  revisions,\* [peer -> highest grant revision seen]
  rolled,   \* the wall clock is behind last_wall
  append,   \* the peer whose floor record is being written, under the lock
  session,  \* [peer -> token of the current authenticated session]
  queued,   \* [peer -> session of a legacy send waiting for admission, or 0]
  egress, ingress, \* [peer -> parity of the legacy frames let out and in]
  required, \* peers a floor was promised for (history)
  open,     \* [peer -> session granted and not invalidated since (history)]
  crashes

keyVars == <<link, cur, cache, out, busy, ctl, wire, taught, greeted>>

Nodes == {"a", "b"}
Other(n) == IF n = "a" THEN "b" ELSE "a"
Tokens == 1 .. (1 + MaxMoves + MaxRotate)

\* A session with no state has token 0.
SessionState(g) ==
  [gen |-> g, hello_sent |-> FALSE, hello_pending |-> FALSE, hello_received |-> FALSE,
   acks |-> {}, requests |-> {}, responses |-> {}]

\* pending[k] holds the frames waiting for k, oldest first; TRUE once a frame
\* is older than PENDING_TTL.  An entry exists while it has frames, and every
\* entry has `requested` set.
EmptyCache(keys) ==
  [resolved |-> keys, acknowledged |-> {}, announced |-> {}, session |-> SessionState(0),
   pending |-> [k \in Keys |-> <<>>], pending_frames |-> 0]

Held(c) == FoldSet(LAMBDA k, s : s + Len(c.pending[k]), 0, Keys)

-----------------------------------------------------------------------------
(* The operations of one node's cache.                                     *)

remove_pending(c, k) ==
  [c EXCEPT !.pending[k] = <<>>, !.pending_frames = @ - Len(c.pending[k])]

clear_peer(c) ==
  [FoldSet(LAMBDA k, d : remove_pending(d, k), c, Keys)
     EXCEPT !.session = SessionState(0), !.acknowledged = {}, !.announced = {}]

observe_session(c, g) ==
  IF c.session.gen = g THEN c ELSE [clear_peer(c) EXCEPT !.session = SessionState(g)]

forget_stale(c, g) == IF c.session.gen = g THEN clear_peer(c) ELSE c

supports_v3(c, g) ==
  c.session.gen = g /\ c.session.hello_sent /\ c.session.hello_received

supports_ref(c, g, k) == supports_v3(c, g) /\ <<g, k>> \in c.acknowledged

note_verified_key(c, g, k) ==
  LET novel == g # 0 /\ <<g, k>> \notin c.announced
  IN [c EXCEPT !.resolved = @ \cup {k},
               !.announced = IF g # 0 THEN @ \cup {<<g, k>>} ELSE @,
               !.session.acks = IF novel /\ c.session.gen = g THEN @ \cup {k} ELSE @]

expire(c) ==
  LET left == [k \in Keys |-> SelectSeq(c.pending[k], LAMBDA old : ~old)]
      gone == {k \in Keys : c.pending[k] # <<>> /\ left[k] = <<>>}
  IN [c EXCEPT !.pending = left,
               !.pending_frames = FoldSet(LAMBDA k, s : s + Len(left[k]), 0, Keys)
                                  + (@ - Held(c)),
               !.session.requests = @ \ gone]


queue_miss(c0, g, k) ==
  LET c == expire(c0)
  IN IF c.session.gen # g \/ Held(c) >= MaxPending THEN c
     ELSE [c EXCEPT !.pending[k] = Append(@, FALSE), !.pending_frames = @ + 1,
                    !.session.requests = IF c.pending[k] = <<>> THEN @ \cup {k} ELSE @]

queue_responses(c, g, ids) ==
  IF c.session.gen = g
  THEN [c EXCEPT !.session.responses = @ \cup (ids \cap c.resolved)] ELSE c

acknowledge(c, g, ids) ==
  IF c.session.gen = g THEN [c EXCEPT !.acknowledged = @ \cup ({g} \X ids)] ELSE c

received_hello(c, g) ==
  IF c.session.gen = g THEN [c EXCEPT !.session.hello_received = TRUE] ELSE c

\* The control the flusher takes next and the cache it leaves behind; the
\* token bucket can only delay it and is left out.
NoControl == [kind |-> "none", ids |-> {}]
next_control(c0, g) ==
  LET c == expire(c0)
      s == c.session
      take(kind, ids, d) == [control |-> [kind |-> kind, ids |-> ids], cache |-> d]
      stop == take("none", {}, c)
      entries == s.responses \cap c.resolved
  IN CASE s.gen # g \/ (~s.hello_sent /\ s.hello_pending) -> stop
       [] s.gen = g /\ ~s.hello_sent /\ ~s.hello_pending ->
            take("Hello", {}, [c EXCEPT !.session.hello_pending = TRUE])
       [] s.gen = g /\ s.hello_sent /\ ~s.hello_received -> stop
       [] OTHER ->
            IF s.requests # {}
            THEN take("Request", s.requests, [c EXCEPT !.session.requests = {}])
            ELSE IF s.responses # {}
            THEN take(IF entries = {} THEN "none" ELSE "Response", entries,
                      [c EXCEPT !.session.responses = {}])
            ELSE IF s.acks # {}
            THEN take("Ack", s.acks, [c EXCEPT !.session.acks = {}])
            ELSE stop

control_result(c, g, control, sent) ==
  LET back(kind, ids) == IF control.kind = kind /\ ~sent THEN ids \cup control.ids ELSE ids
  IN IF c.session.gen # g THEN c
     ELSE IF control.kind = "Hello"
     THEN [c EXCEPT !.session.hello_pending = FALSE,
                    !.session.hello_sent = @ \/ sent]
     ELSE [c EXCEPT !.session.requests = back("Request", @),
                    !.session.responses = back("Response", @),
                    !.session.acks = back("Ack", @)]

-----------------------------------------------------------------------------
NoFrame == [form |-> "none", key |-> CHOOSE k \in Keys : TRUE, gen |-> 0, stage |-> "idle"]

DataKinds == {"legacy", "full", "ref"}
Data(form, k, conn) == [to |-> "b", kind |-> form, ids |-> {k}, conn |-> conn]
Control(n, control) == [to |-> n, kind |-> control.kind, ids |-> control.ids, conn |-> link]

\* Node "a" knows every key it forwards and the two nodes are connected.
KeyInit ==
  /\ link = 1
  /\ cur = [n \in Nodes |-> 1]
  /\ cache = [n \in Nodes |-> EmptyCache(IF n = "a" THEN Keys ELSE {})]
  /\ out = NoFrame /\ busy = NoFrame
  /\ ctl = [n \in Nodes |-> [gen |-> 0, control |-> NoControl]]
  /\ wire = {} /\ taught = {} /\ greeted = {}

\* wire_bytes_for_peer: the form of a frame is chosen before it queues for
\* admission; a Critical frame never becomes a reference.
Encode(k, critical) ==
  LET c == observe_session(cache["a"], cur["a"])
      form == IF ~supports_v3(c, cur["a"]) THEN "legacy"
              ELSE IF ~critical /\ supports_ref(c, cur["a"], k) THEN "ref" ELSE "full"
  IN /\ out = NoFrame
     /\ cache' = [cache EXCEPT !["a"] = c]
     /\ out' = [form |-> form, key |-> k, gen |-> 0, stage |-> "encoded"]
     /\ UNCHANGED <<link, cur, busy, ctl, wire, taught, greeted>>

\* PolicyTransport::send_to_peer: an encoded frame is checked once more
\* against the session that is current when it is sent.
SendCheck ==
  LET c == cache["a"]
      ok == \/ out.form = "legacy"
            \/ out.form = "full" /\ supports_v3(c, cur["a"])
            \/ out.form = "ref" /\ supports_ref(c, cur["a"], out.key)
  IN /\ out.stage = "encoded"
     /\ out' = IF ok THEN [out EXCEPT !.gen = cur["a"], !.stage = "admitting"] ELSE NoFrame
     /\ UNCHANGED <<link, cur, cache, busy, ctl, wire, taught, greeted>>

\* The guarded send runs its closure on the connection that carries the
\* frame: a v3 frame is refused when the session changed while it waited.
Transmit ==
  /\ out.stage = "admitting"
  /\ Cardinality({m \in wire : m.kind \in DataKinds}) < MaxData
  /\ out' = NoFrame
  /\ wire' = IF out.form = "legacy" \/ out.gen = cur["a"]
             THEN wire \cup {Data(out.form, out.key, link)} ELSE wire
  /\ UNCHANGED <<link, cur, cache, busy, ctl, taught, greeted>>

\* handle_authenticated_message and the v3 part of dispatch_message: a frame
\* of an older connection has no session and only a legacy frame can do
\* without one.  A frame whose id was seen before teaches nothing.
ReceiveData(m, duplicate) ==
  LET g == IF m.conn = link THEN cur["b"] ELSE 0
      c == IF g # 0 THEN observe_session(cache["b"], g) ELSE cache["b"]
      k == CHOOSE x \in m.ids : TRUE
      hit == m.kind # "ref" \/ k \in c.resolved
  IN /\ busy = NoFrame
     /\ m \in wire /\ m.kind \in DataKinds
     /\ wire' = wire \ {m}
     /\ cache' = [cache EXCEPT !["b"] = c]
     /\ busy' = IF hit /\ duplicate THEN NoFrame
                ELSE [form |-> m.kind, key |-> k, gen |-> g,
                      stage |-> IF hit THEN "verified" ELSE "missed"]
     /\ UNCHANGED <<link, cur, out, ctl, taught, greeted>>

\* The signature held: note_verified_inbound_key.
Verified ==
  /\ busy.stage = "verified"
  /\ cache' = [cache EXCEPT !["b"] = note_verified_key(@, busy.gen, busy.key)]
  /\ taught' = taught \cup {busy.key}
  /\ busy' = NoFrame
  /\ UNCHANGED <<link, cur, out, ctl, wire, greeted>>

\* The lookup missed: the frame is queued under a second lock.
Missed ==
  /\ busy.stage = "missed"
  /\ cache' = [cache EXCEPT !["b"] = queue_miss(@, busy.gen, busy.key)]
  /\ busy' = NoFrame
  /\ UNCHANGED <<link, cur, out, ctl, wire, taught, greeted>>

\* handle_key_cache_control.  Frames that waited for a key of a Response are
\* dispatched again.
ReceiveControl(m) ==
  LET n == m.to
      g == cur[n]
      c == observe_session(cache[n], g)
      asked == {k \in m.ids : c.pending[k] # <<>>}
  IN /\ m \in wire /\ m.kind \in {"Hello", "Ack", "Request", "Response"}
     /\ cache' = [cache EXCEPT ![n] =
          CASE m.kind = "Hello" -> received_hello(c, g)
            [] m.kind = "Ack" -> acknowledge(c, g, m.ids)
            [] m.kind = "Request" -> queue_responses(c, g, m.ids)
            [] m.kind = "Response" ->
                 FoldSet(LAMBDA k, d : remove_pending(note_verified_key(d, 0, k), k), c, asked)]
     /\ wire' = (wire \ {m}) \cup
          (IF m.kind = "Response" THEN {Data("ref", k, link) : k \in asked} ELSE {})
     /\ greeted' = IF m.kind = "Hello" THEN greeted \cup {Other(n)} ELSE greeted
     /\ UNCHANGED <<link, cur, out, busy, ctl, taught>>

\* spawn_key_cache_control_flusher: stale sessions are forgotten, the next
\* control of a current one is taken out of the cache.
FlushControl(n) ==
  LET g == cache[n].session.gen
      next == next_control(cache[n], g)
  IN /\ ctl[n].control = NoControl
     /\ g # 0
     /\ IF g # cur[n]
        THEN cache' = [cache EXCEPT ![n] = forget_stale(@, g)] /\ UNCHANGED ctl
        ELSE /\ cache' = [cache EXCEPT ![n] = next.cache]
             /\ ctl' = [ctl EXCEPT ![n] = [gen |-> g, control |-> next.control]]
     /\ UNCHANGED <<link, cur, out, busy, wire, taught, greeted>>

\* send_key_cache_control and control_result; a send can fail on a session
\* that is still current.
ControlSent(n, sent) ==
  /\ ctl[n].control # NoControl
  /\ sent => ctl[n].gen = cur[n]
  /\ wire' = IF sent THEN wire \cup {Control(Other(n), ctl[n].control)} ELSE wire
  /\ cache' = [cache EXCEPT ![n] = control_result(@, ctl[n].gen, ctl[n].control, sent)]
  /\ ctl' = [ctl EXCEPT ![n] = [gen |-> 0, control |-> NoControl]]
  /\ UNCHANGED <<link, cur, out, busy, taught, greeted>>

\* Frames held for a key grow older than PENDING_TTL.
Age(k) ==
  /\ FALSE \in Range(cache["b"].pending[k])
  /\ cache' = [cache EXCEPT !["b"].pending[k] = [i \in DOMAIN @ |-> TRUE]]
  /\ UNCHANGED <<link, cur, out, busy, ctl, wire, taught, greeted>>

\* Other keys push k out of the resolved LRU.
Evict(n, k) ==
  /\ n \in Evicting /\ k \in cache[n].resolved
  /\ cache' = [cache EXCEPT ![n].resolved = @ \ {k}]
  /\ UNCHANGED <<link, cur, out, busy, ctl, wire, taught, greeted>>

\* A new connection: both transports hand out new tokens.  v3 frames and
\* controls of the old connection have no current session any more; a legacy
\* frame keeps its way without one.
Reconnect ==
  /\ link <= MaxMoves
  /\ link' = link + 1
  /\ cur' = [n \in Nodes |-> cur[n] + 1]
  /\ wire' = {m \in wire : m.kind = "legacy"}
  /\ taught' = {} /\ greeted' = {}
  /\ UNCHANGED <<cache, out, busy, ctl>>

\* The session registry of n evicted its peer and hands out a new token for
\* the same connection.  Frames n had already stamped are stale.
Rotate(n, stamped) ==
  /\ cur["a"] + cur["b"] < 2 * link + MaxRotate
  /\ stamped \subseteq {m \in wire : m.to = n}
  /\ cur' = [cur EXCEPT ![n] = @ + 1]
  /\ wire' = wire \ stamped
  /\ UNCHANGED <<link, cache, out, busy, ctl, taught, greeted>>

KeyNext ==
  \/ \E k \in Keys, critical \in BOOLEAN : Encode(k, critical)
  \/ SendCheck
  \/ Transmit
  \/ \E m \in wire, duplicate \in BOOLEAN : ReceiveData(m, duplicate)
  \/ Verified
  \/ Missed
  \/ \E m \in wire : ReceiveControl(m)
  \/ \E n \in Nodes : FlushControl(n)
  \/ \E n \in Nodes, sent \in BOOLEAN : ControlSent(n, sent)
  \/ \E k \in Keys : Age(k)
  \/ \E n \in Nodes, k \in Keys : Evict(n, k)
  \/ Reconnect
  \/ \E n \in Nodes : \E stamped \in SUBSET wire : Rotate(n, stamped)

-----------------------------------------------------------------------------
SessionType(s) ==
  /\ s.gen \in Tokens \cup {0}
  /\ {s.hello_sent, s.hello_pending, s.hello_received} \subseteq BOOLEAN
  /\ s.acks \cup s.requests \cup s.responses \subseteq Keys

\* The type of the state, with the bound of the frames held for a session.
KeyTypeOK ==
  /\ link \in 1 .. (MaxMoves + 1)
  /\ cur \in [Nodes -> Tokens]
  /\ \A n \in Nodes :
       /\ cache[n].resolved \subseteq Keys
       /\ cache[n].acknowledged \cup cache[n].announced \subseteq Tokens \X Keys
       /\ SessionType(cache[n].session)
       /\ Held(cache[n]) <= MaxPending
       /\ ctl[n].control.ids \subseteq Keys
  /\ out.stage \in {"idle", "encoded", "admitting"}
  /\ busy.stage \in {"idle", "verified", "missed"}
  /\ taught \subseteq Keys /\ greeted \subseteq Nodes

\* A reference is only on its way when both Hellos arrived on this connection
\* and the receiver verified that very key on it (key_cache.rs supports_ref
\* and the checks of PolicyTransport::send_to_peer).
RefsUnderstood ==
  \A m \in wire : m.kind = "ref" => m.ids \subseteq taught /\ greeted = Nodes

\* The global count of held frames is the number of frames that are held, so
\* that neither a reconnect nor a timeout eats into MAX_PENDING_GLOBAL
\* (KeyCache::pending_frames).
PendingExact == \A n \in Nodes : cache[n].pending_frames = Held(cache[n])

\* Somebody still has to act on the request for k: it is queued, being sent or
\* on its way, or its answer is.
Outstanding(k) ==
  \/ k \in cache["b"].session.requests
  \/ ctl["b"].control.kind = "Request" /\ k \in ctl["b"].control.ids
  \/ \E m \in wire : m.kind \in {"Request", "Response"} /\ k \in m.ids
  \/ k \in cache["a"].session.responses
  \/ ctl["a"].control.kind = "Response" /\ k \in ctl["a"].control.ids

\* Frames of the current session wait for a key only while its request is
\* outstanding, whatever happens to the sessions and the sends in between
\* (KeyCache::queue_miss, next_control, control_result).
AskedFor ==
  cache["b"].session.gen = cur["b"] =>
    \A k \in Keys : cache["b"].pending[k] # <<>> => Outstanding(k)

-----------------------------------------------------------------------------
policy == <<floors, floor_failed, reject_v1, topic, grants, revisions>>
history == <<required, open>>
legacyVars == <<disk, policy, rolled, append, session, queued, egress, ingress, history, crashes>>

NoGrant == [session |-> 0, verifier |-> 0, expired |-> FALSE]
NoFloors == [present |-> FALSE, peers |-> {}, stamp |-> 0]
NoPeer == "no peer"
NoGrants == [p \in Peers |-> NoGrant]
Nothing == [p \in Peers |-> 0]

LegacyInit ==
  /\ disk = [peers |-> {}, torn |-> FALSE, stamp |-> 1]
  /\ floors = NoFloors /\ floor_failed = FALSE /\ reject_v1 = FALSE
  /\ topic = 0 /\ grants = NoGrants /\ revisions = Nothing
  /\ rolled = FALSE /\ append = NoPeer
  /\ session = [p \in Peers |-> 1] /\ queued = Nothing
  /\ egress = Nothing /\ ingress = Nothing
  /\ required = {} /\ open = Nothing /\ crashes = 0

\* Every operation of the policy takes the lock of its state.
Unlocked == append = NoPeer

-----------------------------------------------------------------------------
(* Floors.                                                                 *)

\* ModernFloors::refresh: the journal is decoded again when its stamp
\* changed, must be whole, and must hold what was read before.
RefreshOk(f) == f.stamp = disk.stamp \/ (~disk.torn /\ f.peers \subseteq disk.peers)
\* Mutant: the journal is read once.
RefreshOnce(f) == f

refresh(f) == IF f.stamp = disk.stamp THEN f ELSE [f EXCEPT !.peers = disk.peers, !.stamp = disk.stamp]

\* ModernFloors::open and install_floors, once in the life of a process.
InstallFloors ==
  /\ Unlocked
  /\ ~floors.present /\ ~floor_failed /\ ~disk.torn
  /\ floors' = [present |-> TRUE, peers |-> disk.peers, stamp |-> disk.stamp]
  /\ UNCHANGED <<disk, floor_failed, reject_v1, topic, grants, revisions, rolled, append,
                 session, queued, egress, ingress, history, crashes>>

\* require_v2, up to the write of the record: the grants of the peer go
\* whether the floor can be stored or not, and a journal that cannot be read
\* fails the store.
RequireV2(p) ==
  /\ Unlocked /\ floors.present
  /\ grants' = [grants EXCEPT ![p] = NoGrant]
  /\ open' = [open EXCEPT ![p] = 0]
  /\ IF ~RefreshOk(floors)
     THEN floor_failed' = TRUE /\ UNCHANGED <<floors, append, required>>
     ELSE /\ UNCHANGED floor_failed
          /\ IF p \in refresh(floors).peers
             THEN /\ floors' = refresh(floors)
                  /\ required' = required \cup {p} /\ UNCHANGED append
             ELSE /\ floors' = [refresh(floors) EXCEPT !.stamp = 0]
                  /\ append' = p /\ UNCHANGED required
  /\ UNCHANGED <<disk, reject_v1, topic, revisions, rolled, session, queued, egress, ingress,
                 crashes>>


\* The record is written and synced, or the write fails half way.
Synced(ok) ==
  /\ append # NoPeer
  /\ append' = NoPeer
  /\ disk' = [disk EXCEPT !.stamp = @ + 1, !.torn = @ \/ ~ok,
                          !.peers = IF ok /\ ~disk.torn THEN @ \cup {append} ELSE @]
  /\ floors' = IF ok THEN [floors EXCEPT !.peers = @ \cup {append}] ELSE floors
  /\ floor_failed' = (floor_failed \/ ~ok)
  /\ required' = IF ok THEN required \cup {append} ELSE required
  /\ UNCHANGED <<reject_v1, topic, grants, revisions, rolled, session, queued, egress,
                 ingress, open, crashes>>

\* Another process of this host appends a floor record.
ExternalAppend(p) ==
  /\ p \notin disk.peers /\ ~disk.torn
  /\ disk' = [disk EXCEPT !.peers = @ \cup {p}, !.stamp = @ + 1]
  /\ required' = required \cup {p}
  /\ UNCHANGED <<policy, rolled, append, session, queued, egress, ingress, open, crashes>>

\* A crash drops everything in memory, and the new process numbers its
\* sessions from the start.  A record that was being written is
\* lost, torn or complete.
Crash ==
  /\ crashes < MaxCrash
  /\ crashes' = crashes + 1
  /\ \/ disk' = disk
     \/ append # NoPeer /\ disk' = [disk EXCEPT !.torn = TRUE, !.stamp = @ + 1]
     \/ append # NoPeer /\ ~disk.torn
        /\ disk' = [disk EXCEPT !.peers = @ \cup {append}, !.stamp = @ + 1]
  /\ floors' = NoFloors /\ floor_failed' = FALSE /\ reject_v1' = FALSE
  /\ topic' = 0 /\ grants' = NoGrants /\ revisions' = Nothing
  /\ append' = NoPeer /\ queued' = Nothing /\ open' = Nothing
  /\ session' = [p \in Peers |-> 1]
  /\ UNCHANGED <<rolled, egress, ingress, required>>

-----------------------------------------------------------------------------
(* Grants.                                                                 *)

\* check_clock and check_floors, in the order grant() and permitted() call
\* them; each failure drops every grant.
Checked == ~rolled /\ floors.present /\ ~floor_failed /\ RefreshOk(floors)
FloorsFail == ~rolled /\ floors.present /\ ~floor_failed /\ ~RefreshOk(floors)

register(rev) ==
  /\ Unlocked /\ rev > topic
  /\ topic' = rev /\ grants' = NoGrants /\ open' = Nothing
  /\ UNCHANGED <<disk, floors, floor_failed, reject_v1, revisions, rolled, append, session,
                 queued, egress, ingress, required, crashes>>

\* Mutant: a grant may be issued again with the revision it had.
GrantReplayed(p, s, rev) ==
  /\ Unlocked /\ ~reject_v1 /\ topic # 0 /\ Checked
  /\ p \notin refresh(floors).peers
  /\ grants' = [grants EXCEPT ![p] = [session |-> s, verifier |-> topic, expired |-> FALSE]]
  /\ revisions' = [revisions EXCEPT ![p] = rev]
  /\ floors' = refresh(floors)
  /\ open' = [open EXCEPT ![p] = s]
  /\ UNCHANGED <<disk, floor_failed, reject_v1, topic, rolled, append, session, queued,
                 egress, ingress, required, crashes>>

\* grant(): bound to a session of the peer, with a revision above every
\* earlier one.
grant(p, s, rev) ==
  /\ Unlocked /\ ~reject_v1 /\ topic # 0
  /\ s <= session[p]
  /\ \/ /\ Checked
        /\ p \notin refresh(floors).peers /\ rev > revisions[p]
        /\ grants' = [grants EXCEPT ![p] =
             [session |-> s, verifier |-> topic, expired |-> FALSE]]
        /\ revisions' = [revisions EXCEPT ![p] = rev]
        /\ floors' = refresh(floors)
        /\ open' = [open EXCEPT ![p] = s]
        /\ UNCHANGED floor_failed
     \/ /\ rolled \/ FloorsFail
        /\ grants' = NoGrants /\ open' = Nothing
        /\ floor_failed' = (floor_failed \/ FloorsFail)
        /\ UNCHANGED <<floors, revisions>>
  /\ UNCHANGED <<disk, reject_v1, topic, rolled, append, session, queued, egress, ingress,
                 required, crashes>>

revoke(p, rev) ==
  /\ Unlocked /\ rev > revisions[p]
  /\ revisions' = [revisions EXCEPT ![p] = rev]
  /\ grants' = [grants EXCEPT ![p] = NoGrant]
  /\ open' = [open EXCEPT ![p] = 0]
  /\ UNCHANGED <<disk, floors, floor_failed, reject_v1, topic, rolled, append, session,
                 queued, egress, ingress, required, crashes>>

set_signature_policy(reject) ==
  /\ Unlocked /\ reject # reject_v1
  /\ reject_v1' = reject
  /\ grants' = IF reject THEN NoGrants ELSE grants
  /\ open' = IF reject THEN Nothing ELSE open
  /\ UNCHANGED <<disk, floors, floor_failed, topic, revisions, rolled, append, session,
                 queued, egress, ingress, required, crashes>>

\* The deadline of a grant passes.
Expire(p) ==
  /\ grants[p] # NoGrant /\ ~grants[p].expired
  /\ grants' = [grants EXCEPT ![p].expired = TRUE]
  /\ open' = [open EXCEPT ![p] = 0]
  /\ UNCHANGED <<disk, floors, floor_failed, reject_v1, topic, revisions, rolled, append,
                 session, queued, egress, ingress, required, crashes>>

\* The wall clock goes back behind last_wall, or catches up with it.
ClockMoves ==
  /\ rolled' = ~rolled
  /\ UNCHANGED <<disk, policy, append, session, queued, egress, ingress, history, crashes>>

ReconnectPeer(p) ==
  /\ session[p] < MaxSessions
  /\ session' = [session EXCEPT ![p] = @ + 1]
  /\ UNCHANGED <<disk, policy, rolled, append, queued, egress, ingress, history, crashes>>

-----------------------------------------------------------------------------
(* Frames.                                                                 *)

\* Mutant: a grant holds for every session of its peer.
PermittedAnySession(p, s) ==
  /\ ~reject_v1 /\ ~rolled
  /\ grants[p] # NoGrant /\ ~grants[p].expired /\ grants[p].verifier = topic
  /\ Checked /\ p \notin refresh(floors).peers

permitted(p, s) ==
  /\ ~reject_v1 /\ ~rolled
  /\ grants[p] # NoGrant /\ ~grants[p].expired
  /\ grants[p].session = s /\ grants[p].verifier = topic
  /\ Checked /\ p \notin refresh(floors).peers

\* What a call of permitted() leaves behind: an expired grant is removed, a
\* clock that went back or a journal that fails drops every grant.
Judge(p, s) ==
  LET kept == IF grants[p].expired THEN [grants EXCEPT ![p] = NoGrant] ELSE grants
      asked == kept[p] # NoGrant /\ kept[p].session = s /\ kept[p].verifier = topic
      fails == ~reject_v1 /\ asked /\ FloorsFail
      drops == ~reject_v1 /\ (rolled \/ fails)
  IN /\ grants' = IF drops THEN NoGrants ELSE kept
     /\ open' = IF drops THEN Nothing ELSE open
     /\ floor_failed' = (floor_failed \/ fails)
     /\ floors' = IF ~reject_v1 /\ asked /\ Checked THEN refresh(floors) ELSE floors

\* send(): the envelope version is decided before the frame queues for the
\* connection; a refused peer gets version 2.
SendLegacy(p) ==
  /\ Unlocked /\ topic # 0 /\ queued[p] = 0 /\ grants[p] # NoGrant
  /\ Judge(p, session[p])
  /\ queued' = [queued EXCEPT ![p] = IF permitted(p, session[p]) THEN session[p] ELSE 0]
  /\ UNCHANGED <<disk, reject_v1, topic, revisions, rolled, append, session, egress, ingress,
                 required, crashes>>

\* Mutant: the policy is not asked again when the frame is admitted.
AdmitUnasked(p) ==
  /\ queued[p] # 0
  /\ queued' = [queued EXCEPT ![p] = 0]
  /\ egress' = IF queued[p] = session[p] THEN [egress EXCEPT ![p] = 1 - @] ELSE egress
  /\ UNCHANGED <<disk, policy, rolled, append, session, ingress, history, crashes>>

\* The closure of send_to_peer_guarded: it runs on the connection that will
\* carry the frame, provided that is still the one the send was queued on.
Admit(p) ==
  /\ queued[p] # 0
  /\ queued' = [queued EXCEPT ![p] = 0]
  /\ IF queued[p] # session[p]
     THEN UNCHANGED <<grants, open, floor_failed, floors, egress>>
     ELSE /\ Unlocked
          /\ Judge(p, session[p])
          /\ egress' = IF permitted(p, session[p]) THEN [egress EXCEPT ![p] = 1 - @] ELSE egress
  /\ UNCHANGED <<disk, reject_v1, topic, revisions, rolled, append, session, ingress,
                 required, crashes>>

\* ingress() of a version 1 frame on the current session.
Ingress(p) ==
  /\ Unlocked /\ topic # 0
  /\ Judge(p, session[p])
  /\ ingress' = IF permitted(p, session[p]) THEN [ingress EXCEPT ![p] = 1 - @] ELSE ingress
  /\ UNCHANGED <<disk, reject_v1, topic, revisions, rolled, append, session, queued, egress,
                 required, crashes>>

LegacyNext ==
  \/ InstallFloors
  \/ \E p \in Peers : RequireV2(p)
  \/ \E ok \in BOOLEAN : Synced(ok)
  \/ \E p \in Peers : ExternalAppend(p)
  \/ Crash
  \/ \E rev \in 1 .. MaxRev : register(rev)
  \/ \E p \in Peers, s \in 1 .. MaxSessions, rev \in 1 .. MaxRev : grant(p, s, rev)
  \/ \E p \in Peers, rev \in 1 .. MaxRev : revoke(p, rev)
  \/ \E reject \in BOOLEAN : set_signature_policy(reject)
  \/ \E p \in Peers : Expire(p)
  \/ ClockMoves
  \/ \E p \in Peers : ReconnectPeer(p)
  \/ \E p \in Peers : SendLegacy(p)
  \/ \E p \in Peers : Admit(p)
  \/ \E p \in Peers : Ingress(p)

-----------------------------------------------------------------------------
\* The type of the state; a peer whose record is on disk keeps it.
LegacyTypeOK ==
  /\ disk.peers \subseteq Peers /\ disk.torn \in BOOLEAN /\ disk.stamp \in Nat
  /\ floors.peers \subseteq Peers /\ {floor_failed, reject_v1, rolled} \subseteq BOOLEAN
  /\ topic \in 0 .. MaxRev /\ revisions \in [Peers -> 0 .. MaxRev]
  /\ \A p \in Peers : grants[p].session \in 0 .. MaxSessions /\ grants[p].verifier \in 0 .. MaxRev
  /\ append \in Peers \cup {NoPeer}
  /\ session \in [Peers -> 1 .. MaxSessions] /\ queued \in [Peers -> 0 .. MaxSessions]
  /\ egress \in [Peers -> 0 .. 1] /\ ingress \in [Peers -> 0 .. 1]

\* A version 1 frame passes in either direction only on the session of a grant
\* that nothing has invalidated since it was issued, even when the send was
\* queued before the revocation, the new verifier, the RejectV1 policy, the
\* expiry or the reconnect (LegacyMigration::permitted, the admission closure
\* of LegacyMigration::send).
LegacyOnlyWhileGrantedStep ==
  \A p \in Peers :
    egress'[p] # egress[p] \/ ingress'[p] # ingress[p] => open[p] = session[p]

\* LegacyOnlyWhileGrantedStep, of every step.
LegacyOnlyWhileGranted == [][LegacyOnlyWhileGrantedStep]_legacyVars

\* Once a floor was promised for a peer no version 1 frame passes any more, in
\* this process or in a later one, whoever wrote the record
\* (ModernFloors::require_v2 and refresh).
FloorHoldsStep ==
  \A p \in required :
    egress'[p] = egress[p] /\ ingress'[p] = ingress[p]

\* A promised floor survives a crash: its record is on disk, unless a torn
\* record ends the use of the journal altogether.
FloorDurable == required \subseteq disk.peers \/ disk.torn

\* Within the life of a process the revision of a peer never goes back, and a
\* new grant always carries a higher one (grant, revoke).
NoReplayStep ==
  crashes' = crashes =>
    \A p \in Peers :
      /\ revisions'[p] >= revisions[p]
      /\ grants'[p] # NoGrant /\ grants'[p].session # grants[p].session
           => revisions'[p] > revisions[p]

-----------------------------------------------------------------------------
(* Both parts. *)

vars == <<keyVars, legacyVars>>

Init == KeyInit /\ LegacyInit

Next ==
  \/ KeyNext /\ UNCHANGED legacyVars
  \/ LegacyNext /\ UNCHANGED keyVars

Spec == Init /\ [][Next]_vars
=============================================================================
