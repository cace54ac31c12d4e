---------------------------- MODULE IwantClaims ----------------------------
(***************************************************************************)
(* Pulling messages on one topic (handle_ihave_admitted and the IWANT part *)
(* of flush_ihave_batches in crates/pubsub/src/lib.rs).  An announced id   *)
(* that the node lacks is claimed for the peer that announced it and is    *)
(* requested from it after the topic lock is released.  The outcome of the *)
(* request is booked in a second section: a request the byte budget        *)
(* deferred is kept for the flusher, a failed one leaves the claim under a *)
(* backoff, during which another peer may take it over.                    *)
(*                                                                         *)
(* A step is a section under the topic lock; several handlers and one      *)
(* flusher run at once.  Time passes in ticks up to MaxAge, the age at     *)
(* which claims and deferred requests are swept; a backoff is shorter and  *)
(* may end at any moment.                                                  *)
(***************************************************************************)
EXTENDS Naturals, Sequences, FiniteSets, SequencesExt, FiniteSetsExt

CONSTANTS
  Ids, Peers,
  Good,         \* a peer that keeps announcing and answers what it is asked
  Handlers,     \* handlers of IHAVE that may run at once
  MaxAge,       \* the age of the message cache, in ticks
  MaxClaims,    \* MAX_IHAVE_BATCH_SIZE
  MaxDeferred,  \* MAX_DEFERRED_IWANT_IDS
  MaxAnnounce   \* bound on the announcements of the other peers

VARIABLES
  state,        \* the claims, the deferred requests and the cached ids
  handler,      \* what each handler has requested and not yet booked
  flush,        \* the deferred requests the flusher has still to send
  asked,        \* ids an IWANT for which reached Good
  announced     \* announcements of the other peers so far

vars == <<state, handler, flush, asked, announced>>

NoClaim == [peer |-> "none"]
\* failed: retry_not_before is None, in the future, or past.
Claims == [peer : Peers, age : 0..MaxAge, retry_pending : BOOLEAN,
           failed : {"no", "backoff", "over"}]
Batches == {q \in UNION {[1..n -> Ids] : n \in 1..Cardinality(Ids)} : IsInjective(q)}
Deferred == [peer : Peers, ids : Batches, age : 0..MaxAge]
Idle == [peer |-> "none", ids |-> <<>>]

Held(s) == {i \in Ids : s.claim[i] # NoClaim}
DeferredIds(s) == MapThenSumSet(LAMBDA d : Len(d.ids), s.deferred)

\* Types; the claims and the deferred requests stay within their caps.
TypeOK ==
  /\ state.claim \in [Ids -> Claims \union {NoClaim}]
  /\ state.deferred \subseteq Deferred
  /\ state.cached \subseteq Ids
  /\ \A h \in Handlers : handler[h] = Idle \/ handler[h] \in [peer : Peers, ids : Batches]
  /\ Cardinality(Held(state)) <= MaxClaims
  /\ DeferredIds(state) <= MaxDeferred

Empty == [claim |-> [i \in Ids |-> NoClaim], deferred |-> {}, cached |-> {}]

Init ==
  /\ state = Empty
  /\ handler = [h \in Handlers |-> Idle]
  /\ flush = {}
  /\ asked = {}
  /\ announced = 0
-----------------------------------------------------------------------------
(* The request queue. *)

Mine(s, i, p) == s.claim[i] # NoClaim /\ s.claim[i].peer = p

\* Claims of some ids that belong to p are changed or, by NoClaim, dropped.
Book(s, ids, p, Change(_)) ==
  [s EXCEPT !.claim = [i \in Ids |->
     IF i \in Range(ids) /\ Mine(s, i, p) THEN Change(@[i]) ELSE @[i]]]
Release(s, ids, p) == Book(s, ids, p, LAMBDA c : NoClaim)

\* Mutant: the sweep drops deferred requests and keeps their claims.
PruneKeepingClaims(s) ==
  [s EXCEPT !.deferred = {d \in @ : d.age < MaxAge /\ \E i \in Range(d.ids) :
                            Mine(s, i, d.peer) /\ s.claim[i].retry_pending}]

prune_deferred_iwants(s) ==
  LET c == [i \in Ids |-> IF s.claim[i] # NoClaim /\ s.claim[i].age >= MaxAge
                          THEN NoClaim ELSE s.claim[i]]
  IN [s EXCEPT
       !.claim = c,
       !.deferred = {d \in @ : d.age < MaxAge /\ \E i \in Range(d.ids) :
                       c[i] # NoClaim /\ c[i].peer = d.peer /\ c[i].retry_pending}]

\* A deferred request is kept once; when the queue is full its claims go.
retain_deferred_iwant(s, p, ids) ==
  LET t == prune_deferred_iwants(s)
  IN CASE \E d \in t.deferred : d.peer = p /\ d.ids = ids -> t
       [] DeferredIds(t) + Len(ids) > MaxDeferred -> Release(t, ids, p)
       [] OTHER -> [t EXCEPT !.deferred = @ \union {[peer |-> p, ids |-> ids, age |-> 0]}]
-----------------------------------------------------------------------------
(* Announcements. *)

\* An id may be requested of p when nobody claims it, when p's own claim is
\* neither with the flusher nor in backoff, and when another's claim failed.
Askable(s, i, p) ==
  /\ i \notin s.cached
  /\ \/ s.claim[i] = NoClaim
     \/ Mine(s, i, p) /\ ~s.claim[i].retry_pending /\ s.claim[i].failed # "backoff"
     \/ ~Mine(s, i, p) /\ s.claim[i] # NoClaim /\ s.claim[i].failed # "no"

\* The ids of an announcement in turn; at the cap the rest is left.
Request(s, p, ids) ==
  LET step(acc, i) ==
        CASE acc.full \/ ~Askable(acc.s, i, p) -> acc
          [] i \notin Held(acc.s) /\ Cardinality(Held(acc.s)) >= MaxClaims ->
               [acc EXCEPT !.full = TRUE]
          [] OTHER ->
               [acc EXCEPT
                 !.ids = Append(@, i),
                 !.s.claim[i] = [peer |-> p, age |-> 0, retry_pending |-> FALSE,
                                 failed |-> "no"]]
  IN FoldLeft(step, [s |-> prune_deferred_iwants(s), ids |-> <<>>, full |-> FALSE], ids)

handle_ihave(h, p, ids) ==
  LET r == Request(state, p, ids)
  IN /\ handler[h] = Idle
     /\ p # Good => announced < MaxAnnounce
     /\ announced' = IF p = Good THEN announced ELSE announced + 1
     /\ state' = r.s
     /\ handler' = [handler EXCEPT ![h] = IF r.ids = <<>> THEN Idle
                                          ELSE [peer |-> p, ids |-> r.ids]]
     /\ UNCHANGED <<flush, asked>>

Reached(p, ids) == asked' = IF p = Good THEN asked \union Range(ids) ELSE asked

IwantSent(h) ==
  LET w == handler[h]
  IN /\ w # Idle
     /\ state' = Book(state, w.ids, w.peer, LAMBDA c : [c EXCEPT !.age = 0])
     /\ handler' = [handler EXCEPT ![h] = Idle]
     /\ Reached(w.peer, w.ids)
     /\ UNCHANGED <<flush, announced>>

IwantDeferred(h) ==
  LET w == handler[h]
      marked == Book(state, w.ids, w.peer, LAMBDA c : [c EXCEPT !.retry_pending = TRUE])
  IN /\ w # Idle
     /\ state' = retain_deferred_iwant(marked, w.peer, w.ids)
     /\ handler' = [handler EXCEPT ![h] = Idle]
     /\ UNCHANGED <<flush, asked, announced>>

\* The request timed out or failed.  The age of the claim goes on.
IwantFailed(h) ==
  LET w == handler[h]
  IN /\ w # Idle
     /\ w.peer # Good
     /\ state' = Book(state, w.ids, w.peer, LAMBDA c : [c EXCEPT !.failed = "backoff"])
     /\ handler' = [handler EXCEPT ![h] = Idle]
     /\ UNCHANGED <<flush, asked, announced>>
-----------------------------------------------------------------------------
(* The flusher: it takes a copy of the deferred requests, and sends and books *)
(* them one after the other.                                                  *)

FlushSnapshot ==
  LET s == prune_deferred_iwants(state)
  IN /\ flush = {}
     /\ state' = s
     /\ flush' = {[peer |-> d.peer, ids |-> d.ids] : d \in s.deferred}
     /\ UNCHANGED <<handler, asked, announced>>

FlushSent(w) ==
  /\ w \in flush
  /\ state' = Book(state, w.ids, w.peer,
                   LAMBDA c : [c EXCEPT !.retry_pending = FALSE, !.age = 0])
  /\ flush' = flush \ {w}
  /\ Reached(w.peer, w.ids)
  /\ UNCHANGED <<handler, announced>>

FlushFailed(w) ==
  /\ w \in flush
  /\ w.peer # Good
  /\ state' = Release(state, w.ids, w.peer)
  /\ flush' = flush \ {w}
  /\ UNCHANGED <<handler, asked, announced>>

\* No bytes, no admission or no permit: nothing is sent and nothing changes.
FlushRefused(w) ==
  /\ w \in flush
  /\ flush' = flush \ {w}
  /\ UNCHANGED <<state, handler, asked, announced>>
-----------------------------------------------------------------------------
(* The surroundings. *)

\* The message arrives, from whomever.
Receive(i) ==
  /\ state' = [state EXCEPT !.cached = @ \union {i}, !.claim[i] = NoClaim]
  /\ UNCHANGED <<handler, flush, asked, announced>>

\* It leaves the cache.
Evict(i) ==
  /\ i \in state.cached
  /\ state' = [state EXCEPT !.cached = @ \ {i}]
  /\ UNCHANGED <<handler, flush, asked, announced>>

\* set_topic_peers without p.
Disconnect(p) ==
  /\ p # Good
  /\ state' = [state EXCEPT
       !.claim = [i \in Ids |-> IF Mine(state, i, p) THEN NoClaim ELSE @[i]],
       !.deferred = {d \in @ : d.peer # p}]
  /\ UNCHANGED <<handler, flush, asked, announced>>

\* unsubscribe, or the topic is reaped.  The next announcement makes it anew.
RemoveTopic ==
  /\ state' = Empty
  /\ UNCHANGED <<handler, flush, asked, announced>>

iwant_retry_backoff(i) ==
  /\ state.claim[i] # NoClaim /\ state.claim[i].failed = "backoff"
  /\ state' = [state EXCEPT !.claim[i].failed = "over"]
  /\ UNCHANGED <<handler, flush, asked, announced>>

Older(x) == [x EXCEPT !.age = IF @ < MaxAge THEN @ + 1 ELSE @]

Tick ==
  /\ state' = [state EXCEPT
       !.claim = [i \in Ids |-> IF @[i] = NoClaim THEN NoClaim ELSE Older(@[i])],
       !.deferred = {Older(d) : d \in @}]
  /\ UNCHANGED <<handler, flush, asked, announced>>

Next ==
  \/ \E h \in Handlers :
       \/ \E p \in Peers, ids \in Batches : handle_ihave(h, p, ids)
       \/ IwantSent(h)
       \/ IwantDeferred(h)
       \/ IwantFailed(h)
  \/ FlushSnapshot
  \/ \E w \in flush : FlushSent(w) \/ FlushFailed(w) \/ FlushRefused(w)
  \/ \E i \in Ids : Receive(i) \/ Evict(i) \/ iwant_retry_backoff(i)
  \/ \E p \in Peers : Disconnect(p)
  \/ RemoveTopic
  \/ Tick

Spec == Init /\ [][Next]_vars
=============================================================================
