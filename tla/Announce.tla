------------------------------ MODULE Announce ------------------------------
(***************************************************************************)
(* How one node announces what it holds on one topic, and how it recovers  *)
(* a publish that reached nobody (publish_local, the tail of handle_eager, *)
(* flush_ihave_batches and retry_stranded_publish in                       *)
(* crates/pubsub/src/lib.rs).  Ids wait in pending_ihave for the flusher,  *)
(* which announces them to the lazy peers, to the eager peers whose copy   *)
(* was withheld, and to the peers a stranded publish attempted.  The       *)
(* flusher takes a snapshot under the lock, sends without it, and consumes *)
(* the batch in a later section; a shutdown may abort it in between.       *)
(*                                                                         *)
(* A step is a section under the topic lock.  Which peers a send reaches   *)
(* is up to SendPath.  The caps of the entry lists are not reached; that   *)
(* of pending_ihave is.                                                    *)
(*                                                                         *)
(* What this node published before a peer joined a topic is offered to it  *)
(* page by page (late_local_offers in crates/pubsub/src/lib.rs).  An offer *)
(* is a cutoff and a cursor into the local messages in the cache; a flush  *)
(* tick picks a few offers from a ring, selects a page for each under the  *)
(* topic lock, sends it without the lock, and pages the offer forward in a *)
(* later section.  The peer may leave, and come back with a new offer, in  *)
(* between.                                                                *)
(*                                                                         *)
(* The ids of local messages are numbered in the order of publication, so  *)
(* that an id stands for its (inserted_at, id) key; peers are numbered in  *)
(* the order of the ring.                                                  *)
(***************************************************************************)
EXTENDS Naturals, Sequences, FiniteSets, SequencesExt, FiniteSetsExt

CONSTANTS
  Local, Relayed, \* ids published by this node, and ids it relays
  Peers,
  MaxPending,     \* MAX_PENDING_IHAVE
  Enforcing,      \* whether the byte limiter sheds (ShedNormal)
  MaxMoves        \* changes of the mesh

CONSTANTS
  NPeers,    \* peers 1 .. NPeers
  MaxIds,    \* local publishes
  Page,      \* MAX_IHAVE_BATCH_SIZE
  PerFlush,  \* MAX_LATE_LOCAL_OFFERS_PER_FLUSH
  MaxOffers, \* MAX_LATE_LOCAL_OFFERS
  MaxJoins,  \* joins of any peer
  Stuck      \* peers for which no send is ever claimed

VARIABLES
  mesh,       \* the eager and the lazy peers, and the changes left
  cached,     \* ids in the message cache
  pending,    \* pending_ihave
  advertised, \* ihave_advertised
  withheld,   \* lazy_withheld, by id
  stranded,   \* stranded_ihave, by id
  fanout,     \* the publish or relay of each id
  flush,      \* the work the flusher has still to do
  retry,      \* the retry of each stranded publish
  owed,       \* history: skipped peers of a local publish not yet told
  unsent,     \* history: pending ids no flush has sent yet
  offered,    \* history: peers queued for an announcement no flush has taken up
  outcomes    \* history: terminal outcomes of each retry

VARIABLES
  published, live, \* ids published, and those of them still cached
  joined, joins,
  offers,          \* late_local_offers
  last_served,     \* where the ring stands
  picks, page,     \* the flush tick: offers still to be looked at, page being sent
  tried        \* history: ids sent, successfully or not, to each peer

state == <<mesh, cached, pending, advertised, withheld, stranded>>
history == <<owed, unsent, offered, outcomes>>
announceVars == <<state, fanout, flush, retry, history>>

AllIds == Local \union Relayed
None == [targets |-> {}, entry |-> FALSE]
New == [stage |-> "new"]
Done == [stage |-> "done"]
Idle == [stage |-> "idle"]

Withheld == [entry : {TRUE}, targets : SUBSET Peers, served : SUBSET Peers,
             cold : BOOLEAN, retain : {"no", "until", "over"}]
Stranded == [entry : {TRUE}, targets : SUBSET Peers, served : SUBSET Peers,
             advertised : SUBSET Peers, delivered : BOOLEAN, expired : BOOLEAN]

\* Types; pending_ihave stays within its cap and the two halves of the mesh
\* are disjoint.
AnnounceTypeOK ==
  /\ mesh \in [eager : SUBSET Peers, lazy : SUBSET Peers, moves : 0 .. MaxMoves]
  /\ mesh.eager \intersect mesh.lazy = {}
  /\ pending \in Seq(AllIds) /\ Len(pending) <= MaxPending
  /\ \A i \in AllIds : withheld[i] = None \/ withheld[i] \in Withheld
  /\ \A i \in AllIds : stranded[i] = None \/ stranded[i] \in Stranded

AnnounceInit ==
  /\ mesh \in {[eager |-> e, lazy |-> Peers \ e, moves |-> MaxMoves] : e \in SUBSET Peers}
  /\ cached = {}
  /\ pending = <<>>
  /\ advertised = {}
  /\ withheld = [i \in AllIds |-> None]
  /\ stranded = [i \in AllIds |-> None]
  /\ fanout = [i \in AllIds |-> New]
  /\ flush = <<>>
  /\ retry = [i \in AllIds |-> Idle]
  /\ owed = {} /\ unsent = {} /\ offered = {}
  /\ outcomes = [i \in AllIds |-> 0]

Members == mesh.eager \union mesh.lazy
Pairs(is, ps) == is \X ps
Of(i, pairs) == {x \in pairs : x[1] = i}
InFlight == UNION {Pairs(work.batch, work.targets) : work \in Range(flush)}

-----------------------------------------------------------------------------
(* The queues.                                                             *)

\* Mutant: the queue has no cap.
PushUncapped(i) ==
  /\ pending' = Append(pending, i)
  /\ unsent' = unsent \union {i}
  /\ UNCHANGED advertised

\* An id that overflows takes its bookkeeping of handoffs with it.
push_pending_ihave(i) ==
  LET full == Len(pending) >= MaxPending
  IN /\ pending' = Append(IF full THEN Tail(pending) ELSE pending, i)
     /\ advertised' = IF full THEN advertised \ Of(Head(pending), advertised) ELSE advertised
     /\ unsent' = (unsent \ (IF full THEN {Head(pending)} ELSE {})) \union {i}

Overflowed == IF Len(pending) >= MaxPending THEN {Head(pending)} ELSE {}

queue_lazy_withheld(w, i, peers, cold) ==
  IF peers = {} /\ ~cold THEN w
  ELSE IF w[i] = None
       THEN [w EXCEPT ![i] = [entry |-> TRUE, targets |-> peers, served |-> {},
                              cold |-> cold, retain |-> "no"]]
       ELSE [w EXCEPT ![i].targets = @ \union peers, ![i].cold = @ \/ cold]

queue_retained_announce(w, i, peers) ==
  IF peers = {} THEN w
  ELSE [queue_lazy_withheld(w, i, peers, FALSE) EXCEPT ![i].retain = "until"]

queue_stranded_ihave(i, peers) ==
  stranded' = [stranded EXCEPT ![i] =
    IF @ = None THEN [entry |-> TRUE, targets |-> peers, served |-> {}, advertised |-> {},
                      delivered |-> FALSE, expired |-> FALSE]
    ELSE [@ EXCEPT !.targets = @ \union peers]]

has_unresolved_retained_target(e) ==
  e # None /\ e.retain # "no" /\ e.targets \ e.served # {}

-----------------------------------------------------------------------------
(* A local publish: cached, sent to the eager peers, then made pending.    *)

publish_local(i) ==
  /\ i \in Local /\ fanout[i] = New
  /\ cached' = cached \union {i}
  /\ fanout' = [fanout EXCEPT ![i] = [stage |-> "claim", to |-> mesh.eager]]
  /\ UNCHANGED <<mesh, pending, advertised, withheld, stranded, flush, retry, history>>

\* Admission drops some of the peers; of the others, those without a permit
\* become retained announcement targets.
ClaimFanout(i) ==
  /\ i \in Local /\ fanout[i].stage = "claim"
  /\ \E attempted \in SUBSET fanout[i].to : \E skipped \in SUBSET (fanout[i].to \ attempted) :
       /\ withheld' = queue_retained_announce(withheld, i, skipped)
       /\ owed' = owed \union Pairs({i}, skipped)
       /\ fanout' = [fanout EXCEPT ![i] = [stage |-> "await", to |-> attempted]]
  /\ UNCHANGED <<mesh, cached, pending, advertised, stranded, flush, retry,
                 unsent, offered, outcomes>>

\* A Critical publish under an enforcing limiter is sent peer by peer; every
\* peer without an attempt becomes a plain target.
CriticalFanout(i) ==
  /\ Enforcing
  /\ i \in Local /\ fanout[i].stage = "claim"
  /\ \E attempted \in SUBSET fanout[i].to :
       /\ withheld' = queue_lazy_withheld(withheld, i, fanout[i].to \ attempted, FALSE)
       /\ fanout' = [fanout EXCEPT ![i] = [stage |-> "await", to |-> attempted]]
  /\ UNCHANGED <<mesh, cached, pending, advertised, stranded, flush, retry, history>>

FinishPublish(i) ==
  /\ i \in Local /\ fanout[i].stage = "await"
  /\ push_pending_ihave(i)
  /\ fanout' = [fanout EXCEPT ![i] = Done]
  /\ \E sent \in SUBSET fanout[i].to :
       IF fanout[i].to # {} /\ sent = {}
       THEN /\ queue_stranded_ihave(i, fanout[i].to)
            /\ retry' = [retry EXCEPT ![i] = [stage |-> "check"]]
       ELSE UNCHANGED <<stranded, retry>>
  /\ offered' = {x \in offered : x[1] \notin Overflowed}
  /\ UNCHANGED <<mesh, cached, withheld, flush, owed, outcomes>>

-----------------------------------------------------------------------------
(* A relayed message, after its verdict.                                   *)

\* LazyForward withholds the copies of the eager peers, which are to be told.
LazyForward(i) ==
  /\ i \in Relayed /\ fanout[i] = New
  /\ cached' = cached \union {i}
  /\ withheld' = queue_lazy_withheld(withheld, i, mesh.eager, TRUE)
  /\ push_pending_ihave(i)
  /\ fanout' = [fanout EXCEPT ![i] = Done]
  /\ offered' = {x \in offered : x[1] \notin Overflowed} \union Pairs({i}, mesh.eager)
  /\ UNCHANGED <<mesh, stranded, flush, retry, owed, outcomes>>

\* A forwarded id is pending before its copies are sent.
ForwardAndDeliver(i) ==
  /\ i \in Relayed /\ fanout[i] = New
  /\ cached' = cached \union {i}
  /\ push_pending_ihave(i)
  /\ fanout' = [fanout EXCEPT ![i] = [stage |-> "claim", to |-> mesh.eager]]
  /\ offered' = {x \in offered : x[1] \notin Overflowed}
  /\ UNCHANGED <<mesh, withheld, stranded, flush, retry, owed, outcomes>>

\* The byte budget defers some of the copies; those peers are to be told.
ForwardFanout(i) ==
  /\ i \in Relayed /\ fanout[i].stage = "claim"
  /\ \E deferred \in SUBSET fanout[i].to :
       /\ Enforcing \/ deferred = {}
       /\ withheld' = queue_lazy_withheld(withheld, i, deferred, FALSE)
       /\ offered' = offered \union (Pairs({i}, deferred) \ InFlight)
  /\ fanout' = [fanout EXCEPT ![i] = Done]
  /\ UNCHANGED <<mesh, cached, pending, advertised, stranded, flush, retry,
                 owed, unsent, outcomes>>

-----------------------------------------------------------------------------
(* The flusher.                                                            *)

\* Entries past their deadline go; so do targets that pulled the id or left.
prune_retained_announces(w) ==
  [i \in AllIds |->
    IF w[i] = None \/ w[i].retain = "no" THEN w[i]
    ELSE LET left == {p \in w[i].targets \ w[i].served : p \in Members}
         IN IF w[i].retain = "over" \/ left = {} THEN None ELSE [w[i] EXCEPT !.targets = left]]

stranded_ihave_targets_for(batch) ==
  UNION {stranded[i].targets \ (stranded[i].served \union stranded[i].advertised) :
         i \in {j \in batch : stranded[j] # None}}

lazy_withheld_targets_for(w, batch) ==
  UNION {w[i].targets \ w[i].served : i \in {j \in batch : w[j] # None}}

ihave_target_pending(adv, batch, p) == \E i \in batch : <<i, p>> \notin adv

BatchTargets(w) ==
  LET batch == Range(pending)
      all == stranded_ihave_targets_for(batch) \union lazy_withheld_targets_for(w, batch)
               \union mesh.lazy
  IN IF Enforcing THEN {p \in all : ihave_target_pending(advertised, batch, p)} ELSE all

retained_announce_work(w) ==
  {i \in AllIds : has_unresolved_retained_target(w[i]) /\ i \notin Range(pending)}

\* The snapshot: the pending batch, then the retained entries whose batch is
\* gone.  A work item without targets is passed over.
FlushSnapshot ==
  /\ flush = <<>>
  /\ LET w == prune_retained_announces(withheld)
         batch == [batch |-> Range(pending), targets |-> BatchTargets(w), retained |-> FALSE]
         again == [batch |-> retained_announce_work(w), retained |-> TRUE,
                   targets |-> lazy_withheld_targets_for(w, retained_announce_work(w))]
     IN /\ withheld' = w
        /\ flush' = SelectSeq(<<batch, again>>, LAMBDA x : x.batch # {} /\ x.targets # {})
        /\ flush' # <<>> \/ w # withheld
        /\ offered' = IF batch.targets = {} THEN offered
                      ELSE {x \in offered : ~(x[1] \in batch.batch /\ x[2] \in batch.targets)}
        /\ owed' = {x \in owed : withheld[x[1]].retain # "over" /\ x[2] \in Members}
  /\ UNCHANGED <<mesh, cached, pending, advertised, stranded, fanout, retry, unsent, outcomes>>

record_lazy_withheld_advertised(w, batch, peers) ==
  [i \in AllIds |-> IF i \in batch /\ w[i] # None /\ w[i].retain # "no"
                 THEN [w[i] EXCEPT !.targets = @ \ peers] ELSE w[i]]

drop_resolved_retained_announces(w) ==
  [i \in AllIds |-> IF w[i] # None /\ w[i].retain # "no" /\ ~has_unresolved_retained_target(w[i])
                 THEN None ELSE w[i]]

\* Mutant: consuming a batch drops the retained entries too.
ConsumeRetained(w, batch) == [i \in AllIds |-> IF i \in batch THEN None ELSE w[i]]

\* A retained entry outlives its batch while a target of it is unresolved.
consume_flushed_ihave_batch(w, batch) ==
  [i \in AllIds |-> IF i \in batch /\ ~has_unresolved_retained_target(w[i]) THEN None ELSE w[i]]

\* Mutant: the batch is taken before the send, so that an abort loses it.
DrainThenSend ==
  /\ flush # <<>>
  /\ LET work == Head(flush)
     IN /\ flush' = Tail(flush)
        /\ pending' = SelectSeq(pending, LAMBDA i : i \notin work.batch)
        /\ withheld' = consume_flushed_ihave_batch(withheld, work.batch)
        /\ advertised' = {x \in advertised : x[1] \notin work.batch}
        /\ UNCHANGED <<stranded, owed, unsent>>
  /\ UNCHANGED <<mesh, cached, fanout, retry, offered, outcomes>>

\* What one work item leaves behind, by what the sends came to.  With no
\* attempt nothing changes; a failed send counts as handed off unless the
\* limiter sheds.
ApplyFlush(work, deferred, attempted, sent) ==
  LET w == record_lazy_withheld_advertised(withheld, work.batch, sent)
      adv == advertised \union Pairs(work.batch, sent)
      consume == /\ deferred = {}
                 /\ ~Enforcing \/ \A p \in work.targets : ~ihave_target_pending(adv, work.batch, p)
  IN IF attempted = {}
     THEN UNCHANGED <<pending, advertised, withheld, stranded, owed, unsent>>
     ELSE /\ owed' = owed \ Pairs(work.batch, sent)
          /\ unsent' = unsent \ work.batch
          /\ IF work.retained
             THEN /\ withheld' = drop_resolved_retained_announces(w)
                  /\ UNCHANGED <<pending, advertised, stranded>>
             ELSE /\ stranded' = [i \in AllIds |->
                       IF i \in work.batch /\ stranded[i] # None
                       THEN [stranded[i] EXCEPT !.advertised = @ \union sent] ELSE stranded[i]]
                  /\ withheld' = IF consume THEN consume_flushed_ihave_batch(w, work.batch) ELSE w
                  /\ pending' = IF consume
                                THEN SelectSeq(pending, LAMBDA i : i \notin work.batch) ELSE pending
                  /\ advertised' = IF consume
                                   THEN {x \in adv : x[1] \notin work.batch} ELSE adv

FlushOutcome ==
  /\ flush # <<>>
  /\ flush' = Tail(flush)
  /\ \E deferred \in SUBSET Head(flush).targets :
       /\ Enforcing \/ deferred = {}
       /\ \E attempted \in SUBSET (Head(flush).targets \ deferred) : \E sent \in SUBSET attempted :
            ApplyFlush(Head(flush), deferred, attempted, sent)
  /\ UNCHANGED <<mesh, cached, fanout, retry, offered, outcomes>>

\* The flusher is aborted (shutdown grace exceeded) before the outcome.
FlushAbort ==
  /\ flush # <<>>
  /\ flush' = <<>>
  /\ UNCHANGED <<state, fanout, retry, history>>

-----------------------------------------------------------------------------
(* Pulls, deadlines, membership.                                           *)

\* A reply to the peer's IWANT was handed to the transport.
Served(i, p) ==
  /\ i \in cached /\ p \in Members
  /\ withheld' = IF withheld[i] = None THEN withheld
                 ELSE [withheld EXCEPT ![i].served = @ \union {p}]
  /\ stranded' = IF stranded[i] = None THEN stranded
                 ELSE [stranded EXCEPT ![i].served = @ \union {p}]
  /\ <<withheld', stranded'>> # <<withheld, stranded>>
  /\ owed' = owed \ {<<i, p>>}
  /\ offered' = offered \ {<<i, p>>}
  /\ UNCHANGED <<mesh, cached, pending, advertised, fanout, flush, retry, unsent, outcomes>>

\* RETAINED_ANNOUNCE_TTL has passed.
RetainDeadline(i) ==
  /\ withheld[i] # None /\ withheld[i].retain = "until"
  /\ withheld' = [withheld EXCEPT ![i].retain = "over"]
  /\ owed' = owed \ Of(i, owed)
  /\ UNCHANGED <<mesh, cached, pending, advertised, stranded, fanout, flush, retry,
                 unsent, offered, outcomes>>

\* The cache entry of the id expires, and with it the deadline of its retry.
Evict(i) ==
  /\ i \in cached
  /\ cached' = cached \ {i}
  /\ stranded' = IF stranded[i] = None THEN stranded
                 ELSE [stranded EXCEPT ![i].expired = TRUE]
  /\ UNCHANGED <<mesh, pending, advertised, withheld, fanout, flush, retry, history>>

Move(eager, lazy) ==
  /\ mesh.moves > 0
  /\ mesh' = [eager |-> eager, lazy |-> lazy, moves |-> mesh.moves - 1]

Leave(p) ==
  /\ p \in Members
  /\ Move(mesh.eager \ {p}, mesh.lazy \ {p})
  /\ owed' = {x \in owed : x[2] # p}
  /\ offered' = {x \in offered : x[2] # p}
  /\ UNCHANGED <<cached, pending, advertised, withheld, stranded, fanout, flush, retry,
                 unsent, outcomes>>

\* Pending ids of LazyForward verdicts are offered to a peer that becomes eager;
\* their other targets are those still eager.
offer_pending_cold_relay_to_new_eager(w, p) ==
  [i \in AllIds |->
    IF w[i] = None \/ ~w[i].cold \/ i \notin Range(pending) \/ i \notin cached THEN w[i]
    ELSE [w[i] EXCEPT !.targets = (@ \intersect mesh.eager) \union ({p} \ w[i].served)]]

BecomeEager(p) ==
  /\ p \notin mesh.eager
  /\ Move(mesh.eager \union {p}, mesh.lazy \ {p})
  /\ withheld' = offer_pending_cold_relay_to_new_eager(withheld, p)
  /\ offered' = {x \in offered : x[2] \in mesh.eager}
                  \union {x \in Pairs(AllIds, {p}) \ InFlight :
                            p \in withheld'[x[1]].targets \ withheld[x[1]].targets}
  /\ UNCHANGED <<cached, pending, advertised, stranded, fanout, flush, retry,
                 owed, unsent, outcomes>>

BecomeLazy(p) ==
  /\ p \notin mesh.lazy
  /\ Move(mesh.eager \ {p}, mesh.lazy \union {p})
  /\ UNCHANGED <<cached, pending, advertised, withheld, stranded, fanout, flush, retry, history>>

-----------------------------------------------------------------------------
(* The retry of a stranded publish.                                        *)

Over(i) == [retry EXCEPT ![i] = [stage |-> "over"]]
ServedPeers(i) == IF stranded[i] = None THEN {} ELSE stranded[i].served
Expired(i) == stranded[i] = None \/ stranded[i].expired
Terminal(i) == outcomes' = [outcomes EXCEPT ![i] = @ + 1]
remove_stranded_ihave(i) == stranded' = [stranded EXCEPT ![i] = None]

\* Mutant: a retry whose message is gone ends without an outcome.
RetryCheckSilent(i) ==
  /\ retry[i].stage = "check"
  /\ retry' = IF i \notin cached THEN Over(i)
              ELSE [retry EXCEPT ![i] = [stage |-> "act", to |-> mesh.eager \ ServedPeers(i)]]
  /\ UNCHANGED <<state, fanout, flush, history>>

\* The targets are the eager peers that have not pulled the message.
RetryCheck(i) ==
  /\ retry[i].stage = "check"
  /\ IF i \notin cached
     THEN Terminal(i) /\ retry' = Over(i)
     ELSE /\ retry' = [retry EXCEPT ![i] = [stage |-> "act", to |-> mesh.eager \ ServedPeers(i)]]
          /\ UNCHANGED outcomes
  /\ UNCHANGED <<state, fanout, flush, owed, unsent, offered>>

\* With an enforcing limiter the retry comes back until its deadline.
RetryAct(i) ==
  /\ retry[i].stage = "act"
  /\ \E attempted \in SUBSET retry[i].to :
       \/ /\ attempted # {}
          /\ \E sent \in SUBSET attempted :
               retry' = [retry EXCEPT ![i] = [stage |-> "book", sent |-> sent]]
          /\ UNCHANGED <<stranded, outcomes>>
       \/ /\ attempted = {} /\ retry[i].to # {} /\ Enforcing /\ ~Expired(i)
          /\ retry' = [retry EXCEPT ![i] = [stage |-> "check"]]
          /\ UNCHANGED <<stranded, outcomes>>
       \/ /\ attempted = {} /\ (retry[i].to = {} \/ ~Enforcing \/ Expired(i))
          /\ remove_stranded_ihave(i)
          /\ Terminal(i)
          /\ retry' = Over(i)
  /\ UNCHANGED <<mesh, cached, pending, advertised, withheld, fanout, flush, owed, unsent, offered>>

RetryBook(i) ==
  /\ retry[i].stage = "book"
  /\ LET sent == retry[i].sent
         e == IF stranded[i] = None THEN None
              ELSE [stranded[i] EXCEPT !.served = @ \union sent, !.delivered = @ \/ sent # {}]
         left == mesh.eager \ (IF e = None THEN {} ELSE e.served)
         again == Enforcing /\ left # {} /\ ~Expired(i)
     IN /\ stranded' = [stranded EXCEPT ![i] = IF left = {} \/ Expired(i) THEN None ELSE e]
        /\ retry' = IF again THEN [retry EXCEPT ![i] = [stage |-> "check"]] ELSE Over(i)
        /\ IF again THEN UNCHANGED outcomes ELSE Terminal(i)
  /\ UNCHANGED <<mesh, cached, pending, advertised, withheld, fanout, flush, owed, unsent, offered>>

-----------------------------------------------------------------------------
AnnounceNext ==
  \/ \E i \in Local : publish_local(i) \/ ClaimFanout(i) \/ CriticalFanout(i) \/ FinishPublish(i)
                        \/ RetryCheck(i) \/ RetryAct(i) \/ RetryBook(i)
  \/ \E i \in Relayed : LazyForward(i) \/ ForwardAndDeliver(i) \/ ForwardFanout(i)
  \/ FlushSnapshot \/ FlushOutcome \/ FlushAbort
  \/ \E i \in AllIds : RetainDeadline(i) \/ Evict(i) \/ (\E p \in Peers : Served(i, p))
  \/ \E p \in Peers : Leave(p) \/ BecomeEager(p) \/ BecomeLazy(p)

-----------------------------------------------------------------------------
\* A peer that was skipped by the fan-out of a local publish stays a target of
\* announcements until it is told, pulls the message, leaves, or the deadline
\* passes, however the flusher, overflows and aborts interleave
\* (queue_retained_announce: "not lossy").
RetainedUntilTold ==
  \A x \in owed : withheld[x[1]] # None /\ x[2] \in withheld[x[1]].targets
                  /\ withheld[x[1]].retain = "until"

\* An id leaves pending_ihave only once a flush has sent its batch to someone
\* or it overflowed: an aborted flush loses nothing (consume_flushed_ihave_batch).
AbortSafe == unsent \subseteq Range(pending)

\* A stranded publish ends in exactly one terminal outcome.
OneOutcome ==
  \A i \in Local : outcomes[i] = IF retry[i].stage = "over" THEN 1 ELSE 0

\* A peer whose copy was withheld or deferred stays a target of the pending id
\* until a flush takes it up ("denied EAGER peers are placed on the existing
\* direct-IHAVE lazy recovery path").
WithheldOffered ==
  \A x \in offered : /\ x[1] \in Range(pending)
                     /\ withheld[x[1]] # None
                     /\ x[2] \in withheld[x[1]].targets

-----------------------------------------------------------------------------
lateVars == <<published, live, joined, joins, offers, last_served, picks, page, tried>>

LatePeers == 1 .. NPeers
NoOffer == [cutoff |-> 0, cursor |-> 0, backoff |-> FALSE]
NoPage == [peer |-> 0, ids |-> {}]

Offer == [cutoff : 1 .. MaxIds, cursor : 0 .. MaxIds, backoff : BOOLEAN]

Offered == {p \in LatePeers : offers[p] # NoOffer}

\* Types; only joined peers have an offer, at most MaxOffers of them do, and a
\* page is within its size.
LateTypeOK ==
  /\ live \subseteq 1 .. published
  /\ offers \in [LatePeers -> Offer \union {NoOffer}]
  /\ Offered \subseteq joined
  /\ Cardinality(Offered) <= MaxOffers
  /\ page = NoPage \/ (page.peer \in LatePeers /\ Cardinality(page.ids) \in 1 .. Page)

LateInit ==
  /\ published = 0 /\ live = {}
  /\ joined = {} /\ joins = 0
  /\ offers = [p \in LatePeers |-> NoOffer]
  /\ last_served = 0
  /\ picks = <<>> /\ page = NoPage
  /\ tried = [p \in LatePeers |-> {}]

Publish ==
  /\ published < MaxIds
  /\ published' = published + 1
  /\ live' = live \union {published + 1}
  /\ UNCHANGED <<joined, joins, offers, last_served, picks, page, tried>>

\* The oldest message reaches the age limit of the cache.
Expire ==
  /\ live # {}
  /\ live' = live \ {Min(live)}
  /\ UNCHANGED <<published, joined, joins, offers, last_served, picks, page, tried>>

\* An offer as old as the oldest cached message has nothing left to select.
prune_late_local_offers ==
  [p \in LatePeers |-> IF \E i \in live : i <= offers[p].cutoff THEN offers[p] ELSE NoOffer]


\* Pruned first; nothing is queued for an empty cache or over the cap, and an
\* offer already there stays.
queue_late_local_offer(p) ==
  LET o == prune_late_local_offers
      n == Cardinality({q \in LatePeers : o[q] # NoOffer})
  IN IF live = {} \/ n >= MaxOffers \/ o[p] # NoOffer THEN o
     ELSE [o EXCEPT ![p] = [cutoff |-> published, cursor |-> 0, backoff |-> FALSE]]

Join(p) ==
  /\ p \notin joined /\ joins < MaxJoins
  /\ joined' = joined \union {p}
  /\ joins' = joins + 1
  /\ offers' = queue_late_local_offer(p)
  /\ UNCHANGED <<published, live, last_served, picks, page, tried>>

\* A refresh of the topic's peers, or a send that found no connection, drops
\* the peer with its offer.
LateLeave(p) ==
  /\ p \in joined
  /\ joined' = joined \ {p}
  /\ offers' = [offers EXCEPT ![p] = NoOffer]
  /\ UNCHANGED <<published, live, joins, last_served, picks, page, tried>>

\* The place of a peer in the ring that starts after `start'.
LateOfferRank(p, start) == IF p <= start THEN p + NPeers ELSE p

\* The first PerFlush offers of the ring that are not backing off; the ring
\* moves past the last of them.
FlushPick ==
  /\ picks = <<>> /\ page = NoPage
  /\ LET due == {p \in Offered : ~offers[p].backoff}
         rank(p) == LateOfferRank(p, last_served)
         chosen == {p \in due : Cardinality({q \in due : rank(q) < rank(p)}) < PerFlush}
     IN /\ due # {}
        /\ picks' = [n \in 1 .. Cardinality(chosen) |->
                       CHOOSE p \in chosen : Cardinality({q \in chosen : rank(q) < rank(p)}) = n - 1]
        /\ last_served' = picks'[Cardinality(chosen)]
  /\ UNCHANGED <<published, live, joined, joins, offers, page, tried>>

\* What the offer may still announce.
late_local_offer_keys(p) == {i \in live : offers[p].cursor < i /\ i <= offers[p].cutoff}

\* The page is the first keys in order; an offer with none is over.
FlushPage ==
  /\ picks # <<>> /\ page = NoPage
  /\ LET p == Head(picks)
         keys == late_local_offer_keys(p)
     IN /\ picks' = Tail(picks)
        /\ IF keys = {}
           THEN offers' = [offers EXCEPT ![p] = NoOffer] /\ page' = NoPage
           ELSE /\ page' = [peer |-> p,
                            ids |-> {i \in keys : Cardinality({j \in keys : j < i}) < Page}]
                /\ UNCHANGED offers
  /\ UNCHANGED <<published, live, joined, joins, last_served, tried>>

\* The offer that is there when the send ends pages forward, whether or not it
\* is the one the page was selected for.
advance_late_local_offer(p, cursor) ==
  offers' = IF offers[p] = NoOffer THEN offers
            ELSE [offers EXCEPT ![p].cursor = cursor, ![p].backoff = FALSE]

backoff_late_local_offer(p, cursor) ==
  offers' = IF offers[p] = NoOffer THEN offers
            ELSE [offers EXCEPT ![p].cursor = cursor, ![p].backoff = TRUE]

\* No claim, no change; else the page was sent, or failed.
LateOutcome ==
  /\ page # NoPage
  /\ page' = NoPage
  /\ LET p == page.peer
     IN \/ /\ UNCHANGED <<offers, tried>>
           /\ p \in Stuck \/ p \notin joined
        \/ /\ p \notin Stuck
           /\ tried' = [tried EXCEPT ![p] = @ \union page.ids]
           /\ \/ advance_late_local_offer(p, Max(page.ids))
              \/ backoff_late_local_offer(p, Max(page.ids))
  /\ UNCHANGED <<published, live, joined, joins, last_served, picks>>

BackoffEnds(p) ==
  /\ offers[p].backoff
  /\ offers' = [offers EXCEPT ![p].backoff = FALSE]
  /\ UNCHANGED <<published, live, joined, joins, last_served, picks, page, tried>>

Flush == FlushPick \/ FlushPage \/ LateOutcome

LateNext ==
  \/ Publish \/ Expire
  \/ Flush
  \/ \E p \in LatePeers : Join(p) \/ LateLeave(p) \/ BackoffEnds(p)

-----------------------------------------------------------------------------
\* Whatever leaves, returns and in-flight pages do to an offer, it only ever
\* passes over ids that were sent to that peer: paging a newer offer past the
\* cursor of an older page "only ever skips ids that were just delivered
\* (success) or just failed" (advance_late_local_offer).
CursorCovers ==
  \A p \in LatePeers : \A i \in live : i <= offers[p].cursor => i \in tried[p]

-----------------------------------------------------------------------------
(* Both parts. *)

vars == <<announceVars, lateVars>>

Init == AnnounceInit /\ LateInit

Next ==
  \/ AnnounceNext /\ UNCHANGED lateVars
  \/ LateNext /\ UNCHANGED announceVars

Spec == Init /\ [][Next]_vars
=============================================================================
