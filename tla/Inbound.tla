------------------------------- MODULE Inbound -------------------------------
(* What a node does with a frame before its handler: the receive workers of    *)
(* dispatch_message.  A frame's session is compared with the connection's, a   *)
(* key reference is resolved, a known EAGER id is dropped on the strength of a *)
(* READ lock and again under the write lock, the signature is verified with no *)
(* lock held, the migration rules admit it, its signer's key is learnt, and    *)
(* only then is the id looked up a second time and the message taken.  Between *)
(* any two of these another worker may take the same id, the cache may evict   *)
(* it, the connection may be replaced or the v1 policy changed.                *)
(*                                                                             *)
(* One topic and the key-cache control topic ("Ping" frames).  What the        *)
(* handlers do is in Plumtree and Policy; what the migration rules admit is in *)
(* Policy too, and here left open for a registered topic.                      *)
EXTENDS Naturals, FiniteSets

CONSTANTS Workers, Ids, Peers,
          Frames,        \* the frames that may arrive
          Registered,    \* the topic is under the migration rules
          MaxArrivals, MaxChanges

(* A frame: its kind, id, transport sender, the peer whose key signed it, how  *)
(* it is encoded, its header version, whether the signature verifies and       *)
(* whether the payload is the one the header seals.                            *)
FrameType == [kind : {"Eager", "IHave", "IWant", "AntiEntropy", "Ping", "Other"}, id : Ids, from : Peers,
              signer : Peers, form : {"legacy", "full", "ref"}, version : {1, 2}, signed : BOOLEAN,
              whole : BOOLEAN]

VARIABLES cached,     \* ids in the message cache
          keys,       \* signers whose key the key cache has
          cooled,     \* peers suppressed on the topic
          session,    \* the connection of each peer, 0 when it has none
          policy,     \* SignaturePolicy
          worker,     \* what each worker is doing
          arrivals, changes,
          lives,      \* history: how often each id was taken since it was last evicted
          acted,      \* history: [what, frame] of everything done on a frame's account
          lost        \* history: of the frames dropped as duplicates, whether a copy was held

vars == <<cached, keys, cooled, session, policy, worker, arrivals, changes, lives, acted, lost>>
histories == <<lives, acted, lost>>
Idle == [at |-> "idle"]

TypeOK ==
  /\ Frames \subseteq FrameType
  /\ cached \subseteq Ids /\ keys \subseteq Peers /\ cooled \subseteq Peers
  /\ session \in [Peers -> 0..MaxChanges + 1]
  /\ policy \in {"AcceptV1", "RejectV1"}
  /\ \A w \in Workers :
       worker[w].at \in {"idle", "dispatch", "probe", "upgrade", "verify", "ingress", "key", "act", "handle"}

Init ==
  /\ cached = {} /\ keys = {} /\ cooled \in SUBSET Peers
  /\ session = [p \in Peers |-> 1]
  /\ policy = "AcceptV1"
  /\ worker = [w \in Workers |-> Idle]
  /\ arrivals = 0 /\ changes = 0
  /\ lives = [i \in Ids |-> 0] /\ acted = {} /\ lost = {}

At(w, step) == worker[w].at = step
F(w) == worker[w].frame
To(w, step) == worker' = [worker EXCEPT ![w].at = step]
Done(w) == worker' = [worker EXCEPT ![w] = Idle]
Did(what, f) == acted' = acted \union {[what |-> what, frame |-> f]}
Drop(f) == lost' = lost \union {f.id \in cached /\ lives[f.id] = 1}

\* The signature verifies, and covers the payload where the header seals it.
Sound(f) == f.signed /\ (f.version = 2 => f.whole)

-----------------------------------------------------------------------------
(* Arrival through handle_authenticated_message (the session stamped on the    *)
(* frame when it was received), through handle_message (none) or through the   *)
(* leaf consumer's handle_local_origin_iwant.  `fresh` remembers whether the   *)
(* id has been cached ever since.                                              *)
Arrive(w, f, entry, token) ==
  /\ At(w, "idle") /\ arrivals < MaxArrivals
  /\ entry = "leaf" => f.kind = "IWant" /\ f.form = "legacy"
  /\ entry = "authenticated" <=> token > 0
  /\ token <= session[f.from]
  /\ worker' = [worker EXCEPT ![w] = [at |-> "dispatch", frame |-> f, entry |-> entry, token |-> token,
                                      known |-> f.id \in cached]]
  /\ arrivals' = arrivals + 1
  /\ UNCHANGED <<cached, keys, cooled, session, policy, changes, histories>>

Current(w) == worker[w].entry = "authenticated" => worker[w].token = session[F(w).from]

\* Mutant: a relayed signer is let through.
AdjacentUnsigned(w) == worker[w].entry = "authenticated"

\* A hop-local frame must be signed by the peer at the connection's other end.
Adjacent(w) == worker[w].entry = "authenticated" /\ F(w).signer = F(w).from

\* v3 frames and the control topic need the connection they came on.
Provenance(w) ==
  LET f == F(w)
  IN  /\ f.form # "legacy" => worker[w].entry = "authenticated"
      /\ f.kind = "Ping" \/ (f.form # "legacy" /\ f.kind # "Eager") => Adjacent(w)

Dispatch(w) ==
  LET f == F(w)
  IN  /\ At(w, "dispatch")
      /\ \/ /\ ~(Current(w) /\ Provenance(w)) /\ Done(w)
         \/ /\ Current(w) /\ Provenance(w)
            /\ f.form = "ref" /\ f.signer \notin keys   \* queue_miss
            /\ Done(w)
         \/ /\ Current(w) /\ Provenance(w)
            /\ f.form = "ref" => f.signer \in keys
            /\ To(w, IF f.kind = "Eager" /\ ~Registered THEN "probe"
                     ELSE IF f.kind \in {"Ping", "Other"} THEN "ingress" ELSE "verify")
      /\ UNCHANGED <<cached, keys, cooled, session, policy, arrivals, changes, histories>>

-----------------------------------------------------------------------------
\* Mutant: every copy is verified first.
ProbeNothing(w) ==
  /\ At(w, "probe") /\ To(w, "verify")
  /\ UNCHANGED <<cached, keys, cooled, session, policy, arrivals, changes, histories>>

\* The probe under the read lock.
Probe(w) ==
  /\ At(w, "probe")
  /\ To(w, IF F(w).id \in cached THEN "upgrade" ELSE "verify")
  /\ UNCHANGED <<cached, keys, cooled, session, policy, arrivals, changes, histories>>

\* Mutant: what the probe found is not looked up again.
DuplicateAsProbed(w) == TRUE

StillCached(w) == F(w).id \in cached

\* The duplicate branch before verification, under the write lock.
Upgrade(w) ==
  /\ At(w, "upgrade")
  /\ \/ /\ StillCached(w) /\ Drop(F(w))
        /\ Done(w)
     \/ /\ ~StillCached(w) /\ To(w, "verify") /\ lost' = lost
  /\ UNCHANGED <<cached, keys, cooled, session, policy, arrivals, changes, lives, acted>>

\* The signature over the header, against the key the frame carries.
verify_signature(f) == f.signed

\* Mutant: only the header's signature is verified.
HeaderVerified(f) == verify_signature(f)

verify_message_signature(f) ==
  /\ verify_signature(f)
  /\ f.version = 2 => f.whole
  /\ f.version = 1 => policy = "AcceptV1"

\* Invalid frames end here; one of a kind pub/sub does not handle was past the
\* migration rules already.
Verify(w) ==
  /\ At(w, "verify")
  /\ IF ~verify_message_signature(F(w)) THEN Done(w)
     ELSE To(w, IF F(w).kind \in {"Ping", "Other"} THEN "key" ELSE "ingress")
  /\ UNCHANGED <<cached, keys, cooled, session, policy, arrivals, changes, histories>>

\* migration.ingress: an unregistered topic is admitted as it is.
Ingress(w, admitted) ==
  /\ At(w, "ingress")
  /\ ~Registered => admitted
  /\ IF ~admitted THEN Done(w)
     ELSE To(w, IF F(w).kind \in {"Ping", "Other"} THEN "verify" ELSE "key")
  /\ UNCHANGED <<cached, keys, cooled, session, policy, arrivals, changes, histories>>

\* The key-cache control goes to its handler; a leaf's request teaches no key.
note_verified_inbound_key(w) ==
  /\ At(w, "key")
  /\ IF F(w).kind = "Ping" \/ worker[w].entry = "leaf"
     THEN To(w, "handle") /\ UNCHANGED <<keys, acted>>
     ELSE To(w, "act") /\ keys' = keys \union {F(w).signer} /\ Did("key", F(w))
  /\ UNCHANGED <<cached, cooled, session, policy, arrivals, changes, lives, lost>>

-----------------------------------------------------------------------------
\* Mutant: the id is not looked up again after the verification.
AlreadyForgotten(i) == FALSE

AlreadyTaken(i) == i \in cached

\* The section of handle_eager_admitted under the write lock: a duplicate is
\* dropped, a registered topic's inner proof may fail, otherwise the message is
\* cached and taken.
TakeEager(w, proof) ==
  LET f == F(w)
  IN  /\ At(w, "act") /\ f.kind = "Eager" /\ Done(w)
      /\ ~Registered => proof
      /\ \/ /\ AlreadyTaken(f.id)
            /\ Drop(f) /\ cooled' = cooled \ {f.from} /\ Did("activity", f)
            /\ UNCHANGED <<cached, lives>>
         \/ /\ ~AlreadyTaken(f.id) /\ ~proof
            /\ UNCHANGED <<cached, cooled, lives, acted, lost>>
         \/ /\ ~AlreadyTaken(f.id) /\ proof
            /\ cached' = cached \union {f.id} /\ cooled' = cooled \ {f.from}
            /\ lives' = [lives EXCEPT ![f.id] = @ + 1]
            /\ Did("taken", f) /\ lost' = lost
      /\ UNCHANGED <<keys, session, policy, arrivals, changes>>

\* record_verified_inbound_from_peer, then the handler takes the lock anew.
Activity(w) ==
  /\ At(w, "act") /\ F(w).kind # "Eager"
  /\ cooled' = cooled \ {F(w).from} /\ Did("activity", F(w))
  /\ IF F(w).kind = "Other" THEN Done(w) ELSE To(w, "handle")
  /\ UNCHANGED <<cached, keys, session, policy, arrivals, changes, lives, lost>>

\* The payload decodes and the handler of the kind runs, or it does not.
Handle(w, decodes) ==
  /\ At(w, "handle") /\ Done(w)
  /\ IF decodes THEN Did("handled", F(w)) ELSE acted' = acted
  /\ UNCHANGED <<cached, keys, cooled, session, policy, arrivals, changes, lives, lost>>

-----------------------------------------------------------------------------
Change == changes < MaxChanges /\ changes' = changes + 1

\* The cache lets an id go (age or bounds).
Evict(i) ==
  /\ i \in cached /\ Change
  /\ cached' = cached \ {i} /\ lives' = [lives EXCEPT ![i] = 0]
  /\ worker' = [w \in Workers |-> IF ~At(w, "idle") /\ F(w).id = i THEN [worker[w] EXCEPT !.known = FALSE]
                                  ELSE worker[w]]
  /\ UNCHANGED <<keys, cooled, session, policy, arrivals, acted, lost>>

Reconnect(p) ==
  /\ Change /\ session' = [session EXCEPT ![p] = @ + 1]
  /\ UNCHANGED <<cached, keys, cooled, policy, worker, arrivals, histories>>

set_signature_policy(q) ==
  /\ q # policy /\ Change /\ policy' = q
  /\ UNCHANGED <<cached, keys, cooled, session, worker, arrivals, histories>>

Next ==
  \/ \E w \in Workers :
       \/ \E f \in Frames, e \in {"authenticated", "plain", "leaf"}, n \in 0..MaxChanges + 1 : Arrive(w, f, e, n)
       \/ Dispatch(w)
       \/ Probe(w)
       \/ Upgrade(w)
       \/ Verify(w)
       \/ \E admitted \in BOOLEAN : Ingress(w, admitted)
       \/ note_verified_inbound_key(w)
       \/ \E proof \in BOOLEAN : TakeEager(w, proof)
       \/ Activity(w)
       \/ \E decodes \in BOOLEAN : Handle(w, decodes)
  \/ \E i \in Ids : Evict(i)
  \/ \E p \in Peers : Reconnect(p)
  \/ \E q \in {"AcceptV1", "RejectV1"} : set_signature_policy(q)

Spec == Init /\ [][Next]_vars

-----------------------------------------------------------------------------
\* Nothing is done on the account of a frame that does not verify, on any of
\* the paths and whatever changes while it is under way: no message is taken, no
\* key learnt, no cooling lifted and no handler run.
ActsOnSound == \A a \in acted : Sound(a.frame)

\* A frame is dropped as a duplicate only while a verified copy of its id that
\* was taken is in the cache: a copy that does not verify, or whose inner proof
\* fails, never stands in for the one that does, and neither does an entry that
\* was evicted after the probe saw it.
DropsOnlyHeld == lost \subseteq {TRUE}

\* While an id stays cached it is taken once, however many workers verified a
\* copy of it at the same time.
TakenOncePerLife == \A i \in Ids : lives[i] <= 1

\* A copy of an id that has been cached since the copy arrived gets no further
\* than the duplicate branch: it spends no verification and teaches no key
\* (unregistered topics; on a registered one every arrival is verified).
DuplicatesCostNothing ==
  \A w \in Workers :
    ~Registered /\ worker[w].at \in {"verify", "ingress", "key", "act"} /\ F(w).kind = "Eager" =>
      ~worker[w].known

\* The key-cache control handler runs only for the peer at the other end of the
\* connection, and a reference is resolved only on the connection it came on.
HopLocal == \A a \in acted : a.what = "handled" /\ a.frame.kind = "Ping" => a.frame.signer = a.frame.from
=============================================================================
