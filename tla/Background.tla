----------------------------- MODULE Background -----------------------------
(***************************************************************************)
(* The sends of the background tasks (flush_ihave_batches,                 *)
(* flush_deferred_eager_replies, retry_stranded_publish and the            *)
(* anti-entropy task of crates/pubsub/src/lib.rs) and the Bulk depth of    *)
(* admission.rs they raise.  A task passes its targets through admission   *)
(* and claims attempts and permits for them under the topic lock, awaits   *)
(* its sends, books them, and gives the depth back.  What admission and    *)
(* the claim know of a peer's health, connection and cooling is left open; *)
(* the depth and the permits, one per peer and lane, are kept.             *)
(***************************************************************************)
EXTENDS Naturals, FiniteSets

CONSTANTS
  Peers,
  Topics,
  BulkTopics,   \* topics registered with TopicPriority::Bulk
  Tasks,        \* the tasks that run: "flush", "reply", "retry", "digest"
  Threshold     \* per_peer_bulk_slack_threshold

VARIABLES
  task,         \* what each task is doing
  work,         \* the digests still to be sent: a target per topic
  present,      \* topics with a state
  depth,        \* bulk_depth of each peer
  permits       \* the permits that are out: a peer and a lane

vars == <<task, work, present, depth, permits>>

NoPeer == "none"
Idle == [stage |-> "idle", bulk |-> {}, claimed |-> {}, sent |-> {}]

\* A reply and a retry resend payloads; the two others send control frames.
LaneOf(k) == IF k \in {"flush", "digest"} THEN "control" ELSE "local"

TypeOK ==
  /\ \A k \in Tasks :
       /\ task[k].stage \in {"idle", "claimed", "sending", "booked"}
       /\ task[k].sent \subseteq task[k].claimed
       /\ task[k].claimed \subseteq Peers
       /\ task[k].bulk \subseteq Peers
  /\ work \in [Topics -> Peers \union {NoPeer}]
  /\ present \subseteq Topics
  /\ \A p \in Peers : depth[p] <= Threshold
  /\ permits \subseteq Peers \X {"control", "local"}

Init ==
  /\ task = [k \in Tasks |-> Idle]
  /\ work = [t \in Topics |-> NoPeer]
  /\ present = Topics
  /\ depth = [p \in Peers |-> 0]
  /\ permits = {}

-----------------------------------------------------------------------------
(* Admission of a set of targets, and the claims for those admitted.       *)

\* Who is admitted: any of the targets, but for a Bulk topic only those whose
\* depth is below the threshold.
Admissible(t, targets) ==
  IF t \in BulkTopics THEN {p \in targets : depth[p] < Threshold} ELSE targets

\* Mutant: the depth of a Normal send is raised too.
BulkAdmittedAll(t, admitted) == admitted

bulk_admitted(t, admitted) == IF t \in BulkTopics THEN admitted ELSE {}

filter_peers_through_admission_in_state(t, targets, admitted) ==
  /\ admitted \subseteq Admissible(t, targets)
  /\ depth' = [p \in Peers |-> IF p \in bulk_admitted(t, admitted) THEN depth[p] + 1 ELSE depth[p]]

release_bulk(p, d) == IF d[p] > 0 THEN [d EXCEPT ![p] = @ - 1] ELSE d

release_bulk_admissions_free(bulk) ==
  depth' = [p \in Peers |-> IF p \in bulk THEN release_bulk(p, depth)[p] ELSE depth[p]]

\* Mutant: a permit that is out is claimed again.
ClaimAgain(k, admitted, claimed) ==
  /\ claimed \subseteq admitted
  /\ permits' = permits \union (claimed \X {LaneOf(k)})

\* A peer may be skipped at the claim (disconnected, cooling), and is skipped
\* when its permit is out.
claim_topic_send_attempts_for_state(k, admitted, claimed) ==
  /\ claimed \subseteq {p \in admitted : <<p, LaneOf(k)>> \notin permits}
  /\ permits' = permits \union (claimed \X {LaneOf(k)})

FilterAndClaim(k, t, targets) ==
  \E admitted \in SUBSET targets : \E claimed \in SUBSET admitted :
    /\ filter_peers_through_admission_in_state(t, targets, admitted)
    /\ claim_topic_send_attempts_for_state(k, admitted, claimed)
    /\ task' = [task EXCEPT ![k] =
         IF admitted = {} THEN Idle
         ELSE [stage |-> "claimed", bulk |-> bulk_admitted(t, admitted),
               claimed |-> claimed, sent |-> {}]]

-----------------------------------------------------------------------------
(* The tasks that send for a topic they found work in.                     *)

Start(k, t, targets) ==
  /\ k \in Tasks \ {"digest"}
  /\ task[k].stage = "idle"
  /\ t \in present
  /\ k = "reply" => Cardinality(targets) = 1
  /\ FilterAndClaim(k, t, targets)
  /\ UNCHANGED <<work, present>>

\* No attempt could be claimed: the depth goes back (for the retry, by its guard).
NothingClaimed(k) ==
  /\ k \in Tasks \ {"digest"}
  /\ task[k].stage = "claimed"
  /\ task[k].claimed = {}
  /\ release_bulk_admissions_free(task[k].bulk)
  /\ task' = [task EXCEPT ![k] = Idle]
  /\ UNCHANGED <<work, present, permits>>

-----------------------------------------------------------------------------
(* Anti-entropy: targets are picked for all topics under the read lock,    *)
(* then the digests are sent one by one, each under its topic's lock.      *)

CollectWork ==
  /\ "digest" \in Tasks
  /\ task["digest"].stage = "idle"
  /\ \A t \in Topics : work[t] = NoPeer
  /\ work' \in [Topics -> Peers \union {NoPeer}]
  /\ \A t \in Topics : work'[t] # NoPeer => t \in present
  /\ work' # work
  /\ UNCHANGED <<task, present, depth, permits>>

\* A topic that is gone by now, or whose bytes are refused, is passed over.
SkipDigest(t) ==
  /\ "digest" \in Tasks
  /\ task["digest"].stage = "idle"
  /\ work[t] # NoPeer
  /\ work' = [work EXCEPT ![t] = NoPeer]
  /\ UNCHANGED <<task, present, depth, permits>>

\* Mutant: the digest is sent past the admission.
DigestUncounted(t) ==
  /\ "digest" \in Tasks
  /\ task["digest"].stage = "idle"
  /\ work[t] # NoPeer
  /\ t \in present
  /\ claim_topic_send_attempts_for_state("digest", {work[t]}, {work[t]})
  /\ task' = [task EXCEPT !["digest"] =
       [stage |-> "claimed", bulk |-> bulk_admitted(t, {work[t]}),
        claimed |-> {work[t]}, sent |-> {}]]
  /\ work' = [work EXCEPT ![t] = NoPeer]
  /\ UNCHANGED <<present, depth>>

Digest(t) ==
  /\ "digest" \in Tasks
  /\ task["digest"].stage = "idle"
  /\ work[t] # NoPeer
  /\ t \in present
  /\ FilterAndClaim("digest", t, {work[t]})
  /\ work' = [work EXCEPT ![t] = NoPeer]
  /\ UNCHANGED present

\* Without an attempt the loop continues with the next topic.
DigestUnclaimed ==
  /\ "digest" \in Tasks
  /\ task["digest"].stage = "claimed"
  /\ task["digest"].claimed = {}
  /\ task' = [task EXCEPT !["digest"] = Idle]
  /\ UNCHANGED <<work, present, depth, permits>>

-----------------------------------------------------------------------------
(* The send tasks own the permits; when all have ended the task books them *)
(* and gives the depth back.                                               *)

Spawn(k) ==
  /\ task[k].stage = "claimed"
  /\ task[k].claimed # {}
  /\ task' = [task EXCEPT ![k].stage = "sending"]
  /\ UNCHANGED <<work, present, depth, permits>>

SendEnds(k, p) ==
  /\ task[k].stage = "sending"
  /\ p \in task[k].claimed \ task[k].sent
  /\ permits' = permits \ {<<p, LaneOf(k)>>}
  /\ task' = [task EXCEPT ![k].sent = @ \union {p}]
  /\ UNCHANGED <<work, present, depth>>

RecordResults(k) ==
  /\ task[k].stage = "sending"
  /\ task[k].sent = task[k].claimed
  /\ task' = [task EXCEPT ![k].stage = "booked"]
  /\ UNCHANGED <<work, present, depth, permits>>

\* Mutant: only the peers an attempt was claimed for give their depth back.
ReleaseClaimed(k) ==
  /\ task[k].stage = "booked"
  /\ release_bulk_admissions_free(task[k].bulk \intersect task[k].claimed)
  /\ task' = [task EXCEPT ![k] = Idle]
  /\ UNCHANGED <<work, present, permits>>

Release(k) ==
  /\ task[k].stage = "booked"
  /\ release_bulk_admissions_free(task[k].bulk)
  /\ task' = [task EXCEPT ![k] = Idle]
  /\ UNCHANGED <<work, present, permits>>

-----------------------------------------------------------------------------
TopicGoes(t) ==
  /\ t \in present
  /\ present' = present \ {t}
  /\ UNCHANGED <<task, work, depth, permits>>

TopicComes(t) ==
  /\ t \notin present
  /\ present' = present \union {t}
  /\ UNCHANGED <<task, work, depth, permits>>

Next ==
  \/ \E k \in Tasks, t \in Topics, targets \in (SUBSET Peers) \ {{}} : Start(k, t, targets)
  \/ \E k \in Tasks : NothingClaimed(k) \/ Spawn(k) \/ RecordResults(k) \/ Release(k)
  \/ \E k \in Tasks, p \in Peers : SendEnds(k, p)
  \/ CollectWork
  \/ \E t \in Topics : SkipDigest(t) \/ Digest(t) \/ TopicGoes(t) \/ TopicComes(t)
  \/ DigestUnclaimed

Spec == Init /\ [][Next]_vars

-----------------------------------------------------------------------------
Held(p) == Cardinality({k \in Tasks : p \in task[k].bulk})

\* A peer's Bulk depth counts exactly the background sends that still hold it,
\* so every path out of a send gives it back once ("callers MUST call
\* release_bulk_admissions_free once the spawned send tasks complete
\* (including on early-return paths)").
DepthReturned == \A p \in Peers : depth[p] = Held(p)

\* No path gives back more than it took: a peer with Bulk sends on their way is
\* never shown with a lower depth, so the threshold keeps bounding them.
DepthCovers == \A p \in Peers : depth[p] >= Held(p)

Owners(p, l) == {k \in Tasks : LaneOf(k) = l /\ p \in task[k].claimed \ task[k].sent}

\* A permit that is out belongs to one send, which will give it back, and a
\* send runs under a permit of its own.
PermitsOwned ==
  \A p \in Peers, l \in {"control", "local"} :
    Cardinality(Owners(p, l)) = IF <<p, l>> \in permits THEN 1 ELSE 0

=============================================================================
