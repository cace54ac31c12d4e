------------------------------ MODULE SendPath ------------------------------
(***************************************************************************)
(* The sends of a node to one peer (parallel_send_to_peers,                *)
(* send_to_peer_bounded_outcome_tracked and what they call in              *)
(* crates/pubsub/src/lib.rs, and admission.rs).  A send reads the priority *)
(* of its topic, reserves bytes, passes admission (which counts Bulk sends *)
(* in a depth), claims an attempt and a permit under the topic lock, waits *)
(* at the Critical gate, passes the fence, is sent, and books its outcome; *)
(* the caller may be cancelled at every await.  The priority is read anew  *)
(* by admission and by the claim.  What a topic knows of the peer's        *)
(* cooling is reduced to the recovery probe and the bypass slot.  The byte *)
(* limiter (Egress) may deny an unprotected send its bytes and may refuse  *)
(* any frame at the fence after a reconfiguration.                         *)
(***************************************************************************)
EXTENDS Naturals, Sequences, FiniteSets, SequencesExt

CONSTANTS
  Sends,        \* sends that may be in progress at once
  Topics,
  Shapes,       \* topic, operation and origin of the sends
  Priorities,   \* the priorities each topic may be registered with
  Depth,        \* per_peer_bulk_slack_threshold
  GateCap       \* OUTBOUND_CRITICAL_QUEUE_PER_PEER

VARIABLES
  send,         \* the progress of each send
  registry,     \* TopicPriorityRegistry
  depth,        \* bulk_depth of the peer
  lanes,        \* the in-flight counters of PeerOutboundBudgetEntry
  gate,         \* CriticalPeerSlot: the count and the line at the semaphore
  cooling       \* per topic, the peer's PeerCoolingState

vars == <<send, registry, depth, lanes, gate, cooling>>

NoOne == "none"
Stages == {"idle", "reserved", "admitted", "gate", "sending", "leaving", "done", "cancelled"}
Outcomes == {"none", "Sent", "TimedOut", "NotConnected", "Err"}
Kinds == {"none", "Normal", "RecoveryProbe", "CooldownBypass"}
Lanes == {"local", "best_effort", "control"}

Idle == [stage |-> "idle"]
Active(s) == send[s].stage # "idle"

Started(shape) ==
  [stage |-> "reserved", shape |-> shape, priority |-> registry[shape.topic],
   guard |-> FALSE, lane |-> "none", kind |-> "none", outcome |-> "none"]

Holding(l) == {s \in Sends : Active(s) /\ send[s].lane = l}

TypeOK ==
  /\ \A s \in Sends :
       \/ send[s] = Idle
       \/ send[s] \in [stage : Stages, shape : Shapes, guard : BOOLEAN,
                       priority : {"Critical", "Normal", "Bulk", "none"},
                       lane : Lanes \union {"none", "critical"}, kind : Kinds, outcome : Outcomes]
  /\ registry \in [Topics -> {"Critical", "Normal", "Bulk"}]
  /\ \A t \in Topics : cooling[t].state \in {"clear", "cooling", "due"}

Init ==
  /\ send = [s \in Sends |-> Idle]
  /\ registry \in [Topics -> {"Critical", "Normal", "Bulk"}]
  /\ \A t \in Topics : registry[t] \in Priorities[t]
  /\ depth = 0
  /\ lanes = [l \in Lanes |-> 0]
  /\ gate = [queued |-> 0, line |-> <<>>]
  /\ cooling = [t \in Topics |-> [state |-> "clear", probe |-> NoOne, bypass |-> TRUE]]

Advance(s, changes) == send' = [send EXCEPT ![s] = changes]

-----------------------------------------------------------------------------
(* The environment: priorities and the clock of the cooling.               *)

register(t, p) ==
  /\ p \in Priorities[t] \ {registry[t]}
  /\ registry' = [registry EXCEPT ![t] = p]
  /\ UNCHANGED <<send, depth, lanes, gate, cooling>>

suppression_expired(t) ==
  /\ cooling[t].state = "cooling"
  /\ cooling' = [cooling EXCEPT ![t].state = "due"]
  /\ UNCHANGED <<send, registry, depth, lanes, gate>>

cooldown_bypass_due(t) ==
  /\ ~cooling[t].bypass
  /\ cooling' = [cooling EXCEPT ![t].bypass = TRUE]
  /\ UNCHANGED <<send, registry, depth, lanes, gate>>

-----------------------------------------------------------------------------
(* Bytes: an own or Critical send is charged and never denied; another one *)
(* may be denied, and ends here.                                           *)

Protected(shape) == registry[shape.topic] = "Critical" \/ shape.local

Reserve(s, shape) ==
  /\ send[s] = Idle
  /\ \/ Advance(s, Started(shape))
     \/ ~Protected(shape) /\ UNCHANGED send
  /\ UNCHANGED <<registry, depth, lanes, gate, cooling>>

-----------------------------------------------------------------------------
(* Admission, under a fresh reading of the priority.                       *)

effective_health(priority, health, connected) ==
  IF priority = "Normal" /\ connected = "yes" THEN "unknown" ELSE health

is_peer_cooled_for_admission(t) ==
  /\ cooling[t].state # "clear"
  /\ ~(cooling[t].state = "due" /\ cooling[t].probe = NoOne)
  /\ ~(cooling[t].state = "cooling" /\ cooling[t].bypass)

admit_bulk(t, health) ==
  /\ health \notin {"Suspect", "Dead"}
  /\ ~is_peer_cooled_for_admission(t)
  /\ depth < Depth

admit(t, health) ==
  CASE registry[t] = "Critical" -> TRUE
    [] registry[t] = "Normal" -> health \notin {"Suspect", "Dead"}
    [] OTHER -> admit_bulk(t, health)

\* The guard that gives the depth back is armed by the priority the send read
\* first.  A fan-out drops a disconnected peer here; a single send does not.
filter_peers_through_admission(s, health, connected) ==
  /\ Active(s)
  /\ send[s].stage = "reserved"
  /\ LET t == send[s].shape.topic
         shown == effective_health(send[s].priority, health, connected)
     IN IF admit(t, shown) /\ ~(send[s].shape.op = "EAGER" /\ connected = "no")
        THEN /\ Advance(s, [send[s] EXCEPT !.stage = "admitted", !.priority = "none",
                                           !.guard = send[s].priority = "Bulk"])
             /\ depth' = IF registry[t] = "Bulk" THEN depth + 1 ELSE depth
        ELSE Advance(s, Idle) /\ UNCHANGED depth
  /\ UNCHANGED <<registry, lanes, gate, cooling>>

\* Mutant: the depth is not given back at a depth of one.
ReleaseOffByOne(s) ==
  IF send[s].guard /\ depth > 1 THEN depth - 1 ELSE depth

release_bulk(s) ==
  IF send[s].guard /\ depth > 0 THEN depth - 1 ELSE depth

-----------------------------------------------------------------------------
(* The claim: an attempt of the topic and a permit of the peer, under the  *)
(* topic lock.                                                             *)

LaneOf(s) ==
  CASE send[s].shape.op # "EAGER" -> "control"
    [] registry[send[s].shape.topic] = "Critical" -> "critical"
    [] send[s].shape.local -> "local"
    [] OTHER -> "best_effort"

\* The kind of attempt the cooling state allows, or "none".
claim_send_attempt(s) ==
  LET c == cooling[send[s].shape.topic]
      critical_data == LaneOf(s) = "critical"
  IN CASE c.state = "cooling" /\ critical_data -> "Normal"
       [] c.state = "cooling" -> IF c.bypass /\ c.probe = NoOne THEN "CooldownBypass" ELSE "none"
       [] c.state = "due" /\ c.probe = NoOne -> "RecoveryProbe"
       [] c.state = "due" -> IF critical_data THEN "Normal" ELSE "none"
       [] OTHER -> "Normal"

try_acquire(l) ==
  IF l = "critical" THEN gate.queued < GateCap ELSE lanes[l] = 0

\* The claim counts the permit.
Acquire(l) ==
  /\ gate' = IF l = "critical" THEN [gate EXCEPT !.queued = @ + 1] ELSE gate
  /\ lanes' = IF l = "critical" THEN lanes ELSE [lanes EXCEPT ![l] = @ + 1]

\* Mutant: a probe claimed without a permit stays booked (issue 105).
ClaimKeepingProbe(s, connected) ==
  /\ Active(s)
  /\ send[s].stage = "admitted"
  /\ LET t == send[s].shape.topic
         kind == claim_send_attempt(s)
         l == LaneOf(s)
     IN IF connected = "no" \/ kind = "none" \/ ~try_acquire(l)
        THEN /\ Advance(s, Idle)
             /\ depth' = release_bulk(s)
             /\ cooling' = IF connected # "no" /\ kind = "RecoveryProbe"
                           THEN [cooling EXCEPT ![t].probe = s] ELSE cooling
             /\ UNCHANGED <<lanes, gate>>
        ELSE /\ Advance(s, [send[s] EXCEPT !.stage = "gate", !.lane = l, !.kind = kind])
             /\ Acquire(l)
             /\ cooling' = IF kind = "RecoveryProbe"
                           THEN [cooling EXCEPT ![t].probe = s] ELSE cooling
             /\ UNCHANGED depth
  /\ UNCHANGED <<registry>>

\* The probe and the bypass slot are kept only with a permit; without one the
\* probe is abandoned and the send ends as a skip.
claim_topic_send_attempts(s, connected) ==
  /\ Active(s)
  /\ send[s].stage = "admitted"
  /\ LET t == send[s].shape.topic
         kind == claim_send_attempt(s)
         l == LaneOf(s)
     IN IF connected = "no" \/ kind = "none" \/ ~try_acquire(l)
        THEN /\ Advance(s, Idle)
             /\ depth' = release_bulk(s)
             /\ UNCHANGED <<lanes, gate, cooling>>
        ELSE /\ Advance(s, [send[s] EXCEPT !.stage = "gate", !.lane = l, !.kind = kind])
             /\ Acquire(l)
             /\ cooling' = CASE kind = "RecoveryProbe" -> [cooling EXCEPT ![t].probe = s]
                             [] kind = "CooldownBypass" -> [cooling EXCEPT ![t].bypass = FALSE]
                             [] OTHER -> cooling
             /\ UNCHANGED depth
  /\ UNCHANGED <<registry>>

-----------------------------------------------------------------------------
(* The spawned send task.  A Critical one queues at the semaphore, whose   *)
(* first in line holds it, or gives up its reservation after the timeout.  *)

InLine(s) == s \in Range(gate.line)
Holder(s) == gate.line # <<>> /\ Head(gate.line) = s
LeaveLine(s) == SelectSeq(gate.line, LAMBDA x : x # s)

Queue(s) ==
  /\ Active(s)
  /\ send[s].stage = "gate"
  /\ send[s].lane = "critical"
  /\ ~InLine(s)
  /\ gate' = [gate EXCEPT !.line = Append(@, s)]
  /\ UNCHANGED <<send, registry, depth, lanes, cooling>>

\* Mutant: every reservation that is queued may send.
EngageAnyone(s) ==
  /\ Active(s)
  /\ send[s].stage = "gate"
  /\ send[s].lane = "critical" => InLine(s)
  /\ Advance(s, [send[s] EXCEPT !.stage = "sending"])
  /\ UNCHANGED <<registry, depth, lanes, gate, cooling>>

engage_critical_gate(s) ==
  /\ Active(s)
  /\ send[s].stage = "gate"
  /\ send[s].lane = "critical" => Holder(s)
  /\ Advance(s, [send[s] EXCEPT !.stage = "sending"])
  /\ UNCHANGED <<registry, depth, lanes, gate, cooling>>

\* Mutant: a reservation that timed out keeps its place in the queue count.
TimeoutKeepingPlace(s) ==
  /\ Active(s)
  /\ send[s].stage = "gate"
  /\ send[s].lane = "critical"
  /\ gate' = [gate EXCEPT !.line = LeaveLine(s)]
  /\ Advance(s, [send[s] EXCEPT !.stage = "done", !.lane = "none", !.outcome = "TimedOut"])
  /\ UNCHANGED <<registry, depth, lanes, cooling>>

GateTimeout(s) ==
  /\ Active(s)
  /\ send[s].stage = "gate"
  /\ send[s].lane = "critical"
  /\ gate' = [queued |-> gate.queued - 1, line |-> LeaveLine(s)]
  /\ Advance(s, [send[s] EXCEPT !.stage = "done", !.lane = "none", !.outcome = "TimedOut"])
  /\ UNCHANGED <<registry, depth, lanes, cooling>>

\* The fence refuses a frame (an error) whose reservation is no longer valid.
send_to_peer_with_timeout(s, outcome) ==
  /\ Active(s)
  /\ send[s].stage = "sending"
  /\ Advance(s, [send[s] EXCEPT !.stage = "leaving", !.outcome = outcome])
  /\ UNCHANGED <<registry, depth, lanes, gate, cooling>>

\* Release of a lane; the counters stop at zero.
release(l) == IF l \in Lanes /\ lanes[l] > 0 THEN [lanes EXCEPT ![l] = @ - 1] ELSE lanes

\* Mutant: a hold frees its place in the queue before it frees the semaphore.
HoldDropReversed(s) ==
  /\ Active(s)
  /\ send[s].stage = "leaving"
  /\ lanes' = release(send[s].lane)
  /\ IF send[s].lane = "critical" /\ gate.queued = Cardinality(Holding("critical"))
     THEN gate' = [gate EXCEPT !.queued = @ - 1] /\ UNCHANGED send
     ELSE /\ gate' = [gate EXCEPT !.line = LeaveLine(s)]
          /\ Advance(s, [send[s] EXCEPT !.stage = "done", !.lane = "none"])
  /\ UNCHANGED <<registry, depth, cooling>>

\* The end of the task drops its permit: the lane, or the semaphore first and
\* the place in the queue after it.
DropPermit(s) ==
  /\ Active(s)
  /\ send[s].stage = "leaving"
  /\ lanes' = release(send[s].lane)
  /\ IF InLine(s)
     THEN gate' = [gate EXCEPT !.line = LeaveLine(s)] /\ UNCHANGED send
     ELSE /\ gate' = IF send[s].lane = "critical" THEN [gate EXCEPT !.queued = @ - 1] ELSE gate
          /\ Advance(s, [send[s] EXCEPT !.stage = "done", !.lane = "none"])
  /\ UNCHANGED <<registry, depth, cooling>>

-----------------------------------------------------------------------------
(* Booking.  Only the probe of this send changes a suppressed peer; a      *)
(* timeout of an unsuppressed one may suppress it (the window and the      *)
(* floor of TopicMesh decide).  Of an error only a probe is booked, except *)
(* by a fan-out, which books every attempt that failed.                    *)

BooksTimeout(s) ==
  \/ send[s].outcome = "TimedOut"
  \/ send[s].outcome = "Err" /\ (send[s].kind = "RecoveryProbe" \/ send[s].shape.op = "EAGER")

Booked(s) ==
  LET t == send[s].shape.topic
      c == cooling[t]
      mine == send[s].kind = "RecoveryProbe" /\ c.probe = s
  IN CASE send[s].outcome = "NotConnected" ->
            {[state |-> "clear", probe |-> NoOne, bypass |-> TRUE]}
       [] send[s].outcome = "Sent" /\ mine -> {[c EXCEPT !.state = "clear", !.probe = NoOne]}
       [] BooksTimeout(s) /\ mine -> {[c EXCEPT !.state = "cooling", !.probe = NoOne]}
       [] BooksTimeout(s) /\ send[s].kind = "Normal" /\ c.state = "clear" ->
            {c, [c EXCEPT !.state = "cooling", !.probe = NoOne]}
       [] OTHER -> {c}

book_topic_send_attempt_results(s) ==
  /\ Active(s)
  /\ send[s].stage = "done"
  /\ \E c \in Booked(s) : cooling' = [cooling EXCEPT ![send[s].shape.topic] = c]
  /\ depth' = release_bulk(s)
  /\ Advance(s, Idle)
  /\ UNCHANGED <<registry, lanes, gate>>

-----------------------------------------------------------------------------
(* Cancellation: the future of the send is dropped.  A relayed fan-out     *)
(* whose tasks run has handed its accounting to a task of its own.  The    *)
(* guard gives the depth back at once; the send task ends when it is next  *)
(* scheduled, and a probe is booked as timed out by a spawned task.        *)

Cancellable(s) ==
  \/ send[s].stage \in {"reserved", "admitted"}
  \/ send[s].stage \in {"gate", "sending", "done"} /\ (send[s].shape.local \/ send[s].shape.op # "EAGER")

\* The cancelled send, once both its permit and its probe are resolved, is idle.
Resolved(r) == IF r.lane = "none" /\ r.kind # "RecoveryProbe" THEN Idle ELSE r

Cancel(s) ==
  /\ Active(s)
  /\ Cancellable(s)
  /\ Advance(s, Resolved([send[s] EXCEPT !.stage = "cancelled", !.guard = FALSE]))
  /\ depth' = release_bulk(s)
  /\ UNCHANGED <<registry, lanes, gate, cooling>>

AbortOnDrop(s) ==
  /\ Active(s)
  /\ send[s].stage = "cancelled"
  /\ send[s].lane # "none"
  /\ lanes' = release(send[s].lane)
  /\ gate' = IF send[s].lane = "critical"
             THEN [queued |-> gate.queued - 1, line |-> LeaveLine(s)] ELSE gate
  /\ Advance(s, Resolved([send[s] EXCEPT !.lane = "none"]))
  /\ UNCHANGED <<registry, depth, cooling>>

BookCancelled(s) ==
  /\ Active(s)
  /\ send[s].stage = "cancelled"
  /\ send[s].kind = "RecoveryProbe"
  /\ cooling' = IF cooling[send[s].shape.topic].probe = s
                THEN [cooling EXCEPT ![send[s].shape.topic].state = "cooling",
                                     ![send[s].shape.topic].probe = NoOne]
                ELSE cooling
  /\ Advance(s, Resolved([send[s] EXCEPT !.kind = "none"]))
  /\ UNCHANGED <<registry, depth, lanes, gate>>

-----------------------------------------------------------------------------
Step(s) ==
  \/ \E shape \in Shapes : Reserve(s, shape)
  \/ \E h \in {"Alive", "Suspect", "Dead", "unknown"}, c \in {"yes", "no", "unknown"} :
       filter_peers_through_admission(s, h, c)
  \/ \E c \in {"yes", "no"} : claim_topic_send_attempts(s, c)
  \/ Queue(s)
  \/ engage_critical_gate(s)
  \/ GateTimeout(s)
  \/ \E o \in Outcomes \ {"none"} : send_to_peer_with_timeout(s, o)
  \/ DropPermit(s)
  \/ book_topic_send_attempt_results(s)
  \/ Cancel(s)
  \/ AbortOnDrop(s)
  \/ BookCancelled(s)

Next ==
  \/ \E s \in Sends : Step(s)
  \/ \E t \in Topics : suppression_expired(t) \/ cooldown_bypass_due(t)
  \/ \E t \in Topics, p \in {"Critical", "Normal", "Bulk"} : register(t, p)

Spec == Init /\ [][Next]_vars

-----------------------------------------------------------------------------
\* Every permit is given back exactly once, whether the send ends, times out
\* at the gate or is cancelled: the in-flight counters equal the permits that
\* are out, no lane has two, and the queue count never admits more reservations
\* and holds than its bound (PeerOutboundBudgets, CriticalSendGate).
PermitsExact ==
  /\ \A l \in Lanes : lanes[l] = Cardinality(Holding(l)) /\ lanes[l] <= 1
  /\ gate.queued = Cardinality(Holding("critical"))
  /\ gate.queued <= GateCap
  /\ Range(gate.line) \subseteq Holding("critical")

\* One Critical frame at a time is on its way to a peer
\* (OUTBOUND_CRITICAL_DATA_PERMITS_PER_PEER).
OneCritical ==
  Cardinality({s \in Holding("critical") : send[s].stage = "sending"}) <= 1

\* The peer's Bulk depth counts exactly the sends whose guard will give it
\* back, on every path out of a send ("the depth counter must never leak").
DepthNeverLeaks == depth = Cardinality({s \in Sends : Active(s) /\ send[s].guard})

\* A recovery probe in flight belongs to a send that will still book it, so no
\* refused permit, error or cancellation leaves a peer suppressed for good
\* (abandon_unsent_recovery_probe, Drop for SendAttemptClaims).
ProbeOwned ==
  \A t \in Topics : cooling[t].probe # NoOne =>
    LET s == cooling[t].probe
    IN Active(s) /\ send[s].shape.topic = t /\ send[s].kind = "RecoveryProbe"

=============================================================================
