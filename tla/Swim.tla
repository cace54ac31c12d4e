-------------------------------- MODULE Swim --------------------------------
(***************************************************************************)
(* The SWIM failure detector of one node: SwimDetector in                  *)
(* crates/membership/src/lib.rs.  The probe tables and the state table are *)
(* shared by three interval tasks, by the message handlers and by the      *)
(* membership layer; a step of this module is one section of code that     *)
(* runs under the locks it takes, so every await between two sections is   *)
(* an interleaving point.                                                  *)
(*                                                                         *)
(* Instants are kept as ages in ticks.  An age stops at MaxAge, past both  *)
(* timeouts, so time is unbounded and the state space finite.  An age that *)
(* no code reads is kept at 0.  The probe-timeout task compares Instants   *)
(* only to know whether a probe is the one its scan saw; `scanned` keeps   *)
(* exactly the peers for which it still is.                                *)
(***************************************************************************)
EXTENDS Naturals, FiniteSets

CONSTANTS
  Peers,            \* remote peers this detector may track
  Requesters,       \* remote nodes that may ask it for an indirect probe
  Handlers,         \* concurrent executions of dispatch_swim
  AckTimeout,       \* SWIM_ACK_TIMEOUT_MS, in ticks
  SuspectTimeout,   \* suspect_timeout, in ticks
  ProbeFanout,      \* probe_fanout
  IndirectFanout,   \* SWIM_INDIRECT_PROBE_FANOUT
  InterfaceCalls,   \* whether callers outside the crate use the public
                    \* mark_suspect, remove_peer and record_probe
  MaxAcks           \* bound: answers of one peer on their way at a time

ASSUME TimeoutAssumption ==
  /\ AckTimeout \in Nat \ {0}
  /\ SuspectTimeout \in Nat \ {0}
  /\ AckTimeout <= SuspectTimeout + 1

ASSUME SetAssumption ==
  /\ Peers # {}
  /\ IsFiniteSet(Peers)
  /\ ProbeFanout \in Nat \ {0}
  /\ IndirectFanout \in Nat \ {0}
  /\ MaxAcks \in Nat \ {0}
  /\ InterfaceCalls \in BOOLEAN

MaxAge == SuspectTimeout + 1
Age == 0..MaxAge
AnyPeer == CHOOSE p \in Peers : TRUE
PeerState == {"None", "Alive", "Suspect", "Dead"}

\* A handler with nothing to do has pc "idle"; the others name the section
\* of handle_ack, handle_ack_response or handle_ping_req that runs next.
HandlerPc == {"idle", "mark", "markTarget", "take", "send", "ping"}

VARIABLES
  states,      \* state of each tracked peer, "None" when it has no entry
  since,       \* age of last_update of a suspect
  pending,     \* peers with an entry in pending_probes
  probeAge,    \* age of that entry
  indirect,    \* keys <<target, requester>> of pending_indirect_probes
  requestAge,  \* age of each of those entries
  hpc, hpeer, hreq,           \* handlers: section, peer, requesters left
  tpc, timedOut, scanned, cur, scanAge, \* the probe-timeout task
  toProbe,     \* the probe task: peers of this round left to probe
  crashed,     \* peers that have stopped
  pinged,      \* peers with a Ping of ours on its way
  acks,        \* Acks and AckResponses about each peer on their way
  ackSince     \* history: an answer began to be handled after the evidence
               \* against the peer (its probe, or mark_suspect) was recorded

tables == <<states, since, pending, probeAge, indirect, requestAge>>
handlers == <<hpc, hpeer, hreq>>
timeoutTask == <<tpc, timedOut, scanned, cur, scanAge>>
network == <<crashed, pinged, acks>>
vars == <<states, since, pending, probeAge, indirect, requestAge, hpc, hpeer,
          hreq, tpc, timedOut, scanned, cur, scanAge, toProbe, crashed, pinged,
          acks, ackSince>>

TypeOK ==
  /\ states \in [Peers -> PeerState]
  /\ since \in [Peers -> Age]
  /\ pending \in SUBSET Peers
  /\ probeAge \in [Peers -> Age]
  /\ indirect \in SUBSET (Peers \X Requesters)
  /\ requestAge \in [Peers \X Requesters -> Age]
  /\ hpc \in [Handlers -> HandlerPc]
  /\ hpeer \in [Handlers -> Peers]
  /\ hreq \in [Handlers -> SUBSET Requesters]
  /\ tpc \in {"idle", "recheck", "clear", "ask"}
  /\ timedOut \in SUBSET Peers
  /\ scanned \in SUBSET Peers
  /\ cur \in Peers
  /\ scanAge \in Age
  /\ toProbe \in SUBSET Peers
  /\ crashed \in SUBSET Peers
  /\ pinged \in SUBSET Peers
  /\ acks \in [Peers -> 0..MaxAcks]
  /\ ackSince \in [Peers -> BOOLEAN]

Init ==
  /\ states = [p \in Peers |-> "None"]
  /\ since = [p \in Peers |-> 0]
  /\ pending = {}
  /\ probeAge = [p \in Peers |-> 0]
  /\ indirect = {}
  /\ requestAge = [r \in Peers \X Requesters |-> 0]
  /\ hpc = [h \in Handlers |-> "idle"]
  /\ hpeer = [h \in Handlers |-> AnyPeer]
  /\ hreq = [h \in Handlers |-> {}]
  /\ tpc = "idle"
  /\ timedOut = {}
  /\ scanned = {}
  /\ cur = AnyPeer
  /\ scanAge = 0
  /\ toProbe = {}
  /\ crashed = {}
  /\ pinged = {}
  /\ acks = [p \in Peers |-> 0]
  /\ ackSince = [p \in Peers |-> FALSE]
-----------------------------------------------------------------------------
(* The tables. *)

Older(age) == IF age < MaxAge THEN age + 1 ELSE age

\* states.insert(p, ...) with a state in which no code reads last_update
SetState(p, state) ==
  /\ states' = [states EXCEPT ![p] = state]
  /\ since' = [since EXCEPT ![p] = 0]

\* set_alive / mark_alive
SetAlive(p) == SetState(p, "Alive")

\* pending_probes.remove(p): the scan's probe of p is no longer the pending one
RemoveProbe(p) ==
  /\ pending' = pending \ {p}
  /\ probeAge' = [probeAge EXCEPT ![p] = 0]
  /\ scanned' = scanned \ {p}

ExpiredRequests == {r \in indirect : requestAge[r] >= AckTimeout}

\* pending_indirect_probes holds exactly the requests in keep
KeepRequests(keep) ==
  /\ indirect' = keep
  /\ requestAge' = [r \in Peers \X Requesters |->
                      IF r \in keep THEN requestAge[r] ELSE 0]

AlivePeers == {p \in Peers : states[p] = "Alive"}

\* choose_multiple(rng, k): any k members, or all when there are fewer
Choices(S, k) ==
  {T \in SUBSET S : Cardinality(T) = IF Cardinality(S) < k THEN Cardinality(S) ELSE k}
-----------------------------------------------------------------------------
(* Message handlers. *)

Goto(h, at, p) ==
  /\ hpc' = [hpc EXCEPT ![h] = at]
  /\ hpeer' = [hpeer EXCEPT ![h] = IF at = "idle" THEN AnyPeer ELSE p]

\* handle_ping: the sender is alive; the Ack goes out.  One section.
HandlePing(p) ==
  /\ SetAlive(p)
  /\ UNCHANGED <<pending, probeAge, indirect, requestAge, handlers,
                 timeoutTask, toProbe, network, ackSince>>

\* handle_ack and handle_ack_response begin with clear_probe.
ClearProbe(h, p, next) ==
  /\ hpc[h] = "idle"
  /\ acks[p] > 0
  /\ acks' = [acks EXCEPT ![p] = @ - 1]
  /\ RemoveProbe(p)
  /\ ackSince' = [ackSince EXCEPT ![p] = TRUE]
  /\ Goto(h, next, p)
  /\ UNCHANGED <<states, since, indirect, requestAge, hreq, tpc, timedOut, cur,
                 scanAge, toProbe, crashed, pinged>>

HandleAck(h, p) == ClearProbe(h, p, "mark")
HandleAckResponse(h, p) == ClearProbe(h, p, "markTarget")

\* ... then mark_alive; handle_ack_response ends here.
MarkAlive(h) ==
  /\ hpc[h] \in {"mark", "markTarget"}
  /\ SetAlive(hpeer[h])
  /\ Goto(h, IF hpc[h] = "mark" THEN "take" ELSE "idle", hpeer[h])
  /\ UNCHANGED <<pending, probeAge, indirect, requestAge, hreq, timeoutTask,
                 toProbe, network, ackSince>>

\* take_indirect_probe_requesters
TakeRequesters(h) ==
  LET live == {r \in indirect \ ExpiredRequests : r[1] = hpeer[h]}
      requesters == {r[2] : r \in live}
  IN /\ hpc[h] = "take"
     /\ KeepRequests({r \in indirect \ ExpiredRequests : r[1] # hpeer[h]})
     /\ hreq' = [hreq EXCEPT ![h] = requesters]
     /\ Goto(h, IF requesters = {} THEN "idle" ELSE "send", hpeer[h])
     /\ UNCHANGED <<states, since, pending, probeAge, timeoutTask, toProbe,
                    network, ackSince>>

\* The AckResponse to one requester is sent; the loop goes on.
ForwardAck(h) ==
  /\ hpc[h] = "send"
  /\ \E r \in hreq[h] :
       /\ hreq' = [hreq EXCEPT ![h] = @ \ {r}]
       /\ Goto(h, IF hreq[h] = {r} THEN "idle" ELSE "send", hpeer[h])
  /\ UNCHANGED <<tables, timeoutTask, toProbe, network, ackSince>>

\* send_to_peer fails and `?` leaves the handler.
ForwardAckFails(h) ==
  /\ hpc[h] = "send"
  /\ hreq' = [hreq EXCEPT ![h] = {}]
  /\ Goto(h, "idle", hpeer[h])
  /\ UNCHANGED <<tables, timeoutTask, toProbe, network, ackSince>>

\* handle_ping_req: record_indirect_probe_request ...
HandlePingReq(h, p, q) ==
  /\ hpc[h] = "idle"
  /\ LET keep == (indirect \ ExpiredRequests) \union {<<p, q>>}
     IN /\ indirect' = keep
        /\ requestAge' = [r \in Peers \X Requesters |->
                            IF r \in keep /\ r # <<p, q>> THEN requestAge[r] ELSE 0]
  /\ hreq' = [hreq EXCEPT ![h] = {q}]
  /\ Goto(h, "ping", p)
  /\ UNCHANGED <<states, since, pending, probeAge, timeoutTask, toProbe, network,
                 ackSince>>

\* ... then the Ping to the target,
RelayPing(h) ==
  /\ hpc[h] = "ping"
  /\ pinged' = pinged \union {hpeer[h]}
  /\ hreq' = [hreq EXCEPT ![h] = {}]
  /\ Goto(h, "idle", hpeer[h])
  /\ UNCHANGED <<tables, timeoutTask, toProbe, crashed, acks, ackSince>>

\* or, when that send fails, clear_indirect_probe_request.
RelayPingFails(h) ==
  /\ hpc[h] = "ping"
  /\ KeepRequests(indirect \ {<<hpeer[h], q>> : q \in hreq[h]})
  /\ hreq' = [hreq EXCEPT ![h] = {}]
  /\ Goto(h, "idle", hpeer[h])
  /\ UNCHANGED <<states, since, pending, probeAge, timeoutTask, toProbe, network,
                 ackSince>>
-----------------------------------------------------------------------------
(* The probe task. *)

\* interval.tick(): choose up to probe_fanout alive peers
ProbeTick ==
  /\ toProbe = {}
  /\ toProbe' \in Choices(AlivePeers, ProbeFanout)
  /\ UNCHANGED <<tables, handlers, timeoutTask, network, ackSince>>

\* Mutant: the Ping is sent and not recorded.
ProbeUnrecorded(p) ==
  /\ p \in toProbe
  /\ toProbe' = toProbe \ {p}
  /\ pinged' \in {pinged, pinged \union {p}}
  /\ UNCHANGED <<tables, handlers, timeoutTask, crashed, acks, ackSince>>

\* pending.entry(peer).or_insert_with(now), then the Ping, sent or failed
Probe(p) ==
  /\ p \in toProbe
  /\ toProbe' = toProbe \ {p}
  /\ pending' = pending \union {p}
  /\ ackSince' = [ackSince EXCEPT ![p] = IF p \in pending THEN @ ELSE FALSE]
  /\ pinged' \in {pinged, pinged \union {p}}
  /\ UNCHANGED <<states, since, probeAge, indirect, requestAge, handlers,
                 timeoutTask, crashed, acks>>
-----------------------------------------------------------------------------
(* The probe-timeout task. *)

\* The scan, under the read lock of pending_probes
TimeoutScan ==
  /\ tpc = "idle"
  /\ LET late == {p \in pending : probeAge[p] >= AckTimeout}
     IN /\ late # {}
        /\ timedOut' = late
        /\ scanned' = late
        /\ cur' \in late
  /\ scanAge' = 0
  /\ tpc' = "recheck"
  /\ UNCHANGED <<tables, handlers, toProbe, network, ackSince>>

\* The peer of the loop after cur, or the end of the loop
NextTimedOut ==
  LET rest == timedOut \ {cur}
  IN /\ timedOut' = rest
     /\ IF rest = {}
        THEN tpc' = "idle" /\ cur' = AnyPeer /\ scanAge' = 0
        ELSE tpc' = "recheck" /\ cur' \in rest /\ scanAge' = scanAge

\* Mutant: no re-check of the probe before the write.
RecheckSkipped ==
  /\ tpc = "recheck"
  /\ IF states[cur] = "Alive"
     THEN /\ states' = [states EXCEPT ![cur] = "Suspect"]
          /\ since' = [since EXCEPT ![cur] = scanAge]
     ELSE UNCHANGED <<states, since>>
  /\ tpc' = "clear"
  /\ UNCHANGED <<timedOut, cur, scanAge, scanned, pending, probeAge, indirect,
                 requestAge, handlers, toProbe, network, ackSince>>

\* Mutant: the Instant of the probe, not of the scan, becomes last_update.
RecheckProbeTime ==
  /\ tpc = "recheck"
  /\ cur \in scanned
  /\ states' = [states EXCEPT ![cur] = IF @ = "Alive" THEN "Suspect" ELSE @]
  /\ since' = [since EXCEPT ![cur] = scanAge + probeAge[cur]]
  /\ tpc' = "clear"
  /\ UNCHANGED <<timedOut, cur, scanAge, scanned, pending, probeAge, indirect,
                 requestAge, handlers, toProbe, network, ackSince>>

\* Probe table read-locked and state table write-locked: the probe was
\* answered after the scan (continue), or an alive peer turns suspect, with
\* the Instant of the scan as its last_update.
Recheck ==
  /\ tpc = "recheck"
  /\ IF cur \in scanned
     THEN /\ IF states[cur] = "Alive"
             THEN /\ states' = [states EXCEPT ![cur] = "Suspect"]
                  /\ since' = [since EXCEPT ![cur] = scanAge]
             ELSE UNCHANGED <<states, since>>
          /\ tpc' = "clear"
          /\ UNCHANGED <<timedOut, cur, scanAge>>
     ELSE /\ NextTimedOut
          /\ UNCHANGED <<states, since>>
  /\ UNCHANGED <<scanned, pending, probeAge, indirect, requestAge, handlers,
                 toProbe, network, ackSince>>

\* Mutant: the timed-out probe is not cleared.
ClearTimedOutKeeps ==
  /\ tpc = "clear"
  /\ tpc' = "ask"
  /\ UNCHANGED <<tables, handlers, timedOut, scanned, cur, scanAge, toProbe, network,
                 ackSince>>

\* pending.remove(&peer), in a section of its own
ClearTimedOut ==
  /\ tpc = "clear"
  /\ RemoveProbe(cur)
  /\ tpc' = "ask"
  /\ UNCHANGED <<states, since, indirect, requestAge, handlers, timedOut, cur,
                 scanAge, toProbe, network, ackSince>>

\* PingReq to up to SWIM_INDIRECT_PROBE_FANOUT alive peers, sent or failed.  A
\* helper that is asked, is up, and reaches the peer answers with AckResponse.
AskHelpers ==
  /\ tpc = "ask"
  /\ \E helpers \in Choices(AlivePeers \ {cur}, IndirectFanout) :
       pinged' \in IF helpers \ crashed = {} THEN {pinged}
                   ELSE {pinged, pinged \union {cur}}
  /\ NextTimedOut
  /\ UNCHANGED <<tables, handlers, scanned, toProbe, crashed, acks, ackSince>>
-----------------------------------------------------------------------------
(* The suspect-timeout task: one section under the state lock. *)

SuspectScan ==
  /\ LET late == {p \in Peers : states[p] = "Suspect" /\ since[p] > SuspectTimeout}
     IN /\ late # {}
        /\ states' = [p \in Peers |-> IF p \in late THEN "Dead" ELSE states[p]]
        /\ since' = [p \in Peers |-> IF p \in late THEN 0 ELSE since[p]]
  /\ UNCHANGED <<pending, probeAge, indirect, requestAge, handlers, timeoutTask,
                 toProbe, network, ackSince>>
-----------------------------------------------------------------------------
(* Calls of the membership layer. *)

\* commit_active, handle_neighbor_reply: set_alive
CallMarkAlive(p) ==
  /\ SetAlive(p)
  /\ UNCHANGED <<pending, probeAge, indirect, requestAge, handlers, timeoutTask,
                 toProbe, network, ackSince>>

\* mark_suspect
CallMarkSuspect(p) ==
  /\ InterfaceCalls
  /\ states[p] = "Alive"
  /\ states' = [states EXCEPT ![p] = "Suspect"]
  /\ ackSince' = [ackSince EXCEPT ![p] = FALSE]
  /\ UNCHANGED <<since, pending, probeAge, indirect, requestAge, handlers,
                 timeoutTask, toProbe, network>>

\* remove_active: mark_dead
CallMarkDead(p) ==
  /\ SetState(p, "Dead")
  /\ UNCHANGED <<pending, probeAge, indirect, requestAge, handlers, timeoutTask,
                 toProbe, network, ackSince>>

\* remove_peer
CallRemovePeer(p) ==
  /\ InterfaceCalls
  /\ SetState(p, "None")
  /\ UNCHANGED <<pending, probeAge, indirect, requestAge, handlers, timeoutTask,
                 toProbe, network, ackSince>>

\* record_probe: overwrites a pending probe
CallRecordProbe(p) ==
  /\ InterfaceCalls
  /\ pending' = pending \union {p}
  /\ probeAge' = [probeAge EXCEPT ![p] = 0]
  /\ scanned' = scanned \ {p}
  /\ ackSince' = [ackSince EXCEPT ![p] = FALSE]
  /\ UNCHANGED <<states, since, indirect, requestAge, handlers, tpc, timedOut, cur,
                 scanAge, toProbe, network>>

\* degree maintenance: with every table locked, only connected peers stay
Prune(connected) ==
  /\ states' = [p \in Peers |-> IF p \in connected THEN states[p] ELSE "None"]
  /\ since' = [p \in Peers |-> IF p \in connected THEN since[p] ELSE 0]
  /\ pending' = pending \intersect connected
  /\ probeAge' = [p \in Peers |-> IF p \in connected THEN probeAge[p] ELSE 0]
  /\ scanned' = scanned \intersect connected
  /\ KeepRequests({r \in indirect : r[1] \in connected /\ r[2] \in connected})
  /\ UNCHANGED <<handlers, tpc, timedOut, cur, scanAge, toProbe, network, ackSince>>
-----------------------------------------------------------------------------
(* Time and the peers. *)

Tick ==
  /\ since' = [p \in Peers |-> IF states[p] = "Suspect" THEN Older(since[p]) ELSE since[p]]
  /\ probeAge' = [p \in Peers |-> IF p \in pending THEN Older(probeAge[p]) ELSE probeAge[p]]
  /\ requestAge' = [r \in Peers \X Requesters |->
                      IF r \in indirect THEN Older(requestAge[r]) ELSE requestAge[r]]
  /\ scanAge' = IF tpc = "idle" THEN 0 ELSE Older(scanAge)
  /\ UNCHANGED <<states, pending, indirect, handlers, tpc, timedOut, scanned, cur,
                 toProbe, network, ackSince>>

\* A peer that is up answers a Ping that reached it.
Answer(p) ==
  /\ p \in pinged \ crashed
  /\ acks[p] < MaxAcks
  /\ pinged' = pinged \ {p}
  /\ acks' = [acks EXCEPT ![p] = @ + 1]
  /\ UNCHANGED <<tables, handlers, timeoutTask, toProbe, crashed, ackSince>>

LosePing(p) ==
  /\ p \in pinged
  /\ pinged' = pinged \ {p}
  /\ UNCHANGED <<tables, handlers, timeoutTask, toProbe, crashed, acks, ackSince>>

Crash(p) ==
  /\ p \notin crashed
  /\ crashed' = crashed \union {p}
  /\ UNCHANGED <<tables, handlers, timeoutTask, toProbe, pinged, acks, ackSince>>
-----------------------------------------------------------------------------
HandlerStep(h) ==
  MarkAlive(h) \/ TakeRequesters(h) \/ ForwardAck(h) \/ ForwardAckFails(h)
    \/ RelayPing(h) \/ RelayPingFails(h)

TimeoutStep == TimeoutScan \/ Recheck \/ ClearTimedOut \/ AskHelpers

Next ==
  \/ \E p \in Peers :
       \/ HandlePing(p) \/ Probe(p)
       \/ CallMarkAlive(p) \/ CallMarkSuspect(p) \/ CallMarkDead(p)
       \/ CallRemovePeer(p) \/ CallRecordProbe(p)
       \/ Answer(p) \/ LosePing(p) \/ Crash(p)
       \/ \E h \in Handlers : HandleAck(h, p) \/ HandleAckResponse(h, p)
       \/ \E h \in Handlers, q \in Requesters : HandlePingReq(h, p, q)
  \/ \E h \in Handlers : HandlerStep(h)
  \/ ProbeTick
  \/ TimeoutStep
  \/ SuspectScan
  \/ \E connected \in SUBSET (Peers \union Requesters) : Prune(connected)
  \/ Tick

Spec == Init /\ [][Next]_vars

\* The interval tasks run again and again and a handler that has begun goes on;
\* time passes.  Nothing is assumed of the network, of the peers or of the
\* membership layer's calls.
LiveSpec ==
  /\ Spec
  /\ WF_vars(Tick)
  /\ WF_vars(ProbeTick)
  /\ \A p \in Peers : WF_vars(Probe(p))
  /\ WF_vars(TimeoutStep)
  /\ WF_vars(SuspectScan)
  /\ \A h \in Handlers : WF_vars(HandlerStep(h))
-----------------------------------------------------------------------------
\* handle_ack clears the probe and then marks the peer alive; the timeout task
\* re-checks the probe with the state lock held.  So a peer whose answer began
\* to be handled after the probe against it was recorded is never left
\* suspect: the handler that marks it alive is still to run.
AnswerWins ==
  \A p \in Peers :
    states[p] = "Suspect" /\ ackSince[p] =>
      \E h \in Handlers : hpc[h] \in {"mark", "markTarget"} /\ hpeer[h] = p

\* What makes AnswerWins inductive: a pending probe is one that no answer has
\* cleared, and the probe the timeout scan saw counts only while it is pending.
AnswerWinsInductive ==
  /\ AnswerWins
  /\ \A p \in pending : ~ackSince[p]
  /\ scanned \subseteq pending

\* The inductive invariant of the failure detector.
SwimInvariant == TypeOK /\ AnswerWinsInductive

\* Steps that postpone p's detection from outside: evidence that p is alive
\* other than an answer to a probe, and a caller that restarts p's probe
Postpone(p) == HandlePing(p) \/ CallMarkAlive(p) \/ CallRecordProbe(p)

\* The probe, timeout and suspect tasks together: a tracked peer that has
\* stopped does not stay alive or suspect, once nothing postpones its detection;
\* and no probe stays pending for ever, it is answered, times out or is pruned.
CrashDetected ==
  \A p \in Peers :
    /\ <>[](p \in crashed) /\ <>[][~Postpone(p)]_vars
         => <>[](states[p] \in {"None", "Dead"})
    /\ <>[][~CallRecordProbe(p)]_vars => []<>(p \notin pending)
=============================================================================
