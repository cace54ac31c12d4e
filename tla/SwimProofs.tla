----------------------------- MODULE SwimProofs -----------------------------
(***************************************************************************)
(* Proofs about the SWIM detector for any set of peers and any number of   *)
(* concurrent handlers: the type invariant, and that an answer always wins *)
(* over the timeout it races with.                                         *)
(***************************************************************************)
EXTENDS Swim, TLAPS

\* A leaf is proved by Zenon unless it names another prover.
USE Zenon

LEMMA AnyPeerType == AnyPeer \in Peers
  BY SetAssumption DEF AnyPeer

LEMMA AgeType == 0 \in Age /\ \A a \in Age : Older(a) \in Age
  BY SMT, TimeoutAssumption DEF Age, MaxAge, Older

LEMMA GotoType ==
  ASSUME TypeOK, NEW h \in Handlers, NEW at \in HandlerPc, NEW p \in Peers,
         Goto(h, at, p)
  PROVE  hpc' \in [Handlers -> HandlerPc] /\ hpeer' \in [Handlers -> Peers]
  BY AnyPeerType DEF TypeOK, Goto

LEMMA InitType == Init => TypeOK
  BY SMT, AnyPeerType, AgeType, SetAssumption
     DEF Init, TypeOK, PeerState, HandlerPc

\* Every variable keeps its type.
THEOREM TypeCorrect == Spec => []TypeOK
<1>1. Init => TypeOK
  BY InitType
<1>2. TypeOK /\ [Next]_vars => TypeOK'
  <2> SUFFICES ASSUME TypeOK, [Next]_vars PROVE TypeOK'
    OBVIOUS
  <2> USE AnyPeerType, AgeType
  <2>1. ASSUME NEW p \in Peers,
               \/ HandlePing(p) \/ CallMarkAlive(p) \/ CallMarkDead(p) \/ CallRemovePeer(p)
        PROVE  TypeOK'
    BY SMT, <2>1 DEF TypeOK, PeerState, HandlePing, CallMarkAlive, CallMarkDead,
       CallRemovePeer, SetAlive, SetState, handlers, timeoutTask, network
  <2>2. ASSUME NEW p \in Peers, Probe(p) \/ CallMarkSuspect(p) \/ CallRecordProbe(p)
        PROVE  TypeOK'
    <3>1. CASE Probe(p)
      <4>1. ackSince' \in [Peers -> BOOLEAN]
        BY <3>1, Zenon DEF TypeOK, Probe
      <4>2. pinged' \in SUBSET Peers
        BY <3>1 DEF TypeOK, Probe
      <4>3. toProbe' \in SUBSET Peers /\ pending' \in SUBSET Peers
        BY <3>1 DEF TypeOK, Probe
      <4>4. UNCHANGED <<states, since, probeAge, indirect, requestAge, handlers,
                        timeoutTask, crashed, acks>>
        BY <3>1 DEF Probe
      <4>5. QED
        BY <4>1, <4>2, <4>3, <4>4 DEF TypeOK, handlers, timeoutTask
    <3>2. CASE CallMarkSuspect(p)
      BY <3>2 DEF TypeOK, PeerState, CallMarkSuspect, handlers, timeoutTask, network
    <3>3. CASE CallRecordProbe(p)
      BY <3>3 DEF TypeOK, CallRecordProbe, handlers, network
    <3>4. QED
      BY <2>2, <3>1, <3>2, <3>3
  <2>3. ASSUME NEW p \in Peers, Answer(p) \/ LosePing(p) \/ Crash(p)
        PROVE  TypeOK'
    BY SMT, <2>3, SetAssumption DEF TypeOK, Answer, LosePing, Crash, tables, handlers,
       timeoutTask
  <2>4. ASSUME NEW h \in Handlers, NEW p \in Peers,
               HandleAck(h, p) \/ HandleAckResponse(h, p)
        PROVE  TypeOK'
    <3>1. PICK at \in {"mark", "markTarget"} : ClearProbe(h, p, at)
      BY <2>4 DEF HandleAck, HandleAckResponse
    <3>2. hpc' \in [Handlers -> HandlerPc] /\ hpeer' \in [Handlers -> Peers]
      BY <3>1, GotoType DEF ClearProbe, HandlerPc
    <3>3. acks' \in [Peers -> 0..MaxAcks]
      BY SMT, <3>1, SetAssumption DEF TypeOK, ClearProbe
    <3>4. QED
      BY <3>1, <3>2, <3>3 DEF TypeOK, ClearProbe, RemoveProbe
  <2>5. ASSUME NEW h \in Handlers, NEW p \in Peers, NEW q \in Requesters,
               HandlePingReq(h, p, q)
        PROVE  TypeOK'
    <3>1. hpc' \in [Handlers -> HandlerPc] /\ hpeer' \in [Handlers -> Peers]
      BY <2>5, GotoType DEF HandlePingReq, HandlerPc
    <3>2. indirect' \in SUBSET (Peers \X Requesters)
      BY <2>5 DEF TypeOK, HandlePingReq, ExpiredRequests
    <3>3. requestAge' \in [Peers \X Requesters -> Age]
      BY <2>5 DEF TypeOK, HandlePingReq
    <3>4. QED
      BY <2>5, <3>1, <3>2, <3>3 DEF TypeOK, HandlePingReq, timeoutTask, network
  <2>6. ASSUME NEW h \in Handlers, HandlerStep(h)
        PROVE  TypeOK'
    <3>1. CASE MarkAlive(h)
      <4>1. hpc' \in [Handlers -> HandlerPc] /\ hpeer' \in [Handlers -> Peers]
        BY <3>1, GotoType DEF MarkAlive, HandlerPc, TypeOK
      <4>2. QED
        BY <3>1, <4>1 DEF TypeOK, PeerState, MarkAlive, SetAlive, SetState, timeoutTask,
           network
    <3>2. CASE TakeRequesters(h)
      <4>1. hpc' \in [Handlers -> HandlerPc] /\ hpeer' \in [Handlers -> Peers]
        BY <3>2, GotoType DEF TakeRequesters, HandlerPc, TypeOK
      <4>2. \A r \in indirect : r \in Peers \X Requesters /\ r[2] \in Requesters
        BY DEF TypeOK
      <4>3. hreq' \in [Handlers -> SUBSET Requesters]
        BY SMT, <3>2, <4>2 DEF TypeOK, TakeRequesters
      <4>4. indirect' \in SUBSET (Peers \X Requesters)
        BY <3>2 DEF TypeOK, TakeRequesters, KeepRequests
      <4>5. requestAge' \in [Peers \X Requesters -> Age]
        BY <3>2 DEF TypeOK, TakeRequesters, KeepRequests
      <4>6. QED
        BY <3>2, <4>1, <4>3, <4>4, <4>5 DEF TypeOK, TakeRequesters, timeoutTask, network
    <3>3. CASE ForwardAck(h) \/ ForwardAckFails(h)
      <4>1. hpc' \in [Handlers -> HandlerPc] /\ hpeer' \in [Handlers -> Peers]
        BY <3>3, GotoType DEF ForwardAck, ForwardAckFails, HandlerPc, TypeOK
      <4>2. QED
        BY <3>3, <4>1 DEF TypeOK, ForwardAck, ForwardAckFails, tables, timeoutTask,
           network
    <3>4. CASE RelayPing(h)
      <4>1. hpc' \in [Handlers -> HandlerPc] /\ hpeer' \in [Handlers -> Peers]
        BY <3>4, GotoType DEF RelayPing, HandlerPc, TypeOK
      <4>2. QED
        BY <3>4, <4>1 DEF TypeOK, RelayPing, tables, timeoutTask
    <3>5. CASE RelayPingFails(h)
      <4>1. hpc' \in [Handlers -> HandlerPc] /\ hpeer' \in [Handlers -> Peers]
        BY <3>5, GotoType DEF RelayPingFails, HandlerPc, TypeOK
      <4>2. requestAge' \in [Peers \X Requesters -> Age]
        BY <3>5 DEF TypeOK, RelayPingFails, KeepRequests
      <4>3. QED
        BY <3>5, <4>1, <4>2 DEF TypeOK, RelayPingFails, KeepRequests, timeoutTask, network
    <3>6. QED
      BY <2>6, <3>1, <3>2, <3>3, <3>4, <3>5 DEF HandlerStep
  <2>7. CASE ProbeTick
    BY <2>7 DEF TypeOK, ProbeTick, Choices, AlivePeers, tables, handlers, timeoutTask,
       network
  <2>8. CASE TimeoutStep
    <3>1. CASE TimeoutScan
      BY <3>1 DEF TypeOK, TimeoutScan, tables, handlers, network
    <3>2. CASE Recheck
      BY <3>2 DEF TypeOK, PeerState, Recheck, NextTimedOut, handlers, network
    <3>3. CASE ClearTimedOut
      BY <3>3 DEF TypeOK, ClearTimedOut, RemoveProbe, handlers, network
    <3>4. CASE AskHelpers
      BY <3>4 DEF TypeOK, AskHelpers, NextTimedOut, tables, handlers
    <3>5. QED
      BY <2>8, <3>1, <3>2, <3>3, <3>4 DEF TimeoutStep
  <2>9. CASE SuspectScan
    BY <2>9 DEF TypeOK, PeerState, SuspectScan, handlers, timeoutTask, network
  <2>10. ASSUME NEW connected \in SUBSET (Peers \union Requesters), Prune(connected)
         PROVE  TypeOK'
    BY <2>10 DEF TypeOK, PeerState, Prune, KeepRequests, handlers, network
  <2>11. CASE Tick
    BY <2>11 DEF TypeOK, Tick, handlers, network
  <2>12. CASE UNCHANGED vars
    BY <2>12 DEF TypeOK, vars
  <2>13. QED
    BY <2>1, <2>2, <2>3, <2>4, <2>5, <2>6, <2>7, <2>8, <2>9, <2>10, <2>11, <2>12 DEF Next
<1>3. QED
  BY <1>1, <1>2, PTL DEF Spec

\* What AnswerWinsInductive speaks about is all that a step can disturb.
LEMMA AnswerFrame ==
  ASSUME AnswerWinsInductive,
         UNCHANGED <<states, pending, scanned, hpc, hpeer, ackSince>>
  PROVE  AnswerWinsInductive'
  BY DEF AnswerWinsInductive, AnswerWins

\* A handler that is not about to mark a peer alive witnesses nothing, so it may
\* move on to any section.
LEMMA AnswerOtherSection ==
  ASSUME TypeOK, AnswerWinsInductive, NEW h \in Handlers, NEW at \in HandlerPc,
         NEW p \in Peers, hpc[h] \notin {"mark", "markTarget"}, Goto(h, at, p),
         UNCHANGED <<states, pending, scanned, ackSince>>
  PROVE  AnswerWinsInductive'
  BY DEF TypeOK, AnswerWinsInductive, AnswerWins, Goto

\* A state table written for one peer with anything but "Suspect".
LEMMA AnswerNotSuspect ==
  ASSUME TypeOK, AnswerWinsInductive, NEW p \in Peers,
         NEW state \in {"None", "Alive", "Dead"},
         states' = [states EXCEPT ![p] = state],
         UNCHANGED <<pending, scanned, hpc, hpeer, ackSince>>
  PROVE  AnswerWinsInductive'
  BY DEF TypeOK, AnswerWinsInductive, AnswerWins

\* The whole invariant of the failure detector: beyond the types, a pending
\* probe is one that nobody has answered since it was recorded, and what the
\* timeout task collected is still pending until it is cleared (record_probe,
\* handle_ack, spawn_probe_timeout_task).
THEOREM InvariantTheorem == Spec => []SwimInvariant
<1>1. Init => AnswerWinsInductive
  BY DEF Init, AnswerWinsInductive, AnswerWins
<1>2. TypeOK /\ AnswerWinsInductive /\ [Next]_vars => AnswerWinsInductive'
  <2> SUFFICES ASSUME TypeOK, AnswerWinsInductive, [Next]_vars
               PROVE  AnswerWinsInductive'
    OBVIOUS
  <2>1. ASSUME NEW p \in Peers,
               \/ HandlePing(p) \/ CallMarkAlive(p) \/ CallMarkDead(p) \/ CallRemovePeer(p)
        PROVE  AnswerWinsInductive'
    <3>1. PICK state \in {"None", "Alive", "Dead"} :
            states' = [states EXCEPT ![p] = state]
      BY <2>1 DEF HandlePing, CallMarkAlive, CallMarkDead, CallRemovePeer, SetAlive,
         SetState
    <3>2. UNCHANGED <<pending, scanned, hpc, hpeer, ackSince>>
      BY <2>1 DEF HandlePing, CallMarkAlive, CallMarkDead, CallRemovePeer, handlers,
         timeoutTask
    <3>3. QED
      BY <3>1, <3>2, AnswerNotSuspect
  <2>2. ASSUME NEW p \in Peers, Probe(p) \/ CallMarkSuspect(p) \/ CallRecordProbe(p)
        PROVE  AnswerWinsInductive'
    <3>1. /\ ackSince'[p] = FALSE
          /\ \A o \in Peers \ {p} : ackSince'[o] = ackSince[o] /\ states'[o] = states[o]
          /\ pending \subseteq pending' /\ pending' \subseteq pending \union {p}
          /\ scanned' \subseteq scanned
          /\ UNCHANGED <<hpc, hpeer>>
      <4>1. CASE Probe(p)
        BY <4>1 DEF Probe, TypeOK, AnswerWinsInductive, handlers, timeoutTask
      <4>2. CASE CallMarkSuspect(p)
        BY <4>2 DEF CallMarkSuspect, TypeOK, handlers, timeoutTask
      <4>3. CASE CallRecordProbe(p)
        BY <4>3 DEF CallRecordProbe, TypeOK, handlers
      <4>4. QED
        BY <2>2, <4>1, <4>2, <4>3
    <3>2. QED
      BY ZenonT(60), <3>1 DEF TypeOK, AnswerWinsInductive, AnswerWins
  <2>3. ASSUME NEW p \in Peers, Answer(p) \/ LosePing(p) \/ Crash(p)
        PROVE  AnswerWinsInductive'
    BY <2>3, AnswerFrame DEF Answer, LosePing, Crash, tables, handlers, timeoutTask
  <2>4. ASSUME NEW h \in Handlers, NEW p \in Peers,
               HandleAck(h, p) \/ HandleAckResponse(h, p)
        PROVE  AnswerWinsInductive'
    <3>1. PICK at \in {"mark", "markTarget"} : ClearProbe(h, p, at)
      BY <2>4 DEF HandleAck, HandleAckResponse
    <3>2. AnswerWins'
      BY <3>1 DEF ClearProbe, Goto, TypeOK, AnswerWinsInductive, AnswerWins
    <3>3. QED
      BY <3>1, <3>2 DEF ClearProbe, RemoveProbe, TypeOK, AnswerWinsInductive
  <2>5. ASSUME NEW h \in Handlers, NEW p \in Peers, NEW q \in Requesters,
               HandlePingReq(h, p, q)
        PROVE  AnswerWinsInductive'
    BY <2>5, AnswerOtherSection DEF HandlePingReq, HandlerPc, timeoutTask
  <2>6. ASSUME NEW h \in Handlers, HandlerStep(h)
        PROVE  AnswerWinsInductive'
    <3>0. hpeer[h] \in Peers
      BY DEF TypeOK
    <3>1. CASE MarkAlive(h)
      BY <3>0, <3>1 DEF MarkAlive, SetAlive, SetState, Goto, TypeOK, AnswerWinsInductive,
         AnswerWins, timeoutTask
    <3>2. CASE TakeRequesters(h)
      BY <3>0, <3>2, AnswerOtherSection DEF TakeRequesters, HandlerPc, timeoutTask
    <3>3. CASE ForwardAck(h) \/ ForwardAckFails(h)
      BY <3>0, <3>3, AnswerOtherSection
         DEF ForwardAck, ForwardAckFails, HandlerPc, tables, timeoutTask
    <3>4. CASE RelayPing(h) \/ RelayPingFails(h)
      BY <3>0, <3>4, AnswerOtherSection
         DEF RelayPing, RelayPingFails, HandlerPc, tables, timeoutTask
    <3>5. QED
      BY <2>6, <3>1, <3>2, <3>3, <3>4 DEF HandlerStep
  <2>7. CASE ProbeTick
    BY <2>7, AnswerFrame DEF ProbeTick, tables, handlers, timeoutTask
  <2>8. CASE TimeoutStep
    <3>1. CASE TimeoutScan
      BY <3>1 DEF TimeoutScan, AnswerWinsInductive, AnswerWins, tables, handlers
    <3>2. CASE Recheck
      <4>1. cur \in scanned => ~ackSince[cur]
        BY DEF AnswerWinsInductive
      <4>2. QED
        BY <3>2, <4>1 DEF Recheck, TypeOK, AnswerWinsInductive, AnswerWins, handlers
    <3>3. CASE ClearTimedOut
      BY <3>3 DEF ClearTimedOut, RemoveProbe, AnswerWinsInductive, AnswerWins, handlers
    <3>4. CASE AskHelpers
      BY <3>4, AnswerFrame DEF AskHelpers, tables, handlers
    <3>5. QED
      BY <2>8, <3>1, <3>2, <3>3, <3>4 DEF TimeoutStep
  <2>9. CASE SuspectScan
    BY <2>9 DEF SuspectScan, TypeOK, AnswerWinsInductive, AnswerWins, handlers, timeoutTask
  <2>10. ASSUME NEW connected \in SUBSET (Peers \union Requesters), Prune(connected)
         PROVE  AnswerWinsInductive'
    BY <2>10 DEF Prune, TypeOK, AnswerWinsInductive, AnswerWins, handlers
  <2>11. CASE Tick
    BY <2>11, AnswerFrame DEF Tick, handlers
  <2>12. CASE UNCHANGED vars
    BY <2>12, AnswerFrame DEF vars
  <2>13. QED
    BY <2>1, <2>2, <2>3, <2>4, <2>5, <2>6, <2>7, <2>8, <2>9, <2>10, <2>11, <2>12 DEF Next
<1>3. QED
  BY <1>1, <1>2, TypeCorrect, PTL DEF Spec, SwimInvariant

\* An answer that began to be handled after the probe was recorded is never
\* overruled by that probe's timeout (handle_ack, spawn_probe_timeout_task).
THEOREM AnswerWinsTheorem == Spec => []AnswerWins
<1>1. SwimInvariant => AnswerWins
  BY DEF SwimInvariant, AnswerWinsInductive
<1>2. QED
  BY <1>1, InvariantTheorem, PTL
=============================================================================
