--------------------------- MODULE SessionsProofs ---------------------------
(***************************************************************************)
(* Proofs about the registry of authenticated sessions, for any peers,     *)
(* senders and limits: a frame is stamped with a session of the connection *)
(* it came in on, a guarded send leaves on the connection its session was  *)
(* made for, and a token that left the registry never comes back.          *)
(***************************************************************************)
EXTENDS Sessions, TLAPS

\* A leaf is proved by Zenon unless it names another prover.
USE Zenon

\* The parts of the invariant that a step is shown to keep one by one
TypesOK ==
  /\ gen \in [Peers -> Nat] /\ last \in [Peers -> Nat]
  /\ DOMAIN entries = Peers /\ DOMAIN task = Tasks
  /\ next \in Nat /\ issued \in Seq(Peers \X Nat) /\ next = Len(issued)

EntriesOK == \A p \in Peers : EntryOf(issued, entries[p], p)
TasksOK == \A t \in Tasks : TaskSound(issued, task[t])
FramesOK == FrameProvenance /\ SentOnItsSession

LEMMA InvariantParts ==
  SessionInvariant <=> TypesOK /\ EntriesOK /\ TasksOK /\ FramesOK
  BY DEF SessionInvariant, TypesOK, EntriesOK, TasksOK, FramesOK

LEMMA InvariantPartsNext ==
  TypesOK' /\ EntriesOK' /\ TasksOK' /\ FramesOK' => SessionInvariant'
  BY DEF SessionInvariant, TypesOK, EntriesOK, TasksOK, FramesOK, FrameProvenance,
         SentOnItsSession

\* What was handed out stays handed out.
Longer(tokens, more) ==
  \A token \in DOMAIN tokens : token \in DOMAIN more /\ more[token] = tokens[token]

LEMMA EntryKept ==
  ASSUME NEW tokens, NEW more, Longer(tokens, more), NEW e, NEW p, EntryOf(tokens, e, p)
  PROVE  EntryOf(more, e, p)
  BY DEF Longer, EntryOf, Made

LEMMA TaskKept ==
  ASSUME NEW tokens, NEW more, Longer(tokens, more), NEW x, TaskSound(tokens, x)
  PROVE  TaskSound(more, x)
  BY EntryKept DEF Longer, TaskSound, Made

LEMMA FramesKept ==
  ASSUME FramesOK, Longer(issued, issued'), UNCHANGED <<inbox, sent>>
  PROVE  FramesOK'
  BY DEF FramesOK, FrameProvenance, SentOnItsSession, Longer, Made

LEMMA IdleSound ==
  ASSUME NEW tokens
  PROVE  TaskSound(tokens, Idle)
  BY DEF TaskSound, Idle, EntryOf, NoEntry

LEMMA NoEntryOf ==
  ASSUME NEW tokens, NEW p
  PROVE  EntryOf(tokens, NoEntry, p)
  BY DEF EntryOf, NoEntry

\* A step of one task leaves the others alone.
LEMMA TaskStep ==
  ASSUME TypesOK, TasksOK, NEW t \in Tasks, NEW x,
         task' = [task EXCEPT ![t] = x], TaskSound(issued', x), Longer(issued, issued')
  PROVE  DOMAIN task' = Tasks /\ TasksOK'
  <1>1. DOMAIN task' = Tasks
    BY DEF TypesOK
  <1>2. ASSUME NEW u \in Tasks
        PROVE  TaskSound(issued', task'[u])
    <2>1. CASE u = t
      BY <2>1 DEF TypesOK
    <2>2. CASE u # t
      <3>1. task'[u] = task[u] /\ TaskSound(issued, task[u])
        BY <2>2 DEF TypesOK, TasksOK
      <3> QED
        BY <3>1, TaskKept
    <2> QED
      BY <2>1, <2>2
  <1> QED
    BY <1>1, <1>2 DEF TasksOK

LEMMA InitInvariant == Init => SessionInvariant
  <1> SUFFICES ASSUME Init
               PROVE  SessionInvariant
    OBVIOUS
  <1>1. TypesOK
    BY SMT DEF Init, TypesOK
  <1>2. EntriesOK
    BY DEF Init, EntriesOK, EntryOf, NoEntry
  <1>3. TasksOK
    BY IdleSound DEF Init, TasksOK
  <1>4. FramesOK
    BY DEF Init, FramesOK, FrameProvenance, SentOnItsSession
  <1> QED
    BY <1>1, <1>2, <1>3, <1>4, InvariantParts

\* The generation that a task reads is a number.
LEMMA ReadKeeps ==
  ASSUME SessionInvariant, NEW t \in Tasks, NEW from, NEW found, NEW none,
         from # "idle", found # "idle",
         found \in {"admit", "admitting", "admitted"} => from \in {"admit", "admitting", "admitted"},
         none \in {"admit", "admitting", "admitted"} => from \in {"admit", "admitting", "admitted"},
         ReadGeneration(t, from, found, none)
  PROVE  SessionInvariant'
  <1>0. TypesOK /\ EntriesOK /\ TasksOK /\ FramesOK
    BY InvariantParts
  <1> DEFINE x == IF gen[task[t].peer] = 0 THEN [task[t] EXCEPT !.pc = none, !.got = NoEntry]
                  ELSE [task[t] EXCEPT !.pc = found, !.read = gen[task[t].peer]]
  <1>1. task' = [task EXCEPT ![t] = x] /\ task[t].pc = from
    BY <1>0 DEF ReadGeneration, TypesOK
  <1>2. UNCHANGED <<gen, last, entries, next, inbox, sent, issued>>
    BY DEF ReadGeneration
  <1>3. TaskSound(issued, task[t]) /\ task[t].peer \in Peers
    BY <1>0, <1>1 DEF TasksOK, TaskSound
  <1>4. gen[task[t].peer] \in Nat
    BY <1>0, <1>3 DEF TypesOK
  <1>5. TaskSound(issued, x)
    <2>1. CASE gen[task[t].peer] = 0
      BY <1>1, <1>3, <2>1 DEF TaskSound, EntryOf, NoEntry
    <2>2. CASE gen[task[t].peer] # 0
      BY <1>1, <1>3, <1>4, <2>2 DEF TaskSound
    <2> QED
      BY <2>1, <2>2
  <1> HIDE DEF x
  <1>6. Longer(issued, issued')
    BY <1>2 DEF Longer
  <1>7. DOMAIN task' = Tasks /\ TasksOK'
    BY ZenonT(60), <1>0, <1>1, <1>2, <1>5, <1>6, TaskStep
  <1> QED
    BY ZenonT(60), <1>0, <1>2, <1>6, <1>7, FramesKept, InvariantPartsNext DEF TypesOK, EntriesOK

\* A session that is registered is the entry of this connection, or a new one
\* made for it.
LEMMA RegisterKeeps ==
  ASSUME SessionInvariant, NEW t \in Tasks, NEW from, NEW then, from # "idle",
         then \in {"admit", "admitting", "admitted"} => from \in {"admit", "admitting", "admitted"},
         Register(t, from, then)
  PROVE  SessionInvariant' /\ NoResurrectionStep
  <1>0. TypesOK /\ EntriesOK /\ TasksOK /\ FramesOK
    BY InvariantParts
  <1> DEFINE p == task[t].peer
             g == task[t].read
             fresh == [ant |-> g, token |-> next + 1]
  <1>1. task[t].pc = from /\ UNCHANGED <<gen, last, inbox, sent>>
    BY DEF Register
  <1>2. TaskSound(issued, task[t]) /\ p \in Peers /\ g \in Nat
    BY <1>0, <1>1 DEF TasksOK, TaskSound
  <1>3. CASE entries[p].ant = g
    <2> DEFINE x == [task[t] EXCEPT !.pc = then, !.got = entries[p]]
    <2>1. task' = [task EXCEPT ![t] = x] /\ UNCHANGED <<entries, next, issued>>
      BY <1>0, <1>3 DEF Register, TypesOK
    <2>2. EntryOf(issued, entries[p], p)
      BY <1>0, <1>2 DEF EntriesOK
    <2>3. TaskSound(issued, x)
      BY <1>1, <1>2, <2>2 DEF TaskSound
    <2> HIDE DEF x
    <2>4. Longer(issued, issued')
      BY <2>1 DEF Longer
    <2>5. DOMAIN task' = Tasks /\ TasksOK'
      BY ZenonT(60), <1>0, <2>1, <2>3, <2>4, TaskStep
    <2>6. SessionInvariant'
      BY ZenonT(60), <1>0, <1>1, <2>1, <2>4, <2>5, FramesKept, InvariantPartsNext
         DEF TypesOK, EntriesOK
    <2>7. NoResurrectionStep
      BY <2>1 DEF NoResurrectionStep
    <2> QED
      BY <2>6, <2>7
  <1>4. CASE entries[p].ant # g
    <2> DEFINE x == [task[t] EXCEPT !.pc = then, !.got = fresh]
    <2>1. /\ next' = next + 1 /\ issued' = Append(issued, <<p, g>>)
          /\ task' = [task EXCEPT ![t] = x]
          /\ entries' = [q \in Peers |-> IF q = p THEN fresh
                                         ELSE IF q \in Range(Kept(p)) THEN entries[q] ELSE NoEntry]
      BY <1>0, <1>4 DEF Register, TypesOK, FreshToken
    <2>2. /\ next' \in Nat /\ issued' \in Seq(Peers \X Nat) /\ next' = Len(issued')
          /\ Longer(issued, issued') /\ Made(issued', next + 1, p, g)
      BY SMTT(30), <1>0, <1>2, <2>1 DEF TypesOK, Longer, Made
    <2>3. EntryOf(issued', fresh, p)
      BY <1>0, <1>2, <2>2 DEF EntryOf, TypesOK
    <2>4. ASSUME NEW q \in Peers
          PROVE  EntryOf(issued', entries'[q], q)
      <3>1. entries'[q] \in {entries[q], NoEntry} \/ (q = p /\ entries'[q] = fresh)
        BY <2>1
      <3>2. EntryOf(issued', entries[q], q)
        BY <1>0, <2>2, EntryKept DEF EntriesOK
      <3>3. EntryOf(issued', NoEntry, q)
        BY DEF EntryOf, NoEntry
      <3> QED
        BY ZenonT(60), <2>3, <3>1, <3>2, <3>3
    <2>5. TaskSound(issued', x)
      <3>1. TaskSound(issued', task[t])
        BY <1>2, <2>2, TaskKept
      <3> HIDE DEF fresh
      <3> QED
        BY <1>1, <1>2, <2>3, <3>1 DEF TaskSound
    <2> HIDE DEF x
    <2>6. DOMAIN task' = Tasks /\ TasksOK'
      BY ZenonT(60), <1>0, <2>1, <2>2, <2>5, TaskStep
    <2>7. TypesOK' /\ EntriesOK' /\ FramesOK'
      <3>1. DOMAIN entries' = Peers
        BY <2>1
      <3>2. FramesOK'
        BY <1>0, <1>1, <2>2, FramesKept
      <3> QED
        BY ZenonT(60), <1>0, <1>1, <2>2, <2>4, <2>6, <3>1, <3>2 DEF TypesOK, EntriesOK
    <2>8. NoResurrectionStep
      <3> SUFFICES ASSUME NEW q \in Peers, entries'[q].token # 0, entries'[q].token <= next
                   PROVE  \E r \in Peers : entries[r].token = entries'[q].token
        BY DEF NoResurrectionStep
      <3>1. entries'[q] \in {entries[q], NoEntry} \/ entries'[q] = fresh
        BY <2>1
      <3>2. next \in Nat /\ fresh.token = next + 1 /\ NoEntry.token = 0
        BY <1>0 DEF TypesOK, NoEntry
      <3>3. entries'[q] # fresh /\ entries'[q] # NoEntry
        BY SMTT(30), <3>2
      <3> QED
        BY <3>1, <3>3
    <2> QED
      BY ZenonT(60), <2>6, <2>7, <2>8, InvariantPartsNext
  <1> QED
    BY <1>3, <1>4

\* The steps that leave the registry alone
LEMMA TaskOnly ==
  ASSUME SessionInvariant, NEW t \in Tasks, NEW x, task' = [task EXCEPT ![t] = x],
         TaskSound(issued, x), FramesOK', UNCHANGED <<gen, last, entries, next, issued>>
  PROVE  SessionInvariant'
  <1>0. TypesOK /\ EntriesOK /\ TasksOK
    BY InvariantParts
  <1>1. Longer(issued, issued')
    BY DEF Longer
  <1>2. DOMAIN task' = Tasks /\ TasksOK'
    BY <1>0, <1>1, TaskStep
  <1> QED
    BY <1>0, <1>2, InvariantPartsNext DEF TypesOK, EntriesOK

\* The receiver stamps a frame with a session of the frame's connection, or
\* with none.
LEMMA ReceiveKeeps ==
  ASSUME SessionInvariant,
         \/ \E p \in Peers, source \in 1 .. MaxGen : Recv(p, source)
         \/ Forward
         \/ \E f \in inbox : Receive(f)
  PROVE  SessionInvariant'
  <1>0. TypesOK /\ EntriesOK /\ TasksOK /\ FramesOK /\ Receiver \in Tasks
    BY InvariantParts DEF Tasks
  <1>1. ASSUME NEW p \in Peers, NEW source \in 1 .. MaxGen, Recv(p, source)
        PROVE  SessionInvariant'
    <2>0. UNCHANGED <<gen, last, entries, next, sent, issued>>
      BY <1>1 DEF Recv
    <2>1. CASE source = gen[p]
      <3> DEFINE x == [Idle EXCEPT !.pc = "read", !.peer = p, !.ant = source]
      <3>1. task' = [task EXCEPT ![Receiver] = x] /\ inbox' = inbox
        BY <1>1, <2>1 DEF Recv
      <3>2. TaskSound(issued, x)
        BY DEF TaskSound, Idle, EntryOf
      <3> HIDE DEF x
      <3>3. FramesOK'
        BY <1>0, <2>0, <3>1 DEF FramesOK, FrameProvenance, SentOnItsSession
      <3> QED
        BY ZenonT(60), <1>0, <2>0, <3>1, <3>2, <3>3, TaskOnly
    <2>2. CASE source # gen[p]
      <3>1. /\ inbox' = inbox \cup {[peer |-> p, source |-> source, session |-> 0]}
            /\ task' = task
        BY <1>1, <2>2 DEF Recv
      <3>2. FramesOK'
        BY SMTT(30), <1>0, <2>0, <3>1 DEF FramesOK, FrameProvenance, SentOnItsSession
      <3> QED
        BY ZenonT(60), <1>0, <2>0, <3>1, <3>2, InvariantPartsNext DEF TypesOK, EntriesOK, TasksOK
    <2> QED
      BY <2>1, <2>2
  <1>2. CASE Forward
    <2> DEFINE r == task[Receiver]
               s == stamped_receive_session(r.ant, r.got, gen[r.peer])
    <2>1. /\ inbox' = inbox \cup {[peer |-> r.peer, source |-> r.ant, session |-> s]}
          /\ task' = [task EXCEPT ![Receiver] = Idle]
          /\ UNCHANGED <<gen, last, entries, next, sent, issued>>
      BY <1>2 DEF Forward
    <2>2. TaskSound(issued, r)
      BY <1>0 DEF TasksOK
    <2>3. s # 0 => Made(issued, s, r.peer, r.ant)
      BY SMTT(30), <2>2 DEF TaskSound, EntryOf, stamped_receive_session, NoEntry
    <2> HIDE DEF r, s
    <2>4. FramesOK'
      BY SMTT(30), <1>0, <2>1, <2>3 DEF FramesOK, FrameProvenance, SentOnItsSession
    <2> QED
      BY ZenonT(60), <1>0, <2>1, <2>4, IdleSound, TaskOnly
  <1>3. ASSUME NEW f \in inbox, Receive(f)
        PROVE  SessionInvariant'
    <2>1. inbox' = inbox \ {f} /\ UNCHANGED <<gen, last, entries, next, task, sent, issued>>
      BY <1>3 DEF Receive
    <2>2. FramesOK'
      BY <1>0, <2>1 DEF FramesOK, FrameProvenance, SentOnItsSession
    <2> QED
      BY ZenonT(60), <1>0, <2>1, <2>2, InvariantPartsNext DEF TypesOK, EntriesOK, TasksOK
  <1> QED
    BY <1>1, <1>2, <1>3

\* A frame is queued for the session that was looked up, and leaves only while
\* that is still the session of its peer.
LEMMA SendKeeps ==
  ASSUME SessionInvariant, NEW t \in Senders,
         (\E p \in Peers : BeginSend(t, p)) \/ Queued(t) \/ frame_guarded_admission(t)
  PROVE  SessionInvariant'
  <1>0. TypesOK /\ EntriesOK /\ TasksOK /\ FramesOK /\ t \in Tasks
    BY InvariantParts DEF Tasks
  <1>1. ASSUME NEW p \in Peers, BeginSend(t, p)
        PROVE  SessionInvariant'
    <2> DEFINE x == [Idle EXCEPT !.pc = "capture", !.peer = p]
    <2>1. task' = [task EXCEPT ![t] = x] /\ UNCHANGED <<gen, last, entries, next, inbox, sent, issued>>
      BY <1>1 DEF BeginSend
    <2>2. TaskSound(issued, x)
      BY DEF TaskSound, Idle, EntryOf
    <2> HIDE DEF x
    <2>3. FramesOK'
      BY <1>0, <2>1 DEF FramesOK, FrameProvenance, SentOnItsSession
    <2> QED
      BY ZenonT(60), <1>0, <2>1, <2>2, <2>3, TaskOnly
  <1>2. CASE Queued(t)
    <2> DEFINE s == task[t]
               y == [task[t] EXCEPT !.pc = "admit", !.ant = s.got.ant, !.token = s.got.token]
               x == IF s.got # NoEntry /\ gen[s.peer] = s.got.ant THEN y ELSE Idle
    <2>1. /\ task' = [task EXCEPT ![t] = x] /\ s.pc = "captured"
          /\ UNCHANGED <<gen, last, entries, next, inbox, sent, issued>>
      BY <1>0, <1>2 DEF Queued, TypesOK
    <2>2. TaskSound(issued, s)
      BY <1>0 DEF TasksOK
    <2>3. ASSUME s.got # NoEntry
          PROVE  TaskSound(issued, y)
      BY <2>1, <2>2, <2>3 DEF TaskSound, EntryOf
    <2>4. TaskSound(issued, x)
      BY <2>3, IdleSound
    <2> HIDE DEF x
    <2>5. FramesOK'
      BY <1>0, <2>1 DEF FramesOK, FrameProvenance, SentOnItsSession
    <2> QED
      BY ZenonT(60), <1>0, <2>1, <2>4, <2>5, TaskOnly
  <1>3. CASE frame_guarded_admission(t)
    <2> DEFINE s == task[t]
               f == [peer |-> s.peer, actual |-> s.ant, session |-> s.token]
    <2>1. /\ task' = [task EXCEPT ![t] = Idle] /\ s.pc = "admitted"
          /\ sent' = sent \/ sent' = sent \cup {f}
          /\ UNCHANGED <<gen, last, entries, next, inbox, issued>>
      BY <1>3 DEF frame_guarded_admission
    <2>2. Made(issued, s.token, s.peer, s.ant)
      BY <1>0, <2>1 DEF TasksOK, TaskSound
    <2> HIDE DEF s
    <2>3. FramesOK'
      BY SMTT(30), <1>0, <2>1, <2>2 DEF FramesOK, FrameProvenance, SentOnItsSession
    <2> QED
      BY ZenonT(60), <1>0, <2>1, <2>3, IdleSound, TaskOnly
  <1> QED
    BY <1>1, <1>2, <1>3

\* Connections come and go, and close empties the registry.
LEMMA ConnectionKeeps ==
  ASSUME SessionInvariant, (\E p \in Peers : Connect(p) \/ Disconnect(p)) \/ Close
  PROVE  SessionInvariant' /\ NoResurrectionStep
  <1>0. TypesOK /\ EntriesOK /\ TasksOK /\ FramesOK
    BY InvariantParts
  <1>1. UNCHANGED <<next, task, inbox, sent, issued>>
    BY DEF Connect, Disconnect, Close
  <1>2. gen' \in [Peers -> Nat] /\ last' \in [Peers -> Nat]
    <2>1. ASSUME NEW p \in Peers, Connect(p)
          PROVE  gen' \in [Peers -> Nat] /\ last' \in [Peers -> Nat]
      <3>1. last[p] + 1 \in Nat
        BY SMTT(30), <1>0 DEF TypesOK
      <3> QED
        BY <1>0, <2>1, <3>1 DEF Connect, TypesOK
    <2>2. ASSUME NEW p \in Peers, Disconnect(p)
          PROVE  gen' \in [Peers -> Nat] /\ last' \in [Peers -> Nat]
      BY <1>0, <2>2 DEF Disconnect, TypesOK
    <2>3. CASE Close
      BY <1>0, <2>3 DEF Close, TypesOK
    <2> QED
      BY <2>1, <2>2, <2>3
  <1>3. entries' = entries \/ entries' = [p \in Peers |-> NoEntry]
    BY DEF Connect, Disconnect, Close
  <1>4. DOMAIN entries' = Peers /\ EntriesOK'
    <2>1. CASE entries' = entries
      BY <1>0, <1>1, <2>1 DEF TypesOK, EntriesOK
    <2>2. CASE entries' = [p \in Peers |-> NoEntry]
      BY <2>2, NoEntryOf DEF EntriesOK
    <2> QED
      BY <1>3, <2>1, <2>2
  <1>5. FramesOK'
    BY <1>0, <1>1 DEF FramesOK, FrameProvenance, SentOnItsSession
  <1>6. NoResurrectionStep
    BY SMTT(30), <1>3 DEF NoResurrectionStep, NoEntry
  <1> QED
    BY ZenonT(60), <1>0, <1>1, <1>2, <1>4, <1>5, <1>6, InvariantPartsNext DEF TypesOK, TasksOK

LEMMA StepInvariant ==
  SessionInvariant /\ [Next]_vars => SessionInvariant' /\ NoResurrectionStep
  <1> SUFFICES ASSUME SessionInvariant, [Next]_vars
               PROVE  SessionInvariant' /\ NoResurrectionStep
    OBVIOUS
  <1>1. CASE UNCHANGED vars
    <2>1. SessionInvariant'
      BY <1>1 DEF vars, SessionInvariant, FrameProvenance, SentOnItsSession
    <2>2. NoResurrectionStep
      BY <1>1 DEF vars, NoResurrectionStep
    <2> QED
      BY <2>1, <2>2
  <1>2. CASE (\E p \in Peers : Connect(p) \/ Disconnect(p)) \/ Close
    BY <1>2, ConnectionKeeps
  <1>3. ASSUME UNCHANGED entries
        PROVE  NoResurrectionStep
    BY <1>3 DEF NoResurrectionStep
  <1>4. CASE \/ \E p \in Peers, source \in 1 .. MaxGen : Recv(p, source)
             \/ Forward
             \/ \E f \in inbox : Receive(f)
    <2>1. UNCHANGED entries
      BY <1>4 DEF Recv, Forward, Receive
    <2> QED
      BY <1>3, <1>4, <2>1, ReceiveKeeps
  <1>5. CASE \/ ReadGeneration(Receiver, "read", "register", "stamp")
             \/ Register(Receiver, "register", "stamp")
    <2>1. Receiver \in Tasks
      BY DEF Tasks
    <2>2. CASE ReadGeneration(Receiver, "read", "register", "stamp")
      <3>1. UNCHANGED entries
        BY <2>2 DEF ReadGeneration
      <3>2. SessionInvariant'
        BY <2>1, <2>2, ReadKeeps
      <3> QED
        BY <1>3, <3>1, <3>2
    <2>3. CASE Register(Receiver, "register", "stamp")
      BY <2>1, <2>3, RegisterKeeps
    <2> QED
      BY <1>5, <2>2, <2>3
  <1>6. ASSUME NEW t \in Senders,
               (\E p \in Peers : BeginSend(t, p)) \/ Queued(t) \/ frame_guarded_admission(t)
        PROVE  SessionInvariant' /\ NoResurrectionStep
    <2>1. UNCHANGED entries
      BY <1>6 DEF BeginSend, Queued, frame_guarded_admission
    <2> QED
      BY ZenonT(60), <1>3, <1>6, <2>1, SendKeeps
  <1>7. ASSUME NEW t \in Senders,
               \/ ReadGeneration(t, "capture", "capturing", "captured")
               \/ ReadGeneration(t, "admit", "admitting", "admitted")
        PROVE  SessionInvariant' /\ NoResurrectionStep
    <2>1. t \in Tasks /\ UNCHANGED entries
      BY <1>7 DEF Tasks, ReadGeneration
    <2> QED
      BY ZenonT(60), <1>3, <1>7, <2>1, ReadKeeps
  <1>8. ASSUME NEW t \in Senders,
               Register(t, "capturing", "captured") \/ Register(t, "admitting", "admitted")
        PROVE  SessionInvariant' /\ NoResurrectionStep
    <2>1. t \in Tasks
      BY DEF Tasks
    <2> QED
      BY <1>8, <2>1, RegisterKeeps
  <1> QED
    BY <1>1, <1>2, <1>4, <1>5, <1>6, <1>7, <1>8 DEF Next

\* Every session that is registered, looked up, waited for, stamped or sent was
\* handed out for the connection it is used with.
THEOREM InvariantTheorem == Spec => []SessionInvariant
<1>1. SessionInvariant /\ [Next]_vars => SessionInvariant'
  BY StepInvariant
<1> QED
  BY InitInvariant, <1>1, PTL DEF Spec

\* A frame never acquires the session of a later connection of its peer, and a
\* guarded send never leaves on another connection than its session's, however
\* reconnects, evictions and close fall between its lookups.
THEOREM ProvenanceTheorem == Spec => []FrameProvenance /\ []SentOnItsSession
<1>1. SessionInvariant => FrameProvenance /\ SentOnItsSession
  BY DEF SessionInvariant
<1> QED
  BY <1>1, InvariantTheorem, PTL

\* A token that left the registry never comes back.
THEOREM NoResurrectionTheorem == Spec => NoResurrection
<1>1. SessionInvariant /\ [Next]_vars => NoResurrectionStep
  BY StepInvariant
<1> QED
  BY <1>1, InvariantTheorem, PTL DEF Spec, NoResurrection
=============================================================================
