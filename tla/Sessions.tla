------------------------------ MODULE Sessions ------------------------------
(***************************************************************************)
(* The registry of authenticated sessions of the QUIC adapter              *)
(* (transport/src/udp_transport_adapter.rs): which token a received frame  *)
(* is stamped with and which connection a guarded send leaves on.  The     *)
(* connections belong to ant-quic, which numbers the connections of a peer *)
(* (gen); the adapter reads that number, then takes the lock of its        *)
(* registry, so that a reconnect can fall between the two.                 *)
(***************************************************************************)
EXTENDS Integers, Sequences, SequencesExt, FiniteSets

CONSTANTS
  Peers,
  Senders,   \* tasks inside send_to_peer_guarded
  MaxPeers,  \* max_peers of the adapter's configuration
  MaxGen,    \* bound on the connections of a peer
  MaxToken,  \* bound on the tokens handed out
  MaxFrames  \* bound on the frames received and sent

VARIABLES
  gen,     \* [peer -> generation of the live connection, 0 if none] (ant-quic)
  last,    \* [peer -> generation of the newest connection ever] (ant-quic)
  entries, \* [peer -> entry of AuthenticatedSessions.peers]
  recent,  \* peers with an entry, least recently used first
  next,    \* AuthenticatedSessions.next
  task,    \* [task -> where it is]
  inbox,   \* frames handed to the receive channel
  sent,    \* frames admitted by a guarded send
  issued   \* token -> the connection it was made for (history)

vars == <<gen, last, entries, recent, next, task, inbox, sent, issued>>

Receiver == "receiver"
Tasks == Senders \cup {Receiver}
NoEntry == [ant |-> 0, token |-> 0]
Idle == [pc |-> "idle", peer |-> CHOOSE p \in Peers : TRUE, ant |-> 0, token |-> 0,
         read |-> 0, got |-> NoEntry]

Init ==
  /\ gen = [p \in Peers |-> 0] /\ last = gen
  /\ entries = [p \in Peers |-> NoEntry] /\ recent = <<>> /\ next = 0
  /\ task = [t \in Tasks |-> Idle]
  /\ inbox = {} /\ sent = {} /\ issued = <<>>

-----------------------------------------------------------------------------
(* ant-quic.                                                               *)

Connect(p) ==
  /\ last[p] < MaxGen
  /\ last' = [last EXCEPT ![p] = @ + 1]
  /\ gen' = [gen EXCEPT ![p] = last[p] + 1]
  /\ UNCHANGED <<entries, recent, next, task, inbox, sent, issued>>

Disconnect(p) ==
  /\ gen[p] # 0
  /\ gen' = [gen EXCEPT ![p] = 0]
  /\ UNCHANGED <<last, entries, recent, next, task, inbox, sent, issued>>

-----------------------------------------------------------------------------
(* current_session_for_peer, in two steps.                                 *)

\* The generation is read; without a live connection there is no session.
ReadGeneration(t, from, found, none) ==
  /\ task[t].pc = from
  /\ task' = [task EXCEPT ![t] =
       IF gen[task[t].peer] = 0 THEN [@ EXCEPT !.pc = none, !.got = NoEntry]
       ELSE [@ EXCEPT !.pc = found, !.read = gen[task[t].peer]]]
  /\ UNCHANGED <<gen, last, entries, recent, next, inbox, sent, issued>>

Open == SelectSeq(recent, LAMBDA q : entries[q].ant = gen[q])

\* Mutant: room is made only once the limit is passed.
KeptPastLimit(p) ==
  LET full == Len(Open) > MaxPeers /\ p \notin Range(Open)
  IN SelectSeq(IF full THEN Tail(Open) ELSE Open, LAMBDA q : q # p)

\* Closed connections are dropped, and the least recently used entry makes
\* room for a new peer.
Kept(p) ==
  LET full == Len(Open) >= MaxPeers /\ p \notin Range(Open)
  IN SelectSeq(IF full THEN Tail(Open) ELSE Open, LAMBDA q : q # p)


FreshToken == next + 1

\* Under the lock: the entry of this connection is reused, or a new token is
\* handed out.
Register(t, from, then) ==
  LET p == task[t].peer
      g == task[t].read
      fresh == [ant |-> g, token |-> FreshToken]
  IN /\ task[t].pc = from
     /\ IF entries[p].ant = g
        THEN /\ recent' = Append(SelectSeq(recent, LAMBDA q : q # p), p)
             /\ task' = [task EXCEPT ![t] = [@ EXCEPT !.pc = then, !.got = entries[p]]]
             /\ UNCHANGED <<entries, next, issued>>
        ELSE /\ next < MaxToken
             /\ next' = next + 1
             /\ recent' = Append(Kept(p), p)
             /\ entries' = [q \in Peers |-> IF q = p THEN fresh
                                            ELSE IF q \in Range(Kept(p)) THEN entries[q] ELSE NoEntry]
             /\ issued' = Append(issued, <<p, g>>)
             /\ task' = [task EXCEPT ![t] = [@ EXCEPT !.pc = then, !.got = fresh]]
     /\ UNCHANGED <<gen, last, inbox, sent>>

-----------------------------------------------------------------------------
(* The receiver task.                                                      *)

\* recv_with_generation: frames of a replaced connection can still be queued.
Recv(p, source) ==
  /\ task[Receiver].pc = "idle" /\ source \in 1 .. last[p]
  /\ Cardinality(inbox) < MaxFrames
  /\ IF source = gen[p]
     THEN task' = [task EXCEPT ![Receiver] =
                     [Idle EXCEPT !.pc = "read", !.peer = p, !.ant = source]] /\ UNCHANGED inbox
     ELSE /\ inbox' = inbox \cup {[peer |-> p, source |-> source, session |-> 0]}
          /\ UNCHANGED task
  /\ UNCHANGED <<gen, last, entries, recent, next, sent, issued>>

\* Mutant: the frame gets whatever session was looked up for its peer.
StampAny(source, registered, after) == registered.token

\* stamped_receive_session: the generation is the frame's own before and
\* after the lookup, and the session is that generation's.
stamped_receive_session(source, registered, after) ==
  IF source = after /\ registered.ant = source THEN registered.token ELSE 0

Forward ==
  LET r == task[Receiver]
  IN /\ r.pc = "stamp"
     /\ inbox' = inbox \cup {[peer |-> r.peer, source |-> r.ant,
          session |-> stamped_receive_session(r.ant, r.got, gen[r.peer])]}
     /\ task' = [task EXCEPT ![Receiver] = Idle]
     /\ UNCHANGED <<gen, last, entries, recent, next, sent, issued>>

\* receive_message_with_session takes a frame out of the channel.
Receive(f) ==
  /\ f \in inbox
  /\ inbox' = inbox \ {f}
  /\ UNCHANGED <<gen, last, entries, recent, next, task, sent, issued>>

-----------------------------------------------------------------------------
(* send_to_peer_guarded.                                                   *)

BeginSend(t, p) ==
  /\ t \in Senders /\ task[t].pc = "idle" /\ Cardinality(sent) < MaxFrames
  /\ task' = [task EXCEPT ![t] = [Idle EXCEPT !.pc = "capture", !.peer = p]]
  /\ UNCHANGED <<gen, last, entries, recent, next, inbox, sent, issued>>

\* The session found is the one the frame is queued for; then it waits for
\* the semaphore, the peer's lock and a stream of that very generation.
Queued(t) ==
  LET s == task[t]
  IN /\ s.pc = "captured"
     /\ task' = [task EXCEPT ![t] =
          IF s.got # NoEntry /\ gen[s.peer] = s.got.ant
          THEN [@ EXCEPT !.pc = "admit", !.ant = s.got.ant, !.token = s.got.token]
          ELSE Idle]
     /\ UNCHANGED <<gen, last, entries, recent, next, inbox, sent, issued>>

\* Mutant: a session of the peer is enough.
AdmitAnySession(t) ==
  LET s == task[t]
  IN /\ s.pc = "admitted"
     /\ task' = [task EXCEPT ![t] = Idle]
     /\ sent' = IF s.got # NoEntry
                THEN sent \cup {[peer |-> s.peer, actual |-> s.ant, session |-> s.got.token]}
                ELSE sent
     /\ UNCHANGED <<gen, last, entries, recent, next, inbox, issued>>

\* frame_guarded_admission: the session looked up in the callback must be the
\* captured one, generation and token.
frame_guarded_admission(t) ==
  LET s == task[t]
  IN /\ s.pc = "admitted"
     /\ task' = [task EXCEPT ![t] = Idle]
     /\ sent' = IF s.got = [ant |-> s.ant, token |-> s.token]
                THEN sent \cup {[peer |-> s.peer, actual |-> s.ant, session |-> s.token]}
                ELSE sent
     /\ UNCHANGED <<gen, last, entries, recent, next, inbox, issued>>

\* close(): every connection is torn down and the registry is emptied.
Close ==
  /\ \E p \in Peers : gen[p] # 0
  /\ gen' = [p \in Peers |-> 0]
  /\ entries' = [p \in Peers |-> NoEntry] /\ recent' = <<>>
  /\ UNCHANGED <<last, next, task, inbox, sent, issued>>

Next ==
  \/ \E p \in Peers : Connect(p) \/ Disconnect(p)
  \/ \E p \in Peers, source \in 1 .. MaxGen : Recv(p, source)
  \/ ReadGeneration(Receiver, "read", "register", "stamp")
  \/ Register(Receiver, "register", "stamp")
  \/ Forward
  \/ \E f \in inbox : Receive(f)
  \/ \E t \in Senders, p \in Peers : BeginSend(t, p)
  \/ \E t \in Senders :
       \/ ReadGeneration(t, "capture", "capturing", "captured")
       \/ Register(t, "capturing", "captured")
       \/ Queued(t)
       \/ ReadGeneration(t, "admit", "admitting", "admitted")
       \/ Register(t, "admitting", "admitted")
       \/ frame_guarded_admission(t)
  \/ Close

Spec == Init /\ [][Next]_vars

-----------------------------------------------------------------------------
\* The type of the state; the registry never outgrows max_peers.
TypeOK ==
  /\ gen \in [Peers -> 0 .. MaxGen] /\ last \in [Peers -> 0 .. MaxGen]
  /\ \A p \in Peers : entries[p].ant \in 0 .. MaxGen /\ entries[p].token \in 0 .. MaxToken
  /\ IsInjective(recent) /\ Range(recent) = {p \in Peers : entries[p] # NoEntry}
  /\ Len(recent) <= MaxPeers
  /\ next = Len(issued)

\* The token was handed out for the connection g of p.
Made(tokens, token, p, g) == token \in DOMAIN tokens /\ tokens[token] = <<p, g>>

\* "A frame queued on ant generation A must never acquire B's session after a
\* reconnect": the session of a queued frame was made for the connection the
\* frame came in on (spawn_receiver, stamped_receive_session).
FrameProvenance ==
  \A f \in inbox : f.session # 0 => Made(issued, f.session, f.peer, f.source)

\* A guarded send leaves on the connection its session was made for, whatever
\* reconnected while it was queued (send_to_peer_guarded).
SentOnItsSession ==
  \A f \in sent : Made(issued, f.session, f.peer, f.actual)

\* An entry is the registry's for a connection of p, or none.
EntryOf(tokens, e, p) == e = NoEntry \/ Made(tokens, e.token, p, e.ant)

\* What a task has looked up, and what it waits to be admitted with, is a
\* session of the peer it works for.
TaskSound(tokens, x) ==
  /\ DOMAIN x = {"pc", "peer", "ant", "token", "read", "got"}
  /\ x.read \in Nat
  /\ x.pc # "idle" => x.peer \in Peers
  /\ EntryOf(tokens, x.got, x.peer)
  /\ x.pc \in {"admit", "admitting", "admitted"} => Made(tokens, x.token, x.peer, x.ant)

\* The inductive invariant: every session that is registered, looked up, queued
\* for, stamped or sent was handed out for the connection it is used with.
SessionInvariant ==
  /\ gen \in [Peers -> Nat] /\ last \in [Peers -> Nat]
  /\ DOMAIN entries = Peers /\ DOMAIN task = Tasks
  /\ next \in Nat /\ issued \in Seq(Peers \X Nat) /\ next = Len(issued)
  /\ \A p \in Peers : EntryOf(issued, entries[p], p)
  /\ \A t \in Tasks : TaskSound(issued, task[t])
  /\ FrameProvenance /\ SentOnItsSession

\* A token that left the registry, by a reconnect, an eviction or a close,
\* never comes back (AuthenticatedSessions::next).
NoResurrectionStep ==
  \A p \in Peers :
    entries'[p].token # 0 /\ entries'[p].token <= next =>
      \E q \in Peers : entries[q].token = entries'[p].token

\* NoResurrectionStep, of every step.
NoResurrection == [][NoResurrectionStep]_vars
=============================================================================
