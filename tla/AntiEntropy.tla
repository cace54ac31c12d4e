----------------------------- MODULE AntiEntropy -----------------------------
(***************************************************************************)
(* Replicas of one OR-Set, each with an AntiEntropyManager                 *)
(* (crates/crdt-sync/src/lib.rs).  The background task of a manager takes  *)
(* a snapshot of peer_versions, computes one delta after the other, awaits *)
(* the callback that brings it to the peer, and records the version it     *)
(* sent.  Local operations, incoming deltas, compaction and changes of the *)
(* peer table run between any two of these steps.                          *)
(*                                                                         *)
(* The callback is the application's: it may deliver the delta and report  *)
(* success, deliver it and report an error, or lose it and report an       *)
(* error.                                                                  *)
(***************************************************************************)
EXTENDS Naturals, FiniteSets

CONSTANTS
  Replicas,
  Managers,    \* replicas with an AntiEntropyManager; the others only merge
  Elements,
  MaxAdds,     \* calls of add, on all replicas
  Keeps,       \* arguments of compact
  Tasks,       \* bound: tasks of one manager that overlap are numbered 1..Tasks
  Removable    \* whether the application calls remove_peer

ASSUME SyncAssumption ==
  /\ Managers \subseteq Replicas
  /\ MaxAdds \in Nat /\ Tasks \in Nat /\ Keeps \subseteq Nat

VARIABLES
  crdt,      \* the OR-Set of each replica
  peers,     \* peer_versions of each manager: a map from peers to versions
  live,      \* the task that holds the receiver of shutdown_tx, 0 for none
  task       \* the background tasks of each replica

\* History: what a replica knew at each of its versions, the items ever added,
\* the items some call of remove took away.
VARIABLES past, issued, removed

-----------------------------------------------------------------------------
(* OrSet<T>: its operations on its fields.  The two maps from elements to   *)
(* sets of unique tags are sets of items <<element, peer, sequence>>; the   *)
(* code never leaves an element with an empty set of live tags.             *)

\* OrSet::new
NewSet == [elements |-> {}, tombstones |-> {}, version |-> 0, floor |-> 0,
           changelog |-> [v \in {} |-> [added |-> {}, removed |-> {}]]]

\* Every item the replica knows of, live or removed
Known(s) == s.elements \union s.tombstones

Contains(s, e) == \E x \in s.elements : x[1] = e

\* The set with new elements and tombstones (record_changelog_entry).
Record(s, elems, tombs, adds, dels) ==
  LET new == adds # {} \/ dels # {}
      entry == [added |-> adds, removed |-> dels]
  IN [elements |-> elems, tombstones |-> tombs, floor |-> s.floor,
      version |-> IF new THEN s.version + 1 ELSE s.version,
      changelog |-> IF ~new THEN s.changelog
                    ELSE [v \in DOMAIN s.changelog \union {s.version + 1} |->
                            IF v = s.version + 1 THEN entry ELSE s.changelog[v]]]

Add(s, x) == Record(s, s.elements \union {x}, s.tombstones \ {x}, {x}, {})

\* Mutant: a remove leaves no tombstone.
RemoveForgets(s, e) ==
  LET gone == {x \in s.elements : x[1] = e}
  IN Record(s, s.elements \ gone, s.tombstones, {}, gone)

Remove(s, e) ==
  LET gone == {x \in s.elements : x[1] = e}
  IN Record(s, s.elements \ gone, s.tombstones \union gone, {}, gone)

\* Mutant: an incoming addition revives the tag, as add does.
ApplyRevives(s, adds, dels) ==
  LET tombs == (s.tombstones \ adds) \union dels
      kept == {x \in s.elements \union adds :
                 x \in tombs => ~\E y \in dels : y[1] = x[1]}
  IN Record(s, kept, tombs, adds \ s.elements, dels \ s.tombstones)

\* Mutant: a removal takes every tag of the element with it.
ApplyRemoveWins(s, adds, dels) ==
  LET hit == dels \union {x \in s.elements : \E y \in dels : y[1] = x[1]}
      fresh == adds \ s.tombstones
  IN Record(s, (s.elements \union fresh) \ hit, s.tombstones \union hit,
            fresh \ s.elements, hit \ s.tombstones)

\* apply_delta_parts: live tags first, then tombstones, which also purge the
\* tags of the elements they name.
Apply(s, adds, dels) ==
  LET fresh == adds \ s.tombstones
      tombs == s.tombstones \union dels
      kept == {x \in s.elements \union fresh :
                 x \in tombs => ~\E y \in dels : y[1] = x[1]}
  IN Record(s, kept, tombs, fresh \ s.elements, dels \ s.tombstones)

MergeState(s, other) == Apply(s, other.elements, other.tombstones)

Compact(s, keep) ==
  IF s.version > keep
  THEN LET min == s.version - keep
       IN [elements |-> s.elements, tombstones |-> s.tombstones, version |-> s.version,
           floor |-> IF s.floor > min THEN s.floor ELSE min,
           changelog |-> [v \in {w \in DOMAIN s.changelog : w > min} |-> s.changelog[v]]]
  ELSE s

\* delta(since) returns Some
HasDelta(s, since) ==
  /\ since < s.version
  /\ since >= s.floor
  /\ since + 1..s.version \subseteq DOMAIN s.changelog


Delta(s, since) ==
  [added |-> UNION {s.changelog[v].added : v \in since + 1..s.version},
   removed |-> UNION {s.changelog[v].removed : v \in since + 1..s.version}]

\* max_retained_sequence_for_peer, 0 for None
MaxRetained(s, r) ==
  LET seqs == {x[3] : x \in {y \in Known(s) : y[2] = r}}
  IN IF seqs = {} THEN 0 ELSE CHOOSE n \in seqs : \A m \in seqs : m <= n
-----------------------------------------------------------------------------
(* Replicas and their managers. *)

vars == <<crdt, peers, live, task, past, issued, removed>>
manager == <<peers, live, task>>
history == <<past, issued, removed>>

Items == Elements \X Replicas \X (1..MaxAdds)
NoPeers == [p \in {} |-> 0]
Idle == [pc |-> "none", todo |-> NoPeers]

Init ==
  /\ crdt = [r \in Replicas |-> NewSet]
  /\ peers = [r \in Managers |-> NoPeers]
  /\ live = [r \in Managers |-> 0]
  /\ task = [r \in Managers |-> [k \in 1..Tasks |-> Idle]]
  /\ past = [r \in Replicas |-> [v \in {0} |-> [known |-> {}, tombs |-> {}]]]
  /\ issued = {}
  /\ removed = {}

Snapshot(s) == [known |-> Known(s), tombs |-> s.tombstones]

\* The history keeps the last state of each version.
Recall(h, s) ==
  [v \in DOMAIN h \union {s.version} |-> IF v = s.version THEN Snapshot(s) ELSE h[v]]

\* The set of r becomes s.
Update(r, s) ==
  /\ crdt' = [crdt EXCEPT ![r] = s]
  /\ past' = [past EXCEPT ![r] = Recall(past[r], s)]
-----------------------------------------------------------------------------
(* The application's calls on its own replica. *)

\* The application takes the sequence number after the last retained one.
AddLocal(r, e) ==
  LET x == <<e, r, MaxRetained(crdt[r], r) + 1>>
  IN /\ Cardinality(issued) < MaxAdds
     /\ Update(r, Add(crdt[r], x))
     /\ issued' = issued \union {x}
     /\ UNCHANGED <<manager, removed>>

RemoveLocal(r, e) ==
  /\ Contains(crdt[r], e)
  /\ Update(r, Remove(crdt[r], e))
  /\ removed' = removed \union {x \in crdt[r].elements : x[1] = e}
  /\ UNCHANGED <<manager, issued>>

CompactLocal(r, keep) ==
  /\ Update(r, Compact(crdt[r], keep))
  /\ UNCHANGED <<manager, issued, removed>>

\* r gets the retained state of q, and merges it.
MergeFrom(r, q) ==
  /\ Update(r, MergeState(crdt[r], crdt[q]))
  /\ UNCHANGED <<manager, issued, removed>>
-----------------------------------------------------------------------------
(* The peer table. *)

SetVersion(f, p, v) == [q \in DOMAIN f \union {p} |-> IF q = p THEN v ELSE f[q]]

\* entry(p).or_insert(0)
Register(f, p) == IF p \in DOMAIN f THEN f ELSE SetVersion(f, p, 0)

AddPeer(r, p) ==
  /\ peers' = [peers EXCEPT ![r] = Register(@, p)]
  /\ UNCHANGED <<crdt, live, task, history>>

RemovePeer(r, p) ==
  /\ Removable
  /\ peers' = [peers EXCEPT ![r] = [q \in DOMAIN @ \ {p} |-> @[q]]]
  /\ UNCHANGED <<crdt, live, task, history>>

\* The set s has everything that its sender knew at version v.
Covers(s, h, v) ==
  /\ h[v].known \subseteq Known(s)
  /\ h[v].tombs \subseteq s.tombstones

\* The application itself has brought p to version v.
UpdatePeerVersion(r, p, v) ==
  /\ Covers(crdt[p], past[r], v)
  /\ peers' = [peers EXCEPT ![r] = SetVersion(@, p, v)]
  /\ UNCHANGED <<crdt, live, task, history>>
-----------------------------------------------------------------------------
(* The background task. *)

\* start: a second call drops the sender of the first task, which ends when
\* it is back at its select.
Start(r) ==
  \E k \in 1..Tasks :
    /\ task[r][k].pc = "none"
    /\ \A j \in 1..k - 1 : task[r][j].pc # "none"
    /\ live' = [live EXCEPT ![r] = k]
    /\ task' = [task EXCEPT ![r][k] = [pc |-> "select", todo |-> NoPeers]]
    /\ UNCHANGED <<crdt, peers, history>>

\* stop: the task is told to end; after five seconds the caller no longer
\* waits, and the task still ends by itself.
Stop(r) ==
  /\ live[r] # 0
  /\ live' = [live EXCEPT ![r] = 0]
  /\ UNCHANGED <<crdt, peers, task, history>>

Exit(r, k) ==
  /\ task[r][k].pc = "select"
  /\ k # live[r]
  /\ task' = [task EXCEPT ![r][k] = Idle]
  /\ UNCHANGED <<crdt, peers, live, history>>

Tick(r, k) ==
  /\ task[r][k].pc = "select"
  /\ task' = [task EXCEPT ![r][k] = [pc |-> "sync", todo |-> peers[r]]]
  /\ UNCHANGED <<crdt, peers, live, history>>

Rest(todo, p) == [q \in DOMAIN todo \ {p} |-> todo[q]]

\* The next peer of the snapshot: its delta and the version it brings the peer
\* to, read under one lock.
NextPeer(r, k, p) ==
  LET t == task[r][k]
  IN /\ t.pc = "sync"
     /\ p \in DOMAIN t.todo
     /\ task' = [task EXCEPT ![r][k] =
          IF HasDelta(crdt[r], t.todo[p])
          THEN [pc |-> "call", todo |-> Rest(t.todo, p), peer |-> p,
                delta |-> Delta(crdt[r], t.todo[p]), sent |-> crdt[r].version]
          ELSE [pc |-> "sync", todo |-> Rest(t.todo, p)]]
     /\ UNCHANGED <<crdt, peers, live, history>>

EndTick(r, k) ==
  /\ task[r][k].pc = "sync"
  /\ DOMAIN task[r][k].todo = {}
  /\ task' = [task EXCEPT ![r][k] = [pc |-> "select", todo |-> NoPeers]]
  /\ UNCHANGED <<crdt, peers, live, history>>

\* The callback returns.
Returned(t, reply) ==
  [pc |-> reply, todo |-> t.todo, peer |-> t.peer, delta |-> t.delta, sent |-> t.sent]

\* The peer applies the delta (apply_delta), and the callback reports success
\* or, in spite of it, an error.
Deliver(r, k) ==
  LET t == task[r][k]
      p == t.peer
  IN /\ t.pc = "call"
     /\ Update(p, Apply(crdt[p], t.delta.added, t.delta.removed))
     /\ peers' = IF p \in Managers THEN [peers EXCEPT ![p] = Register(@, r)] ELSE peers
     /\ \E reply \in {"ack", "error"} : task' = [task EXCEPT ![r][k] = Returned(t, reply)]
     /\ UNCHANGED <<live, issued, removed>>

Lose(r, k) ==
  /\ task[r][k].pc = "call"
  /\ task' = [task EXCEPT ![r][k] = Returned(task[r][k], "error")]
  /\ UNCHANGED <<crdt, peers, live, history>>

\* Mutant: the version is read when the callback has returned.
AckNow(r, k) ==
  LET t == task[r][k]
  IN /\ t.pc = "ack"
     /\ peers' = [peers EXCEPT ![r] = SetVersion(@, t.peer, crdt[r].version)]
     /\ task' = [task EXCEPT ![r][k] = [pc |-> "sync", todo |-> t.todo]]
     /\ UNCHANGED <<crdt, live, history>>

Ack(r, k) ==
  LET t == task[r][k]
  IN /\ t.pc = "ack"
     /\ peers' = [peers EXCEPT ![r] = SetVersion(@, t.peer, t.sent)]
     /\ task' = [task EXCEPT ![r][k] = [pc |-> "sync", todo |-> t.todo]]
     /\ UNCHANGED <<crdt, live, history>>

\* The error is logged; the peer is tried again on the next tick.
Failed(r, k) ==
  LET t == task[r][k]
  IN /\ t.pc = "error"
     /\ task' = [task EXCEPT ![r][k] = [pc |-> "sync", todo |-> t.todo]]
     /\ UNCHANGED <<crdt, peers, live, history>>

TaskStep(r, k) ==
  \/ Tick(r, k) \/ Exit(r, k) \/ EndTick(r, k) \/ Ack(r, k) \/ Failed(r, k)
  \/ \E p \in Replicas : NextPeer(r, k, p)

Next ==
  \/ \E r \in Replicas, e \in Elements : AddLocal(r, e) \/ RemoveLocal(r, e)
  \/ \E r \in Replicas, keep \in Keeps : CompactLocal(r, keep)
  \/ \E r \in Replicas : \E q \in Replicas \ {r} : MergeFrom(r, q)
  \/ \E r \in Managers : \E q \in Replicas \ {r} : AddPeer(r, q) \/ RemovePeer(r, q)
  \/ \E r \in Managers : \E q \in Replicas \ {r} : \E v \in DOMAIN past[r] : UpdatePeerVersion(r, q, v)
  \/ \E r \in Managers : Start(r) \/ Stop(r)
  \/ \E r \in Managers, k \in 1..Tasks : TaskStep(r, k) \/ Deliver(r, k) \/ Lose(r, k)

Spec == Init /\ [][Next]_vars

\* The runtime runs the task, and a callback that is tried again and again
\* succeeds again and again.
LiveSpec ==
  /\ Spec
  /\ \A r \in Managers, k \in 1..Tasks :
       /\ WF_vars(TaskStep(r, k) \/ Lose(r, k) \/ Deliver(r, k))
       /\ SF_vars(Deliver(r, k) /\ task'[r][k].pc = "ack")
-----------------------------------------------------------------------------
(* Properties. *)

IsOrSet(s) ==
  /\ s = [elements |-> s.elements, tombstones |-> s.tombstones, version |-> s.version,
          floor |-> s.floor, changelog |-> s.changelog]
  /\ s.elements \subseteq Items /\ s.tombstones \subseteq Items
  /\ s.version \in Nat /\ s.floor \in 0..s.version
  /\ DOMAIN s.changelog \subseteq 1..s.version
  /\ \A v \in DOMAIN s.changelog :
       s.changelog[v] \in [added : SUBSET Items, removed : SUBSET Items]

IsTask(r, t) ==
  /\ DOMAIN t.todo \subseteq Replicas \ {r}
  /\ \/ t.pc \in {"none", "select", "sync"} /\ t = [pc |-> t.pc, todo |-> t.todo]
     \/ /\ t.pc \in {"call", "ack", "error"}
        /\ t = [pc |-> t.pc, todo |-> t.todo, peer |-> t.peer,
                delta |-> t.delta, sent |-> t.sent]
        /\ t.peer \in Replicas \ {r}
        /\ t.delta \in [added : SUBSET Items, removed : SUBSET Items]

TypeOK ==
  /\ DOMAIN crdt = Replicas /\ DOMAIN past = Replicas
  /\ \A r \in Replicas : IsOrSet(crdt[r]) /\ DOMAIN past[r] = 0..crdt[r].version
  /\ DOMAIN peers = Managers /\ live \in [Managers -> 0..Tasks]
  /\ \A r \in Managers : DOMAIN peers[r] \subseteq Replicas \ {r}
  /\ DOMAIN task = Managers
  /\ \A r \in Managers : DOMAIN task[r] = 1..Tasks /\ \A k \in 1..Tasks : IsTask(r, task[r][k])
  /\ issued \subseteq Items /\ IsFiniteSet(issued) /\ removed \subseteq issued

\* An acknowledged version is a fact: whoever r believes to be at version v
\* knows everything that r knew at its version v, removals included, whatever
\* was merged, compacted, lost or sent twice in the meantime.
IsTable(f, sets, h) ==
  \A p \in DOMAIN f : f[p] \in DOMAIN h /\ Covers(sets[p], h, f[p])

AckedIsKnown == \A r \in Managers : IsTable(peers[r], crdt, past[r])

\* The same holds of what a task goes by: the versions in its copy of the
\* table, the delta it sends and the version it is about to record.
TaskIsSound(r, t, sets, h) ==
  /\ IsTable(t.todo, sets, h)
  /\ t.pc = "call" =>
       /\ t.sent \in DOMAIN h
       /\ h[t.sent].known \subseteq Known(sets[t.peer]) \union t.delta.added \union t.delta.removed
       /\ h[t.sent].tombs \subseteq sets[t.peer].tombstones \union t.delta.removed
       /\ t.delta.added \subseteq Known(sets[r]) /\ t.delta.removed \subseteq sets[r].tombstones
  /\ t.pc = "ack" => t.sent \in DOMAIN h /\ Covers(sets[t.peer], h, t.sent)

\* A delta is complete: with what the replica knew at version v, delta(v) gives
\* all that it knows now, and nothing else, whatever compaction has forgotten.
Complete(s, h) ==
  /\ h[0] = Snapshot(NewSet) /\ h[s.version] = Snapshot(s)
  /\ \A v \in DOMAIN s.changelog :
       s.changelog[v].added \subseteq Known(s) /\ s.changelog[v].removed \subseteq s.tombstones
  /\ \A v \in 0..s.version : v + 1..s.version \subseteq DOMAIN s.changelog =>
       /\ Known(s) \subseteq h[v].known \union Delta(s, v).added \union Delta(s, v).removed
       /\ s.tombstones \subseteq h[v].tombs \union Delta(s, v).removed

DeltaComplete == \A r \in Replicas : Complete(crdt[r], past[r])

\* Sequence numbers taken after max_retained_sequence_for_peer are fresh: a
\* replica never forgets an item of its own, removed or not, and its numbers
\* have no gap.
TagsFresh ==
  /\ \A r \in Replicas : {x \in issued : x[2] = r} \subseteq Known(crdt[r])
  /\ \A x \in issued : \A n \in 1..x[3] : \E y \in issued : y[2] = x[2] /\ y[3] = n

\* Observed-remove semantics: no item is live and removed at once, what a
\* replica knows was added by a call of add, and only items that a call of
\* remove saw live ever become tombstones, so that a concurrent add survives.
ObservedRemove ==
  \A r \in Replicas :
    /\ crdt[r].elements \intersect crdt[r].tombstones = {}
    /\ Known(crdt[r]) \subseteq issued
    /\ crdt[r].tombstones \subseteq removed

\* The inductive invariant: apart from the facts above, why they are kept.
SyncInvariant ==
  /\ TypeOK
  /\ AckedIsKnown /\ TagsFresh /\ ObservedRemove /\ DeltaComplete
  /\ \A r \in Managers, k \in 1..Tasks : TaskIsSound(r, task[r][k], crdt, past[r])

\* Once a replica has seen an item removed it never shows it again, however
\* late or often deltas that add it arrive.
NoResurrectionStep ==
  \A r \in Replicas : crdt[r].tombstones \subseteq crdt'[r].tombstones

NoResurrection == [][NoResurrectionStep]_vars

\* The OR-Set, with its deltas, its changelog and its compaction, implements
\* the replicated set.
Abstract == INSTANCE ReplicatedSet WITH
  known <- [r \in Replicas |-> Known(crdt[r])],
  gone <- [r \in Replicas |-> crdt[r].tombstones]

ImplementsReplicatedSet == Abstract!Spec

\* Eventual consistency, as the documentation of AntiEntropyManager promises:
\* managers that keep running and keep each other in their peer tables end
\* with the same elements.
Synced == \A r, q \in Replicas : crdt[r].elements = crdt[q].elements

=============================================================================
