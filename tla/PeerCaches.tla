----------------------------- MODULE PeerCaches -----------------------------
(***************************************************************************)
(* The deprecated AdvertCache of the coordinator crate (cache.rs): adverts *)
(* by peer in an LRU map behind one mutex.  An insertion into a full map   *)
(* displaces the least recently used peer; insert and get count as uses,   *)
(* also a get that answers None because the advert has expired; listings   *)
(* do not.  Every method takes the mutex once, so a method is a step.  A   *)
(* role filter that panics poisons the mutex, and from then on every       *)
(* method answers as if the cache were empty.                              *)
(*                                                                         *)
(* PeerCache of the coordinator crate: a map of peers in the memory of     *)
(* each process, saved to and loaded from one file of the machine.         *)
(*                                                                         *)
(* save opens the file with File::create, which truncates it, and takes    *)
(* the exclusive lock after that; load takes a shared lock.  A cache is    *)
(* written in two blocks at the writer's own offset.  Which entries are    *)
(* too old is left open.                                                   *)
(***************************************************************************)
EXTENDS Naturals, Sequences, FiniteSets, SequencesExt, Integers

CONSTANTS Peers,     \* peers that advertise
          Capacity,  \* the LRU map's capacity
          Scores,    \* scores an advert may carry
          MaxTime,   \* bound on the clock
          MaxUses    \* bound on inserts and gets

CONSTANTS FilePeers, Procs, MaxSaves, MaxCrash

VARIABLES order,    \* the map's peers, most recently used first
          adverts,  \* peer |-> its advert; meaningful for the peers of order
          poisoned, \* the mutex is poisoned
          now,
          used      \* ghost: peer |-> number of the last use of its entry

VARIABLES
  entries,         \* the map of each process: the peers it holds
  file,            \* the two blocks of the file: 0, or the save they are of
  snap,            \* the entries of each save, taken under the lock
  writer, readers, \* the holder of the exclusive lock; the shared holders
  call,            \* where the process is: in a save, a load or neither
  saves, crashes

lruVars == <<order, adverts, poisoned, now, used>>

Advert == [not_before : 0..(MaxTime + 1), not_after : 0..(MaxTime + 1), score : Scores]

Blank == [not_before |-> 0, not_after |-> 0, score |-> 0]

Cached == ToSet(order)

\* The adverts that remain when the map holds the peers of o.
Kept(o) == [p \in Peers |-> IF p \in ToSet(o) THEN adverts[p] ELSE Blank]

Uses == LET U == {used[p] : p \in Peers} IN CHOOSE n \in U : \A m \in U : m <= n

\* CoordinatorAdvert::is_valid
is_valid(a) == a.not_before <= now /\ now <= a.not_after

LruTypeOK ==
  /\ order \in SeqOf(Peers, Capacity) /\ IsInjective(order)
  /\ adverts \in [Peers -> Advert]
  /\ poisoned \in BOOLEAN
  /\ now \in 0..MaxTime
  /\ used \in [Peers -> 0..MaxUses]

LruInit ==
  /\ order = << >>
  /\ adverts = [p \in Peers |-> Blank]
  /\ poisoned = FALSE
  /\ now = 0
  /\ used = [p \in Peers |-> 0]

\* LruCache::get and the update of a present key: the entry moves to the
\* front.
Promoted(p) == <<p>> \o Remove(order, p)

\* LruCache::put of a new key: the last entry makes room.
Put(p) ==
  IF p \in Cached THEN <<p>> \o Remove(order, p)
  ELSE <<p>> \o SubSeq(order, 1, IF Len(order) < Capacity THEN Len(order) ELSE Capacity - 1)

Use(p) == used' = [used EXCEPT ![p] = Uses + 1]

insert(p, a) ==
  /\ Uses < MaxUses
  /\ is_valid(a) /\ ~poisoned
  /\ order' = Put(p)
  /\ adverts' = [Kept(order') EXCEPT ![p] = a]
  /\ Use(p)
  /\ UNCHANGED <<poisoned, now>>

\* Mutant: the lookup peeks.
GetPeeking(p) ==
  /\ Uses < MaxUses
  /\ p \in Cached /\ ~poisoned
  /\ Use(p)
  /\ UNCHANGED <<order, adverts, poisoned, now>>

\* The entry is promoted before its validity is looked at.
get(p) ==
  /\ Uses < MaxUses
  /\ p \in Cached /\ ~poisoned
  /\ order' = Promoted(p)
  /\ Use(p)
  /\ UNCHANGED <<adverts, poisoned, now>>

prune_expired ==
  /\ ~poisoned
  /\ order' = SelectSeq(order, LAMBDA p : is_valid(adverts[p]))
  /\ adverts' = Kept(order')
  /\ UNCHANGED <<poisoned, now, used>>

clear ==
  /\ ~poisoned
  /\ order' = << >>
  /\ adverts' = Kept(order')
  /\ UNCHANGED <<poisoned, now, used>>

\* get_by_role with a filter that panics while the guard is held.
FilterPanics ==
  /\ poisoned' = TRUE
  /\ UNCHANGED <<order, adverts, now, used>>

Tick ==
  /\ now < MaxTime
  /\ now' = now + 1
  /\ UNCHANGED <<order, adverts, poisoned, used>>

LruNext ==
  \/ \E p \in Peers : \E a \in Advert : a.not_before <= a.not_after /\ insert(p, a)
  \/ \E p \in Peers : get(p)
  \/ prune_expired
  \/ clear
  \/ FilterPanics
  \/ Tick

\* What the listings read: nothing through a poisoned mutex.
Listed == IF poisoned THEN << >> ELSE SelectSeq(order, LAMBDA p : is_valid(adverts[p]))

Place(p) == CHOOSE i \in DOMAIN order : order[i] = p

Tied(p, q) == adverts[p].score = adverts[q].score /\ Place(p) < Place(q)

\* Mutant: the sort key without Reverse.
SortedAscending(s) ==
  SortSeq(s, LAMBDA p, q : adverts[p].score < adverts[q].score \/ Tied(p, q))

\* sort_by_key(Reverse(score)), which is stable.
Sorted(s) ==
  SortSeq(s, LAMBDA p, q : adverts[p].score > adverts[q].score \/ Tied(p, q))

get_all_sorted == Sorted(Listed)

len == Len(Listed)

-----------------------------------------------------------------------------
(* Properties *)

\* A displaced entry is the one whose last insert or get is the longest ago,
\* and only an insertion into a full map displaces one: a peer that is looked
\* up again and again is not lost to peers that are only inserted.
EvictsOldestStep ==
  \A p \in Peers :
    p \in Cached \ ToSet(order') /\ used' # used
      => /\ Cardinality(Cached) = Capacity
         /\ \A q \in Cached : used[p] <= used[q]

\* The sorted listing holds every valid advert once, highest score first.
SortedListing ==
  LET out == get_all_sorted IN
    /\ ~poisoned => ToSet(out) = {p \in Cached : is_valid(adverts[p])}
    /\ Len(out) = len /\ Cardinality(ToSet(out)) = Len(out)
    /\ \A i, j \in 1..Len(out) :
         i < j => adverts[out[i]].score >= adverts[out[j]].score

-----------------------------------------------------------------------------
fileVars == <<entries, file, snap, writer, readers, call, saves, crashes>>

Idle == [pc |-> "idle", id |-> 0, got |-> <<0, 0>>]
Empty == <<0, 0>>
Whole(f) == f[1] = f[2] /\ f[1] # 0

FileInit ==
  /\ entries = [c \in Procs |-> {}]
  /\ file = Empty /\ snap = [i \in 1 .. MaxSaves |-> {}]
  /\ writer = {} /\ readers = {}
  /\ call = [c \in Procs |-> Idle]
  /\ saves = 0 /\ crashes = 0

InsertPeer(c, p) ==
  /\ p \notin entries[c]
  /\ entries' = [entries EXCEPT ![c] = @ \cup {p}]
  /\ UNCHANGED <<file, snap, writer, readers, call, saves, crashes>>

\* prune_old drops the entries without a success for seven days.
prune_old(c) ==
  /\ \E old \in SUBSET entries[c] \ {{}} : entries' = [entries EXCEPT ![c] = @ \ old]
  /\ UNCHANGED <<file, snap, writer, readers, call, saves, crashes>>

ClearFile(c) ==
  /\ entries[c] # {}
  /\ entries' = [entries EXCEPT ![c] = {}]
  /\ UNCHANGED <<file, snap, writer, readers, call, saves, crashes>>

-----------------------------------------------------------------------------
(* save.                                                                   *)

\* File::create truncates whatever the others are doing with the file.
SaveOpens(c) ==
  /\ call[c].pc = "idle" /\ saves < MaxSaves
  /\ saves' = saves + 1
  /\ file' = Empty
  /\ call' = [call EXCEPT ![c].pc = "open", ![c].id = saves + 1]
  /\ UNCHANGED <<entries, snap, writer, readers, crashes>>

\* lock_exclusive, and the entries are copied under it.
SaveLocks(c) ==
  /\ call[c].pc = "open" /\ writer = {} /\ readers = {}
  /\ writer' = {c}
  /\ snap' = [snap EXCEPT ![call[c].id] = entries[c]]
  /\ call' = [call EXCEPT ![c].pc = "first"]
  /\ UNCHANGED <<entries, file, readers, saves, crashes>>

SaveWrites(c, k) ==
  /\ call[c].pc = (IF k = 1 THEN "first" ELSE "second")
  /\ file' = [file EXCEPT ![k] = call[c].id]
  /\ call' = [call EXCEPT ![c].pc = IF k = 1 THEN "second" ELSE "close"]
  /\ UNCHANGED <<entries, snap, writer, readers, saves, crashes>>

\* The file is dropped, and the lock with it.
SaveCloses(c) ==
  /\ call[c].pc = "close"
  /\ writer' = writer \ {c}
  /\ call' = [call EXCEPT ![c] = Idle]
  /\ UNCHANGED <<entries, file, snap, readers, saves, crashes>>

-----------------------------------------------------------------------------
(* load.                                                                   *)

\* A file that does not exist gives an empty cache and no lock.
LoadAbsent(c) ==
  /\ call[c].pc = "idle" /\ saves = 0
  /\ entries' = [entries EXCEPT ![c] = {}]
  /\ UNCHANGED <<file, snap, writer, readers, call, saves, crashes>>

LoadLocks(c) ==
  /\ call[c].pc = "idle" /\ saves > 0 /\ writer = {}
  /\ readers' = readers \cup {c}
  /\ call' = [call EXCEPT ![c].pc = "locked"]
  /\ UNCHANGED <<entries, file, snap, writer, saves, crashes>>

\* The blocks are read under the shared lock, one after the other.
LoadReads(c, k) ==
  /\ call[c].pc = (IF k = 1 THEN "locked" ELSE "half")
  /\ call' = [call EXCEPT ![c].pc = IF k = 1 THEN "half" ELSE "decode", ![c].got[k] = file[k]]
  /\ UNCHANGED <<entries, file, snap, writer, readers, saves, crashes>>

\* A file with a missing block does not decode, and load returns the error;
\* otherwise the new cache holds what the blocks say.
LoadEnds(c) ==
  LET got == call[c].got IN
    /\ call[c].pc = "decode"
    /\ entries' = IF 0 \in {got[1], got[2]} THEN entries
                  ELSE [entries EXCEPT ![c] = snap[got[1]]]
    /\ readers' = readers \ {c}
    /\ call' = [call EXCEPT ![c] = Idle]
    /\ UNCHANGED <<file, snap, writer, saves, crashes>>

\* A process dies in the middle of a call, and the system frees its locks.
Dies(c) ==
  /\ call[c].pc # "idle" /\ crashes < MaxCrash
  /\ crashes' = crashes + 1
  /\ writer' = writer \ {c} /\ readers' = readers \ {c}
  /\ call' = [call EXCEPT ![c] = Idle]
  /\ entries' = [entries EXCEPT ![c] = {}]
  /\ UNCHANGED <<file, snap, saves>>

FileNext == \E c \in Procs :
  \/ prune_old(c) \/ ClearFile(c) \/ \E p \in FilePeers : InsertPeer(c, p)
  \/ SaveOpens(c) \/ SaveLocks(c) \/ SaveCloses(c) \/ Dies(c)
  \/ LoadAbsent(c) \/ LoadLocks(c) \/ LoadEnds(c)
  \/ \E k \in 1 .. 2 : SaveWrites(c, k) \/ LoadReads(c, k)

-----------------------------------------------------------------------------
\* The file, the locks and the calls have the shapes given above.
FileTypeOK ==
  /\ file \in (0 .. MaxSaves) \X (0 .. MaxSaves)
  /\ writer \subseteq Procs /\ Cardinality(writer) <= 1 /\ (writer # {} => readers = {})
  /\ \A c \in Procs : call[c].pc \in {"idle", "open", "first", "second", "close",
                                      "locked", "half", "decode"}
  /\ entries \in [Procs -> SUBSET FilePeers]

\* Saves that truncate each other's file still leave one whole cache behind:
\* the last to write under the lock writes all of it (save).
SettledWhole ==
  (crashes = 0 /\ saves > 0
     /\ \A c \in Procs : call[c].pc \notin {"open", "first", "second", "close"})
  => Whole(file)

\* What a load accepts is one process's cache, never the first block of one
\* save and the second of another, while no process dies in a save (load).
NoMixture ==
  \A c \in Procs :
    crashes = 0 /\ call[c].pc = "decode" /\ 0 \notin {call[c].got[1], call[c].got[2]}
    => Whole(call[c].got)

-----------------------------------------------------------------------------
(* Both parts. *)

vars == <<lruVars, fileVars>>

Init == LruInit /\ FileInit

Next ==
  \/ LruNext /\ UNCHANGED fileVars
  \/ FileNext /\ UNCHANGED lruVars

Spec == Init /\ [][Next]_vars
=============================================================================
