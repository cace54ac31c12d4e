---------------------------- MODULE MessageCache ----------------------------
(***************************************************************************)
(* The message cache of a topic (BoundedMessageCache and the TopicState    *)
(* functions around it in crates/pubsub/src/lib.rs): a least-recently-used *)
(* list bounded by age, bytes and count, with a running total of its bytes *)
(* and a running count of the live messages this node published.  Every    *)
(* step runs under the write lock of the topic.  Inserting drops expired   *)
(* entries, then the old copy of the id, then the least recently used      *)
(* entries until the bytes and then the count fit; reading drops expired   *)
(* entries and moves the entry to the front.                               *)
(***************************************************************************)
EXTENDS Naturals, Sequences, FiniteSets, SequencesExt

CONSTANTS
  Ids,
  Sizes,       \* sizes of payloads with their overhead
  MaxCount,    \* max_count
  MaxBytes,    \* max_bytes
  MaxAge       \* max_age

VARIABLES
  lru,         \* the resident ids, most recently used first
  entry,       \* the entries of the resident ids
  total,       \* total_bytes
  live         \* live_local_origin

vars == <<lru, entry, total, live>>

Absent == [bytes |-> 0, age |-> 0, local |-> FALSE, dropped |-> FALSE]
Resident == Range(lru)
counts_as_live_local(e) == e.local /\ ~e.dropped

TypeOK ==
  /\ Resident \subseteq Ids
  /\ Len(lru) = Cardinality(Resident)
  /\ \A i \in Ids :
       IF i \in Resident
       THEN entry[i] \in [bytes : Sizes, age : 0..MaxAge, local : BOOLEAN, dropped : BOOLEAN]
       ELSE entry[i] = Absent

Init ==
  /\ lru = <<>>
  /\ entry = [i \in Ids |-> Absent]
  /\ total = 0
  /\ live = 0

-----------------------------------------------------------------------------
(* The operators take and return the cache as a record.                    *)

Cache == [lru |-> lru, entry |-> entry, total |-> total, live |-> live]

Becomes(c) ==
  /\ lru' = c.lru
  /\ entry' = c.entry
  /\ total' = c.total
  /\ live' = c.live

Sub(n, k) == IF n > k THEN n - k ELSE 0

\* Mutant: the removal of a live local entry is not counted.
NoteNothing(c, i) == c.live

note_removed_entry(c, i) ==
  IF counts_as_live_local(c.entry[i]) THEN Sub(c.live, 1) ELSE c.live

pop(c, i) ==
  IF i \notin Range(c.lru) THEN c
  ELSE [lru |-> SelectSeq(c.lru, LAMBDA x : x # i),
        entry |-> [c.entry EXCEPT ![i] = Absent],
        total |-> Sub(c.total, c.entry[i].bytes),
        live |-> note_removed_entry(c, i)]

Expired(c) == {i \in Range(c.lru) : c.entry[i].age >= MaxAge}

prune_expired(c) == FoldSet(LAMBDA i, acc : pop(acc, i), c, Expired(c))

pop_lru(c) == pop(c, Last(c.lru))

RECURSIVE EnsureBytesStrict(_, _)
\* Mutant: an entry is evicted although the bytes fit exactly.
EnsureBytesStrict(c, bytes) ==
  IF c.total + bytes >= MaxBytes /\ c.lru # <<>>
  THEN EnsureBytesStrict(pop_lru(c), bytes) ELSE c

RECURSIVE ensure_bytes_capacity(_, _)
ensure_bytes_capacity(c, bytes) ==
  IF c.total + bytes > MaxBytes /\ c.lru # <<>>
  THEN ensure_bytes_capacity(pop_lru(c), bytes) ELSE c

RECURSIVE ensure_count_capacity_for_insert(_)
ensure_count_capacity_for_insert(c) ==
  IF Len(c.lru) + 1 > MaxCount /\ c.lru # <<>>
  THEN ensure_count_capacity_for_insert(pop_lru(c)) ELSE c

Push(c, i, e) ==
  [lru |-> <<i>> \o c.lru,
   entry |-> [c.entry EXCEPT ![i] = e],
   total |-> c.total + e.bytes,
   live |-> IF counts_as_live_local(e) THEN c.live + 1 ELSE c.live]

Accepted(bytes) == bytes <= MaxBytes

insert(i, e) ==
  LET c == pop(prune_expired(Cache), i)
  IN IF Accepted(e.bytes)
     THEN Push(ensure_count_capacity_for_insert(ensure_bytes_capacity(c, e.bytes)), i, e)
     ELSE c

Touched(c, i) ==
  IF i \in Range(c.lru)
  THEN [c EXCEPT !.lru = <<i>> \o SelectSeq(c.lru, LAMBDA x : x # i)] ELSE c

get(i) == Touched(prune_expired(Cache), i)

mark_dropped(c, i) ==
  IF i \notin Range(c.lru) \/ c.entry[i].dropped THEN Touched(c, i)
  ELSE [Touched(c, i) EXCEPT !.entry[i].dropped = TRUE,
                             !.live = IF c.entry[i].local THEN Sub(@, 1) ELSE @]

-----------------------------------------------------------------------------
NewEntry(bytes, local) == [bytes |-> bytes, age |-> 0, local |-> local, dropped |-> FALSE]

cache_message(i, bytes, local) ==
  IF ~local /\ i \in Range(get(i).lru) /\ entry[i].local
  THEN get(i)
  ELSE insert(i, NewEntry(bytes, local))

has_message(i) == i \in Resident

\* publish_local.
Publish(i, bytes) == Becomes(cache_message(i, bytes, TRUE))

\* handle_eager of an id the cache does not hold; a message that the validator
\* drops, or that wraps a refused payload, is marked in the same step.
Receive(i, bytes, refused) ==
  /\ ~has_message(i)
  /\ LET c == cache_message(i, bytes, FALSE)
     IN Becomes(IF refused THEN mark_dropped(c, i) ELSE c)

get_message(i) == Becomes(get(i))

\* get_local_origin_message looks without touching the order.
get_local_origin_message == Becomes(prune_expired(Cache))

Tick ==
  /\ \E i \in Resident : entry[i].age < MaxAge
  /\ entry' = [i \in Ids |-> IF i \in Resident /\ entry[i].age < MaxAge
                             THEN [entry[i] EXCEPT !.age = @ + 1] ELSE entry[i]]
  /\ UNCHANGED <<lru, total, live>>

Next ==
  \/ \E i \in Ids, b \in Sizes : Publish(i, b)
  \/ \E i \in Ids, b \in Sizes, r \in BOOLEAN : Receive(i, b, r)
  \/ \E i \in Ids : get_message(i)
  \/ get_local_origin_message
  \/ Tick

Spec == Init /\ [][Next]_vars

-----------------------------------------------------------------------------
RECURSIVE SumOf(_)
SumOf(s) == IF s = {} THEN 0 ELSE LET i == CHOOSE i \in s : TRUE IN entry[i].bytes + SumOf(s \ {i})

\* After any sequence of inserts, evictions by age, bytes and count, reads and
\* refusals the two running figures equal what a scan of the cache would find,
\* and neither bound is exceeded (total_bytes, live_local_origin: "maintained
\* at every insertion, eviction, expiry, and drop-marking site").
CountersExact ==
  /\ total = SumOf(Resident)
  /\ live = Cardinality({i \in Resident : counts_as_live_local(entry[i])})
  /\ total <= MaxBytes
  /\ Len(lru) <= MaxCount

Inserted(i) == Resident' # {} /\ lru'[1] = i /\ entry'[i].age = 0 /\ entry[i] # entry'[i]
KeptBefore(i) == {j \in Resident \ {i} : entry[j].age < MaxAge}
Position(j) == CHOOSE k \in 1..Len(lru) : lru[k] = j

\* An insert evicts as little as the bounds allow: what leaves unexpired is
\* less recently used than all that stays, and even the most recent of it
\* could not have stayed (insert_at evicts "age first, then bytes, then count").
NoNeedlessEvictionStep ==
  \A i \in Ids : Inserted(i) =>
    \A j \in KeptBefore(i) \ Resident' :
      LET newer == {k \in KeptBefore(i) : Position(k) < Position(j)}
      IN /\ \A k \in Resident' \ {i} : Position(k) < Position(j)
         /\ newer \subseteq Resident' =>
              \/ SumOf(newer \union {j}) + entry'[i].bytes > MaxBytes
              \/ Cardinality(newer) + 2 > MaxCount
=============================================================================
