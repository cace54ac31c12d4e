---------------------------- MODULE PeerScoring -----------------------------
(***************************************************************************)
(* The scores a node keeps of its peers per topic                          *)
(* (crates/pubsub/src/peer_scoring.rs).  Evidence decays lazily: an entry  *)
(* holds values that were current at `decayed`, and every method that      *)
(* touches it brings it up to the time the method read, which is before    *)
(* it has the lock, so a method may come to an entry that is already       *)
(* current at a later time.  Evidence halves every unit of time; values    *)
(* are counted in 1/Unit, so that halving is exact.  Reported bounds the   *)
(* kinds of evidence an instance meets.                                    *)
(*                                                                         *)
(* The send timeout of a peer (PerPeerRttTracker of                        *)
(* crates/pubsub/src/timing.rs): a ring of the last Ring send durations,   *)
(* the percentile of what it holds, and the timeout computed from it.      *)
(* The code takes Percent for 95 and Half for 5 halves; samples are        *)
(* durations in a small set.                                               *)
(***************************************************************************)
EXTENDS Integers, FiniteSetsExt, Sequences, Naturals, FiniteSets

CONSTANTS Topics, Peers, Threads, Reported, MaxIdle, Cap, MaxTime, MaxEvents

CONSTANTS Samples, Ring, Percent, Half, Floor, Ceiling

VARIABLES
  clock,
  entry,      \* inner
  call,       \* each thread's call, with the time it read
  log         \* evidence of each entry: its kind and amount, the time its
              \* method read, and the time it was applied

VARIABLES
  ring,       \* slots 0 .. Ring - 1
  next,
  filled,
  recent      \* the samples recorded last, at most Ring, oldest first

scoreVars == <<clock, entry, call, log>>

Pairs == Topics \X Peers
Kinds == {"first", "deficit", "invalid", "penalty"}
Unit == 2^MaxTime
Never == -1

NoEntry == [present |-> FALSE, joined |-> Never, value |-> [k \in Kinds |-> 0],
            decayed |-> 0, activity |-> 0]
New(now) == [NoEntry EXCEPT !.present = TRUE, !.decayed = now, !.activity = now]
Idle == [op |-> "idle"]

ScoreInit ==
  /\ clock = 0
  /\ entry = [x \in Pairs |-> NoEntry]
  /\ call = [h \in Threads |-> Idle]
  /\ log = [x \in Pairs |-> << >>]

ScoreTypeOK ==
  /\ clock \in 0..MaxTime
  /\ \A x \in Pairs :
       LET n == entry[x]
       IN /\ n.joined \in Never..clock
          /\ n.decayed \in 0..clock
          /\ n.activity \in 0..clock
          /\ \A k \in Kinds : n.value[k] \in 0..(Unit * 2 * MaxEvents)
          /\ ~n.present => n = NoEntry /\ log[x] = << >>

-----------------------------------------------------------------------------
decay_to(n, now) ==
  IF now <= n.decayed THEN n
  ELSE [n EXCEPT !.value = [k \in Kinds |-> @[k] \div 2^(now - n.decayed)], !.decayed = now]

TimeInMesh(n, now) ==
  IF n.joined = Never \/ n.joined > now THEN 0
  ELSE IF now - n.joined < Cap THEN now - n.joined ELSE Cap

\* Mutant: the deficit is added with the sign of a delivery.
ScoreUnsigned(n, now) ==
  LET v == n.value
  IN TimeInMesh(n, now) * Unit * Unit
     + 100 * v["first"] * Unit + 100 * v["deficit"] * Unit
     - 10000 * v["invalid"] * v["invalid"] - 1000 * v["penalty"] * v["penalty"]

\* In hundredths, times Unit squared.
score(n, now) ==
  LET v == n.value
  IN TimeInMesh(n, now) * Unit * Unit
     + 100 * v["first"] * Unit - 100 * v["deficit"] * Unit
     - 10000 * v["invalid"] * v["invalid"] - 1000 * v["penalty"] * v["penalty"]

OrNew(x, now) == IF entry[x].present THEN entry[x] ELSE New(now)

\* Mutant: evidence is added to what the entry holds, decayed or not.
AddUndecayed(n, k, amount, now) ==
  [n EXCEPT !.value[k] = @ + amount * Unit, !.activity = now]

Add(n, k, amount, now) ==
  [decay_to(n, now) EXCEPT !.value[k] = @ + amount * Unit, !.activity = now]

\* record_first_delivery, record_mesh_pruned, record_invalid_message add one;
\* record_delivery_deficit and record_behavioral_penalty an amount that is
\* taken for zero unless it is positive.
Amounts(k) == IF k \in {"deficit", "penalty"} THEN {0, 1, 2} ELSE {1}

Record(h) ==
  LET c == call[h]
  IN /\ c.op = "record"
     /\ entry' = [entry EXCEPT ![c.pair] = Add(OrNew(c.pair, c.now), c.kind, c.amount, c.now)]
     /\ log' = [log EXCEPT ![c.pair] =
          Append(@, [kind |-> c.kind, amount |-> c.amount, read |-> c.now, at |-> clock])]

note_mesh_join(h) ==
  LET c == call[h]
      n == OrNew(c.pair, c.now)
  IN /\ c.op = "join"
     /\ entry' = [entry EXCEPT ![c.pair] =
          [n EXCEPT !.activity = c.now, !.joined = IF @ = Never THEN c.now ELSE @]]
     /\ log' = [log EXCEPT ![c.pair] =
          Append(@, [kind |-> "first", amount |-> 0, read |-> c.now, at |-> clock])]

\* tick_decay, and the decay of snapshot.
tick_decay(now) ==
  [x \in Pairs |-> IF entry[x].present THEN decay_to(entry[x], now) ELSE entry[x]]

Snapshot(h) ==
  /\ call[h].op = "snapshot"
  /\ entry' = tick_decay(call[h].now)
  /\ UNCHANGED log

\* The public score reads one entry and leaves it current.
Read(h) ==
  LET c == call[h]
  IN /\ c.op = "score"
     /\ entry' = [entry EXCEPT ![c.pair] = IF @.present THEN decay_to(@, c.now) ELSE @]
     /\ UNCHANGED log

Drop(xs) ==
  /\ entry' = [x \in Pairs |-> IF x \in xs THEN NoEntry ELSE entry[x]]
  /\ log' = [x \in Pairs |-> IF x \in xs THEN << >> ELSE log[x]]

retain_active_at(h) ==
  LET c == call[h]
  IN /\ c.op = "retain"
     /\ Drop({x \in Pairs : x \notin c.live /\ c.now - entry[x].activity > MaxIdle})

Apply(h) ==
  /\ Record(h) \/ note_mesh_join(h) \/ Snapshot(h) \/ Read(h) \/ retain_active_at(h)
  /\ call' = [call EXCEPT ![h] = Idle]
  /\ UNCHANGED clock

-----------------------------------------------------------------------------
\* A method reads the clock; it goes on once it has the lock.
Enter(h, c) ==
  /\ call[h] = Idle
  /\ call' = [call EXCEPT ![h] = c]
  /\ UNCHANGED <<clock, entry, log>>

Evidence(x) == Len(log[x]) + Cardinality({h \in Threads : call[h].op \in {"record", "join"}})

Call(h) ==
  \/ \E x \in Pairs :
       /\ Evidence(x) < MaxEvents
       /\ \/ Enter(h, [op |-> "join", now |-> clock, pair |-> x])
          \/ \E k \in Reported : \E a \in Amounts(k) :
               Enter(h, [op |-> "record", now |-> clock, pair |-> x, kind |-> k, amount |-> a])
  \/ \E x \in Pairs : Enter(h, [op |-> "score", now |-> clock, pair |-> x])
  \/ Enter(h, [op |-> "snapshot", now |-> clock])
  \/ \E live \in SUBSET Pairs : Enter(h, [op |-> "retain", now |-> clock, live |-> live])

remove_topic(t) == Drop({t} \X Peers) /\ UNCHANGED <<clock, call>>
forget_peer(p) == Drop(Topics \X {p}) /\ UNCHANGED <<clock, call>>

Tick ==
  /\ clock < MaxTime
  /\ clock' = clock + 1
  /\ UNCHANGED <<entry, call, log>>

ScoreNext ==
  \/ \E h \in Threads : Call(h) \/ Apply(h)
  \/ \E t \in Topics : remove_topic(t)
  \/ \E p \in Peers : forget_peer(p)
  \/ Tick

-----------------------------------------------------------------------------
\* What evidence of one kind is worth now if each piece decays from `when` on.
Worth(s, k, when) ==
  MapThenSumSet(LAMBDA i : s[i].amount * (Unit \div 2^(clock - s[i][when])),
                {i \in DOMAIN s : s[i].kind = k})

\* Lazy decay is decay: whatever methods touched an entry in whatever order,
\* its value is at least what its evidence is worth from the times its methods
\* read, and at most what it is worth from the times they had the lock
\* ("every method that touches a peer entry first decays it").
DecayExact ==
  \A x \in Pairs : entry[x].present =>
    \A k \in Kinds :
      LET v == decay_to(entry[x], clock).value[k]
      IN Worth(log[x], k, "read") <= v /\ v <= Worth(log[x], k, "at")

\* At any moment bad evidence does not raise a score, good evidence does not
\* lower it, and reading, ticking or polling leaves it as it is.
EvidenceMovesStep ==
  \A x \in Pairs : clock' = clock /\ entry[x].present /\ entry'[x].present =>
    LET old == score(decay_to(entry[x], clock), clock)
        new == score(decay_to(entry'[x], clock), clock)
        k == log'[x][Len(log'[x])].kind
    IN IF log'[x] = log[x] THEN new = old
       ELSE IF k = "first" THEN new >= old ELSE new <= old

LastEvidence(x) ==
  CHOOSE m \in 0..MaxTime : /\ \E i \in DOMAIN log[x] : log[x][i].read = m
                            /\ \A i \in DOMAIN log[x] : log[x][i].read <= m

\* The sweep bounds the table: what it keeps is a live membership or has
\* evidence within max_idle of the sweep, however often the diagnostics polled
\* the entry in between ("polling refreshed the GC clock and kept every churned
\* entry alive").
SweepBoundsStep ==
  \A h \in Threads : call[h].op = "retain" /\ call'[h] = Idle =>
    \A x \in Pairs : entry'[x].present =>
      x \in call[h].live \/ call[h].now - LastEvidence(x) <= MaxIdle

-----------------------------------------------------------------------------
timingVars == <<ring, next, filled, recent>>

TimingInit ==
  /\ ring = [i \in 0..(Ring - 1) |-> 0]
  /\ next = 0
  /\ filled = 0
  /\ recent = << >>

TimingTypeOK ==
  /\ ring \in [0..(Ring - 1) -> Samples \union {0}]
  /\ next \in 0..(Ring - 1)
  /\ filled \in 0..Ring
  /\ Len(recent) = filled

\* Mutant: the ring is one slot shorter than it counts.
RecordShort(ms) ==
  /\ ring' = [ring EXCEPT ![next] = ms]
  /\ next' = (next + 1) % (Ring - 1)
  /\ filled' = IF filled < Ring THEN filled + 1 ELSE filled
  /\ recent' = IF Len(recent) < Ring THEN Append(recent, ms) ELSE Append(Tail(recent), ms)

record_sample(ms) ==
  /\ ring' = [ring EXCEPT ![next] = ms]
  /\ next' = (next + 1) % Ring
  /\ filled' = IF filled < Ring THEN filled + 1 ELSE filled
  /\ recent' = IF Len(recent) < Ring THEN Append(recent, ms) ELSE Append(Tail(recent), ms)

TimingNext == \E ms \in Samples : record_sample(ms)

-----------------------------------------------------------------------------
\* The k-th smallest, from 0, of what the first `filled` slots hold.
Sorted(k) ==
  CHOOSE v \in {ring[i] : i \in 0..(filled - 1)} :
    /\ Cardinality({i \in 0..(filled - 1) : ring[i] < v}) <= k
    /\ Cardinality({i \in 0..(filled - 1) : ring[i] <= v}) > k

Index ==
  LET rank == (filled * Percent + 99) \div 100
  IN IF rank = 0 THEN 0 ELSE rank - 1

p95_ms == Sorted(Index)

\* Mutant: the timeout is the percentile itself, less its rounding.
TimeoutTight(cold) ==
  IF filled = 0 THEN IF cold < Ceiling THEN cold ELSE Ceiling
  ELSE LET scaled == p95_ms \div 2
           low == IF scaled > Floor THEN scaled ELSE Floor
       IN IF low < Ceiling THEN low ELSE Ceiling

adaptive_timeout(cold) ==
  IF filled = 0 THEN IF cold < Ceiling THEN cold ELSE Ceiling
  ELSE LET scaled == (p95_ms * Half) \div 2
           low == IF scaled > Floor THEN scaled ELSE Floor
       IN IF low < Ceiling THEN low ELSE Ceiling

Within(limit) == Cardinality({i \in DOMAIN recent : recent[i] <= limit})

-----------------------------------------------------------------------------
\* The percentile is that of the last Ring samples, whatever the ring has been
\* through: it is the least of them that Percent of them do not exceed
\* ("ceil(0.95 x N) - 1, clamped to last element").
IsPercentile ==
  filled > 0 =>
    /\ \E i \in DOMAIN recent : recent[i] = p95_ms
    /\ 100 * Within(p95_ms) >= Percent * filled
    /\ \A i \in DOMAIN recent :
         recent[i] < p95_ms => 100 * Within(recent[i]) < Percent * filled

\* A timeout that is not the ceiling would have let Percent of the recent sends
\* finish (adaptive_timeout).
CoversTail ==
  filled > 0 =>
    LET limit == adaptive_timeout(Floor)
    IN limit = Ceiling \/ 100 * Within(limit) >= Percent * filled

-----------------------------------------------------------------------------
(* Both parts. *)

vars == <<scoreVars, timingVars>>

Init == ScoreInit /\ TimingInit

Next ==
  \/ ScoreNext /\ UNCHANGED timingVars
  \/ TimingNext /\ UNCHANGED scoreVars

Spec == Init /\ [][Next]_vars
=============================================================================
