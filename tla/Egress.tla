------------------------------- MODULE Egress -------------------------------
(***************************************************************************)
(* The byte limiter of a leaf node (LeafEgressLimiter in                   *)
(* crates/pubsub/src/egress.rs): one token bucket, from which data takes   *)
(* what it finds and for which recovery traffic registers intents.  An     *)
(* intent is charged little by little: critical and ordinary intents in a  *)
(* fixed ratio of slots, the ordinary ones topic by topic (a topic is a    *)
(* scope).  A full table makes room for a peer with few intents at the     *)
(* cost of the peer with most, and the newcomer's topic goes to the front. *)
(*                                                                         *)
(* A step is one call under the limiter's mutex.  Every call first brings  *)
(* the clocks forward by the time since the last one.  Bytes and ticks are *)
(* small numbers.  A key names a peer, a scope, a family and an operation, *)
(* and so has one size.                                                    *)
(***************************************************************************)
EXTENDS Naturals, Sequences, FiniteSets, SequencesExt, FiniteSetsExt

CONSTANTS
  Keys, Peer, Scope, Family, Size,   \* keys, and functions on them
  DataKeys,       \* the keys that also stand for frames of data
  Waiters,        \* calls that may wait for bytes at once
  Burst, Rate, SoftRate, MaxFrame,
  Quantum,        \* recovery_quantum
  CriticalSlots,  \* RECOVERY_CRITICAL_SLOTS
  MaxAge, MaxLife,             \* the two ends of an intent
  OrdinaryMax, CriticalMax,    \* intents per class
  OrdinaryWaiters, CriticalWaiters, PeerOrdinary, PeerWaiters,
  MaxCredit,      \* DISPLACEMENT_TOKEN_CAPACITY
  Configs,        \* the policies an operator switches between
  Elapsed,        \* time between two calls
  MaxGeneration   \* bound on reconfigurations

VARIABLES
  lim,     \* State
  waiter,  \* per waiter, what it waits for
  ghost    \* bytes added and bytes handed out by the last call

vars == <<lim, waiter, ghost>>

Classes == {"Ordinary", "CriticalEager"}
None == "none"
Intents == [seen : 0..MaxAge, life : 0..MaxLife, charged : 0..MaxFrame, class : Classes]
Free == [key |-> None]
NoIntent == [class |-> None]
Nothing == [added |-> 0, minted |-> 0]

Live(s) == {k \in Keys : s.intents[k] # NoIntent}
Pending(s, c) ==
  {k \in Live(s) : s.intents[k].class = c /\ s.intents[k].charged < Size[k]}
Counted(s, x) == s.scope_counts[x] > 0
CapTo(n, m) == IF n < m THEN n ELSE m
Less(n, m) == IF n < m THEN 0 ELSE n - m

\* Types; the table and its rotation agree: a scope is in the rotation, once,
\* exactly while ordinary intents of it wait for bytes, and its count is their
\* number; one intent per family; each class within its cap.
TypeOK ==
  /\ lim.intents \in [Keys -> Intents \union {NoIntent}]
  /\ lim.tokens \in 0..Burst /\ lim.soft_tokens \in 0..Burst
  /\ lim.slot_remaining \in 1..Quantum
  /\ Range(lim.line) = Live(lim) /\ IsInjective(lim.line)
  /\ \A x \in Range(Scope) :
       lim.scope_counts[x] = Cardinality({k \in Pending(lim, "Ordinary") : Scope[k] = x})
  /\ IsInjective(lim.scopes)
  /\ Range(lim.scopes) = {x \in Range(Scope) : Counted(lim, x)}
  /\ \A k, l \in Live(lim) : Family[k] = Family[l] => k = l
  /\ Cardinality({k \in Live(lim) : lim.intents[k].class = "Ordinary"}) <= OrdinaryMax
  /\ Cardinality({k \in Live(lim) : lim.intents[k].class = "CriticalEager"}) <= CriticalMax

\* bypass counts critical bytes charged since the last ordinary byte while
\* ordinary intents waited; it is history.
Fresh(config, generation) ==
  [config |-> config, generation |-> generation,
   tokens |-> IF config = None THEN 0 ELSE Burst,
   soft_tokens |-> IF config = None THEN 0 ELSE Burst,
   intents |-> [k \in Keys |-> NoIntent], line |-> <<>>,
   scopes |-> <<>>, scope_counts |-> [x \in Range(Scope) |-> 0],
   slot |-> 0, slot_remaining |-> Quantum,
   credit |-> [c \in Classes |-> MaxCredit],
   promoted |-> Free, bypass |-> 0]

Init ==
  /\ lim = Fresh(None, 0)
  /\ waiter = [w \in Waiters |-> Free]
  /\ ghost = Nothing
-----------------------------------------------------------------------------
(* The rotation of scopes. *)

add_ordinary_pending(s, x, front) ==
  [s EXCEPT !.scope_counts[x] = @ + 1,
            !.scopes = CASE Counted(s, x) -> @
                         [] front         -> <<x>> \o @
                         [] OTHER         -> Append(@, x)]

remove_ordinary_pending(s, x) ==
  LET n == Less(s.scope_counts[x], 1)
  IN [s EXCEPT !.scope_counts[x] = n,
               !.scopes = IF Counted(s, x) /\ n = 0
                          THEN SelectSeq(@, LAMBDA y : y # x) ELSE @]

\* Mutant: the rotation is left as it is.
ForgetOnlyIntent(s, k) ==
  [s EXCEPT !.intents[k] = NoIntent, !.line = SelectSeq(@, LAMBDA l : l # k)]

\* An intent leaves the table with its place in the rotation.
Forget(s, k) ==
  LET t == IF k \in Pending(s, "Ordinary") THEN remove_ordinary_pending(s, Scope[k]) ELSE s
  IN [t EXCEPT !.intents[k] = NoIntent, !.line = SelectSeq(@, LAMBDA l : l # k)]

ForgetAll(s, ks) == FoldSet(LAMBDA k, t : Forget(t, k), s, ks)

promotion_live(s) ==
  /\ s.promoted # Free
  /\ s.promoted.visits > 0
  /\ s.intents[s.promoted.key] # NoIntent
  /\ s.intents[s.promoted.key].charged < Size[s.promoted.key]

DropStale(s) == IF promotion_live(s) THEN s ELSE [s EXCEPT !.promoted = Free]

advance_recovery_slot(s) ==
  [s EXCEPT !.slot = (@ + 1) % (CriticalSlots + 1), !.slot_remaining = Quantum]

\* Mutant: the slots of the critical class come round before the ordinary one.
SlotsOfCritical(s) ==
  LET critical == Pending(s, "CriticalEager") # {}
  IN CASE critical -> "CriticalEager"
       [] ~critical /\ s.scopes # <<>> -> "Ordinary"
       [] OTHER -> None

\* The class that the slot serves; an idle class gives its slot away.
ServedClass(s) ==
  LET critical == Pending(s, "CriticalEager") # {}
      ordinary == s.scopes # <<>>
  IN CASE ~critical /\ ~ordinary -> None
       [] critical /\ (~ordinary \/ s.slot < CriticalSlots) -> "CriticalEager"
       [] OTHER -> "Ordinary"

\* A visit to the promoted scope uses up its hold, whichever intent it serves.
Visit(s, k) ==
  LET p == s.promoted
      visits == Less(p.visits, 1)
  IN IF p = Free \/ Scope[p.key] # Scope[k] THEN s
     ELSE IF visits = 0 \/ (s.intents[p.key] # NoIntent
                            /\ s.intents[p.key].charged >= Size[p.key])
          THEN [s EXCEPT !.promoted = Free]
          ELSE [s EXCEPT !.promoted.visits = visits]

\* The slot ends.  The scope served goes to the back unless it is empty or held.
EndSlot(s, class, x) ==
  LET held_here == class = "Ordinary" /\ s.promoted # Free /\ Scope[s.promoted.key] = x
      t == IF held_here THEN DropStale(s) ELSE s
      stays == held_here /\ promotion_live(s)
  IN IF s.slot_remaining > 0 THEN t
     ELSE advance_recovery_slot(
            IF class = "Ordinary" /\ Counted(t, x) /\ ~stays
            THEN [t EXCEPT !.scopes = Append(Tail(@), Head(@))] ELSE t)

\* The next intent of the class, and of the scope in the ordinary one.
NextOf(s, class, x) ==
  Head(SelectSeq(s.line, LAMBDA l : /\ l \in Pending(s, class)
                                    /\ x # None => Scope[l] = x))

Pay(s, class, k, delta) ==
  [s EXCEPT !.tokens = @ - delta, !.slot_remaining = @ - delta,
            !.intents[k].charged = @ + delta,
            !.bypass = CASE class = "Ordinary" -> 0
                         [] s.scopes = <<>>    -> 0
                         [] OTHER              -> @ + delta]

\* An ordinary intent that is paid for leaves the rotation.
Paid(s, class, k) ==
  CASE class # "Ordinary"               -> s
    [] s.intents[k].charged >= Size[k]  -> Visit(remove_ordinary_pending(s, Scope[k]), k)
    [] OTHER                            -> Visit(s, k)

Serve(s, class, x, k) ==
  LET delta == CapTo(CapTo(Size[k] - s.intents[k].charged, s.tokens), s.slot_remaining)
  IN EndSlot(Paid(Pay(s, class, k, delta), class, k), class, x)

RECURSIVE charge_ready_recovery(_)
charge_ready_recovery(s) ==
  LET class == ServedClass(s)
      x     == IF class = "Ordinary" THEN Head(s.scopes) ELSE None
  IN IF s.tokens = 0 \/ class = None THEN s
     ELSE charge_ready_recovery(Serve(s, class, x, NextOf(s, class, x)))

Aged(i, d) == [i EXCEPT !.seen = CapTo(@ + d, MaxAge), !.life = CapTo(@ + d, MaxLife)]

\* Mutant: what the clock adds is not charged.
RefillUncharged(s, d) ==
  IF s.config = None THEN s
  ELSE [s EXCEPT
          !.tokens = CapTo(@ + d * Rate, Burst),
          !.credit = [c \in Classes |-> CapTo(@[c] + d, MaxCredit)],
          !.intents = [k \in Keys |-> IF @[k] = NoIntent THEN NoIntent ELSE Aged(@[k], d)]]

Elapse(s, d) ==
  [s EXCEPT !.tokens = CapTo(@ + d * Rate, Burst),
            !.soft_tokens = CapTo(@ + d * SoftRate, Burst),
            !.credit = [c \in Classes |-> CapTo(@[c] + d, MaxCredit)],
            !.intents = [k \in Keys |-> IF @[k] = NoIntent THEN NoIntent ELSE Aged(@[k], d)]]

Expire(s) ==
  ForgetAll(s, {k \in Live(s) : s.intents[k].seen >= MaxAge \/ s.intents[k].life >= MaxLife})

\* Time d has passed: tokens and displacement credit grow, old intents go, and
\* what is left of the tokens is charged.
refill(s, d) ==
  IF s.config = None THEN s ELSE charge_ready_recovery(Expire(Elapse(s, d)))

\* What the clock adds to the bucket.
Added(s, d) ==
  IF s.config = None THEN 0 ELSE CapTo(s.tokens + d * Rate, Burst) - s.tokens
-----------------------------------------------------------------------------
(* Data. *)

recovery_reserve(s) ==
  LET floor   == Burst \div 4
      ceiling == Burst \div 2
      wanted  == {Size[k] - s.intents[k].charged :
                    k \in Pending(s, "Ordinary") \union Pending(s, "CriticalEager")}
  IN CapTo(Max(wanted \union {floor}), Max({ceiling, floor}))

data_hard_denied(s, n) == s.tokens < n \/ s.tokens - n < recovery_reserve(s)

\* Data that policy does not protect is charged if the buckets allow.
try_reserve_data(k, relayed, d) ==
  /\ lim.config = "ShedNormal"
  /\ \E s \in {refill(lim, d)} :
     LET ok == /\ Size[k] <= MaxFrame
               /\ ~data_hard_denied(s, Size[k])
               /\ relayed /\ SoftRate > 0 => s.soft_tokens >= Size[k]
     IN /\ lim' = IF ~ok THEN s
                  ELSE [s EXCEPT !.tokens = @ - Size[k],
                                 !.soft_tokens = IF relayed /\ SoftRate > 0
                                                 THEN @ - Size[k] ELSE @]
        /\ ghost' = [added |-> Added(lim, d), minted |-> IF ok THEN Size[k] ELSE 0]
  /\ UNCHANGED waiter

\* Protected data is charged without being asked; the buckets stop at zero.
reserve_protected(k, relayed, d) ==
  /\ lim.config # None
  /\ lim' = [refill(lim, d) EXCEPT !.tokens = Less(@, Size[k]),
                                   !.soft_tokens = IF relayed /\ SoftRate > 0
                                                   THEN Less(@, Size[k]) ELSE @]
  /\ ghost' = [added |-> Added(lim, d), minted |-> 0]
  /\ UNCHANGED waiter
-----------------------------------------------------------------------------
(* Recovery. *)

Pos(q, x) == CHOOSE n \in DOMAIN q : q[n] = x

\* The intent that makes room for one of peer p: of a peer with most pending
\* intents of the class, the one that loses least, the youngest first.
Victims(s, class, p) ==
  LET n(q) == Cardinality({k \in Pending(s, class) : Peer[k] = q})
      most == Max({n(q) : q \in Range(Peer)})
      of   == {k \in Pending(s, class) : n(Peer[k]) = most}
      Before(k, l) ==
        LET a == s.intents[k]
            b == s.intents[l]
        IN \/ a.charged < b.charged
           \/ a.charged = b.charged /\ a.life < b.life
           \/ /\ a.charged = b.charged /\ a.life = b.life
              /\ Pos(s.line, k) > Pos(s.line, l)
  IN IF n(p) + 1 >= most THEN {}
     ELSE {k \in of : \A l \in of : Peer[l] = Peer[k] /\ l # k => Before(k, l)}

\* The states after a victim made room for p, none if nothing may be displaced.
Displaced(s, class, p) ==
  IF s.credit[class] = 0 THEN {}
  ELSE {[Forget(s, k) EXCEPT !.credit[class] = @ - 1] : k \in Victims(s, class, p)}

Full(s, class) ==
  \/ Cardinality(Live(s)) >= OrdinaryMax + CriticalMax
  \/ Cardinality({k \in Live(s) : s.intents[k].class = class})
       >= (IF class = "Ordinary" THEN OrdinaryMax ELSE CriticalMax)

\* A new intent is put into the table and, if it needs bytes, into the rotation.
Insert(s, k, class, i, kept, displaced) ==
  LET t == [s EXCEPT !.intents[k] = i]
      front == displaced /\ ~Counted(t, Scope[k]) /\ ~promotion_live(t)
      checked == IF displaced /\ ~Counted(t, Scope[k]) THEN DropStale(t) ELSE t
      visits == (Size[k] + Quantum - 1) \div Quantum + 1
  IN IF class # "Ordinary" \/ i.charged >= Size[k] \/ kept THEN t
     ELSE add_ordinary_pending(
            IF front THEN [checked EXCEPT !.promoted = [key |-> k, visits |-> visits]]
            ELSE checked, Scope[k], front)

\* Mutant: the credit of the intent it replaces is paid for again.
RegisterDoubling(s, k, class) ==
  LET t == [s EXCEPT !.line = Append(@, k)]
  IN IF Full(s, class) THEN {}
     ELSE {Insert(t, k, class, [seen |-> 0, life |-> 0, charged |-> 1, class |-> class],
                  FALSE, FALSE)}

\* Intent i of key k goes into t, or into what a victim leaves if t is full.
Enter(t, k, class, i, kept, full) ==
  IF full THEN {Insert(u, k, class, i, kept, TRUE) : u \in Displaced(t, class, Peer[k])}
  ELSE {Insert(t, k, class, i, kept, FALSE)}

\* Key k takes the place of l, an older form of the same family.
Succeed(s, k, l, class) ==
  LET a == s.intents[l]
      credit == CapTo(a.charged, Size[k])
      kept == /\ a.class = "Ordinary" /\ class = "Ordinary"
              /\ Scope[l] = Scope[k]
              /\ a.charged < Size[l] /\ credit < Size[k]
      gone == IF kept THEN [s EXCEPT !.intents[l] = NoIntent]
              ELSE [Forget(s, l) EXCEPT !.line = s.line]
      i == [seen |-> 0, life |-> a.life, charged |-> credit, class |-> class]
  IN Enter([gone EXCEPT !.line = [n \in DOMAIN @ |-> IF @[n] = l THEN k ELSE @[n]]],
           k, class, i, kept, Full(gone, class))

\* Registration of a key that has no intent.  An intent of its family hands it
\* its place, its age and its charge.  The result is the set of outcomes, empty
\* if the table is full.
Register(s, k, class) ==
  LET old == {l \in Live(s) : Family[l] = Family[k]}
  IN IF old # {} THEN Succeed(s, k, CHOOSE l \in old : TRUE, class)
     ELSE Enter([s EXCEPT !.line = Append(@, k)], k, class,
                [seen |-> 0, life |-> 0, charged |-> 0, class |-> class],
                FALSE, Full(s, class))

\* A key that has an intent is seen again; a critical request takes an ordinary
\* intent into its class.
Renew(s, k, class) ==
  LET seen(t) == [t EXCEPT !.intents[k].seen = 0]
      moved(t) == LET u == IF k \in Pending(t, "Ordinary")
                           THEN remove_ordinary_pending(t, Scope[k]) ELSE t
                  IN seen([u EXCEPT !.intents[k].class = class])
  IN IF class = "Ordinary" \/ s.intents[k].class = class THEN {seen(s)}
     ELSE IF Cardinality({l \in Live(s) : s.intents[l].class = class}) >= CriticalMax
          THEN {moved(t) : t \in Displaced(s, class, Peer[k])}
          ELSE {moved(s)}

\* A failed registration has already taken the family's old intent away.
Refused(s, k) ==
  IF s.intents[k] # NoIntent THEN s
  ELSE ForgetAll(s, {l \in Live(s) : Family[l] = Family[k]})

Answered(s, k) ==
  IF s.intents[k].charged < Size[k] THEN [s |-> s, answer |-> "Deferred"]
  ELSE [s |-> Forget(s, k), answer |-> "Reserved"]

Outcomes(entered, s, k) ==
  IF entered = {} THEN {[s |-> Refused(s, k), answer |-> "IntentLimit"]}
  ELSE {Answered(charge_ready_recovery(t), k) : t \in entered}

\* One attempt to reserve for recovery.  The outcomes are pairs of a state and
\* of the answer: a reservation, "Deferred" or "IntentLimit".
Attempt(s, k, class) ==
  Outcomes(IF s.intents[k] # NoIntent THEN Renew(s, k, class) ELSE Register(s, k, class), s, k)

Issue(o, k, d) ==
  ghost' = [added |-> Added(lim, d),
            minted |-> IF o.answer = "Reserved" THEN Size[k] ELSE 0]

\* Periodic owners try and come back on their next round.
try_reserve_recovery(k, d) ==
  /\ lim.config = "ShedNormal"
  /\ Size[k] <= MaxFrame
  /\ \E s \in {refill(lim, d)} : \E o \in Attempt(s, k, "Ordinary") :
       /\ lim' = o.s
       /\ Issue(o, k, d)
  /\ UNCHANGED waiter

Waiting(class) == {w \in Waiters : waiter[w] # Free /\ waiter[w].class = class}
OfPeer(ws, p) == {w \in ws : Peer[waiter[w].key] = p}

waiter_permit(k, class) ==
  /\ Cardinality(Waiting(class)) <
       (IF class = "Ordinary" THEN OrdinaryWaiters ELSE CriticalWaiters)
  /\ Cardinality(OfPeer(Waiting(class), Peer[k])) <
       (IF class = "Ordinary" THEN PeerOrdinary ELSE 1)
  /\ Cardinality(OfPeer(Waiting("Ordinary") \union Waiting("CriticalEager"), Peer[k]))
       < PeerWaiters

reserve_recovery(w, k, class) ==
  /\ lim.config # None
  /\ waiter[w] = Free
  /\ waiter_permit(k, class)
  /\ waiter' = [waiter EXCEPT ![w] = [key |-> k, class |-> class,
                                      generation |-> lim.generation]]
  /\ ghost' = Nothing
  /\ UNCHANGED lim

cancel_intent(s, k, generation) == IF s.generation = generation THEN Forget(s, k) ELSE s

\* The loop of a waiter: an error also takes its intent away (IntentGuard).
Poll(w, d) ==
  LET v == waiter[w]
  IN /\ v # Free
     /\ \E s \in {refill(lim, d)} :
        IF s.generation # v.generation \/ s.config = None \/ Size[v.key] > MaxFrame
        THEN /\ lim' = cancel_intent(s, v.key, v.generation)
             /\ waiter' = [waiter EXCEPT ![w] = Free]
             /\ ghost' = [added |-> Added(lim, d), minted |-> 0]
        ELSE \E o \in Attempt(s, v.key, v.class) :
             /\ lim' = IF o.answer = "IntentLimit"
                       THEN cancel_intent(o.s, v.key, v.generation) ELSE o.s
             /\ waiter' = IF o.answer = "Deferred" THEN waiter
                          ELSE [waiter EXCEPT ![w] = Free]
             /\ Issue(o, v.key, d)

\* The deadline passes, or the call is dropped: its intent goes too (no caller
\* asks to keep it).
GiveUp(w) ==
  LET v == waiter[w]
  IN /\ v # Free
     /\ lim' = cancel_intent(lim, v.key, v.generation)
     /\ waiter' = [waiter EXCEPT ![w] = Free]
     /\ ghost' = Nothing
-----------------------------------------------------------------------------
(* Configuration. *)

configure(c) ==
  /\ c # lim.config
  /\ lim.generation < MaxGeneration
  /\ lim' = Fresh(c, lim.generation + 1)
  /\ ghost' = Nothing
  /\ UNCHANGED waiter

Next ==
  \/ \E k \in DataKeys, d \in Elapsed, relayed \in {FALSE, SoftRate > 0} :
       try_reserve_data(k, relayed, d) \/ reserve_protected(k, relayed, d)
  \/ \E k \in Keys, d \in Elapsed : try_reserve_recovery(k, d)
  \/ \E w \in Waiters, k \in Keys, class \in Classes : reserve_recovery(w, k, class)
  \/ \E w \in Waiters, d \in Elapsed : Poll(w, d)
  \/ \E w \in Waiters : GiveUp(w)
  \/ \E c \in Configs : configure(c)

Spec == Init /\ [][Next]_vars
-----------------------------------------------------------------------------
(* Properties. *)

\* Between two calls no byte lies idle while recovery waits for bytes, so that
\* data never gets ahead of it.
WorkConserving ==
  lim.tokens > 0 =>
    Pending(lim, "Ordinary") = {} /\ Pending(lim, "CriticalEager") = {}

\* Ordinary recovery gets its slot: while it waits, the critical class is
\* charged at most its own slots before the next ordinary byte.
OrdinaryNotStarved == lim.bypass <= CriticalSlots * Quantum

\* Bytes on intents.
Escrow(s) == MapThenSumSet(LAMBDA k : s.intents[k].charged, Live(s))

\* No byte is counted twice: what a call hands out and leaves on intents was in
\* the bucket, on intents, or came with the clock.
NothingFromNothingStep ==
  lim'.generation = lim.generation =>
    ghost'.minted + Escrow(lim') + lim'.tokens <= Escrow(lim) + lim.tokens + ghost'.added
=============================================================================
