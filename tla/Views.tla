-------------------------------- MODULE Views -------------------------------
(***************************************************************************)
(* The partial views of one node: HyParViewMembership in                   *)
(* crates/membership/src/lib.rs.  The active view, the passive view and    *)
(* the SWIM state table are shared by the message handlers, by callers of  *)
(* the Membership trait and by the degree maintenance task.  A step of     *)
(* this module is one section of code between two awaits; a local commit   *)
(* (commit_active) and the body of a maintenance round hold every lock     *)
(* they need and are one step each (module CommitLocks is about how they   *)
(* get the locks, module Swim about the detector).  The messages that the  *)
(* handlers send are not modelled here; those they receive come in any     *)
(* order and number.                                                       *)
(***************************************************************************)
EXTENDS Naturals, FiniteSets

CONSTANTS
  Peers,           \* remote peers
  Self,            \* local_peer_id
  Calls,           \* concurrent calls of handlers and trait methods
  ActiveDegree,    \* config.active_degree
  MaxActive,       \* config.max_active_degree
  MaxPassive,      \* config.max_passive_degree
  PassiveScale,    \* passive degree per active one (8 in the code)
  Adaptive,        \* config.adaptive_enabled
  PassiveWalk      \* PASSIVE_RANDOM_WALK_LENGTH

ASSUME DegreeAssumption ==
  /\ ActiveDegree \in Nat
  /\ MaxActive \in Nat
  /\ MaxPassive \in Nat
  /\ PassiveScale \in Nat
  /\ PassiveWalk \in Nat
  /\ Adaptive \in BOOLEAN

ASSUME PeerAssumption ==
  /\ IsFiniteSet(Peers)
  /\ Peers # {}
  /\ Self \notin Peers

Nodes == Peers \union {Self}
Tracked == {"Alive", "Dead"}     \* a suspect is tracked like an alive peer

\* Where a call is: idle, or in front of the section that runs next.
CallPc == {"idle", "check", "insert", "commit", "dead", "candidate", "promote"}

VARIABLES
  active, passive,  \* the views
  swim,             \* SWIM state of each peer, "None" when it has no entry
  connected,        \* what transport.connected_peer_ids() answers
  pc,               \* the section each call runs next
  peer,             \* the peer of that section
  rest,             \* peers that the call adds to the passive view later
  next,             \* what the call does once its section is done
  mpc,              \* degree maintenance: idle, apply, or panicked
  snapshot,         \* connected peers as maintenance read them
  activeTarget,     \* prev_active_target
  passiveTarget     \* prev_passive_max

views == <<active, passive>>
calls == <<pc, peer, rest, next>>
maintenance == <<mpc, snapshot, activeTarget, passiveTarget>>
vars == <<active, passive, swim, connected, pc, peer, rest, next, mpc, snapshot,
          activeTarget, passiveTarget>>

TypeOK ==
  /\ active \in SUBSET Peers
  /\ passive \in SUBSET Peers
  /\ swim \in [Peers -> Tracked \union {"None"}]
  /\ connected \in SUBSET Peers
  /\ pc \in [Calls -> CallPc]
  /\ peer \in [Calls -> Nodes]
  /\ rest \in [Calls -> SUBSET Nodes]
  /\ next \in [Calls -> {"end", "toPassive", "candidate"}]
  /\ mpc \in {"idle", "apply", "panicked"}
  /\ snapshot \in SUBSET Peers
  /\ activeTarget \in Nat
  /\ passiveTarget \in 0..MaxPassive

Init ==
  /\ active = {}
  /\ passive = {}
  /\ swim = [p \in Peers |-> "None"]
  /\ connected \in SUBSET Peers
  /\ pc = [c \in Calls |-> "idle"]
  /\ peer = [c \in Calls |-> Self]
  /\ rest = [c \in Calls |-> {}]
  /\ next = [c \in Calls |-> "end"]
  /\ mpc = "idle"
  /\ snapshot = {}
  /\ activeTarget = ActiveDegree
  /\ passiveTarget = MaxPassive
-----------------------------------------------------------------------------
(* The sections that change the views. *)

\* The k first peers of a HashSet: any k members, or all when there are fewer
Choices(S, k) ==
  {T \in SUBSET S : Cardinality(T) = IF Cardinality(S) < k THEN Cardinality(S) ELSE k}

\* The views and the SWIM table once `demoted` has left for p (apply_commit)
ApplyCommit(p, demoted) ==
  /\ active' = (active \ demoted) \union {p}
  /\ passive' = IF Cardinality(passive) < MaxPassive THEN passive \union demoted
                                                     ELSE passive
  /\ swim' = [swim EXCEPT ![p] = "Alive"]

\* Mutant: a demoted peer is dropped.
CommitActiveDrops(p) ==
  \E demoted \in IF Cardinality(active) >= ActiveDegree THEN Choices(active, 1) ELSE {{}} :
    /\ active' = (active \ demoted) \union {p}
    /\ passive' = passive
    /\ swim' = [swim EXCEPT ![p] = "Alive"]

\* Mutant: a full view is not recognised as full.
CommitActiveOffByOne(p) ==
  \E demoted \in IF Cardinality(active) > MaxActive THEN Choices(active, 1) ELSE {{}} :
    ApplyCommit(p, demoted)

\* commit_active: a full view demotes the first peer it iterates over, which
\* may be p itself when p is already in the view.
CommitActive(p) ==
  \E demoted \in IF Cardinality(active) >= ActiveDegree THEN Choices(active, 1) ELSE {{}} :
    ApplyCommit(p, demoted)

\* The call runs section `at` next, for p, and then `then`.
Goto(c, at, p, then) ==
  /\ pc' = [pc EXCEPT ![c] = at]
  /\ peer' = [peer EXCEPT ![c] = IF at = "idle" THEN Self ELSE p]
  /\ next' = [next EXCEPT ![c] = IF at = "idle" THEN "end" ELSE then]

\* The end of a call of add_to_passive: the loop of handle_shuffle and
\* handle_shuffle_reply goes on with the peers left.
Return(c) ==
  IF rest[c] = {}
  THEN /\ Goto(c, "idle", Self, "end")
       /\ rest' = rest
  ELSE \E p \in rest[c] :
         /\ Goto(c, "check", p, "end")
         /\ rest' = [rest EXCEPT ![c] = @ \ {p}]
-----------------------------------------------------------------------------
(* add_to_passive *)

\* Mutant: the local peer is not refused.
CheckActiveSelf(c) ==
  /\ pc[c] = "check"
  /\ IF peer[c] \in active
     THEN Return(c)
     ELSE /\ Goto(c, "insert", peer[c], "end")
          /\ rest' = rest
  /\ UNCHANGED <<views, swim, connected, maintenance>>

\* Its first section, under the read lock of the active view
CheckActive(c) ==
  /\ pc[c] = "check"
  /\ IF peer[c] = Self \/ peer[c] \in active
     THEN Return(c)
     ELSE /\ Goto(c, "insert", peer[c], "end")
          /\ rest' = rest
  /\ UNCHANGED <<views, swim, connected, maintenance>>

\* Its second section, under the write lock of the passive view
InsertPassive(c) ==
  /\ pc[c] = "insert"
  /\ passive' = IF Cardinality(passive) < MaxPassive THEN passive \union {peer[c]}
                                                     ELSE passive
  /\ Return(c)
  /\ UNCHANGED <<active, swim, connected, maintenance>>

\* handle_shuffle_reply, and handle_shuffle at the end of its walk: each peer
\* of the list that is not the local one goes through add_to_passive.
IntegrateShuffle(c, list) ==
  /\ pc[c] = "idle"
  /\ list \ {Self} # {}
  /\ \E p \in list \ {Self} :
       /\ Goto(c, "check", p, "end")
       /\ rest' = [rest EXCEPT ![c] = list \ {p, Self}]
  /\ UNCHANGED <<views, swim, connected, maintenance>>

\* add_to_passive called by itself
AddToPassive(c, p) ==
  /\ pc[c] = "idle"
  /\ Goto(c, "check", p, "end")
  /\ UNCHANGED <<views, swim, connected, rest, maintenance>>
-----------------------------------------------------------------------------
(* Calls that end in a commit. *)

\* add_active, by handle_join, join_send or a caller of the trait
AddActive(p) ==
  /\ CommitActive(p)
  /\ UNCHANGED <<connected, calls, maintenance>>

\* A call that decided to add its peer does so.  handle_forward_join goes on
\* to the passive view when the walk has PASSIVE_RANDOM_WALK_LENGTH steps left.
Commit(c) ==
  /\ pc[c] = "commit"
  /\ CommitActive(peer[c])
  /\ IF next[c] = "toPassive" THEN Goto(c, "check", peer[c], "end")
                              ELSE Goto(c, "idle", Self, "end")
  /\ UNCHANGED <<connected, rest, maintenance>>

\* handle_forward_join reads the size of the view, then decides: accept, or
\* forward (a message) and perhaps remember the peer.
HandleForwardJoin(c, p, ttl) ==
  /\ pc[c] = "idle"
  /\ \/ /\ ttl = 0 \/ Cardinality(active) < ActiveDegree
        /\ Goto(c, "commit", p, IF ttl = PassiveWalk THEN "toPassive" ELSE "end")
     \/ /\ ~(ttl = 0 \/ Cardinality(active) < ActiveDegree)
        /\ ttl = PassiveWalk
        /\ Goto(c, "check", p, "end")
  /\ UNCHANGED <<views, swim, connected, rest, maintenance>>

\* handle_neighbor accepts a high priority, or when the view has room.
HandleNeighbor(c, p, high) ==
  /\ pc[c] = "idle"
  /\ high \/ Cardinality(active) < MaxActive
  /\ Goto(c, "commit", p, "end")
  /\ UNCHANGED <<views, swim, connected, rest, maintenance>>

\* promote takes the peer out of the passive view, then commits it.
Promote(c, p) ==
  /\ pc[c] = "idle"
  /\ p \in passive
  /\ passive' = passive \ {p}
  /\ Goto(c, "commit", p, "end")
  /\ UNCHANGED <<active, swim, connected, rest, maintenance>>
-----------------------------------------------------------------------------
(* Calls that take a peer out of the active view. *)

\* handle_neighbor_reply: accepted is mark_alive; rejected moves the peer to
\* the passive view.
NeighborAccepted(p) ==
  /\ swim' = [swim EXCEPT ![p] = "Alive"]
  /\ UNCHANGED <<views, connected, calls, maintenance>>

NeighborRejected(c, p) ==
  /\ pc[c] = "idle"
  /\ p \in active
  /\ active' = active \ {p}
  /\ Goto(c, "check", p, "end")
  /\ UNCHANGED <<passive, swim, connected, rest, maintenance>>

\* remove_active: out of the view, and then, in another section, mark_dead.
\* handle_disconnect goes on with a candidate of the passive view.
RemoveActive(c, p, then) ==
  /\ pc[c] = "idle"
  /\ IF p \in active
     THEN Goto(c, "dead", p, then)
     ELSE IF then = "candidate" THEN Goto(c, "candidate", Self, "end")
                                ELSE UNCHANGED <<pc, peer, next>>
  /\ active' = active \ {p}
  /\ UNCHANGED <<passive, swim, connected, rest, maintenance>>

MarkDead(c) ==
  /\ pc[c] = "dead"
  /\ swim' = [swim EXCEPT ![peer[c]] = "Dead"]
  /\ Goto(c, IF next[c] = "candidate" THEN "candidate" ELSE "idle", Self, "end")
  /\ UNCHANGED <<views, connected, rest, maintenance>>

\* handle_disconnect reads the first passive peer, under the read lock, ...
PickCandidate(c) ==
  /\ pc[c] = "candidate"
  /\ IF passive = {}
     THEN Goto(c, "idle", Self, "end")
     ELSE \E p \in passive : Goto(c, "promote", p, "end")
  /\ UNCHANGED <<views, swim, connected, rest, maintenance>>

\* ... and promotes it, if it is still there.
PromoteCandidate(c) ==
  /\ pc[c] = "promote"
  /\ IF peer[c] \in passive THEN Goto(c, "commit", peer[c], "end")
                            ELSE Goto(c, "idle", Self, "end")
  /\ passive' = passive \ {peer[c]}
  /\ UNCHANGED <<active, swim, connected, rest, maintenance>>
-----------------------------------------------------------------------------
(* Degree maintenance. *)

\* usize::clamp panics when its bounds are crossed.
ClampPanics ==
  Adaptive /\ (ActiveDegree > MaxActive \/ PassiveScale * ActiveDegree > MaxPassive)

\* The adaptive degrees.  They follow the estimated network size, which counts
\* every peer seen in five minutes and so may be anything.
ActiveTargets ==
  IF Adaptive THEN ActiveDegree..MaxActive ELSE {ActiveDegree}

PassiveDegree(a) ==
  LET raw == PassiveScale * a
  IN IF ~Adaptive \/ raw > MaxPassive THEN MaxPassive ELSE raw

\* A target moves by at most two per round.
Smooth(previous, target) ==
  IF target > previous
  THEN previous + (IF target - previous > 2 THEN 2 ELSE target - previous)
  ELSE previous - (IF previous - target > 2 THEN 2 ELSE previous - target)

\* A round starts: the degrees, then the connected peers, with no lock held.
StartMaintenance ==
  /\ mpc = "idle"
  /\ IF ClampPanics
     THEN /\ mpc' = "panicked"
          /\ UNCHANGED <<snapshot, activeTarget, passiveTarget>>
     ELSE /\ mpc' = "apply"
          /\ snapshot' = connected
          /\ \E a \in ActiveTargets :
               /\ activeTarget' = Smooth(activeTarget, a)
               /\ passiveTarget' = Smooth(passiveTarget, PassiveDegree(a))
  /\ UNCHANGED <<views, swim, connected, calls>>

\* Connected passive peers that fill an active view of n members
Promotions(candidates, n) ==
  IF n < activeTarget THEN Choices(candidates \intersect snapshot, activeTarget - n)
                      ELSE {{}}

\* Members of a view above its maximum that leave it
Demotions(view, n) ==
  IF n > MaxActive THEN Choices(view, n - MaxActive) ELSE {{}}

\* What a passive view of p members keeps of the demoted ones
Kept(demoted, p) ==
  IF p < passiveTarget THEN Choices(demoted, passiveTarget - p) ELSE {{}}

EndRound ==
  /\ mpc' = "idle"
  /\ snapshot' = {}
  /\ UNCHANGED <<connected, calls, activeTarget, passiveTarget>>

\* Mutant: promotes candidates whatever the transport says of them, and keeps
\* disconnected peers active.
MaintainPromotesAny ==
  /\ mpc = "apply"
  /\ \E up \in IF Cardinality(active) < activeTarget
                THEN Choices(passive, activeTarget - Cardinality(active)) ELSE {{}} :
       /\ active' = active \union up
       /\ passive' = passive \ up
       /\ swim' = [p \in Peers |-> IF p \in up THEN "Alive" ELSE swim[p]]
  /\ EndRound

\* Mutant: a round gives up when the active view is empty.
MaintainSkipsEmpty ==
  /\ mpc = "apply"
  /\ IF active = {}
     THEN UNCHANGED <<views, swim>>
     ELSE LET stay == active \intersect snapshot
              pool == (passive \union active) \ stay
          IN \E up \in Promotions(pool, Cardinality(stay)) :
               /\ active' = stay \union up
               /\ passive' \in Choices(pool \ up, passiveTarget)
               /\ swim' = [p \in Peers |-> IF p \in snapshot THEN swim[p] ELSE "None"]
  /\ EndRound

\* Mutant: the passive view is not trimmed.
MaintainUntrimmed ==
  /\ mpc = "apply"
  /\ LET stay == active \intersect snapshot
         pool == (passive \union active) \ stay
     IN \E up \in Promotions(pool, Cardinality(stay)) :
          /\ active' = stay \union up
          /\ passive' = pool \ up
          /\ swim' = [p \in Peers |-> IF p \in up THEN "Alive"
                                      ELSE IF p \in snapshot THEN swim[p] ELSE "None"]
  /\ EndRound

\* The round under all the locks: disconnected peers go to the passive view,
\* SWIM forgets them, connected candidates are promoted up to the target, a
\* view above the maximum is cut, and the passive view is trimmed.
Maintain ==
  /\ mpc = "apply"
  /\ LET stay == active \intersect snapshot
         pool == (passive \union active) \ stay
     IN \E up \in Promotions(pool, Cardinality(stay)) :
        \E down \in Demotions(stay \union up, Cardinality(stay)) :
        \E kept \in Kept(down, Cardinality(pool \ up)) :
          /\ active' = (stay \union up) \ down
          /\ passive' \in Choices((pool \ up) \union kept, passiveTarget)
          /\ swim' = [p \in Peers |-> IF p \in up THEN "Alive"
                                      ELSE IF p \in snapshot THEN swim[p] ELSE "None"]
  /\ EndRound
-----------------------------------------------------------------------------
(* The environment: the transport, and the SWIM detector. *)

ConnectionChanges(p) ==
  /\ connected' \in {connected \union {p}, connected \ {p}}
  /\ connected' # connected
  /\ UNCHANGED <<views, swim, calls, maintenance>>

\* A message of p makes it alive; a suspect that stays silent is dead.
SwimVerdict(p) ==
  /\ \/ swim' = [swim EXCEPT ![p] = "Alive"]
     \/ swim[p] # "None" /\ swim' = [swim EXCEPT ![p] = "Dead"]
  /\ UNCHANGED <<views, connected, calls, maintenance>>

CallStep(c) ==
  \/ CheckActive(c)
  \/ InsertPassive(c)
  \/ Commit(c)
  \/ MarkDead(c)
  \/ PickCandidate(c)
  \/ PromoteCandidate(c)

Maintenance == StartMaintenance \/ Maintain

Next ==
  \/ \E c \in Calls :
       \/ CallStep(c)
       \/ \E list \in SUBSET Nodes : IntegrateShuffle(c, list)
       \/ \E p \in Nodes : AddToPassive(c, p)
       \/ \E p \in Peers :
            \/ \E ttl \in {0, PassiveWalk, PassiveWalk + 1} : HandleForwardJoin(c, p, ttl)
            \/ \E high \in BOOLEAN : HandleNeighbor(c, p, high)
            \/ Promote(c, p)
            \/ NeighborRejected(c, p)
            \/ \E then \in {"end", "candidate"} : RemoveActive(c, p, then)
  \/ \E p \in Peers :
       \/ AddActive(p)
       \/ NeighborAccepted(p)
       \/ ConnectionChanges(p)
       \/ SwimVerdict(p)
  \/ Maintenance

Spec == Init /\ [][Next]_vars
-----------------------------------------------------------------------------
(* Properties. *)

\* Whatever calls interleave with commits and maintenance, the active view
\* never exceeds config.max_active_degree, for a configuration in which
\* 1 <= active_degree <= max_active_degree.
ActiveBounded ==
  ActiveDegree \in 1..MaxActive => Cardinality(active) <= MaxActive

\* The passive view never exceeds config.max_passive_degree, although
\* maintenance moves every disconnected active peer into it.
PassiveBounded == Cardinality(passive) <= MaxPassive

\* Every peer of the active view has an entry in the SWIM state table, so the
\* detector can find out that it failed.
ActiveTracked == \A p \in active : swim[p] # "None"

\* The inductive invariant behind the three above and the properties below: a
\* call works on a remote peer once it has passed the checks, it has peers left
\* to add only inside add_to_passive, and the smoothed target of maintenance
\* stays between the configured degrees.
ViewsInvariant ==
  /\ TypeOK
  /\ \A c \in Calls : pc[c] \in {"insert", "commit", "dead", "promote"} => peer[c] \in Peers
  /\ \A c \in Calls : pc[c] \notin {"check", "insert"} => rest[c] = {}
  /\ ActiveDegree <= MaxActive => activeTarget <= MaxActive
  /\ ActiveBounded
  /\ PassiveBounded
  /\ ActiveTracked

\* The peers that a call is moving
Carried(c) == rest[c] \union IF pc[c] \in {"check", "insert", "commit"} THEN {peer[c]} ELSE {}

\* A peer that some call is moving, or that is in a view
Known == active \union passive \union UNION {Carried(c) : c \in Calls}

Full(view) == Cardinality(view) >= MaxPassive \/ Cardinality(view) >= passiveTarget

\* A remote peer the node knows is forgotten only because the passive view has
\* no room, or because it was removed (remove_active): demotions, rejections,
\* promotions and maintenance move peers and never lose one.
NothingForgottenStep ==
  \A p \in Known \intersect Peers :
    \/ p \in Known'
    \/ Full(passive')
    \/ \E c \in Calls : pc[c] = "idle" /\ pc'[c] \in {"dead", "candidate"}

\* No step of handlers, callers or maintenance forgets a peer in another way.
NothingForgotten == [][NothingForgottenStep]_vars

\* The post-state of a maintenance round: the views are disjoint, the active
\* one has only peers that the transport reported, SWIM tracks only those, and
\* no reported candidate is left out while the active view is below target.
RoundSettlesStep ==
  mpc = "apply" /\ mpc' = "idle" =>
    /\ active' \intersect passive' = {}
    /\ active' \subseteq snapshot
    /\ \A p \in Peers \ snapshot : swim'[p] = "None"
    /\ Cardinality(active') < activeTarget /\ ActiveDegree <= MaxActive
         => passive' \intersect snapshot = {}

\* Every round of spawn_degree_maintenance_task leaves the views so.
MaintenanceSettles == [][RoundSettlesStep]_vars
=============================================================================
