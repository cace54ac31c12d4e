----------------------------- MODULE ViewsProofs ----------------------------
(***************************************************************************)
(* Proofs about the partial views, for any set of remote peers, any number *)
(* of concurrent calls and any configured degrees: the types, the bounds   *)
(* of both views, that SWIM tracks every active peer, that no call loses   *)
(* a peer on its way from one view to the other, and that a round of       *)
(* maintenance leaves the views disjoint and the active one connected.     *)
(***************************************************************************)
EXTENDS Views, FiniteSetTheorems, TLAPS

\* A leaf is proved by Zenon unless it names another prover.
USE Zenon

LEMMA FinitePeers ==
  ASSUME NEW S \in SUBSET Peers
  PROVE  IsFiniteSet(S) /\ Cardinality(S) \in Nat
  BY PeerAssumption, FS_Subset, FS_CardinalityType

\* What "the first k of a set" is: a subset with at most k members.
LEMMA ChoicesBound ==
  ASSUME NEW S \in SUBSET Peers, NEW k \in Nat, NEW T \in Choices(S, k)
  PROVE  T \in SUBSET S /\ Cardinality(T) <= k
  BY SMT, FinitePeers DEF Choices

LEMMA SubsetBound ==
  ASSUME NEW S \in SUBSET Peers, NEW T \in SUBSET S
  PROVE  Cardinality(T) <= Cardinality(S)
  BY FinitePeers, FS_Subset

LEMMA UnionBound ==
  ASSUME NEW S \in SUBSET Peers, NEW T \in SUBSET Peers
  PROVE  Cardinality(S \union T) <= Cardinality(S) + Cardinality(T)
  <1>1. IsFiniteSet(S) /\ IsFiniteSet(T)
    BY FinitePeers
  <1>2. Cardinality(S \union T) = Cardinality(S) + Cardinality(T) - Cardinality(S \intersect T)
    BY <1>1, FS_Union
  <1>3. /\ Cardinality(S) \in Nat /\ Cardinality(T) \in Nat
        /\ Cardinality(S \intersect T) \in Nat
    BY FinitePeers
  <1> QED
    BY SMT, <1>2, <1>3

LEMMA DisjointUnion ==
  ASSUME NEW S \in SUBSET Peers, NEW T \in SUBSET Peers, S \intersect T = {}
  PROVE  Cardinality(S \union T) = Cardinality(S) + Cardinality(T)
  <1>1. IsFiniteSet(S) /\ IsFiniteSet(T)
    BY FinitePeers
  <1>2. Cardinality(S \union T) = Cardinality(S) + Cardinality(T) - Cardinality({})
    BY <1>1, FS_Union
  <1>3. Cardinality(S) \in Nat /\ Cardinality(T) \in Nat /\ Cardinality({}) = 0
    BY FinitePeers, FS_EmptySet
  <1> QED
    BY SMT, <1>2, <1>3

\* The part of the invariant that is about calls
CallsOK ==
  /\ pc \in [Calls -> CallPc]
  /\ peer \in [Calls -> Nodes]
  /\ rest \in [Calls -> SUBSET Nodes]
  /\ next \in [Calls -> {"end", "toPassive", "candidate"}]
  /\ \A c \in Calls : pc[c] \in {"insert", "commit", "dead", "promote"} => peer[c] \in Peers

\* The part that is about the views
ViewsOK ==
  /\ active \in SUBSET Peers
  /\ passive \in SUBSET Peers
  /\ swim \in [Peers -> Tracked \union {"None"}]
  /\ ActiveBounded
  /\ PassiveBounded
  /\ ActiveTracked

\* The part that is about the transport and the maintenance task
TargetsOK ==
  /\ connected \in SUBSET Peers
  /\ mpc \in {"idle", "apply", "panicked"}
  /\ snapshot \in SUBSET Peers
  /\ activeTarget \in Nat
  /\ passiveTarget \in 0..MaxPassive
  /\ ActiveDegree <= MaxActive => activeTarget <= MaxActive

\* The part that is about the peers a call has left to add
RestOK == \A c \in Calls : pc[c] \notin {"check", "insert"} => rest[c] = {}

\* The first three parts are shown first, one lemma per group of actions.
BaseInvariant == CallsOK /\ ViewsOK /\ TargetsOK

LEMMA InvariantParts == ViewsInvariant <=> BaseInvariant /\ RestOK
  BY DEF ViewsInvariant, TypeOK, BaseInvariant, CallsOK, ViewsOK, TargetsOK, RestOK

LEMMA InvariantPartsNext == BaseInvariant' /\ RestOK' => ViewsInvariant'
  BY DEF ViewsInvariant, TypeOK, BaseInvariant, CallsOK, ViewsOK, TargetsOK, RestOK,
         ActiveBounded, PassiveBounded, ActiveTracked

LEMMA BaseNext == CallsOK' /\ ViewsOK' /\ TargetsOK' => BaseInvariant'
  BY DEF BaseInvariant

LEMMA InitInvariant == Init => ViewsInvariant
  <1> SUFFICES ASSUME Init PROVE ViewsInvariant
    OBVIOUS
  <1>1. Cardinality({}) = 0
    BY FS_EmptySet
  <1> QED
    BY SMT, <1>1, DegreeAssumption DEF Init, ViewsInvariant, TypeOK, CallPc, Nodes, Tracked,
       ActiveBounded, PassiveBounded, ActiveTracked

\* A call that goes to a section goes there with a fitting peer.
LEMMA GotoCalls ==
  ASSUME CallsOK, NEW c \in Calls, NEW at \in CallPc, NEW p \in Nodes,
         NEW then \in {"end", "toPassive", "candidate"}, Goto(c, at, p, then),
         at \in {"insert", "commit", "dead", "promote"} => p \in Peers,
         rest' \in [Calls -> SUBSET Nodes]
  PROVE  CallsOK'
  <1>1. pc' \in [Calls -> CallPc] /\ peer' \in [Calls -> Nodes]
        /\ next' \in [Calls -> {"end", "toPassive", "candidate"}]
    BY DEF CallsOK, Goto, Nodes
  <1>2. \A d \in Calls : pc'[d] \in {"insert", "commit", "dead", "promote"} => peer'[d] \in Peers
    BY DEF CallsOK, Goto
  <1> QED
    BY <1>1, <1>2 DEF CallsOK

LEMMA ReturnCalls ==
  ASSUME CallsOK, NEW c \in Calls, Return(c)
  PROVE  CallsOK'
  <1>1. CASE rest[c] = {}
    <2>1. Goto(c, "idle", Self, "end") /\ rest' = rest
      BY <1>1 DEF Return
    <2> QED
      BY <2>1, GotoCalls DEF CallsOK, CallPc, Nodes
  <1>2. CASE rest[c] # {}
    <2>1. PICK p \in rest[c] : Goto(c, "check", p, "end") /\ rest' = [rest EXCEPT ![c] = @ \ {p}]
      BY <1>2 DEF Return
    <2>2. p \in Nodes /\ rest' \in [Calls -> SUBSET Nodes]
      BY <2>1 DEF CallsOK
    <2> QED
      BY <2>1, <2>2, GotoCalls DEF CallPc
  <1> QED
    BY <1>1, <1>2

\* The bounds survive a commit: a full view loses a member before it gains one.
LEMMA CommitViews ==
  ASSUME ViewsOK, NEW p \in Peers, CommitActive(p)
  PROVE  ViewsOK'
  <1> DEFINE S == IF Cardinality(active) >= ActiveDegree THEN Choices(active, 1) ELSE {{}}
  <1>1. PICK demoted \in S : ApplyCommit(p, demoted)
    BY DEF CommitActive
  <1>2. active \in SUBSET Peers /\ passive \in SUBSET Peers
    BY DEF ViewsOK
  <1>3. demoted \in SUBSET active /\ Cardinality(demoted) <= 1
    BY SMT, <1>2, ChoicesBound, FS_EmptySet
  <1>4. /\ active' = (active \ demoted) \union {p}
        /\ passive' \in SUBSET Peers
        /\ swim' = [swim EXCEPT ![p] = "Alive"]
    BY <1>1, <1>2, <1>3 DEF ApplyCommit
  <1>5. ActiveBounded'
    <2> SUFFICES ASSUME ActiveDegree \in 1..MaxActive
                 PROVE  Cardinality(active') <= MaxActive
      BY DEF ActiveBounded
    <2>0. Cardinality(active) <= MaxActive /\ Cardinality(active) \in Nat
      BY <1>2, FinitePeers DEF ViewsOK, ActiveBounded
    <2>1. Cardinality({p}) = 1
      BY FS_Singleton
    <2>2. Cardinality((active \ demoted) \union {p}) <= Cardinality(active \ demoted) + 1
      BY <1>2, <2>1, UnionBound
    <2>3. /\ Cardinality(active \ demoted) \in Nat
          /\ Cardinality((active \ demoted) \union {p}) \in Nat
      BY <1>2, FinitePeers
    <2>4. CASE Cardinality(active) >= ActiveDegree
      <3>1. Cardinality(demoted) = 1
        BY SMT, <1>2, <2>0, <2>4, FinitePeers, DegreeAssumption DEF Choices
      <3>2. active \intersect demoted = demoted
        BY <1>3
      <3>3. Cardinality(active \ demoted) = Cardinality(active) - 1
        <4>1. IsFiniteSet(active)
          BY <1>2, FinitePeers
        <4>2. Cardinality(active \ demoted) = Cardinality(active) - Cardinality(active \intersect demoted)
          BY <4>1, FS_Difference
        <4> QED
          BY <3>1, <3>2, <4>2
      <3> QED
        BY SMT, <1>4, <2>0, <2>2, <2>3, <3>3, DegreeAssumption
    <2>5. CASE Cardinality(active) < ActiveDegree
      <3>1. Cardinality(active \ demoted) <= Cardinality(active)
        BY <1>2, SubsetBound
      <3> QED
        BY SMT, <1>4, <2>0, <2>2, <2>3, <2>5, <3>1, DegreeAssumption
    <2> QED
      BY SMT, <2>0, <2>4, <2>5, DegreeAssumption
  <1>6. PassiveBounded'
    <2>1. CASE Cardinality(passive) < MaxPassive
      <3>1. Cardinality(passive \union demoted) <= Cardinality(passive) + Cardinality(demoted)
        BY <1>2, <1>3, UnionBound
      <3>2. /\ Cardinality(passive) \in Nat
            /\ Cardinality(demoted) \in Nat
            /\ Cardinality(passive \union demoted) \in Nat
        BY <1>2, <1>3, FinitePeers
      <3> QED
        BY SMT, <1>1, <1>3, <2>1, <3>1, <3>2, DegreeAssumption DEF ApplyCommit, PassiveBounded
    <2>2. CASE ~(Cardinality(passive) < MaxPassive)
      BY <1>1, <2>2 DEF ApplyCommit, PassiveBounded, ViewsOK
    <2> QED
      BY <2>1, <2>2
  <1>7. ActiveTracked'
    BY <1>2, <1>3, <1>4 DEF ActiveTracked, ViewsOK, Tracked
  <1> QED
    BY <1>2, <1>3, <1>4, <1>5, <1>6, <1>7 DEF ViewsOK, Tracked

\* A smoothed target stays between the previous one and the new one.
LEMMA SmoothBetween ==
  ASSUME NEW previous \in Nat, NEW target \in Nat, NEW bound \in Nat,
         previous <= bound, target <= bound
  PROVE  Smooth(previous, target) \in Nat /\ Smooth(previous, target) <= bound
  BY SMT DEF Smooth

LEMMA StartTargets ==
  ASSUME TargetsOK, StartMaintenance
  PROVE  TargetsOK'
  <1>1. CASE ClampPanics
    BY <1>1 DEF TargetsOK, StartMaintenance
  <1>2. CASE ~ClampPanics
    <2>1. PICK a \in ActiveTargets :
            /\ activeTarget' = Smooth(activeTarget, a)
            /\ passiveTarget' = Smooth(passiveTarget, PassiveDegree(a))
      BY <1>2 DEF StartMaintenance
    <2>2. a \in Nat /\ (ActiveDegree <= MaxActive => a <= MaxActive)
      BY SMT, DegreeAssumption DEF ActiveTargets
    <2>3. PassiveDegree(a) \in Nat /\ PassiveDegree(a) <= MaxPassive
      <3>1. PassiveScale * a \in Nat
        BY SMT, <2>2, DegreeAssumption
      <3> QED
        BY SMT, <3>1, DegreeAssumption DEF PassiveDegree
    <2>4. passiveTarget' \in 0..MaxPassive
      BY SMT, <2>1, <2>3, SmoothBetween, DegreeAssumption DEF TargetsOK
    <2>5. activeTarget' \in Nat
      BY SMT, <2>1, <2>2, DegreeAssumption DEF TargetsOK, Smooth
    <2>6. ActiveDegree <= MaxActive => activeTarget' <= MaxActive
      BY <2>1, <2>2, SmoothBetween, DegreeAssumption DEF TargetsOK
    <2>7. mpc' = "apply" /\ snapshot' = connected /\ connected' = connected
      BY <1>2 DEF StartMaintenance
    <2> QED
      BY <2>4, <2>5, <2>6, <2>7 DEF TargetsOK
  <1> QED
    BY <1>1, <1>2

\* "The first k of a set" are all of it, or exactly k.
LEMMA ChoicesAll ==
  ASSUME NEW S \in SUBSET Peers, NEW k \in Nat, NEW T \in Choices(S, k), T # S
  PROVE  Cardinality(T) = k
  <1>1. IsFiniteSet(S) /\ Cardinality(S) \in Nat /\ T \in SUBSET S
    BY FinitePeers DEF Choices
  <1>2. Cardinality(S) # Cardinality(T)
    BY <1>1, FS_Subset
  <1> QED
    BY <1>1, <1>2 DEF Choices

\* The choices of the round that holds all the locks
Stay == active \intersect snapshot
Pool == (passive \union active) \ Stay

Round(up, down, kept) ==
  /\ up \in Promotions(Pool, Cardinality(Stay))
  /\ down \in Demotions(Stay \union up, Cardinality(Stay))
  /\ kept \in Kept(down, Cardinality(Pool \ up))
  /\ active' = (Stay \union up) \ down
  /\ passive' \in Choices((Pool \ up) \union kept, passiveTarget)
  /\ swim' = [p \in Peers |-> IF p \in up THEN "Alive"
                              ELSE IF p \in snapshot THEN swim[p] ELSE "None"]

LEMMA MaintainRound ==
  ASSUME Maintain
  PROVE  \E up, down, kept : Round(up, down, kept)
  BY DEF Maintain, Round, Stay, Pool

\* Where the peers that a round moves come from
RoundSource(up, down, kept) ==
  /\ Stay \in SUBSET Peers /\ Pool \in SUBSET Peers
  /\ Cardinality(Stay) \in Nat /\ Cardinality(Pool \ up) \in Nat
  /\ up \in SUBSET (Pool \intersect snapshot)
  /\ Cardinality(Stay) < activeTarget => Cardinality(up) <= activeTarget - Cardinality(Stay)
  /\ Cardinality(Stay) >= activeTarget => up = {}
  /\ down \in SUBSET (Stay \union up)
  /\ kept \in SUBSET down
  /\ passive' \in SUBSET ((Pool \ up) \union kept)

LEMMA RoundSets ==
  ASSUME ViewsOK, TargetsOK, NEW up, NEW down, NEW kept, Round(up, down, kept)
  PROVE  RoundSource(up, down, kept)
  <1>1. Stay \in SUBSET Peers /\ Pool \in SUBSET Peers
    BY DEF ViewsOK, Stay, Pool
  <1>2. Cardinality(Stay) \in Nat /\ Cardinality(Pool \ up) \in Nat
    BY <1>1, FinitePeers
  <1>3. /\ up \in SUBSET (Pool \intersect snapshot)
        /\ Cardinality(Stay) < activeTarget => Cardinality(up) <= activeTarget - Cardinality(Stay)
        /\ Cardinality(Stay) >= activeTarget => up = {}
    <2>1. CASE Cardinality(Stay) < activeTarget
      <3>1. activeTarget - Cardinality(Stay) \in Nat
        BY SMT, <1>2, <2>1 DEF TargetsOK
      <3>2. up \in Choices(Pool \intersect snapshot, activeTarget - Cardinality(Stay))
        BY <2>1 DEF Round, Promotions
      <3>3. Pool \intersect snapshot \in SUBSET Peers
        BY <1>1
      <3>4. up \in SUBSET (Pool \intersect snapshot) /\ Cardinality(up) <= activeTarget - Cardinality(Stay)
        BY <3>1, <3>2, <3>3, ChoicesBound
      <3> QED
        BY SMT, <1>2, <2>1, <3>4 DEF TargetsOK
    <2>2. CASE ~(Cardinality(Stay) < activeTarget)
      BY <2>2, <1>2 DEF Round, Promotions, TargetsOK
    <2> QED
      BY <2>1, <2>2
  <1>4. down \in SUBSET (Stay \union up)
    BY <1>1, <1>3 DEF Round, Demotions, Choices
  <1>5. kept \in SUBSET down
    BY DEF Round, Kept, Choices
  <1>6. passive' \in SUBSET ((Pool \ up) \union kept)
    BY DEF Round, Choices
  <1> QED
    BY <1>1, <1>2, <1>3, <1>4, <1>5, <1>6 DEF RoundSource

\* The bounds survive a maintenance round.
LEMMA MaintainViews ==
  ASSUME ViewsOK, TargetsOK, Maintain
  PROVE  ViewsOK'
  <1>1. PICK up, down, kept : Round(up, down, kept)
    BY MaintainRound
  <1>2. /\ active' = (Stay \union up) \ down
        /\ passive' \in Choices((Pool \ up) \union kept, passiveTarget)
        /\ swim' = [p \in Peers |-> IF p \in up THEN "Alive"
                                    ELSE IF p \in snapshot THEN swim[p] ELSE "None"]
    BY <1>1 DEF Round
  <1>3. /\ Stay \in SUBSET Peers /\ Pool \in SUBSET Peers
        /\ Cardinality(Stay) \in Nat /\ Cardinality(Pool \ up) \in Nat
        /\ up \in SUBSET (Pool \intersect snapshot)
        /\ Cardinality(Stay) < activeTarget => Cardinality(up) <= activeTarget - Cardinality(Stay)
        /\ Cardinality(Stay) >= activeTarget => up = {}
        /\ down \in SUBSET (Stay \union up)
        /\ kept \in SUBSET down
    <2>1. RoundSource(up, down, kept)
      BY <1>1, RoundSets
    <2> QED
      BY <2>1 DEF RoundSource
  <1>4. ActiveBounded'
    <2> SUFFICES ASSUME ActiveDegree \in 1..MaxActive
                 PROVE  Cardinality(active') <= MaxActive
      BY DEF ActiveBounded
    <2>1. Cardinality(Stay) <= MaxActive
      <3>1. Cardinality(Stay) <= Cardinality(active)
        BY SubsetBound DEF ViewsOK, Stay
      <3>2. Cardinality(active) \in Nat /\ Cardinality(active) <= MaxActive
        BY FinitePeers DEF ViewsOK, ActiveBounded
      <3> QED
        BY SMT, <1>3, <3>1, <3>2, DegreeAssumption
    <2>2. Cardinality(Stay \union up) <= Cardinality(Stay) + Cardinality(up)
      BY <1>3, UnionBound
    <2>3. Cardinality(up) \in Nat /\ Cardinality(Stay \union up) \in Nat
      BY <1>3, FinitePeers
    <2>4. Cardinality(Stay \union up) <= MaxActive
      <3>1. activeTarget \in Nat /\ activeTarget <= MaxActive
        BY SMT, DegreeAssumption DEF TargetsOK
      <3>2. CASE Cardinality(Stay) < activeTarget
        BY SMT, <1>3, <2>2, <2>3, <3>1, <3>2, DegreeAssumption
      <3>3. CASE Cardinality(Stay) >= activeTarget
        <4>1. Stay \union up = Stay
          BY <1>3, <3>3
        <4> QED
          BY <2>1, <4>1
      <3> QED
        BY SMT, <1>3, <3>1, <3>2, <3>3
    <2>5. Cardinality(active') <= Cardinality(Stay \union up) /\ Cardinality(active') \in Nat
      <3>1. Stay \union up \in SUBSET Peers /\ active' \in SUBSET (Stay \union up)
        BY <1>2, <1>3
      <3> QED
        BY <3>1, SubsetBound, FinitePeers
    <2> QED
      BY SMT, <2>3, <2>4, <2>5, DegreeAssumption
  <1>5. passive' \in SUBSET Peers /\ PassiveBounded'
    <2>1. (Pool \ up) \union kept \in SUBSET Peers /\ passiveTarget \in Nat
      BY SMT, <1>3, DegreeAssumption DEF TargetsOK
    <2>2. passive' \in SUBSET ((Pool \ up) \union kept) /\ Cardinality(passive') <= passiveTarget
      BY <1>2, <2>1, ChoicesBound
    <2>3. passive' \in SUBSET Peers /\ Cardinality(passive') \in Nat
      BY <2>1, <2>2, FinitePeers
    <2> QED
      BY SMT, <2>2, <2>3, DegreeAssumption DEF PassiveBounded, TargetsOK
  <1>6. active' \in SUBSET Peers /\ swim' \in [Peers -> Tracked \union {"None"}]
    BY <1>2, <1>3 DEF ViewsOK, Tracked
  <1>7. ActiveTracked'
    BY <1>2, <1>3, <1>6 DEF ViewsOK, ActiveTracked, Stay
  <1> QED
    BY <1>4, <1>5, <1>6, <1>7 DEF ViewsOK

\* A round leaves the views settled.
LEMMA MaintainSettles ==
  ASSUME ViewsOK, TargetsOK, Maintain
  PROVE  RoundSettlesStep
  <1>1. PICK up, down, kept : Round(up, down, kept)
    BY MaintainRound
  <1>2. RoundSource(up, down, kept)
    BY <1>1, RoundSets
  <1>3. /\ active' = (Stay \union up) \ down
        /\ swim' = [p \in Peers |-> IF p \in up THEN "Alive"
                                    ELSE IF p \in snapshot THEN swim[p] ELSE "None"]
    BY <1>1 DEF Round
  <1>4. active' \intersect passive' = {}
    BY <1>2, <1>3 DEF RoundSource, Pool
  <1>5. active' \subseteq snapshot
    BY <1>2, <1>3 DEF RoundSource, Stay
  <1>6. \A p \in Peers \ snapshot : swim'[p] = "None"
    BY <1>2, <1>3 DEF RoundSource
  <1>7. ASSUME Cardinality(active') < activeTarget, ActiveDegree <= MaxActive
        PROVE  passive' \intersect snapshot = {}
    <2>1. /\ Stay \in SUBSET Peers /\ Pool \in SUBSET Peers
          /\ Cardinality(Stay) \in Nat /\ up \in SUBSET (Pool \intersect snapshot)
          /\ activeTarget \in Nat /\ activeTarget <= MaxActive
      BY <1>2, <1>7 DEF RoundSource, TargetsOK
    <2>2. CASE Cardinality(Stay) >= activeTarget
      <3>1. up = {}
        BY <1>2, <2>2 DEF RoundSource
      <3>2. down \in Demotions(Stay, Cardinality(Stay))
        <4>1. Stay \union up = Stay
          BY <3>1
        <4> QED
          BY <1>1, <4>1 DEF Round
      <3>3. active' = Stay \ down
        BY <1>3, <3>1
      <3>4. CASE Cardinality(Stay) > MaxActive
        <4>1. Cardinality(Stay) - MaxActive \in Nat
          BY SMT, <2>1, <3>4, DegreeAssumption
        <4>2. down \in Choices(Stay, Cardinality(Stay) - MaxActive)
          BY <3>2, <3>4 DEF Demotions
        <4>3. down \in SUBSET Stay /\ Cardinality(down) <= Cardinality(Stay) - MaxActive
          BY <2>1, <4>1, <4>2, ChoicesBound
        <4>4. Cardinality(Stay \ down) = Cardinality(Stay) - Cardinality(down)
          <5>1. IsFiniteSet(Stay) /\ Stay \intersect down = down
            BY <2>1, <4>3, FinitePeers
          <5>2. Cardinality(Stay \ down) = Cardinality(Stay) - Cardinality(Stay \intersect down)
            BY <5>1, FS_Difference
          <5> QED
            BY <5>1, <5>2
        <4>5. Cardinality(down) \in Nat
          BY <2>1, <4>3, FinitePeers
        <4> QED
          BY SMT, <1>7, <2>1, <3>3, <4>3, <4>4, <4>5, DegreeAssumption
      <3>5. CASE ~(Cardinality(Stay) > MaxActive)
        <4>1. active' = Stay
          BY <3>2, <3>3, <3>5 DEF Demotions
        <4> QED
          BY SMT, <1>7, <2>1, <2>2, <4>1
      <3> QED
        BY <3>4, <3>5
    <2>3. CASE Cardinality(Stay) < activeTarget
      <3>1. down = {}
        BY SMT, <1>1, <2>1, <2>3, DegreeAssumption DEF Round, Demotions
      <3>2. active' = Stay \union up
        BY <1>3, <3>1
      <3>3. Cardinality(active') = Cardinality(Stay) + Cardinality(up) /\ Cardinality(up) \in Nat
        <4>1. Stay \intersect up = {} /\ up \in SUBSET Peers
          BY <2>1 DEF Pool
        <4> QED
          BY <2>1, <3>2, <4>1, DisjointUnion, FinitePeers
      <3>4. up = Pool \intersect snapshot
        <4>1. up \in Choices(Pool \intersect snapshot, activeTarget - Cardinality(Stay))
          BY <1>1, <2>3 DEF Round, Promotions
        <4>2. activeTarget - Cardinality(Stay) \in Nat /\ Pool \intersect snapshot \in SUBSET Peers
          BY SMT, <2>1, <2>3
        <4>3. Cardinality(up) # activeTarget - Cardinality(Stay)
          BY SMT, <1>7, <2>1, <3>3
        <4> QED
          BY <4>1, <4>2, <4>3, ChoicesAll
      <3> QED
        BY <1>2, <3>1, <3>4 DEF RoundSource
    <2> QED
      BY SMT, <2>1, <2>2, <2>3
  <1> QED
    BY <1>4, <1>5, <1>6, <1>7 DEF RoundSettlesStep

\* A peer that a round drops is dropped for want of room.
LEMMA MaintainKeeps ==
  ASSUME ViewsOK, TargetsOK, Maintain, NEW p \in active \union passive,
         p \notin active' \union passive'
  PROVE  Cardinality(passive') >= passiveTarget
  <1>1. PICK up, down, kept : Round(up, down, kept)
    BY MaintainRound
  <1> DEFINE left == Pool \ up
  <1>2. RoundSource(up, down, kept)
    BY <1>1, RoundSets
  <1>3. passive' \in Choices(left \union kept, passiveTarget)
    BY <1>1 DEF Round
  <1>4. /\ left \in SUBSET Peers /\ kept \in SUBSET Peers
        /\ left \union kept \in SUBSET Peers
        /\ left \intersect kept = {}
        /\ passiveTarget \in Nat
        /\ Cardinality(left) \in Nat /\ Cardinality(kept) \in Nat
        /\ Cardinality(left \union kept) \in Nat
    <2>1. left \in SUBSET Peers /\ kept \in SUBSET Peers /\ left \intersect kept = {}
      BY <1>2 DEF RoundSource, Pool
    <2> HIDE DEF left
    <2> QED
      BY SMT, <2>1, FinitePeers, DegreeAssumption DEF TargetsOK
  <1>5. p \in left \union down
    BY <1>1 DEF Round, Pool
  <1>6. kept \in Kept(down, Cardinality(left)) /\ down \in SUBSET Peers
    BY <1>1, <1>2 DEF Round, RoundSource
  <1> HIDE DEF left
  <1>7. Cardinality(left \union kept) = Cardinality(left) + Cardinality(kept)
    BY <1>4, DisjointUnion
  <1>8. CASE passive' # left \union kept
    <2>1. Cardinality(passive') = passiveTarget
      BY <1>3, <1>4, <1>8, ChoicesAll
    <2> QED
      BY SMT, <1>4, <2>1
  <1>9. CASE passive' = left \union kept
    <2>1. p \in down /\ p \notin kept
      BY <1>5, <1>9
    <2>2. CASE Cardinality(left) < passiveTarget
      <3>1. kept \in Choices(down, passiveTarget - Cardinality(left))
        BY <1>6, <2>2 DEF Kept
      <3>2. passiveTarget - Cardinality(left) \in Nat
        BY SMT, <1>4, <2>2
      <3>3. Cardinality(kept) = passiveTarget - Cardinality(left)
        BY <1>6, <2>1, <3>1, <3>2, ChoicesAll
      <3> QED
        BY SMT, <1>4, <1>7, <1>9, <3>3
    <2>3. CASE ~(Cardinality(left) < passiveTarget)
      BY SMT, <1>4, <1>7, <1>9, <2>3
    <2> QED
      BY <2>2, <2>3
  <1> QED
    BY <1>8, <1>9

\* The sections of the calls in progress keep it.
LEMMA CallStepInvariant ==
  ASSUME BaseInvariant, NEW c \in Calls, CallStep(c)
  PROVE  BaseInvariant'
  <1>0. CallsOK /\ ViewsOK /\ TargetsOK
    BY DEF BaseInvariant
  <1> USE DEF CallPc, Nodes
  <1>1. CASE CheckActive(c)
    <2>1. CallsOK'
      <3>1. CASE Return(c)
        BY <1>0, <3>1, ReturnCalls
      <3>2. CASE ~(peer[c] = Self \/ peer[c] \in active)
        <4>1. Goto(c, "insert", peer[c], "end") /\ rest' = rest /\ peer[c] \in Peers
          BY <1>0, <1>1, <3>2 DEF CheckActive, CallsOK
        <4> QED
          BY <1>0, <4>1, GotoCalls DEF CallsOK
      <3> QED
        BY <1>1, <3>1, <3>2 DEF CheckActive
    <2>2. UNCHANGED <<active, passive, swim, connected, mpc, snapshot, activeTarget, passiveTarget>>
      BY <1>1 DEF CheckActive, views, maintenance
    <2> QED
      BY <1>0, <2>1, <2>2, BaseNext
         DEF ViewsOK, TargetsOK, ActiveBounded, PassiveBounded, ActiveTracked
  <1>2. CASE InsertPassive(c)
    <2>1. CallsOK' /\ peer[c] \in Peers
      BY <1>0, <1>2, ReturnCalls DEF InsertPassive, CallsOK
    <2>2. passive' \in SUBSET Peers /\ PassiveBounded'
      <3>1. CASE Cardinality(passive) < MaxPassive
        <4>1. Cardinality(passive \union {peer[c]}) <= Cardinality(passive) + Cardinality({peer[c]})
          BY <1>0, <2>1, UnionBound DEF ViewsOK
        <4>2. Cardinality({peer[c]}) = 1
          BY FS_Singleton
        <4>3. Cardinality(passive) \in Nat /\ Cardinality(passive \union {peer[c]}) \in Nat
          BY <1>0, <2>1, FinitePeers DEF ViewsOK
        <4>4. passive' = passive \union {peer[c]}
          BY <1>2, <3>1 DEF InsertPassive
        <4> QED
          BY SMTT(30), <1>0, <2>1, <3>1, <4>1, <4>2, <4>3, <4>4, DegreeAssumption
             DEF ViewsOK, PassiveBounded
      <3>2. CASE ~(Cardinality(passive) < MaxPassive)
        BY <1>0, <1>2, <3>2 DEF InsertPassive, ViewsOK, PassiveBounded
      <3> QED
        BY <3>1, <3>2
    <2>3. UNCHANGED <<active, swim, connected, mpc, snapshot, activeTarget, passiveTarget>>
      BY <1>2 DEF InsertPassive, maintenance
    <2> QED
      BY <1>0, <2>1, <2>2, <2>3, BaseNext DEF ViewsOK, TargetsOK, ActiveBounded, ActiveTracked
  <1>3. CASE Commit(c)
    <2>1. peer[c] \in Peers
      BY <1>0, <1>3 DEF Commit, CallsOK
    <2>2. ViewsOK'
      BY <1>0, <1>3, <2>1, CommitViews DEF Commit
    <2>3. CallsOK'
      <3>1. rest' \in [Calls -> SUBSET Nodes]
        BY <1>0, <1>3 DEF Commit, CallsOK
      <3>2. Goto(c, "check", peer[c], "end") \/ Goto(c, "idle", Self, "end")
        BY <1>3 DEF Commit
      <3> QED
        BY <1>0, <2>1, <3>1, <3>2, GotoCalls
    <2> QED
      BY <1>0, <1>3, <2>2, <2>3, BaseNext DEF Commit, TargetsOK, maintenance
  <1>4. CASE MarkDead(c)
    <2>1. swim' \in [Peers -> Tracked \union {"None"}] /\ ActiveTracked'
      BY <1>0, <1>4 DEF MarkDead, CallsOK, ViewsOK, ActiveTracked, Tracked, views
    <2>2. CallsOK'
      <3>1. rest' \in [Calls -> SUBSET Nodes]
        BY <1>0, <1>4 DEF MarkDead, CallsOK
      <3>2. Goto(c, "candidate", Self, "end") \/ Goto(c, "idle", Self, "end")
        BY <1>4 DEF MarkDead
      <3> QED
        BY <1>0, <3>1, <3>2, GotoCalls
    <2> QED
      BY <1>0, <1>4, <2>1, <2>2, BaseNext
         DEF MarkDead, ViewsOK, TargetsOK, ActiveBounded, PassiveBounded, views, maintenance
  <1>5. CASE PickCandidate(c)
    <2>1. CallsOK'
      <3>1. rest' \in [Calls -> SUBSET Nodes]
        BY <1>0, <1>5 DEF PickCandidate, CallsOK
      <3>2. Goto(c, "idle", Self, "end") \/ \E p \in Peers : Goto(c, "promote", p, "end")
        BY <1>0, <1>5 DEF PickCandidate, ViewsOK
      <3> QED
        BY <1>0, <3>1, <3>2, GotoCalls
    <2>2. UNCHANGED <<active, passive, swim, connected, mpc, snapshot, activeTarget, passiveTarget>>
      BY <1>5 DEF PickCandidate, views, maintenance
    <2> QED
      BY <1>0, <2>1, <2>2, BaseNext
         DEF ViewsOK, TargetsOK, ActiveBounded, PassiveBounded, ActiveTracked
  <1>6. CASE PromoteCandidate(c)
    <2>1. CallsOK'
      <3>1. rest' \in [Calls -> SUBSET Nodes] /\ peer[c] \in Peers
        BY <1>0, <1>6 DEF PromoteCandidate, CallsOK
      <3>2. Goto(c, "commit", peer[c], "end") \/ Goto(c, "idle", Self, "end")
        BY <1>6 DEF PromoteCandidate
      <3> QED
        BY <1>0, <3>1, <3>2, GotoCalls
    <2>2. passive' \in SUBSET passive
      BY <1>6 DEF PromoteCandidate
    <2>3. PassiveBounded'
      BY SMT, <1>0, <2>2, SubsetBound, FinitePeers, DegreeAssumption DEF ViewsOK, PassiveBounded
    <2> QED
      BY <1>0, <1>6, <2>1, <2>2, <2>3, BaseNext
         DEF PromoteCandidate, ViewsOK, TargetsOK, ActiveBounded, ActiveTracked, maintenance
  <1> QED
    BY <1>1, <1>2, <1>3, <1>4, <1>5, <1>6 DEF CallStep

\* A call that starts keeps it.
LEMMA CallStartInvariant ==
  ASSUME BaseInvariant, NEW c \in Calls,
         \/ \E list \in SUBSET Nodes : IntegrateShuffle(c, list)
         \/ \E p \in Nodes : AddToPassive(c, p)
         \/ \E p \in Peers :
              \/ \E ttl \in {0, PassiveWalk, PassiveWalk + 1} : HandleForwardJoin(c, p, ttl)
              \/ \E high \in BOOLEAN : HandleNeighbor(c, p, high)
  PROVE  BaseInvariant'
  <1>0. CallsOK /\ ViewsOK /\ TargetsOK
    BY DEF BaseInvariant
  <1> USE DEF CallPc, Nodes
  <1>1. CallsOK'
    <2>1. CASE \E list \in SUBSET Nodes : IntegrateShuffle(c, list)
      <3>1. PICK list \in SUBSET Nodes : IntegrateShuffle(c, list)
        BY <2>1
      <3>2. PICK p \in list \ {Self} :
               Goto(c, "check", p, "end") /\ rest' = [rest EXCEPT ![c] = list \ {p, Self}]
        BY <3>1 DEF IntegrateShuffle
      <3>3. p \in Nodes /\ rest' \in [Calls -> SUBSET Nodes]
        BY <1>0, <3>2 DEF CallsOK
      <3> QED
        BY <1>0, <3>2, <3>3, GotoCalls
    <2>2. CASE \E p \in Nodes : AddToPassive(c, p)
      BY <1>0, <2>2, GotoCalls DEF AddToPassive, CallsOK
    <2>3. CASE \E p \in Peers, ttl \in {0, PassiveWalk, PassiveWalk + 1} : HandleForwardJoin(c, p, ttl)
      <3>1. PICK p \in Peers, ttl \in {0, PassiveWalk, PassiveWalk + 1} : HandleForwardJoin(c, p, ttl)
        BY <2>3
      <3>2. \/ Goto(c, "commit", p, "toPassive")
            \/ Goto(c, "commit", p, "end")
            \/ Goto(c, "check", p, "end")
        BY <3>1 DEF HandleForwardJoin
      <3>3. rest' = rest
        BY <3>1 DEF HandleForwardJoin
      <3> QED
        BY <1>0, <3>2, <3>3, GotoCalls DEF CallsOK
    <2>4. CASE \E p \in Peers, high \in BOOLEAN : HandleNeighbor(c, p, high)
      <3>1. PICK p \in Peers : Goto(c, "commit", p, "end") /\ rest' = rest
        BY <2>4 DEF HandleNeighbor
      <3> QED
        BY <1>0, <3>1, GotoCalls DEF CallsOK
    <2> QED
      BY <2>1, <2>2, <2>3, <2>4
  <1>2. UNCHANGED <<active, passive, swim, connected, mpc, snapshot, activeTarget, passiveTarget>>
    BY DEF IntegrateShuffle, AddToPassive, HandleForwardJoin, HandleNeighbor, views, maintenance
  <1> QED
    BY <1>0, <1>1, <1>2, BaseNext
       DEF ViewsOK, TargetsOK, ActiveBounded, PassiveBounded, ActiveTracked

\* So does one that starts by taking its peer out of a view.
LEMMA CallTakesInvariant ==
  ASSUME BaseInvariant, NEW c \in Calls, NEW p \in Peers,
         \/ Promote(c, p)
         \/ NeighborRejected(c, p)
         \/ \E then \in {"end", "candidate"} : RemoveActive(c, p, then)
  PROVE  BaseInvariant'
  <1>0. CallsOK /\ ViewsOK /\ TargetsOK
    BY DEF BaseInvariant
  <1> USE DEF CallPc, Nodes
  <1>1. CallsOK'
    <2>1. rest' = rest
      BY DEF Promote, NeighborRejected, RemoveActive
    <2>2. \/ Goto(c, "commit", p, "end") \/ Goto(c, "check", p, "end")
          \/ Goto(c, "dead", p, "end") \/ Goto(c, "dead", p, "candidate")
          \/ Goto(c, "candidate", Self, "end")
          \/ UNCHANGED <<pc, peer, next>>
      BY DEF Promote, NeighborRejected, RemoveActive
    <2>3. CASE UNCHANGED <<pc, peer, next>>
      BY <1>0, <2>1, <2>3 DEF CallsOK
    <2> QED
      BY <1>0, <2>1, <2>2, <2>3, GotoCalls DEF CallsOK
  <1>2. /\ active' \in SUBSET active
        /\ passive' \in SUBSET passive
        /\ UNCHANGED <<swim, connected, mpc, snapshot, activeTarget, passiveTarget>>
    BY DEF Promote, NeighborRejected, RemoveActive, maintenance
  <1>3. /\ Cardinality(active') <= Cardinality(active)
        /\ Cardinality(passive') <= Cardinality(passive)
        /\ Cardinality(active) \in Nat /\ Cardinality(active') \in Nat
        /\ Cardinality(passive) \in Nat /\ Cardinality(passive') \in Nat
    <2>1. active \in SUBSET Peers /\ passive \in SUBSET Peers
          /\ active' \in SUBSET Peers /\ passive' \in SUBSET Peers
      BY <1>0, <1>2 DEF ViewsOK
    <2> QED
      BY <1>2, <2>1, SubsetBound, FinitePeers
  <1>4. ViewsOK'
    BY SMT, <1>0, <1>2, <1>3, DegreeAssumption
       DEF ViewsOK, ActiveBounded, PassiveBounded, ActiveTracked
  <1> QED
    BY <1>0, <1>1, <1>2, <1>4, BaseNext DEF TargetsOK

LEMMA BaseStep == BaseInvariant /\ [Next]_vars => BaseInvariant'
  <1> SUFFICES ASSUME BaseInvariant, [Next]_vars
               PROVE  BaseInvariant'
    OBVIOUS
  <1>0. CallsOK /\ ViewsOK /\ TargetsOK
    BY DEF BaseInvariant
  <1>1. ASSUME NEW p \in Peers, AddActive(p)
        PROVE  BaseInvariant'
    <2>1. ViewsOK'
      BY <1>0, <1>1, CommitViews DEF AddActive
    <2> QED
      BY <1>0, <1>1, <2>1, BaseNext DEF AddActive, CallsOK, TargetsOK, calls, maintenance
  <1>2. ASSUME NEW p \in Peers, NeighborAccepted(p) \/ SwimVerdict(p)
        PROVE  BaseInvariant'
    <2>1. swim' \in [Peers -> Tracked \union {"None"}] /\ ActiveTracked'
      BY <1>0, <1>2 DEF NeighborAccepted, SwimVerdict, ViewsOK, ActiveTracked, Tracked, views
    <2> QED
      BY <1>0, <1>2, <2>1, BaseNext
         DEF NeighborAccepted, SwimVerdict, ViewsOK, CallsOK, TargetsOK, ActiveBounded,
             PassiveBounded, views, calls, maintenance
  <1>3. ASSUME NEW p \in Peers, ConnectionChanges(p)
        PROVE  BaseInvariant'
    <2>1. connected' \in SUBSET Peers
      BY <1>0, <1>3 DEF ConnectionChanges, TargetsOK
    <2> QED
      BY <1>0, <1>3, <2>1, BaseNext
         DEF ConnectionChanges, ViewsOK, CallsOK, TargetsOK, ActiveBounded, PassiveBounded,
             ActiveTracked, views, calls, maintenance
  <1>4. CASE StartMaintenance
    BY <1>0, <1>4, StartTargets, BaseNext
       DEF StartMaintenance, ViewsOK, CallsOK, ActiveBounded, PassiveBounded, ActiveTracked,
           views, calls
  <1>5. CASE Maintain
    <2>1. ViewsOK'
      BY <1>0, <1>5, MaintainViews
    <2>2. CallsOK' /\ TargetsOK'
      BY <1>0, <1>5 DEF Maintain, EndRound, CallsOK, TargetsOK, calls
    <2> QED
      BY <2>1, <2>2, BaseNext
  <1>6. CASE UNCHANGED vars
    BY <1>0, <1>6, BaseNext
       DEF vars, ViewsOK, CallsOK, TargetsOK, ActiveBounded, PassiveBounded, ActiveTracked
  <1> QED
    BY <1>1, <1>2, <1>3, <1>4, <1>5, <1>6, CallStepInvariant, CallStartInvariant,
       CallTakesInvariant DEF Next, Maintenance

\* Only add_to_passive carries a list, and it returns once the list is used up.
LEMMA RestStep ==
  ASSUME BaseInvariant, RestOK, [Next]_vars
  PROVE  RestOK'
  <1>0. CallsOK
    BY DEF BaseInvariant
  <1>1. ASSUME NEW c \in Calls, Return(c)
        PROVE  RestOK'
    <2>1. CASE rest[c] = {}
      BY <1>0, <1>1, <2>1 DEF Return, Goto, RestOK, CallsOK
    <2>2. CASE rest[c] # {}
      BY <1>0, <1>1, <2>2 DEF Return, Goto, RestOK, CallsOK
    <2> QED
      BY <2>1, <2>2
  <1>2. ASSUME NEW c \in Calls, CheckActive(c) \/ InsertPassive(c)
        PROVE  RestOK'
    <2>1. Return(c) \/ (pc' = [pc EXCEPT ![c] = "insert"] /\ rest' = rest)
      BY <1>2 DEF CheckActive, InsertPassive, Goto
    <2> QED
      BY <1>0, <1>1, <2>1 DEF RestOK, CallsOK
  <1>3. ASSUME NEW c \in Calls,
               Commit(c) \/ MarkDead(c) \/ PickCandidate(c) \/ PromoteCandidate(c)
        PROVE  RestOK'
    <2>1. /\ pc[c] \notin {"check", "insert"} /\ rest' = rest
          /\ \E at \in CallPc : pc' = [pc EXCEPT ![c] = at]
      BY <1>3 DEF Commit, MarkDead, PickCandidate, PromoteCandidate, Goto, CallPc
    <2> QED
      BY <1>0, <2>1 DEF RestOK, CallsOK
  <1>4. ASSUME NEW c \in Calls, NEW list \in SUBSET Nodes, IntegrateShuffle(c, list)
        PROVE  RestOK'
    BY <1>0, <1>4 DEF IntegrateShuffle, Goto, RestOK, CallsOK
  <1>5. ASSUME NEW c \in Calls, NEW p \in Nodes,
               \/ AddToPassive(c, p)
               \/ \E ttl \in {0, PassiveWalk, PassiveWalk + 1} : HandleForwardJoin(c, p, ttl)
               \/ \E high \in BOOLEAN : HandleNeighbor(c, p, high)
               \/ Promote(c, p)
               \/ NeighborRejected(c, p)
               \/ \E then \in {"end", "candidate"} : RemoveActive(c, p, then)
        PROVE  RestOK'
    <2>1. /\ pc[c] = "idle" /\ rest' = rest
          /\ pc' = pc \/ \E at \in CallPc : pc' = [pc EXCEPT ![c] = at]
      BY <1>5 DEF AddToPassive, HandleForwardJoin, HandleNeighbor, Promote, NeighborRejected,
                  RemoveActive, Goto, CallPc
    <2> QED
      BY <1>0, <2>1 DEF RestOK, CallsOK
  <1>6. CASE UNCHANGED <<pc, rest>>
    BY <1>6 DEF RestOK
  <1>7. ASSUME NEW p \in Peers,
               AddActive(p) \/ NeighborAccepted(p) \/ ConnectionChanges(p) \/ SwimVerdict(p)
        PROVE  UNCHANGED <<pc, rest>>
    BY <1>7 DEF AddActive, NeighborAccepted, ConnectionChanges, SwimVerdict, calls
  <1>8. CASE Maintenance
    BY <1>6, <1>8 DEF Maintenance, StartMaintenance, Maintain, EndRound, calls
  <1>9. Peers \in SUBSET Nodes
    BY DEF Nodes
  <1>10. CASE UNCHANGED vars
    BY <1>6, <1>10 DEF vars
  <1> QED
    BY <1>2, <1>3, <1>4, <1>5, <1>6, <1>7, <1>8, <1>9, <1>10 DEF Next, CallStep

LEMMA StepInvariant == ViewsInvariant /\ [Next]_vars => ViewsInvariant'
  <1> SUFFICES ASSUME ViewsInvariant, [Next]_vars
               PROVE  ViewsInvariant'
    OBVIOUS
  <1>1. BaseInvariant /\ RestOK
    BY InvariantParts
  <1>2. BaseInvariant' /\ RestOK'
    BY <1>1, BaseStep, RestStep
  <1> QED
    BY <1>2, InvariantPartsNext

\* What the property about forgotten peers says of one peer
Remembered(q) ==
  \/ q \in Known'
  \/ Full(passive')
  \/ \E c \in Calls : pc[c] = "idle" /\ pc'[c] \in {"dead", "candidate"}

\* A step of the call c leaves the other calls alone.
Only(c) ==
  \A d \in Calls \ {c} : pc'[d] = pc[d] /\ peer'[d] = peer[d] /\ rest'[d] = rest[d]

LEMMA KnownNext ==
  ASSUME NEW q
  PROVE  /\ q \in active' \union passive' => q \in Known'
         /\ \A c \in Calls : q \in Carried(c)' => q \in Known'
  BY DEF Known

LEMMA CallKeeps ==
  ASSUME NEW c \in Calls, Only(c), NEW q \in Known,
         q \in active \union passive => Remembered(q),
         q \in Carried(c) => Remembered(q)
  PROVE  Remembered(q)
  <1>1. CASE \E d \in Calls \ {c} : q \in Carried(d)
    <2>1. PICK d \in Calls \ {c} : q \in Carried(d)
      BY <1>1
    <2>2. q \in Carried(d)'
      BY <2>1 DEF Only, Carried
    <2> QED
      BY <2>2, KnownNext DEF Remembered
  <1>2. CASE ~\E d \in Calls \ {c} : q \in Carried(d)
    BY <1>2 DEF Known
  <1> QED
    BY <1>1, <1>2

LEMMA GotoOnly ==
  ASSUME CallsOK, NEW c \in Calls, NEW at, NEW p, NEW then, Goto(c, at, p, then), rest' = rest
  PROVE  /\ Only(c) /\ pc'[c] = at /\ rest'[c] = rest[c]
         /\ at # "idle" => peer'[c] = p
  BY DEF CallsOK, Goto, Only

\* A call that returns from add_to_passive goes on with all that is left.
LEMMA ReturnKeeps ==
  ASSUME CallsOK, NEW c \in Calls, Return(c)
  PROVE  Only(c) /\ rest[c] \in SUBSET Carried(c)'
  <1>1. CASE rest[c] = {}
    BY <1>1 DEF Return, Goto, Only, CallsOK
  <1>2. CASE rest[c] # {}
    <2>1. PICK p \in rest[c] : Goto(c, "check", p, "end") /\ rest' = [rest EXCEPT ![c] = @ \ {p}]
      BY <1>2 DEF Return
    <2>2. /\ Only(c) /\ pc'[c] = "check" /\ peer'[c] = p /\ rest'[c] = rest[c] \ {p}
      BY <2>1 DEF Goto, Only, CallsOK
    <2> QED
      BY <2>2 DEF Carried
  <1> QED
    BY <1>1, <1>2

\* A commit that demotes a peer moves it, unless the passive view is full.
LEMMA CommitKeeps ==
  ASSUME ViewsOK, NEW p \in Peers, CommitActive(p)
  PROVE  /\ p \in active'
         /\ \A q \in active \union passive : q \in active' \union passive' \/ Full(passive')
  <1>1. PICK demoted : ApplyCommit(p, demoted)
    BY DEF CommitActive
  <1>2. CASE Cardinality(passive) < MaxPassive
    BY <1>1, <1>2 DEF ApplyCommit
  <1>3. CASE ~(Cardinality(passive) < MaxPassive)
    <2>1. passive' = passive /\ Cardinality(passive) \in Nat
      BY <1>1, <1>3, FinitePeers DEF ApplyCommit, ViewsOK
    <2>2. Full(passive')
      BY SMT, <1>3, <2>1, DegreeAssumption DEF Full
    <2> QED
      BY <1>1, <2>2 DEF ApplyCommit
  <1> QED
    BY <1>2, <1>3

\* A call in progress forgets nobody.
LEMMA CallStepKeeps ==
  ASSUME ViewsInvariant, NEW c \in Calls, CallStep(c), NEW q \in Known \intersect Peers
  PROVE  Remembered(q)
  <1>0. CallsOK /\ ViewsOK /\ RestOK
    BY InvariantParts DEF BaseInvariant
  <1>1. CASE CheckActive(c)
    <2>1. UNCHANGED <<active, passive>> /\ pc[c] = "check"
      BY <1>1 DEF CheckActive, views
    <2>2. CASE peer[c] = Self \/ peer[c] \in active
      <3>1. Only(c) /\ rest[c] \in SUBSET Carried(c)'
        BY <1>0, <1>1, <2>2, ReturnKeeps DEF CheckActive
      <3>2. q \in Carried(c) => q \in rest[c] \union active
        BY <2>1, <2>2, PeerAssumption DEF Carried
      <3> QED
        BY <2>1, <3>1, <3>2, KnownNext, CallKeeps DEF Remembered
    <2>3. CASE ~(peer[c] = Self \/ peer[c] \in active)
      <3>1. Goto(c, "insert", peer[c], "end") /\ rest' = rest
        BY <1>1, <2>3 DEF CheckActive
      <3>2. Only(c) /\ pc'[c] = "insert" /\ rest'[c] = rest[c] /\ peer'[c] = peer[c]
        BY SMT, <1>0, <3>1, GotoOnly
      <3>3. q \in Carried(c) => q \in Carried(c)'
        BY <2>1, <3>2 DEF Carried
      <3> QED
        BY <2>1, <3>2, <3>3, KnownNext, CallKeeps DEF Remembered
    <2> QED
      BY <2>2, <2>3
  <1>2. CASE InsertPassive(c)
    <2>1. Only(c) /\ rest[c] \in SUBSET Carried(c)'
      BY <1>0, <1>2, ReturnKeeps DEF InsertPassive
    <2>2. /\ active' = active /\ pc[c] = "insert"
          /\ passive' = IF Cardinality(passive) < MaxPassive THEN passive \union {peer[c]}
                                                             ELSE passive
      BY <1>2 DEF InsertPassive
    <2>3. Cardinality(passive) \in Nat
      BY <1>0, FinitePeers DEF ViewsOK
    <2>4. peer[c] \in passive' \/ Full(passive')
      BY SMT, <2>2, <2>3, DegreeAssumption DEF Full
    <2>5. q \in Carried(c) => q = peer[c] \/ q \in Carried(c)'
      BY <2>1 DEF Carried
    <2>6. q \in active \union passive => q \in active' \union passive'
      BY <2>2
    <2> QED
      BY <2>1, <2>4, <2>5, <2>6, KnownNext, CallKeeps DEF Remembered
  <1>3. CASE Commit(c)
    <2>1. pc[c] = "commit" /\ peer[c] \in Peers /\ rest[c] = {}
      BY <1>0, <1>3 DEF Commit, CallsOK, RestOK
    <2>2. /\ peer[c] \in active'
          /\ \A r \in active \union passive : r \in active' \union passive' \/ Full(passive')
      BY <1>0, <1>3, <2>1, CommitKeeps DEF Commit
    <2>3. Only(c)
      BY <1>0, <1>3, GotoOnly DEF Commit
    <2>4. q \in Carried(c) => q = peer[c]
      BY <2>1 DEF Carried
    <2> QED
      BY <2>2, <2>3, <2>4, KnownNext, CallKeeps DEF Remembered
  <1>4. CASE MarkDead(c) \/ PickCandidate(c)
    <2>1. /\ UNCHANGED <<active, passive>> /\ pc[c] \in {"dead", "candidate"}
          /\ rest[c] = {}
      BY <1>0, <1>4 DEF MarkDead, PickCandidate, views, RestOK
    <2>2. Only(c)
      BY <1>0, <1>4, GotoOnly DEF MarkDead, PickCandidate
    <2>3. q \notin Carried(c)
      BY <2>1 DEF Carried
    <2> QED
      BY <2>1, <2>2, <2>3, KnownNext, CallKeeps DEF Remembered
  <1>5. CASE PromoteCandidate(c)
    <2>1. /\ active' = active /\ passive' = passive \ {peer[c]} /\ pc[c] = "promote"
          /\ rest[c] = {} /\ rest' = rest
      BY <1>0, <1>5 DEF PromoteCandidate, RestOK
    <2>2. Only(c) /\ (peer[c] \in passive => pc'[c] = "commit" /\ peer'[c] = peer[c])
      BY SMT, <1>0, <1>5, GotoOnly DEF PromoteCandidate
    <2>3. q \notin Carried(c)
      BY <2>1 DEF Carried
    <2>4. q \in active \union passive => q \in active' \union passive' \union Carried(c)'
      BY <2>1, <2>2 DEF Carried
    <2> QED
      BY <2>2, <2>3, <2>4, KnownNext, CallKeeps DEF Remembered
  <1> QED
    BY <1>1, <1>2, <1>3, <1>4, <1>5 DEF CallStep

\* A call that starts forgets nobody, unless it removes a peer.
LEMMA CallStartKeeps ==
  ASSUME ViewsInvariant, NEW c \in Calls, NEW q \in Known \intersect Peers,
         \/ \E list \in SUBSET Nodes : IntegrateShuffle(c, list)
         \/ \E p \in Nodes : AddToPassive(c, p)
         \/ \E p \in Peers :
              \/ \E ttl \in {0, PassiveWalk, PassiveWalk + 1} : HandleForwardJoin(c, p, ttl)
              \/ \E high \in BOOLEAN : HandleNeighbor(c, p, high)
              \/ Promote(c, p)
              \/ NeighborRejected(c, p)
              \/ \E then \in {"end", "candidate"} : RemoveActive(c, p, then)
  PROVE  Remembered(q)
  <1>0. CallsOK /\ ViewsOK /\ RestOK
    BY InvariantParts DEF BaseInvariant
  <1>1. pc[c] = "idle"
    BY DEF IntegrateShuffle, AddToPassive, HandleForwardJoin, HandleNeighbor, Promote,
           NeighborRejected, RemoveActive
  <1>2. q \notin Carried(c)
    BY <1>0, <1>1 DEF Carried, RestOK
  <1>3. ASSUME NEW list \in SUBSET Nodes, IntegrateShuffle(c, list)
        PROVE  Remembered(q)
    <2>1. Only(c) /\ UNCHANGED <<active, passive>>
      BY <1>0, <1>3 DEF IntegrateShuffle, Goto, Only, CallsOK, views
    <2> QED
      BY <1>2, <2>1, KnownNext, CallKeeps DEF Remembered
  <1>4. ASSUME NEW p,
               \/ AddToPassive(c, p)
               \/ \E ttl \in {0, PassiveWalk, PassiveWalk + 1} : HandleForwardJoin(c, p, ttl)
               \/ \E high \in BOOLEAN : HandleNeighbor(c, p, high)
        PROVE  Remembered(q)
    <2>1. Only(c) /\ UNCHANGED <<active, passive>>
      BY <1>0, <1>4, GotoOnly DEF AddToPassive, HandleForwardJoin, HandleNeighbor, views
    <2> QED
      BY <1>2, <2>1, KnownNext, CallKeeps DEF Remembered
  <1>5. ASSUME NEW p \in Peers, Promote(c, p) \/ NeighborRejected(c, p)
        PROVE  Remembered(q)
    <2>1. PICK at \in {"commit", "check"} : Goto(c, at, p, "end") /\ rest' = rest
      BY <1>5 DEF Promote, NeighborRejected
    <2>2. Only(c) /\ pc'[c] \in {"commit", "check"} /\ peer'[c] = p
      BY <1>0, <2>1, GotoOnly
    <2>3. p \in Carried(c)'
      BY <2>2 DEF Carried
    <2>4. q \in active \union passive => q = p \/ q \in active' \union passive'
      BY <1>5 DEF Promote, NeighborRejected
    <2> QED
      BY <1>2, <2>2, <2>3, <2>4, KnownNext, CallKeeps DEF Remembered
  <1>6. ASSUME NEW p \in Peers, NEW then \in {"end", "candidate"}, RemoveActive(c, p, then)
        PROVE  Remembered(q)
    <2>1. CASE p \in active \/ then = "candidate"
      <3>1. pc'[c] \in {"dead", "candidate"}
        BY <1>0, <1>6, <2>1 DEF RemoveActive, Goto, CallsOK
      <3> QED
        BY <1>1, <3>1 DEF Remembered
    <2>2. CASE ~(p \in active \/ then = "candidate")
      <3>1. UNCHANGED <<pc, peer, rest, passive>> /\ active' = active
        BY <1>6, <2>2 DEF RemoveActive
      <3> QED
        BY <1>2, <3>1, KnownNext, CallKeeps DEF Remembered, Only
    <2> QED
      BY <2>1, <2>2
  <1> QED
    BY <1>3, <1>4, <1>5, <1>6

LEMMA StepForgetsNone == ViewsInvariant /\ [Next]_vars => NothingForgottenStep
  <1> SUFFICES ASSUME ViewsInvariant, [Next]_vars, NEW q \in Known \intersect Peers
               PROVE  Remembered(q)
    BY DEF NothingForgottenStep, Remembered
  <1>0. CallsOK /\ ViewsOK /\ TargetsOK
    BY InvariantParts DEF BaseInvariant
  <1>1. ASSUME UNCHANGED <<pc, peer, rest>>, q \in active \union passive => Remembered(q)
        PROVE  Remembered(q)
    <2>1. CASE q \in active \union passive
      BY <1>1, <2>1
    <2>2. CASE q \notin active \union passive
      <3>1. PICK c \in Calls : q \in Carried(c)
        BY <2>2 DEF Known
      <3>2. q \in Carried(c)'
        BY <1>1, <3>1 DEF Carried
      <3> QED
        BY <3>2, KnownNext DEF Remembered
    <2> QED
      BY <2>1, <2>2
  <1>2. ASSUME NEW p \in Peers, AddActive(p)
        PROVE  Remembered(q)
    <2>1. \A r \in active \union passive : r \in active' \union passive' \/ Full(passive')
      BY <1>0, <1>2, CommitKeeps DEF AddActive
    <2>2. UNCHANGED <<pc, peer, rest>>
      BY <1>2 DEF AddActive, calls
    <2> QED
      BY <1>1, <2>1, <2>2, KnownNext DEF Remembered
  <1>3. CASE UNCHANGED <<active, passive, pc, peer, rest>>
    BY <1>1, <1>3, KnownNext DEF Remembered
  <1>4. ASSUME NEW p \in Peers, NeighborAccepted(p) \/ ConnectionChanges(p) \/ SwimVerdict(p)
        PROVE  UNCHANGED <<active, passive, pc, peer, rest>>
    BY <1>4 DEF NeighborAccepted, ConnectionChanges, SwimVerdict, views, calls
  <1>5. CASE StartMaintenance
    BY <1>3, <1>5 DEF StartMaintenance, views, calls
  <1>6. CASE Maintain
    <2>1. UNCHANGED <<pc, peer, rest>>
      BY <1>6 DEF Maintain, EndRound, calls
    <2>2. q \in active \union passive => q \in active' \union passive' \/ Full(passive')
      BY <1>0, <1>6, MaintainKeeps DEF Full
    <2> QED
      BY <1>1, <2>1, <2>2, KnownNext DEF Remembered
  <1>7. CASE UNCHANGED vars
    BY <1>3, <1>7 DEF vars
  <1> QED
    BY <1>2, <1>3, <1>4, <1>5, <1>6, <1>7, CallStepKeeps, CallStartKeeps DEF Next, Maintenance

LEMMA StepSettles == ViewsInvariant /\ [Next]_vars => RoundSettlesStep
  <1> SUFFICES ASSUME ViewsInvariant, [Next]_vars
               PROVE  RoundSettlesStep
    OBVIOUS
  <1>0. ViewsOK /\ TargetsOK
    BY InvariantParts DEF BaseInvariant
  <1>1. CASE Maintain
    BY <1>0, <1>1, MaintainSettles
  <1>2. CASE StartMaintenance
    BY <1>2 DEF StartMaintenance, RoundSettlesStep
  <1>3. CASE UNCHANGED mpc
    BY <1>3 DEF RoundSettlesStep
  <1>4. ASSUME NEW c \in Calls, CallStep(c)
        PROVE  UNCHANGED mpc
    BY <1>4 DEF CallStep, CheckActive, InsertPassive, Commit, MarkDead, PickCandidate,
                PromoteCandidate, maintenance
  <1>5. ASSUME NEW c \in Calls, NEW p,
               \/ IntegrateShuffle(c, p) \/ AddToPassive(c, p)
               \/ \E ttl \in {0, PassiveWalk, PassiveWalk + 1} : HandleForwardJoin(c, p, ttl)
               \/ \E high \in BOOLEAN : HandleNeighbor(c, p, high)
               \/ Promote(c, p) \/ NeighborRejected(c, p)
               \/ \E then \in {"end", "candidate"} : RemoveActive(c, p, then)
        PROVE  UNCHANGED mpc
    BY <1>5 DEF IntegrateShuffle, AddToPassive, HandleForwardJoin, HandleNeighbor, Promote,
                NeighborRejected, RemoveActive, maintenance
  <1>6. ASSUME NEW p \in Peers,
               AddActive(p) \/ NeighborAccepted(p) \/ ConnectionChanges(p) \/ SwimVerdict(p)
        PROVE  UNCHANGED mpc
    BY <1>6 DEF AddActive, NeighborAccepted, ConnectionChanges, SwimVerdict, maintenance
  <1>7. CASE UNCHANGED vars
    BY <1>3, <1>7 DEF vars
  <1> QED
    BY <1>1, <1>2, <1>3, <1>4, <1>5, <1>6, <1>7 DEF Next, Maintenance

\* The inductive invariant holds in every reachable state.
THEOREM InvariantTheorem == Spec => []ViewsInvariant
  BY InitInvariant, StepInvariant, PTL DEF Spec

\* The active view never exceeds max_active_degree and the passive view never
\* exceeds max_passive_degree, whatever handlers, trait calls, commits and
\* maintenance rounds interleave.
THEOREM BoundsTheorem == Spec => []ActiveBounded /\ []PassiveBounded
<1>1. ViewsInvariant => ActiveBounded /\ PassiveBounded
  BY DEF ViewsInvariant
<1> QED
  BY <1>1, InvariantTheorem, PTL

\* Every peer of the active view has an entry in the SWIM state table: commits
\* add both together and maintenance prunes both by one report.
THEOREM ActiveTrackedTheorem == Spec => []ActiveTracked
<1>1. ViewsInvariant => ActiveTracked
  BY DEF ViewsInvariant
<1> QED
  BY <1>1, InvariantTheorem, PTL
\* A remote peer the node knows is forgotten only for want of room in the
\* passive view or because remove_active removed it: demotions by a commit,
\* rejections, promotions, suspended calls of add_to_passive and maintenance
\* rounds move peers and lose none.
THEOREM NothingForgottenTheorem == Spec => NothingForgotten
  BY InvariantTheorem, StepForgetsNone, PTL DEF Spec, NothingForgotten

\* After every maintenance round the views are disjoint, the active one and the
\* SWIM table have only peers that the transport reported, and no reported
\* candidate is passive while the active view is below its target.
THEOREM MaintenanceTheorem == Spec => MaintenanceSettles
  BY InvariantTheorem, StepSettles, PTL DEF Spec, MaintenanceSettles
=============================================================================
