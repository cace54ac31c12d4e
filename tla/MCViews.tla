------------------------------ MODULE MCViews -------------------------------
(***************************************************************************)
(* The views of one node under its handlers, callers and degree            *)
(* maintenance (Views); the seeds a node dials to join; and the overlay    *)
(* that the handlers of several nodes make.  A behaviour is about one of   *)
(* them, named by focus.                                                   *)
(***************************************************************************)
EXTENDS Views, Integers, Sequences, TLC

CONSTANTS A, B, D, E   \* model values

VARIABLES
  focus,   \* the part of the system that this behaviour is about
  v1, v2, v3, v4, v5, v6, v7, v8, v9, v10   \* its variables

mcvars == <<focus, active, passive, swim, connected, pc, peer, rest, next, mpc, snapshot, activeTarget, passiveTarget, v1, v2, v3, v4, v5, v6, v7, v8, v9, v10>>

\* Remote peers and calls are interchangeable in Views.
Symmetry == Permutations(Peers) \union Permutations(Calls)

\* A caller of its own that dials two seeds step by step.
Seed == INSTANCE HyParView WITH
  Nodes <- {}, Boot <- {}, ActiveDegree <- {}, MaxActive <- {},
  MaxPassive <- {}, ActiveWalk <- {}, PassiveWalk <- {}, SampleActive <- {},
  SamplePassive <- {}, MaxShuffles <- {}, MaxLost <- {}, Seeds <- {A, B},
  List <- <<>>, MaxAttempts <- 2, MaxDelay <- 2, ledger <- v1, pc <- v2,
  seed <- v3, todo <- v4, sleep <- v5, addrs <- v6, view <- v7, dials <- v8,
  owed <- v9, asked <- v10, active <- 0, passive <- 0, alive <- 0,
  joined <- 0, net <- 0, shuffles <- 0, lost <- 0

\* Four nodes that join one after another, with one message lost.
Overlay == INSTANCE HyParView WITH
  Nodes <- {A, B, D, E}, Boot <- {A}, ActiveDegree <- 2, MaxActive <- 2,
  MaxPassive <- 1, ActiveWalk <- 2, PassiveWalk <- 1, SampleActive <- 1,
  SamplePassive <- 1, MaxShuffles <- 0, MaxLost <- 1, Seeds <- {},
  List <- {}, MaxAttempts <- {}, MaxDelay <- {}, active <- v1, passive <- v2,
  alive <- v3, joined <- v4, net <- v5, shuffles <- v6, lost <- v7,
  ledger <- 0, pc <- 0, seed <- 0, todo <- 0, sleep <- 0, addrs <- 0,
  view <- 0, dials <- 0, owed <- 0, asked <- 0

\* Three nodes, one of which also shuffles.
Mix == INSTANCE HyParView WITH
  Nodes <- {A, B, D}, Boot <- {A}, ActiveDegree <- 2, MaxActive <- 2,
  MaxPassive <- 1, ActiveWalk <- 2, PassiveWalk <- 1, SampleActive <- 1,
  SamplePassive <- 1, MaxShuffles <- 1, MaxLost <- 1, Seeds <- {},
  List <- {}, MaxAttempts <- {}, MaxDelay <- {}, active <- v1, passive <- v2,
  alive <- v3, joined <- v4, net <- v5, shuffles <- v6, lost <- v7,
  ledger <- 0, pc <- 0, seed <- 0, todo <- 0, sleep <- 0, addrs <- 0,
  view <- 0, dials <- 0, owed <- 0, asked <- 0

\* Four nodes with room for one active peer, which each new peer replaces.
Thin == INSTANCE HyParView WITH
  Nodes <- {A, B, D, E}, Boot <- {A}, ActiveDegree <- 1, MaxActive <- 1,
  MaxPassive <- 1, ActiveWalk <- 2, PassiveWalk <- 1, SampleActive <- 1,
  SamplePassive <- 1, MaxShuffles <- 0, MaxLost <- 1, Seeds <- {},
  List <- {}, MaxAttempts <- {}, MaxDelay <- {}, active <- v1, passive <- v2,
  alive <- v3, joined <- v4, net <- v5, shuffles <- v6, lost <- v7,
  ledger <- 0, pc <- 0, seed <- 0, todo <- 0, sleep <- 0, addrs <- 0,
  view <- 0, dials <- 0, owed <- 0, asked <- 0

MCInit ==
  \/ focus = "views" /\ Init /\ v1 = 0 /\ v2 = 0 /\ v3 = 0 /\ v4 = 0 /\ v5 = 0 /\ v6 = 0 /\ v7 = 0 /\ v8 = 0 /\ v9 = 0 /\ v10 = 0
  \/ focus = "join" /\ Seed!SeedInit /\ Init /\ connected = {}
  \/ focus = "overlay" /\ Overlay!OverlayInit /\ Init /\ connected = {} /\ v8 = 0 /\ v9 = 0 /\ v10 = 0
  \/ focus = "shuffle" /\ Mix!OverlayInit /\ Init /\ connected = {} /\ v8 = 0 /\ v9 = 0 /\ v10 = 0
  \/ focus = "thin" /\ Thin!OverlayInit /\ Init /\ connected = {} /\ v8 = 0 /\ v9 = 0 /\ v10 = 0

MCNext ==
  \/ focus = "views" /\ Next /\ UNCHANGED <<focus, v1, v2, v3, v4, v5, v6, v7, v8, v9, v10>>
  \/ focus = "join" /\ Seed!SeedNext /\ UNCHANGED <<focus, active, passive, swim, connected, pc, peer, rest, next, mpc, snapshot, activeTarget, passiveTarget>>
  \/ focus = "overlay" /\ Overlay!OverlayNext /\ UNCHANGED <<focus, active, passive, swim, connected, pc, peer, rest, next, mpc, snapshot, activeTarget, passiveTarget, v8, v9, v10>>
  \/ focus = "shuffle" /\ Mix!OverlayNext /\ UNCHANGED <<focus, active, passive, swim, connected, pc, peer, rest, next, mpc, snapshot, activeTarget, passiveTarget, v8, v9, v10>>
  \/ focus = "thin" /\ Thin!OverlayNext /\ UNCHANGED <<focus, active, passive, swim, connected, pc, peer, rest, next, mpc, snapshot, activeTarget, passiveTarget, v8, v9, v10>>

MCSpec == MCInit /\ [][MCNext]_mcvars

-----------------------------------------------------------------------------

\* A seed is dialled no more often than its budget allows, and it stands in
\* the active view only after it was asked to let the node in (join_via_seeds
\* and its retry queue of the membership crate).
BudgetKept ==
  /\ focus = "join" => Seed!SeedTypeOK
  /\ focus = "join" => Seed!BudgetKept
  /\ focus = "join" => Seed!ActiveWasAsked

\* No dial starts inside a backoff or a cooldown that a failure or a loss has
\* started, in whichever order they overlap and whatever other seeds were
\* tried meanwhile (join_dial, record_loss).
WaitsKept == [][focus = "join" => Seed!WaitsKeptStep]_mcvars

=============================================================================
