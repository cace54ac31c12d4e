------------------------------- MODULE MCMesh -------------------------------
(***************************************************************************)
(* Dissemination (module Plumtree, extended here) and the mesh of one      *)
(* topic (two instances of TopicMesh), and a second instance of Plumtree.  *)
(* A behaviour is about one of them, named by focus.                       *)
(***************************************************************************)
EXTENDS Plumtree, TLC

CONSTANTS A, B, I, J, P, X, Y, Z   \* model values

VARIABLES
  focus,   \* the part of the system that this behaviour is about
  v1, v2, v3, v4, v5, v6   \* its variables

mcvars == <<focus, topic, net, publishing, validator, published, delivered, v1, v2, v3, v4, v5, v6>>

\* One link, one payload under two ids, both published by A, whose validator
\* only sees echoes.  B forwards what it accepts, and its validator may refuse.
LineLinks == {<<A, B>>}
LineOrigin == [x \in {I, J} |-> A]
LinePayload == [x \in {I, J} |-> P]
LineVerdicts == A :> {"ForwardAndDeliver"} @@ B :> {"ForwardAndDeliver", "Drop"}

\* The validator of B forwards, when a behaviour is not about the tree.
Forwarding == B :> (P :> "ForwardAndDeliver") @@ A :> (P :> "ForwardAndDeliver")

\* Ids and peers may be exchanged.
Symmetry == Permutations({I, J}) \union Permutations({X, Y, Z})

\* Three peers, of which the transport may miss one, under two ceilings.
Mesh == INSTANCE TopicMesh WITH
  Peers <- {X, Y, Z}, Connected <- {{X, Y}, {X, Z}, {Y, Z}}, MinDegree <- 2,
  Ceilings <- {1, 3}, MaxPreferred <- 2, Threshold <- 1, state <- v1,
  subscribed <- v2

\* Two peers, which are suppressed at the second timeout in a row.
Pair == INSTANCE TopicMesh WITH
  Peers <- {X, Y}, Connected <- SUBSET {X, Y}, MinDegree <- 2,
  Ceilings <- {1, 2}, MaxPreferred <- 2, Threshold <- 2, state <- v1,
  subscribed <- v2

\* One id and two frames at a time, so that a message may come twice.
Tree == INSTANCE Plumtree WITH
  Nodes <- {A, B}, Links <- LineLinks, Ids <- {I}, Payloads <- {P},
  Origin <- LineOrigin, Payload <- LinePayload, Verdicts <- LineVerdicts,
  Cold <- {B}, Faults <- {"frame", "claim"}, MaxFrames <- 2, topic <- v1,
  net <- v2, publishing <- v3, validator <- v4, published <- v5,
  delivered <- v6

MCInit ==
  \/ focus = "tree" /\ Init /\ v1 = 0 /\ v2 = 0 /\ v3 = 0 /\ v4 = 0 /\ v5 = 0 /\ v6 = 0
  \/ focus = "mesh" /\ Mesh!Init /\ Init /\ validator = Forwarding /\ v3 = 0 /\ v4 = 0 /\ v5 = 0 /\ v6 = 0
  \/ focus = "counted" /\ Pair!Init /\ Init /\ validator = Forwarding /\ v3 = 0 /\ v4 = 0 /\ v5 = 0 /\ v6 = 0
  \/ focus = "duplicates" /\ Tree!Init /\ Init /\ validator = Forwarding

MCNext ==
  \/ focus = "tree" /\ Next /\ UNCHANGED <<focus, v1, v2, v3, v4, v5, v6>>
  \/ focus = "mesh" /\ Mesh!Next /\ UNCHANGED <<focus, topic, net, publishing, validator, published, delivered, v3, v4, v5, v6>>
  \/ focus = "counted" /\ Pair!Next /\ UNCHANGED <<focus, topic, net, publishing, validator, published, delivered, v3, v4, v5, v6>>
  \/ focus = "duplicates" /\ Tree!Next /\ UNCHANGED <<focus, topic, net, publishing, validator, published, delivered>>

MCSpec == MCInit /\ [][MCNext]_mcvars

-----------------------------------------------------------------------------

\* A topic keeps its bounds and its delivery path: the eager set stays within
\* its ceiling and holds no suppressed peer, a publish on a subscribed topic
\* finds or rescues an eligible eager peer, and a round of maintenance makes
\* every healthy preferred peer eager (TopicState: maintain_degree_at,
\* rescue_suppressed_eager_peer_if_needed).  The second instance of Plumtree
\* keeps its invariant.
MeshSound ==
  /\ focus = "mesh" => /\ Mesh!TypeOK /\ Mesh!CeilingHolds /\ Mesh!SuppressedNotEager
                       /\ Mesh!PublishReaches /\ Mesh!MaintenanceGrafts
  /\ focus = "counted" => /\ Pair!TypeOK /\ Pair!CeilingHolds /\ Pair!SuppressedNotEager
                          /\ Pair!PublishReaches /\ Pair!MaintenanceGrafts
  /\ focus = "duplicates" => Tree!PlumtreeInvariant

\* A timeout never takes the last eligible eager peer of a subscribed topic;
\* a healthy preferred peer becomes eager when it is preferred and stays so,
\* whatever duplicates, other preferences or a lower ceiling demote
\* (cooling_floor_blocks, prefer_eager_peer).
DeliveryPathKept ==
  [][/\ focus = "mesh" => /\ Mesh!FloorHoldsStep /\ Mesh!PreferredStaysEagerStep
                          /\ Mesh!PreferredBecomesEagerStep
     /\ focus = "counted" => /\ Pair!FloorHoldsStep /\ Pair!PreferredStaysEagerStep
                             /\ Pair!PreferredBecomesEagerStep]_mcvars
=============================================================================
