----------------------------- MODULE NodeStart -----------------------------
(***************************************************************************)
(* How a node gets its identity and its transport.  An application uses    *)
(* Identity::load_or_create and GossipContext or GossipRuntimeBuilder; the *)
(* coordinator binary has its own load_or_create_identity and makes its    *)
(* transport itself.  A file is written in place (tokio::fs::write): it is *)
(* truncated, then filled, and the process may die between the two.        *)
(***************************************************************************)
EXTENDS Integers, FiniteSets

CONSTANTS
  Apps,          \* programs that go through the runtime's builder
  Coordinators,  \* coordinator binaries
  ReadFails,     \* whether reading a file that is there may fail
  MaxKeys,       \* key pairs generated
  MaxCrash       \* deaths, and builds with a transport of the caller's

VARIABLES
  file,          \* file[p]: "absent", "torn" or the key pair stored
  node,          \* node[p]: where the start of p is, with its identity and
                 \* the identity its transport answers under
  keys, crashes

vars == <<file, node, keys, crashes>>

Programs == Apps \cup Coordinators
Keys == 1 .. MaxKeys
Absent == 0
Torn == -1
Down == [pc |-> "down", id |-> 0, wire |-> 0]

Init ==
  /\ file = [p \in Programs |-> Absent]
  /\ node = [p \in Programs |-> Down]
  /\ keys = 0 /\ crashes = 0

Fresh == keys + 1
\* MlDsaKeyPair::generate: bounded by MaxKeys.
Generate(p, pc) ==
  /\ keys < MaxKeys
  /\ keys' = Fresh
  /\ node' = [node EXCEPT ![p] = [Down EXCEPT !.pc = pc, !.id = Fresh]]

-----------------------------------------------------------------------------
(* The identity of an application.                                         *)

\* load_from_keystore: read the file and decode it.
load_from_keystore(p, readable) == readable /\ file[p] \in Keys

\* load_or_create: on any error of the load a new identity is made.
load_or_create(p, readable) ==
  /\ p \in Apps /\ node[p].pc = "down"
  /\ IF load_from_keystore(p, readable)
     THEN /\ node' = [node EXCEPT ![p] = [Down EXCEPT !.pc = "loaded", !.id = file[p]]]
          /\ UNCHANGED keys
     ELSE Generate(p, "create")
  /\ UNCHANGED <<file, crashes>>

-----------------------------------------------------------------------------
(* The identity of a coordinator.                                          *)

\* load_or_create_identity: only a file that is missing is created; one that
\* cannot be read or decoded ends the program.
load_or_create_identity(p, readable) ==
  /\ p \in Coordinators /\ node[p].pc = "down"
  /\ \/ /\ file[p] = Absent
        /\ Generate(p, "create")
     \/ /\ file[p] \in Keys /\ readable
        /\ node' = [node EXCEPT ![p] = [Down EXCEPT !.pc = "loaded", !.id = file[p]]]
        /\ UNCHANGED keys
  /\ UNCHANGED <<file, crashes>>

\* Both write the new identity in place.
SaveTruncates(p) ==
  /\ node[p].pc = "create"
  /\ file' = [file EXCEPT ![p] = Torn]
  /\ node' = [node EXCEPT ![p].pc = "save"]
  /\ UNCHANGED <<keys, crashes>>

\* Mutant: the node goes on before its identity is written.
SaveLater(p) ==
  /\ node[p].pc = "save"
  /\ node' = [node EXCEPT ![p].pc = "loaded"]
  /\ UNCHANGED <<file, keys, crashes>>

SaveWrites(p) ==
  /\ node[p].pc = "save"
  /\ file' = [file EXCEPT ![p] = node[p].id]
  /\ node' = [node EXCEPT ![p].pc = "loaded"]
  /\ UNCHANGED <<keys, crashes>>

-----------------------------------------------------------------------------
(* The transport, and the node on top of it.                               *)

\* GossipContext::build, and GossipRuntimeBuilder::build without a transport.
Build(p) ==
  /\ p \in Apps /\ node[p].pc = "loaded"
  /\ node' = [node EXCEPT ![p].pc = "running", ![p].wire = node[p].id]
  /\ UNCHANGED <<file, keys, crashes>>

\* GossipRuntimeBuilder::build with a transport of the caller's: refused
\* unless an identity came with it and the two agree.
BuildWith(p, identity, wire) ==
  /\ p \in Apps /\ node[p].pc = "loaded" /\ crashes < MaxCrash
  /\ crashes' = crashes + 1
  /\ node' = [node EXCEPT ![p] = IF identity = node[p].id /\ identity = wire
                                 THEN [pc |-> "running", id |-> identity, wire |-> wire]
                                 ELSE Down]
  /\ UNCHANGED <<file, keys>>

\* The coordinator binary: adverts are signed with the identity, and the
\* transport is made with UdpTransportAdapter::new, which takes no key pair.
StartCoordinator(p) ==
  /\ p \in Coordinators /\ node[p].pc = "loaded" /\ keys < MaxKeys
  /\ keys' = Fresh
  /\ node' = [node EXCEPT ![p].pc = "running", ![p].wire = Fresh]
  /\ UNCHANGED <<file, crashes>>

\* The process ends, or dies, wherever it is.
Stop(p) ==
  /\ node[p].pc # "down" /\ crashes < MaxCrash
  /\ crashes' = crashes + 1
  /\ node' = [node EXCEPT ![p] = Down]
  /\ UNCHANGED <<file, keys>>

Next == \E p \in Programs :
  \/ SaveTruncates(p) \/ SaveWrites(p) \/ Build(p) \/ StartCoordinator(p) \/ Stop(p)
  \/ \E readable \in {TRUE} \cup {~ReadFails} :
       load_or_create(p, readable) \/ load_or_create_identity(p, readable)
  \/ \E identity, wire \in {0} \cup 1 .. keys : BuildWith(p, identity, wire)

Spec == Init /\ [][Next]_vars
-----------------------------------------------------------------------------
\* The files and the nodes have the shapes given above.
TypeOK ==
  /\ file \in [Programs -> Keys \cup {Absent, Torn}]
  /\ \A p \in Programs : node[p].pc \in {"down", "create", "save", "loaded", "running"}
                         /\ node[p].id \in 0 .. MaxKeys /\ node[p].wire \in 0 .. MaxKeys

\* A node that runs is the one its file says it is, so a restart brings the
\* same peer back (save_to_keystore before load_or_create returns).
RunsAsStored == \A p \in Programs : node[p].pc = "running" => file[p] = node[p].id

\* The id a runtime signs with is the id its transport answers under, however
\* the builder was called (GossipRuntimeBuilder::build, issue 15).
Coherent == \A p \in Apps : node[p].pc = "running" => node[p].wire = node[p].id

\* An identity that was stored is never replaced: a new one is made only when
\* none is found (the documented behaviour of load_or_create).
IdentityKeptStep ==
  \A p \in Programs : file[p] \in Keys => file'[p] = file[p]
=============================================================================
