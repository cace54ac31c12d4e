------------------------------- MODULE MCCrdt -------------------------------
(***************************************************************************)
(* The replicated data types: the last-writer-wins register (module        *)
(* LwwRegister, extended here), and two instances of the OR-Set with its   *)
(* anti-entropy managers.  A behaviour is about one of them, named by      *)
(* focus.                                                                  *)
(***************************************************************************)
EXTENDS LwwRegister, Integers, FiniteSets, SequencesExt

CONSTANTS A, B, E   \* model values

VARIABLES
  focus,   \* the part of the system that this behaviour is about
  v1, v2, v3, v4, v5, v6, v7   \* its variables

mcvars == <<focus, hash, reg, sent, writes, v1, v2, v3, v4, v5, v6, v7>>

Names == SetToSeq(Replicas)

\* Linear hash functions, which order the clocks in many ways and make some of
\* them collide.
LinearHashes ==
  {[c \in Clocks |-> (a * c[Names[1]] + b * c[Names[2]]) % 11] : a \in 1..10, b \in 1..10}

FirstHash == CHOOSE h \in Hashes : TRUE

\* Two replicas, two calls of add, one task that syncs.
Adds == INSTANCE AntiEntropy WITH
  Replicas <- {A, B}, Managers <- {A}, Elements <- {E}, MaxAdds <- 2,
  Keeps <- {}, Tasks <- 1, Removable <- FALSE, crdt <- v1, peers <- v2,
  live <- v3, task <- v4, past <- v5, issued <- v6, removed <- v7

\* A manager that is started again while its old task still runs, with
\* compaction, and a peer that is removed.
Restart == INSTANCE AntiEntropy WITH
  Replicas <- {A, B}, Managers <- {A}, Elements <- {E}, MaxAdds <- 1,
  Keeps <- {0, 1}, Tasks <- 2, Removable <- TRUE, crdt <- v1, peers <- v2,
  live <- v3, task <- v4, past <- v5, issued <- v6, removed <- v7

MCInit ==
  \/ focus = "register" /\ Init /\ v1 = 0 /\ v2 = 0 /\ v3 = 0 /\ v4 = 0 /\ v5 = 0 /\ v6 = 0 /\ v7 = 0
  \/ focus = "adds" /\ Adds!Init /\ Init /\ hash = FirstHash
  \/ focus = "restart" /\ Restart!Init /\ Init /\ hash = FirstHash

MCNext ==
  \/ focus = "register" /\ Next /\ UNCHANGED <<focus, v1, v2, v3, v4, v5, v6, v7>>
  \/ focus = "adds" /\ Adds!Next /\ UNCHANGED <<focus, hash, reg, sent, writes>>
  \/ focus = "restart" /\ Restart!Next /\ UNCHANGED <<focus, hash, reg, sent, writes>>

MCSpec == MCInit /\ [][MCNext]_mcvars

-----------------------------------------------------------------------------

\* An acknowledged version is a fact: a peer that the manager believes to be
\* at a version knows all that the replica knew then.  With it goes what
\* keeps it so: deltas are complete, sequence numbers are fresh, no item is
\* live and removed at once (AntiEntropyManager::start, OrSet::delta,
\* apply_delta, compact).
SyncInvariant ==
  /\ focus = "adds" => Adds!SyncInvariant
  /\ focus = "restart" => Restart!SyncInvariant
=============================================================================
