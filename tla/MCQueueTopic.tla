---------------------------- MODULE MCQueueTopic ----------------------------
(***************************************************************************)
(* TLC instances of QueueTopic: two pullers compete for the messages of    *)
(* one publisher, a subscriber gets a copy of each.                        *)
(***************************************************************************)
EXTENDS QueueTopic, TLC

CONSTANTS Pullers, Subscribers

MCClients == Pullers \cup Subscribers
MCSockets == {Push, Pub}
MCSocketOf == [c \in MCClients |-> IF c \in Pullers THEN Push ELSE Pub]

\* Pullers are interchangeable in every property of the safety run.
Symmetry == Permutations(Pullers)
=============================================================================
