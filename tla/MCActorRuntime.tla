--------------------------- MODULE MCActorRuntime ---------------------------
(* Instances of ActorRuntime for TLC: actors are numbered in the order of   *)
(* their group's children list, threads are interchangeable.                *)
EXTENDS ActorProps, TLC

ListOrder == [a \in Actors |-> a]

ThreadSymmetry == Permutations(Workers) \cup Permutations(Clients)
=============================================================================
