------------------------------ MODULE MCMemory ------------------------------
(* Instances of the two memory managers and of the checkers that guard     *)
(* their use; a behaviour uses one of the three.                           *)
EXTENDS Region, GcRegion, OwnershipCheck, TLC

VARIABLE part

mcVars == <<rVars, gcVars, oVars, part>>

(* malloc prefers no address; references are alike, and so are regions.    *)
MemorySymmetry ==
  Permutations(Addrs) \cup Permutations(Refs) \cup Permutations(Regions)

MCBatches == {<<8>>, <<8, 16>>}

Init ==
  /\ RegionInit /\ GcInit /\ OInit
  /\ part \in IF strategy = "exact" THEN {"region", "gc", "checkers"} ELSE {"region"}
Next ==
  /\ UNCHANGED part
  /\ \/ part = "region" /\ RegionNext /\ UNCHANGED <<gcVars, oVars>>
     \/ part = "gc" /\ GcNext /\ UNCHANGED <<rVars, oVars>>
     \/ part = "checkers" /\ ONext /\ UNCHANGED <<rVars, gcVars>>
Spec == Init /\ [][Next]_mcVars
=============================================================================
