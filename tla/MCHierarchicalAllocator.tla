----------------------- MODULE MCHierarchicalAllocator -----------------------
(***************************************************************************)
(* Instances of HierarchicalAllocator for TLC.                             *)
(***************************************************************************)
EXTENDS HierarchicalAllocator, TLC

CONSTANTS f1, f2, r1, r2, s1, s2

\* Agents may differ in size, so they are no symmetry set.
Symmetry == Permutations(Framework) \cup Permutations(Role)

OneUnit == [s \in Slave |-> 1]

\* Two units can be offered, accepted and given back in parts.
TwoAndOne == [s \in Slave |-> IF s = s1 THEN 2 ELSE 1]
=============================================================================
