--------------------------- MODULE MCAllocationRuns ---------------------------
(***************************************************************************)
(* Instances of AllocationRuns for TLC.                                    *)
(***************************************************************************)
EXTENDS AllocationRuns

CONSTANTS s1, s2
===============================================================================
