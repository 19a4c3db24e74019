----------------------- MODULE MCResourceWeightsSorter -----------------------
(***************************************************************************)
(* Instances of ResourceWeightsSorter for TLC.                             *)
(***************************************************************************)
EXTENDS ResourceWeightsSorter

CONSTANT s1
=============================================================================
