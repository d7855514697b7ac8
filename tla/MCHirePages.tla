----------------------------- MODULE MCHirePages -----------------------------
(***************************************************************************)
(* Instances of HirePages, and of the HireRequest under it, for TLC.       *)
(***************************************************************************)
EXTENDS HirePages, TLC

SmallAmounts == 1..2
Symmetry == Permutations(Milestones) \cup Permutations(Calls)
==============================================================================
