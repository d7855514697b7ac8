----------------------------- MODULE MCMessaging -----------------------------
(***************************************************************************)
(* Instances of Messaging for TLC.                                         *)
(***************************************************************************)
EXTENDS MessagingInvariant, TLC

Symmetry == Permutations(Calls) \cup Permutations(Threads)
===============================================================================
