---------------------------- MODULE MCAccountPages ----------------------------
(***************************************************************************)
(* Instances of AccountPages, with AuthSession in it, for TLC.             *)
(***************************************************************************)
EXTENDS AccountPages, AuthSessionInvariant, TLC

CONSTANTS p1, p2, plain

\* The calls alone; somebody who signs up; a member in two tabs; a member, or
\* somebody who signs up, and the admin.
Mix(from, direct, moves_, presses_) == [from |-> from, direct |-> direct, moves |-> moves_, presses |-> presses_]
MCMixes ==
  {Mix("nobody", TRUE, 4, 0), Mix("member", TRUE, 4, 0),
   Mix("nobody", FALSE, 5, 0), Mix("member", FALSE, 5, 0),
   Mix("nobody", FALSE, 2, 2), Mix("member", FALSE, 1, 2)}

Symmetry == Permutations(Calls) \cup Permutations({p1, p2})
===============================================================================
