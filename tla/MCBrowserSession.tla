--------------------------- MODULE MCBrowserSession ---------------------------
(***************************************************************************)
(* Instances of BrowserSession for TLC.                                    *)
(***************************************************************************)
EXTENDS BrowserSession, TLC

Symmetry == Permutations(Calls) \cup Permutations(Tabs) \cup Permutations(Users)
===============================================================================
