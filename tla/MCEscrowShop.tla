----------------------------- MODULE MCEscrowShop -----------------------------
(***************************************************************************)
(* One instance for TLC of the escrow and of the shop.  They share no      *)
(* state, so one of them is at work while the other is as it began.        *)
(***************************************************************************)
EXTENDS EscrowInvariant, MCPlatform

AllSteps == RequestSteps \cup HookSteps

VARIABLE atWork  \* "escrow" or "shop"

ShopRests == PlatformInit /\ tenant = EmptyShop.tenant /\ rows = EmptyShop.rows

PartsInit ==
  \/ atWork = "escrow" /\ Init /\ ShopRests
  \/ atWork = "shop" /\ Init /\ PlatformInit

PartsNext ==
  /\ \/ atWork = "escrow" /\ Next /\ UNCHANGED platformVars
     \/ atWork = "shop" /\ PlatformNext /\ UNCHANGED vars
  /\ UNCHANGED atWork

PartsSpec == PartsInit /\ [][PartsNext]_<<atWork, vars, platformVars>>

\* The call slots are interchangeable, the escrow's and the shop's.
Symmetry == Permutations(Calls) \cup SlotSymmetry
===============================================================================
