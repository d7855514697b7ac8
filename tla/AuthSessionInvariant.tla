------------------------ MODULE AuthSessionInvariant ------------------------
(***************************************************************************)
(* The inductive invariant behind the two safety properties.  What is      *)
(* claimed of the session is claimed of every call that may still write    *)
(* it: a call that is signing in is itself what a revocation races with.   *)
(***************************************************************************)
EXTENDS AuthSession

\* The awaits at which the caller's address has been vouched for.
Vouching == {"revoke", "sign", "upsert", "reply"}

VouchedCalls ==
  /\ \A c \in Calls : call[c].step \in Vouching => vouched
  /\ account = "verified" => vouched
  /\ held # {} => vouched

\* What is proved at era p can have missed only raced revocations.
MissedOnlyRaced(p) == \A e \in p + 1 .. era : e \in raced

SignInsMissOnlyRaced ==
  \A c \in Calls : call[c].step \in SigningIn => MissedOnlyRaced(call[c].proof)

AInv ==
  /\ TypeOK
  /\ VouchedCalls
  /\ SignedInMeansVouched
  /\ SignInsMissOnlyRaced
  /\ RevocationMissesOnlySignIns
==============================================================================
