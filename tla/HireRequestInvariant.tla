------------------------- MODULE HireRequestInvariant -------------------------
(***************************************************************************)
(* The inductive invariant behind DealNeedsBothParties.  A status that was *)
(* once right may be written again long after, so the claim is made of     *)
(* every status that some call is about to write as well.                  *)
(***************************************************************************)
EXTENDS HireRequest

\* The actors in H are enough to have brought the request to s.
Backed(s, H) ==
  /\ s \in {"PROPOSAL_SENT", "NEGOTIATING"} => H \cap {"developer", "admin"} # {}
  /\ s = "ACCEPTED" => "admin" \in H \/ {"client", "developer"} \subseteq H

\* A call that waits to write is going to leave a status that is backed.
WritesAreBacked ==
  \A c \in Calls :
    /\ At(c, "write_status") => Backed(call[c].to, hands \cup {call[c].actor})
    /\ At(c, "write_proposal") => call[c].actor \in {"developer", "admin"}

HInv ==
  /\ TypeOK
  /\ Backed(status, hands)
  /\ WritesAreBacked

\* What a call has checked still holds when it writes, unless it was overtaken.
ChecksStillHold ==
  \A c \in Calls \ overtaken :
    /\ At(c, "write_status") => Allowed(call[c].actor, call[c].to)
    /\ At(c, "write_proposal") => status \notin Closed

CheckedHInv == HInv /\ ChecksStillHold

-----------------------------------------------------------------------------
(* The budget. *)

Existing == {m \in Milestones : amount[m] # NoAmount}

\* A milestone on its way into the table is not there, and no other call brings
\* it.  Unless its call was overtaken, it is held to the cap that there is now
\* and, once the others have been summed, fits in.
Inserting(c) == At(c, "sum") \/ At(c, "insert")

InsertsAreNew ==
  \A c \in Calls : Inserting(c) =>
    /\ call[c].milestone \in Milestones \ (Existing \cup {NoAmount})
    /\ call[c].amount \in Amounts
    /\ \A d \in Calls \ {c} : call[d].milestone # call[c].milestone

InsertsFit ==
  \A c \in Calls \ overtaken : Inserting(c) =>
    /\ call[c].cap = Cap
    /\ At(c, "insert") /\ Cap # NoAmount => Committed + call[c].amount <= Cap

BudgetInv == IsFiniteSet(Existing) /\ refunded \subseteq Existing /\ InsertsAreNew /\ InsertsFit
==============================================================================
