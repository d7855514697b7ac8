----------------------------- MODULE HireRequest -----------------------------
(***************************************************************************)
(* One hire request between a client and a developer: the status machine   *)
(* and proposals of HireRequestsService, and the milestones that           *)
(* MilestonesService.createForHireRequest commits against its budget.      *)
(*                                                                         *)
(* Every operation reads the row, checks what it read, and writes in a     *)
(* later await without looking again, so the check and the write are two   *)
(* actions and calls may overlap in between.                               *)
(***************************************************************************)
EXTENDS Naturals, FiniteSetsExt

CONSTANTS
  Calls,       \* slots for HTTP requests in flight
  Amounts,     \* amounts that proposals, budgets and milestones may have
  Milestones,  \* primary keys of the milestone rows that may be created
  NoAmount     \* a null column, or an amount left out of the request

ASSUME AmountAssumption == Amounts \subseteq Nat /\ NoAmount \notin Amounts

Status   == {"PENDING", "REVIEWING", "PROPOSAL_SENT", "NEGOTIATING",
             "ACCEPTED", "REJECTED", "CANCELLED"}
Closed   == {"ACCEPTED", "REJECTED", "CANCELLED"}
Eligible == {"ACCEPTED", "PROPOSAL_SENT", "NEGOTIATING"}
Actors   == {"client", "developer", "admin"}

VARIABLES
  status,    \* HireRequest.status
  budget,    \* HireRequest.budgetAmount
  proposal,  \* HireRequest.proposalAmount
  amount,    \* Milestone.amount, or NoAmount while the row is not there
  refunded,  \* milestones whose status is REFUNDED
  hands,     \* history: the actors who have written the request's row
  call,      \* the program counter and local variables of each call
  overtaken  \* history: the calls between whose check and write another call wrote
             \* what they had checked

request == <<status, budget, proposal, hands>>
rows    == <<amount, refunded>>
vars    == <<request, rows, call, overtaken>>

Call == [step      : {"idle", "write_status", "write_proposal", "sum", "insert"},
         actor     : Actors,
         to        : Status,
         amount    : Amounts \cup {NoAmount},
         isNull    : BOOLEAN,               \* the amount was sent as null
         cap       : Amounts \cup {NoAmount},
         milestone : Milestones \cup {NoAmount}]

Idle == [to |-> "PENDING", actor |-> "admin", amount |-> NoAmount, step |-> "idle",
         isNull |-> FALSE, cap |-> NoAmount, milestone |-> NoAmount]

TypeOK ==
  /\ status \in Status
  /\ budget \in Amounts \cup {NoAmount}
  /\ proposal \in Amounts \cup {NoAmount}
  /\ amount \in [Milestones -> Amounts \cup {NoAmount}]
  /\ refunded \in SUBSET Milestones
  /\ hands \in SUBSET Actors
  /\ call \in [Calls -> Call]
  /\ overtaken \in SUBSET Calls

\* create: the client has asked, with or without a budget.
Init ==
  /\ status = "PENDING"
  /\ budget \in Amounts \cup {NoAmount}
  /\ proposal = NoAmount
  /\ amount = [m \in Milestones |-> NoAmount]
  /\ refunded = {}
  /\ hands = {}
  /\ call = [c \in Calls |-> Idle]
  /\ overtaken = {}

At(c, step) == call[c].step = step
Return(c)   == call' = [call EXCEPT ![c] = Idle]
Begin(c, r) == call[c] = Idle /\ call' = [call EXCEPT ![c] = r] /\ UNCHANGED overtaken

\* c writes what the other calls at these steps have checked already.
Overtakes(c, steps) ==
  overtaken' = {d \in Calls \ {c} : d \in overtaken \/ call[d].step \in steps}

-----------------------------------------------------------------------------
(* updateStatus *)

\* Mutant: the client accepts a request that nobody has answered.
ClientAcceptsPending ==
  {<<"PENDING", "CANCELLED">>, <<"PENDING", "REJECTED">>, <<"PENDING", "ACCEPTED">>}

ClientTransitions ==
  {<<"PENDING", "CANCELLED">>, <<"PENDING", "REJECTED">>,
   <<"REVIEWING", "CANCELLED">>,
   <<"PROPOSAL_SENT", "NEGOTIATING">>, <<"PROPOSAL_SENT", "ACCEPTED">>,
   <<"PROPOSAL_SENT", "REJECTED">>, <<"PROPOSAL_SENT", "CANCELLED">>,
   <<"NEGOTIATING", "PROPOSAL_SENT">>, <<"NEGOTIATING", "ACCEPTED">>,
   <<"NEGOTIATING", "REJECTED">>, <<"NEGOTIATING", "CANCELLED">>}

DeveloperTransitions ==
  {<<"PENDING", "REVIEWING">>, <<"PENDING", "REJECTED">>,
   <<"REVIEWING", "PROPOSAL_SENT">>, <<"REVIEWING", "NEGOTIATING">>,
   <<"REVIEWING", "REJECTED">>,
   <<"PROPOSAL_SENT", "NEGOTIATING">>, <<"PROPOSAL_SENT", "REJECTED">>,
   <<"NEGOTIATING", "PROPOSAL_SENT">>, <<"NEGOTIATING", "REJECTED">>}

\* assertStatusChangeAllowed; an admin is not asked.
Allowed(actor, to) ==
  \/ actor = "admin"
  \/ status = to
  \/ actor = "client" /\ <<status, to>> \in ClientTransitions
  \/ actor = "developer" /\ <<status, to>> \in DeveloperTransitions

UpdateStatus(c, actor, to) ==
  /\ Allowed(actor, to)
  /\ Begin(c, [Idle EXCEPT !.step = "write_status", !.actor = actor, !.to = to])
  /\ UNCHANGED <<request, rows>>

WriteStatus(c) ==
  /\ At(c, "write_status")
  /\ status' = call[c].to
  /\ hands' = hands \cup {call[c].actor}
  /\ Return(c) /\ Overtakes(c, {"write_status", "write_proposal"})
  /\ UNCHANGED <<budget, proposal, rows>>

-----------------------------------------------------------------------------
(* submitProposal *)

\* Mutant: a closed request takes another proposal.
SubmitProposalWhenClosed(c, actor, n, isNull) ==
  /\ actor # "client"
  /\ Begin(c, [Idle EXCEPT !.step = "write_proposal", !.actor = actor, !.amount = n,
                           !.isNull = isNull])
  /\ UNCHANGED <<request, rows>>

SubmitProposal(c, actor, n, isNull) ==
  /\ actor # "client"
  /\ status \notin Closed
  /\ Begin(c, [Idle EXCEPT !.step = "write_proposal", !.actor = actor, !.amount = n,
                           !.isNull = isNull])
  /\ UNCHANGED <<request, rows>>

\* An amount left out keeps the one before, an amount sent as null clears it:
\* IsOptional lets both through.
Proposed(r) == CASE r.isNull            -> NoAmount
                 [] r.amount = NoAmount -> proposal
                 [] OTHER               -> r.amount

WriteProposal(c) ==
  /\ At(c, "write_proposal")
  /\ status' = "PROPOSAL_SENT"
  /\ proposal' = Proposed(call[c])
  /\ hands' = hands \cup {call[c].actor}
  /\ Return(c) /\ Overtakes(c, {"write_status", "write_proposal", "sum", "insert"})
  /\ UNCHANGED <<budget, rows>>

-----------------------------------------------------------------------------
(* createForHireRequest *)

Cap       == IF proposal # NoAmount THEN proposal ELSE budget
Standing  == {m \in Milestones : amount[m] # NoAmount} \ refunded
Committed == MapThenSumSet(LAMBDA m : amount[m], Standing)

\* The request's row is read once: its status is checked and its cap kept.
\* A row is set aside when the call starts, so Milestones bounds the calls too.
CreateMilestone(c, actor, m, n) ==
  /\ actor # "developer"
  /\ status \in Eligible
  /\ amount[m] = NoAmount /\ \A other \in Calls : call[other].milestone # m
  /\ Begin(c, [Idle EXCEPT !.step = IF Cap = NoAmount THEN "insert" ELSE "sum",
                           !.actor = actor, !.milestone = m, !.amount = n, !.cap = Cap])
  /\ UNCHANGED <<request, rows>>

\* Mutant: the check leaves the new milestone out of the sum.
SumWithoutNew(c) ==
  /\ At(c, "sum")
  /\ IF Committed > call[c].cap
     THEN Return(c) /\ Overtakes(c, {})
     ELSE call' = [call EXCEPT ![c].step = "insert"] /\ UNCHANGED overtaken
  /\ UNCHANGED <<request, rows>>

\* The aggregate over the milestones that are not REFUNDED, then the check.
Sum(c) ==
  /\ At(c, "sum")
  /\ IF Committed + call[c].amount > call[c].cap
     THEN Return(c) /\ Overtakes(c, {})
     ELSE call' = [call EXCEPT ![c].step = "insert"] /\ UNCHANGED overtaken
  /\ UNCHANGED <<request, rows>>

Insert(c) ==
  /\ At(c, "insert")
  /\ amount' = [amount EXCEPT ![call[c].milestone] = call[c].amount]
  /\ Return(c) /\ Overtakes(c, {"insert"})
  /\ UNCHANGED <<request, refunded>>

\* resolveDispute refunds a milestone, which frees its share of the budget.
Refund(m) ==
  /\ amount[m] # NoAmount
  /\ refunded' = refunded \cup {m}
  /\ UNCHANGED <<request, amount, call, overtaken>>

-----------------------------------------------------------------------------
Next ==
  \/ \E c \in Calls, a \in Actors, to \in Status : UpdateStatus(c, a, to)
  \/ \E c \in Calls, a \in Actors, n \in Amounts \cup {NoAmount}, z \in BOOLEAN :
       SubmitProposal(c, a, n, z)
  \/ \E c \in Calls, a \in Actors, m \in Milestones, n \in Amounts : CreateMilestone(c, a, m, n)
  \/ \E c \in Calls : WriteStatus(c) \/ WriteProposal(c) \/ Sum(c) \/ Insert(c)
  \/ \E m \in Milestones : Refund(m)

Spec == Init /\ [][Next]_vars

-----------------------------------------------------------------------------
(* What holds of every interleaving. *)

\* Nobody is hired alone: unless an admin had a hand in it, an ACCEPTED
\* request was written by the developer and by the client, however their
\* calls overlapped.
DealNeedsBothParties ==
  status = "ACCEPTED" => "admin" \in hands \/ {"client", "developer"} \subseteq hands

-----------------------------------------------------------------------------
(* What the checks achieve, but for a call that was overtaken: nothing     *)
(* guards the time between the check and the write.                        *)

\* c writes the request's row or inserts its milestone.
Writes(c) ==
  call[c].step \in {"write_status", "write_proposal", "insert"} /\ Return(c)

\* "Cannot change status of a closed hire request", nor its terms: what was
\* accepted stays accepted at that amount until an admin steps in, or a call
\* writes that was let through before the request was closed.
ClosedDealIsFrozen ==
  [][(status \in Closed) =>
       \/ UNCHANGED <<status, proposal>>
       \/ \E c \in Calls : Writes(c) /\ (call[c].actor = "admin" \/ c \in overtaken)]_vars

\* "rejects a milestone that would push the committed total past the proposal
\* amount": a new milestone fits the agreed cap together with all the others,
\* unless the cap changed after it was read or another came after the sum.
MilestoneFitsBudget ==
  [][amount' # amount /\ Cap' # NoAmount =>
       \/ Committed' <= Cap'
       \/ \E c \in overtaken : Writes(c)]_vars
==============================================================================
