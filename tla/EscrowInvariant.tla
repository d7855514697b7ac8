-------------------------- MODULE EscrowInvariant --------------------------
(***************************************************************************)
(* The inductive invariant behind the safety of Escrow.                    *)
(*                                                                         *)
(* Nothing in the database is stable: any status may be overwritten by a   *)
(* call that checked it long ago.  What Stripe has done is: a charge, a    *)
(* transfer or a refund never becomes undone as a fact, only followed by   *)
(* another.  So the invariant says, for each place a call can stop, which  *)
(* Stripe facts the call relies on, and those facts cannot go away while   *)
(* it waits.                                                               *)
(***************************************************************************)
EXTENDS Escrow

FundSteps     == {"fund_check", "fund_stripe", "fund_insert", "fund_mark"}
TransferSteps == {"transfer_check", "transfer_stripe", "transfer_commit"}
RefundSteps   == {"refund_pick", "refund_stripe", "refund_mark", "refund_close"}

EventOf(c) == [type |-> call[c].op, key |-> call[c].key]

\* What a call may rely on at the await it is in.
RequestFacts(c) ==
  /\ call[c].step \in FundSteps => call[c].key \in FundKeys
  /\ call[c].step \in {"fund_insert", "fund_mark"} => intent[call[c].key] # "none"
  /\ call[c].step = "submit_write" => Charged
  /\ call[c].step \in TransferSteps =>
       /\ call[c].key \in TransferKeys
       /\ call[c].op = "resolve_release" => call[c].dispute \in Disputes
  /\ call[c].step = "transfer_commit" => transfer[call[c].key] # "none"
  /\ call[c].step = "resolve_close" => Transferred /\ call[c].dispute \in Disputes
  /\ call[c].step \in {"dispute_insert", "dispute_mark"} => call[c].dispute \in Disputes
  /\ call[c].step \in RefundSteps =>
       call[c].key \in RefundKeys /\ call[c].dispute \in Disputes
  /\ call[c].step = "refund_stripe" => call[c].intent \in FundKeys
  /\ call[c].step \in {"refund_mark", "refund_close"} => Refunded

HookFacts(c) ==
  /\ call[c].step \in HookSteps => EventOf(c) \in Emitted
  /\ call[c].step \in {"mark_succeeded", "mark_funded"} =>
       call[c].op = "payment_intent.succeeded"
  /\ call[c].step = "mark_failed" => call[c].op = "payment_intent.payment_failed"
  /\ call[c].step = "mark_refunded" => call[c].op = "charge.refunded"
  /\ call[c].step \in {"find_milestone", "backfill", "confirm_payout"} =>
       call[c].op = "transfer.created"
  /\ call[c].step \in {"fail_payout", "reopen"} => call[c].op = "transfer.reversed"

CallsRelyOnFacts == \A c \in Calls : RequestFacts(c) /\ HookFacts(c)

\* Stripe's objects fit together.
StripeConsistent ==
  /\ \A k \in FundKeys : reply[k] = "succeeded" => intent[k] = "succeeded"
  /\ \A k \in declined : intent[k] # "none"
  /\ \A r \in RefundKeys : refund[r] # NoId => intent[refund[r]] = "succeeded"

\* The creation logs list rows that exist.
LogsListRows ==
  /\ \A i \in DOMAIN paymentLog : payment[paymentLog[i]] # "none"
  /\ \A i \in DOMAIN payoutLog : payout[payoutLog[i]] # "none"

IInv ==
  /\ TypeOK
  /\ StripeConsistent
  /\ LogsListRows
  /\ CallsRelyOnFacts
  /\ StatusBackedByStripe
  /\ RowsBackedByStripe
  /\ EventHandledOnce
  /\ RowsAreUnique

-----------------------------------------------------------------------------
(* Until a call overtakes another, or dies halfway, a check holds until the *)
(* write that follows it, and between calls the rows are settled.           *)

\* The awaits of a call that has written.
Underway ==
  {"fund_insert", "fund_mark", "transfer_commit", "dispute_mark", "refund_mark", "refund_close"}
  \cup HookSteps

\* Of the calls in flight one has written at most: the others still read.
OneIsUnderway ==
  \A c, d \in Calls : call[c].step \in Underway /\ call[d].step \in Underway => c = d

Standing == {k \in TransferKeys : payout[k] \in {"IN_TRANSIT", "PAID"}}

RequestHolds(c) ==
  /\ call[c].step \in FundSteps => status = "PENDING"
  /\ call[c].step = "submit_write" => status = "FUNDED"
  /\ call[c].step \in TransferSteps =>
       IF call[c].op = "resolve_release"
       THEN status = "DISPUTED" /\ dispute[call[c].dispute] = "OPEN"
       ELSE status = "SUBMITTED"
  /\ call[c].step = "resolve_close" =>
       call[c].op = "resolve_release" /\ status \in {"RELEASED", "DISPUTED"}
  /\ call[c].step \in {"dispute_insert", "dispute_mark"} => status \in {"PENDING", "FUNDED", "SUBMITTED"}
  /\ call[c].step \in {"refund_pick", "refund_stripe", "refund_mark"} =>
       status = "DISPUTED" /\ dispute[call[c].dispute] = "OPEN"
  /\ call[c].step = "refund_close" => status = "REFUNDED"

\* A transfer has its row before Stripe tells of it, so there is nothing to backfill,
\* and its reversal is handled once.
HookHolds(c) ==
  /\ call[c].step \in {"mark_succeeded", "fail_payout"} => call[c].seen = status
  /\ call[c].step = "mark_funded" => status = "PENDING"
  /\ call[c].step \notin {"find_milestone", "backfill"}
  /\ call[c].step = "confirm_payout" => payout[call[c].key] = "IN_TRANSIT"
  /\ call[c].step \in {"hook_read", "fail_payout"} /\ call[c].op = "transfer.reversed" =>
       payout[call[c].key] # "FAILED"
  /\ call[c].step = "reopen" => status = "RELEASED" /\ Standing = {}

\* A transfer has its row but between the two, RELEASED is one payout that stands but
\* while it is being reopened, and a failed payout was told of.
PayoutsStand ==
  /\ \A k \in TransferKeys :
       transfer[k] # "none" /\ payout[k] = "none" =>
         \E c \in Calls : At(c, "transfer_commit") /\ call[c].key = k
  /\ \A j, k \in Standing : j = k
  /\ Standing # {} => status = "RELEASED"
  /\ status = "RELEASED" /\ Standing = {} => \E c \in Calls : At(c, "reopen")
  /\ \A k \in TransferKeys :
       payout[k] = "FAILED" => webhookRow[[type |-> "transfer.reversed", key |-> k]] # "absent"

RefundsMark == Refunded => status = "REFUNDED" \/ \E c \in Calls : At(c, "refund_mark")

\* One dispute is open at a time, and the milestone is DISPUTED but around its writes.
DisputesMark ==
  /\ \A d, e \in Disputes : dispute[d] = "OPEN" /\ dispute[e] = "OPEN" => d = e
  /\ \A d \in Disputes : dispute[d] = "OPEN" =>
       \/ status = "DISPUTED"
       \/ \E c \in Calls : /\ call[c].dispute = d
                           /\ call[c].step \in {"dispute_mark", "refund_close", "resolve_close"}

ChecksHold ==
  /\ OneIsUnderway
  /\ \A c \in Calls : RequestHolds(c) /\ HookHolds(c)
  /\ PayoutsStand
  /\ RefundsMark
  /\ DisputesMark

SInv == IInv /\ (calm => ChecksHold)
=============================================================================
