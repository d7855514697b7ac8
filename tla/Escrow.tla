------------------------------- MODULE Escrow -------------------------------
(***************************************************************************)
(* The escrow of one milestone: MilestonesService (fund, submit, release,  *)
(* dispute, resolveDispute and the apply... webhook handlers),             *)
(* PaymentsService.handleStripeWebhook and the tables they share, against  *)
(* the part of Stripe they call.                                           *)
(*                                                                         *)
(* The service takes no lock.  A call reads the milestone, checks its      *)
(* status, and writes it several awaits later, so every await on Postgres  *)
(* or Stripe is one action here and calls interleave between awaits.  Two  *)
(* places are atomic in the code and here: the $transaction that writes a  *)
(* payout together with the milestone, and the unique indexes.             *)
(*                                                                         *)
(* Milestones do not touch each other's rows, so one milestone is enough.  *)
(* A Stripe object is identified by the idempotency key that created it:   *)
(* Stripe answers a repeated key with the object of the first call.        *)
(***************************************************************************)
EXTENDS Naturals, Sequences

CONSTANTS
  Calls,         \* slots for HTTP requests and webhook deliveries in flight
  FundKeys,      \* x-idempotency-key values clients send to fund
  TransferKeys,  \* keys sent to release, and to resolve with RESOLVED_RELEASE
  RefundKeys,    \* keys sent to resolve with RESOLVED_REFUND
  Disputes,      \* primary keys of the dispute rows that may be created
  FailingSteps,  \* awaits at which a call may die: a crash, or a thrown error
  NoId           \* no key, no dispute

Keys == FundKeys \cup TransferKeys \cup RefundKeys

ASSUME NoIdAssumption == NoId \notin Keys \cup Disputes

MilestoneStatus ==
  {"PENDING", "FUNDED", "SUBMITTED", "RELEASED", "DISPUTED", "REFUNDED"}

RequestSteps ==
  {"fund_check", "fund_stripe", "fund_insert", "fund_mark", "submit_write",
   "transfer_check", "transfer_stripe", "transfer_commit", "resolve_close",
   "dispute_insert", "dispute_mark",
   "refund_pick", "refund_stripe", "refund_mark", "refund_close"}

HookSteps ==
  {"hook_read", "mark_succeeded", "mark_funded", "mark_failed", "mark_refunded",
   "find_milestone", "backfill", "confirm_payout", "fail_payout", "reopen", "hook_close"}

ASSUME FailingAssumption == FailingSteps \subseteq RequestSteps \cup HookSteps

Requests   == {"fund", "submit", "release", "dispute", "resolve_release", "resolve_refund"}
EventTypes == {"payment_intent.succeeded", "payment_intent.payment_failed",
               "charge.refunded", "transfer.created", "transfer.reversed"}

\* charge.refunded names the intent that was charged, not the refund.
Event == [type : {"payment_intent.succeeded", "payment_intent.payment_failed",
                  "charge.refunded"}, key : FundKeys]
         \cup [type : {"transfer.created", "transfer.reversed"}, key : TransferKeys]

VARIABLES
  \* Postgres
  status,      \* Milestone.status
  payment,     \* Payment rows by the key of their intent: status, or "none"
  paymentLog,  \* those keys in creation order
  payout,      \* Payout rows by the key of their transfer: status, or "none"
  payoutLog,   \* those keys in creation order
  backfilled,  \* payout rows whose providerPayload holds no idempotencyKey
  dispute,     \* Dispute rows: status, or "none"
  webhookRow,  \* StripeWebhookEvent: absent, recorded, or processed (processedAt)
  \* Stripe
  intent,      \* PaymentIntents: status, or "none"
  reply,       \* the status Stripe answered when the intent was created
  declined,    \* intents with a payment_failed event
  transfer,    \* Transfers: "live", "reversed", or "none"
  refund,      \* Refunds: the intent they give back, or NoId
  \* the server process
  call,        \* the program counter and local variables of each call
  calm         \* history: no call has overtaken another, or died halfway

db     == <<status, payment, paymentLog, payout, payoutLog, backfilled, dispute, webhookRow>>
stripe == <<intent, reply, declined, transfer, refund>>
vars   == <<db, stripe, call, calm>>

Call == [step    : {"idle"} \cup RequestSteps \cup HookSteps,
         op      : {"none"} \cup Requests \cup EventTypes,
         key     : Keys \cup {NoId},
         dispute : Disputes \cup {NoId},
         intent  : FundKeys \cup {NoId},
         seen    : MilestoneStatus \cup {"none"}]

Idle == [op |-> "none", key |-> NoId, step |-> "idle", intent |-> NoId,
         dispute |-> NoId, seen |-> "none"]

TypeOK ==
  /\ status \in MilestoneStatus
  /\ payment \in [FundKeys -> {"none", "PROCESSING", "SUCCEEDED", "FAILED", "REFUNDED"}]
  /\ paymentLog \in Seq(FundKeys)
  /\ payout \in [TransferKeys -> {"none", "IN_TRANSIT", "PAID", "FAILED"}]
  /\ payoutLog \in Seq(TransferKeys)
  /\ backfilled \in SUBSET TransferKeys
  /\ dispute \in [Disputes -> {"none", "OPEN", "RESOLVED_RELEASE", "RESOLVED_REFUND"}]
  /\ webhookRow \in [Event -> {"absent", "recorded", "processed"}]
  /\ intent \in [FundKeys -> {"none", "processing", "succeeded", "failed"}]
  /\ reply \in [FundKeys -> {"none", "processing", "succeeded"}]
  /\ declined \in SUBSET FundKeys
  /\ transfer \in [TransferKeys -> {"none", "live", "reversed"}]
  /\ refund \in [RefundKeys -> FundKeys \cup {NoId}]
  /\ call \in [Calls -> Call]
  /\ calm \in BOOLEAN

Init ==
  /\ status = "PENDING"
  /\ payment = [k \in FundKeys |-> "none"]
  /\ paymentLog = <<>>
  /\ payout = [k \in TransferKeys |-> "none"]
  /\ payoutLog = <<>>
  /\ backfilled = {}
  /\ dispute = [d \in Disputes |-> "none"]
  /\ webhookRow = [e \in Event |-> "absent"]
  /\ intent = [k \in FundKeys |-> "none"]
  /\ reply = [k \in FundKeys |-> "none"]
  /\ declined = {}
  /\ transfer = [k \in TransferKeys |-> "none"]
  /\ refund = [k \in RefundKeys |-> NoId]
  /\ call = [c \in Calls |-> Idle]
  /\ calm = TRUE

-----------------------------------------------------------------------------
(* Control of a call. *)

At(c, step)    == call[c].step = step
Goto(c, step)  == call' = [call EXCEPT ![c].step = step]
Return(c)      == call' = [call EXCEPT ![c] = Idle]

Begin(c, step, op, key, row) ==
  /\ call[c] = Idle
  /\ call' = [call EXCEPT ![c] = [op |-> op, key |-> key, step |-> step, intent |-> NoId,
                                  dispute |-> row, seen |-> "none"]]

\* k is the newest of the rows in S: orderBy createdAt desc, take the first.
Newest(k, S, log) ==
  /\ k \in S
  /\ \E i \in DOMAIN log : log[i] = k /\ \A j \in DOMAIN log : j > i => log[j] \notin S

-----------------------------------------------------------------------------
(* fund *)

\* getMilestoneOrThrow, then the status check.
Fund(c, k) ==
  /\ status = "PENDING"
  /\ Begin(c, "fund_check", "fund", k, NoId)
  /\ UNCHANGED <<db, stripe>>

\* An earlier payment row with this key is returned as it is.
FundCheck(c) ==
  /\ At(c, "fund_check")
  /\ IF payment[call[c].key] # "none" THEN Return(c) ELSE Goto(c, "fund_stripe")
  /\ UNCHANGED <<db, stripe>>

\* paymentIntents.create: confirmed at once with a payment method, otherwise
\* left for the client to confirm.  A known key replays the first answer.
FundStripe(c) ==
  LET k == call[c].key IN
  /\ At(c, "fund_stripe")
  /\ \/ /\ intent[k] = "none"
        /\ \E s \in {"processing", "succeeded"} :
             /\ intent' = [intent EXCEPT ![k] = s]
             /\ reply' = [reply EXCEPT ![k] = s]
     \/ intent[k] # "none" /\ UNCHANGED <<intent, reply>>
  /\ Goto(c, "fund_insert")
  /\ UNCHANGED <<db, declined, transfer, refund>>

\* Mutant: every new payment row counts as SUCCEEDED.
FundInsertOptimistic(c) ==
  LET k == call[c].key IN
  /\ At(c, "fund_insert")
  /\ \/ payment[k] # "none" /\ Return(c) /\ UNCHANGED <<payment, paymentLog>>
     \/ /\ payment[k] = "none"
        /\ payment' = [payment EXCEPT ![k] = "SUCCEEDED"]
        /\ paymentLog' = Append(paymentLog, k)
        /\ Goto(c, "fund_mark")
  /\ UNCHANGED <<status, payout, payoutLog, backfilled, dispute, webhookRow, stripe>>

\* payment.create; stripePaymentIntentId is unique, so a second insert throws.
FundInsert(c) ==
  LET k == call[c].key IN
  /\ At(c, "fund_insert")
  /\ \/ payment[k] # "none" /\ Return(c) /\ UNCHANGED <<payment, paymentLog>>
     \/ /\ payment[k] = "none"
        /\ payment' = [payment EXCEPT ![k] = IF reply[k] = "succeeded" THEN "SUCCEEDED"
                                                                       ELSE "PROCESSING"]
        /\ paymentLog' = Append(paymentLog, k)
        /\ Goto(c, "fund_mark")
  /\ UNCHANGED <<status, payout, payoutLog, backfilled, dispute, webhookRow, stripe>>

\* Mutant: the milestone is marked FUNDED whatever Stripe answered.
FundMarkAlwaysFunded(c) ==
  /\ At(c, "fund_mark")
  /\ status' = "FUNDED"
  /\ Return(c)
  /\ UNCHANGED <<payment, paymentLog, payout, payoutLog, backfilled, dispute, webhookRow, stripe>>

\* milestone.update with what this call knows: FUNDED, or PENDING again.
FundMark(c) ==
  /\ At(c, "fund_mark")
  /\ status' = IF reply[call[c].key] = "succeeded" THEN "FUNDED" ELSE "PENDING"
  /\ Return(c)
  /\ UNCHANGED <<payment, paymentLog, payout, payoutLog, backfilled, dispute, webhookRow, stripe>>

-----------------------------------------------------------------------------
(* submit *)

Submit(c) ==
  /\ status = "FUNDED"
  /\ Begin(c, "submit_write", "submit", NoId, NoId)
  /\ UNCHANGED <<db, stripe>>

SubmitWrite(c) ==
  /\ At(c, "submit_write")
  /\ status' = "SUBMITTED"
  /\ Return(c)
  /\ UNCHANGED <<payment, paymentLog, payout, payoutLog, backfilled, dispute, webhookRow, stripe>>

-----------------------------------------------------------------------------
(* release, and createPayoutTransfer which resolveDispute shares *)

\* Mutant: a milestone that is already RELEASED may be released again.
ReleaseTwice(c, k) ==
  /\ status \in {"SUBMITTED", "RELEASED"}
  /\ Begin(c, "transfer_check", "release", k, NoId)
  /\ UNCHANGED <<db, stripe>>

\* Mutant: the dispute does not stop the client from releasing.
ReleaseDisputed(c, k) ==
  /\ status \in {"SUBMITTED", "DISPUTED"}
  /\ Begin(c, "transfer_check", "release", k, NoId)
  /\ UNCHANGED <<db, stripe>>

Release(c, k) ==
  /\ status = "SUBMITTED"
  /\ Begin(c, "transfer_check", "release", k, NoId)
  /\ UNCHANGED <<db, stripe>>

\* What follows createPayoutTransfer: release answers, resolveDispute goes on.
AfterTransfer(c) ==
  IF call[c].op = "resolve_release" THEN Goto(c, "resolve_close") ELSE Return(c)

\* The newest payout carries this key: answer without a transfer.  Otherwise
\* the developer's account is looked up, and without one the call throws.
TransferCheck(c) ==
  /\ At(c, "transfer_check")
  /\ IF Newest(call[c].key, TransferKeys, payoutLog) /\ call[c].key \notin backfilled
     THEN AfterTransfer(c)
     ELSE Goto(c, "transfer_stripe") \/ Return(c)
  /\ UNCHANGED <<db, stripe>>

\* transfers.create; a known key replays the first answer.
TransferStripe(c) ==
  LET k == call[c].key IN
  /\ At(c, "transfer_stripe")
  /\ transfer' = [transfer EXCEPT ![k] = IF @ = "none" THEN "live" ELSE @]
  /\ Goto(c, "transfer_commit")
  /\ UNCHANGED <<db, intent, reply, declined, refund>>

\* $transaction [milestone RELEASED, payout IN_TRANSIT]; stripeTransferId is
\* unique, so a second row for the transfer rolls both writes back and throws.
TransferCommit(c) ==
  LET k == call[c].key IN
  /\ At(c, "transfer_commit")
  /\ \/ payout[k] # "none" /\ Return(c) /\ UNCHANGED <<status, payout, payoutLog>>
     \/ /\ payout[k] = "none"
        /\ status' = "RELEASED"
        /\ payout' = [payout EXCEPT ![k] = "IN_TRANSIT"]
        /\ payoutLog' = Append(payoutLog, k)
        /\ AfterTransfer(c)
  /\ UNCHANGED <<payment, paymentLog, backfilled, dispute, webhookRow, stripe>>

-----------------------------------------------------------------------------
(* dispute *)

\* A row is set aside when the call starts, so Disputes bounds the calls too.
RaiseDispute(c, d) ==
  /\ status \notin {"RELEASED", "REFUNDED", "DISPUTED"}
  /\ dispute[d] = "none" /\ \A other \in Calls : call[other].dispute # d
  /\ Begin(c, "dispute_insert", "dispute", NoId, d)
  /\ UNCHANGED <<db, stripe>>

DisputeInsert(c) ==
  /\ At(c, "dispute_insert")
  /\ dispute' = [dispute EXCEPT ![call[c].dispute] = "OPEN"]
  /\ Goto(c, "dispute_mark")
  /\ UNCHANGED <<status, payment, paymentLog, payout, payoutLog, backfilled, webhookRow, stripe>>

DisputeMark(c) ==
  /\ At(c, "dispute_mark")
  /\ status' = "DISPUTED"
  /\ Return(c)
  /\ UNCHANGED <<payment, paymentLog, payout, payoutLog, backfilled, dispute, webhookRow, stripe>>

-----------------------------------------------------------------------------
(* resolveDispute *)

ResolveRelease(c, d, k) ==
  /\ dispute[d] = "OPEN" /\ status = "DISPUTED"
  /\ Begin(c, "transfer_check", "resolve_release", k, d)
  /\ UNCHANGED <<db, stripe>>

ResolveRefund(c, d, k) ==
  /\ dispute[d] = "OPEN" /\ status = "DISPUTED"
  /\ Begin(c, "refund_pick", "resolve_refund", k, d)
  /\ UNCHANGED <<db, stripe>>

\* The newest SUCCEEDED payment is to be refunded; without one the call throws.
RefundPick(c) ==
  LET Succeeded == {k \in FundKeys : payment[k] = "SUCCEEDED"} IN
  /\ At(c, "refund_pick")
  /\ \/ Succeeded = {} /\ Return(c)
     \/ \E k \in Succeeded :
          /\ Newest(k, Succeeded, paymentLog)
          /\ call' = [call EXCEPT ![c].step = "refund_stripe", ![c].intent = k]
  /\ UNCHANGED <<db, stripe>>

\* refunds.create: Stripe refuses a second refund of the same intent, and a
\* known key for another intent; a known key for this one replays its answer.
RefundStripe(c) ==
  LET k == call[c].key
      i == call[c].intent
  IN
  /\ At(c, "refund_stripe")
  /\ \/ /\ refund[k] = NoId /\ \A other \in RefundKeys : refund[other] # i
        /\ intent[i] = "succeeded"
        /\ refund' = [refund EXCEPT ![k] = i]
        /\ Goto(c, "refund_mark")
     \/ /\ refund[k] = NoId
        /\ intent[i] # "succeeded" \/ \E other \in RefundKeys : refund[other] = i
        /\ Return(c) /\ UNCHANGED refund
     \/ refund[k] = i /\ Goto(c, "refund_mark") /\ UNCHANGED refund
     \/ refund[k] \notin {NoId, i} /\ Return(c) /\ UNCHANGED refund
  /\ UNCHANGED <<db, intent, reply, declined, transfer>>

RefundMark(c) ==
  /\ At(c, "refund_mark")
  /\ status' = "REFUNDED"
  /\ Goto(c, "refund_close")
  /\ UNCHANGED <<payment, paymentLog, payout, payoutLog, backfilled, dispute, webhookRow, stripe>>

CloseDispute(c, step, resolution) ==
  /\ At(c, step)
  /\ dispute' = [dispute EXCEPT ![call[c].dispute] = resolution]
  /\ Return(c)
  /\ UNCHANGED <<status, payment, paymentLog, payout, payoutLog, backfilled, webhookRow, stripe>>

RefundClose(c)  == CloseDispute(c, "refund_close", "RESOLVED_REFUND")
ResolveClose(c) == CloseDispute(c, "resolve_close", "RESOLVED_RELEASE")

-----------------------------------------------------------------------------
(* Webhooks *)

\* What Stripe has to tell, by the state of its objects.  Delivery is
\* at-least-once and in any order.
Emitted ==
  {e \in Event :
     \/ e.type = "payment_intent.succeeded" /\ intent[e.key] = "succeeded"
     \/ e.type = "payment_intent.payment_failed" /\ e.key \in declined
     \/ e.type = "charge.refunded" /\ \E k \in RefundKeys : refund[k] = e.key
     \/ e.type = "transfer.created" /\ transfer[e.key] # "none"
     \/ e.type = "transfer.reversed" /\ transfer[e.key] = "reversed"}

\* Mutant: only a processed event counts as a duplicate.
HandleUnprocessed(c, e) ==
  /\ e \in Emitted
  /\ webhookRow[e] # "processed"
  /\ webhookRow' = [webhookRow EXCEPT ![e] = "recorded"]
  /\ Begin(c, "hook_read", e.type, e.key, NoId)
  /\ UNCHANGED <<status, payment, paymentLog, payout, payoutLog, backfilled, dispute, stripe>>

\* stripeWebhookEvent.create.  stripeEventId is unique: a delivery that finds
\* the row there answers 200 and changes nothing.
HandleStripeWebhook(c, e) ==
  /\ e \in Emitted
  /\ webhookRow[e] = "absent"
  /\ webhookRow' = [webhookRow EXCEPT ![e] = "recorded"]
  /\ Begin(c, "hook_read", e.type, e.key, NoId)
  /\ UNCHANGED <<status, payment, paymentLog, payout, payoutLog, backfilled, dispute, stripe>>

\* Mutant: the milestone is funded again whatever its status is.
ReadSucceededUnchecked(c) ==
  /\ At(c, "hook_read") /\ call[c].op = "payment_intent.succeeded"
  /\ Goto(c, IF payment[call[c].key] = "none" THEN "hook_close" ELSE "mark_funded")
  /\ UNCHANGED <<db, stripe>>

\* applyPaymentIntentSucceeded: the payment with its milestone.
ReadSucceeded(c) ==
  /\ At(c, "hook_read") /\ call[c].op = "payment_intent.succeeded"
  /\ call' = [call EXCEPT
       ![c].seen = status,
       ![c].step = IF payment[call[c].key] = "none" THEN "hook_close"
                   ELSE IF payment[call[c].key] # "SUCCEEDED" THEN "mark_succeeded"
                   ELSE IF status = "PENDING" THEN "mark_funded"
                   ELSE "hook_close"]
  /\ UNCHANGED <<db, stripe>>

SetPayment(c, to) ==
  /\ payment' = [payment EXCEPT ![call[c].key] = to]
  /\ UNCHANGED <<status, paymentLog, payout, payoutLog, backfilled, dispute, webhookRow, stripe>>

\* Mutant: the payment is marked and the milestone forgotten.
MarkSucceededOnly(c) ==
  At(c, "mark_succeeded") /\ SetPayment(c, "SUCCEEDED") /\ Goto(c, "hook_close")

MarkSucceeded(c) ==
  /\ At(c, "mark_succeeded")
  /\ SetPayment(c, "SUCCEEDED")
  /\ Goto(c, IF call[c].seen = "PENDING" THEN "mark_funded" ELSE "hook_close")

MarkFunded(c) ==
  /\ At(c, "mark_funded")
  /\ status' = "FUNDED"
  /\ Goto(c, "hook_close")
  /\ UNCHANGED <<payment, paymentLog, payout, payoutLog, backfilled, dispute, webhookRow, stripe>>

\* applyPaymentIntentFailed
ReadFailed(c) ==
  /\ At(c, "hook_read") /\ call[c].op = "payment_intent.payment_failed"
  /\ Goto(c, IF payment[call[c].key] = "none" THEN "hook_close" ELSE "mark_failed")
  /\ UNCHANGED <<db, stripe>>

\* Mutant: the handler's return skips the processedAt update.
MarkFailedAndReturn(c) ==
  At(c, "mark_failed") /\ SetPayment(c, "FAILED") /\ Return(c)

MarkFailed(c) ==
  At(c, "mark_failed") /\ SetPayment(c, "FAILED") /\ Goto(c, "hook_close")

\* applyChargeRefunded: only while the milestone is disputed.
ReadRefunded(c) ==
  /\ At(c, "hook_read") /\ call[c].op = "charge.refunded"
  /\ Goto(c, IF payment[call[c].key] = "none" \/ status # "DISPUTED"
             THEN "hook_close" ELSE "mark_refunded")
  /\ UNCHANGED <<db, stripe>>

MarkRefunded(c) ==
  At(c, "mark_refunded") /\ SetPayment(c, "REFUNDED") /\ Goto(c, "hook_close")

\* Mutant: transfer.created confirms a payout that has FAILED.
ReadTransferCreatedAnyRow(c) ==
  /\ At(c, "hook_read") /\ call[c].op = "transfer.created"
  /\ Goto(c, IF payout[call[c].key] = "none" THEN "find_milestone" ELSE "confirm_payout")
  /\ UNCHANGED <<db, stripe>>

\* applyTransferCreated: confirm the payout row, or backfill it.
ReadTransferCreated(c) ==
  LET row == payout[call[c].key] IN
  /\ At(c, "hook_read") /\ call[c].op = "transfer.created"
  /\ Goto(c, IF row = "none" THEN "find_milestone"
             ELSE IF row \in {"FAILED", "PAID"} THEN "hook_close" ELSE "confirm_payout")
  /\ UNCHANGED <<db, stripe>>

ConfirmPayout(c) ==
  /\ At(c, "confirm_payout")
  /\ payout' = [payout EXCEPT ![call[c].key] = "PAID"]
  /\ Goto(c, "hook_close")
  /\ UNCHANGED <<status, payment, paymentLog, payoutLog, backfilled, dispute, webhookRow, stripe>>

FindMilestone(c) ==
  /\ At(c, "find_milestone")
  /\ Goto(c, IF status \in {"RELEASED", "REFUNDED"} THEN "hook_close" ELSE "backfill")
  /\ UNCHANGED <<db, stripe>>

\* Mutant: stripeTransferId has no unique index.
BackfillNotUnique(c) ==
  LET k == call[c].key IN
  /\ At(c, "backfill")
  /\ status' = "RELEASED"
  /\ payout' = [payout EXCEPT ![k] = "PAID"]
  /\ payoutLog' = Append(payoutLog, k)
  /\ backfilled' = backfilled \cup {k}
  /\ Goto(c, "hook_close")
  /\ UNCHANGED <<payment, paymentLog, dispute, webhookRow, stripe>>

\* $transaction [milestone RELEASED, payout PAID]; throws if the row is there.
Backfill(c) ==
  LET k == call[c].key IN
  /\ At(c, "backfill")
  /\ \/ payout[k] # "none" /\ Return(c) /\ UNCHANGED <<status, payout, payoutLog, backfilled>>
     \/ /\ payout[k] = "none"
        /\ status' = "RELEASED"
        /\ payout' = [payout EXCEPT ![k] = "PAID"]
        /\ payoutLog' = Append(payoutLog, k)
        /\ backfilled' = backfilled \cup {k}
        /\ Goto(c, "hook_close")
  /\ UNCHANGED <<payment, paymentLog, dispute, webhookRow, stripe>>

\* applyTransferFailed, for transfer.reversed: the payout with its milestone.
ReadTransferReversed(c) ==
  /\ At(c, "hook_read") /\ call[c].op = "transfer.reversed"
  /\ call' = [call EXCEPT ![c].seen = status,
       ![c].step = IF payout[call[c].key] = "none" THEN "hook_close" ELSE "fail_payout"]
  /\ UNCHANGED <<db, stripe>>

\* Mutant: the milestone stays RELEASED after its transfer was reversed.
FailPayoutOnly(c) ==
  /\ At(c, "fail_payout")
  /\ payout' = [payout EXCEPT ![call[c].key] = "FAILED"]
  /\ Goto(c, "hook_close")
  /\ UNCHANGED <<status, payment, paymentLog, payoutLog, backfilled, dispute, webhookRow, stripe>>

FailPayout(c) ==
  /\ At(c, "fail_payout")
  /\ payout' = [payout EXCEPT ![call[c].key] = "FAILED"]
  /\ Goto(c, IF call[c].seen = "RELEASED" THEN "reopen" ELSE "hook_close")
  /\ UNCHANGED <<status, payment, paymentLog, payoutLog, backfilled, dispute, webhookRow, stripe>>

Reopen(c) ==
  /\ At(c, "reopen")
  /\ status' = "SUBMITTED"
  /\ Goto(c, "hook_close")
  /\ UNCHANGED <<payment, paymentLog, payout, payoutLog, backfilled, dispute, webhookRow, stripe>>

\* processedAt, once the handler has returned.
HookClose(c) ==
  /\ At(c, "hook_close")
  /\ webhookRow' = [webhookRow EXCEPT
                      ![[type |-> call[c].op, key |-> call[c].key]] = "processed"]
  /\ Return(c)
  /\ UNCHANGED <<status, payment, paymentLog, payout, payoutLog, backfilled, dispute, stripe>>

-----------------------------------------------------------------------------
(* Failure of a call, and what happens at Stripe by itself *)

\* The awaits before a write that completes an earlier one: a transfer or a
\* refund made, a dispute opened, a payout failed, a milestone closed.
Halfway == {"transfer_commit", "resolve_close", "dispute_mark", "refund_mark", "refund_close", "reopen"}

\* The process dies at an await, or the await throws: the call is gone and
\* what it wrote before stays.
Fail(c) ==
  /\ call[c].step \in FailingSteps
  /\ Return(c)
  /\ calm' = (calm /\ call[c].step \notin Halfway)
  /\ UNCHANGED <<db, stripe>>

\* The client confirms the intent, and may try again after a decline.
IntentSucceeds(k) ==
  /\ intent[k] \in {"processing", "failed"}
  /\ intent' = [intent EXCEPT ![k] = "succeeded"]
  /\ UNCHANGED <<db, call, calm, reply, declined, transfer, refund>>

IntentDeclined(k) ==
  /\ intent[k] = "processing"
  /\ intent' = [intent EXCEPT ![k] = "failed"]
  /\ declined' = declined \cup {k}
  /\ UNCHANGED <<db, call, calm, reply, transfer, refund>>

TransferReverses(k) ==
  /\ transfer[k] = "live"
  /\ transfer' = [transfer EXCEPT ![k] = "reversed"]
  /\ UNCHANGED <<db, call, calm, intent, reply, declined, refund>>

-----------------------------------------------------------------------------
Request(c) ==
  \/ \E k \in FundKeys : Fund(c, k)
  \/ Submit(c)
  \/ \E k \in TransferKeys : Release(c, k)
  \/ \E d \in Disputes : RaiseDispute(c, d)
  \/ \E d \in Disputes, k \in TransferKeys : ResolveRelease(c, d, k)
  \/ \E d \in Disputes, k \in RefundKeys : ResolveRefund(c, d, k)

Continue(c) ==
  \/ FundCheck(c) \/ FundStripe(c) \/ FundInsert(c) \/ FundMark(c)
  \/ SubmitWrite(c)
  \/ TransferCheck(c) \/ TransferStripe(c) \/ TransferCommit(c) \/ ResolveClose(c)
  \/ DisputeInsert(c) \/ DisputeMark(c)
  \/ RefundPick(c) \/ RefundStripe(c) \/ RefundMark(c) \/ RefundClose(c)
  \/ ReadSucceeded(c) \/ MarkSucceeded(c) \/ MarkFunded(c)
  \/ ReadFailed(c) \/ MarkFailed(c)
  \/ ReadRefunded(c) \/ MarkRefunded(c)
  \/ ReadTransferCreated(c) \/ ConfirmPayout(c) \/ FindMilestone(c) \/ Backfill(c)
  \/ ReadTransferReversed(c) \/ FailPayout(c) \/ Reopen(c)
  \/ HookClose(c)

StripeStep ==
  \/ \E k \in FundKeys : IntentSucceeds(k) \/ IntentDeclined(k)
  \/ \E k \in TransferKeys : TransferReverses(k)

\* The awaits that only read.
Reads == {"fund_check", "transfer_check", "refund_pick", "hook_read", "find_milestone"}

\* A write made while another call is in flight may overtake a check of that
\* call.  That a request only reads when it begins is in Next.
Tracked(c) ==
  calm' = (calm /\ (call[c].step \in Reads \/ \A other \in Calls \ {c} : call[other] = Idle))

Next ==
  \/ \E c \in Calls : Request(c) /\ UNCHANGED calm
  \/ \E c \in Calls : Continue(c) /\ Tracked(c)
  \/ \E c \in Calls, e \in Event : HandleStripeWebhook(c, e) /\ Tracked(c)
  \/ \E c \in Calls : Fail(c)
  \/ StripeStep

Spec == Init /\ [][Next]_vars

\* Node keeps running the calls it has accepted.  Stripe redelivers until it
\* is answered: whenever the server is free again and again, some outstanding
\* event gets through.
Fairness ==
  /\ \A c \in Calls : WF_vars(Continue(c) /\ Tracked(c))
  /\ SF_vars(\E c \in Calls, e \in Event : HandleStripeWebhook(c, e) /\ Tracked(c))

FairSpec == Spec /\ Fairness

-----------------------------------------------------------------------------
(* What holds of every interleaving and every failure. *)

Charged     == \E k \in FundKeys : intent[k] = "succeeded"
Transferred == \E k \in TransferKeys : transfer[k] # "none"
Refunded    == \E k \in RefundKeys : refund[k] # NoId

\* A status is never ahead of the money: FUNDED, RELEASED and REFUNDED are
\* written only after Stripe has charged, transferred or refunded.  Every
\* one of them is a blind write, several awaits after the check before it.
StatusBackedByStripe ==
  /\ status = "FUNDED" => Charged
  /\ status = "RELEASED" => Transferred
  /\ status = "REFUNDED" => Refunded
  /\ status = "SUBMITTED" => Charged \/ Transferred

\* The rows agree with Stripe on what has happened: a SUCCEEDED payment was
\* charged, a FAILED one declined, a payout has its transfer and a FAILED
\* one was reversed, and a dispute is closed only once money has moved.
RowsBackedByStripe ==
  /\ \A k \in FundKeys :
       /\ payment[k] # "none" => intent[k] # "none"
       /\ payment[k] = "SUCCEEDED" => intent[k] = "succeeded"
       /\ payment[k] = "FAILED" => k \in declined
       /\ payment[k] = "REFUNDED" => \E r \in RefundKeys : refund[r] = k
  /\ \A k \in TransferKeys :
       /\ payout[k] # "none" => transfer[k] # "none"
       /\ payout[k] = "FAILED" => transfer[k] = "reversed"
  /\ \A d \in Disputes :
       /\ dispute[d] = "RESOLVED_RELEASE" => Transferred
       /\ dispute[d] = "RESOLVED_REFUND" => Refunded

Handling(c, e) == call[c].step \in HookSteps /\ call[c].op = e.type /\ call[c].key = e.key

\* An event is in the hands of at most one delivery, never before its row is
\* recorded and never again once it is processed: Stripe's redeliveries do
\* not run a handler twice, not even while the first one is still running.
EventHandledOnce ==
  \A e \in Event, c \in Calls :
    Handling(c, e) => /\ webhookRow[e] = "recorded"
                      /\ \A other \in Calls : Handling(other, e) => other = c

\* A payment or payout row is written once per Stripe object: the log, and
\* so "the newest payment", never lists one twice.
RowsAreUnique ==
  /\ \A i, j \in DOMAIN paymentLog : paymentLog[i] = paymentLog[j] => i = j
  /\ \A i, j \in DOMAIN payoutLog : payoutLog[i] = payoutLog[j] => i = j

-----------------------------------------------------------------------------
(* What the checks achieve until a call overtakes another, or dies halfway. *)

AtRest == \A c \in Calls : call[c] = Idle

\* docs/API_PAYMENTS_SPEC.md:38-44, "Allowed transitions v1"; nothing writes
\* IN_PROGRESS.
DocumentedTransitions ==
  {<<"PENDING", "FUNDED">>, <<"FUNDED", "SUBMITTED">>, <<"SUBMITTED", "RELEASED">>,
   <<"SUBMITTED", "DISPUTED">>, <<"DISPUTED", "RELEASED">>, <<"DISPUTED", "REFUNDED">>}

\* What the code has a milestone go through: also a dispute before the work is
\* submitted, and the reopening after a reversed transfer.
Transitions ==
  DocumentedTransitions \cup
  {<<"PENDING", "DISPUTED">>, <<"FUNDED", "DISPUTED">>, <<"RELEASED", "SUBMITTED">>}

\* However late Stripe's events come, and whatever they find, no handler and
\* no request takes the milestone anywhere else: a checked status still is the
\* status when it is written.  And milestones.service.spec.ts: "does not
\* resurrect a payout that already failed".
RowsFollowLifecycle ==
  [][calm' => /\ status' # status => <<status, status'>> \in Transitions
              /\ \A k \in TransferKeys : payout[k] = "FAILED" => payout'[k] = "FAILED"]_vars

\* The developer is paid at most once and the client's money is not both
\* paid out and given back; between calls the payout rows tell the same story
\* as the milestone: RELEASED exactly when one payout stands, and then only one.
PaidOutOnce ==
  LET Standing == {k \in TransferKeys : payout[k] \in {"IN_TRANSIT", "PAID"}} IN
  calm =>
    /\ \A j, k \in TransferKeys : transfer[j] = "live" /\ transfer[k] = "live" => j = k
    /\ ~(Refunded /\ \E k \in TransferKeys : transfer[k] = "live")
    /\ AtRest => /\ status = "RELEASED" <=> Standing # {}
                 /\ \A j, k \in Standing : j = k

\* docs/PRISMA_MILESTONES_SCHEMA.md: "Dispute OPEN blocks release until
\* RESOLVED_RELEASE or RESOLVED_REFUND".  A milestone is RELEASED over an open
\* dispute only while a call is at work that resolves that dispute.
OpenDisputeBlocksRelease ==
  \A d \in Disputes :
    calm /\ status = "RELEASED" /\ dispute[d] = "OPEN" =>
      \E c \in Calls : call[c].op = "resolve_release" /\ call[c].dispute = d

\* A charge that a payment row knows of ends with the milestone funded: no
\* later write of fund puts it back to PENDING for good.
ChargeFundsMilestone ==
  (\E k \in FundKeys : intent[k] = "succeeded" /\ payment[k] # "none") ~> status # "PENDING"

\* Again and again Stripe has nothing left to tell: every event it has emitted
\* is processed in the end (a processed event stays processed).
EventsAreProcessed ==
  []<>(\A e \in Emitted : webhookRow[e] = "processed")
=============================================================================
