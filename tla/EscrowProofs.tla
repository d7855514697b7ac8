---------------------------- MODULE EscrowProofs ----------------------------
(***************************************************************************)
(* IInv is inductive for every number of calls, keys and disputes and for  *)
(* every choice of awaits that may fail, so the properties it implies hold *)
(* of every interleaving of the handlers; and so is SInv, with what holds  *)
(* until a call writes beside another or dies halfway.                     *)
(* And the pages take Escrow's own steps, so what is proved of             *)
(* it holds behind them; PagesInv relates every copy of the rows that a    *)
(* page holds to the number of writes made since, for any number of        *)
(* handlers, keys, disputes and accounts, whatever answers are lost.       *)
(***************************************************************************)
EXTENDS FundingPages, EscrowInvariant, TLAPS

-----------------------------------------------------------------------------
(* Who writes what: each lemma lists the actions that change a variable.   *)

\* The milestone's status has eight writers.
LEMMA StatusWriters ==
  ASSUME [Next]_vars, status' # status
  PROVE  \E c \in Calls :
           FundMark(c) \/ SubmitWrite(c) \/ TransferCommit(c) \/ DisputeMark(c)
           \/ RefundMark(c) \/ MarkFunded(c) \/ Backfill(c) \/ Reopen(c)
  <1>1. \A c \in Calls : ~Request(c)
    BY DEF Request, Fund, Submit, Release, RaiseDispute, ResolveRelease,
       ResolveRefund, db, stripe
  <1>2. \A c \in Calls : ~Fail(c)
    BY DEF Fail, db, stripe
  <1>3. \A c \in Calls, e \in Event : ~HandleStripeWebhook(c, e)
    BY DEF HandleStripeWebhook, stripe
  <1>4. ~StripeStep
    BY DEF StripeStep, IntentSucceeds, IntentDeclined, TransferReverses, db, stripe
  <1>5. \A c \in Calls : Continue(c) =>
         FundMark(c) \/ SubmitWrite(c) \/ TransferCommit(c) \/ DisputeMark(c) \/
         RefundMark(c) \/ MarkFunded(c) \/ Backfill(c) \/ Reopen(c)
    BY DEF Continue, FundCheck, FundStripe, FundInsert, TransferCheck, TransferStripe,
       ResolveClose, DisputeInsert, RefundPick, RefundStripe, RefundClose,
       ReadSucceeded, MarkSucceeded, ReadFailed, MarkFailed, ReadRefunded,
       MarkRefunded, ReadTransferCreated, ConfirmPayout, FindMilestone,
       ReadTransferReversed, FailPayout, HookClose, SetPayment, CloseDispute, db,
       stripe
  <1>6. QED
    BY <1>1, <1>2, <1>3, <1>4, <1>5 DEF Next, vars, db, stripe

\* A payment row is written by fund and by the payment webhooks.
LEMMA PaymentWriters ==
  ASSUME [Next]_vars, payment' # payment
  PROVE  \E c \in Calls :
           FundInsert(c) \/ MarkSucceeded(c) \/ MarkFailed(c) \/ MarkRefunded(c)
  <1>1. \A c \in Calls : ~Request(c)
    BY DEF Request, Fund, Submit, Release, RaiseDispute, ResolveRelease,
       ResolveRefund, db, stripe
  <1>2. \A c \in Calls : ~Fail(c)
    BY DEF Fail, db, stripe
  <1>3. \A c \in Calls, e \in Event : ~HandleStripeWebhook(c, e)
    BY DEF HandleStripeWebhook, stripe
  <1>4. ~StripeStep
    BY DEF StripeStep, IntentSucceeds, IntentDeclined, TransferReverses, db, stripe
  <1>5. \A c \in Calls : Continue(c) =>
         FundInsert(c) \/ MarkSucceeded(c) \/ MarkFailed(c) \/ MarkRefunded(c)
    BY DEF Continue, FundCheck, FundStripe, FundMark, SubmitWrite, TransferCheck,
       TransferStripe, TransferCommit, ResolveClose, DisputeInsert, DisputeMark,
       RefundPick, RefundStripe, RefundMark, RefundClose, ReadSucceeded, MarkFunded,
       ReadFailed, ReadRefunded, ReadTransferCreated, ConfirmPayout, FindMilestone,
       Backfill, ReadTransferReversed, FailPayout, Reopen, HookClose, CloseDispute,
       db, stripe
  <1>6. QED
    BY <1>1, <1>2, <1>3, <1>4, <1>5 DEF Next, vars, db, stripe

\* Payment rows are created by fund alone.
LEMMA PaymentLogWriters ==
  ASSUME [Next]_vars, paymentLog' # paymentLog
  PROVE  \E c \in Calls : FundInsert(c)
  <1>1. \A c \in Calls : ~Request(c)
    BY DEF Request, Fund, Submit, Release, RaiseDispute, ResolveRelease,
       ResolveRefund, db, stripe
  <1>2. \A c \in Calls : ~Fail(c)
    BY DEF Fail, db, stripe
  <1>3. \A c \in Calls, e \in Event : ~HandleStripeWebhook(c, e)
    BY DEF HandleStripeWebhook, stripe
  <1>4. ~StripeStep
    BY DEF StripeStep, IntentSucceeds, IntentDeclined, TransferReverses, db, stripe
  <1>5. \A c \in Calls : Continue(c) =>
         FundInsert(c)
    BY DEF Continue, FundCheck, FundStripe, FundMark, SubmitWrite, TransferCheck,
       TransferStripe, TransferCommit, ResolveClose, DisputeInsert, DisputeMark,
       RefundPick, RefundStripe, RefundMark, RefundClose, ReadSucceeded,
       MarkSucceeded, MarkFunded, ReadFailed, MarkFailed, ReadRefunded, MarkRefunded,
       ReadTransferCreated, ConfirmPayout, FindMilestone, Backfill,
       ReadTransferReversed, FailPayout, Reopen, HookClose, SetPayment, CloseDispute,
       db, stripe
  <1>6. QED
    BY <1>1, <1>2, <1>3, <1>4, <1>5 DEF Next, vars, db, stripe

\* A payout row is written by createPayoutTransfer and the transfer webhooks.
LEMMA PayoutWriters ==
  ASSUME [Next]_vars, payout' # payout
  PROVE  \E c \in Calls :
           TransferCommit(c) \/ ConfirmPayout(c) \/ Backfill(c) \/ FailPayout(c)
  <1>1. \A c \in Calls : ~Request(c)
    BY DEF Request, Fund, Submit, Release, RaiseDispute, ResolveRelease,
       ResolveRefund, db, stripe
  <1>2. \A c \in Calls : ~Fail(c)
    BY DEF Fail, db, stripe
  <1>3. \A c \in Calls, e \in Event : ~HandleStripeWebhook(c, e)
    BY DEF HandleStripeWebhook, stripe
  <1>4. ~StripeStep
    BY DEF StripeStep, IntentSucceeds, IntentDeclined, TransferReverses, db, stripe
  <1>5. \A c \in Calls : Continue(c) =>
         TransferCommit(c) \/ ConfirmPayout(c) \/ Backfill(c) \/ FailPayout(c)
    BY DEF Continue, FundCheck, FundStripe, FundInsert, FundMark, SubmitWrite,
       TransferCheck, TransferStripe, ResolveClose, DisputeInsert, DisputeMark,
       RefundPick, RefundStripe, RefundMark, RefundClose, ReadSucceeded,
       MarkSucceeded, MarkFunded, ReadFailed, MarkFailed, ReadRefunded, MarkRefunded,
       ReadTransferCreated, FindMilestone, ReadTransferReversed, Reopen, HookClose,
       SetPayment, CloseDispute, db, stripe
  <1>6. QED
    BY <1>1, <1>2, <1>3, <1>4, <1>5 DEF Next, vars, db, stripe

\* Payout rows are created by createPayoutTransfer and by the backfill.
LEMMA PayoutLogWriters ==
  ASSUME [Next]_vars, payoutLog' # payoutLog
  PROVE  \E c \in Calls : TransferCommit(c) \/ Backfill(c)
  <1>1. \A c \in Calls : ~Request(c)
    BY DEF Request, Fund, Submit, Release, RaiseDispute, ResolveRelease,
       ResolveRefund, db, stripe
  <1>2. \A c \in Calls : ~Fail(c)
    BY DEF Fail, db, stripe
  <1>3. \A c \in Calls, e \in Event : ~HandleStripeWebhook(c, e)
    BY DEF HandleStripeWebhook, stripe
  <1>4. ~StripeStep
    BY DEF StripeStep, IntentSucceeds, IntentDeclined, TransferReverses, db, stripe
  <1>5. \A c \in Calls : Continue(c) =>
         TransferCommit(c) \/ Backfill(c)
    BY DEF Continue, FundCheck, FundStripe, FundInsert, FundMark, SubmitWrite,
       TransferCheck, TransferStripe, ResolveClose, DisputeInsert, DisputeMark,
       RefundPick, RefundStripe, RefundMark, RefundClose, ReadSucceeded,
       MarkSucceeded, MarkFunded, ReadFailed, MarkFailed, ReadRefunded, MarkRefunded,
       ReadTransferCreated, ConfirmPayout, FindMilestone, ReadTransferReversed,
       FailPayout, Reopen, HookClose, SetPayment, CloseDispute, db, stripe
  <1>6. QED
    BY <1>1, <1>2, <1>3, <1>4, <1>5 DEF Next, vars, db, stripe

\* Only the backfill creates rows without an idempotency key.
LEMMA BackfilledWriters ==
  ASSUME [Next]_vars, backfilled' # backfilled
  PROVE  \E c \in Calls : Backfill(c)
  <1>1. \A c \in Calls : ~Request(c)
    BY DEF Request, Fund, Submit, Release, RaiseDispute, ResolveRelease,
       ResolveRefund, db, stripe
  <1>2. \A c \in Calls : ~Fail(c)
    BY DEF Fail, db, stripe
  <1>3. \A c \in Calls, e \in Event : ~HandleStripeWebhook(c, e)
    BY DEF HandleStripeWebhook, stripe
  <1>4. ~StripeStep
    BY DEF StripeStep, IntentSucceeds, IntentDeclined, TransferReverses, db, stripe
  <1>5. \A c \in Calls : Continue(c) =>
         Backfill(c)
    BY DEF Continue, FundCheck, FundStripe, FundInsert, FundMark, SubmitWrite,
       TransferCheck, TransferStripe, TransferCommit, ResolveClose, DisputeInsert,
       DisputeMark, RefundPick, RefundStripe, RefundMark, RefundClose, ReadSucceeded,
       MarkSucceeded, MarkFunded, ReadFailed, MarkFailed, ReadRefunded, MarkRefunded,
       ReadTransferCreated, ConfirmPayout, FindMilestone, ReadTransferReversed,
       FailPayout, Reopen, HookClose, SetPayment, CloseDispute, db, stripe
  <1>6. QED
    BY <1>1, <1>2, <1>3, <1>4, <1>5 DEF Next, vars, db, stripe

\* A dispute row is created by dispute and closed by resolveDispute.
LEMMA DisputeWriters ==
  ASSUME [Next]_vars, dispute' # dispute
  PROVE  \E c \in Calls : DisputeInsert(c) \/ RefundClose(c) \/ ResolveClose(c)
  <1>1. \A c \in Calls : ~Request(c)
    BY DEF Request, Fund, Submit, Release, RaiseDispute, ResolveRelease,
       ResolveRefund, db, stripe
  <1>2. \A c \in Calls : ~Fail(c)
    BY DEF Fail, db, stripe
  <1>3. \A c \in Calls, e \in Event : ~HandleStripeWebhook(c, e)
    BY DEF HandleStripeWebhook, stripe
  <1>4. ~StripeStep
    BY DEF StripeStep, IntentSucceeds, IntentDeclined, TransferReverses, db, stripe
  <1>5. \A c \in Calls : Continue(c) =>
         DisputeInsert(c) \/ RefundClose(c) \/ ResolveClose(c)
    BY DEF Continue, FundCheck, FundStripe, FundInsert, FundMark, SubmitWrite,
       TransferCheck, TransferStripe, TransferCommit, DisputeMark, RefundPick,
       RefundStripe, RefundMark, ReadSucceeded, MarkSucceeded, MarkFunded, ReadFailed,
       MarkFailed, ReadRefunded, MarkRefunded, ReadTransferCreated, ConfirmPayout,
       FindMilestone, Backfill, ReadTransferReversed, FailPayout, Reopen, HookClose,
       SetPayment, db, stripe
  <1>6. QED
    BY <1>1, <1>2, <1>3, <1>4, <1>5 DEF Next, vars, db, stripe

\* A webhook row is inserted by the delivery and closed by its handler.
LEMMA WebhookWriters ==
  ASSUME [Next]_vars, webhookRow' # webhookRow
  PROVE  \/ \E c \in Calls : HookClose(c)
         \/ \E c \in Calls, e \in Event : HandleStripeWebhook(c, e)
  <1>1. \A c \in Calls : ~Request(c)
    BY DEF Request, Fund, Submit, Release, RaiseDispute, ResolveRelease,
       ResolveRefund, db, stripe
  <1>2. \A c \in Calls : ~Fail(c)
    BY DEF Fail, db, stripe
  <1>4. ~StripeStep
    BY DEF StripeStep, IntentSucceeds, IntentDeclined, TransferReverses, db, stripe
  <1>5. \A c \in Calls : Continue(c) =>
         HookClose(c)
    BY DEF Continue, FundCheck, FundStripe, FundInsert, FundMark, SubmitWrite,
       TransferCheck, TransferStripe, TransferCommit, ResolveClose, DisputeInsert,
       DisputeMark, RefundPick, RefundStripe, RefundMark, RefundClose, ReadSucceeded,
       MarkSucceeded, MarkFunded, ReadFailed, MarkFailed, ReadRefunded, MarkRefunded,
       ReadTransferCreated, ConfirmPayout, FindMilestone, Backfill,
       ReadTransferReversed, FailPayout, Reopen, SetPayment, CloseDispute, db, stripe
  <1>6. QED
    BY <1>1, <1>2, <1>4, <1>5 DEF Next, vars, db, stripe

\* An intent changes by fund and by the client's confirmation.
LEMMA IntentWriters ==
  ASSUME [Next]_vars, intent' # intent
  PROVE  \/ \E c \in Calls : FundStripe(c)
         \/ \E k \in FundKeys : IntentSucceeds(k)
         \/ \E k \in FundKeys : IntentDeclined(k)
  <1>1. \A c \in Calls : ~Request(c)
    BY DEF Request, Fund, Submit, Release, RaiseDispute, ResolveRelease,
       ResolveRefund, db, stripe
  <1>2. \A c \in Calls : ~Fail(c)
    BY DEF Fail, db, stripe
  <1>3. \A c \in Calls, e \in Event : ~HandleStripeWebhook(c, e)
    BY DEF HandleStripeWebhook, stripe
  <1>4. StripeStep => (\E k \in FundKeys : IntentSucceeds(k)) \/ (\E k \in FundKeys : IntentDeclined(k))
    BY DEF StripeStep, TransferReverses, db, stripe
  <1>5. \A c \in Calls : Continue(c) =>
         FundStripe(c)
    BY DEF Continue, FundCheck, FundInsert, FundMark, SubmitWrite, TransferCheck,
       TransferStripe, TransferCommit, ResolveClose, DisputeInsert, DisputeMark,
       RefundPick, RefundStripe, RefundMark, RefundClose, ReadSucceeded,
       MarkSucceeded, MarkFunded, ReadFailed, MarkFailed, ReadRefunded, MarkRefunded,
       ReadTransferCreated, ConfirmPayout, FindMilestone, Backfill,
       ReadTransferReversed, FailPayout, Reopen, HookClose, SetPayment, CloseDispute,
       db, stripe
  <1>6. QED
    BY <1>1, <1>2, <1>3, <1>4, <1>5 DEF Next, vars, db, stripe

\* Stripe's first answer to a key is recorded by fund.
LEMMA ReplyWriters ==
  ASSUME [Next]_vars, reply' # reply
  PROVE  \E c \in Calls : FundStripe(c)
  <1>1. \A c \in Calls : ~Request(c)
    BY DEF Request, Fund, Submit, Release, RaiseDispute, ResolveRelease,
       ResolveRefund, db, stripe
  <1>2. \A c \in Calls : ~Fail(c)
    BY DEF Fail, db, stripe
  <1>3. \A c \in Calls, e \in Event : ~HandleStripeWebhook(c, e)
    BY DEF HandleStripeWebhook, stripe
  <1>4. ~StripeStep
    BY DEF StripeStep, IntentSucceeds, IntentDeclined, TransferReverses, db, stripe
  <1>5. \A c \in Calls : Continue(c) =>
         FundStripe(c)
    BY DEF Continue, FundCheck, FundInsert, FundMark, SubmitWrite, TransferCheck,
       TransferStripe, TransferCommit, ResolveClose, DisputeInsert, DisputeMark,
       RefundPick, RefundStripe, RefundMark, RefundClose, ReadSucceeded,
       MarkSucceeded, MarkFunded, ReadFailed, MarkFailed, ReadRefunded, MarkRefunded,
       ReadTransferCreated, ConfirmPayout, FindMilestone, Backfill,
       ReadTransferReversed, FailPayout, Reopen, HookClose, SetPayment, CloseDispute,
       db, stripe
  <1>6. QED
    BY <1>1, <1>2, <1>3, <1>4, <1>5 DEF Next, vars, db, stripe

\* A decline is Stripe's own step.
LEMMA DeclinedWriters ==
  ASSUME [Next]_vars, declined' # declined
  PROVE  \E k \in FundKeys : IntentDeclined(k)
  <1>1. \A c \in Calls : ~Request(c)
    BY DEF Request, Fund, Submit, Release, RaiseDispute, ResolveRelease,
       ResolveRefund, db, stripe
  <1>2. \A c \in Calls : ~Fail(c)
    BY DEF Fail, db, stripe
  <1>3. \A c \in Calls, e \in Event : ~HandleStripeWebhook(c, e)
    BY DEF HandleStripeWebhook, stripe
  <1>4. StripeStep => (\E k \in FundKeys : IntentDeclined(k))
    BY DEF StripeStep, IntentSucceeds, TransferReverses, db, stripe
  <1>5. \A c \in Calls : ~Continue(c)
    BY DEF Continue, FundCheck, FundStripe, FundInsert, FundMark, SubmitWrite,
       TransferCheck, TransferStripe, TransferCommit, ResolveClose, DisputeInsert,
       DisputeMark, RefundPick, RefundStripe, RefundMark, RefundClose, ReadSucceeded,
       MarkSucceeded, MarkFunded, ReadFailed, MarkFailed, ReadRefunded, MarkRefunded,
       ReadTransferCreated, ConfirmPayout, FindMilestone, Backfill,
       ReadTransferReversed, FailPayout, Reopen, HookClose, SetPayment, CloseDispute,
       db, stripe
  <1>6. QED
    BY <1>1, <1>2, <1>3, <1>4, <1>5 DEF Next, vars, db, stripe

\* A transfer is created by createPayoutTransfer and reversed at Stripe.
LEMMA TransferWriters ==
  ASSUME [Next]_vars, transfer' # transfer
  PROVE  \/ \E c \in Calls : TransferStripe(c)
         \/ \E k \in TransferKeys : TransferReverses(k)
  <1>1. \A c \in Calls : ~Request(c)
    BY DEF Request, Fund, Submit, Release, RaiseDispute, ResolveRelease,
       ResolveRefund, db, stripe
  <1>2. \A c \in Calls : ~Fail(c)
    BY DEF Fail, db, stripe
  <1>3. \A c \in Calls, e \in Event : ~HandleStripeWebhook(c, e)
    BY DEF HandleStripeWebhook, stripe
  <1>4. StripeStep => (\E k \in TransferKeys : TransferReverses(k))
    BY DEF StripeStep, IntentSucceeds, IntentDeclined, db, stripe
  <1>5. \A c \in Calls : Continue(c) =>
         TransferStripe(c)
    BY DEF Continue, FundCheck, FundStripe, FundInsert, FundMark, SubmitWrite,
       TransferCheck, TransferCommit, ResolveClose, DisputeInsert, DisputeMark,
       RefundPick, RefundStripe, RefundMark, RefundClose, ReadSucceeded,
       MarkSucceeded, MarkFunded, ReadFailed, MarkFailed, ReadRefunded, MarkRefunded,
       ReadTransferCreated, ConfirmPayout, FindMilestone, Backfill,
       ReadTransferReversed, FailPayout, Reopen, HookClose, SetPayment, CloseDispute,
       db, stripe
  <1>6. QED
    BY <1>1, <1>2, <1>3, <1>4, <1>5 DEF Next, vars, db, stripe

\* A refund is created by resolveDispute.
LEMMA RefundWriters ==
  ASSUME [Next]_vars, refund' # refund
  PROVE  \E c \in Calls : RefundStripe(c)
  <1>1. \A c \in Calls : ~Request(c)
    BY DEF Request, Fund, Submit, Release, RaiseDispute, ResolveRelease,
       ResolveRefund, db, stripe
  <1>2. \A c \in Calls : ~Fail(c)
    BY DEF Fail, db, stripe
  <1>3. \A c \in Calls, e \in Event : ~HandleStripeWebhook(c, e)
    BY DEF HandleStripeWebhook, stripe
  <1>4. ~StripeStep
    BY DEF StripeStep, IntentSucceeds, IntentDeclined, TransferReverses, db, stripe
  <1>5. \A c \in Calls : Continue(c) =>
         RefundStripe(c)
    BY DEF Continue, FundCheck, FundStripe, FundInsert, FundMark, SubmitWrite,
       TransferCheck, TransferStripe, TransferCommit, ResolveClose, DisputeInsert,
       DisputeMark, RefundPick, RefundMark, RefundClose, ReadSucceeded, MarkSucceeded,
       MarkFunded, ReadFailed, MarkFailed, ReadRefunded, MarkRefunded,
       ReadTransferCreated, ConfirmPayout, FindMilestone, Backfill,
       ReadTransferReversed, FailPayout, Reopen, HookClose, SetPayment, CloseDispute,
       db, stripe
  <1>6. QED
    BY <1>1, <1>2, <1>3, <1>4, <1>5 DEF Next, vars, db, stripe

-----------------------------------------------------------------------------
(* What Stripe has done stays done. *)

\* A charge, a transfer, a reversal, a decline and a refund are never undone.
LEMMA StripeIsMonotone ==
  ASSUME TypeOK, [Next]_vars
  PROVE  /\ \A k \in FundKeys : intent[k] = "succeeded" => intent'[k] = "succeeded"
         /\ \A k \in FundKeys : intent[k] # "none" => intent'[k] # "none"
         /\ declined \subseteq declined'
         /\ \A k \in TransferKeys : transfer[k] # "none" => transfer'[k] # "none"
         /\ \A k \in TransferKeys : transfer[k] = "reversed" => transfer'[k] = "reversed"
         /\ \A r \in RefundKeys : refund[r] # NoId => refund'[r] = refund[r]
  <1>1. \A k \in FundKeys : /\ intent[k] = "succeeded" => intent'[k] = "succeeded"
                            /\ intent[k] # "none" => intent'[k] # "none"
    BY IntentWriters DEF TypeOK, FundStripe, IntentSucceeds, IntentDeclined
  <1>2. declined \subseteq declined'
    BY DeclinedWriters DEF IntentDeclined
  <1>3. \A k \in TransferKeys : /\ transfer[k] # "none" => transfer'[k] # "none"
                                /\ transfer[k] = "reversed" => transfer'[k] = "reversed"
    BY TransferWriters DEF TypeOK, TransferStripe, TransferReverses
  <1>4. \A r \in RefundKeys : refund[r] # NoId => refund'[r] = refund[r]
    BY RefundWriters DEF TypeOK, RefundStripe
  <1>5. QED
    BY <1>1, <1>2, <1>3, <1>4

\* So an emitted event stays emitted, and money that moved has moved.
LEMMA MoneyIsMonotone ==
  ASSUME TypeOK, [Next]_vars
  PROVE  /\ Emitted \subseteq Emitted'
         /\ Charged => Charged'
         /\ Transferred => Transferred'
         /\ Refunded => Refunded'
  <1>1. Charged => Charged'
    BY StripeIsMonotone DEF Charged
  <1>2. Transferred => Transferred'
    BY StripeIsMonotone DEF Transferred
  <1>3. Refunded => Refunded'
    BY StripeIsMonotone DEF Refunded
  <1>4. ASSUME NEW e \in Emitted  PROVE e \in Emitted'
    <2>1. e \in Event
      BY DEF Emitted
    <2>2. CASE e.type = "payment_intent.succeeded" /\ intent[e.key] = "succeeded"
      BY <2>1, <2>2, StripeIsMonotone DEF Emitted, Event
    <2>3. CASE e.type = "payment_intent.payment_failed" /\ e.key \in declined
      BY <2>1, <2>3, StripeIsMonotone DEF Emitted
    <2>4. CASE e.type = "charge.refunded" /\ \E r \in RefundKeys : refund[r] = e.key
      <3>1. e.key \in FundKeys
        BY <2>1, <2>4 DEF Event
      <3>2. PICK r \in RefundKeys : refund[r] = e.key
        BY <2>4
      <3>3. refund'[r] = e.key
        BY <3>1, <3>2, StripeIsMonotone, NoIdAssumption DEF Keys
      <3>4. QED
        BY <2>1, <2>4, <3>3 DEF Emitted
    <2>5. CASE e.type = "transfer.created" /\ transfer[e.key] # "none"
      BY <2>1, <2>5, StripeIsMonotone DEF Emitted, Event
    <2>6. CASE e.type = "transfer.reversed" /\ transfer[e.key] = "reversed"
      BY <2>1, <2>6, StripeIsMonotone DEF Emitted, Event
    <2>7. QED
      BY <2>2, <2>3, <2>4, <2>5, <2>6 DEF Emitted
  <1>5. QED
    BY <1>1, <1>2, <1>3, <1>4

\* Stripe's replies, declines and refunds go on fitting its charges.
LEMMA StripeStaysConsistent ==
  ASSUME TypeOK, StripeConsistent, CallsRelyOnFacts, [Next]_vars
  PROVE  StripeConsistent'
  <1>1. ASSUME NEW k \in FundKeys, reply'[k] = "succeeded"  PROVE intent'[k] = "succeeded"
    <2>1. CASE reply[k] = "succeeded"
      BY <2>1, StripeIsMonotone DEF StripeConsistent
    <2>2. CASE reply[k] # "succeeded"
      <3>1. PICK c \in Calls : FundStripe(c)
        BY <1>1, <2>2, ReplyWriters
      <3>2. QED
        BY <1>1, <2>2, <3>1 DEF FundStripe, TypeOK
    <2>3. QED
      BY <2>1, <2>2
  <1>2. ASSUME NEW k \in declined'  PROVE intent'[k] # "none"
    <2>1. CASE k \in declined
      BY <2>1, StripeIsMonotone DEF StripeConsistent, TypeOK
    <2>2. CASE k \notin declined
      <3>1. PICK j \in FundKeys : IntentDeclined(j)
        BY <1>2, <2>2, DeclinedWriters
      <3>2. QED
        BY <1>2, <2>2, <3>1 DEF IntentDeclined, TypeOK
    <2>3. QED
      BY <2>1, <2>2
  <1>3. ASSUME NEW r \in RefundKeys, refund'[r] # NoId
        PROVE  intent'[refund'[r]] = "succeeded"
    <2>1. CASE refund[r] # NoId
      BY <2>1, StripeIsMonotone DEF StripeConsistent, TypeOK
    <2>2. CASE refund[r] = NoId
      <3>1. PICK c \in Calls : RefundStripe(c)
        BY <1>3, <2>2, RefundWriters
      <3>2. intent' = intent
        BY <3>1 DEF RefundStripe
      <3>3. QED
        BY <1>3, <2>2, <3>1, <3>2 DEF RefundStripe, TypeOK
    <2>3. QED
      BY <2>1, <2>2
  <1>4. QED
    BY <1>1, <1>2, <1>3 DEF StripeConsistent

-----------------------------------------------------------------------------
(* The control of a call. *)

Steps == {"idle"} \cup RequestSteps \cup HookSteps

\* Goto changes the step of one call and nothing else.
LEMMA GotoEffect ==
  ASSUME call \in [Calls -> Call], NEW c \in Calls, NEW s \in Steps, Goto(c, s)
  PROVE  /\ call' \in [Calls -> Call]
         /\ \A other \in Calls \ {c} : call'[other] = call[other]
         /\ call'[c].step = s
         /\ call'[c].op = call[c].op
         /\ call'[c].key = call[c].key
         /\ call'[c].dispute = call[c].dispute
         /\ call'[c].intent = call[c].intent
         /\ call'[c].seen = call[c].seen
  BY DEF Goto, Call, Steps

\* Return makes the slot free.
LEMMA ReturnEffect ==
  ASSUME call \in [Calls -> Call], NEW c \in Calls, Return(c)
  PROVE  /\ call' \in [Calls -> Call]
         /\ \A other \in Calls \ {c} : call'[other] = call[other]
         /\ call'[c] = Idle
         /\ call'[c].step = "idle"
  BY DEF Return, Call, Idle

\* Begin fills a free slot.
LEMMA BeginEffect ==
  ASSUME call \in [Calls -> Call], NEW c \in Calls,
         NEW s \in Steps, NEW op \in Requests \cup EventTypes, NEW k \in Keys \cup {NoId},
         NEW d \in Disputes \cup {NoId}, Begin(c, s, op, k, d)
  PROVE  /\ call' \in [Calls -> Call]
         /\ \A other \in Calls \ {c} : call'[other] = call[other]
         /\ call'[c].step = s
         /\ call'[c].op = op
         /\ call'[c].key = k
         /\ call'[c].dispute = d
  BY DEF Begin, Call, Steps

\* A waiting call keeps its facts whatever the others do.
LEMMA WaitingCallKeepsFacts ==
  ASSUME TypeOK, [Next]_vars, NEW c \in Calls, call'[c] = call[c],
         RequestFacts(c), HookFacts(c)
  PROVE  RequestFacts(c)' /\ HookFacts(c)'
  <1>1. HookFacts(c)'
    BY MoneyIsMonotone DEF HookFacts, EventOf
  <1>2. RequestFacts(c)'
    BY MoneyIsMonotone, StripeIsMonotone DEF RequestFacts, FundSteps, TransferSteps, RefundSteps
  <1>3. QED
    BY <1>1, <1>2

\* An idle call has nothing to rely on.
LEMMA IdleFacts ==
  ASSUME NEW c \in Calls, call'[c].step = "idle"
  PROVE  RequestFacts(c)' /\ HookFacts(c)'
  BY DEF RequestFacts, HookFacts, FundSteps, TransferSteps, RefundSteps, HookSteps

-----------------------------------------------------------------------------
(* Every await hands the next one the facts it relies on. *)

\* What a step of call c establishes about the calls.
Progress(c) ==
  /\ call' \in [Calls -> Call]
  /\ \A other \in Calls \ {c} : call'[other] = call[other]
  /\ RequestFacts(c)'
  /\ HookFacts(c)'

\* A request that passes its check may rely on what the status stands for.
LEMMA RequestStarts ==
  ASSUME IInv, [Next]_vars, NEW c \in Calls, Request(c)
  PROVE  Progress(c)
  <1>0. call \in [Calls -> Call]
    BY DEF IInv, TypeOK
  <1>1. ASSUME NEW k \in FundKeys, Fund(c, k)  PROVE Progress(c)
    <2>1. Begin(c, "fund_check", "fund", k, NoId)
      BY <1>1 DEF Fund
    <2>2. /\ call' \in [Calls -> Call]
          /\ \A other \in Calls \ {c} : call'[other] = call[other]
          /\ call'[c].step = "fund_check" /\ call'[c].op = "fund"
          /\ call'[c].key = k /\ call'[c].dispute = NoId
      BY <1>0, <2>1, BeginEffect DEF Steps, RequestSteps, Requests, Keys
    <2>3. QED
      BY <2>2 DEF Progress, RequestFacts, HookFacts, FundSteps, TransferSteps,
         RefundSteps, HookSteps
  <1>2. CASE Submit(c)
    <2>0. Charged'
      BY <1>2, MoneyIsMonotone DEF Submit, StatusBackedByStripe, IInv
    <2>1. Begin(c, "submit_write", "submit", NoId, NoId)
      BY <1>2 DEF Submit
    <2>2. /\ call' \in [Calls -> Call]
          /\ \A other \in Calls \ {c} : call'[other] = call[other]
          /\ call'[c].step = "submit_write" /\ call'[c].op = "submit"
          /\ call'[c].key = NoId /\ call'[c].dispute = NoId
      BY <1>0, <2>1, BeginEffect DEF Steps, RequestSteps, Requests, Keys
    <2>3. QED
      BY <2>2, <2>0 DEF Progress, RequestFacts, HookFacts, FundSteps, TransferSteps,
         RefundSteps, HookSteps
  <1>3. ASSUME NEW k \in TransferKeys, Release(c, k)  PROVE Progress(c)
    <2>1. Begin(c, "transfer_check", "release", k, NoId)
      BY <1>3 DEF Release
    <2>2. /\ call' \in [Calls -> Call]
          /\ \A other \in Calls \ {c} : call'[other] = call[other]
          /\ call'[c].step = "transfer_check" /\ call'[c].op = "release"
          /\ call'[c].key = k /\ call'[c].dispute = NoId
      BY <1>0, <2>1, BeginEffect DEF Steps, RequestSteps, Requests, Keys
    <2>3. QED
      BY <2>2 DEF Progress, RequestFacts, HookFacts, FundSteps, TransferSteps,
         RefundSteps, HookSteps
  <1>4. ASSUME NEW d \in Disputes, RaiseDispute(c, d)  PROVE Progress(c)
    <2>1. Begin(c, "dispute_insert", "dispute", NoId, d)
      BY <1>4 DEF RaiseDispute
    <2>2. /\ call' \in [Calls -> Call]
          /\ \A other \in Calls \ {c} : call'[other] = call[other]
          /\ call'[c].step = "dispute_insert" /\ call'[c].op = "dispute"
          /\ call'[c].key = NoId /\ call'[c].dispute = d
      BY <1>0, <2>1, BeginEffect DEF Steps, RequestSteps, Requests, Keys
    <2>3. QED
      BY <2>2 DEF Progress, RequestFacts, HookFacts, FundSteps, TransferSteps,
         RefundSteps, HookSteps
  <1>5. ASSUME NEW d \in Disputes, NEW k \in TransferKeys, ResolveRelease(c, d, k)
        PROVE  Progress(c)
    <2>1. Begin(c, "transfer_check", "resolve_release", k, d)
      BY <1>5 DEF ResolveRelease
    <2>2. /\ call' \in [Calls -> Call]
          /\ \A other \in Calls \ {c} : call'[other] = call[other]
          /\ call'[c].step = "transfer_check" /\ call'[c].op = "resolve_release"
          /\ call'[c].key = k /\ call'[c].dispute = d
      BY <1>0, <2>1, BeginEffect DEF Steps, RequestSteps, Requests, Keys
    <2>3. QED
      BY <2>2 DEF Progress, RequestFacts, HookFacts, FundSteps, TransferSteps,
         RefundSteps, HookSteps
  <1>6. ASSUME NEW d \in Disputes, NEW k \in RefundKeys, ResolveRefund(c, d, k)
        PROVE  Progress(c)
    <2>1. Begin(c, "refund_pick", "resolve_refund", k, d)
      BY <1>6 DEF ResolveRefund
    <2>2. /\ call' \in [Calls -> Call]
          /\ \A other \in Calls \ {c} : call'[other] = call[other]
          /\ call'[c].step = "refund_pick" /\ call'[c].op = "resolve_refund"
          /\ call'[c].key = k /\ call'[c].dispute = d
      BY <1>0, <2>1, BeginEffect DEF Steps, RequestSteps, Requests, Keys
    <2>3. QED
      BY <2>2 DEF Progress, RequestFacts, HookFacts, FundSteps, TransferSteps,
         RefundSteps, HookSteps
  <1>7. QED
    BY <1>1, <1>2, <1>3, <1>4, <1>5, <1>6 DEF Request

\* A call that returns has nothing left to rely on.
LEMMA ReturnProgress ==
  ASSUME TypeOK, NEW c \in Calls, Return(c)
  PROVE  Progress(c)
  BY ReturnEffect, IdleFacts DEF TypeOK, Progress

\* fund: from the key to the charge Stripe answered with.
LEMMA FundGoesOn ==
  ASSUME IInv, [Next]_vars, NEW c \in Calls,
         FundCheck(c) \/ FundStripe(c) \/ FundInsert(c) \/ FundMark(c)
  PROVE  Progress(c)
  <1>0. call \in [Calls -> Call] /\ TypeOK /\ RequestFacts(c)
    BY DEF IInv, TypeOK, CallsRelyOnFacts
  <1>1. CASE Return(c)
    BY <1>0, <1>1, ReturnProgress
  <1>2. CASE FundCheck(c) /\ Goto(c, "fund_stripe")
    <2>1. call[c].key \in FundKeys
      BY <1>0, <1>2 DEF FundCheck, At, RequestFacts, FundSteps
    <2>2. QED
      BY <1>0, <1>2, <2>1, GotoEffect DEF Progress, Steps, RequestSteps, HookSteps,
         RequestFacts, HookFacts, FundSteps, TransferSteps, RefundSteps
  <1>3. CASE FundStripe(c)
    <2>1. call[c].key \in FundKeys
      BY <1>0, <1>3 DEF FundStripe, At, RequestFacts, FundSteps
    <2>2. intent'[call[c].key] # "none" /\ Goto(c, "fund_insert")
      BY <1>0, <1>3, <2>1 DEF FundStripe, TypeOK
    <2>3. QED
      BY <1>0, <2>1, <2>2, GotoEffect DEF Progress, Steps, RequestSteps, HookSteps,
         RequestFacts, HookFacts, FundSteps, TransferSteps, RefundSteps
  <1>4. CASE FundInsert(c) /\ Goto(c, "fund_mark")
    <2>1. call[c].key \in FundKeys /\ intent[call[c].key] # "none" /\ intent' = intent
      BY <1>0, <1>4 DEF FundInsert, At, RequestFacts, FundSteps, stripe
    <2>2. QED
      BY <1>0, <1>4, <2>1, GotoEffect DEF Progress, Steps, RequestSteps, HookSteps,
         RequestFacts, HookFacts, FundSteps, TransferSteps, RefundSteps
  <1>5. QED
    BY <1>1, <1>2, <1>3, <1>4 DEF FundCheck, FundInsert, FundMark

\* release and createPayoutTransfer: from the key to the transfer.
LEMMA TransferGoesOn ==
  ASSUME IInv, [Next]_vars, NEW c \in Calls,
         TransferCheck(c) \/ TransferStripe(c) \/ TransferCommit(c)
  PROVE  Progress(c)
  <1>0. call \in [Calls -> Call] /\ TypeOK /\ RequestFacts(c)
    BY DEF IInv, TypeOK, CallsRelyOnFacts
  <1>1. CASE Return(c)
    BY <1>0, <1>1, ReturnProgress
  <1>2. /\ call[c].key \in TransferKeys
        /\ call[c].op = "resolve_release" => call[c].dispute \in Disputes
    BY <1>0 DEF TransferCheck, TransferStripe, TransferCommit, At, RequestFacts, TransferSteps
  <1>3. CASE TransferCheck(c) /\ Goto(c, "transfer_stripe")
    BY <1>0, <1>2, <1>3, GotoEffect DEF Progress, Steps, RequestSteps, HookSteps,
       RequestFacts, HookFacts, FundSteps, TransferSteps, RefundSteps
  <1>4. CASE TransferStripe(c)
    <2>1. transfer'[call[c].key] # "none" /\ Goto(c, "transfer_commit")
      BY <1>0, <1>2, <1>4 DEF TransferStripe, TypeOK
    <2>2. QED
      BY <1>0, <1>2, <2>1, GotoEffect DEF Progress, Steps, RequestSteps, HookSteps,
         RequestFacts, HookFacts, FundSteps, TransferSteps, RefundSteps
  <1>5. CASE (TransferCheck(c) \/ TransferCommit(c)) /\ AfterTransfer(c) /\ ~Return(c)
    <2>1. call[c].op = "resolve_release" /\ Goto(c, "resolve_close")
      BY <1>5 DEF AfterTransfer
    <2>2. transfer[call[c].key] # "none"
      <3>1. CASE TransferCheck(c) /\ ~Goto(c, "transfer_stripe")
        <4>1. Newest(call[c].key, TransferKeys, payoutLog)
          BY <1>5, <3>1 DEF TransferCheck
        <4>2. payout[call[c].key] # "none"
          BY <4>1 DEF Newest, IInv, LogsListRows
        <4>3. QED
          BY <1>2, <4>2 DEF IInv, RowsBackedByStripe
      <3>2. CASE TransferCommit(c)
        BY <1>0, <3>2 DEF TransferCommit, At, RequestFacts
      <3>3. ~Goto(c, "transfer_stripe")
        BY <1>0, <2>1, GotoEffect DEF Steps, RequestSteps
      <3>4. QED
        BY <1>5, <3>1, <3>2, <3>3
    <2>3. Transferred'
      BY <1>0, <1>2, <2>2, StripeIsMonotone DEF Transferred
    <2>4. QED
      BY <1>0, <1>2, <2>1, <2>3, GotoEffect DEF Progress, Steps, RequestSteps, HookSteps,
         RequestFacts, HookFacts, FundSteps, TransferSteps, RefundSteps
  <1>6. QED
    BY <1>1, <1>3, <1>4, <1>5 DEF TransferCheck, TransferCommit

\* resolveDispute with a refund: from the key to Stripe's refund.
LEMMA RefundGoesOn ==
  ASSUME IInv, [Next]_vars, NEW c \in Calls,
         RefundPick(c) \/ RefundStripe(c) \/ RefundMark(c)
  PROVE  Progress(c)
  <1>0. call \in [Calls -> Call] /\ TypeOK /\ RequestFacts(c)
    BY DEF IInv, TypeOK, CallsRelyOnFacts
  <1>1. CASE Return(c)
    BY <1>0, <1>1, ReturnProgress
  <1>2. call[c].key \in RefundKeys /\ call[c].dispute \in Disputes
    BY <1>0 DEF RefundPick, RefundStripe, RefundMark, At, RequestFacts, RefundSteps
  <1>3. ASSUME NEW k \in FundKeys,
               call' = [call EXCEPT ![c].step = "refund_stripe", ![c].intent = k]
        PROVE  Progress(c)
    <2> DEFINE next == [call[c] EXCEPT !.step = "refund_stripe", !.intent = k]
    <2>1. /\ next \in Call
          /\ next.step = "refund_stripe" /\ next.intent = k
          /\ next.key = call[c].key /\ next.dispute = call[c].dispute
      BY <1>0 DEF Call, RequestSteps
    <2>2. call' = [call EXCEPT ![c] = next]
      BY <1>0, <1>3
    <2> HIDE DEF next
    <2>3. /\ call' \in [Calls -> Call] /\ call'[c] = next
          /\ \A other \in Calls \ {c} : call'[other] = call[other]
      BY <1>0, <2>1, <2>2
    <2>4. QED
      BY <1>2, <2>1, <2>3 DEF Progress, RequestFacts, HookFacts, FundSteps, TransferSteps,
         RefundSteps, HookSteps
  <1>4. CASE RefundStripe(c) /\ Goto(c, "refund_mark")
    <2>1. call[c].intent \in FundKeys
      BY <1>0, <1>4 DEF RefundStripe, At, RequestFacts
    <2>2. call[c].intent # NoId
      BY <2>1, NoIdAssumption DEF Keys
    <2>3. refund'[call[c].key] = call[c].intent
      <3>1. call'[c].step = "refund_mark"
        BY <1>0, <1>4, GotoEffect DEF Steps, RequestSteps
      <3>2. ~Return(c)
        BY <1>0, <3>1, ReturnEffect
      <3>3. QED
        BY <1>0, <1>2, <1>4, <3>2 DEF RefundStripe, TypeOK
    <2>4. Refunded'
      BY <1>2, <2>2, <2>3 DEF Refunded
    <2>5. QED
      BY <1>0, <1>2, <1>4, <2>4, GotoEffect DEF Progress, Steps, RequestSteps, HookSteps,
         RequestFacts, HookFacts, FundSteps, TransferSteps, RefundSteps
  <1>5. CASE RefundMark(c)
    <2>1. Refunded'
      BY <1>0, <1>5, MoneyIsMonotone DEF RefundMark, At, RequestFacts
    <2>2. Goto(c, "refund_close")
      BY <1>5 DEF RefundMark
    <2>3. QED
      BY <1>0, <1>2, <2>1, <2>2, GotoEffect DEF Progress, Steps, RequestSteps, HookSteps,
         RequestFacts, HookFacts, FundSteps, TransferSteps, RefundSteps
  <1>6. QED
    BY <1>1, <1>3, <1>4, <1>5 DEF RefundPick, RefundStripe

\* The requests that are done after one more write, and dispute.
LEMMA RequestEnds ==
  ASSUME IInv, [Next]_vars, NEW c \in Calls,
         SubmitWrite(c) \/ ResolveClose(c) \/ DisputeInsert(c) \/ DisputeMark(c) \/ RefundClose(c)
  PROVE  Progress(c)
  <1>0. call \in [Calls -> Call] /\ TypeOK /\ RequestFacts(c)
    BY DEF IInv, TypeOK, CallsRelyOnFacts
  <1>1. CASE Return(c)
    BY <1>0, <1>1, ReturnProgress
  <1>2. CASE DisputeInsert(c)
    <2>1. call[c].dispute \in Disputes /\ Goto(c, "dispute_mark")
      BY <1>0, <1>2 DEF DisputeInsert, At, RequestFacts
    <2>2. QED
      BY <1>0, <2>1, GotoEffect DEF Progress, Steps, RequestSteps, HookSteps,
         RequestFacts, HookFacts, FundSteps, TransferSteps, RefundSteps
  <1>3. QED
    BY <1>1, <1>2 DEF SubmitWrite, ResolveClose, DisputeMark, RefundClose, CloseDispute

\* A delivery starts with an event that Stripe has emitted.
LEMMA HookStarts ==
  ASSUME IInv, [Next]_vars, NEW c \in Calls, NEW e \in Event, HandleStripeWebhook(c, e)
  PROVE  /\ Progress(c)
         /\ EventOf(c)' = e
         /\ call'[c].step = "hook_read"
  <1>1. call \in [Calls -> Call] /\ TypeOK
    BY DEF IInv, TypeOK
  <1>2. e \in Emitted /\ Begin(c, "hook_read", e.type, e.key, NoId)
    BY DEF HandleStripeWebhook
  <1>3. e.type \in EventTypes /\ e.key \in Keys /\ e = [type |-> e.type, key |-> e.key]
    <2>1. CASE e \in [type : {"payment_intent.succeeded", "payment_intent.payment_failed",
                             "charge.refunded"}, key : FundKeys]
      BY <2>1 DEF EventTypes, Keys
    <2>2. CASE e \in [type : {"transfer.created", "transfer.reversed"}, key : TransferKeys]
      BY <2>2 DEF EventTypes, Keys
    <2>3. QED
      BY <2>1, <2>2 DEF Event
  <1>4. /\ call' \in [Calls -> Call]
        /\ \A other \in Calls \ {c} : call'[other] = call[other]
        /\ call'[c].step = "hook_read" /\ call'[c].op = e.type /\ call'[c].key = e.key
    <2>1. /\ "hook_read" \in Steps /\ e.type \in Requests \cup EventTypes
          /\ e.key \in Keys \cup {NoId} /\ NoId \in Disputes \cup {NoId}
      BY <1>3 DEF Steps, HookSteps
    <2>2. QED
      BY <1>1, <1>2, <2>1, BeginEffect
  <1>5. EventOf(c)' = e
    BY <1>3, <1>4 DEF EventOf
  <1>6. e \in Emitted'
    BY <1>1, <1>2, MoneyIsMonotone
  <1>7. QED
    BY <1>4, <1>5, <1>6 DEF Progress, RequestFacts, HookFacts, FundSteps, TransferSteps, RefundSteps

\* Within a delivery the event stays the same, so a step needs only the type
\* of event that leads to it.
LEMMA HookProgress ==
  ASSUME TypeOK, [Next]_vars, NEW c \in Calls, HookFacts(c), call[c].step \in HookSteps,
         call' \in [Calls -> Call],
         \A other \in Calls \ {c} : call'[other] = call[other],
         call'[c].step \in HookSteps, call'[c].op = call[c].op, call'[c].key = call[c].key,
         call'[c].step \in {"mark_succeeded", "mark_funded"}
           => call[c].op = "payment_intent.succeeded",
         call'[c].step = "mark_failed" => call[c].op = "payment_intent.payment_failed",
         call'[c].step = "mark_refunded" => call[c].op = "charge.refunded",
         call'[c].step \in {"find_milestone", "backfill", "confirm_payout"}
           => call[c].op = "transfer.created",
         call'[c].step \in {"fail_payout", "reopen"} => call[c].op = "transfer.reversed"
  PROVE  Progress(c)
  <1>1. EventOf(c)' \in Emitted'
    BY MoneyIsMonotone DEF EventOf, HookFacts
  <1>2. HookFacts(c)'
    BY <1>1 DEF HookFacts
  <1>3. RequestFacts(c)'
    BY DEF RequestFacts, HookSteps, FundSteps, TransferSteps, RefundSteps
  <1>4. QED
    BY <1>2, <1>3 DEF Progress

\* The reads that also remember the milestone's status.
LEMMA SeenEffect ==
  ASSUME TypeOK, NEW c \in Calls, NEW s \in Steps,
         call' = [call EXCEPT ![c].seen = status, ![c].step = s]
  PROVE  /\ call' \in [Calls -> Call]
         /\ \A other \in Calls \ {c} : call'[other] = call[other]
         /\ call'[c].step = s
         /\ call'[c].op = call[c].op
         /\ call'[c].key = call[c].key
         /\ call'[c].seen = status
  <1> DEFINE next == [call[c] EXCEPT !.seen = status, !.step = s]
  <1>1. call \in [Calls -> Call] /\ status \in MilestoneStatus
    BY DEF TypeOK
  <1>2. /\ next \in Call
        /\ next.step = s /\ next.op = call[c].op /\ next.key = call[c].key
        /\ next.seen = status
    BY <1>1 DEF Call, Steps
  <1>3. call' = [call EXCEPT ![c] = next]
    BY <1>1
  <1> HIDE DEF next
  <1>4. QED
    BY <1>1, <1>2, <1>3

\* Every step of a webhook handler.
HookStep(c) ==
  \/ ReadSucceeded(c) \/ MarkSucceeded(c) \/ MarkFunded(c)
  \/ ReadFailed(c) \/ MarkFailed(c)
  \/ ReadRefunded(c) \/ MarkRefunded(c)
  \/ ReadTransferCreated(c) \/ ConfirmPayout(c) \/ FindMilestone(c) \/ Backfill(c)
  \/ ReadTransferReversed(c) \/ FailPayout(c) \/ Reopen(c)

\* A handler that moves to its next step still has its event recorded behind it.
LEMMA HookGoesOn ==
  ASSUME IInv, [Next]_vars, NEW c \in Calls, HookStep(c)
  PROVE  Progress(c)
  <1>0. call \in [Calls -> Call] /\ TypeOK /\ HookFacts(c)
    BY DEF IInv, TypeOK, CallsRelyOnFacts
  <1>1. call[c].step \in HookSteps
    BY DEF HookStep, ReadSucceeded, MarkSucceeded, MarkFunded, ReadFailed, MarkFailed,
       ReadRefunded, MarkRefunded, ReadTransferCreated, ConfirmPayout, FindMilestone, Backfill,
       ReadTransferReversed, FailPayout, Reopen, At, HookSteps
  <1>2. CASE Return(c)
    BY <1>0, <1>2, ReturnProgress
  <1>3. ASSUME NEW s \in HookSteps,
               Goto(c, s) \/ call' = [call EXCEPT ![c].seen = status, ![c].step = s],
               s \in {"mark_succeeded", "mark_funded"} => call[c].op = "payment_intent.succeeded",
               s = "mark_failed" => call[c].op = "payment_intent.payment_failed",
               s = "mark_refunded" => call[c].op = "charge.refunded",
               s \in {"find_milestone", "backfill", "confirm_payout"}
                 => call[c].op = "transfer.created",
               s \in {"fail_payout", "reopen"} => call[c].op = "transfer.reversed"
        PROVE  Progress(c)
    <2>1. /\ call' \in [Calls -> Call]
          /\ \A other \in Calls \ {c} : call'[other] = call[other]
          /\ call'[c].step = s /\ call'[c].op = call[c].op /\ call'[c].key = call[c].key
      BY <1>0, <1>3, GotoEffect, SeenEffect DEF Steps
    <2>2. QED
      BY <1>0, <1>1, <1>3, <2>1, HookProgress
  <1>4. CASE ReadSucceeded(c)
    BY <1>3, <1>4 DEF ReadSucceeded, HookSteps
  <1>5. CASE MarkSucceeded(c)
    BY <1>0, <1>3, <1>5 DEF MarkSucceeded, HookFacts, At, HookSteps
  <1>6. CASE ReadFailed(c)
    BY <1>3, <1>6 DEF ReadFailed, HookSteps
  <1>7. CASE ReadRefunded(c)
    BY <1>3, <1>7 DEF ReadRefunded, HookSteps
  <1>8. CASE ReadTransferCreated(c)
    BY <1>3, <1>8 DEF ReadTransferCreated, HookSteps
  <1>9. CASE FindMilestone(c)
    BY <1>0, <1>3, <1>9 DEF FindMilestone, HookFacts, At, HookSteps
  <1>10. CASE ReadTransferReversed(c)
    BY <1>3, <1>10 DEF ReadTransferReversed, HookSteps
  <1>11. CASE FailPayout(c)
    BY <1>0, <1>3, <1>11 DEF FailPayout, HookFacts, At, HookSteps
  <1>12. CASE Goto(c, "hook_close")
    BY <1>3, <1>12 DEF HookSteps
  <1>13. QED
    BY <1>2, <1>4, <1>5, <1>6, <1>7, <1>8, <1>9, <1>10, <1>11, <1>12
       DEF HookStep, MarkFunded, MarkFailed, MarkRefunded, ConfirmPayout, Backfill, Reopen

\* So the calls keep relying on facts, whoever takes the step.
LEMMA CallsStayReliable ==
  ASSUME IInv, [Next]_vars
  PROVE  call' \in [Calls -> Call] /\ CallsRelyOnFacts'
  <1>0. /\ TypeOK /\ call \in [Calls -> Call]
        /\ \A c \in Calls : RequestFacts(c) /\ HookFacts(c)
    BY DEF IInv, TypeOK, CallsRelyOnFacts
  <1>1. ASSUME NEW c \in Calls, Progress(c)
        PROVE  call' \in [Calls -> Call] /\ CallsRelyOnFacts'
    <2>1. \A other \in Calls \ {c} : RequestFacts(other)' /\ HookFacts(other)'
      BY <1>0, <1>1, WaitingCallKeepsFacts DEF Progress
    <2>2. QED
      BY <1>1, <2>1 DEF Progress, CallsRelyOnFacts
  <1>2. CASE call' = call
    BY <1>0, <1>2, WaitingCallKeepsFacts DEF CallsRelyOnFacts
  <1>3. ASSUME NEW c \in Calls, Continue(c)  PROVE Progress(c)
    <2>1. CASE HookClose(c)
      BY <1>0, <2>1, ReturnProgress DEF HookClose
    <2>2. QED
      BY <1>3, <2>1, FundGoesOn, TransferGoesOn, RefundGoesOn, RequestEnds, HookGoesOn
         DEF Continue, HookStep
  <1>4. ASSUME NEW c \in Calls, Fail(c)  PROVE Progress(c)
    BY <1>0, <1>4, ReturnProgress DEF Fail
  <1>5. CASE StripeStep \/ UNCHANGED vars
    <2>1. call' = call
      BY <1>5 DEF StripeStep, IntentSucceeds, IntentDeclined, TransferReverses, vars
    <2>2. QED
      BY <1>2, <2>1
  <1>6. QED
    BY <1>1, <1>3, <1>4, <1>5, RequestStarts, HookStarts DEF Next

-----------------------------------------------------------------------------
(* The invariant, part by part. *)

\* Every action keeps the state in its shape.
LEMMA TypesArePreserved ==
  ASSUME IInv, [Next]_vars
  PROVE  TypeOK'
  <1>0. TypeOK /\ \A c \in Calls : RequestFacts(c) /\ HookFacts(c)
    BY DEF IInv, CallsRelyOnFacts
  <1>1. status' \in MilestoneStatus
    BY <1>0, StatusWriters DEF TypeOK, MilestoneStatus, FundMark, SubmitWrite, TransferCommit,
       DisputeMark, RefundMark, MarkFunded, Backfill, Reopen
  <1>2. payment' \in [FundKeys -> {"none", "PROCESSING", "SUCCEEDED", "FAILED", "REFUNDED"}]
    BY <1>0, PaymentWriters DEF TypeOK, FundInsert, MarkSucceeded, MarkFailed, MarkRefunded,
       SetPayment
  <1>3. paymentLog' \in Seq(FundKeys)
    <2>1. ASSUME NEW c \in Calls, FundInsert(c)  PROVE paymentLog' \in Seq(FundKeys)
      <3>1. call[c].key \in FundKeys
        BY <1>0, <2>1 DEF FundInsert, At, RequestFacts, FundSteps
      <3>2. paymentLog \in Seq(FundKeys) /\ (paymentLog' = paymentLog \/ paymentLog' = Append(paymentLog, call[c].key))
        BY <1>0, <2>1 DEF FundInsert, TypeOK
      <3>3. QED
        BY <3>1, <3>2
    <2>2. paymentLog \in Seq(FundKeys)
      BY <1>0 DEF TypeOK
    <2>3. CASE paymentLog' # paymentLog
      <3>1. PICK c \in Calls : FundInsert(c)
        BY <2>3, PaymentLogWriters
      <3>2. QED
        BY <2>1, <3>1
    <2>4. QED
      BY <2>2, <2>3
  <1>4. payout' \in [TransferKeys -> {"none", "IN_TRANSIT", "PAID", "FAILED"}]
    <2>1. payout \in [TransferKeys -> {"none", "IN_TRANSIT", "PAID", "FAILED"}]
      BY <1>0 DEF TypeOK
    <2>2. CASE payout' # payout
      <3>1. PICK c \in Calls : TransferCommit(c) \/ ConfirmPayout(c) \/ Backfill(c) \/ FailPayout(c)
        BY <2>2, PayoutWriters
      <3>2. \E to \in {"IN_TRANSIT", "PAID", "FAILED"} : payout' = [payout EXCEPT ![call[c].key] = to]
        BY <2>2, <3>1 DEF TransferCommit, ConfirmPayout, Backfill, FailPayout
      <3>3. QED
        BY <2>1, <3>2
    <2>3. QED
      BY <2>1, <2>2
  <1>5. ASSUME NEW c \in Calls, TransferCommit(c) \/ Backfill(c)
        PROVE  call[c].key \in TransferKeys
    <2>1. CASE TransferCommit(c)
      BY <1>0, <2>1 DEF TransferCommit, At, RequestFacts, TransferSteps
    <2>2. CASE Backfill(c)
      BY <1>0, <2>2 DEF Backfill, At, HookFacts, HookSteps, EventOf, Emitted, Event
    <2>3. QED
      BY <1>5, <2>1, <2>2
  <1>6. payoutLog' \in Seq(TransferKeys)
    <2>1. ASSUME NEW c \in Calls, TransferCommit(c) \/ Backfill(c)
          PROVE  payoutLog' = payoutLog \/ payoutLog' = Append(payoutLog, call[c].key)
      BY <2>1 DEF TransferCommit, Backfill
    <2>2. payoutLog \in Seq(TransferKeys)
      BY <1>0 DEF TypeOK
    <2>3. QED
      BY <1>5, <2>1, <2>2, PayoutLogWriters
  <1>7. backfilled' \in SUBSET TransferKeys
    BY <1>0, <1>5, BackfilledWriters DEF TypeOK, Backfill
  <1>8. dispute' \in [Disputes -> {"none", "OPEN", "RESOLVED_RELEASE", "RESOLVED_REFUND"}]
    BY <1>0, DisputeWriters DEF TypeOK, DisputeInsert, RefundClose, ResolveClose, CloseDispute
  <1>9. webhookRow' \in [Event -> {"absent", "recorded", "processed"}]
    <2>1. webhookRow \in [Event -> {"absent", "recorded", "processed"}]
      BY <1>0 DEF TypeOK
    <2>2. ASSUME NEW c \in Calls, NEW e \in Event, HandleStripeWebhook(c, e)
          PROVE  webhookRow' = [webhookRow EXCEPT ![e] = "recorded"]
      BY <2>2 DEF HandleStripeWebhook
    <2>3. ASSUME NEW c \in Calls, HookClose(c)
          PROVE  webhookRow' = [webhookRow EXCEPT ![EventOf(c)] = "processed"]
      BY <2>3 DEF HookClose, EventOf
    <2>4. QED
      BY <2>1, <2>2, <2>3, WebhookWriters
  <1>10. intent' \in [FundKeys -> {"none", "processing", "succeeded", "failed"}]
    BY <1>0, IntentWriters DEF TypeOK, FundStripe, IntentSucceeds, IntentDeclined
  <1>11. reply' \in [FundKeys -> {"none", "processing", "succeeded"}]
    <2>1. ASSUME NEW c \in Calls, FundStripe(c), reply' # reply
          PROVE  \E s \in {"processing", "succeeded"} :
                   reply' = [reply EXCEPT ![call[c].key] = s]
      BY <2>1 DEF FundStripe
    <2>2. QED
      BY <1>0, <2>1, ReplyWriters DEF TypeOK
  <1>12. declined' \in SUBSET FundKeys
    BY <1>0, DeclinedWriters DEF TypeOK, IntentDeclined
  <1>13. transfer' \in [TransferKeys -> {"none", "live", "reversed"}]
    BY <1>0, TransferWriters DEF TypeOK, TransferStripe, TransferReverses
  <1>14. refund' \in [RefundKeys -> FundKeys \cup {NoId}]
    BY <1>0, RefundWriters DEF TypeOK, RefundStripe, At, RequestFacts
  <1>15. call' \in [Calls -> Call]
    BY CallsStayReliable
  <1>16. calm' \in BOOLEAN
    <2>1. \A c \in Calls : Tracked(c) \/ Fail(c) => calm' \in BOOLEAN
      BY DEF Tracked, Fail
    <2>2. StripeStep => calm' = calm
      BY DEF StripeStep, IntentSucceeds, IntentDeclined, TransferReverses
    <2>3. QED
      BY <1>0, <2>1, <2>2 DEF Next, vars, TypeOK
  <1>17. QED
    BY <1>1, <1>2, <1>3, <1>4, <1>6, <1>7, <1>8, <1>9, <1>10, <1>11, <1>12, <1>13, <1>14,
       <1>15, <1>16 DEF TypeOK

\* The facts that the blind writes of the status rely on are those of their call.
LEMMA StatusStaysBacked ==
  ASSUME IInv, [Next]_vars
  PROVE  StatusBackedByStripe'
  <1>0. TypeOK /\ \A c \in Calls : RequestFacts(c) /\ HookFacts(c)
    BY DEF IInv, CallsRelyOnFacts
  <1>1. CASE status' = status
    BY <1>0, <1>1, MoneyIsMonotone DEF IInv, StatusBackedByStripe
  <1>2. ASSUME NEW c \in Calls, FundMark(c)  PROVE StatusBackedByStripe'
    <2>1. call[c].key \in FundKeys
      BY <1>0, <1>2 DEF FundMark, At, RequestFacts, FundSteps
    <2>2. reply[call[c].key] = "succeeded" => Charged'
      BY <1>0, <2>1, StripeIsMonotone DEF IInv, StripeConsistent, Charged
    <2>3. QED
      BY <1>2, <2>2 DEF FundMark, StatusBackedByStripe
  <1>3. ASSUME NEW c \in Calls, SubmitWrite(c)  PROVE StatusBackedByStripe'
    BY <1>0, <1>3, MoneyIsMonotone DEF SubmitWrite, At, RequestFacts, StatusBackedByStripe
  <1>4. ASSUME NEW c \in Calls, TransferCommit(c), status' # status
        PROVE  StatusBackedByStripe'
    <2>1. Transferred
      BY <1>0, <1>4 DEF TransferCommit, At, RequestFacts, TransferSteps, Transferred
    <2>2. QED
      BY <1>0, <1>4, <2>1, MoneyIsMonotone DEF TransferCommit, StatusBackedByStripe
  <1>5. ASSUME NEW c \in Calls, DisputeMark(c)  PROVE StatusBackedByStripe'
    BY <1>5 DEF DisputeMark, StatusBackedByStripe
  <1>6. ASSUME NEW c \in Calls, RefundMark(c)  PROVE StatusBackedByStripe'
    BY <1>0, <1>6, MoneyIsMonotone DEF RefundMark, At, RequestFacts, StatusBackedByStripe
  <1>7. ASSUME NEW c \in Calls, MarkFunded(c)  PROVE StatusBackedByStripe'
    <2>1. Charged
      BY <1>0, <1>7 DEF MarkFunded, At, HookFacts, HookSteps, EventOf, Emitted, Event, Charged
    <2>2. QED
      BY <1>0, <1>7, <2>1, MoneyIsMonotone DEF MarkFunded, StatusBackedByStripe
  <1>8. ASSUME NEW c \in Calls, Backfill(c) \/ Reopen(c), status' # status
        PROVE  StatusBackedByStripe'
    <2>1. Transferred
      BY <1>0, <1>8 DEF Backfill, Reopen, At, HookFacts, HookSteps, EventOf, Emitted, Event,
         Transferred
    <2>2. QED
      BY <1>0, <1>8, <2>1, MoneyIsMonotone DEF Backfill, Reopen, StatusBackedByStripe
  <1>9. QED
    BY <1>1, <1>2, <1>3, <1>4, <1>5, <1>6, <1>7, <1>8, StatusWriters

\* A row written is never deleted.
LEMMA RowsStay ==
  ASSUME IInv, [Next]_vars
  PROVE  /\ \A k \in FundKeys : payment[k] # "none" => payment'[k] # "none"
         /\ \A k \in TransferKeys : payout[k] # "none" => payout'[k] # "none"
  <1>0. TypeOK
    BY DEF IInv
  <1>1. \A k \in FundKeys : payment[k] # "none" => payment'[k] # "none"
    BY <1>0, PaymentWriters DEF TypeOK, FundInsert, MarkSucceeded, MarkFailed, MarkRefunded,
       SetPayment
  <1>2. \A k \in TransferKeys : payout[k] # "none" => payout'[k] # "none"
    BY <1>0, PayoutWriters DEF TypeOK, TransferCommit, ConfirmPayout, Backfill, FailPayout
  <1>3. QED
    BY <1>1, <1>2

\* A log that lists only rows that exist gains only a row that did not.
LEMMA AppendKeepsUnique ==
  ASSUME NEW S, NEW log \in Seq(S), NEW k \in S,
         \A i, j \in DOMAIN log : log[i] = log[j] => i = j,
         \A i \in DOMAIN log : log[i] # k
  PROVE  \A i, j \in DOMAIN Append(log, k) : Append(log, k)[i] = Append(log, k)[j] => i = j
  OBVIOUS

\* A log with one more entry lists what it did and the new entry.
LEMMA AppendLists ==
  ASSUME NEW S, NEW log \in Seq(S), NEW k \in S, NEW P,
         \A i \in DOMAIN log : log[i] \in P, k \in P
  PROVE  \A i \in DOMAIN Append(log, k) : Append(log, k)[i] \in P
  OBVIOUS

\* A row is logged when it is inserted, and rows are never deleted.
LEMMA LogsStayFaithful ==
  ASSUME IInv, [Next]_vars
  PROVE  LogsListRows' /\ RowsAreUnique'
  <1>0. /\ TypeOK /\ LogsListRows /\ RowsAreUnique
        /\ paymentLog \in Seq(FundKeys) /\ payoutLog \in Seq(TransferKeys)
        /\ \A c \in Calls : RequestFacts(c) /\ HookFacts(c)
    BY DEF IInv, CallsRelyOnFacts, TypeOK
  <1> DEFINE paid == {k \in FundKeys : payment[k] # "none"}
             out  == {k \in TransferKeys : payout[k] # "none"}
  <1>1. /\ \A i \in DOMAIN paymentLog : paymentLog[i] \in paid
        /\ \A i \in DOMAIN payoutLog : payoutLog[i] \in out
    BY <1>0 DEF LogsListRows
  <1>2. paid \subseteq paid' /\ out \subseteq out'
    BY RowsStay
  <1>3. /\ \A i \in DOMAIN paymentLog' : paymentLog'[i] \in paid'
        /\ \A i, j \in DOMAIN paymentLog' : paymentLog'[i] = paymentLog'[j] => i = j
    <2>1. CASE paymentLog' = paymentLog
      BY <1>0, <1>1, <1>2, <2>1 DEF RowsAreUnique
    <2>2. CASE paymentLog' # paymentLog
      <3>1. PICK c \in Calls : FundInsert(c)
        BY <2>2, PaymentLogWriters
      <3>2. call[c].key \in FundKeys
        BY <1>0, <3>1 DEF FundInsert, At, RequestFacts, FundSteps
      <3>3. /\ paymentLog' = Append(paymentLog, call[c].key)
            /\ call[c].key \notin paid /\ payment'[call[c].key] # "none"
        BY <1>0, <2>2, <3>1, <3>2 DEF FundInsert, TypeOK
      <3>4. \A i \in DOMAIN paymentLog : paymentLog[i] # call[c].key
        BY <1>1, <3>3
      <3>5. /\ \A i \in DOMAIN paymentLog : paymentLog[i] \in paid'
            /\ call[c].key \in paid'
        BY <1>1, <1>2, <3>2, <3>3
      <3> HIDE DEF paid, out
      <3>6. \A i \in DOMAIN paymentLog' : paymentLog'[i] \in paid'
        BY <1>0, <3>2, <3>3, <3>5, AppendLists
      <3>7. \A i, j \in DOMAIN paymentLog' : paymentLog'[i] = paymentLog'[j] => i = j
        BY <1>0, <3>2, <3>3, <3>4, AppendKeepsUnique DEF RowsAreUnique
      <3>8. QED
        BY <3>6, <3>7
    <2>3. QED
      BY <2>1, <2>2
  <1>4. /\ \A i \in DOMAIN payoutLog' : payoutLog'[i] \in out'
        /\ \A i, j \in DOMAIN payoutLog' : payoutLog'[i] = payoutLog'[j] => i = j
    <2>1. CASE payoutLog' = payoutLog
      BY <1>0, <1>1, <1>2, <2>1 DEF RowsAreUnique
    <2>2. CASE payoutLog' # payoutLog
      <3>1. PICK c \in Calls : TransferCommit(c) \/ Backfill(c)
        BY <2>2, PayoutLogWriters
      <3>2. call[c].key \in TransferKeys
        BY <1>0, <3>1 DEF TransferCommit, Backfill, At, RequestFacts, TransferSteps,
           HookFacts, HookSteps, EventOf, Emitted, Event
      <3>3. /\ payoutLog' = Append(payoutLog, call[c].key)
            /\ call[c].key \notin out /\ payout'[call[c].key] # "none"
        BY <1>0, <2>2, <3>1, <3>2 DEF TransferCommit, Backfill, TypeOK
      <3>4. \A i \in DOMAIN payoutLog : payoutLog[i] # call[c].key
        BY <1>1, <3>3
      <3>5. /\ \A i \in DOMAIN payoutLog : payoutLog[i] \in out'
            /\ call[c].key \in out'
        BY <1>1, <1>2, <3>2, <3>3
      <3> HIDE DEF paid, out
      <3>6. \A i \in DOMAIN payoutLog' : payoutLog'[i] \in out'
        BY <1>0, <3>2, <3>3, <3>5, AppendLists
      <3>7. \A i, j \in DOMAIN payoutLog' : payoutLog'[i] = payoutLog'[j] => i = j
        BY <1>0, <3>2, <3>3, <3>4, AppendKeepsUnique DEF RowsAreUnique
      <3>8. QED
        BY <3>6, <3>7
    <2>3. QED
      BY <2>1, <2>2
  <1>5. QED
    BY <1>3, <1>4 DEF LogsListRows, RowsAreUnique

\* Each write of a row is backed by the fact its call relies on.
LEMMA RowsStayBacked ==
  ASSUME IInv, [Next]_vars
  PROVE  RowsBackedByStripe'
  <1>0. /\ TypeOK /\ RowsBackedByStripe
        /\ \A c \in Calls : RequestFacts(c) /\ HookFacts(c)
    BY DEF IInv, CallsRelyOnFacts
  <1>1. ASSUME NEW k \in FundKeys
        PROVE  /\ payment'[k] # "none" => intent'[k] # "none"
               /\ payment'[k] = "SUCCEEDED" => intent'[k] = "succeeded"
               /\ payment'[k] = "FAILED" => k \in declined'
               /\ payment'[k] = "REFUNDED" => \E r \in RefundKeys : refund'[r] = k
    <2>0. ASSUME NEW r \in RefundKeys, refund[r] = k  PROVE refund'[r] = k
      BY <1>0, <2>0, NoIdAssumption, StripeIsMonotone DEF Keys
    <2>1. CASE payment'[k] = payment[k]
      BY <1>0, <2>0, <2>1, StripeIsMonotone DEF RowsBackedByStripe
    <2>2. CASE payment'[k] # payment[k]
      <3>1. PICK c \in Calls : FundInsert(c) \/ MarkSucceeded(c) \/ MarkFailed(c) \/ MarkRefunded(c)
        BY <2>2, PaymentWriters
      <3>2. call[c].key = k
        BY <1>0, <2>2, <3>1 DEF TypeOK, FundInsert, MarkSucceeded, MarkFailed, MarkRefunded,
           SetPayment
      <3>3. CASE FundInsert(c)
        <4>1. intent[k] # "none" /\ intent' = intent
          BY <1>0, <3>2, <3>3 DEF FundInsert, At, RequestFacts, stripe
        <4>2. payment'[k] = IF reply[k] = "succeeded" THEN "SUCCEEDED" ELSE "PROCESSING"
          BY <1>0, <2>2, <3>2, <3>3 DEF FundInsert, TypeOK
        <4>3. QED
          BY <4>1, <4>2 DEF IInv, StripeConsistent
      <3>4. CASE MarkSucceeded(c)
        <4>1. EventOf(c) \in Emitted /\ call[c].op = "payment_intent.succeeded"
          BY <1>0, <3>4 DEF MarkSucceeded, At, HookFacts, HookSteps
        <4>2. intent[k] = "succeeded"
          BY <3>2, <4>1 DEF Emitted, EventOf
        <4>3. payment'[k] = "SUCCEEDED"
          BY <1>0, <3>2, <3>4 DEF MarkSucceeded, SetPayment, TypeOK
        <4>4. QED
          BY <1>0, <4>2, <4>3, StripeIsMonotone
      <3>5. CASE MarkFailed(c)
        <4>1. EventOf(c) \in Emitted /\ call[c].op = "payment_intent.payment_failed"
          BY <1>0, <3>5 DEF MarkFailed, At, HookFacts, HookSteps
        <4>2. k \in declined
          BY <3>2, <4>1 DEF Emitted, EventOf
        <4>3. payment'[k] = "FAILED"
          BY <1>0, <3>2, <3>5 DEF MarkFailed, SetPayment, TypeOK
        <4>4. QED
          BY <1>0, <4>2, <4>3, StripeIsMonotone DEF IInv, StripeConsistent
      <3>6. CASE MarkRefunded(c)
        <4>1. EventOf(c) \in Emitted /\ call[c].op = "charge.refunded"
          BY <1>0, <3>6 DEF MarkRefunded, At, HookFacts, HookSteps
        <4>2. PICK r \in RefundKeys : refund[r] = k
          BY <3>2, <4>1 DEF Emitted, EventOf
        <4>3. refund[r] # NoId /\ intent[k] = "succeeded"
          BY <4>2, NoIdAssumption DEF IInv, StripeConsistent, Keys
        <4>4. payment'[k] = "REFUNDED"
          BY <1>0, <3>2, <3>6 DEF MarkRefunded, SetPayment, TypeOK
        <4>5. QED
          BY <1>0, <2>0, <4>2, <4>3, <4>4, StripeIsMonotone
      <3>7. QED
        BY <3>1, <3>3, <3>4, <3>5, <3>6
    <2>3. QED
      BY <2>1, <2>2
  <1>2. ASSUME NEW k \in TransferKeys
        PROVE  /\ payout'[k] # "none" => transfer'[k] # "none"
               /\ payout'[k] = "FAILED" => transfer'[k] = "reversed"
    <2>1. CASE payout'[k] = payout[k]
      BY <1>0, <2>1, StripeIsMonotone DEF RowsBackedByStripe
    <2>2. CASE payout'[k] # payout[k]
      <3>1. PICK c \in Calls :
              TransferCommit(c) \/ ConfirmPayout(c) \/ Backfill(c) \/ FailPayout(c)
        BY <2>2, PayoutWriters
      <3>2. call[c].key = k
        BY <1>0, <2>2, <3>1 DEF TypeOK, TransferCommit, ConfirmPayout, Backfill, FailPayout
      <3>3. CASE TransferCommit(c)
        <4>1. transfer[k] # "none" /\ payout'[k] = "IN_TRANSIT"
          BY <1>0, <2>2, <3>2, <3>3 DEF TransferCommit, At, RequestFacts, TypeOK
        <4>2. QED
          BY <1>0, <4>1, StripeIsMonotone
      <3>4. CASE ConfirmPayout(c) \/ Backfill(c)
        <4>1. EventOf(c) \in Emitted /\ call[c].op = "transfer.created"
          BY <1>0, <3>4 DEF ConfirmPayout, Backfill, At, HookFacts, HookSteps
        <4>2. transfer[k] # "none"
          BY <3>2, <4>1 DEF Emitted, EventOf
        <4>3. payout'[k] = "PAID"
          BY <1>0, <2>2, <3>2, <3>4 DEF ConfirmPayout, Backfill, TypeOK
        <4>4. QED
          BY <1>0, <4>2, <4>3, StripeIsMonotone
      <3>5. CASE FailPayout(c)
        <4>1. EventOf(c) \in Emitted /\ call[c].op = "transfer.reversed"
          BY <1>0, <3>5 DEF FailPayout, At, HookFacts, HookSteps
        <4>2. transfer[k] = "reversed"
          BY <3>2, <4>1 DEF Emitted, EventOf
        <4>3. QED
          BY <1>0, <4>2, StripeIsMonotone
      <3>6. QED
        BY <3>1, <3>3, <3>4, <3>5
    <2>3. QED
      BY <2>1, <2>2
  <1>3. ASSUME NEW d \in Disputes
        PROVE  /\ dispute'[d] = "RESOLVED_RELEASE" => Transferred'
               /\ dispute'[d] = "RESOLVED_REFUND" => Refunded'
    <2>1. CASE dispute'[d] = dispute[d]
      BY <1>0, <2>1, MoneyIsMonotone DEF RowsBackedByStripe
    <2>2. CASE dispute'[d] # dispute[d]
      <3>1. PICK c \in Calls : DisputeInsert(c) \/ RefundClose(c) \/ ResolveClose(c)
        BY <2>2, DisputeWriters
      <3>2. CASE DisputeInsert(c)
        BY <1>0, <2>2, <3>2 DEF DisputeInsert, TypeOK
      <3>3. CASE RefundClose(c)
        <4>1. dispute'[d] = "RESOLVED_REFUND" /\ At(c, "refund_close")
          BY <1>0, <2>2, <3>3 DEF RefundClose, CloseDispute, TypeOK
        <4>2. QED
          BY <1>0, <4>1, MoneyIsMonotone DEF At, RequestFacts
      <3>4. CASE ResolveClose(c)
        <4>1. dispute'[d] = "RESOLVED_RELEASE" /\ At(c, "resolve_close")
          BY <1>0, <2>2, <3>4 DEF ResolveClose, CloseDispute, TypeOK
        <4>2. QED
          BY <1>0, <4>1, MoneyIsMonotone DEF At, RequestFacts
      <3>5. QED
        BY <3>1, <3>2, <3>3, <3>4
    <2>3. QED
      BY <2>1, <2>2
  <1>4. QED
    BY <1>1, <1>2, <1>3 DEF RowsBackedByStripe

\* A call in flight keeps its event until it is done.
LEMMA StepKeepsEvent ==
  ASSUME TypeOK, NEW c \in Calls, Continue(c)
  PROVE  \/ call'[c] = Idle
         \/ /\ call'[c].op = call[c].op /\ call'[c].key = call[c].key
            /\ call'[c].step \in HookSteps => call[c].step \in HookSteps
  <1>0. call \in [Calls -> Call]
    BY DEF TypeOK
  <1>1. ASSUME NEW s \in Steps, Goto(c, s)
        PROVE  call'[c].op = call[c].op /\ call'[c].key = call[c].key /\ call'[c].step = s
    BY <1>0, <1>1, GotoEffect
  <1>2. CASE call[c].step \in HookSteps
    <2>1. ASSUME NEW s \in Steps, call' = [call EXCEPT ![c].seen = status, ![c].step = s]
          PROVE  call'[c].op = call[c].op /\ call'[c].key = call[c].key
      BY <2>1, SeenEffect
    <2>2. CASE HookStep(c) \/ HookClose(c)
      BY <1>0, <1>1, <1>2, <2>1, <2>2, ReturnEffect
         DEF HookStep, ReadSucceeded, MarkSucceeded, MarkFunded, ReadFailed, MarkFailed,
         ReadRefunded, MarkRefunded, ReadTransferCreated, ConfirmPayout, FindMilestone, Backfill,
         ReadTransferReversed, FailPayout, Reopen, HookClose, Steps, HookSteps
    <2>3. QED
      BY <1>2, <2>2 DEF Continue, HookStep, HookSteps, At, FundCheck, FundStripe, FundInsert,
         FundMark, SubmitWrite, TransferCheck, TransferStripe, TransferCommit, ResolveClose,
         DisputeInsert, DisputeMark, RefundPick, RefundStripe, RefundMark, RefundClose,
         CloseDispute
  <1>3. CASE call[c].step \notin HookSteps
    <2>1. ASSUME NEW s \in RequestSteps, Goto(c, s)
          PROVE  /\ call'[c].op = call[c].op /\ call'[c].key = call[c].key
                 /\ call'[c].step \notin HookSteps
      BY <1>1, <2>1 DEF Steps, RequestSteps, HookSteps
    <2>2. CASE Return(c)
      BY <1>0, <2>2, ReturnEffect
    <2>3. CASE RefundPick(c) /\ ~Return(c)
      <3>1. PICK k \in FundKeys :
              call' = [call EXCEPT ![c].step = "refund_stripe", ![c].intent = k]
        BY <2>3 DEF RefundPick
      <3> DEFINE next == [call[c] EXCEPT !.step = "refund_stripe", !.intent = k]
      <3>2. call' = [call EXCEPT ![c] = next]
        BY <1>0, <3>1
      <3>3. /\ next.op = call[c].op /\ next.key = call[c].key
            /\ next.step = "refund_stripe"
        BY <1>0 DEF Call
      <3> HIDE DEF next
      <3>4. call'[c] = next
        BY <1>0, <3>2
      <3>5. QED
        BY <3>3, <3>4 DEF HookSteps
    <2>4. CASE ~HookStep(c) /\ ~HookClose(c) /\ ~RefundPick(c)
      <3>1. Return(c) \/ \E s \in RequestSteps : Goto(c, s)
        BY <2>4 DEF Continue, HookStep, FundCheck, FundStripe, FundInsert, FundMark, SubmitWrite,
           TransferCheck, TransferStripe, TransferCommit, ResolveClose, AfterTransfer,
           DisputeInsert, DisputeMark, RefundStripe, RefundMark, RefundClose, CloseDispute,
           RequestSteps
      <3>2. QED
        BY <2>1, <2>2, <3>1
    <2>5. ~HookStep(c) /\ ~HookClose(c)
      BY <1>3 DEF HookStep, ReadSucceeded, MarkSucceeded, MarkFunded, ReadFailed, MarkFailed,
         ReadRefunded, MarkRefunded, ReadTransferCreated, ConfirmPayout, FindMilestone, Backfill,
         ReadTransferReversed, FailPayout, Reopen, HookClose, At, HookSteps
    <2>6. QED
      BY <2>2, <2>3, <2>4, <2>5
  <1>4. QED
    BY <1>2, <1>3

\* A call comes to handle an event only by the delivery that records it.
LEMMA OnlyDeliveryStartsHandling ==
  ASSUME IInv, [Next]_vars, NEW c \in Calls, NEW e \in Event, Handling(c, e)'
  PROVE  Handling(c, e) \/ HandleStripeWebhook(c, e)
  <1>0. TypeOK /\ call \in [Calls -> Call]
    BY DEF IInv, TypeOK
  <1>1. ASSUME call'[c] = call[c]  PROVE Handling(c, e)
    BY <1>1 DEF Handling
  <1>2. ASSUME NEW other \in Calls, Request(other)  PROVE Handling(c, e)
    <2>1. call'[other].step \in RequestSteps
      <3>1. ASSUME NEW s \in RequestSteps, NEW op, NEW k, NEW d, Begin(other, s, op, k, d)
            PROVE  call'[other].step = s
        BY <1>0, <3>1 DEF Begin
      <3>2. QED
        BY <1>2, <3>1 DEF Request, Fund, Submit, Release, RaiseDispute, ResolveRelease,
           ResolveRefund, RequestSteps
    <2>2. c # other
      BY <2>1 DEF Handling, RequestSteps, HookSteps
    <2>3. QED
      BY <1>1, <1>2, <2>2, RequestStarts DEF Progress
  <1>3. ASSUME NEW other \in Calls, Continue(other)  PROVE Handling(c, e)
    <2>1. CASE c = other
      <3>1. call'[c] # Idle
        BY DEF Handling, Idle, HookSteps
      <3>2. QED
        BY <1>0, <1>3, <2>1, <3>1, StepKeepsEvent DEF Handling
    <2>2. CASE c # other
      <3>1. Progress(other)
        <4>1. CASE HookClose(other)
          BY <1>0, <4>1, ReturnProgress DEF HookClose
        <4>2. QED
          BY <1>3, <4>1, FundGoesOn, TransferGoesOn, RefundGoesOn, RequestEnds, HookGoesOn
             DEF Continue, HookStep
      <3>2. QED
        BY <1>1, <2>2, <3>1 DEF Progress
    <2>3. QED
      BY <2>1, <2>2
  <1>4. ASSUME NEW other \in Calls, Fail(other)  PROVE Handling(c, e)
    <2>1. c # other
      BY <1>0, <1>4, ReturnEffect DEF Fail, Handling, HookSteps
    <2>2. QED
      BY <1>0, <1>1, <1>4, <2>1, ReturnEffect DEF Fail
  <1>5. ASSUME NEW other \in Calls, NEW e2 \in Event, HandleStripeWebhook(other, e2)
        PROVE  Handling(c, e) \/ HandleStripeWebhook(c, e)
    <2>1. CASE c = other
      <3>1. e2.type = e.type /\ e2.key = e.key
        BY <1>5, <2>1, HookStarts DEF Handling, EventOf
      <3>2. e2 = e
        BY <3>1 DEF Event
      <3>3. QED
        BY <1>5, <2>1, <3>2
    <2>2. CASE c # other
      BY <1>1, <1>5, <2>2, HookStarts DEF Progress
    <2>3. QED
      BY <2>1, <2>2
  <1>6. CASE StripeStep \/ UNCHANGED vars
    <2>1. call' = call
      BY <1>6 DEF StripeStep, IntentSucceeds, IntentDeclined, TransferReverses, vars
    <2>2. QED
      BY <1>1, <2>1
  <1>7. QED
    BY <1>2, <1>3, <1>4, <1>5, <1>6 DEF Next

\* The unique event id lets one delivery through, whatever else happens.
LEMMA EventsStayHandledOnce ==
  ASSUME IInv, [Next]_vars
  PROVE  EventHandledOnce'
  <1>0. TypeOK /\ EventHandledOnce /\ call \in [Calls -> Call]
    BY DEF IInv, TypeOK
  <1>1. SUFFICES ASSUME NEW e \in Event, NEW c \in Calls, Handling(c, e)'
                 PROVE  /\ webhookRow'[e] = "recorded"
                        /\ \A other \in Calls : Handling(other, e)' => other = c
    BY DEF EventHandledOnce
  <1>2. CASE HandleStripeWebhook(c, e)
    <2>1. webhookRow'[e] = "recorded" /\ webhookRow[e] = "absent"
      BY <1>0, <1>2 DEF HandleStripeWebhook, TypeOK
    <2>2. ASSUME NEW other \in Calls, Handling(other, e)', other # c  PROVE FALSE
      <3>1. ~Handling(other, e)
        BY <1>0, <2>1 DEF EventHandledOnce
      <3>2. call'[other] = call[other]
        BY <1>2, <2>2, HookStarts DEF Progress
      <3>3. QED
        BY <2>2, <3>1, <3>2 DEF Handling
    <2>3. QED
      BY <2>1, <2>2
  <1>3. CASE Handling(c, e)
    <2>1. webhookRow[e] = "recorded"
      BY <1>0, <1>3 DEF EventHandledOnce
    <2>2. ~\E other \in Calls : HandleStripeWebhook(other, e)
      BY <2>1 DEF HandleStripeWebhook
    <2>3. ASSUME NEW other \in Calls, Handling(other, e)'  PROVE other = c
      BY <1>0, <1>3, <2>2, <2>3, OnlyDeliveryStartsHandling DEF EventHandledOnce
    <2>4. webhookRow'[e] = "recorded"
      <3>1. ASSUME NEW other \in Calls, HookClose(other)  PROVE EventOf(other) # e
        <4>1. SUFFICES ASSUME EventOf(other) = e  PROVE FALSE
          OBVIOUS
        <4>2. Handling(other, e)
          BY <3>1, <4>1 DEF Handling, EventOf, HookClose, At, HookSteps
        <4>3. other = c
          BY <1>0, <1>3, <4>2 DEF EventHandledOnce
        <4>4. QED
          BY <1>0, <1>1, <3>1, <4>3, ReturnEffect DEF HookClose, Handling, HookSteps
      <3>2. QED
        BY <1>0, <2>1, <2>2, <3>1, WebhookWriters DEF HookClose, HandleStripeWebhook, EventOf,
           TypeOK
    <2>5. QED
      BY <2>3, <2>4
  <1>4. QED
    BY <1>2, <1>3, <1>1, OnlyDeliveryStartsHandling

-----------------------------------------------------------------------------
(* The theorems. *)

\* A new milestone, of which Stripe knows nothing, satisfies the invariant.
LEMMA InitEstablishesIInv == Init => IInv
  <1> SUFFICES ASSUME Init  PROVE IInv
    OBVIOUS
  <1>1. TypeOK
    BY DEF Init, TypeOK, Call, Idle, MilestoneStatus
  <1>2. \A c \in Calls : call[c].step = "idle"
    BY DEF Init, Idle
  <1>3. CallsRelyOnFacts
    BY <1>2 DEF CallsRelyOnFacts, RequestFacts, HookFacts, FundSteps, TransferSteps, RefundSteps,
       HookSteps
  <1>4. EventHandledOnce
    BY <1>2 DEF EventHandledOnce, Handling, HookSteps
  <1>5. StripeConsistent /\ LogsListRows /\ StatusBackedByStripe /\ RowsBackedByStripe /\ RowsAreUnique
    BY DEF Init, StripeConsistent, LogsListRows, StatusBackedByStripe, RowsBackedByStripe,
       RowsAreUnique
  <1>6. QED
    BY <1>1, <1>3, <1>4, <1>5 DEF IInv

\* And every step, of whichever call or of Stripe, keeps it.
LEMMA StepKeepsIInv == IInv /\ [Next]_vars => IInv'
  BY TypesArePreserved, StripeStaysConsistent, LogsStayFaithful, CallsStayReliable,
     StatusStaysBacked, RowsStayBacked, EventsStayHandledOnce DEF IInv

\* IInv holds in every reachable state: of any number of overlapping requests
\* and deliveries, with failures at any await.
THEOREM InvariantHolds == Spec => []IInv
  BY InitEstablishesIInv, StepKeepsIInv, PTL DEF Spec

\* Every variable stays in its type.
THEOREM TypeCorrect == Spec => []TypeOK
  BY InvariantHolds, PTL DEF IInv

\* The milestone never says FUNDED, RELEASED or REFUNDED before the money moved.
THEOREM StatusNeverAheadOfMoney == Spec => []StatusBackedByStripe
  BY InvariantHolds, PTL DEF IInv

\* Payment, payout and dispute rows never tell of money that did not move.
THEOREM RowsNeverAheadOfMoney == Spec => []RowsBackedByStripe
  BY InvariantHolds, PTL DEF IInv

\* No webhook event is handled by two deliveries or again after it is processed.
THEOREM EventsHandledOnce == Spec => []EventHandledOnce
  BY InvariantHolds, PTL DEF IInv

\* No Stripe object gets two rows, so the logs are in creation order without repetition.
THEOREM NoDuplicateRows == Spec => []RowsAreUnique
  BY InvariantHolds, PTL DEF IInv

-----------------------------------------------------------------------------
(* Until a call overtakes another or dies halfway, SInv's checks are       *)
(* inductive, for every number of calls, keys and disputes and whatever    *)
(* Stripe does in the meantime: the developer is paid once, an open        *)
(* dispute blocks the release, and the rows follow their lifecycle.        *)

\* What SInv says of the rows alone, and of one call.
Settled  == PayoutsStand /\ RefundsMark /\ DisputesMark
Holds(c) == RequestHolds(c) /\ HookHolds(c)
Checked  == IInv /\ ChecksHold

\* The other calls wait; and where this one writes, there is none.
Others(c) == \A d \in Calls \ {c} : call'[d] = call[d]
Alone(c)  == \A d \in Calls \ {c} : call[d].step = "idle" /\ call'[d].step = "idle"
Tame(c)   == Others(c) /\ (call[c].step \notin Reads => Alone(c))

\* A step elsewhere than halfway that leaves the status, the payouts, the
\* disputes and Stripe's objects alone keeps the rows settled.
LEMMA QuietStep ==
  ASSUME TypeOK, Settled, NEW c \in Calls, call[c].step \notin Halfway, Others(c),
         UNCHANGED <<status, payout, dispute, transfer, refund>>,
         \A e \in Event : webhookRow[e] # "absent" => webhookRow'[e] # "absent"
  PROVE  Settled'
  <1>1. \A d \in Calls : call[d].step \in Halfway => d # c /\ call'[d] = call[d]
    BY DEF Others
  <1>2. PayoutsStand'
    <2>1. \A k \in TransferKeys : [type |-> "transfer.reversed", key |-> k] \in Event
      BY DEF Event
    <2>2. Standing' = Standing
      BY DEF Standing
    <2>3. QED
      BY <1>1, <2>1, <2>2 DEF Settled, PayoutsStand, Halfway, At
  <1>3. RefundsMark'
    BY <1>1 DEF Settled, RefundsMark, Halfway, At, Refunded
  <1>4. DisputesMark'
    BY <1>1 DEF Settled, DisputesMark, Halfway
  <1>5. QED
    BY <1>2, <1>3, <1>4 DEF Settled

\* A call that has returned relies on nothing.
LEMMA IdleHolds ==
  ASSUME NEW c \in Calls, call'[c].step = "idle"
  PROVE  Holds(c)'
  BY DEF Holds, RequestHolds, HookHolds, FundSteps, TransferSteps

\* A request starts with its check, and the rows are as they were.
LEMMA RequestHoldsItsCheck ==
  ASSUME TypeOK, Settled, NEW c \in Calls, Request(c), Others(c)
  PROVE  Settled' /\ Holds(c)'
  <1>0. call \in [Calls -> Call]
    BY DEF TypeOK
  <1>1. ASSUME NEW s \in Steps, NEW op \in Requests \cup EventTypes, NEW k \in Keys \cup {NoId},
               NEW d \in Disputes \cup {NoId}, Begin(c, s, op, k, d), UNCHANGED <<db, stripe>>
        PROVE  /\ Settled'
               /\ call'[c].step = s /\ call'[c].op = op /\ call'[c].dispute = d
               /\ UNCHANGED <<status, dispute>>
    <2>1. call[c].step = "idle"
      BY <1>1 DEF Begin, Idle
    <2>2. Settled'
      BY <1>1, <2>1, QuietStep DEF Halfway, db, stripe
    <2>3. QED
      BY <1>0, <1>1, <2>2, BeginEffect DEF db
  <1>2. ASSUME NEW k \in FundKeys, Fund(c, k)  PROVE Settled' /\ Holds(c)'
    <2>1. "fund_check" \in Steps /\ "fund" \in Requests \cup EventTypes /\ k \in Keys \cup {NoId}
      BY DEF Steps, RequestSteps, Requests, Keys
    <2>2. QED
      BY <1>1, <1>2, <2>1 DEF Fund, Holds, RequestHolds, HookHolds, FundSteps, TransferSteps
  <1>3. CASE Submit(c)
    <2>1. "submit_write" \in Steps /\ "submit" \in Requests \cup EventTypes
      BY DEF Steps, RequestSteps, Requests
    <2>2. QED
      BY <1>1, <1>3, <2>1 DEF Submit, Holds, RequestHolds, HookHolds, FundSteps, TransferSteps
  <1>4. ASSUME NEW k \in TransferKeys, Release(c, k)  PROVE Settled' /\ Holds(c)'
    <2>1. "transfer_check" \in Steps /\ "release" \in Requests \cup EventTypes /\ k \in Keys \cup {NoId}
      BY DEF Steps, RequestSteps, Requests, Keys
    <2>2. QED
      BY <1>1, <1>4, <2>1 DEF Release, Holds, RequestHolds, HookHolds, FundSteps, TransferSteps
  <1>5. ASSUME NEW d \in Disputes, RaiseDispute(c, d)  PROVE Settled' /\ Holds(c)'
    <2>1. "dispute_insert" \in Steps /\ "dispute" \in Requests \cup EventTypes
      BY DEF Steps, RequestSteps, Requests
    <2>2. status \in {"PENDING", "FUNDED", "SUBMITTED"}
      BY <1>5 DEF RaiseDispute, TypeOK, MilestoneStatus
    <2>3. QED
      BY <1>1, <1>5, <2>1, <2>2 DEF RaiseDispute, Holds, RequestHolds, HookHolds, FundSteps, TransferSteps
  <1>6. ASSUME NEW d \in Disputes, NEW k \in TransferKeys, ResolveRelease(c, d, k)
        PROVE  Settled' /\ Holds(c)'
    <2>1. /\ "transfer_check" \in Steps /\ "resolve_release" \in Requests \cup EventTypes
          /\ k \in Keys \cup {NoId}
      BY DEF Steps, RequestSteps, Requests, Keys
    <2>2. QED
      BY <1>1, <1>6, <2>1 DEF ResolveRelease, Holds, RequestHolds, HookHolds, FundSteps, TransferSteps
  <1>7. ASSUME NEW d \in Disputes, NEW k \in RefundKeys, ResolveRefund(c, d, k)
        PROVE  Settled' /\ Holds(c)'
    <2>1. /\ "refund_pick" \in Steps /\ "resolve_refund" \in Requests \cup EventTypes
          /\ k \in Keys \cup {NoId}
      BY DEF Steps, RequestSteps, Requests, Keys
    <2>2. QED
      BY <1>1, <1>7, <2>1 DEF ResolveRefund, Holds, RequestHolds, HookHolds, FundSteps, TransferSteps
  <1>8. QED
    BY <1>2, <1>3, <1>4, <1>5, <1>6, <1>7 DEF Request

-----------------------------------------------------------------------------
(* Every await keeps the call's check true and the rows settled. *)

\* What the invariant gives of a call.
LEMMA OneCall ==
  ASSUME Checked, NEW c \in Calls, Tame(c)
  PROVE  /\ TypeOK /\ call \in [Calls -> Call] /\ Settled /\ Holds(c)
         /\ RequestFacts(c) /\ HookFacts(c)
         /\ Others(c) /\ (call[c].step \notin Reads => Alone(c))
  BY DEF Checked, ChecksHold, IInv, TypeOK, CallsRelyOnFacts, Settled, Holds, Tame

\* fund: the milestone is PENDING until the last write.
LEMMA FundKeepsSInv ==
  ASSUME Checked, NEW c \in Calls, Tame(c),
         FundCheck(c) \/ FundStripe(c) \/ FundInsert(c) \/ FundMark(c)
  PROVE  Settled' /\ Holds(c)'
  <1>0. /\ TypeOK /\ call \in [Calls -> Call] /\ Settled /\ Holds(c)
        /\ Others(c) /\ (call[c].step \notin Reads => Alone(c))
    BY OneCall
  <1>1. call[c].step \in FundSteps /\ status = "PENDING"
    BY <1>0 DEF FundCheck, FundStripe, FundInsert, FundMark, At, FundSteps, Holds, RequestHolds
  <1>2. CASE ~FundMark(c)
    <2>1. UNCHANGED <<status, payout, dispute, transfer, refund, webhookRow>>
      BY <1>2 DEF FundCheck, FundStripe, FundInsert, db, stripe
    <2>2. Settled'
      BY <1>0, <1>1, <2>1, QuietStep DEF Halfway, FundSteps
    <2>3. Return(c) \/ \E s \in FundSteps : Goto(c, s)
      BY <1>2 DEF FundCheck, FundStripe, FundInsert, FundSteps
    <2>4. call'[c].step \in FundSteps \cup {"idle"}
      BY <1>0, <2>3, ReturnEffect, GotoEffect DEF FundSteps, Steps, RequestSteps
    <2>5. Holds(c)'
      BY <1>1, <2>1, <2>4 DEF Holds, RequestHolds, HookHolds, FundSteps, TransferSteps
    <2>6. QED
      BY <2>2, <2>5
  <1>3. CASE FundMark(c)
    <2>0. Alone(c)
      BY <1>0, <1>3 DEF FundMark, At, Reads
    <2>1. /\ status' \in {"PENDING", "FUNDED"}
          /\ UNCHANGED <<payout, dispute, transfer, refund, webhookRow>>
          /\ call'[c].step = "idle"
      BY <1>0, <1>3, ReturnEffect DEF FundMark, stripe
    <2>2. PayoutsStand'
      BY <2>0, <1>0, <1>1, <2>1 DEF Alone, Settled, PayoutsStand, Standing, FundSteps, At
    <2>3. RefundsMark'
      BY <2>0, <1>0, <1>1, <2>1 DEF Alone, Settled, RefundsMark, Refunded, FundSteps, At
    <2>4. DisputesMark'
      BY <2>0, <1>0, <1>1, <2>1 DEF Alone, Settled, DisputesMark, FundSteps
    <2>5. QED
      BY <2>1, <2>2, <2>3, <2>4, IdleHolds DEF Settled
  <1>4. QED
    BY <1>2, <1>3

\* submit
LEMMA SubmitKeepsSInv ==
  ASSUME Checked, NEW c \in Calls, Tame(c), SubmitWrite(c)
  PROVE  Settled' /\ Holds(c)'
  <1>0. /\ TypeOK /\ call \in [Calls -> Call] /\ Settled /\ Holds(c)
        /\ Others(c) /\ (call[c].step \notin Reads => Alone(c))
    BY OneCall
  <1>1. call[c].step = "submit_write" /\ status = "FUNDED"
    BY <1>0 DEF SubmitWrite, At, Holds, RequestHolds
  <1>a. Alone(c)
    BY <1>0, <1>1 DEF Reads
  <1>2. /\ status' = "SUBMITTED"
        /\ UNCHANGED <<payout, dispute, transfer, refund, webhookRow>>
        /\ call'[c].step = "idle"
    BY <1>0, ReturnEffect DEF SubmitWrite, stripe
  <1>3. PayoutsStand'
    BY <1>0, <1>a, <1>1, <1>2 DEF Alone, Settled, PayoutsStand, Standing, At
  <1>4. RefundsMark'
    BY <1>0, <1>a, <1>1, <1>2 DEF Alone, Settled, RefundsMark, Refunded, At
  <1>5. DisputesMark'
    BY <1>0, <1>a, <1>1, <1>2 DEF Alone, Settled, DisputesMark
  <1>6. QED
    BY <1>2, <1>3, <1>4, <1>5, IdleHolds DEF Settled

\* release and resolve: no payout stands until the commit, and one after it.
LEMMA TransferKeepsSInv ==
  ASSUME Checked, NEW c \in Calls, Tame(c), TransferCheck(c) \/ TransferStripe(c) \/ TransferCommit(c)
  PROVE  Settled' /\ Holds(c)'
  <1>0. /\ TypeOK /\ call \in [Calls -> Call] /\ Settled /\ Holds(c)
        /\ Others(c) /\ (call[c].step \notin Reads => Alone(c))
        /\ RequestFacts(c)
    BY OneCall
  <1>1. /\ call[c].step \in TransferSteps /\ call[c].key \in TransferKeys
        /\ IF call[c].op = "resolve_release"
           THEN status = "DISPUTED" /\ dispute[call[c].dispute] = "OPEN"
                /\ call[c].dispute \in Disputes
           ELSE status = "SUBMITTED"
    BY <1>0 DEF TransferCheck, TransferStripe, TransferCommit, At, TransferSteps, Holds,
       RequestHolds, RequestFacts
  <1>2. call[c].step # "transfer_check" => Alone(c) /\ Standing = {} /\ ~Refunded
    <2>1. call[c].step # "transfer_check" => Alone(c)
      BY <1>0, <1>1 DEF Reads, TransferSteps
    <2>2. QED
      BY <1>0, <1>1, <2>1 DEF Alone, Settled, PayoutsStand, RefundsMark, TransferSteps, At
  <1>3. CASE TransferCheck(c)
    <2>1. UNCHANGED <<status, payout, dispute, transfer, refund, webhookRow>>
      BY <1>3 DEF TransferCheck, db, stripe
    <2>2. Settled'
      BY <1>0, <1>3, <2>1, QuietStep DEF Halfway, TransferCheck, At
    <2>3. \/ Return(c) \/ Goto(c, "transfer_stripe")
          \/ Goto(c, "resolve_close") /\ call[c].op = "resolve_release"
      BY <1>3 DEF TransferCheck, AfterTransfer
    <2>4. \/ call'[c].step = "idle"
          \/ /\ call'[c].step = "transfer_stripe"
             /\ call'[c].op = call[c].op /\ call'[c].dispute = call[c].dispute
          \/ /\ call'[c].step = "resolve_close" /\ call'[c].op = "resolve_release"
             /\ call[c].op = "resolve_release"
      BY <1>0, <2>3, ReturnEffect, GotoEffect DEF Steps, RequestSteps
    <2>5. Holds(c)'
      BY <1>1, <2>1, <2>4 DEF Holds, RequestHolds, HookHolds, FundSteps, TransferSteps
    <2>6. QED
      BY <2>2, <2>5
  <1>4. CASE TransferStripe(c)
    <2>0. Alone(c) /\ Standing = {} /\ ~Refunded
      BY <1>2, <1>4 DEF TransferStripe, At
    <2>1. /\ UNCHANGED <<status, payout, dispute, refund, webhookRow>>
          /\ \A k \in TransferKeys \ {call[c].key} : transfer'[k] = transfer[k]
          /\ call[c].step = "transfer_stripe"
      BY <1>0, <1>4 DEF TransferStripe, At, TypeOK, db
    <2>2. /\ call'[c].step = "transfer_commit" /\ call'[c].key = call[c].key
          /\ call'[c].op = call[c].op /\ call'[c].dispute = call[c].dispute
      BY <1>0, <1>4, GotoEffect DEF TransferStripe, Steps, RequestSteps
    <2>3. PayoutsStand'
      BY <1>0, <1>1, <2>0, <2>1, <2>2 DEF Alone, Settled, PayoutsStand, Standing, At
    <2>4. RefundsMark'
      BY <2>0, <2>1 DEF RefundsMark, Refunded
    <2>5. DisputesMark'
      BY <2>0, <1>0, <2>1 DEF Alone, Settled, DisputesMark
    <2>6. Holds(c)'
      BY <1>1, <2>1, <2>2 DEF Holds, RequestHolds, HookHolds, FundSteps, TransferSteps
    <2>7. QED
      BY <2>3, <2>4, <2>5, <2>6 DEF Settled
  <1>5. CASE TransferCommit(c) /\ payout[call[c].key] # "none"
    <2>0. Alone(c) /\ Standing = {} /\ ~Refunded
      BY <1>2, <1>5 DEF TransferCommit, At
    <2>1. /\ UNCHANGED <<status, payout, dispute, transfer, refund, webhookRow>>
          /\ call[c].step = "transfer_commit" /\ call'[c].step = "idle"
      BY <1>0, <1>5, ReturnEffect DEF TransferCommit, At, stripe
    <2>2. PayoutsStand'
      BY <1>0, <1>1, <2>0, <1>5, <2>1 DEF Alone, Settled, PayoutsStand, Standing, At
    <2>3. RefundsMark'
      BY <2>0, <2>1 DEF RefundsMark, Refunded
    <2>4. DisputesMark'
      BY <2>0, <1>0, <2>1 DEF Alone, Settled, DisputesMark
    <2>5. QED
      BY <2>1, <2>2, <2>3, <2>4, IdleHolds DEF Settled
  <1>6. CASE TransferCommit(c) /\ payout[call[c].key] = "none"
    <2>0. Alone(c) /\ Standing = {} /\ ~Refunded
      BY <1>2, <1>6 DEF TransferCommit, At
    <2>1. /\ status' = "RELEASED" /\ UNCHANGED <<dispute, transfer, refund, webhookRow>>
          /\ payout' = [payout EXCEPT ![call[c].key] = "IN_TRANSIT"]
          /\ call[c].step = "transfer_commit"
      BY <1>6 DEF TransferCommit, At, stripe
    <2>2. \/ call'[c].step = "idle" /\ call[c].op # "resolve_release"
          \/ /\ call'[c].step = "resolve_close" /\ call'[c].op = "resolve_release"
             /\ call[c].op = "resolve_release" /\ call'[c].dispute = call[c].dispute
      BY <1>0, <1>6, ReturnEffect, GotoEffect DEF TransferCommit, AfterTransfer, Steps, RequestSteps
    <2>3. PayoutsStand'
      <3>1. /\ payout'[call[c].key] = "IN_TRANSIT"
            /\ \A k \in TransferKeys \ {call[c].key} : payout'[k] = payout[k]
        BY <1>0, <1>1, <2>1 DEF TypeOK
      <3>2. Standing' = {call[c].key}
        BY <1>1, <2>0, <3>1 DEF Standing
      <3>3. ASSUME NEW k \in TransferKeys, transfer'[k] # "none", payout'[k] = "none"
            PROVE  FALSE
        BY <2>0, <1>0, <1>1, <2>1, <3>1, <3>3 DEF Alone, Settled, PayoutsStand, At
      <3>4. ASSUME NEW k \in TransferKeys, payout'[k] = "FAILED"
            PROVE  webhookRow'[[type |-> "transfer.reversed", key |-> k]] # "absent"
        BY <2>0, <1>0, <1>1, <2>1, <3>1, <3>4 DEF Alone, Settled, PayoutsStand
      <3>5. QED
        BY <2>1, <3>2, <3>3, <3>4 DEF PayoutsStand
    <2>4. RefundsMark'
      BY <2>0, <2>1 DEF RefundsMark, Refunded
    <2>5. DisputesMark'
      BY <2>0, <1>0, <1>1, <2>1, <2>2 DEF Alone, Settled, DisputesMark
    <2>6. Holds(c)'
      BY <2>1, <2>2 DEF Holds, RequestHolds, HookHolds, FundSteps, TransferSteps
    <2>7. QED
      BY <2>3, <2>4, <2>5, <2>6 DEF Settled
  <1>7. QED
    BY <1>3, <1>4, <1>5, <1>6

\* dispute: no dispute is open before the insert, and this one after it.
LEMMA DisputeKeepsSInv ==
  ASSUME Checked, NEW c \in Calls, Tame(c), DisputeInsert(c) \/ DisputeMark(c)
  PROVE  Settled' /\ Holds(c)'
  <1>0. /\ TypeOK /\ call \in [Calls -> Call] /\ Settled /\ Holds(c)
        /\ Others(c) /\ (call[c].step \notin Reads => Alone(c))
        /\ RequestFacts(c)
    BY OneCall
  <1>1. /\ call[c].step \in {"dispute_insert", "dispute_mark"} /\ call[c].dispute \in Disputes
        /\ status \in {"PENDING", "FUNDED", "SUBMITTED"}
    BY <1>0 DEF DisputeInsert, DisputeMark, At, Holds, RequestHolds, RequestFacts
  <1>a. Alone(c)
    BY <1>0, <1>1 DEF Reads
  <1>2. Standing = {} /\ ~Refunded
    BY <1>0, <1>1, <1>a DEF Alone, Settled, PayoutsStand, RefundsMark, At
  <1>3. CASE DisputeInsert(c)
    <2>1. /\ UNCHANGED <<status, payout, transfer, refund, webhookRow>>
          /\ call[c].step = "dispute_insert"
          /\ \A d \in Disputes \ {call[c].dispute} : dispute'[d] = dispute[d]
      BY <1>0, <1>3 DEF DisputeInsert, At, TypeOK, stripe
    <2>2. call'[c].step = "dispute_mark" /\ call'[c].dispute = call[c].dispute
      BY <1>0, <1>3, GotoEffect DEF DisputeInsert, Steps, RequestSteps
    <2>3. PayoutsStand'
      BY <1>0, <1>a, <1>1, <1>2, <2>1 DEF Alone, Settled, PayoutsStand, Standing, At
    <2>4. RefundsMark'
      BY <1>2, <2>1 DEF RefundsMark, Refunded
    <2>5. DisputesMark'
      BY <1>0, <1>a, <1>1, <2>1, <2>2 DEF Alone, Settled, DisputesMark
    <2>6. Holds(c)'
      BY <1>1, <2>1, <2>2 DEF Holds, RequestHolds, HookHolds, FundSteps, TransferSteps
    <2>7. QED
      BY <2>3, <2>4, <2>5, <2>6 DEF Settled
  <1>4. CASE DisputeMark(c)
    <2>1. /\ status' = "DISPUTED" /\ UNCHANGED <<payout, dispute, transfer, refund, webhookRow>>
          /\ call[c].step = "dispute_mark" /\ call'[c].step = "idle"
      BY <1>0, <1>4, ReturnEffect DEF DisputeMark, At, stripe
    <2>2. PayoutsStand'
      BY <1>0, <1>a, <1>2, <2>1 DEF Alone, Settled, PayoutsStand, Standing, At
    <2>3. RefundsMark'
      BY <1>2, <2>1 DEF RefundsMark, Refunded
    <2>4. DisputesMark'
      BY <1>0, <1>a, <2>1 DEF Alone, Settled, DisputesMark
    <2>5. QED
      BY <2>1, <2>2, <2>3, <2>4, IdleHolds DEF Settled
  <1>5. QED
    BY <1>3, <1>4

\* resolveDispute with a refund: nothing is refunded before the call to Stripe.
LEMMA RefundKeepsSInv ==
  ASSUME Checked, NEW c \in Calls, Tame(c), RefundPick(c) \/ RefundStripe(c) \/ RefundMark(c)
  PROVE  Settled' /\ Holds(c)'
  <1>0. /\ TypeOK /\ call \in [Calls -> Call] /\ Settled /\ Holds(c)
        /\ Others(c) /\ (call[c].step \notin Reads => Alone(c))
        /\ RequestFacts(c)
    BY OneCall
  <1>1. /\ call[c].step \in {"refund_pick", "refund_stripe", "refund_mark"}
        /\ status = "DISPUTED" /\ dispute[call[c].dispute] = "OPEN" /\ call[c].dispute \in Disputes
    BY <1>0 DEF RefundPick, RefundStripe, RefundMark, At, Holds, RequestHolds, RequestFacts,
       RefundSteps
  <1>2. Standing = {}
    BY <1>0, <1>1 DEF Alone, Settled, PayoutsStand
  <1>3. CASE RefundPick(c)
    <2>1. UNCHANGED <<status, payout, dispute, transfer, refund, webhookRow>>
      BY <1>3 DEF RefundPick, db, stripe
    <2>2. Settled'
      BY <1>0, <1>3, <2>1, QuietStep DEF Halfway, RefundPick, At
    <2>3. \/ call'[c].step = "idle"
          \/ call'[c].step = "refund_stripe" /\ call'[c].dispute = call[c].dispute
      <3>1. CASE Return(c)
        BY <1>0, <3>1, ReturnEffect
      <3>2. ASSUME NEW k \in FundKeys,
                   call' = [call EXCEPT ![c].step = "refund_stripe", ![c].intent = k]
            PROVE  call'[c].step = "refund_stripe" /\ call'[c].dispute = call[c].dispute
        <4> DEFINE next == [call[c] EXCEPT !.step = "refund_stripe", !.intent = k]
        <4>1. call' = [call EXCEPT ![c] = next]
          BY <1>0, <3>2
        <4>2. next.step = "refund_stripe" /\ next.dispute = call[c].dispute
          BY <1>0 DEF Call
        <4> HIDE DEF next
        <4>3. QED
          BY <1>0, <4>1, <4>2
      <3>3. QED
        BY <1>3, <3>1, <3>2 DEF RefundPick
    <2>4. Holds(c)'
      BY <1>1, <2>1, <2>3 DEF Holds, RequestHolds, HookHolds, FundSteps, TransferSteps
    <2>5. QED
      BY <2>2, <2>4
  <1>4. CASE RefundStripe(c)
    <2>0. Alone(c)
      BY <1>0, <1>4 DEF RefundStripe, At, Reads
    <2>1. /\ UNCHANGED <<status, payout, dispute, transfer, webhookRow>>
          /\ call[c].step = "refund_stripe"
      BY <1>4 DEF RefundStripe, At, db
    <2>2. \/ call'[c].step = "idle" /\ refund' = refund
          \/ call'[c].step = "refund_mark" /\ call'[c].dispute = call[c].dispute
      BY <1>0, <1>4, ReturnEffect, GotoEffect DEF RefundStripe, Steps, RequestSteps
    <2>3. PayoutsStand'
      BY <2>0, <1>0, <1>1, <1>2, <2>1 DEF Alone, Settled, PayoutsStand, Standing, At
    <2>4. RefundsMark'
      BY <2>0, <1>0, <1>1, <2>1, <2>2 DEF Alone, Settled, RefundsMark, Refunded, At
    <2>5. DisputesMark'
      BY <2>0, <1>0, <1>1, <2>1 DEF Alone, Settled, DisputesMark
    <2>6. Holds(c)'
      BY <1>1, <2>1, <2>2 DEF Holds, RequestHolds, HookHolds, FundSteps, TransferSteps
    <2>7. QED
      BY <2>3, <2>4, <2>5, <2>6 DEF Settled
  <1>5. CASE RefundMark(c)
    <2>0. Alone(c)
      BY <1>0, <1>5 DEF RefundMark, At, Reads
    <2>1. /\ status' = "REFUNDED" /\ UNCHANGED <<payout, dispute, transfer, refund, webhookRow>>
          /\ call[c].step = "refund_mark"
      BY <1>5 DEF RefundMark, At, stripe
    <2>2. call'[c].step = "refund_close" /\ call'[c].dispute = call[c].dispute
      BY <1>0, <1>5, GotoEffect DEF RefundMark, Steps, RequestSteps
    <2>3. PayoutsStand'
      BY <2>0, <1>0, <1>2, <2>1 DEF Alone, Settled, PayoutsStand, Standing, At
    <2>4. RefundsMark'
      BY <2>1 DEF RefundsMark
    <2>5. DisputesMark'
      BY <2>0, <1>0, <1>1, <2>1, <2>2 DEF Alone, Settled, DisputesMark
    <2>6. Holds(c)'
      BY <1>1, <2>1, <2>2 DEF Holds, RequestHolds, HookHolds, FundSteps, TransferSteps
    <2>7. QED
      BY <2>3, <2>4, <2>5, <2>6 DEF Settled
  <1>6. QED
    BY <1>3, <1>4, <1>5

\* Closing a dispute closes the one that is open.
LEMMA CloseKeepsSInv ==
  ASSUME Checked, NEW c \in Calls, Tame(c), RefundClose(c) \/ ResolveClose(c)
  PROVE  Settled' /\ Holds(c)'
  <1>0. /\ TypeOK /\ call \in [Calls -> Call] /\ Settled /\ Holds(c)
        /\ Others(c) /\ (call[c].step \notin Reads => Alone(c))
        /\ RequestFacts(c)
    BY OneCall
  <1>1. /\ call[c].step \in {"refund_close", "resolve_close"} /\ call[c].dispute \in Disputes
        /\ status \in {"REFUNDED", "RELEASED", "DISPUTED"}
    BY <1>0 DEF RefundClose, ResolveClose, CloseDispute, At, Holds, RequestHolds, RequestFacts,
       RefundSteps
  <1>a. Alone(c)
    BY <1>0, <1>1 DEF Reads
  <1>2. /\ UNCHANGED <<status, payout, transfer, refund, webhookRow>>
        /\ dispute'[call[c].dispute] # "OPEN"
        /\ \A d \in Disputes \ {call[c].dispute} : dispute'[d] = dispute[d]
        /\ call'[c].step = "idle"
    BY <1>0, <1>1, ReturnEffect DEF RefundClose, ResolveClose, CloseDispute, TypeOK, stripe
  <1>3. PayoutsStand'
    BY <1>0, <1>a, <1>1, <1>2 DEF Alone, Settled, PayoutsStand, Standing, At
  <1>4. RefundsMark'
    BY <1>0, <1>a, <1>1, <1>2 DEF Alone, Settled, RefundsMark, Refunded, At
  <1>5. DisputesMark'
    BY <1>0, <1>a, <1>1, <1>2 DEF Alone, Settled, DisputesMark
  <1>6. QED
    BY <1>2, <1>3, <1>4, <1>5, IdleHolds DEF Settled

-----------------------------------------------------------------------------
(* Webhooks. *)

\* A delivery starts when its event is new: its reversal has failed no payout yet.
LEMMA DeliveryKeepsSInv ==
  ASSUME Checked, [Next]_vars, NEW c \in Calls, Tame(c), NEW e \in Event, HandleStripeWebhook(c, e)
  PROVE  Settled' /\ Holds(c)'
  <1>0. /\ TypeOK /\ call \in [Calls -> Call] /\ Settled
        /\ Others(c) /\ (call[c].step \notin Reads => Alone(c)) /\ IInv
    BY OneCall DEF Checked
  <1>1. /\ UNCHANGED <<status, payout, dispute, transfer, refund>>
        /\ call[c].step = "idle" /\ webhookRow[e] = "absent"
        /\ webhookRow' = [webhookRow EXCEPT ![e] = "recorded"]
    BY DEF HandleStripeWebhook, Begin, Idle, stripe
  <1>2. Settled'
    BY <1>0, <1>1, QuietStep DEF Halfway, TypeOK
  <1>3. call'[c].step = "hook_read" /\ EventOf(c)' = e
    BY <1>0, HookStarts
  <1>4. ASSUME call'[c].op = "transfer.reversed"  PROVE payout'[call'[c].key] # "FAILED"
    <2>1. e.type = "transfer.reversed" /\ e.key = call'[c].key
      BY <1>3, <1>4 DEF EventOf
    <2>2. e.key \in TransferKeys /\ e = [type |-> "transfer.reversed", key |-> e.key]
      BY <2>1 DEF Event
    <2>3. QED
      BY <1>0, <1>1, <2>1, <2>2 DEF Alone, Settled, PayoutsStand
  <1>5. Holds(c)'
    BY <1>3, <1>4 DEF Holds, RequestHolds, HookHolds, FundSteps, TransferSteps
  <1>6. QED
    BY <1>2, <1>5

\* A handler's step that touches no status, payout or dispute needs only what
\* its next await relies on.
LEMMA HookQuietStep ==
  ASSUME Checked, NEW c \in Calls, Tame(c), call[c].step \in HookSteps \ {"reopen"},
         UNCHANGED <<status, payout, dispute, transfer, refund>>,
         \A e \in Event : webhookRow[e] # "absent" => webhookRow'[e] # "absent",
         call'[c].step \in HookSteps \cup {"idle"},
         call'[c].step \notin {"hook_read", "find_milestone", "backfill", "reopen"},
         call'[c].step \in {"mark_succeeded", "fail_payout"} => call'[c].seen = status,
         call'[c].step = "mark_funded" => status = "PENDING",
         call'[c].step = "confirm_payout" => payout[call'[c].key] = "IN_TRANSIT",
         call'[c].step = "fail_payout" /\ call'[c].op = "transfer.reversed"
           => payout[call'[c].key] # "FAILED"
  PROVE  Settled' /\ Holds(c)'
  <1>1. Settled'
    BY OneCall, QuietStep DEF Halfway, HookSteps
  <1>2. RequestHolds(c)'
    BY DEF RequestHolds, HookSteps, FundSteps, TransferSteps
  <1>3. HookHolds(c)'
    BY DEF HookHolds
  <1>4. QED
    BY <1>1, <1>2, <1>3 DEF Holds

\* The handlers of the payment events.
LEMMA PaymentHooksKeepSInv ==
  ASSUME Checked, NEW c \in Calls, Tame(c),
         \/ ReadSucceeded(c) \/ MarkSucceeded(c) \/ MarkFunded(c)
         \/ ReadFailed(c) \/ MarkFailed(c) \/ ReadRefunded(c) \/ MarkRefunded(c)
  PROVE  Settled' /\ Holds(c)'
  <1>0. /\ TypeOK /\ call \in [Calls -> Call] /\ Settled /\ Holds(c)
        /\ Others(c) /\ (call[c].step \notin Reads => Alone(c))
    BY OneCall
  <1>1. CASE ReadSucceeded(c)
    <2>1. \E s \in {"hook_close", "mark_succeeded", "mark_funded"} :
            /\ call' = [call EXCEPT ![c].seen = status, ![c].step = s]
            /\ s = "mark_funded" => status = "PENDING"
      BY <1>1 DEF ReadSucceeded
    <2>2. /\ call'[c].step \in {"hook_close", "mark_succeeded", "mark_funded"}
          /\ call'[c].step = "mark_funded" => status = "PENDING"
          /\ call'[c].seen = status
      BY <1>0, <2>1, SeenEffect DEF Steps, HookSteps
    <2>3. QED
      BY <1>1, <2>2, HookQuietStep DEF Halfway, ReadSucceeded, At, HookSteps, db, stripe
  <1>2. CASE MarkSucceeded(c)
    <2>1. call[c].seen = status
      BY <1>0, <1>2 DEF MarkSucceeded, At, Holds, HookHolds
    <2>2. /\ call'[c].step \in {"hook_close", "mark_funded"}
          /\ call'[c].step = "mark_funded" => status = "PENDING"
      BY <1>0, <1>2, <2>1, GotoEffect DEF MarkSucceeded, Steps, HookSteps
    <2>3. QED
      BY <1>2, <2>2, HookQuietStep DEF Halfway, MarkSucceeded, SetPayment, At, HookSteps, stripe
  <1>3. CASE ReadFailed(c) \/ MarkFailed(c) \/ ReadRefunded(c) \/ MarkRefunded(c)
    <2>1. \E s \in {"hook_close", "mark_failed", "mark_refunded"} : Goto(c, s)
      BY <1>3 DEF ReadFailed, MarkFailed, ReadRefunded, MarkRefunded
    <2>2. call'[c].step \in {"hook_close", "mark_failed", "mark_refunded"}
      BY <1>0, <2>1, GotoEffect DEF Steps, HookSteps
    <2>3. QED
      BY <1>3, <2>2, HookQuietStep DEF Halfway, ReadFailed, MarkFailed, ReadRefunded, MarkRefunded,
         SetPayment, At, HookSteps, db, stripe
  <1>4. CASE MarkFunded(c)
    <2>0. Alone(c)
      BY <1>0, <1>4 DEF MarkFunded, At, Reads
    <2>1. /\ call[c].step = "mark_funded" /\ status = "PENDING" /\ status' = "FUNDED"
          /\ UNCHANGED <<payout, dispute, transfer, refund, webhookRow>>
      BY <1>0, <1>4 DEF MarkFunded, At, Holds, HookHolds, stripe
    <2>2. call'[c].step = "hook_close"
      BY <1>0, <1>4, GotoEffect DEF MarkFunded, Steps, HookSteps
    <2>3. PayoutsStand'
      BY <2>0, <1>0, <2>1 DEF Alone, Settled, PayoutsStand, Standing, At
    <2>4. RefundsMark'
      BY <2>0, <1>0, <2>1 DEF Alone, Settled, RefundsMark, Refunded, At
    <2>5. DisputesMark'
      BY <2>0, <1>0, <2>1 DEF Alone, Settled, DisputesMark
    <2>6. Holds(c)'
      BY <2>2 DEF Holds, RequestHolds, HookHolds, FundSteps, TransferSteps
    <2>7. QED
      BY <2>3, <2>4, <2>5, <2>6 DEF Settled
  <1>5. QED
    BY <1>1, <1>2, <1>3, <1>4

\* A transfer that Stripe tells of has its payout row.
LEMMA ToldTransferHasRow ==
  ASSUME Checked, NEW c \in Calls, call[c].step \in HookSteps,
         call[c].op \in {"transfer.created", "transfer.reversed"}
  PROVE  call[c].key \in TransferKeys /\ payout[call[c].key] # "none"
  <1>1. EventOf(c) \in Emitted
    BY DEF Checked, IInv, CallsRelyOnFacts, HookFacts
  <1>2. call[c].key \in TransferKeys /\ transfer[call[c].key] # "none"
    BY <1>1 DEF EventOf, Emitted, Event
  <1>3. \A d \in Calls : ~At(d, "transfer_commit")
    BY DEF Checked, ChecksHold, OneIsUnderway, Underway, At, HookSteps
  <1>4. QED
    BY <1>2, <1>3 DEF Checked, ChecksHold, PayoutsStand

\* The handlers of transfer.created: there is nothing to backfill.
LEMMA CreatedHooksKeepSInv ==
  ASSUME Checked, NEW c \in Calls, Tame(c),
         ReadTransferCreated(c) \/ ConfirmPayout(c) \/ FindMilestone(c) \/ Backfill(c)
  PROVE  Settled' /\ Holds(c)'
  <1>0. /\ TypeOK /\ call \in [Calls -> Call] /\ Settled /\ Holds(c)
        /\ Others(c) /\ (call[c].step \notin Reads => Alone(c))
        /\ HookFacts(c)
    BY OneCall
  <1>1. ~FindMilestone(c) /\ ~Backfill(c)
    BY <1>0 DEF FindMilestone, Backfill, At, Holds, HookHolds
  <1>2. call[c].op = "transfer.created" /\ call[c].step \in HookSteps
    BY <1>0, <1>1 DEF ReadTransferCreated, ConfirmPayout, At, HookFacts, HookSteps
  <1>3. call[c].key \in TransferKeys /\ payout[call[c].key] # "none"
    BY <1>2, ToldTransferHasRow
  <1>4. CASE ReadTransferCreated(c)
    <2>1. \/ Goto(c, "hook_close")
          \/ Goto(c, "confirm_payout") /\ payout[call[c].key] = "IN_TRANSIT"
      BY <1>0, <1>3, <1>4 DEF ReadTransferCreated, TypeOK
    <2>2. \/ call'[c].step = "hook_close"
          \/ /\ call'[c].step = "confirm_payout" /\ call'[c].key = call[c].key
             /\ payout[call[c].key] = "IN_TRANSIT"
      BY <1>0, <2>1, GotoEffect DEF Steps, HookSteps
    <2>3. QED
      BY <1>4, <2>2, HookQuietStep DEF Halfway, ReadTransferCreated, At, HookSteps, db, stripe
  <1>5. CASE ConfirmPayout(c)
    <2>0. Alone(c)
      BY <1>0, <1>5 DEF ConfirmPayout, At, Reads
    <2>1. /\ call[c].step = "confirm_payout" /\ payout[call[c].key] = "IN_TRANSIT"
          /\ payout'[call[c].key] = "PAID"
          /\ \A k \in TransferKeys \ {call[c].key} : payout'[k] = payout[k]
          /\ UNCHANGED <<status, dispute, transfer, refund, webhookRow>>
      BY <1>0, <1>3, <1>5 DEF ConfirmPayout, At, Holds, HookHolds, TypeOK, stripe
    <2>2. call'[c].step = "hook_close"
      BY <1>0, <1>5, GotoEffect DEF ConfirmPayout, Steps, HookSteps
    <2>3. Standing' = Standing
      BY <2>1 DEF Standing
    <2>4. PayoutsStand'
      BY <2>0, <1>0, <2>1, <2>3 DEF Alone, Settled, PayoutsStand, At
    <2>5. RefundsMark'
      BY <2>0, <1>0, <2>1 DEF Alone, Settled, RefundsMark, Refunded, At
    <2>6. DisputesMark'
      BY <2>0, <1>0, <2>1 DEF Alone, Settled, DisputesMark
    <2>7. Holds(c)'
      BY <2>2 DEF Holds, RequestHolds, HookHolds, FundSteps, TransferSteps
    <2>8. QED
      BY <2>4, <2>5, <2>6, <2>7 DEF Settled
  <1>6. QED
    BY <1>1, <1>4, <1>5

\* The handlers of transfer.reversed: the payout that stood fails, and the
\* milestone is reopened before anything else happens.
LEMMA ReversedHooksKeepSInv ==
  ASSUME Checked, NEW c \in Calls, Tame(c),
         ReadTransferReversed(c) \/ FailPayout(c) \/ Reopen(c)
  PROVE  Settled' /\ Holds(c)'
  <1>0. /\ TypeOK /\ call \in [Calls -> Call] /\ Settled /\ Holds(c)
        /\ Others(c) /\ (call[c].step \notin Reads => Alone(c))
        /\ HookFacts(c)
    BY OneCall
  <1>1. call[c].op = "transfer.reversed" /\ call[c].step \in HookSteps
    BY <1>0 DEF ReadTransferReversed, FailPayout, Reopen, At, HookFacts, HookSteps
  <1>2. call[c].key \in TransferKeys /\ payout[call[c].key] # "none"
    BY <1>1, ToldTransferHasRow
  <1>3. CASE ReadTransferReversed(c)
    <2>1. call' = [call EXCEPT ![c].seen = status, ![c].step = "fail_payout"]
      BY <1>2, <1>3 DEF ReadTransferReversed
    <2>2. /\ call'[c].step = "fail_payout" /\ call'[c].key = call[c].key
          /\ call'[c].seen = status
      BY <1>0, <2>1, SeenEffect DEF Steps, HookSteps
    <2>3. payout[call[c].key] # "FAILED"
      BY <1>0, <1>3 DEF ReadTransferReversed, At, Holds, HookHolds
    <2>4. QED
      BY <1>3, <2>2, <2>3, HookQuietStep DEF Halfway, ReadTransferReversed, At, HookSteps, db, stripe
  <1>4. CASE FailPayout(c)
    <2>0. Alone(c)
      BY <1>0, <1>4 DEF FailPayout, At, Reads
    <2>1. /\ call[c].step = "fail_payout" /\ payout[call[c].key] # "FAILED"
          /\ call[c].seen = status
          /\ payout'[call[c].key] = "FAILED"
          /\ \A k \in TransferKeys \ {call[c].key} : payout'[k] = payout[k]
          /\ UNCHANGED <<status, dispute, transfer, refund, webhookRow>>
      BY <1>0, <1>1, <1>2, <1>4 DEF FailPayout, At, Holds, HookHolds, TypeOK, stripe
    <2>2. call[c].key \in Standing
      BY <1>0, <1>2, <2>1 DEF Standing, TypeOK
    <2>3. status = "RELEASED" /\ Standing' = {}
      BY <2>0, <1>0, <2>1, <2>2 DEF Alone, Settled, PayoutsStand, Standing
    <2>4. call'[c].step = "reopen"
      BY <1>0, <1>4, <2>1, <2>3, GotoEffect DEF FailPayout, Steps, HookSteps
    <2>5. ASSUME NEW k \in TransferKeys, payout'[k] = "FAILED"
          PROVE  webhookRow'[[type |-> "transfer.reversed", key |-> k]] # "absent"
      <3>1. CASE k = call[c].key
        <4>1. EventOf(c) \in Event /\ Handling(c, EventOf(c))
          BY <1>0, <1>1 DEF HookFacts, Emitted, Handling, EventOf
        <4>2. webhookRow[EventOf(c)] = "recorded"
          BY <4>1 DEF Checked, IInv, EventHandledOnce
        <4>3. QED
          BY <1>1, <2>1, <3>1, <4>2 DEF EventOf
      <3>2. CASE k # call[c].key
        BY <2>0, <1>0, <2>1, <2>5, <3>2 DEF Alone, Settled, PayoutsStand
      <3>3. QED
        BY <3>1, <3>2
    <2>6. PayoutsStand'
      BY <2>0, <1>0, <2>1, <2>3, <2>4, <2>5 DEF Alone, Settled, PayoutsStand, At
    <2>7. RefundsMark'
      BY <2>0, <1>0, <2>1 DEF Alone, Settled, RefundsMark, Refunded, At
    <2>8. DisputesMark'
      BY <2>0, <1>0, <2>1 DEF Alone, Settled, DisputesMark
    <2>9. Holds(c)'
      BY <2>1, <2>3, <2>4 DEF Holds, RequestHolds, HookHolds, FundSteps, TransferSteps
    <2>10. QED
      BY <2>6, <2>7, <2>8, <2>9 DEF Settled
  <1>5. CASE Reopen(c)
    <2>0. Alone(c)
      BY <1>0, <1>5 DEF Reopen, At, Reads
    <2>1. /\ call[c].step = "reopen" /\ status = "RELEASED" /\ Standing = {}
          /\ status' = "SUBMITTED"
          /\ UNCHANGED <<payout, dispute, transfer, refund, webhookRow>>
      BY <1>0, <1>5 DEF Reopen, At, Holds, HookHolds, stripe
    <2>2. call'[c].step = "hook_close"
      BY <1>0, <1>5, GotoEffect DEF Reopen, Steps, HookSteps
    <2>3. PayoutsStand'
      BY <2>0, <1>0, <2>1 DEF Alone, Settled, PayoutsStand, Standing, At
    <2>4. RefundsMark'
      BY <2>0, <1>0, <2>1 DEF Alone, Settled, RefundsMark, Refunded, At
    <2>5. DisputesMark'
      BY <2>0, <1>0, <2>1 DEF Alone, Settled, DisputesMark
    <2>6. Holds(c)'
      BY <2>2 DEF Holds, RequestHolds, HookHolds, FundSteps, TransferSteps
    <2>7. QED
      BY <2>3, <2>4, <2>5, <2>6 DEF Settled
  <1>6. QED
    BY <1>3, <1>4, <1>5

\* The event is processed.
LEMMA HookCloseKeepsSInv ==
  ASSUME Checked, NEW c \in Calls, Tame(c), HookClose(c)
  PROVE  Settled' /\ Holds(c)'
  <1>0. /\ TypeOK /\ call \in [Calls -> Call]
    BY OneCall
  <1>1. call'[c].step = "idle"
    BY <1>0, ReturnEffect DEF HookClose
  <1>2. \A e \in Event : webhookRow[e] # "absent" => webhookRow'[e] # "absent"
    BY <1>0 DEF HookClose, TypeOK
  <1>3. QED
    BY <1>1, <1>2, HookQuietStep DEF Halfway, HookClose, At, HookSteps, stripe

\* Stripe by itself charges and reverses; the rows learn of it later.
LEMMA StripeKeepsSInv ==
  ASSUME Checked, StripeStep
  PROVE  Settled' /\ \A c \in Calls : Holds(c)'
  <1>0. TypeOK /\ Settled /\ \A c \in Calls : Holds(c)
    BY DEF Checked, ChecksHold, IInv, Settled, Holds
  <1>1. /\ UNCHANGED <<status, payout, dispute, refund, webhookRow, call>>
        /\ \A k \in TransferKeys : transfer'[k] # "none" => transfer[k] # "none"
    BY <1>0 DEF StripeStep, IntentSucceeds, IntentDeclined, TransferReverses, db, TypeOK
  <1>2. PayoutsStand'
    BY <1>0, <1>1 DEF Settled, PayoutsStand, Standing, At
  <1>3. RefundsMark'
    BY <1>0, <1>1 DEF Settled, RefundsMark, Refunded, At
  <1>4. DisputesMark'
    BY <1>0, <1>1 DEF Settled, DisputesMark
  <1>5. \A c \in Calls : Holds(c)'
    BY <1>0, <1>1 DEF Holds, RequestHolds, HookHolds, Standing
  <1>6. QED
    BY <1>2, <1>3, <1>4, <1>5 DEF Settled

-----------------------------------------------------------------------------
(* The theorems. *)

\* A call that goes on is for the same request, until it returns.
LEMMA ContinueEffect ==
  ASSUME TypeOK, NEW c \in Calls, Continue(c)
  PROVE  /\ \A d \in Calls \ {c} : call'[d] = call[d]
         /\ \/ call'[c] = Idle
            \/ call'[c].op = call[c].op /\ call'[c].key = call[c].key /\ call'[c] # Idle
  <1>0. call \in [Calls -> Call] /\ call[c] \in Call /\ Idle.step = "idle"
    BY DEF TypeOK, Idle
  <1>1. ASSUME Return(c)
        PROVE  call'[c] = Idle /\ \A d \in Calls \ {c} : call'[d] = call[d]
    BY <1>0, <1>1, ReturnEffect
  <1>2. ASSUME NEW s \in (RequestSteps \cup HookSteps), Goto(c, s)
        PROVE  /\ call'[c].op = call[c].op /\ call'[c].key = call[c].key /\ call'[c] # Idle
               /\ \A d \in Calls \ {c} : call'[d] = call[d]
    BY <1>0, <1>2, GotoEffect DEF Steps, RequestSteps, HookSteps
  <1>3. CASE FundCheck(c) \/ FundStripe(c) \/ FundInsert(c) \/ FundMark(c) \/ SubmitWrite(c)
    BY <1>1, <1>2, <1>3 DEF FundCheck, FundStripe, FundInsert, FundMark, SubmitWrite, RequestSteps
  <1>4. CASE TransferCheck(c) \/ TransferStripe(c) \/ TransferCommit(c) \/ ResolveClose(c)
    BY <1>1, <1>2, <1>4 DEF TransferCheck, TransferStripe, TransferCommit, ResolveClose, CloseDispute, AfterTransfer, RequestSteps
  <1>5. CASE DisputeInsert(c) \/ DisputeMark(c) \/ RefundStripe(c) \/ RefundMark(c) \/ RefundClose(c)
    BY <1>1, <1>2, <1>5 DEF DisputeInsert, DisputeMark, RefundStripe, RefundMark, RefundClose, CloseDispute, RequestSteps
  <1>6. CASE RefundPick(c)
    <2>1. Return(c) \/ \E k : call' = [call EXCEPT ![c].step = "refund_stripe", ![c].intent = k]
      BY <1>6 DEF RefundPick
    <2>2. ASSUME NEW k, call' = [call EXCEPT ![c].step = "refund_stripe", ![c].intent = k]
          PROVE  /\ call'[c].op = call[c].op /\ call'[c].key = call[c].key /\ call'[c].step = "refund_stripe"
                 /\ \A d \in Calls \ {c} : call'[d] = call[d]
      BY <1>0, <2>2 DEF Call
    <2>3. QED
      BY <1>0, <1>1, <2>1, <2>2
  <1>7. CASE ReadSucceeded(c) \/ ReadTransferReversed(c)
    <2>1. PICK s \in HookSteps : call' = [call EXCEPT ![c].seen = status, ![c].step = s]
      BY <1>7 DEF ReadSucceeded, ReadTransferReversed, HookSteps
    <2>2. /\ call'[c].op = call[c].op /\ call'[c].key = call[c].key /\ call'[c].step = s
          /\ \A d \in Calls \ {c} : call'[d] = call[d]
      BY <1>0, <2>1 DEF Call
    <2>3. QED
      BY <1>0, <2>2 DEF HookSteps
  <1>8. CASE MarkSucceeded(c) \/ MarkFunded(c) \/ ReadFailed(c) \/ MarkFailed(c) \/ ReadRefunded(c) \/ MarkRefunded(c)
    BY <1>1, <1>2, <1>8 DEF MarkSucceeded, MarkFunded, ReadFailed, MarkFailed, ReadRefunded, MarkRefunded, HookSteps
  <1>9. CASE ReadTransferCreated(c) \/ ConfirmPayout(c) \/ FindMilestone(c) \/ Backfill(c) \/ FailPayout(c) \/ Reopen(c) \/ HookClose(c)
    BY <1>1, <1>2, <1>9 DEF ReadTransferCreated, ConfirmPayout, FindMilestone, Backfill, FailPayout, Reopen, HookClose, HookSteps
  <1>10. QED
    BY <1>3, <1>4, <1>5, <1>6, <1>7, <1>8, <1>9 DEF Continue

LEMMA InitEstablishesSInv == Init => SInv /\ calm
  <1> SUFFICES ASSUME Init  PROVE SInv /\ calm
    OBVIOUS
  <1>1. \A c \in Calls : call[c].step = "idle"
    BY DEF Init, Idle
  <1>2. \A c \in Calls : RequestHolds(c) /\ HookHolds(c)
    BY <1>1 DEF RequestHolds, HookHolds, FundSteps, TransferSteps
  <1>3. OneIsUnderway
    BY <1>1 DEF OneIsUnderway, Underway, HookSteps
  <1>4. PayoutsStand /\ RefundsMark /\ DisputesMark
    BY DEF Init, PayoutsStand, Standing, RefundsMark, Refunded, DisputesMark
  <1>5. calm
    BY DEF Init
  <1>6. QED
    BY <1>2, <1>3, <1>4, <1>5, InitEstablishesIInv DEF SInv, ChecksHold

\* What was not calm does not become so.
LEMMA CalmSince ==
  ASSUME [Next]_vars, calm'
  PROVE  calm
  <1>1. ASSUME NEW c \in Calls, Request(c) /\ UNCHANGED calm  PROVE calm
    BY <1>1
  <1>2. ASSUME NEW c \in Calls, Tracked(c) \/ Fail(c)  PROVE calm
    BY <1>2 DEF Tracked, Fail
  <1>3. CASE StripeStep \/ UNCHANGED vars
    BY <1>3 DEF StripeStep, IntentSucceeds, IntentDeclined, TransferReverses, vars
  <1>4. QED
    BY <1>1, <1>2, <1>3 DEF Next

\* While calm lasts, a call that writes is alone.
LEMMA CalmIsTame ==
  ASSUME TypeOK, calm', NEW c \in Calls, Others(c), Tracked(c)
  PROVE  Tame(c)
  <1>1. call[c].step \in Reads \/ \A other \in Calls \ {c} : call[other] = Idle
    BY DEF Tracked
  <1>2. Idle.step = "idle"
    BY DEF Idle
  <1>3. QED
    BY <1>1, <1>2 DEF Tame, Others, Alone

\* A call that reads first goes on without having written.
LEMMA ReadsComeFirst ==
  ASSUME TypeOK, NEW c \in Calls, Continue(c), call[c].step \in Reads \ HookSteps
  PROVE  call'[c].step \notin Underway
  <1>0. call \in [Calls -> Call]
    BY DEF TypeOK
  <1>1. FundCheck(c) \/ TransferCheck(c) \/ RefundPick(c)
    BY DEF Continue, Reads, HookSteps, At, FundStripe, FundInsert, FundMark, SubmitWrite, TransferStripe, TransferCommit,
       ResolveClose, CloseDispute, DisputeInsert, DisputeMark, RefundStripe, RefundMark, RefundClose, ReadSucceeded,
       MarkSucceeded, MarkFunded, ReadFailed, MarkFailed, ReadRefunded, MarkRefunded, ReadTransferCreated,
       ConfirmPayout, FindMilestone, Backfill, ReadTransferReversed, FailPayout, Reopen, HookClose
  <1>2. \/ Return(c)
        \/ \E s \in {"fund_stripe", "transfer_stripe", "resolve_close"} : Goto(c, s)
        \/ \E k \in FundKeys : call' = [call EXCEPT ![c].step = "refund_stripe", ![c].intent = k]
    BY <1>1 DEF FundCheck, TransferCheck, AfterTransfer, RefundPick
  <1>3. call'[c].step \in {"idle", "fund_stripe", "transfer_stripe", "resolve_close", "refund_stripe"}
    <2>1. ASSUME NEW k \in FundKeys, call' = [call EXCEPT ![c].step = "refund_stripe", ![c].intent = k]
          PROVE  call'[c].step = "refund_stripe"
      BY <1>0, <2>1 DEF Call
    <2>2. CASE Return(c)
      BY <1>0, <2>2, ReturnEffect
    <2>3. ASSUME NEW s \in {"fund_stripe", "transfer_stripe", "resolve_close"}, Goto(c, s)
          PROVE  call'[c].step = s
      BY <1>0, <2>3, GotoEffect DEF Steps, RequestSteps
    <2>4. QED
      BY <1>2, <2>1, <2>2, <2>3
  <1>4. QED
    BY <1>3 DEF Underway, HookSteps

\* So of the calls in flight one has written at most.
LEMMA OneStaysUnderway ==
  ASSUME Checked, NEW c \in Calls, Tame(c),
         call[c].step \in Reads \ HookSteps => call'[c].step \notin Underway
  PROVE  OneIsUnderway'
  <1>1. "idle" \notin Underway
    BY DEF Underway, HookSteps
  <1>2. CASE Alone(c)
    BY <1>1, <1>2 DEF Alone, OneIsUnderway
  <1>3. CASE call[c].step \in Reads /\ call[c].step \in HookSteps
    BY <1>3 DEF Checked, ChecksHold, OneIsUnderway, Underway, Tame, Others
  <1>4. CASE call[c].step \in Reads \ HookSteps
    BY <1>4 DEF Checked, ChecksHold, OneIsUnderway, Tame, Others
  <1>5. QED
    BY <1>2, <1>3, <1>4 DEF Tame

\* What the others rely on stays: they are idle, or nothing was written.
LEMMA OthersHold ==
  ASSUME Checked, NEW c \in Calls, Others(c), UNCHANGED <<db, stripe>> \/ Alone(c), NEW d \in Calls \ {c}
  PROVE  Holds(d)'
  <1>1. CASE Alone(c)
    BY <1>1, IdleHolds DEF Alone
  <1>2. CASE UNCHANGED <<db, stripe>>
    BY <1>2 DEF Others, db, stripe, Checked, ChecksHold, Holds, RequestHolds, HookHolds, Standing
  <1>3. QED
    BY <1>1, <1>2

\* The awaits that only read do.
LEMMA ReadsOnlyRead ==
  ASSUME NEW c \in Calls, Continue(c), call[c].step \in Reads
  PROVE  UNCHANGED <<db, stripe>>
  <1>1. \/ FundCheck(c) \/ TransferCheck(c) \/ RefundPick(c) \/ FindMilestone(c)
        \/ ReadSucceeded(c) \/ ReadFailed(c) \/ ReadRefunded(c) \/ ReadTransferCreated(c) \/ ReadTransferReversed(c)
    BY DEF Continue, Reads, At, FundStripe, FundInsert, FundMark, SubmitWrite, TransferStripe, TransferCommit,
       ResolveClose, CloseDispute, DisputeInsert, DisputeMark, RefundStripe, RefundMark, RefundClose,
       MarkSucceeded, MarkFunded, MarkFailed, MarkRefunded, ConfirmPayout, Backfill, FailPayout, Reopen, HookClose
  <1>2. QED
    BY <1>1 DEF FundCheck, TransferCheck, RefundPick, FindMilestone, ReadSucceeded, ReadFailed, ReadRefunded,
       ReadTransferCreated, ReadTransferReversed

\* A call that dies elsewhere than halfway leaves the rows settled.
LEMMA FailKeepsSInv ==
  ASSUME Checked, NEW c \in Calls, Fail(c), call[c].step \notin Halfway
  PROVE  ChecksHold'
  <1>0. TypeOK /\ Settled /\ call \in [Calls -> Call]
    BY DEF Checked, ChecksHold, IInv, Settled, TypeOK
  <1>1. Others(c) /\ call'[c].step = "idle" /\ UNCHANGED <<db, stripe>>
    BY <1>0, ReturnEffect DEF Fail, Others
  <1>2. Settled'
    BY <1>0, <1>1, QuietStep DEF db, stripe
  <1>3. \A d \in Calls : Holds(d)'
    BY <1>1, IdleHolds, OthersHold
  <1>4. OneIsUnderway'
    BY <1>1 DEF Checked, ChecksHold, OneIsUnderway, Underway, HookSteps, Others
  <1>5. QED
    BY <1>2, <1>3, <1>4 DEF ChecksHold, Settled, Holds

\* Every step of a call, every delivery and every step of Stripe keeps the
\* checks, as long as it is calm.
LEMMA StepKeepsSInv ==
  ASSUME SInv, [Next]_vars
  PROVE  SInv'
  <1>0. IInv /\ IInv' /\ TypeOK /\ call \in [Calls -> Call]
    BY StepKeepsIInv DEF SInv, IInv, TypeOK
  <1>1. SUFFICES ASSUME calm'  PROVE ChecksHold'
    BY <1>0 DEF SInv
  <1>2. Checked
    BY <1>0, <1>1, CalmSince DEF SInv, Checked
  <1>3. ASSUME NEW c \in Calls, Settled' /\ Holds(c)', OneIsUnderway', Others(c), UNCHANGED <<db, stripe>> \/ Alone(c)
        PROVE  ChecksHold'
    BY <1>2, <1>3, OthersHold DEF ChecksHold, Settled, Holds
  <1>4. ASSUME NEW c \in Calls, Request(c)  PROVE ChecksHold'
    <2>1. Others(c)
      BY <1>0, <1>4, RequestStarts DEF Progress, Others
    <2>2. Settled' /\ Holds(c)'
      BY <1>0, <1>2, <1>4, <2>1, RequestHoldsItsCheck DEF Checked, ChecksHold, Settled
    <2>3. /\ UNCHANGED <<db, stripe>>
          /\ \E s \in {"fund_check", "submit_write", "transfer_check", "dispute_insert", "refund_pick"} :
               call'[c].step = s
      BY <1>0, <1>4 DEF Request, Fund, Submit, Release, RaiseDispute, ResolveRelease, ResolveRefund, Begin
    <2>4. OneIsUnderway'
      BY <1>2, <2>1, <2>3 DEF Checked, ChecksHold, OneIsUnderway, Underway, HookSteps, Others
    <2>5. QED
      BY <1>3, <2>1, <2>2, <2>3, <2>4
  <1>5. ASSUME NEW c \in Calls, Continue(c), Tracked(c)  PROVE ChecksHold'
    <2>1. Tame(c)
      BY <1>0, <1>1, <1>5, ContinueEffect, CalmIsTame DEF Others
    <2>2. Settled' /\ Holds(c)'
      BY <1>2, <1>5, <2>1, FundKeepsSInv, SubmitKeepsSInv, TransferKeepsSInv, DisputeKeepsSInv,
         RefundKeepsSInv, CloseKeepsSInv, PaymentHooksKeepSInv, CreatedHooksKeepSInv,
         ReversedHooksKeepSInv, HookCloseKeepsSInv DEF Continue
    <2>3. OneIsUnderway'
      BY <1>0, <1>2, <1>5, <2>1, ReadsComeFirst, OneStaysUnderway
    <2>4. UNCHANGED <<db, stripe>> \/ Alone(c)
      BY <1>5, <2>1, ReadsOnlyRead DEF Tame
    <2>5. QED
      BY <1>3, <2>1, <2>2, <2>3, <2>4 DEF Tame
  <1>6. ASSUME NEW c \in Calls, NEW e \in Event, HandleStripeWebhook(c, e), Tracked(c)
        PROVE  ChecksHold'
    <2>1. Others(c) /\ call[c].step = "idle" /\ "idle" \notin Reads
      BY <1>0, <1>1, <1>6, HookStarts DEF Progress, Others, HandleStripeWebhook, Begin, Idle, Reads
    <2>2. Tame(c) /\ Alone(c)
      BY <1>0, <1>1, <1>6, <2>1, CalmIsTame DEF Tame
    <2>3. Settled' /\ Holds(c)'
      BY <1>2, <1>6, <2>2, DeliveryKeepsSInv
    <2>4. OneIsUnderway'
      BY <1>2, <2>1, <2>2, OneStaysUnderway
    <2>5. QED
      BY <1>3, <2>1, <2>2, <2>3, <2>4
  <1>7. ASSUME NEW c \in Calls, Fail(c)  PROVE ChecksHold'
    BY <1>1, <1>2, <1>7, FailKeepsSInv DEF Fail
  <1>8. CASE StripeStep
    <2>1. Settled' /\ \A c \in Calls : Holds(c)'
      BY <1>2, <1>8, StripeKeepsSInv
    <2>2. call' = call
      BY <1>8 DEF StripeStep, IntentSucceeds, IntentDeclined, TransferReverses
    <2>3. OneIsUnderway'
      BY <1>2, <2>2 DEF Checked, ChecksHold, OneIsUnderway
    <2>4. QED
      BY <2>1, <2>3 DEF ChecksHold, Settled, Holds
  <1>9. CASE UNCHANGED vars
    BY <1>2, <1>9 DEF vars, db, stripe, Checked, ChecksHold, OneIsUnderway, PayoutsStand, Standing, RefundsMark, Refunded,
       DisputesMark, At, RequestHolds, HookHolds
  <1>10. QED
    BY <1>4, <1>5, <1>6, <1>7, <1>8, <1>9 DEF Next

\* SInv holds of every sequence of calls, deliveries, failures and Stripe's own
\* steps: what it says of the rows, up to the first call that writes beside
\* another, or dies halfway.
THEOREM SInvHolds == Spec => []SInv
  BY InitEstablishesSInv, StepKeepsSInv, PTL DEF Spec

\* A transfer that is live has a payout that stands, or is about to be committed
\* by one call, while no other payout stands and nothing is refunded.
LEMMA SInvPaysOnce ==
  ASSUME SInv  PROVE PaidOutOnce
  <1> SUFFICES ASSUME calm  PROVE PaidOutOnce
    BY DEF PaidOutOnce
  <1>0. /\ TypeOK /\ RowsBackedByStripe /\ PayoutsStand /\ RefundsMark
        /\ \A c \in Calls : RequestHolds(c)
        /\ OneIsUnderway
    BY DEF SInv, IInv, ChecksHold
  <1> DEFINE Due(k) == \E c \in Calls : /\ call[c].step = "transfer_commit" /\ call[c].key = k
                                       /\ status \in {"SUBMITTED", "DISPUTED"}
  <1>1. ASSUME NEW k \in TransferKeys, transfer[k] = "live"
        PROVE  k \in Standing \/ Due(k)
    <2>1. CASE payout[k] = "none"
      BY <1>0, <1>1, <2>1 DEF PayoutsStand, RequestHolds, At, TransferSteps
    <2>2. CASE payout[k] # "none"
      BY <1>0, <1>1, <2>2 DEF RowsBackedByStripe, Standing, TypeOK
    <2>3. QED
      BY <2>1, <2>2
  <1>2. /\ \A j, k \in Standing : j = k
        /\ Standing # {} => status = "RELEASED"
    BY <1>0 DEF PayoutsStand
  <1>3. ASSUME NEW j \in TransferKeys, NEW k \in TransferKeys,
               transfer[j] = "live", transfer[k] = "live"
        PROVE  j = k
    <2>1. CASE j \in Standing /\ k \in Standing
      BY <1>2, <2>1
    <2>2. CASE Due(j) /\ Due(k)
      BY <1>0, <2>2 DEF OneIsUnderway, Underway
    <2>3. ~(Standing # {} /\ (Due(j) \/ Due(k)))
      BY <1>2
    <2>4. QED
      BY <1>1, <1>3, <2>1, <2>2, <2>3
  <1>4. ASSUME NEW k \in TransferKeys, transfer[k] = "live", Refunded  PROVE FALSE
    <2>1. status = "REFUNDED" \/ \E c \in Calls : call[c].step = "refund_mark"
      BY <1>0, <1>4 DEF RefundsMark, At
    <2>2. \A c \in Calls : call[c].step = "refund_mark" => status = "DISPUTED"
      BY <1>0 DEF RequestHolds
    <2>3. CASE k \in Standing
      BY <1>2, <2>1, <2>2, <2>3
    <2>4. CASE Due(k)
      BY <1>0, <2>1, <2>4 DEF OneIsUnderway, Underway
    <2>5. QED
      BY <1>1, <1>4, <2>3, <2>4
  <1>5. AtRest => (status = "RELEASED" <=> Standing # {})
    BY <1>0, <1>2 DEF PayoutsStand, AtRest, Idle, At
  <1> HIDE DEF Due
  <1>6. QED
    BY <1>2, <1>3, <1>4, <1>5 DEF PaidOutOnce, Standing

\* However many keys the client tries and wherever calls die, Stripe holds one
\* live transfer for the milestone at most and no refund beside it, and
\* between calls the payout rows say so: release, resolve and the transfer
\* webhooks together, until one of them overtakes another or dies halfway.
THEOREM PaidOnce == Spec => []PaidOutOnce
  BY SInvPaysOnce, SInvHolds, PTL

LEMMA SInvBlocksRelease == SInv => OpenDisputeBlocksRelease
  <1>1. SUFFICES ASSUME SInv, calm, NEW d \in Disputes, status = "RELEASED", dispute[d] = "OPEN"
                 PROVE  \E c \in Calls : call[c].op = "resolve_release" /\ call[c].dispute = d
    BY DEF OpenDisputeBlocksRelease
  <1>2. PICK c \in Calls :
          /\ call[c].dispute = d
          /\ call[c].step \in {"dispute_mark", "refund_close", "resolve_close"}
    BY <1>1 DEF SInv, ChecksHold, DisputesMark
  <1>3. call[c].step = "resolve_close" /\ call[c].op = "resolve_release"
    BY <1>1, <1>2 DEF SInv, ChecksHold, RequestHolds
  <1>4. QED
    BY <1>2, <1>3

\* A milestone is RELEASED over an open dispute only by the call that resolves
\* it, until a call that read the milestone writes after another's write.
THEOREM DisputeBlocksRelease == Spec => []OpenDisputeBlocksRelease
  BY SInvHolds, SInvBlocksRelease, PTL

\* What a call's check still guarantees when it writes.
LEMMA StepFollowsLifecycle ==
  ASSUME SInv, [Next]_vars, calm'
  PROVE  /\ status' # status => <<status, status'>> \in Transitions
         /\ \A k \in TransferKeys : payout[k] = "FAILED" => payout'[k] = "FAILED"
  <1>0. TypeOK /\ ChecksHold
    BY CalmSince DEF SInv, IInv
  <1>1. ASSUME status' # status  PROVE <<status, status'>> \in Transitions
    <2>1. PICK c \in Calls :
            FundMark(c) \/ SubmitWrite(c) \/ TransferCommit(c) \/ DisputeMark(c)
            \/ RefundMark(c) \/ MarkFunded(c) \/ Backfill(c) \/ Reopen(c)
      BY <1>1, StatusWriters
    <2>2. RequestHolds(c) /\ HookHolds(c)
      BY <1>0 DEF ChecksHold
    <2>3. /\ call[c].step = "fund_mark" => status = "PENDING"
          /\ call[c].step = "submit_write" => status = "FUNDED"
          /\ call[c].step = "transfer_commit" => status \in {"SUBMITTED", "DISPUTED"}
          /\ call[c].step = "dispute_mark" => status \in {"PENDING", "FUNDED", "SUBMITTED"}
          /\ call[c].step = "refund_mark" => status = "DISPUTED"
          /\ call[c].step = "mark_funded" => status = "PENDING"
          /\ call[c].step # "backfill"
          /\ call[c].step = "reopen" => status = "RELEASED"
      BY <2>2 DEF RequestHolds, HookHolds, FundSteps, TransferSteps
    <2>4. QED
      BY <1>1, <2>1, <2>3 DEF FundMark, SubmitWrite, TransferCommit, DisputeMark, RefundMark,
         MarkFunded, Backfill, Reopen, At, Transitions, DocumentedTransitions
  <1>2. ASSUME NEW k \in TransferKeys, payout[k] = "FAILED"  PROVE payout'[k] = "FAILED"
    <2>1. CASE payout' = payout
      BY <1>2, <2>1
    <2>2. CASE payout' # payout
      <3>1. PICK c \in Calls :
              TransferCommit(c) \/ ConfirmPayout(c) \/ Backfill(c) \/ FailPayout(c)
        BY <2>2, PayoutWriters
      <3>2. call[c].step # "backfill" /\
            (call[c].step = "confirm_payout" => payout[call[c].key] = "IN_TRANSIT")
        BY <1>0 DEF ChecksHold, HookHolds
      <3>3. QED
        BY <1>0, <1>2, <3>1, <3>2 DEF TransferCommit, ConfirmPayout, Backfill, FailPayout, At, TypeOK
    <2>3. QED
      BY <2>1, <2>2
  <1>3. QED
    BY <1>1, <1>2

\* The milestone takes the transitions of the code alone, and a payout that
\* has failed is not brought back by a late or repeated transfer.created,
\* until a call writes over what another has written since its check.
THEOREM LifecycleIsFollowed == Spec => RowsFollowLifecycle
  <1>1. SInv /\ [Next]_vars => [calm' => /\ status' # status => <<status, status'>> \in Transitions
                                         /\ \A k \in TransferKeys : payout[k] = "FAILED" => payout'[k] = "FAILED"]_vars
    BY StepFollowsLifecycle
  <1>2. QED
    BY <1>1, SInvHolds, PTL DEF Spec, RowsFollowLifecycle

-----------------------------------------------------------------------------
(* The pages. *)

\* Handlers that call the service, and what each carries.
Calling == {"fund", "submit", "release", "dispute"}

Carries(w) ==
  /\ w.kind \in {"fund", "pay"} => w.key \in FundKeys /\ w.who = "client"
  /\ w.kind = "release" => w.key \in TransferKeys
  /\ w.kind = "check" => w.who = "developer"

Carried ==
  /\ \A i \in 1 .. MaxWork : Carries(wire[i]) /\ wire[i].account <= made
  /\ modal.at = "shut" <=> modal.key = NoId
  /\ desk.link <= made

\* A call serves the handler that waits for it, and no two the same one.
ServesItsCall ==
  \A c \in Calls : serves[c] # 0 =>
    /\ call[c] # Idle
    /\ wire[serves[c]].step = "in"
    /\ wire[serves[c]].kind \in Calling /\ wire[serves[c]].kind = call[c].op
    /\ wire[serves[c]].kind = "fund" => wire[serves[c]].key = call[c].key /\ call[c].step \in FundSteps
    /\ \A d \in Calls : serves[d] = serves[c] => d = c

\* A copy no write came after is true, and what was offered on it is not refused.
Dated(w) ==
  /\ w.seen <= rev
  /\ w.kind \in {"load", "refresh"} /\ w.step = "reply" =>
       w.row # None /\ (w.seen = rev => w.row = status)
  /\ w.kind \in Calling /\ w.step = "out" /\ w.seen = rev =>
       ~Refused(w.kind) \/ (w.kind = "dispute" /\ status = "DISPUTED")

CopiesAreDated ==
  /\ \A r \in parties :
       /\ panel[r].rev <= rev /\ ownRev[r] <= rev
       /\ panel[r].status # None /\ panel[r].rev = rev => panel[r].status = status
  /\ \A i \in 1 .. MaxWork : Dated(wire[i])

\* A list that is no older than n is on its way to r, or a handler that will
\* ask for one.
WillShow(w, r, n) ==
  /\ w.who = r /\ w.mounted
  /\ \/ w.kind \in {"submit", "release", "dispute"}
     \/ w.kind \in {"load", "refresh"} /\ (w.step = "reply" => w.seen >= n)

Knows(p, n) == p.rev >= n \/ p.error \/ p.behind

\* What runs for a panel that is not loaded yet.
Blank == {"free", "load", "check", "review"}

ListsAreAsked ==
  \A i \in 1 .. MaxWork :
    wire[i].kind \in {"load", "refresh"} => wire[i].step \in {"again", "reply", "lost"}

\* A party's last deed has reached its panel, or will.
DeedReaches(r) ==
  Knows(panel[r], ownRev[r]) \/ \E i \in 1 .. MaxWork : WillShow(wire[i], r, ownRev[r])

LoadsFirst(r) ==
  panel[r].status = None =>
    /\ ownRev[r] = 0
    /\ r = "client" => modal.at = "shut"
    /\ \A i \in 1 .. MaxWork : wire[i].who = r /\ wire[i].mounted => wire[i].kind \in Blank

DeedsReachPanels ==
  /\ status = "PENDING" => rev = 0
  /\ ListsAreAsked
  /\ \A r \in parties : DeedReaches(r) /\ LoadsFirst(r)

Checks == {i \in 1 .. MaxWork : wire[i].kind = "check"}

OneCheckAtATime ==
  "reloaded" \in marks \/
    /\ \A i, j \in Checks : i = j
    /\ Checks # {} => desk.loading
    /\ desk.loading => desk.link = 0
    /\ desk.link \in {0, account} /\ onboarded \subseteq {account}
    /\ \A i \in Checks :
         /\ wire[i].mounted
         /\ wire[i].step \in {"create", "save"} => account = 0
         /\ wire[i].step = "save" => wire[i].account # 0
         /\ wire[i].step = "retrieve" => wire[i].account = account
         /\ wire[i].step = "reply" => wire[i].account \in {0, account}

ReviewsFollowTransfer ==
  /\ reviews \in {0, 1}
  /\ reviews = 1 \/ (\E i \in 1 .. MaxWork : wire[i].kind = "review") => Transferred

Paying(w, k) == w.kind = "pay" /\ w.step = "confirm" /\ w.key = k
Asking(w, k) == w.kind = "fund" /\ w.step \in {"in", "done"} /\ w.key = k

\* An intent that is or may yet be charged.
Chargeable(k) ==
  \/ intent[k] = "succeeded"
  \/ k \in pressed /\ intent[k] = "processing"
  \/ \E i \in 1 .. MaxWork : Paying(wire[i], k)
  \/ /\ modal.key = k /\ intent[k] # "none"
     /\ modal.at = "form" \/ \E i \in 1 .. MaxWork : Asking(wire[i], k)

\* A handler of the payment form, and the form it is for.
FitsForm(w) ==
  /\ w.kind = "pay" => w.key \in pressed /\ (modal.key = w.key => modal.at = "form")
  /\ w.kind = "fund" =>
       /\ w.key \notin pressed
       /\ modal.key = w.key => modal.at = "loading"
       /\ w.step = "done" => intent[w.key] # "none"

\* Nothing is charged but what the client has confirmed, and no key is drawn twice.
FormsAndCharges ==
  /\ \A k \in FundKeys : reply[k] # "succeeded" /\ (intent[k] = "succeeded" => k \in pressed)
  /\ \A k \in pressed : intent[k] # "none"
  /\ modal.at = "form" => intent[modal.key] # "none"
  /\ \A i \in 1 .. MaxWork : FitsForm(wire[i])
  /\ \A i, j \in 1 .. MaxWork :
       wire[i].kind = "fund" /\ wire[j].kind = "fund" /\ wire[i].key = wire[j].key => i = j

\* A fund call that is to begin has a key no call was made with.
FundsAnew ==
  \A i \in 1 .. MaxWork : wire[i].kind = "fund" /\ wire[i].step = "out" =>
    /\ intent[wire[i].key] = "none"
    /\ \A c \in Calls : call[c].step \in FundSteps => call[c].key # wire[i].key

\* A payment that is recorded funds the milestone, unless its event is being handled.
PaidIsFunded ==
  \A k \in FundKeys :
    payment[k] = "SUCCEEDED" /\ status = "PENDING" => \E c \in Calls : At(c, "mark_funded")

OneIsChargeable ==
  "early" \in marks \/ \A j, k \in FundKeys : Chargeable(j) /\ Chargeable(k) => j = k

\* A fund call that is to create an intent while another may be charged: the
\* other's event has funded the milestone, or is about to.
ComesTooLate(i) ==
  /\ wire[i].kind = "fund" /\ wire[i].step = "in"
  /\ modal.key = wire[i].key /\ intent[wire[i].key] = "none"
  /\ \E j \in FundKeys \ {wire[i].key} : Chargeable(j)

PaymentIsSeen == status # "PENDING" \/ \E c \in Calls : At(c, "mark_funded")

LateAskIsSeen == "early" \in marks \/ \A i \in 1 .. MaxWork : ComesTooLate(i) => PaymentIsSeen

PagesInv ==
  /\ SInv /\ PageTypeOK /\ Carried
  /\ mix.pages # {} =>
       /\ ServesItsCall /\ CopiesAreDated /\ ButtonsAgree
       /\ OneCheckAtATime /\ ReviewsFollowTransfer /\ FormsAndCharges /\ FundsAnew
       /\ calm => DeedsReachPanels /\ PaidIsFunded /\ OneIsChargeable /\ LateAskIsSeen

-----------------------------------------------------------------------------

Kinds == {"load", "refresh", "fund", "pay", "submit", "release", "dispute", "check", "review"}

\* What a handler in flight is, field by field.
LEMMA WorkFields ==
  ASSUME PageTypeOK, NEW i \in 1 .. MaxWork
  PROVE  /\ wire[i] \in Work
         /\ wire[i].account \in 0 .. MaxAccounts /\ wire[i].key \in Keys \cup {NoId}
         /\ wire[i].mounted \in BOOLEAN /\ wire[i].row \in MilestoneStatus \cup {None}
         /\ wire[i].seen \in Nat /\ wire[i].tries \in 0 .. MaxPolls - 1 /\ wire[i].who \in parties
  BY DEF PageTypeOK, Work

LEMMA PanelFields ==
  ASSUME PageTypeOK, NEW r \in parties
  PROVE  /\ panel[r] \in Panel /\ panel[r].behind \in BOOLEAN /\ panel[r].busy \in BOOLEAN
         /\ panel[r].error \in BOOLEAN /\ panel[r].rev \in Nat
         /\ panel[r].status \in MilestoneStatus \cup {None}
  BY DEF PageTypeOK, Panel

LEMMA StartIsWork ==
  ASSUME PageTypeOK, NEW kind \in Kinds, NEW r \in parties, NEW step \in {"out", "again", "confirm", "insert"},
         NEW k \in Keys \cup {NoId}
  PROVE  /\ Start(kind, r, step, k) \in Work /\ Ask(r, kind) \in Work /\ Free \in Work
         /\ Ask(r, kind) = [Start(kind, r, "again", NoId) EXCEPT !.seen = 0]
  <1>1. panel[r].rev \in Nat
    BY PanelFields
  <1>2. 0 \in 0 .. MaxAccounts /\ 0 \in 0 .. MaxPolls - 1
    BY FundingAssumption
  <1>3. Start(kind, r, step, k) \in Work /\ Start(kind, r, "again", NoId) \in Work
    BY <1>1, <1>2 DEF Start, Work, Kinds
  <1>4. Ask(r, kind) \in Work
    BY <1>3 DEF Ask, Work
  <1>5. Free \in Work
    BY <1>2 DEF Free, Work, parties
  <1>6. QED
    BY <1>3, <1>4, <1>5 DEF Ask

LEMMA PanelTypes ==
  ASSUME TypeOK, PageTypeOK,
         \/ HandleSubmitDelivery \/ HandleRelease \/ \E r \in parties : HandleDispute(r)
         \/ \E i \in 1 .. MaxWork : Done(i) \/ Answer(i) \/ TakeList(i)
  PROVE  PageTypeOK'
  <1>1. ASSUME NEW r \in parties, NEW b \in {"submit", "release", "dispute"}, NEW k \in Keys \cup {NoId}, Handle(r, b, k)
        PROVE  PageTypeOK'
    <2>1. PICK i \in 1 .. MaxWork : Become(i, Start(b, r, "out", k))
      BY <1>1 DEF Handle
    <2>2. wire' \in [1 .. MaxWork -> Work]
      BY <2>1, StartIsWork DEF Kinds, Become, PageTypeOK
    <2>3. panel' \in [parties -> Panel]
      <3>1. [panel[r] EXCEPT !.busy = TRUE, !.error = FALSE] \in Panel
        BY PanelFields DEF Panel
      <3>2. QED
        BY <1>1, <3>1 DEF Handle, PageTypeOK
    <2>4. QED
      BY <1>1, <2>2, <2>3 DEF Handle, PageTypeOK, payouts, history
  <1>2. CASE HandleSubmitDelivery \/ HandleRelease \/ \E r \in parties : HandleDispute(r)
    BY <1>1, <1>2 DEF HandleSubmitDelivery, HandleRelease, HandleDispute, parties, Keys
  <1>3. ASSUME NEW i \in 1 .. MaxWork, Done(i)  PROVE PageTypeOK'
    <2>1. wire' \in [1 .. MaxWork -> Work]
      BY <1>3, WorkFields, StartIsWork DEF Kinds, Done, Become, PageTypeOK
    <2>2. panel' \in [parties -> Panel]
      BY <1>3 DEF Done, PageTypeOK, Panel
    <2>3. QED
      BY <1>3, <2>1, <2>2 DEF Done, PageTypeOK, payouts, history
  <1>4. ASSUME NEW i \in 1 .. MaxWork, Answer(i)  PROVE PageTypeOK'
    <2>1. [wire[i] EXCEPT !.step = "reply", !.row = status, !.seen = rev] \in Work
      <3>1. rev \in Nat /\ status \in MilestoneStatus \cup {None} /\ wire[i] \in Work
        BY DEF PageTypeOK, TypeOK
      <3>2. QED
        BY <3>1 DEF Work
    <2>2. wire' \in [1 .. MaxWork -> Work]
      BY <1>4, <2>1 DEF Answer, Become, PageTypeOK
    <2>3. QED
      BY <1>4, <2>2 DEF Answer, PageTypeOK, payouts, history
  <1>5. ASSUME NEW i \in 1 .. MaxWork, TakeList(i)  PROVE PageTypeOK'
    <2> DEFINE w == wire[i]
    <2>1. [panel[w.who] EXCEPT !.status = w.row, !.rev = w.seen,
                               !.behind = @ \/ w.seen < panel[w.who].rev] \in Panel
      BY WorkFields, PanelFields DEF Panel
    <2>2. panel' \in [parties -> Panel]
      BY <1>5, <2>1 DEF TakeList, PageTypeOK
    <2>3. wire' \in [1 .. MaxWork -> Work]
      BY <1>5, StartIsWork DEF TakeList, Become, PageTypeOK, Kinds, parties
    <2>4. QED
      BY <1>5, <2>2, <2>3 DEF TakeList, PageTypeOK, payouts, history
  <1>6. QED
    BY <1>2, <1>3, <1>4, <1>5

LEMMA FormTypes ==
  ASSUME TypeOK, PageTypeOK, Carried,
         \/ OpenModal \/ CloseModal \/ HandlePay
         \/ \E i \in 1 .. MaxWork :
              TakeSecret(i) \/ Confirm(i) \/ Declined(i) \/ Redirected(i) \/ Poll(i)
  PROVE  PageTypeOK'
  <1>0. /\ \A at \in {"shut", "loading", "form", "error"}, k \in FundKeys \cup {NoId} :
             Modal(at, k) \in [at : {"shut", "loading", "form", "error"}, key : FundKeys \cup {NoId}, paying : BOOLEAN]
        /\ modal.key \in FundKeys \cup {NoId}
    BY DEF Modal, PageTypeOK
  <1>1. CASE OpenModal
    <2>1. PICK k \in FundKeys, i \in 1 .. MaxWork :
            Become(i, Start("fund", "client", "out", k)) /\ modal' = Modal("loading", k)
      BY <1>1 DEF OpenModal
    <2>2. wire' \in [1 .. MaxWork -> Work]
      BY <2>1, StartIsWork DEF Become, PageTypeOK, Kinds, parties, Keys
    <2>3. QED
      BY <1>0, <1>1, <2>1, <2>2 DEF OpenModal, PageTypeOK, payouts, history
  <1>2. CASE CloseModal
    BY <1>0, <1>2 DEF CloseModal, Shut, PageTypeOK, payouts, history
  <1>3. CASE HandlePay
    <2>1. PICK i \in 1 .. MaxWork : Become(i, Start("pay", "client", "confirm", modal.key))
      BY <1>3 DEF HandlePay
    <2>2. modal.key \in FundKeys
      BY <1>0, <1>3 DEF HandlePay, Carried
    <2>3. wire' \in [1 .. MaxWork -> Work]
      BY <2>1, <2>2, StartIsWork DEF Become, PageTypeOK, Kinds, parties, Keys
    <2>4. QED
      BY <1>3, <2>2, <2>3 DEF HandlePay, PageTypeOK, payouts
  <1>4. ASSUME NEW i \in 1 .. MaxWork, TakeSecret(i)  PROVE PageTypeOK'
    <2>1. wire' \in [1 .. MaxWork -> Work]
      BY <1>4, StartIsWork DEF TakeSecret, Become, PageTypeOK, Kinds, parties
    <2>2. QED
      BY <1>0, <1>4, <2>1 DEF TakeSecret, PageTypeOK, payouts, history
  <1>5. ASSUME NEW i \in 1 .. MaxWork, Confirm(i)  PROVE PageTypeOK'
    <2>1. [wire[i] EXCEPT !.step = "poll"] \in Work
      BY WorkFields DEF Work
    <2>2. QED
      BY <1>5, <2>1 DEF Confirm, ToStep, Become, PageTypeOK, payouts, history
  <1>6. ASSUME NEW i \in 1 .. MaxWork, Declined(i)  PROVE PageTypeOK'
    <2>1. wire' \in [1 .. MaxWork -> Work]
      BY <1>6, StartIsWork DEF Declined, Become, PageTypeOK, Kinds, parties
    <2>2. QED
      BY <1>6, <2>1 DEF Declined, EndPaying, PageTypeOK, payouts, history
  <1>7. ASSUME NEW i \in 1 .. MaxWork, Redirected(i)  PROVE PageTypeOK'
    <2>1. \A j \in 1 .. MaxWork : [wire[j] EXCEPT !.mounted = FALSE] \in Work
      BY WorkFields DEF Work
    <2>2. Ask("client", "load") \in Work
      BY StartIsWork DEF Kinds, parties
    <2>3. wire' \in [1 .. MaxWork -> Work]
      BY <1>7, <2>1, <2>2, WorkFields DEF Redirected
    <2>4. Fresh \in Panel
      BY DEF Fresh, Panel
    <2>5. panel' \in [parties -> Panel] /\ ownRev' \in [parties -> Nat]
      BY <1>7, <2>4 DEF Redirected, PageTypeOK, parties
    <2>6. QED
      BY <1>0, <1>7, <2>3, <2>5 DEF Redirected, Shut, PageTypeOK, payouts
  <1>8. ASSUME NEW i \in 1 .. MaxWork, Poll(i)  PROVE PageTypeOK'
    <2>1. wire[i].tries + 1 # MaxPolls => [wire[i] EXCEPT !.tries = @ + 1] \in Work
      BY WorkFields, FundingAssumption DEF Work
    <2>2. Ask("client", "refresh") \in Work /\ Free \in Work
      BY StartIsWork DEF Kinds, parties
    <2>3. wire' \in [1 .. MaxWork -> Work]
      BY <1>8, <2>1, <2>2 DEF Poll, Become, PageTypeOK
    <2>4. ownRev' \in [parties -> Nat]
      BY <1>8 DEF Poll, PageTypeOK, parties
    <2>5. QED
      BY <1>0, <1>8, <2>3, <2>4 DEF Poll, Shut, PageTypeOK, payouts
  <1>9. QED
    BY <1>1, <1>2, <1>3, <1>4, <1>5, <1>6, <1>7, <1>8

LEMMA DeskTypes ==
  ASSUME TypeOK, PageTypeOK, Carried,
         \/ CheckStatus \/ ReloadSettings \/ Onboard \/ CreateReview
         \/ \E i \in 1 .. MaxWork :
              \/ ReadDeveloper(i) \/ CreateAccount(i) \/ SaveAccount(i) \/ Retrieve(i)
              \/ TakeStatus(i) \/ InsertReview(i)
  PROVE  PageTypeOK'
  <1>0. /\ account \in 0 .. MaxAccounts /\ account \in Nat /\ made \in Nat /\ MaxAccounts \in Nat
        /\ desk.link \in 0 .. made /\ \A i \in 1 .. MaxWork : wire[i].account \in 0 .. made
        /\ "check" \in Kinds /\ "review" \in Kinds /\ "developer" \in parties /\ "client" \in parties
        /\ NoId \in Keys \cup {NoId} /\ 0 \in 0 .. MaxAccounts
    BY FundingAssumption, WorkFields DEF PageTypeOK, Kinds, parties, Carried, Carries
  <1>1. CASE CheckStatus
    <2>1. PICK i \in 1 .. MaxWork : Become(i, Start("check", "developer", "out", NoId))
      BY <1>1 DEF CheckStatus
    <2>2. wire' \in [1 .. MaxWork -> Work]
      BY <1>0, <2>1, StartIsWork DEF Become, PageTypeOK
    <2>3. QED
      BY <1>1, <2>2 DEF CheckStatus, PageTypeOK, payouts, history
  <1>2. CASE ReloadSettings
    <2>1. \A i \in 1 .. MaxWork : [wire[i] EXCEPT !.mounted = FALSE] \in Work
      BY WorkFields DEF Work
    <2>2. wire' \in [1 .. MaxWork -> Work]
      BY <1>2, <2>1, WorkFields DEF ReloadSettings
    <2>3. QED
      BY <1>0, <1>2, <2>2 DEF ReloadSettings, PageTypeOK, payouts
  <1>3. CASE Onboard
    <2>1. desk.link \in 1 .. made
      BY <1>0, <1>3 DEF Onboard
    <2>2. QED
      BY <1>0, <1>3, <2>1 DEF Onboard, PageTypeOK, history
  <1>4. CASE CreateReview
    <2>1. PICK i \in 1 .. MaxWork : Become(i, Start("review", "client", "insert", NoId))
      BY <1>4 DEF CreateReview
    <2>2. wire' \in [1 .. MaxWork -> Work]
      BY <1>0, <2>1, StartIsWork DEF Become, PageTypeOK
    <2>3. QED
      BY <1>4, <2>2 DEF CreateReview, PageTypeOK, payouts, history
  <1>5. ASSUME NEW i \in 1 .. MaxWork, ReadDeveloper(i)  PROVE PageTypeOK'
    <2>1. [wire[i] EXCEPT !.step = IF account = 0 THEN "create" ELSE "retrieve", !.account = account] \in Work
      BY <1>0, WorkFields DEF Work
    <2>2. QED
      BY <1>5, <2>1 DEF ReadDeveloper, Become, PageTypeOK, payouts, history
  <1>6. ASSUME NEW i \in 1 .. MaxWork, CreateAccount(i)  PROVE PageTypeOK'
    <2>0. made < MaxAccounts /\ made' = made + 1
      BY <1>6 DEF CreateAccount
    <2>1. made + 1 \in 0 .. MaxAccounts
      BY <1>0, <2>0
    <2>2. [wire[i] EXCEPT !.step = "save", !.account = made + 1] \in Work
      BY <2>1, WorkFields DEF Work
    <2>3. wire' \in [1 .. MaxWork -> Work]
      BY <1>6, <2>2 DEF CreateAccount, Become, PageTypeOK
    <2>4. QED
      <3>1. UNCHANGED <<panel, modal, desk, serves, account, onboarded, reviews, rev, ownRev, pressed, marks>>
        BY <1>6 DEF CreateAccount, history
      <3>2. account \in 0 .. made' /\ onboarded \subseteq 1 .. made'
        BY <1>0, <2>0 DEF PageTypeOK
      <3>3. QED
        BY <2>0, <2>1, <2>3, <3>1, <3>2 DEF PageTypeOK
  <1>7. ASSUME NEW i \in 1 .. MaxWork, Retrieve(i)  PROVE PageTypeOK'
    <2>1. [wire[i] EXCEPT !.step = "reply", !.account = IF @ \in onboarded THEN 0 ELSE @] \in Work
      BY <1>0, WorkFields DEF Work
    <2>2. QED
      BY <1>7, <2>1 DEF Retrieve, Become, PageTypeOK, payouts, history
  <1>8. ASSUME NEW i \in 1 .. MaxWork, TakeStatus(i)  PROVE PageTypeOK'
    <2>1. wire' \in [1 .. MaxWork -> Work]
      BY <1>0, <1>8, StartIsWork DEF TakeStatus, Become, PageTypeOK
    <2>2. QED
      BY <1>8, <2>1, WorkFields DEF TakeStatus, PageTypeOK, payouts, history
  <1>9. ASSUME NEW i \in 1 .. MaxWork, InsertReview(i)  PROVE PageTypeOK'
    <2>1. wire' \in [1 .. MaxWork -> Work]
      BY <1>0, <1>9, StartIsWork DEF InsertReview, Become, PageTypeOK
    <2>2. QED
      BY <1>9, <2>1 DEF InsertReview, PageTypeOK, history
  <1>10. ASSUME NEW i \in 1 .. MaxWork, SaveAccount(i)  PROVE PageTypeOK'
    <2>1. [wire[i] EXCEPT !.step = "retrieve"] \in Work
      BY WorkFields DEF Work
    <2>2. QED
      BY <1>0, <1>10, <2>1 DEF SaveAccount, ToStep, Become, PageTypeOK, history
  <1>11. QED
    BY <1>1, <1>2, <1>3, <1>4, <1>5, <1>6, <1>7, <1>8, <1>9, <1>10

LEMMA ServerTypes ==
  ASSUME TypeOK, PageTypeOK,
         \/ \E i \in 1 .. MaxWork : Refuse(i) \/ Lose(i) \/ Catch(i) \/ \E c \in Calls : Accept(i, c)
         \/ \E c \in Calls : GoOn(c) \/ Resolve(c) \/ \E e \in Event : Hook(c, e)
         \/ StripeSettles \/ Direct
  PROVE  PageTypeOK'
  <1>1. \A i \in 1 .. MaxWork, step \in {"in", "done", "lost"} : [wire[i] EXCEPT !.step = step] \in Work
    BY WorkFields DEF Work
  <1>2. ASSUME NEW i \in 1 .. MaxWork, NEW step \in {"in", "done", "lost"}, ToStep(i, step)
        PROVE  wire' \in [1 .. MaxWork -> Work]
    BY <1>1, <1>2 DEF ToStep, Become, PageTypeOK
  <1>3. ASSUME NEW i \in 1 .. MaxWork, Refuse(i) \/ Lose(i)  PROVE PageTypeOK'
    BY <1>2, <1>3 DEF Refuse, Lose, PageTypeOK, payouts, history
  <1>4. ASSUME NEW i \in 1 .. MaxWork, NEW c \in Calls, Accept(i, c)  PROVE PageTypeOK'
    BY <1>2, <1>4 DEF Accept, PageTypeOK, payouts
  <1>5. ASSUME NEW i \in 1 .. MaxWork, Catch(i)  PROVE PageTypeOK'
    <2>1. wire' \in [1 .. MaxWork -> Work]
      BY <1>5, StartIsWork DEF Catch, Become, PageTypeOK, Kinds, parties
    <2>2. \A r \in parties, b \in BOOLEAN :
            /\ [panel[r] EXCEPT !.behind = TRUE] \in Panel
            /\ [panel[r] EXCEPT !.error = TRUE, !.busy = b] \in Panel
      BY PanelFields DEF Panel
    <2>3. panel' \in [parties -> Panel]
      BY <1>5, <2>2, WorkFields, PanelFields DEF Catch, PageTypeOK
    <2>4. modal' \in [at : {"shut", "loading", "form", "error"}, key : FundKeys \cup {NoId}, paying : BOOLEAN]
      BY <1>5 DEF Catch, Modal, PageTypeOK
    <2>5. desk' \in [link : 0 .. MaxAccounts, loading : BOOLEAN]
      BY <1>5 DEF Catch, PageTypeOK
    <2>6. QED
      BY <1>5, <2>1, <2>3, <2>4, <2>5 DEF Catch, PageTypeOK, payouts, history
  <1>6. ASSUME NEW c \in Calls, GoOn(c)  PROVE PageTypeOK'
    <2>1. rev' \in Nat
      BY <1>6 DEF GoOn, PageTypeOK
    <2>2. /\ serves[c] \in 0 .. MaxWork
          /\ serves[c] # 0 => serves[c] \in 1 .. MaxWork /\ wire[serves[c]].who \in parties
      BY WorkFields, FundingAssumption DEF PageTypeOK
    <2>3. CASE call'[c] = Idle /\ serves[c] # 0
      <3>1. wire' \in [1 .. MaxWork -> Work]
        BY <1>2, <1>6, <2>2, <2>3 DEF GoOn
      <3>2. ownRev' \in [parties -> Nat]
        BY <1>6, <2>1, <2>2, <2>3 DEF GoOn, PageTypeOK
      <3>3. serves' \in [Calls -> 0 .. MaxWork]
        BY <1>6, <2>3, FundingAssumption DEF GoOn, PageTypeOK
      <3>4. QED
        BY <1>6, <2>1, <3>1, <3>2, <3>3 DEF GoOn, PageTypeOK, payouts
    <2>4. CASE ~(call'[c] = Idle /\ serves[c] # 0)
      BY <1>6, <2>1, <2>4 DEF GoOn, PageTypeOK, payouts
    <2>5. QED
      BY <2>3, <2>4
  <1>7. CASE UNCHANGED pageVars
    BY <1>7 DEF pageVars, PageTypeOK, payouts, history
  <1>8. ASSUME NEW c \in Calls, Resolve(c)  PROVE PageTypeOK'
    BY <1>8 DEF Resolve, PageTypeOK, payouts, history
  <1>9. QED
    BY <1>3, <1>4, <1>5, <1>6, <1>7, <1>8 DEF Hook, StripeSettles, Direct

-----------------------------------------------------------------------------
(* Every step of the pages is a step of Escrow, or none. *)

\* A step in the order in which the lemmas take them.
PanelStep ==
  \/ HandleSubmitDelivery \/ HandleRelease \/ \E r \in parties : HandleDispute(r)
  \/ \E i \in 1 .. MaxWork : Done(i) \/ Answer(i) \/ TakeList(i)

FormStep ==
  \/ OpenModal \/ CloseModal \/ HandlePay
  \/ \E i \in 1 .. MaxWork : TakeSecret(i) \/ Confirm(i) \/ Declined(i) \/ Redirected(i) \/ Poll(i)

DeskStep ==
  \/ CheckStatus \/ ReloadSettings \/ Onboard \/ CreateReview
  \/ \E i \in 1 .. MaxWork :
       \/ ReadDeveloper(i) \/ CreateAccount(i) \/ SaveAccount(i) \/ Retrieve(i)
       \/ TakeStatus(i) \/ InsertReview(i)

ServerStep ==
  \/ \E i \in 1 .. MaxWork : Refuse(i) \/ Lose(i) \/ Catch(i) \/ \E c \in Calls : Accept(i, c)
  \/ \E c \in Calls : GoOn(c) \/ Resolve(c) \/ \E e \in Event : Hook(c, e)
  \/ StripeSettles \/ Direct

LEMMA EveryStep == PagesNext => PanelStep \/ FormStep \/ DeskStep \/ ServerStep
  BY DEF PagesNext, Works, PanelStep, FormStep, DeskStep, ServerStep

LEMMA PagesStepIsEscrowStep ==
  ASSUME PageTypeOK, Carried, [PagesNext]_allVars
  PROVE  [Next]_vars
  <1>1. PanelStep \/ DeskStep => UNCHANGED vars
    BY DEF PanelStep, DeskStep, HandleSubmitDelivery, HandleRelease, HandleDispute, Handle, Done,
       Answer, TakeList, CheckStatus, ReloadSettings, Onboard, CreateReview, ReadDeveloper,
       CreateAccount, SaveAccount, Retrieve, TakeStatus, InsertReview
  <1>2. ASSUME NEW i \in 1 .. MaxWork, wire[i].kind \in {"fund", "pay"}  PROVE wire[i].key \in FundKeys
    BY <1>2 DEF Carried, Carries
  <1>3. FormStep => [Next]_vars
    <2>1. OpenModal \/ CloseModal \/ HandlePay => UNCHANGED vars
      BY DEF OpenModal, CloseModal, HandlePay
    <2>2. ASSUME NEW i \in 1 .. MaxWork, Confirm(i) \/ Declined(i) \/ Redirected(i)  PROVE [Next]_vars
      <3>1. wire[i].key \in FundKeys
        BY <1>2, <2>2 DEF Confirm, Declined, Redirected, IsAt
      <3>2. IntentSucceeds(wire[i].key) \/ IntentDeclined(wire[i].key) \/ UNCHANGED vars
        BY <2>2 DEF Confirm, Declined, Redirected
      <3>3. QED
        BY <3>1, <3>2 DEF Next, StripeStep
    <2>3. ASSUME NEW i \in 1 .. MaxWork, TakeSecret(i) \/ Poll(i)  PROVE UNCHANGED vars
      BY <2>3 DEF TakeSecret, Poll
    <2>4. QED
      BY <2>1, <2>2, <2>3 DEF FormStep
  <1>4. ServerStep => [Next]_vars
    <2>1. ASSUME NEW i \in 1 .. MaxWork, NEW c \in Calls, Accept(i, c)  PROVE Request(c) /\ UNCHANGED calm
      BY <2>1, <1>2 DEF Accept, Request, Carried, Carries
    <2>2. ASSUME NEW i \in 1 .. MaxWork, Refuse(i) \/ Lose(i) \/ Catch(i)  PROVE UNCHANGED vars
      BY <2>2 DEF Refuse, Lose, Catch
    <2>3. ASSUME NEW c \in Calls, Resolve(c)  PROVE Request(c) /\ UNCHANGED calm
      BY <2>3 DEF Resolve, Request
    <2>4. \A c \in Calls : GoOn(c) => Continue(c) /\ Tracked(c)
      BY DEF GoOn
    <2>5. \A c \in Calls, e \in Event : Hook(c, e) => HandleStripeWebhook(c, e) /\ Tracked(c)
      BY DEF Hook
    <2>6. StripeSettles => StripeStep
      BY DEF StripeSettles, StripeStep, PageTypeOK
    <2>7. QED
      BY <2>1, <2>2, <2>3, <2>4, <2>5, <2>6 DEF ServerStep, Next, Direct
  <1>5. CASE UNCHANGED allVars
    BY <1>5 DEF allVars
  <1>6. QED
    BY <1>1, <1>3, <1>4, <1>5, EveryStep

-----------------------------------------------------------------------------
(* What a handler carries. *)

LEMMA BecomeEffect ==
  ASSUME PageTypeOK, NEW i \in 1 .. MaxWork, NEW w, Become(i, w)
  PROVE  wire'[i] = w /\ \A j \in 1 .. MaxWork : j # i => wire'[j] = wire[j]
  BY DEF Become, PageTypeOK

\* A handler that is started, or ends, or goes on.
LEMMA CarriedOn ==
  ASSUME PageTypeOK, Carried, NEW i \in 1 .. MaxWork, NEW w, Become(i, w),
         Carries(w), w.account <= made, UNCHANGED <<modal, desk, made>>
  PROVE  Carried'
  BY BecomeEffect DEF Carried, Carries

\* What a handler may become without carrying anything else.
LEMMA BecomeCarries ==
  ASSUME PageTypeOK, Carried, NEW i \in 1 .. MaxWork, NEW w, Become(i, w), UNCHANGED <<modal, desk, made>>,
         \/ w = Free \/ \E r \in parties, kind \in {"load", "refresh"} : w = Ask(r, kind)
         \/ /\ w.kind = wire[i].kind /\ w.key = wire[i].key /\ w.who = wire[i].who
            /\ w.account = wire[i].account \/ w.account \in 0 .. made
  PROVE  Carried'
  <1>1. made \in Nat
    BY FundingAssumption DEF PageTypeOK
  <1>2. Carries(wire[i]) /\ wire[i].account <= made
    BY DEF Carried
  <1>3. CASE w = Free
    BY <1>1, <1>3, CarriedOn DEF Carries, Free
  <1>4. ASSUME NEW r \in parties, NEW kind \in {"load", "refresh"}, w = Ask(r, kind)  PROVE Carried'
    <2>1. Carries(w) /\ w.account <= made
      BY <1>1, <1>4 DEF Carries, Ask, Start
    <2>2. QED
      BY <2>1, CarriedOn
  <1>5. CASE /\ w.kind = wire[i].kind /\ w.key = wire[i].key /\ w.who = wire[i].who
             /\ w.account = wire[i].account \/ w.account \in 0 .. made
    <2>1. Carries(w) /\ w.account <= made
      BY <1>1, <1>2, <1>5 DEF Carries
    <2>2. QED
      BY <2>1, CarriedOn
  <1>6. QED
    BY <1>3, <1>4, <1>5

LEMMA PanelStepCarries ==
  ASSUME PageTypeOK, Carried, PanelStep
  PROVE  Carried'
  <1>0. made \in Nat
    BY FundingAssumption DEF PageTypeOK
  <1>2. ASSUME NEW r \in parties, NEW b \in {"submit", "release", "dispute"}, NEW k \in Keys \cup {NoId}, Handle(r, b, k),
               b = "release" => k \in TransferKeys
        PROVE  Carried'
    <2>1. PICK i \in 1 .. MaxWork : Become(i, Start(b, r, "out", k))
      BY <1>2 DEF Handle
    <2>2. Carries(Start(b, r, "out", k)) /\ Start(b, r, "out", k).account <= made
      BY <1>0, <1>2 DEF Carries, Start
    <2>3. QED
      BY <1>2, <2>1, <2>2, CarriedOn DEF Handle, payouts
  <1>3. CASE HandleSubmitDelivery \/ HandleRelease \/ \E r \in parties : HandleDispute(r)
    BY <1>2, <1>3 DEF HandleSubmitDelivery, HandleRelease, HandleDispute, parties, Keys
  <1>4. ASSUME NEW i \in 1 .. MaxWork, Done(i) \/ Answer(i) \/ TakeList(i)
        PROVE  Carried'
    <2>1. UNCHANGED <<modal, desk, made>>
      BY <1>4 DEF Done, Answer, TakeList, payouts
    <2>2. QED
      BY <1>4, <2>1, BecomeCarries, WorkFields DEF Done, Answer, TakeList, Work
  <1>5. QED
    BY <1>3, <1>4 DEF PanelStep

LEMMA FormStepCarries ==
  ASSUME PageTypeOK, Carried, FormStep
  PROVE  Carried'
  <1>0. /\ made \in Nat /\ modal.key \in FundKeys \cup {NoId} /\ NoId \notin FundKeys
        /\ \A at, k : Modal(at, k).at = at /\ Modal(at, k).key = k
    BY FundingAssumption, NoIdAssumption DEF PageTypeOK, Modal, Keys
  <1>1. ASSUME NEW i \in 1 .. MaxWork, NEW w, Become(i, w), Carries(w), w.account <= made,
               modal'.at = "shut" <=> modal'.key = NoId, UNCHANGED <<desk, made>>
        PROVE  Carried'
    BY <1>1, BecomeEffect DEF Carried, Carries
  <1>2. \A kind \in {"load", "refresh"} : \A r : /\ Carries(Free) /\ Free.account <= made
                                             /\ Carries(Ask(r, kind)) /\ Ask(r, kind).account <= made
    BY <1>0 DEF Carries, Free, Ask, Start
  <1>3. CASE OpenModal
    <2>1. PICK k \in FundKeys, i \in 1 .. MaxWork :
            Become(i, Start("fund", "client", "out", k)) /\ modal' = Modal("loading", k)
      BY <1>3 DEF OpenModal
    <2>2. Carries(Start("fund", "client", "out", k)) /\ Start("fund", "client", "out", k).account <= made
      BY <1>0 DEF Carries, Start
    <2>3. modal'.at # "shut" /\ modal'.key # NoId
      BY <1>0, <2>1
    <2>4. QED
      BY <1>1, <1>3, <2>1, <2>2, <2>3 DEF OpenModal, payouts
  <1>4. CASE CloseModal
    BY <1>0, <1>4 DEF CloseModal, Shut, Carried, payouts
  <1>5. CASE HandlePay
    <2>1. PICK i \in 1 .. MaxWork : Become(i, Start("pay", "client", "confirm", modal.key))
      BY <1>5 DEF HandlePay
    <2>2. modal.key \in FundKeys /\ modal.at = "form"
      BY <1>0, <1>5 DEF HandlePay, Carried
    <2>3. Carries(Start("pay", "client", "confirm", modal.key)) /\ Start("pay", "client", "confirm", modal.key).account <= made
      BY <1>0, <2>2 DEF Carries, Start
    <2>4. modal'.at = modal.at /\ modal'.key = modal.key
      BY <1>5 DEF HandlePay, PageTypeOK
    <2>5. QED
      BY <1>0, <1>1, <1>5, <2>1, <2>2, <2>3, <2>4 DEF HandlePay, payouts
  <1>6. ASSUME NEW i \in 1 .. MaxWork, TakeSecret(i)  PROVE Carried'
    <2>1. modal'.at = "shut" <=> modal'.key = NoId
      <3>1. wire[i].key \in FundKeys
        BY <1>6 DEF TakeSecret, IsAt, Carried, Carries
      <3>2. QED
        BY <1>0, <1>6, <3>1 DEF TakeSecret, Carried
    <2>2. QED
      BY <1>1, <1>2, <1>6, <2>1 DEF TakeSecret, payouts
  <1>7. ASSUME NEW i \in 1 .. MaxWork, Confirm(i)  PROVE Carried'
    BY <1>7, BecomeCarries, WorkFields DEF Confirm, ToStep, payouts, Work
  <1>8. ASSUME NEW i \in 1 .. MaxWork, Declined(i)  PROVE Carried'
    <2>1. modal'.at = modal.at /\ modal'.key = modal.key
      BY <1>8 DEF Declined, EndPaying, PageTypeOK
    <2>2. QED
      BY <1>1, <1>2, <1>8, <2>1 DEF Declined, Carried, payouts
  <1>9. ASSUME NEW i \in 1 .. MaxWork, Redirected(i)  PROVE Carried'
    <2>1. ASSUME NEW j \in 1 .. MaxWork  PROVE Carries(wire'[j]) /\ wire'[j].account <= made
      <3>1. \/ wire'[j] = Ask("client", "load") \/ wire'[j] = wire[j]
            \/ wire'[j] = [wire[j] EXCEPT !.mounted = FALSE]
        BY <1>9 DEF Redirected
      <3>2. wire[j] \in Work /\ Carries(wire[j]) /\ wire[j].account <= made
        BY WorkFields DEF Carried
      <3>3. QED
        BY <1>0, <3>1, <3>2 DEF Carries, Ask, Start, Work
    <2>2. QED
      BY <1>0, <1>9, <2>1 DEF Redirected, Shut, Carried, payouts
  <1>10. ASSUME NEW i \in 1 .. MaxWork, Poll(i)  PROVE Carried'
    <2>1. modal'.at = "shut" <=> modal'.key = NoId
      BY <1>0, <1>10 DEF Poll, Shut, Carried
    <2>2. PICK w : Become(i, w) /\ (w = Free \/ w = Ask("client", "refresh") \/ w = [wire[i] EXCEPT !.tries = @ + 1])
      BY <1>10 DEF Poll
    <2>3. Carries(w) /\ w.account <= made
      <3>1. wire[i] \in Work /\ Carries(wire[i]) /\ wire[i].account <= made
        BY WorkFields DEF Carried
      <3>2. QED
        BY <1>0, <2>2, <3>1 DEF Carries, Free, Ask, Start, Work
    <2>4. QED
      BY <1>1, <1>10, <2>1, <2>2, <2>3 DEF Poll, payouts
  <1>11. QED
    BY <1>3, <1>4, <1>5, <1>6, <1>7, <1>8, <1>9, <1>10 DEF FormStep

LEMMA DeskStepCarries ==
  ASSUME PageTypeOK, Carried, DeskStep
  PROVE  Carried'
  <1>0. /\ made \in Nat /\ account \in 0 .. made /\ "check" # "fund"
        /\ \A i \in 1 .. MaxWork : wire[i].account \in 0 .. made
    BY FundingAssumption, WorkFields DEF PageTypeOK, Carried
  <1>1. CASE CheckStatus
    <2>1. PICK i \in 1 .. MaxWork : Become(i, Start("check", "developer", "out", NoId))
      BY <1>1 DEF CheckStatus
    <2>2. Carries(Start("check", "developer", "out", NoId)) /\ Start("check", "developer", "out", NoId).account <= made
      BY <1>0 DEF Carries, Start
    <2>3. \A j \in 1 .. MaxWork : Carries(wire'[j]) /\ wire'[j].account <= made
      BY <2>1, <2>2, BecomeEffect DEF Carried
    <2>4. desk'.link = 0 /\ UNCHANGED <<modal, made>>
      BY <1>1 DEF CheckStatus, PageTypeOK, payouts
    <2>5. QED
      BY <1>0, <2>3, <2>4 DEF Carried
  <1>2. CASE ReloadSettings
    <2>1. ASSUME NEW j \in 1 .. MaxWork  PROVE Carries(wire'[j]) /\ wire'[j].account <= made
      <3>1. wire'[j] = wire[j] \/ wire'[j] = [wire[j] EXCEPT !.mounted = FALSE]
        BY <1>2 DEF ReloadSettings
      <3>2. wire[j] \in Work /\ Carries(wire[j]) /\ wire[j].account <= made
        BY WorkFields DEF Carried
      <3>3. QED
        BY <3>1, <3>2 DEF Carries, Work
    <2>2. QED
      BY <1>0, <1>2, <2>1 DEF ReloadSettings, Carried, payouts
  <1>3. CASE Onboard
    BY <1>0, <1>3 DEF Onboard, Carried
  <1>4. CASE CreateReview
    <2>1. PICK i \in 1 .. MaxWork : Become(i, Start("review", "client", "insert", NoId))
      BY <1>4 DEF CreateReview
    <2>2. Carries(Start("review", "client", "insert", NoId)) /\ Start("review", "client", "insert", NoId).account <= made
      BY <1>0 DEF Carries, Start
    <2>3. QED
      BY <1>4, <2>1, <2>2, CarriedOn DEF CreateReview, payouts
  <1>5. ASSUME NEW i \in 1 .. MaxWork, ReadDeveloper(i) \/ SaveAccount(i) \/ Retrieve(i)  PROVE Carried'
    <2>1. UNCHANGED <<modal, desk, made>>
      BY <1>5 DEF ReadDeveloper, SaveAccount, Retrieve, payouts
    <2>2. PICK w : /\ Become(i, w) /\ w.kind = wire[i].kind /\ w.key = wire[i].key /\ w.who = wire[i].who
                   /\ w.account = wire[i].account \/ w.account \in 0 .. made
      <3>1. ASSUME NEW s, NEW a \in 0 .. made, Become(i, [wire[i] EXCEPT !.step = s, !.account = a])
            PROVE  \E w : /\ Become(i, w) /\ w.kind = wire[i].kind /\ w.key = wire[i].key /\ w.who = wire[i].who
                          /\ w.account = wire[i].account \/ w.account \in 0 .. made
        <4> DEFINE v == [wire[i] EXCEPT !.step = s, !.account = a]
        <4>1. v.kind = wire[i].kind /\ v.key = wire[i].key /\ v.who = wire[i].who /\ v.account = a
          BY WorkFields DEF Work
        <4> HIDE DEF v
        <4>2. Become(i, v)
          BY <3>1 DEF v
        <4>3. QED
          BY <3>1, <4>1, <4>2
      <3>2. CASE ReadDeveloper(i)
        BY <1>0, <3>1, <3>2, Zenon DEF ReadDeveloper
      <3>3. CASE SaveAccount(i)
        BY <3>3, WorkFields DEF SaveAccount, ToStep, Work
      <3>4. CASE Retrieve(i)
        <4>1. Become(i, [wire[i] EXCEPT !.step = "reply",
                                        !.account = IF wire[i].account \in onboarded THEN 0 ELSE wire[i].account])
          BY <3>4 DEF Retrieve
        <4>2. (IF wire[i].account \in onboarded THEN 0 ELSE wire[i].account) \in 0 .. made
          BY <1>0
        <4>3. QED
          BY <3>1, <4>1, <4>2
      <3>5. QED
        BY <1>5, <3>2, <3>3, <3>4
    <2>3. QED
      BY <2>1, <2>2, BecomeCarries
  <1>6. ASSUME NEW i \in 1 .. MaxWork, CreateAccount(i)  PROVE Carried'
    <2> DEFINE w == [wire[i] EXCEPT !.step = "save", !.account = made + 1]
    <2>1. made' = made + 1 /\ Become(i, w) /\ UNCHANGED <<modal, desk>>
      BY <1>6 DEF CreateAccount
    <2>2. Carries(w) /\ w.account = made + 1
      BY WorkFields DEF Carried, Carries, Work
    <2> HIDE DEF w
    <2>3. ASSUME NEW j \in 1 .. MaxWork  PROVE Carries(wire'[j]) /\ wire'[j].account <= made'
      <3>1. wire'[j] = w \/ wire'[j] = wire[j]
        BY <2>1, BecomeEffect
      <3>2. Carries(wire[j]) /\ wire[j].account \in 0 .. made
        BY <1>0 DEF Carried
      <3>3. QED
        BY <1>0, <2>1, <2>2, <3>1, <3>2
    <2>4. desk.link \in Nat
      BY FundingAssumption DEF PageTypeOK
    <2>5. QED
      BY <1>0, <2>1, <2>3, <2>4 DEF Carried
  <1>7. ASSUME NEW i \in 1 .. MaxWork, TakeStatus(i)  PROVE Carried'
    <2>1. desk'.link <= made /\ UNCHANGED <<modal, made>>
      BY <1>0, <1>7 DEF TakeStatus, Carried, payouts
    <2>2. Carries(Free) /\ Free.account <= made
      BY <1>0 DEF Carries, Free
    <2>3. \A j \in 1 .. MaxWork : Carries(wire'[j]) /\ wire'[j].account <= made
      BY <1>7, <2>2, BecomeEffect DEF TakeStatus, Carried
    <2>4. QED
      BY <2>1, <2>3 DEF Carried
  <1>8. ASSUME NEW i \in 1 .. MaxWork, InsertReview(i)  PROVE Carried'
    BY <1>8, BecomeCarries DEF InsertReview
  <1>9. QED
    BY <1>1, <1>2, <1>3, <1>4, <1>5, <1>6, <1>7, <1>8 DEF DeskStep

LEMMA ServerStepCarries ==
  ASSUME PageTypeOK, Carried, ServerStep
  PROVE  Carried'
  <1>1. ASSUME NEW i \in 1 .. MaxWork, NEW s, ToStep(i, s), UNCHANGED <<modal, desk, made>>  PROVE Carried'
    BY <1>1, BecomeCarries, WorkFields DEF ToStep, Work
  <1>2. ASSUME NEW i \in 1 .. MaxWork, Refuse(i) \/ Lose(i) \/ \E c \in Calls : Accept(i, c)  PROVE Carried'
    <2>1. UNCHANGED <<modal, desk, made>> /\ \E s : ToStep(i, s)
      BY <1>2 DEF Refuse, Lose, Accept, payouts
    <2>2. QED
      BY <1>1, <2>1
  <1>3. ASSUME NEW i \in 1 .. MaxWork, Catch(i)  PROVE Carried'
    <2>1. modal'.at = "shut" <=> modal'.key = NoId
      <3>1. wire[i].kind \in {"fund", "pay"} => wire[i].key \in FundKeys
        BY DEF Carried, Carries
      <3>2. NoId \notin FundKeys
        BY NoIdAssumption DEF Keys
      <3>3. QED
        BY <1>3, <3>1, <3>2 DEF Catch, Modal, Carried
    <2>2. desk'.link = desk.link
      BY <1>3 DEF Catch, PageTypeOK
    <2>3. Carries(Free) /\ Free.account <= made
      BY FundingAssumption DEF Carries, Free, PageTypeOK
    <2>4. \A j \in 1 .. MaxWork : Carries(wire'[j]) /\ wire'[j].account <= made
      BY <1>3, <2>3, BecomeEffect DEF Catch, Carried
    <2>5. made' = made
      BY <1>3 DEF Catch, payouts
    <2>6. QED
      BY <2>1, <2>2, <2>4, <2>5 DEF Carried
  <1>4. ASSUME NEW c \in Calls, GoOn(c)  PROVE Carried'
    <2>1. UNCHANGED <<modal, desk, made>>
      BY <1>4 DEF GoOn, payouts
    <2>2. CASE UNCHANGED wire
      BY <2>1, <2>2 DEF Carried
    <2>3. CASE call'[c] = Idle /\ serves[c] # 0
      <3>1. serves[c] \in 1 .. MaxWork
        BY <2>3, FundingAssumption DEF PageTypeOK
      <3>2. \E s : ToStep(serves[c], s)
        BY <1>4, <2>3 DEF GoOn
      <3>3. QED
        BY <1>1, <2>1, <3>1, <3>2
    <2>4. QED
      BY <1>4, <2>2, <2>3 DEF GoOn
  <1>5. ASSUME NEW c \in Calls, Resolve(c)  PROVE Carried'
    BY <1>5 DEF Resolve, payouts, Carried
  <1>6. CASE UNCHANGED pageVars
    BY <1>6 DEF pageVars, payouts, Carried
  <1>7. QED
    BY <1>2, <1>3, <1>4, <1>5, <1>6 DEF ServerStep, Hook, StripeSettles, Direct

-----------------------------------------------------------------------------
(* The rows behind the pages. *)

\* A milestone that was paid for and delivered, with nothing in flight.
LEMMA FundedKeepsSInv ==
  ASSUME NEW k \in FundKeys, FundedBy(k)
  PROVE  SInv /\ calm
  <1>0. /\ \A c \in Calls : call[c] = Idle
        /\ [type |-> "payment_intent.succeeded", key |-> k] \in Event
        /\ \A e \in Event : webhookRow[e] \in {"absent", "processed"}
    BY DEF FundedBy, Event
  <1>9. \A c \in Calls : call[c].step = "idle"
    <2>1. Idle.step = "idle"
      BY DEF Idle
    <2>2. QED
      BY <1>0, <2>1
  <1>1. TypeOK
    <2>1. Idle \in Call
      BY DEF Idle, Call
    <2>2. <<k>> \in Seq(FundKeys) /\ <<>> \in Seq(TransferKeys)
      OBVIOUS
    <2>3. QED
      BY <2>1, <2>2 DEF FundedBy, TypeOK, MilestoneStatus
  <1>2. StripeConsistent /\ StatusBackedByStripe /\ RowsBackedByStripe
    BY DEF FundedBy, StripeConsistent, StatusBackedByStripe, RowsBackedByStripe, Charged
  <1>3. LogsListRows /\ RowsAreUnique
    BY DEF FundedBy, LogsListRows, RowsAreUnique
  <1>4. CallsRelyOnFacts
    BY <1>9 DEF CallsRelyOnFacts, RequestFacts, HookFacts, FundSteps, TransferSteps, RefundSteps, HookSteps
  <1>5. EventHandledOnce
    BY <1>0 DEF EventHandledOnce, Handling, Idle, HookSteps
  <1>6. \A c \in Calls : RequestHolds(c) /\ HookHolds(c)
    BY <1>9 DEF RequestHolds, HookHolds, FundSteps, TransferSteps
  <1>7. PayoutsStand /\ RefundsMark /\ DisputesMark
    BY DEF FundedBy, PayoutsStand, Standing, RefundsMark, Refunded, DisputesMark
  <1>8. OneIsUnderway
    BY <1>9 DEF OneIsUnderway, Underway, HookSteps
  <1>10. QED
    BY <1>1, <1>2, <1>3, <1>4, <1>5, <1>6, <1>7, <1>8 DEF SInv, IInv, ChecksHold, FundedBy

LEMMA InitEstablishesPages == PagesInit => SInv /\ calm /\ PageTypeOK /\ Carried
  <1> SUFFICES ASSUME PagesInit  PROVE SInv /\ calm /\ PageTypeOK /\ Carried
    OBVIOUS
  <1>1. SInv /\ calm
    BY InitEstablishesSInv, FundedKeepsSInv DEF PagesInit
  <1>2. panel \in [parties -> Panel] /\ \A r \in parties : panel[r].rev = 0
    BY DEF PagesInit, Fresh, Panel
  <1>3. /\ 0 \in 0 .. MaxAccounts /\ 0 \in 0 .. MaxPolls - 1 /\ account \in {0, 1} /\ MaxAccounts \in Nat \ {0}
        /\ made = account /\ onboarded = 1 .. made /\ serves = [c \in Calls |-> 0]
        /\ MaxWork \in Nat /\ rev = 0 /\ ownRev = [r \in parties |-> 0]
    BY FundingAssumption DEF PagesInit
  <1>4. ASSUME NEW i \in 1 .. MaxWork  PROVE wire[i] \in Work /\ Carries(wire[i]) /\ wire[i].account = 0
    <2>1. \/ wire[i] = Ask("client", "load") \/ wire[i] = Ask("developer", "load") \/ wire[i] = Free
      BY DEF PagesInit
    <2>2. ASSUME NEW r \in parties  PROVE Ask(r, "load") \in Work /\ Carries(Ask(r, "load")) /\ Ask(r, "load").account = 0
      <3>1. Start("load", r, "again", NoId) \in Work
        BY <1>2, <1>3 DEF Start, Work
      <3>2. QED
        BY <3>1 DEF Ask, Start, Work, Carries
    <2>3. Free \in Work /\ Carries(Free) /\ Free.account = 0
      BY <1>3 DEF Free, Work, Carries, parties
    <2>4. QED
      BY <2>1, <2>2, <2>3 DEF parties
  <1>5. wire \in [1 .. MaxWork -> Work]
    BY <1>4 DEF PagesInit
  <1>6. /\ modal = [at |-> "shut", key |-> NoId, paying |-> FALSE] /\ desk = [link |-> 0, loading |-> FALSE]
        /\ pressed \subseteq FundKeys /\ reviews = 0 /\ marks = {}
    BY DEF PagesInit, Shut, Modal
  <1>7. PageTypeOK
    BY <1>2, <1>3, <1>5, <1>6 DEF PageTypeOK
  <1>8. Carried
    BY <1>3, <1>4, <1>6 DEF Carried
  <1>9. QED
    BY <1>1, <1>7, <1>8

LEMMA StepKeepsPages ==
  ASSUME TypeOK, PageTypeOK, Carried, [PagesNext]_allVars
  PROVE  PageTypeOK' /\ Carried'
  <1>1. CASE PagesNext
    BY <1>1, EveryStep, PanelTypes, FormTypes, DeskTypes, ServerTypes, PanelStepCarries, FormStepCarries,
       DeskStepCarries, ServerStepCarries DEF PanelStep, FormStep, DeskStep, ServerStep
  <1>2. CASE UNCHANGED allVars
    BY <1>2 DEF allVars, pageVars, payouts, history, PageTypeOK, Carried
  <1>3. QED
    BY <1>1, <1>2

\* The pages, whatever they show and however often they are reloaded, ask the
\* service for nothing but what Escrow has it do, so what is proved of every
\* interleaving of its handlers holds behind them.
THEOREM PagesTakeEscrowSteps == PagesSpec => [](IInv /\ PageTypeOK /\ Carried) /\ [][Next]_vars
  <1>1. PagesInit => IInv /\ PageTypeOK /\ Carried
    BY InitEstablishesPages DEF SInv
  <1>2. IInv /\ PageTypeOK /\ Carried /\ [PagesNext]_allVars => (IInv /\ PageTypeOK /\ Carried)' /\ [Next]_vars
    BY StepKeepsPages, PagesStepIsEscrowStep, StepKeepsIInv DEF IInv
  <1>3. QED
    BY <1>1, <1>2, PTL DEF PagesSpec

LEMMA PagesKeepSInv == PagesSpec => []SInv
  BY PagesTakeEscrowSteps, InitEstablishesPages, StepKeepsSInv, PTL DEF PagesSpec

\* However often a client presses, reloads or loses an answer, and however many
\* handlers ask the service at once, the developer of a milestone is paid out
\* at most once, until a call writes beside another.
THEOREM PagesPayOnce == PagesSpec => []PaidOutOnce
  BY SInvPaysOnce, PagesKeepSInv, PTL

\* No release button pays out while a dispute is open, whatever copy of the
\* milestone the page that shows it was drawn from, until a call writes beside
\* another.
THEOREM PagesRespectDisputes == PagesSpec => []OpenDisputeBlocksRelease
  BY SInvBlocksRelease, PagesKeepSInv, PTL

\* What the pages ask for moves the milestone by the transitions of the code
\* alone, from a new milestone as from one that was funded and delivered
\* before, until a call writes beside another.
THEOREM PagesFollowLifecycle == PagesSpec => RowsFollowLifecycle
  <1>1. SInv /\ [Next]_vars => [calm' => /\ status' # status => <<status, status'>> \in Transitions
                                         /\ \A k \in TransferKeys : payout[k] = "FAILED" => payout'[k] = "FAILED"]_vars
    BY StepFollowsLifecycle
  <1>2. QED
    BY <1>1, PagesTakeEscrowSteps, PagesKeepSInv, PTL DEF RowsFollowLifecycle

-----------------------------------------------------------------------------
(* How the handlers in flight change. *)

SameWork(v, w) == v.kind = w.kind /\ v.key = w.key /\ v.who = w.who

\* A handler ends, asks for the list, or stays what it is; and a press of a
\* button starts one where there was none.
LEMMA WorkKept ==
  ASSUME PageTypeOK, PagesNext, NEW j \in 1 .. MaxWork
  PROVE  \/ wire'[j].kind \in {"free", "load", "refresh"}
         \/ SameWork(wire'[j], wire[j])
         \/ /\ wire[j] = Free
            /\ \/ PanelStep /\ wire'[j].kind \in {"submit", "release", "dispute"}
               \/ OpenModal /\ wire'[j].kind = "fund"
               \/ HandlePay /\ wire'[j].kind = "pay"
               \/ CheckStatus /\ wire'[j].kind = "check"
               \/ CreateReview /\ wire'[j].kind = "review"
  <1> DEFINE Goal == \/ wire'[j].kind \in {"free", "load", "refresh"}
                     \/ SameWork(wire'[j], wire[j])
                     \/ /\ wire[j] = Free
                        /\ \/ PanelStep /\ wire'[j].kind \in {"submit", "release", "dispute"}
                           \/ OpenModal /\ wire'[j].kind = "fund"
                           \/ HandlePay /\ wire'[j].kind = "pay"
                           \/ CheckStatus /\ wire'[j].kind = "check"
                           \/ CreateReview /\ wire'[j].kind = "review"
  <1> SUFFICES Goal
    OBVIOUS
  <1>0. wire[j] \in Work /\ SameWork(wire[j], wire[j])
    BY WorkFields DEF SameWork
  <1>1. CASE UNCHANGED wire
    BY <1>0, <1>1
  <1>2. ASSUME NEW i \in 1 .. MaxWork, NEW w, Become(i, w), SameWork(w, wire[i])  PROVE Goal
    BY <1>0, <1>2, BecomeEffect
  <1>3. ASSUME NEW i \in 1 .. MaxWork, NEW w, Become(i, w), w.kind \in {"free", "load", "refresh"}  PROVE Goal
    BY <1>0, <1>3, BecomeEffect
  <1>4. ASSUME NEW i \in 1 .. MaxWork, NEW kind, NEW who, NEW step, NEW key,
               Lowest(i), Become(i, Start(kind, who, step, key))
        PROVE  SameWork(wire'[j], wire[j]) \/ (wire[j] = Free /\ wire'[j].kind = kind)
    <2>1. Start(kind, who, step, key).kind = kind
      BY DEF Start
    <2>2. QED
      BY <1>0, <1>4, <2>1, BecomeEffect DEF Lowest
  <1>5. Free.kind = "free" /\ \A r, kind : Ask(r, kind).kind = kind
    BY DEF Free, Ask, Start
  <1>6. \A i \in 1 .. MaxWork : \A s, a, b :
          /\ SameWork([wire[i] EXCEPT !.step = s], wire[i])
          /\ SameWork([wire[i] EXCEPT !.step = s, !.account = a], wire[i])
          /\ SameWork([wire[i] EXCEPT !.step = s, !.row = a, !.seen = b], wire[i])
          /\ SameWork([wire[i] EXCEPT !.tries = a], wire[i])
          /\ SameWork([wire[i] EXCEPT !.mounted = a], wire[i])
    BY WorkFields DEF SameWork, Work
  <1> HIDE DEF Goal
  <1>7. CASE PanelStep
    <2>1. ASSUME NEW r \in parties, NEW b \in {"submit", "release", "dispute"}, NEW k, Handle(r, b, k)  PROVE Goal
      <3>1. PICK i \in 1 .. MaxWork : Lowest(i) /\ Become(i, Start(b, r, "out", k))
        BY <2>1 DEF Handle
      <3>2. QED
        BY <1>4, <1>7, <3>1 DEF Goal
    <2>2. ASSUME NEW i \in 1 .. MaxWork, Done(i)  PROVE Goal
      BY <1>3, <1>5, <2>2 DEF Done
    <2>3. ASSUME NEW i \in 1 .. MaxWork, Answer(i)  PROVE Goal
      BY <1>2, <1>6, <2>3 DEF Answer
    <2>4. ASSUME NEW i \in 1 .. MaxWork, TakeList(i)  PROVE Goal
      BY <1>3, <1>5, <2>4 DEF TakeList
    <2>5. QED
      BY <1>7, <2>1, <2>2, <2>3, <2>4 DEF PanelStep, HandleSubmitDelivery, HandleRelease, HandleDispute, parties
  <1>8. CASE FormStep
    <2>1. CASE OpenModal
      <3>1. PICK k \in FundKeys, i \in 1 .. MaxWork : Lowest(i) /\ Become(i, Start("fund", "client", "out", k))
        BY <2>1 DEF OpenModal
      <3>2. QED
        BY <1>4, <2>1, <3>1 DEF Goal
    <2>2. CASE HandlePay
      <3>1. PICK i \in 1 .. MaxWork : Lowest(i) /\ Become(i, Start("pay", "client", "confirm", modal.key))
        BY <2>2 DEF HandlePay
      <3>2. QED
        BY <1>4, <2>2, <3>1 DEF Goal
    <2>3. CASE CloseModal
      BY <1>1, <2>3 DEF CloseModal, Goal
    <2>4. ASSUME NEW i \in 1 .. MaxWork, TakeSecret(i) \/ Declined(i)  PROVE Goal
      BY <1>3, <1>5, <2>4 DEF TakeSecret, Declined
    <2>5. ASSUME NEW i \in 1 .. MaxWork, Confirm(i)  PROVE Goal
      BY <1>2, <1>6, <2>5 DEF Confirm, ToStep
    <2>6. ASSUME NEW i \in 1 .. MaxWork, Redirected(i)  PROVE Goal
      BY <1>0, <1>5, <1>6, <2>6 DEF Redirected, Goal
    <2>7. ASSUME NEW i \in 1 .. MaxWork, Poll(i)  PROVE Goal
      BY <1>2, <1>3, <1>5, <1>6, <2>7 DEF Poll
    <2>8. QED
      BY <1>8, <2>1, <2>2, <2>3, <2>4, <2>5, <2>6, <2>7 DEF FormStep
  <1>9. CASE DeskStep
    <2>1. CASE CheckStatus
      <3>1. PICK i \in 1 .. MaxWork : Lowest(i) /\ Become(i, Start("check", "developer", "out", NoId))
        BY <2>1 DEF CheckStatus
      <3>2. QED
        BY <1>4, <2>1, <3>1 DEF Goal
    <2>2. CASE CreateReview
      <3>1. PICK i \in 1 .. MaxWork : Lowest(i) /\ Become(i, Start("review", "client", "insert", NoId))
        BY <2>2 DEF CreateReview
      <3>2. QED
        BY <1>4, <2>2, <3>1 DEF Goal
    <2>3. CASE Onboard
      BY <1>1, <2>3 DEF Onboard, Goal
    <2>4. CASE ReloadSettings
      BY <1>0, <1>6, <2>4 DEF ReloadSettings, Goal
    <2>5. ASSUME NEW i \in 1 .. MaxWork, ReadDeveloper(i) \/ CreateAccount(i) \/ SaveAccount(i) \/ Retrieve(i)  PROVE Goal
      BY <1>2, <1>6, <2>5 DEF ReadDeveloper, CreateAccount, SaveAccount, Retrieve, ToStep
    <2>6. ASSUME NEW i \in 1 .. MaxWork, TakeStatus(i) \/ InsertReview(i)  PROVE Goal
      BY <1>3, <1>5, <2>6 DEF TakeStatus, InsertReview
    <2>7. QED
      BY <1>9, <2>1, <2>2, <2>3, <2>4, <2>5, <2>6 DEF DeskStep
  <1>10. CASE ServerStep
    <2>1. ASSUME NEW i \in 1 .. MaxWork, Refuse(i) \/ Lose(i) \/ \E c \in Calls : Accept(i, c)  PROVE Goal
      BY <1>2, <1>6, <2>1 DEF Refuse, Lose, Accept, ToStep
    <2>2. ASSUME NEW i \in 1 .. MaxWork, Catch(i)  PROVE Goal
      BY <1>3, <1>5, <2>2 DEF Catch
    <2>3. ASSUME NEW c \in Calls, GoOn(c)  PROVE Goal
      <3>1. CASE call'[c] = Idle /\ serves[c] # 0
        <4>1. serves[c] \in 1 .. MaxWork
          BY <3>1, FundingAssumption DEF PageTypeOK
        <4>2. \E s : Become(serves[c], [wire[serves[c]] EXCEPT !.step = s])
          BY <2>3, <3>1 DEF GoOn, ToStep
        <4>3. QED
          BY <1>2, <1>6, <4>1, <4>2
      <3>2. CASE UNCHANGED wire
        BY <1>1, <3>2 DEF Goal
      <3>3. QED
        BY <2>3, <3>1, <3>2 DEF GoOn
    <2>4. ASSUME NEW c \in Calls, Resolve(c)  PROVE Goal
      BY <1>1, <2>4 DEF Resolve, Goal
    <2>5. CASE UNCHANGED pageVars
      BY <1>1, <2>5 DEF pageVars, Goal
    <2>6. QED
      BY <1>10, <2>1, <2>2, <2>3, <2>4, <2>5 DEF ServerStep, Hook, StripeSettles, Direct
  <1>11. QED
    BY <1>7, <1>8, <1>9, <1>10, EveryStep DEF Goal

-----------------------------------------------------------------------------
(* Reviews *)

LEMMA ReviewsStay ==
  ASSUME IInv, PageTypeOK, Carried, ReviewsFollowTransfer, PagesNext
  PROVE  ReviewsFollowTransfer'
  <1>1. Transferred => Transferred'
    BY PagesStepIsEscrowStep, MoneyIsMonotone DEF IInv
  <1>2. ASSUME NEW j \in 1 .. MaxWork, wire'[j].kind = "review"  PROVE Transferred
    <2>1. CreateReview \/ wire[j].kind = "review"
      BY <1>2, WorkKept DEF SameWork
    <2>2. CreateReview => Transferred
      BY DEF CreateReview, IInv, StatusBackedByStripe
    <2>3. QED
      BY <2>1, <2>2 DEF ReviewsFollowTransfer
  <1>3. reviews' = reviews \/ \E i \in 1 .. MaxWork : InsertReview(i)
    BY DEF PagesNext, Works, HandleSubmitDelivery, HandleRelease, HandleDispute, Handle, OpenModal, CloseModal,
       HandlePay, CheckStatus, ReloadSettings, Onboard, CreateReview, Done, Answer, TakeList, TakeSecret, Confirm,
       Declined, Redirected, Poll, ReadDeveloper, CreateAccount, SaveAccount, Retrieve, TakeStatus, Refuse, Lose,
       Catch, Accept, GoOn, Resolve, Hook, StripeSettles, Direct, pageVars, payouts
  <1>4. CASE reviews' = reviews
    BY <1>1, <1>2, <1>4 DEF ReviewsFollowTransfer
  <1>5. ASSUME NEW i \in 1 .. MaxWork, InsertReview(i)  PROVE ReviewsFollowTransfer'
    <2>1. Transferred /\ reviews' \in {0, 1}
      BY <1>5 DEF InsertReview, IsAt, ReviewsFollowTransfer
    <2>2. QED
      BY <1>1, <2>1 DEF ReviewsFollowTransfer
  <1>6. QED
    BY <1>3, <1>4, <1>5

-----------------------------------------------------------------------------
(* The payout section *)

\* A step that leaves the developer's check alone.
LEMMA OtherThanCheck ==
  ASSUME OneCheckAtATime, UNCHANGED <<desk, account, onboarded>>, "reloaded" \in marks => "reloaded" \in marks',
         \A j \in 1 .. MaxWork : /\ wire'[j].kind = "check" <=> wire[j].kind = "check"
                                 /\ wire[j].kind = "check" => wire'[j] = wire[j]
  PROVE  OneCheckAtATime'
  <1>1. Checks' = Checks
    BY DEF Checks
  <1>2. QED
    BY <1>1 DEF OneCheckAtATime, Checks

LEMMA OneOtherThanCheck ==
  ASSUME PageTypeOK, OneCheckAtATime, NEW i \in 1 .. MaxWork, NEW w, Become(i, w), wire[i].kind # "check", w.kind # "check",
         UNCHANGED <<desk, account, onboarded>>, "reloaded" \in marks => "reloaded" \in marks'
  PROVE  OneCheckAtATime'
  <1>1. \A j \in 1 .. MaxWork : /\ wire'[j].kind = "check" <=> wire[j].kind = "check"
                                /\ wire[j].kind = "check" => wire'[j] = wire[j]
    BY BecomeEffect
  <1>2. QED
    BY <1>1, OtherThanCheck

LEMMA OtherStepsKeepCheck ==
  ASSUME PageTypeOK, Carried, mix.pages # {} => ServesItsCall, OneCheckAtATime,
         \/ PanelStep \/ FormStep \/ CreateReview \/ \E i \in 1 .. MaxWork : InsertReview(i)
         \/ \E i \in 1 .. MaxWork : Refuse(i) \/ \E c \in Calls : Accept(i, c)
         \/ \E c \in Calls : GoOn(c) \/ Resolve(c) \/ \E e \in Event : Hook(c, e)
         \/ StripeSettles \/ Direct
  PROVE  OneCheckAtATime'
  <1>0. /\ Free.kind = "free" /\ \A r, kind : Ask(r, kind).kind = kind
        /\ \A kind, r, step, k : Start(kind, r, step, k).kind = kind
    BY DEF Free, Ask, Start
  <1>1. \A i \in 1 .. MaxWork : \A s, a, b :
          /\ [wire[i] EXCEPT !.step = s].kind = wire[i].kind
          /\ [wire[i] EXCEPT !.step = s, !.row = a, !.seen = b].kind = wire[i].kind
          /\ [wire[i] EXCEPT !.tries = a].kind = wire[i].kind
          /\ [wire[i] EXCEPT !.mounted = a].kind = wire[i].kind
    BY WorkFields DEF Work
  <1>2. ASSUME NEW i \in 1 .. MaxWork, NEW kind, NEW r, NEW step, NEW k, Lowest(i), Become(i, Start(kind, r, step, k)),
               kind # "check", UNCHANGED <<desk, account, onboarded, marks>>
        PROVE  OneCheckAtATime'
    BY <1>0, <1>2, OneOtherThanCheck DEF Lowest
  <1>3. CASE PanelStep
    <2>1. ASSUME NEW r \in parties, NEW b \in {"submit", "release", "dispute"}, NEW k, Handle(r, b, k)  PROVE OneCheckAtATime'
      BY <1>2, <2>1 DEF Handle, payouts, history
    <2>2. ASSUME NEW i \in 1 .. MaxWork, Done(i) \/ Answer(i) \/ TakeList(i)  PROVE OneCheckAtATime'
      <3>1. wire[i].kind # "check" /\ UNCHANGED <<desk, account, onboarded, marks>>
        BY <2>2 DEF Done, Answer, TakeList, IsAt, payouts, history
      <3>2. CASE Done(i)
        BY <1>0, <3>1, <3>2, OneOtherThanCheck DEF Done
      <3>3. CASE Answer(i)
        <4> DEFINE w == [wire[i] EXCEPT !.step = "reply", !.row = status, !.seen = rev]
        <4>1. Become(i, w) /\ w.kind = wire[i].kind
          BY <1>1, <3>3 DEF Answer
        <4> HIDE DEF w
        <4>2. QED
          BY <3>1, <4>1, OneOtherThanCheck
      <3>4. CASE TakeList(i)
        BY <1>0, <3>1, <3>4, OneOtherThanCheck DEF TakeList
      <3>5. QED
        BY <2>2, <3>2, <3>3, <3>4
    <2>3. QED
      BY <1>3, <2>1, <2>2 DEF PanelStep, HandleSubmitDelivery, HandleRelease, HandleDispute, parties
  <1>4. CASE FormStep
    <2>1. CASE OpenModal
      BY <1>2, <2>1 DEF OpenModal, payouts, history
    <2>2. CASE HandlePay
      BY <1>2, <2>2 DEF HandlePay, payouts
    <2>3. CASE CloseModal
      BY <2>3, OtherThanCheck DEF CloseModal, payouts, history
    <2>4. ASSUME NEW i \in 1 .. MaxWork, TakeSecret(i) \/ Confirm(i) \/ Declined(i) \/ Poll(i)  PROVE OneCheckAtATime'
      <3>1. wire[i].kind # "check" /\ UNCHANGED <<desk, account, onboarded, marks>>
        BY <2>4 DEF TakeSecret, Confirm, Declined, Poll, IsAt, payouts, history
      <3>2. CASE TakeSecret(i) \/ Declined(i)
        BY <1>0, <3>1, <3>2, OneOtherThanCheck DEF TakeSecret, Declined
      <3>3. CASE Confirm(i)
        BY <1>1, <3>1, <3>3, OneOtherThanCheck DEF Confirm, ToStep
      <3>4. CASE Poll(i)
        <4> DEFINE w == [wire[i] EXCEPT !.tries = @ + 1]
        <4>1. w.kind = wire[i].kind
          BY WorkFields DEF Work
        <4>2. Become(i, w) \/ Become(i, Free) \/ Become(i, Ask("client", "refresh"))
          BY <3>4 DEF Poll
        <4> HIDE DEF w
        <4>3. QED
          BY <1>0, <3>1, <4>1, <4>2, OneOtherThanCheck
      <3>5. QED
        BY <2>4, <3>2, <3>3, <3>4
    <2>5. ASSUME NEW i \in 1 .. MaxWork, Redirected(i)  PROVE OneCheckAtATime'
      <3>1. ASSUME NEW j \in 1 .. MaxWork
            PROVE  /\ wire'[j].kind = "check" <=> wire[j].kind = "check"
                   /\ wire[j].kind = "check" => wire'[j] = wire[j]
        <4>1. wire[i].kind = "pay" /\ wire[j].kind = "check" => wire[j].who # "client"
          BY <2>5 DEF Redirected, IsAt, Carried, Carries
        <4>2. QED
          BY <1>0, <1>1, <2>5, <4>1 DEF Redirected, IsAt
      <3>2. QED
        BY <2>5, <3>1, OtherThanCheck DEF Redirected, payouts
    <2>6. QED
      BY <1>4, <2>1, <2>2, <2>3, <2>4, <2>5 DEF FormStep
  <1>5. CASE CreateReview
    BY <1>2, <1>5 DEF CreateReview, payouts, history
  <1>6. ASSUME NEW i \in 1 .. MaxWork, InsertReview(i)  PROVE OneCheckAtATime'
    BY <1>0, <1>6, OneOtherThanCheck DEF InsertReview, IsAt, history
  <1>7. ASSUME NEW i \in 1 .. MaxWork, Refuse(i) \/ \E c \in Calls : Accept(i, c)  PROVE OneCheckAtATime'
    <2>1. wire[i].kind # "check" /\ UNCHANGED <<desk, account, onboarded>> /\ ("reloaded" \in marks => "reloaded" \in marks')
      BY <1>7 DEF Refuse, Accept, payouts
    <2>2. \E s : Become(i, [wire[i] EXCEPT !.step = s])
      BY <1>7 DEF Refuse, Accept, ToStep
    <2>3. QED
      BY <1>1, <2>1, <2>2, OneOtherThanCheck
  <1>8. ASSUME NEW c \in Calls, GoOn(c)  PROVE OneCheckAtATime'
    <2>1. UNCHANGED <<desk, account, onboarded, marks>> /\ ServesItsCall
      BY <1>8 DEF GoOn, payouts
    <2>2. CASE call'[c] = Idle /\ serves[c] # 0
      <3>1. serves[c] \in 1 .. MaxWork /\ wire[serves[c]].kind # "check"
        <4>1. wire[serves[c]].kind \in {"fund", "submit", "release", "dispute"}
          BY <2>1, <2>2 DEF ServesItsCall, Calling
        <4>2. serves[c] \in 0 .. MaxWork /\ MaxWork \in Nat
          BY FundingAssumption DEF PageTypeOK
        <4>3. QED
          BY <2>2, <4>1, <4>2
      <3>2. \E s : Become(serves[c], [wire[serves[c]] EXCEPT !.step = s])
        BY <1>8, <2>2 DEF GoOn, ToStep
      <3>3. QED
        BY <1>1, <2>1, <3>1, <3>2, OneOtherThanCheck
    <2>3. CASE UNCHANGED wire
      BY <2>1, <2>3, OtherThanCheck
    <2>4. QED
      BY <1>8, <2>2, <2>3 DEF GoOn
  <1>9. ASSUME NEW c \in Calls, Resolve(c)  PROVE OneCheckAtATime'
    BY <1>9, OtherThanCheck DEF Resolve, payouts, history
  <1>10. CASE UNCHANGED pageVars
    BY <1>10, OtherThanCheck DEF pageVars, payouts, history
  <1>11. QED
    BY <1>3, <1>4, <1>5, <1>6, <1>7, <1>8, <1>9, <1>10 DEF Hook, StripeSettles, Direct

\* The steps of the section itself.
LEMMA DeskKeepsOneCheck ==
  ASSUME PageTypeOK, Carried, OneCheckAtATime,
         \/ CheckStatus \/ ReloadSettings \/ Onboard
         \/ \E i \in 1 .. MaxWork :
              \/ ReadDeveloper(i) \/ CreateAccount(i) \/ SaveAccount(i) \/ Retrieve(i)
              \/ TakeStatus(i) \/ Lose(i) \/ Catch(i)
  PROVE  OneCheckAtATime'
  <1> SUFFICES ASSUME "reloaded" \notin marks'  PROVE OneCheckAtATime'
    BY DEF OneCheckAtATime
  <1>0. /\ "reloaded" \notin marks
        /\ \A j \in Checks : j \in 1 .. MaxWork /\ wire[j] \in Work
        /\ desk.loading \in BOOLEAN /\ account \in 0 .. MaxAccounts /\ account \in Nat
        /\ made \in Nat /\ onboarded \subseteq 1 .. made /\ MaxAccounts \in Nat /\ 0 \in 0 .. MaxAccounts
    <2>1. marks \subseteq marks'
      BY DEF CheckStatus, ReloadSettings, Onboard, ReadDeveloper, CreateAccount, SaveAccount, Retrieve, TakeStatus,
         Lose, Catch, history
    <2>2. \A j \in Checks : j \in 1 .. MaxWork /\ wire[j] \in Work
      BY WorkFields DEF Checks
    <2>3. QED
      BY <2>1, <2>2, FundingAssumption DEF PageTypeOK
  <1>1. /\ \A i, j \in Checks : i = j
        /\ Checks # {} => desk.loading
        /\ desk.loading => desk.link = 0
        /\ desk.link \in {0, account} /\ onboarded \subseteq {account}
        /\ \A i \in Checks :
             /\ wire[i].mounted
             /\ wire[i].step \in {"create", "save"} => account = 0
             /\ wire[i].step = "save" => wire[i].account # 0
             /\ wire[i].step = "retrieve" => wire[i].account = account
             /\ wire[i].step = "reply" => wire[i].account \in {0, account}
    BY <1>0 DEF OneCheckAtATime
  <1>2. CASE CheckStatus
    <2>1. PICK i \in 1 .. MaxWork : Become(i, Start("check", "developer", "out", NoId))
      BY <1>2 DEF CheckStatus
    <2>2. Checks = {} /\ desk'.loading /\ desk'.link = 0 /\ UNCHANGED <<account, onboarded>>
      BY <1>1, <1>2 DEF CheckStatus, payouts
    <2>3. Start("check", "developer", "out", NoId).mounted /\ Start("check", "developer", "out", NoId).step = "out"
      BY DEF Start
    <2>4. Checks' \subseteq {i} /\ wire'[i].mounted /\ wire'[i].step = "out"
      BY <2>1, <2>2, <2>3, BecomeEffect DEF Checks
    <2>5. QED
      BY <1>1, <2>2, <2>4 DEF OneCheckAtATime
  <1>3. CASE ReloadSettings
    <2>1. ~desk.loading /\ desk'.link = 0 /\ UNCHANGED <<account, onboarded>>
      BY <1>3 DEF ReloadSettings, payouts
    <2>2. Checks' = {}
      BY <1>1, <1>3, <2>1 DEF ReloadSettings, Checks
    <2>3. QED
      BY <1>1, <2>1, <2>2 DEF OneCheckAtATime, ReloadSettings
  <1>4. CASE Onboard
    <2>1. Checks' = {}
      BY <1>1, <1>4 DEF Onboard, Checks
    <2>2. desk'.link = 0 /\ desk'.loading = FALSE /\ onboarded' \subseteq {account'} /\ account' = account
      BY <1>1, <1>4 DEF Onboard
    <2>3. QED
      BY <2>1, <2>2 DEF OneCheckAtATime
  \* The one check goes on from step to step.
  <1>5. ASSUME NEW i \in Checks, NEW w \in Work, Become(i, w), w.mounted = wire[i].mounted, UNCHANGED desk,
               account' \in Nat, onboarded' \subseteq {account'},
               w.step \in {"create", "save"} => account' = 0,
               w.step = "save" => w.account # 0,
               w.step = "retrieve" => w.account = account',
               w.step = "reply" => w.account \in {0, account'}
        PROVE  OneCheckAtATime'
    <2>1. wire'[i] = w /\ Checks' \subseteq {i}
      BY <1>0, <1>1, <1>5, BecomeEffect DEF Checks
    <2>2. desk'.loading /\ desk'.link = 0
      BY <1>1, <1>5
    <2>3. QED
      BY <1>0, <1>1, <1>5, <2>1, <2>2 DEF OneCheckAtATime
  <1>6. ASSUME NEW i \in 1 .. MaxWork, ReadDeveloper(i)  PROVE OneCheckAtATime'
    <2> DEFINE w == [wire[i] EXCEPT !.step = IF account = 0 THEN "create" ELSE "retrieve", !.account = account]
    <2>1. i \in Checks /\ wire[i] \in Work
      BY <1>6, WorkFields DEF ReadDeveloper, IsAt, Checks
    <2>2. /\ w \in Work /\ w.mounted = wire[i].mounted /\ w.account = account
          /\ w.step = IF account = 0 THEN "create" ELSE "retrieve"
      BY <1>0, <2>1 DEF Work
    <2>3. Become(i, w) /\ UNCHANGED <<desk, account, onboarded>>
      BY <1>6 DEF ReadDeveloper, payouts
    <2> HIDE DEF w
    <2>4. QED
      BY <1>0, <1>1, <1>5, <2>1, <2>2, <2>3
  <1>7. ASSUME NEW i \in 1 .. MaxWork, CreateAccount(i)  PROVE OneCheckAtATime'
    <2> DEFINE w == [wire[i] EXCEPT !.step = "save", !.account = made + 1]
    <2>0. made < MaxAccounts
      BY <1>7 DEF CreateAccount
    <2>1. i \in Checks /\ wire[i].step = "create" /\ wire[i] \in Work
      BY <1>7, WorkFields DEF CreateAccount, IsAt, Checks
    <2>5. made + 1 \in 0 .. MaxAccounts /\ made + 1 # 0 /\ account = 0
      BY <1>0, <1>1, <2>0, <2>1
    <2>2. w \in Work /\ w.mounted = wire[i].mounted /\ w.account # 0 /\ w.step = "save"
      BY <2>1, <2>5 DEF Work
    <2>3. Become(i, w) /\ UNCHANGED <<desk, account, onboarded>>
      BY <1>7 DEF CreateAccount
    <2> HIDE DEF w
    <2>4. QED
      BY <1>0, <1>1, <1>5, <2>1, <2>2, <2>3, <2>5
  <1>8. ASSUME NEW i \in 1 .. MaxWork, SaveAccount(i)  PROVE OneCheckAtATime'
    <2> DEFINE w == [wire[i] EXCEPT !.step = "retrieve"]
    <2>1. i \in Checks /\ wire[i] \in Work /\ account = 0
      BY <1>0, <1>1, <1>8, WorkFields DEF SaveAccount, IsAt, Checks
    <2>2. w \in Work /\ w.mounted = wire[i].mounted /\ w.account = wire[i].account /\ w.step = "retrieve"
      BY <2>1 DEF Work
    <2>3. /\ Become(i, w) /\ UNCHANGED <<desk, onboarded>> /\ account' = wire[i].account /\ account' \in Nat
          /\ onboarded = {}
      BY <1>0, <1>1, <1>8, <2>1, WorkFields, FundingAssumption DEF SaveAccount, ToStep
    <2> HIDE DEF w
    <2>4. QED
      BY <1>0, <1>1, <1>5, <2>1, <2>2, <2>3
  <1>9. ASSUME NEW i \in 1 .. MaxWork, Retrieve(i)  PROVE OneCheckAtATime'
    <2> DEFINE w == [wire[i] EXCEPT !.step = "reply", !.account = IF @ \in onboarded THEN 0 ELSE @]
    <2>1. i \in Checks /\ wire[i].step = "retrieve" /\ wire[i] \in Work
      BY <1>9, WorkFields DEF Retrieve, IsAt, Checks
    <2>5. wire[i].account = account
      BY <1>1, <2>1
    <2>2. w \in Work /\ w.mounted = wire[i].mounted /\ w.account \in {0, account} /\ w.step = "reply"
      BY <1>0, <2>1, <2>5 DEF Work
    <2>3. Become(i, w) /\ UNCHANGED <<desk, account, onboarded>>
      BY <1>9 DEF Retrieve, payouts
    <2> HIDE DEF w
    <2>4. QED
      BY <1>0, <1>1, <1>5, <2>1, <2>2, <2>3
  \* It ends, and the section with it.
  <1>10. ASSUME NEW i \in Checks, Become(i, Free), desk'.loading = FALSE, desk'.link \in {0, account},
                UNCHANGED <<account, onboarded>>
         PROVE  OneCheckAtATime'
    <2>1. Checks' = {}
      <3>1. Free.kind = "free"
        BY DEF Free
      <3>2. QED
        BY <1>0, <1>1, <1>10, <3>1, BecomeEffect DEF Checks
    <2>2. QED
      BY <1>1, <1>10, <2>1 DEF OneCheckAtATime
  <1>11. ASSUME NEW i \in 1 .. MaxWork, TakeStatus(i)  PROVE OneCheckAtATime'
    <2>1. i \in Checks /\ wire[i].account \in {0, account} /\ wire[i].mounted
      BY <1>1, <1>11 DEF TakeStatus, IsAt, Checks
    <2>2. QED
      BY <1>10, <1>11, <2>1 DEF TakeStatus, payouts
  <1>12. ASSUME NEW i \in 1 .. MaxWork, Lose(i)  PROVE OneCheckAtATime'
    <2> DEFINE w == [wire[i] EXCEPT !.step = "lost"]
    <2>1. wire[i] \in Work
      BY WorkFields
    <2>2. w \in Work /\ w.mounted = wire[i].mounted /\ w.kind = wire[i].kind /\ w.step = "lost"
      BY <2>1 DEF Work
    <2>3. Become(i, w) /\ UNCHANGED <<desk, account, onboarded>>
      BY <1>12 DEF Lose, ToStep, payouts
    <2> HIDE DEF w
    <2>4. CASE wire[i].kind = "check"
      <3>1. i \in Checks
        BY <2>4 DEF Checks
      <3>2. QED
        BY <1>0, <1>1, <1>5, <2>2, <2>3, <3>1
    <2>5. CASE wire[i].kind # "check"
      BY <1>0, <2>2, <2>3, <2>5, OneOtherThanCheck
    <2>6. QED
      BY <2>4, <2>5
  <1>13. ASSUME NEW i \in 1 .. MaxWork, Catch(i)  PROVE OneCheckAtATime'
    <2>1. CASE wire[i].kind = "check"
      <3>1. i \in Checks /\ wire[i].mounted
        BY <1>1, <2>1 DEF Checks
      <3>2. desk'.loading = FALSE /\ desk'.link = desk.link /\ UNCHANGED <<account, onboarded>> /\ Become(i, Free)
        BY <1>13, <2>1, <3>1 DEF Catch, payouts, PageTypeOK
      <3>3. QED
        BY <1>1, <1>10, <3>1, <3>2
    <2>2. CASE wire[i].kind # "check"
      <3>1. Free.kind = "free"
        BY DEF Free
      <3>2. Become(i, Free) /\ UNCHANGED <<desk, account, onboarded>>
        BY <1>13, <2>2 DEF Catch, payouts
      <3>3. QED
        BY <1>0, <2>2, <3>1, <3>2, OneOtherThanCheck
    <2>3. QED
      BY <2>1, <2>2
  <1>14. QED
    BY <1>2, <1>3, <1>4, <1>6, <1>7, <1>8, <1>9, <1>11, <1>12, <1>13

-----------------------------------------------------------------------------
(* The calls behind the handlers *)

\* A call of fund is nothing else until it returns.
LEMMA OnlyFundSteps ==
  ASSUME NEW c \in Calls, Continue(c), call[c].step \in FundSteps
  PROVE  FundCheck(c) \/ FundStripe(c) \/ FundInsert(c) \/ FundMark(c)
  BY DEF Continue, FundSteps, At, SubmitWrite, TransferCheck, TransferStripe, TransferCommit, ResolveClose, CloseDispute,
     DisputeInsert, DisputeMark, RefundPick, RefundStripe, RefundMark, RefundClose, ReadSucceeded, MarkSucceeded,
     MarkFunded, ReadFailed, MarkFailed, ReadRefunded, MarkRefunded, ReadTransferCreated, ConfirmPayout, FindMilestone,
     Backfill, ReadTransferReversed, FailPayout, Reopen, HookClose

LEMMA FundGoesOnFunding ==
  ASSUME TypeOK, NEW c \in Calls, Continue(c), call[c].step \in FundSteps
  PROVE  call'[c] = Idle \/ call'[c].step \in FundSteps
  <1>1. Return(c) \/ \E s \in FundSteps : Goto(c, s)
    BY OnlyFundSteps DEF FundCheck, FundStripe, FundInsert, FundMark, FundSteps
  <1>2. QED
    BY <1>1, GotoEffect, ReturnEffect DEF TypeOK, Steps, RequestSteps, FundSteps

LEMMA FundGoesOnOnly ==
  ASSUME TypeOK, NEW c \in Calls, Continue(c), call'[c].step \in FundSteps
  PROVE  call[c].step \in FundSteps
  <1> USE DEF FundSteps
  <1>0. call \in [Calls -> Call] /\ Idle.step = "idle"
    BY DEF TypeOK, Idle
  <1>1. ASSUME Return(c)  PROVE FALSE
    BY <1>0, <1>1, ReturnEffect
  <1>2. ASSUME NEW s \in (RequestSteps \cup HookSteps) \ FundSteps, Goto(c, s)  PROVE FALSE
    BY <1>0, <1>2, GotoEffect DEF Steps
  <1>3. CASE FundCheck(c) \/ FundStripe(c) \/ FundInsert(c) \/ FundMark(c)
    BY <1>3 DEF FundCheck, FundStripe, FundInsert, FundMark, At
  <1>4. CASE SubmitWrite(c) \/ TransferCheck(c) \/ TransferStripe(c) \/ TransferCommit(c) \/ ResolveClose(c)
    BY <1>1, <1>2, <1>4 DEF SubmitWrite, TransferCheck, TransferStripe, TransferCommit, ResolveClose, CloseDispute,
       AfterTransfer, RequestSteps
  <1>5. CASE DisputeInsert(c) \/ DisputeMark(c) \/ RefundStripe(c) \/ RefundMark(c) \/ RefundClose(c)
    BY <1>1, <1>2, <1>5 DEF DisputeInsert, DisputeMark, RefundStripe, RefundMark, RefundClose, CloseDispute, RequestSteps
  <1>6. CASE RefundPick(c)
    <2>1. ASSUME NEW k, call' = [call EXCEPT ![c].step = "refund_stripe", ![c].intent = k]  PROVE FALSE
      <3>1. call'[c].step = "refund_stripe"
        BY <1>0, <2>1 DEF Call
      <3>2. QED
        BY <3>1
    <2>2. QED
      BY <1>1, <1>6, <2>1 DEF RefundPick
  <1>7. CASE ReadSucceeded(c) \/ ReadTransferReversed(c)
    <2>1. PICK s \in HookSteps : call' = [call EXCEPT ![c].seen = status, ![c].step = s]
      BY <1>7 DEF ReadSucceeded, ReadTransferReversed, HookSteps
    <2>2. call'[c].step = s
      BY <1>0, <2>1 DEF Call
    <2>3. QED
      BY <2>2 DEF HookSteps
  <1>8. CASE MarkSucceeded(c) \/ MarkFunded(c) \/ ReadFailed(c) \/ MarkFailed(c) \/ ReadRefunded(c) \/ MarkRefunded(c)
    BY <1>1, <1>2, <1>8 DEF MarkSucceeded, MarkFunded, ReadFailed, MarkFailed, ReadRefunded, MarkRefunded, HookSteps
  <1>9. CASE ReadTransferCreated(c) \/ ConfirmPayout(c) \/ FindMilestone(c) \/ Backfill(c) \/ FailPayout(c) \/ Reopen(c) \/ HookClose(c)
    BY <1>1, <1>2, <1>9 DEF ReadTransferCreated, ConfirmPayout, FindMilestone, Backfill, FailPayout, Reopen, HookClose, HookSteps
  <1>10. QED
    BY <1>3, <1>4, <1>5, <1>6, <1>7, <1>8, <1>9 DEF Continue

\* A request or a delivery begins in a slot that serves no handler.
LEMMA BegunEffect ==
  ASSUME TypeOK, NEW c \in Calls, NEW s, NEW op, NEW k, NEW d, Begin(c, s, op, k, d), s # "idle"
  PROVE  /\ call[c] = Idle /\ call'[c].op = op /\ call'[c].key = k /\ call'[c].step = s /\ call'[c] # Idle
         /\ \A other \in Calls \ {c} : call'[other] = call[other]
  <1>1. call'[c] = [op |-> op, key |-> k, step |-> s, intent |-> NoId, dispute |-> d, seen |-> "none"]
    BY DEF Begin, TypeOK
  <1>2. Idle.step = "idle"
    BY DEF Idle
  <1>3. call'[c].step = s /\ call'[c].op = op /\ call'[c].key = k
    BY <1>1
  <1>4. \A other \in Calls \ {c} : call'[other] = call[other]
    BY DEF Begin, TypeOK
  <1>5. QED
    BY <1>2, <1>3, <1>4 DEF Begin

\* A step that leaves the calls alone, and the handlers they serve.
LEMMA OtherThanServed ==
  ASSUME PageTypeOK, ServesItsCall, UNCHANGED <<call, serves>>,
         \A j \in 1 .. MaxWork : wire[j].step = "in" => wire'[j].step = "in" /\ SameWork(wire'[j], wire[j])
  PROVE  ServesItsCall'
  <1>1. \A c \in Calls : serves[c] # 0 => serves[c] \in 1 .. MaxWork
    BY FundingAssumption DEF PageTypeOK
  <1>2. QED
    BY <1>1 DEF ServesItsCall, SameWork

LEMMA OneOtherThanServed ==
  ASSUME PageTypeOK, ServesItsCall, UNCHANGED <<call, serves>>, NEW i \in 1 .. MaxWork, NEW w, Become(i, w),
         wire[i].step # "in"
  PROVE  ServesItsCall'
  <1>1. \A j \in 1 .. MaxWork : wire[j].step = "in" => wire'[j] = wire[j]
    BY BecomeEffect
  <1>2. QED
    BY <1>1, OtherThanServed DEF SameWork

LEMMA ServedStay ==
  ASSUME TypeOK, PageTypeOK, ServesItsCall, mix.pages # {}, PagesNext
  PROVE  ServesItsCall'
  <1>0. Free.step = "out"
    BY DEF Free
  <1>1. CASE PanelStep
    <2>1. UNCHANGED <<call, serves>>
      BY <1>1 DEF PanelStep, HandleSubmitDelivery, HandleRelease, HandleDispute, Handle, Done, Answer, TakeList, vars
    <2>2. \E i \in 1 .. MaxWork : \E w : Become(i, w) /\ wire[i].step # "in"
      BY <1>0, <1>1 DEF PanelStep, HandleSubmitDelivery, HandleRelease, HandleDispute, Handle, Done, Answer, TakeList,
         IsAt, Lowest
    <2>3. QED
      BY <2>1, <2>2, OneOtherThanServed
  <1>2. CASE FormStep
    <2>1. UNCHANGED <<call, serves>>
      BY <1>2 DEF FormStep, OpenModal, CloseModal, HandlePay, TakeSecret, Confirm, Declined, Redirected, Poll, vars,
         IntentSucceeds, IntentDeclined
    <2>2. ASSUME NEW i \in 1 .. MaxWork, Redirected(i)  PROVE ServesItsCall'
      <3>1. ASSUME NEW j \in 1 .. MaxWork, wire[j].step = "in"
            PROVE  wire'[j].step = "in" /\ SameWork(wire'[j], wire[j])
        <4>1. wire'[j] = wire[j] \/ wire'[j] = [wire[j] EXCEPT !.mounted = FALSE]
          BY <2>2, <3>1 DEF Redirected, IsAt
        <4>2. QED
          BY <3>1, <4>1, WorkFields DEF SameWork, Work
      <3>2. QED
        BY <2>1, <3>1, OtherThanServed
    <2>3. CASE CloseModal
      BY <2>1, <2>3, OtherThanServed DEF CloseModal, SameWork
    <2>4. CASE OpenModal \/ HandlePay \/ \E i \in 1 .. MaxWork : TakeSecret(i) \/ Confirm(i) \/ Declined(i) \/ Poll(i)
      <3>1. \E i \in 1 .. MaxWork : \E w : Become(i, w) /\ wire[i].step # "in"
        BY <1>0, <2>4 DEF OpenModal, HandlePay, TakeSecret, Confirm, Declined, Poll, IsAt, Lowest, ToStep
      <3>2. QED
        BY <2>1, <3>1, OneOtherThanServed
    <2>5. QED
      BY <1>2, <2>2, <2>3, <2>4 DEF FormStep
  <1>3. CASE DeskStep
    <2>1. UNCHANGED <<call, serves>>
      BY <1>3 DEF DeskStep, CheckStatus, ReloadSettings, Onboard, CreateReview, ReadDeveloper, CreateAccount, SaveAccount,
         Retrieve, TakeStatus, InsertReview, vars
    <2>2. CASE ReloadSettings
      <3>1. ASSUME NEW j \in 1 .. MaxWork, wire[j].step = "in"
            PROVE  wire'[j].step = "in" /\ SameWork(wire'[j], wire[j])
        BY <2>2, <3>1, WorkFields DEF ReloadSettings, SameWork, Work
      <3>2. QED
        BY <2>1, <3>1, OtherThanServed
    <2>3. CASE Onboard
      BY <2>1, <2>3, OtherThanServed DEF Onboard, SameWork
    <2>4. CASE CheckStatus \/ CreateReview \/ \E i \in 1 .. MaxWork :
                 ReadDeveloper(i) \/ CreateAccount(i) \/ SaveAccount(i) \/ Retrieve(i) \/ TakeStatus(i) \/ InsertReview(i)
      <3>1. \E i \in 1 .. MaxWork : \E w : Become(i, w) /\ wire[i].step # "in"
        BY <1>0, <2>4 DEF CheckStatus, CreateReview, ReadDeveloper, CreateAccount, SaveAccount, Retrieve, TakeStatus,
           InsertReview, IsAt, Lowest, ToStep
      <3>2. QED
        BY <2>1, <3>1, OneOtherThanServed
    <2>5. QED
      BY <1>3, <2>2, <2>3, <2>4 DEF DeskStep
  <1>4. ASSUME NEW i \in 1 .. MaxWork, Refuse(i) \/ Lose(i) \/ Catch(i)  PROVE ServesItsCall'
    <2>1. UNCHANGED <<call, serves>> /\ wire[i].step # "in" /\ \E w : Become(i, w)
      BY <1>4 DEF Refuse, Lose, Catch, vars, ToStep
    <2>2. QED
      BY <2>1, OneOtherThanServed
  <1>5. ASSUME NEW i \in 1 .. MaxWork, NEW c \in Calls, Accept(i, c)  PROVE ServesItsCall'
    <2>1. /\ serves' = [serves EXCEPT ![c] = i] /\ wire'[i].step = "in" /\ SameWork(wire'[i], wire[i])
          /\ wire[i].step = "out" /\ \A j \in 1 .. MaxWork : j # i => wire'[j] = wire[j]
      BY <1>5, WorkFields, BecomeEffect DEF Accept, ToStep, Work, SameWork
    <2>2. /\ wire[i].kind \in Calling /\ wire[i].kind = call'[c].op /\ call'[c] # Idle
          /\ wire[i].kind = "fund" => wire[i].key = call'[c].key /\ call'[c].step = "fund_check"
          /\ \A d \in Calls \ {c} : call'[d] = call[d]
      BY <1>5, BegunEffect DEF Accept, Calling, Fund, Submit, Release, RaiseDispute
    <2>3. \A d \in Calls \ {c} : serves'[d] = serves[d] /\ (serves[d] # 0 => serves[d] \in 1 .. MaxWork /\ serves[d] # i)
      BY <2>1, FundingAssumption DEF PageTypeOK, ServesItsCall
    <2>4. serves'[c] = i /\ i # 0
      BY <2>1 DEF PageTypeOK
    <2>5. ASSUME NEW d \in Calls, serves'[d] # 0, d # c
          PROVE  /\ call'[d] = call[d] /\ serves'[d] = serves[d] /\ wire'[serves'[d]] = wire[serves[d]]
                 /\ serves[d] # i
      BY <2>1, <2>2, <2>3, <2>5
    <2>6. QED
      BY <2>1, <2>2, <2>3, <2>4, <2>5 DEF ServesItsCall, SameWork, FundSteps
  <1>6. ASSUME NEW c \in Calls, GoOn(c)  PROVE ServesItsCall'
    <2>0. \A d \in Calls \ {c} : call'[d] = call[d]
      BY <1>6, ContinueEffect DEF GoOn
    <2>1. CASE call'[c] = Idle /\ serves[c] # 0
      <3>1. PICK i \in 1 .. MaxWork, s \in {"done", "lost"} : i = serves[c] /\ ToStep(i, s)
        BY <1>6, <2>1, FundingAssumption DEF GoOn, PageTypeOK
      <3>2. serves'[c] = 0 /\ \A d \in Calls \ {c} : serves'[d] = serves[d]
        BY <1>6, <2>1 DEF GoOn, PageTypeOK
      <3>3. \A j \in 1 .. MaxWork : j # i => wire'[j] = wire[j]
        BY <3>1, BecomeEffect DEF ToStep
      <3>4. ASSUME NEW d \in Calls, serves'[d] # 0
            PROVE  /\ d # c /\ call'[d] = call[d] /\ serves'[d] = serves[d] /\ wire'[serves'[d]] = wire[serves[d]]
        <4>1. d # c /\ serves[d] # 0 /\ serves[d] # i
          BY <3>1, <3>2, <3>4 DEF ServesItsCall
        <4>2. serves[d] \in 1 .. MaxWork
          BY <4>1, FundingAssumption DEF PageTypeOK
        <4>3. QED
          BY <2>0, <3>2, <3>3, <4>1, <4>2
      <3>5. QED
        BY <3>2, <3>4 DEF ServesItsCall
    <2>2. CASE call'[c] = Idle /\ serves[c] = 0
      BY <1>6, <2>0, <2>2 DEF GoOn, ServesItsCall
    <2>3. CASE call'[c] # Idle
      <3>1. UNCHANGED <<wire, serves>>
        BY <1>6, <2>3 DEF GoOn
      <3>2. call'[c].op = call[c].op /\ call'[c].key = call[c].key
        BY <1>6, <2>3, ContinueEffect DEF GoOn
      <3>3. call[c].step \in FundSteps => call'[c].step \in FundSteps
        BY <1>6, <2>3, FundGoesOnFunding DEF GoOn
      <3>4. QED
        BY <2>0, <2>3, <3>1, <3>2, <3>3 DEF ServesItsCall
    <2>4. QED
      BY <2>1, <2>2, <2>3
  <1>7. ASSUME NEW c \in Calls, Resolve(c) \/ \E e \in Event : Hook(c, e)  PROVE ServesItsCall'
    <2>1. call[c] = Idle /\ UNCHANGED <<serves, wire>>
      BY <1>7 DEF Resolve, Hook, ResolveRelease, ResolveRefund, HandleStripeWebhook, Begin, pageVars
    <2>2. \A d \in Calls \ {c} : call'[d] = call[d]
      BY <1>7, BegunEffect DEF Resolve, Hook, ResolveRelease, ResolveRefund, HandleStripeWebhook
    <2>3. QED
      BY <2>1, <2>2 DEF ServesItsCall
  <1>8. CASE StripeSettles
    <2>1. UNCHANGED <<call, serves, wire>>
      BY <1>8 DEF StripeSettles, IntentSucceeds, IntentDeclined, TransferReverses, pageVars
    <2>2. QED
      BY <2>1 DEF ServesItsCall
  <1>9. QED
    BY <1>1, <1>2, <1>3, <1>4, <1>5, <1>6, <1>7, <1>8, EveryStep DEF ServerStep, Direct

-----------------------------------------------------------------------------
(* What the panels show, by its age. *)

\* Only a handler of the service that goes on writes the status.
LEMMA OthersKeepStatus ==
  ASSUME mix.pages # {}, PagesNext, \A c \in Calls : ~GoOn(c)
  PROVE  UNCHANGED <<status, rev>>
  <1>1. PanelStep => UNCHANGED <<status, rev>>
    BY DEF PanelStep, HandleSubmitDelivery, HandleRelease, HandleDispute, Handle, Done, Answer, TakeList, vars, db, history
  <1>2. FormStep => UNCHANGED <<status, rev>>
    BY DEF FormStep, OpenModal, CloseModal, HandlePay, TakeSecret, Confirm, Declined, Redirected, Poll, vars, db,
       history, IntentSucceeds, IntentDeclined
  <1>3. DeskStep => UNCHANGED <<status, rev>>
    BY DEF DeskStep, CheckStatus, ReloadSettings, Onboard, CreateReview, ReadDeveloper, CreateAccount, SaveAccount,
       Retrieve, TakeStatus, InsertReview, vars, db, history
  <1>4. ASSUME NEW i \in 1 .. MaxWork, Refuse(i) \/ Lose(i) \/ Catch(i) \/ \E c \in Calls : Accept(i, c)
        PROVE  UNCHANGED <<status, rev>>
    BY <1>4 DEF Refuse, Lose, Catch, Accept, Fund, Submit, Release, RaiseDispute, vars, db, history
  <1>5. ASSUME NEW c \in Calls, Resolve(c) \/ \E e \in Event : Hook(c, e)
        PROVE  UNCHANGED <<status, rev>>
    BY <1>5 DEF Resolve, ResolveRelease, ResolveRefund, Hook, HandleStripeWebhook, db, pageVars, history
  <1>6. StripeSettles => UNCHANGED <<status, rev>>
    BY DEF StripeSettles, IntentSucceeds, IntentDeclined, TransferReverses, db, pageVars, history
  <1>7. QED
    BY <1>1, <1>2, <1>3, <1>4, <1>5, <1>6, EveryStep DEF ServerStep, Direct

\* What has not been answered is not dated.
LEMMA QuietIsDated ==
  ASSUME NEW w, w.seen <= rev, w.step \notin {"out", "reply"} \/ w.kind \notin Calling \cup {"load", "refresh"}
  PROVE  Dated(w)
  BY DEF Dated, Calling

LEMMA NewIsDated ==
  ASSUME PageTypeOK, CopiesAreDated
  PROVE  /\ Dated(Free) /\ \A r \in parties : \A kind : Dated(Ask(r, kind))
         /\ \A r \in parties : \A kind, step, k :
              kind \notin Calling \cup {"load", "refresh"} => Dated(Start(kind, r, step, k))
  <1>1. rev \in Nat /\ Free.seen = 0 /\ Free.kind = "free"
    BY DEF PageTypeOK, Free
  <1>2. \A r, kind : Ask(r, kind).seen = 0 /\ Ask(r, kind).step = "again"
    BY DEF Ask, Start
  <1>3. \A r \in parties : \A kind, step, k : Start(kind, r, step, k).seen <= rev /\ Start(kind, r, step, k).kind = kind
    BY DEF Start, CopiesAreDated
  <1>4. \A r, kind : Ask(r, kind).seen <= rev
    BY <1>1, <1>2
  <1>5. Dated(Free)
    BY <1>1, QuietIsDated DEF Calling
  <1>6. \A r \in parties : \A kind : Dated(Ask(r, kind))
    BY <1>2, <1>4, QuietIsDated
  <1>7. \A r \in parties : \A kind, step, k :
          kind \notin Calling \cup {"load", "refresh"} => Dated(Start(kind, r, step, k))
    BY <1>3, QuietIsDated
  <1>8. QED
    BY <1>5, <1>6, <1>7

\* A step that leaves the milestone alone.
LEMMA DatedOn ==
  ASSUME PageTypeOK, CopiesAreDated, UNCHANGED <<status, rev>>,
         \A j \in 1 .. MaxWork : wire'[j] = wire[j] \/ Dated(wire'[j]),
         \A r \in parties :
           /\ \/ panel'[r].rev = panel[r].rev /\ panel'[r].status = panel[r].status
              \/ /\ panel'[r].rev <= rev
                 /\ panel'[r].status # None /\ panel'[r].rev = rev => panel'[r].status = status
           /\ ownRev'[r] = ownRev[r] \/ ownRev'[r] <= rev
  PROVE  CopiesAreDated'
  <1>1. \A j \in 1 .. MaxWork : Dated(wire[j])'
    <2>1. \A j \in 1 .. MaxWork : Dated(wire'[j])
      BY DEF CopiesAreDated
    <2>2. QED
      BY <2>1 DEF Dated, Refused
  <1>2. QED
    BY <1>1 DEF CopiesAreDated

\* The same for a step of one handler, that shows nothing new.
LEMMA OneDatedOn ==
  ASSUME PageTypeOK, CopiesAreDated, UNCHANGED <<status, rev>>, NEW i \in 1 .. MaxWork, NEW w, Become(i, w), Dated(w),
         \A r \in parties : panel'[r].rev = panel[r].rev /\ panel'[r].status = panel[r].status,
         \A r \in parties : ownRev'[r] = ownRev[r] \/ ownRev'[r] <= rev
  PROVE  CopiesAreDated'
  <1>1. \A j \in 1 .. MaxWork : wire'[j] = wire[j] \/ Dated(wire'[j])
    BY BecomeEffect
  <1>2. QED
    BY <1>1, DatedOn

LEMMA PanelStaysDated ==
  ASSUME TypeOK, PageTypeOK, CopiesAreDated, UNCHANGED <<status, rev>>, PanelStep
  PROVE  CopiesAreDated'
  <1>1. ASSUME NEW r \in parties, NEW b \in {"submit", "release", "dispute"}, NEW k, Handle(r, b, k)
        PROVE  CopiesAreDated'
    <2>1. PICK i \in 1 .. MaxWork : Become(i, Start(b, r, "out", k))
      BY <1>1 DEF Handle
    <2>2. Start(b, r, "out", k).seen = panel[r].rev /\ Start(b, r, "out", k).kind = b
      BY DEF Start
    <2>3. panel[r].rev <= rev /\ (panel[r].status # None /\ panel[r].rev = rev => panel[r].status = status)
      BY DEF CopiesAreDated
    <2>4. panel[r].rev = rev => ~Refused(b) \/ (b = "dispute" /\ status = "DISPUTED")
      <3>1. b \in Offered(r)
        BY <1>1 DEF Handle
      <3>2. b = "submit" => panel[r].status = "FUNDED" /\ panel[r].status # None
        BY <3>1, FundingAssumption DEF Offered, MilestoneStatus
      <3>3. b = "release" => panel[r].status = "SUBMITTED" /\ panel[r].status # None
        BY <3>1, FundingAssumption DEF Offered, MilestoneStatus
      <3>4. b = "dispute" => panel[r].status \notin {None, "RELEASED", "REFUNDED"}
        BY <3>1 DEF Offered
      <3>5. Refused("submit") = (status # "FUNDED") /\ Refused("release") = (status # "SUBMITTED")
            /\ Refused("dispute") = (status \in {"RELEASED", "REFUNDED", "DISPUTED"})
        BY DEF Refused
      <3>6. CASE b = "submit"
        BY <2>3, <3>2, <3>5, <3>6
      <3>7. CASE b = "release"
        BY <2>3, <3>3, <3>5, <3>7
      <3>8. CASE b = "dispute"
        BY <2>3, <3>4, <3>5, <3>8
      <3>9. QED
        BY <3>6, <3>7, <3>8
    <2>5. Dated(Start(b, r, "out", k))
      BY <2>2, <2>3, <2>4 DEF Dated
    <2>6. \A q \in parties : panel'[q].rev = panel[q].rev /\ panel'[q].status = panel[q].status
      BY <1>1 DEF Handle, PageTypeOK, Panel
    <2>7. ownRev' = ownRev
      BY <1>1 DEF Handle, history
    <2>8. QED
      BY <2>1, <2>5, <2>6, <2>7, OneDatedOn
  <1>2. ASSUME NEW i \in 1 .. MaxWork, Done(i)  PROVE CopiesAreDated'
    <2>1. \A q \in parties : panel'[q].rev = panel[q].rev /\ panel'[q].status = panel[q].status
      BY <1>2 DEF Done, PageTypeOK, Panel
    <2>2. ownRev' = ownRev /\ wire[i].who \in parties
      BY <1>2, WorkFields DEF Done, history
    <2>3. QED
      BY <1>2, <2>1, <2>2, NewIsDated, OneDatedOn DEF Done
  <1>3. ASSUME NEW i \in 1 .. MaxWork, Answer(i)  PROVE CopiesAreDated'
    <2> DEFINE w == [wire[i] EXCEPT !.step = "reply", !.row = status, !.seen = rev]
    <2>1. /\ w.seen = rev /\ w.row = status /\ w.kind \in {"load", "refresh"}
          /\ Become(i, w) /\ UNCHANGED <<panel, ownRev>>
      BY <1>3, WorkFields DEF Answer, IsAt, Work, history
    <2> HIDE DEF w
    <2>2. status # None /\ rev <= rev
      BY FundingAssumption DEF TypeOK, PageTypeOK
    <2>3. Dated(w)
      BY <2>1, <2>2 DEF Dated, Calling
    <2>4. QED
      BY <2>1, <2>3, OneDatedOn
  <1>4. ASSUME NEW i \in 1 .. MaxWork, TakeList(i)  PROVE CopiesAreDated'
    <2>1. \A j \in 1 .. MaxWork : wire'[j] = wire[j] \/ Dated(wire'[j])
      BY <1>4, NewIsDated, BecomeEffect DEF TakeList
    <2>2. Dated(wire[i]) /\ wire[i].kind \in {"load", "refresh"} /\ wire[i].step = "reply" /\ ownRev' = ownRev
      BY <1>4 DEF TakeList, CopiesAreDated, IsAt, history
    <2>3. ASSUME NEW r \in parties
          PROVE \/ panel'[r] = panel[r]
                \/ panel'[r].rev = wire[i].seen /\ panel'[r].status = wire[i].row
      BY <1>4 DEF TakeList, PageTypeOK, Panel
    <2>4. QED
      BY <2>1, <2>2, <2>3, DatedOn DEF Dated
  <1>5. QED
    BY <1>1, <1>2, <1>3, <1>4 DEF PanelStep, HandleSubmitDelivery, HandleRelease, HandleDispute, parties

LEMMA FormStaysDated ==
  ASSUME TypeOK, PageTypeOK, CopiesAreDated, UNCHANGED <<status, rev>>, FormStep
  PROVE  CopiesAreDated'
  <1>0. rev \in Nat /\ rev <= rev /\ \A i \in 1 .. MaxWork : Dated(wire[i])
    BY DEF PageTypeOK, CopiesAreDated
  <1>1. CASE OpenModal
    <2>1. PICK i \in 1 .. MaxWork, k \in FundKeys : Become(i, Start("fund", "client", "out", k))
      BY <1>1 DEF OpenModal
    <2>2. /\ Start("fund", "client", "out", k).seen = panel["client"].rev
          /\ Start("fund", "client", "out", k).kind = "fund" /\ "client" \in parties
      BY DEF Start, parties
    <2>3. panel["client"].status = "PENDING" /\ panel["client"].status # None
      BY <1>1, FundingAssumption DEF OpenModal, Offered, MilestoneStatus
    <2>4. panel["client"].rev <= rev /\ (panel["client"].rev = rev => status = "PENDING")
      BY <2>2, <2>3 DEF CopiesAreDated
    <2>5. Refused("fund") = (status # "PENDING")
      BY DEF Refused
    <2>6. Dated(Start("fund", "client", "out", k))
      BY <2>2, <2>4, <2>5 DEF Dated
    <2>7. UNCHANGED <<panel, ownRev>>
      BY <1>1 DEF OpenModal, history
    <2>8. QED
      BY <2>1, <2>6, <2>7, OneDatedOn
  <1>2. CASE CloseModal
    BY <1>2, DatedOn DEF CloseModal, history
  <1>3. CASE HandlePay
    <2>1. PICK i \in 1 .. MaxWork : Become(i, Start("pay", "client", "confirm", modal.key))
      BY <1>3 DEF HandlePay
    <2>2. Dated(Start("pay", "client", "confirm", modal.key))
      BY NewIsDated DEF parties, Calling
    <2>3. UNCHANGED <<panel, ownRev>>
      BY <1>3 DEF HandlePay
    <2>4. QED
      BY <2>1, <2>2, <2>3, OneDatedOn
  <1>4. ASSUME NEW i \in 1 .. MaxWork, TakeSecret(i) \/ Declined(i)  PROVE CopiesAreDated'
    <2>1. Become(i, Free) /\ UNCHANGED <<panel, ownRev>>
      BY <1>4 DEF TakeSecret, Declined, history
    <2>2. QED
      BY <2>1, NewIsDated, OneDatedOn
  <1>5. ASSUME NEW i \in 1 .. MaxWork, Confirm(i)  PROVE CopiesAreDated'
    <2> DEFINE w == [wire[i] EXCEPT !.step = "poll"]
    <2>1. Become(i, w) /\ UNCHANGED <<panel, ownRev>> /\ w.seen = wire[i].seen /\ w.step = "poll"
      BY <1>5, WorkFields DEF Confirm, ToStep, Work, history
    <2> HIDE DEF w
    <2>2. Dated(w)
      BY <1>0, <2>1, QuietIsDated DEF Dated
    <2>3. QED
      BY <2>1, <2>2, OneDatedOn
  <1>6. ASSUME NEW i \in 1 .. MaxWork, Redirected(i)  PROVE CopiesAreDated'
    <2>1. ASSUME NEW j \in 1 .. MaxWork  PROVE wire'[j] = wire[j] \/ Dated(wire'[j])
      <3>1. wire'[j] = wire[j] \/ wire'[j] = Ask("client", "load") \/ wire'[j] = [wire[j] EXCEPT !.mounted = FALSE]
        BY <1>6 DEF Redirected
      <3>2. Dated(wire[j]) => Dated([wire[j] EXCEPT !.mounted = FALSE])
        BY WorkFields DEF Dated, Work
      <3>3. QED
        BY <1>0, <3>1, <3>2, NewIsDated DEF parties
    <2>2. \A r \in parties : panel'[r] = panel[r] \/ panel'[r] = Fresh
      BY <1>6 DEF Redirected, PageTypeOK
    <2>3. \A r \in parties : ownRev'[r] = ownRev[r] \/ ownRev'[r] = 0
      BY <1>6 DEF Redirected, PageTypeOK
    <2>4. Fresh.rev = 0 /\ Fresh.status = None
      BY DEF Fresh
    <2>5. QED
      BY <1>0, <2>1, <2>2, <2>3, <2>4, DatedOn
  <1>7. ASSUME NEW i \in 1 .. MaxWork, Poll(i)  PROVE CopiesAreDated'
    <2> DEFINE w == [wire[i] EXCEPT !.tries = @ + 1]
    <2>1. w.seen = wire[i].seen /\ w.step = "poll" /\ w.kind = "pay"
      BY <1>7, WorkFields DEF Poll, IsAt, Work
    <2>2. Become(i, w) \/ Become(i, Free) \/ Become(i, Ask("client", "refresh"))
      BY <1>7 DEF Poll
    <2>3. panel' = panel /\ \A r \in parties : ownRev'[r] = ownRev[r] \/ ownRev'[r] <= rev
      BY <1>0, <1>7 DEF Poll, PageTypeOK
    <2> HIDE DEF w
    <2>4. Dated(w)
      BY <1>0, <2>1, QuietIsDated DEF Dated
    <2>5. "client" \in parties
      BY DEF parties
    <2>6. QED
      BY <2>2, <2>3, <2>4, <2>5, NewIsDated, OneDatedOn
  <1>8. QED
    BY <1>1, <1>2, <1>3, <1>4, <1>5, <1>6, <1>7 DEF FormStep

LEMMA DeskStaysDated ==
  ASSUME TypeOK, PageTypeOK, CopiesAreDated, UNCHANGED <<status, rev>>, DeskStep
  PROVE  CopiesAreDated'
  <1>0. UNCHANGED <<panel, ownRev>>
    BY DEF DeskStep, CheckStatus, ReloadSettings, Onboard, CreateReview, ReadDeveloper, CreateAccount, SaveAccount,
       Retrieve, TakeStatus, InsertReview, history
  <1>1. CASE CheckStatus
    <2>1. PICK i \in 1 .. MaxWork : Become(i, Start("check", "developer", "out", NoId))
      BY <1>1 DEF CheckStatus
    <2>2. QED
      BY <1>0, <2>1, NewIsDated, OneDatedOn DEF parties, Calling
  <1>2. CASE CreateReview
    <2>1. PICK i \in 1 .. MaxWork : Become(i, Start("review", "client", "insert", NoId))
      BY <1>2 DEF CreateReview
    <2>2. QED
      BY <1>0, <2>1, NewIsDated, OneDatedOn DEF parties, Calling
  <1>3. CASE Onboard
    BY <1>0, <1>3, DatedOn DEF Onboard
  <1>4. CASE ReloadSettings
    <2>1. ASSUME NEW j \in 1 .. MaxWork  PROVE wire'[j] = wire[j] \/ Dated(wire'[j])
      <3>1. wire'[j] = wire[j] \/ wire'[j] = [wire[j] EXCEPT !.mounted = FALSE]
        BY <1>4 DEF ReloadSettings
      <3>2. Dated(wire[j]) => Dated([wire[j] EXCEPT !.mounted = FALSE])
        BY WorkFields DEF Dated, Work
      <3>3. QED
        BY <3>1, <3>2 DEF CopiesAreDated
    <2>2. QED
      BY <1>0, <2>1, DatedOn
  <1>5. ASSUME NEW i \in 1 .. MaxWork, ReadDeveloper(i) \/ CreateAccount(i) \/ SaveAccount(i) \/ Retrieve(i)
        PROVE CopiesAreDated'
    <2>1. PICK s, a : Become(i, [wire[i] EXCEPT !.step = s, !.account = a]) \/ Become(i, [wire[i] EXCEPT !.step = s])
      BY <1>5 DEF ReadDeveloper, CreateAccount, SaveAccount, Retrieve, ToStep
    <2>2. wire[i].kind = "check" /\ wire[i].seen <= rev
      BY <1>5 DEF ReadDeveloper, CreateAccount, SaveAccount, Retrieve, IsAt, CopiesAreDated, Dated
    <2>3. /\ [wire[i] EXCEPT !.step = s, !.account = a].kind = "check" /\ [wire[i] EXCEPT !.step = s].kind = "check"
          /\ [wire[i] EXCEPT !.step = s, !.account = a].seen <= rev /\ [wire[i] EXCEPT !.step = s].seen <= rev
      BY <2>2, WorkFields DEF Work
    <2>4. Dated([wire[i] EXCEPT !.step = s, !.account = a]) /\ Dated([wire[i] EXCEPT !.step = s])
      BY <2>3, QuietIsDated DEF Calling
    <2>5. QED
      BY <1>0, <2>1, <2>4, OneDatedOn
  <1>6. ASSUME NEW i \in 1 .. MaxWork, TakeStatus(i) \/ InsertReview(i)  PROVE CopiesAreDated'
    <2>1. Become(i, Free)
      BY <1>6 DEF TakeStatus, InsertReview
    <2>2. QED
      BY <1>0, <2>1, NewIsDated, OneDatedOn
  <1>7. QED
    BY <1>1, <1>2, <1>3, <1>4, <1>5, <1>6 DEF DeskStep

\* A call that goes on may write the milestone: then every copy is older.
LEMMA GoOnStaysDated ==
  ASSUME TypeOK, PageTypeOK, CopiesAreDated, NEW c \in Calls, GoOn(c)
  PROVE  CopiesAreDated'
  <1>0. rev \in Nat /\ panel' = panel /\ rev' \in {rev, rev + 1} /\ (rev' = rev => status' = status)
    BY DEF GoOn, PageTypeOK
  <1>1. \A r \in parties : ownRev'[r] = ownRev[r] \/ ownRev'[r] = rev'
    BY DEF GoOn, PageTypeOK
  <1>2. ASSUME NEW j \in 1 .. MaxWork
        PROVE  \/ wire'[j] = wire[j]
               \/ wire'[j].seen = wire[j].seen /\ wire'[j].step \in {"done", "lost"}
    <2>1. CASE call'[c] = Idle /\ serves[c] # 0
      <3>1. PICK s \in {"done", "lost"} : wire' = [wire EXCEPT ![serves[c]] = [wire[serves[c]] EXCEPT !.step = s]]
        BY <2>1 DEF GoOn, ToStep, Become
      <3>2. CASE j = serves[c]
        <4>1. wire'[j] = [wire[j] EXCEPT !.step = s]
          BY <3>1, <3>2 DEF PageTypeOK
        <4>2. QED
          BY <4>1, WorkFields DEF Work
      <3>3. CASE j # serves[c]
        BY <3>1, <3>3 DEF PageTypeOK
      <3>4. QED
        BY <3>2, <3>3
    <2>2. CASE wire' = wire
      BY <2>2
    <2>3. QED
      BY <2>1, <2>2 DEF GoOn
  <1>3. CASE rev' = rev
    <2>1. \A j \in 1 .. MaxWork : wire'[j] = wire[j] \/ Dated(wire'[j])
      BY <1>2, QuietIsDated DEF CopiesAreDated, Dated
    <2>2. rev <= rev
      BY <1>0
    <2>3. QED
      BY <1>0, <1>1, <1>3, <2>1, <2>2, DatedOn
  <1>4. CASE rev' = rev + 1
    <2>1. ASSUME NEW j \in 1 .. MaxWork  PROVE Dated(wire[j])'
      <3>1. /\ wire'[j].seen = wire[j].seen /\ wire[j].seen <= rev /\ wire[j].seen \in Nat
            /\ wire'[j].kind \in {"load", "refresh"} /\ wire'[j].step = "reply" => wire'[j].row # None
        BY <1>2, WorkFields DEF CopiesAreDated, Dated
      <3>2. QED
        BY <1>0, <1>4, <3>1 DEF Dated
    <2>2. \A r \in parties : panel[r].rev <= rev /\ ownRev[r] <= rev /\ panel[r].rev \in Nat /\ ownRev[r] \in Nat
      BY PanelFields DEF CopiesAreDated, PageTypeOK
    <2>3. \A r \in parties : panel'[r].rev <= rev' /\ panel'[r].rev # rev' /\ ownRev'[r] <= rev'
      BY <1>0, <1>1, <1>4, <2>2
    <2>4. QED
      BY <2>1, <2>3 DEF CopiesAreDated
  <1>5. QED
    BY <1>0, <1>3, <1>4

LEMMA CopiesStayDated ==
  ASSUME TypeOK, PageTypeOK, CopiesAreDated, mix.pages # {}, PagesNext
  PROVE  CopiesAreDated'
  <1>1. CASE \E c \in Calls : GoOn(c)
    BY <1>1, GoOnStaysDated
  <1>2. CASE \A c \in Calls : ~GoOn(c)
    <2>1. UNCHANGED <<status, rev>>
      BY <1>2, OthersKeepStatus
    <2>2. CASE PanelStep \/ FormStep \/ DeskStep
      BY <2>1, <2>2, PanelStaysDated, FormStaysDated, DeskStaysDated
    <2>3. ASSUME NEW i \in 1 .. MaxWork, NEW s \in {"in", "lost"}, ToStep(i, s), UNCHANGED <<panel, ownRev>>
          PROVE  CopiesAreDated'
      <3>1. [wire[i] EXCEPT !.step = s].seen = wire[i].seen /\ [wire[i] EXCEPT !.step = s].step = s
        BY WorkFields DEF Work
      <3>2. Dated([wire[i] EXCEPT !.step = s])
        BY <3>1, QuietIsDated DEF CopiesAreDated, Dated
      <3>3. QED
        BY <2>1, <2>3, <3>2, OneDatedOn DEF ToStep
    <2>4. ASSUME NEW i \in 1 .. MaxWork, Refuse(i) \/ Lose(i) \/ \E c \in Calls : Accept(i, c)  PROVE CopiesAreDated'
      BY <2>3, <2>4 DEF Refuse, Lose, Accept, history
    <2>5. ASSUME NEW i \in 1 .. MaxWork, Catch(i)  PROVE CopiesAreDated'
      <3>1. Become(i, Free) /\ ownRev' = ownRev
        BY <2>5 DEF Catch, history
      <3>2. \A r \in parties : panel'[r].rev = panel[r].rev /\ panel'[r].status = panel[r].status
        BY <2>5 DEF Catch, PageTypeOK, Panel
      <3>3. QED
        BY <2>1, <3>1, <3>2, NewIsDated, OneDatedOn
    <2>6. ASSUME NEW c \in Calls, Resolve(c)  PROVE CopiesAreDated'
      BY <2>1, <2>6, DatedOn DEF Resolve, history
    <2>7. CASE UNCHANGED pageVars
      BY <2>1, <2>7, DatedOn DEF pageVars, history
    <2>8. QED
      BY <1>2, <2>2, <2>4, <2>5, <2>6, <2>7, EveryStep DEF ServerStep, Hook, StripeSettles, Direct
  <1>3. QED
    BY <1>1, <1>2

\* A handler is refused only on a copy the milestone was written after.
LEMMA ButtonsStayAgreed ==
  ASSUME PageTypeOK, CopiesAreDated, ButtonsAgree, PagesNext
  PROVE  ButtonsAgree'
  <1>1. ASSUME NEW i \in 1 .. MaxWork, Refuse(i)  PROVE ButtonsAgree'
    <2>1. CASE wire[i].seen = rev /\ ~(wire[i].kind = "dispute" /\ status = "DISPUTED")
      BY <1>1, <2>1 DEF Refuse, CopiesAreDated, Dated, Calling
    <2>2. CASE ~(wire[i].seen = rev /\ ~(wire[i].kind = "dispute" /\ status = "DISPUTED"))
      BY <1>1, <2>2 DEF Refuse, ButtonsAgree
    <2>3. QED
      BY <2>1, <2>2
  <1>2. ASSUME NEW i \in 1 .. MaxWork, NEW c \in Calls, Accept(i, c)  PROVE ButtonsAgree'
    <2>1. marks' = marks \/ marks' = marks \cup {"early"}
      BY <1>2 DEF Accept
    <2>2. QED
      BY <2>1 DEF ButtonsAgree
  <1>3. CASE ReloadSettings
    BY <1>3 DEF ReloadSettings, ButtonsAgree
  <1>4. marks' = marks \/ ReloadSettings \/ \E i \in 1 .. MaxWork : Refuse(i) \/ \E c \in Calls : Accept(i, c)
    BY DEF PagesNext, Works, HandleSubmitDelivery, HandleRelease, HandleDispute, Handle, OpenModal, CloseModal,
       HandlePay, CheckStatus, Onboard, CreateReview, Done, Answer, TakeList, TakeSecret, Confirm,
       Declined, Redirected, Poll, ReadDeveloper, CreateAccount, SaveAccount, Retrieve, TakeStatus, InsertReview, Lose,
       Catch, GoOn, Resolve, Hook, StripeSettles, Direct, pageVars, history
  <1>5. QED
    BY <1>1, <1>2, <1>3, <1>4 DEF ButtonsAgree

-----------------------------------------------------------------------------
(* What was done reaches the panel it was done on. *)

LEMMA NothingReturnsToPending ==
  ASSUME SInv, PageTypeOK, Carried, calm', mix.pages # {}, status = "PENDING" => rev = 0, PagesNext
  PROVE  status' = "PENDING" => rev' = 0
  <1>1. status' # status => <<status, status'>> \in Transitions
    BY PagesStepIsEscrowStep, StepFollowsLifecycle
  <1>2. status' = "PENDING" => status = "PENDING"
    BY <1>1 DEF Transitions, DocumentedTransitions
  <1>3. status' = status => rev' = rev
    <2>1. CASE \E c \in Calls : GoOn(c)
      BY <2>1 DEF GoOn
    <2>2. CASE \A c \in Calls : ~GoOn(c)
      BY <2>2, OthersKeepStatus
    <2>3. QED
      BY <2>1, <2>2
  <1>4. QED
    BY <1>2, <1>3

\* A step of one handler.
LEMMA OneDeedOn ==
  ASSUME PageTypeOK, DeedsReachPanels, status' = "PENDING" => rev' = 0, ownRev' = ownRev,
         NEW i \in 1 .. MaxWork, NEW w, Become(i, w),
         w.kind \in {"load", "refresh"} => w.step \in {"again", "reply", "lost"},
         \A r \in parties :
           /\ panel'[r].rev = panel[r].rev /\ panel'[r].status = panel[r].status
           /\ panel[r].behind => panel'[r].behind
           /\ panel[r].error => panel'[r].error \/ WillShow(w, r, ownRev[r])
           /\ WillShow(wire[i], r, ownRev[r]) =>
                WillShow(w, r, ownRev[r]) \/ panel'[r].error \/ panel'[r].behind
           /\ LoadsFirst(r) /\ panel[r].status = None =>
                /\ r = "client" => modal'.at = "shut"
                /\ w.who = r /\ w.mounted => w.kind \in Blank
  PROVE  DeedsReachPanels'
  <1>0. wire'[i] = w /\ \A j \in 1 .. MaxWork : j # i => wire'[j] = wire[j]
    BY BecomeEffect
  <1>1. ListsAreAsked'
    BY <1>0 DEF DeedsReachPanels, ListsAreAsked
  <1>2. ASSUME NEW r \in parties  PROVE DeedReaches(r)'
    <2>1. CASE Knows(panel[r], ownRev[r])
      <3>1. Knows(panel'[r], ownRev[r]) \/ WillShow(wire'[i], r, ownRev[r])
        BY <1>0, <2>1 DEF Knows
      <3>2. QED
        BY <3>1 DEF DeedReaches, Knows, WillShow
    <2>2. ASSUME NEW j \in 1 .. MaxWork, WillShow(wire[j], r, ownRev[r])  PROVE DeedReaches(r)'
      <3>1. WillShow(wire'[j], r, ownRev[r]) \/ Knows(panel'[r], ownRev[r])
        BY <1>0, <2>2 DEF Knows
      <3>2. QED
        BY <3>1 DEF DeedReaches, Knows, WillShow
    <2>3. QED
      BY <2>1, <2>2 DEF DeedsReachPanels, DeedReaches
  <1>3. ASSUME NEW r \in parties  PROVE LoadsFirst(r)'
    BY <1>0 DEF DeedsReachPanels, LoadsFirst
  <1>4. QED
    BY <1>1, <1>2, <1>3 DEF DeedsReachPanels

\* A handler that is started on a panel that shows something, or that shows
\* nothing itself.
LEMMA StartedDeedOn ==
  ASSUME PageTypeOK, DeedsReachPanels, status' = "PENDING" => rev' = 0, UNCHANGED <<panel, ownRev>>,
         NEW i \in 1 .. MaxWork, NEW kind, kind \notin {"load", "refresh"}, NEW q \in parties, NEW step, NEW k,
         Lowest(i), Become(i, Start(kind, q, step, k)),
         panel[q].status # None \/ kind \in Blank,
         modal'.at = "shut" \/ modal' = modal \/ panel["client"].status # None
  PROVE  DeedsReachPanels'
  <1> DEFINE w == Start(kind, q, step, k)
  <1>1. w.who = q /\ w.kind = kind /\ wire[i].kind = "free"
    BY DEF Start, Lowest, Free
  <1>2. \A r \in parties : ~WillShow(wire[i], r, ownRev[r])
    BY <1>1 DEF WillShow
  <1> HIDE DEF w
  <1>3. Become(i, w)
    BY DEF w
  <1>4. \A r \in parties : LoadsFirst(r) /\ panel[r].status = None =>
          /\ r = "client" => modal'.at = "shut"
          /\ w.who = r /\ w.mounted => w.kind \in Blank
    BY <1>1 DEF LoadsFirst
  <1>5. QED
    BY <1>1, <1>2, <1>3, <1>4, OneDeedOn

\* A handler that shows nothing ends, or goes on as it is.
LEMMA QuietDeedOn ==
  ASSUME PageTypeOK, DeedsReachPanels, status' = "PENDING" => rev' = 0, UNCHANGED <<panel, ownRev>>,
         NEW i \in 1 .. MaxWork, NEW w, Become(i, w),
         \/ w = Free /\ wire[i].kind \notin {"load", "refresh", "submit", "release", "dispute"}
         \/ /\ SameWork(w, wire[i]) /\ w.mounted = wire[i].mounted
            /\ w.kind \in {"load", "refresh"} => w.step \in {"again", "lost"},
         \/ modal'.at = "shut" \/ modal'.at = modal.at \/ panel["client"].status # None
  PROVE  DeedsReachPanels'
  <1>1. \A r \in parties : WillShow(wire[i], r, ownRev[r]) => WillShow(w, r, ownRev[r])
    BY DEF WillShow, SameWork
  <1>2. w.kind \in {"load", "refresh"} => w.step \in {"again", "reply", "lost"}
    BY DEF Free
  <1>3. \A r \in parties : LoadsFirst(r) /\ panel[r].status = None =>
          /\ r = "client" => modal'.at = "shut"
          /\ w.who = r /\ w.mounted => w.kind \in Blank
    BY DEF LoadsFirst, Free, Blank, SameWork
  <1>4. QED
    BY <1>1, <1>2, <1>3, OneDeedOn

LEMMA PanelDeedsReach ==
  ASSUME TypeOK, PageTypeOK, CopiesAreDated, DeedsReachPanels, status' = "PENDING" => rev' = 0, PanelStep
  PROVE  DeedsReachPanels'
  <1>1. ASSUME NEW q \in parties, NEW b \in {"submit", "release", "dispute"}, NEW k, Handle(q, b, k)
        PROVE  DeedsReachPanels'
    <2>1. PICK i \in 1 .. MaxWork : Lowest(i) /\ Become(i, Start(b, q, "out", k))
      BY <1>1 DEF Handle
    <2> DEFINE w == Start(b, q, "out", k)
    <2>2. w.who = q /\ w.kind = b /\ w.mounted /\ wire[i].kind = "free" /\ Become(i, w)
      BY <2>1 DEF Start, Lowest, Free
    <2> HIDE DEF w
    <2>3. \A n : WillShow(w, q, n)
      BY <2>2 DEF WillShow
    <2>4. \A r \in parties : \A n : ~WillShow(wire[i], r, n)
      BY <2>2 DEF WillShow
    <2>5. panel[q].status # None /\ modal' = modal /\ ownRev' = ownRev
      BY <1>1, FundingAssumption DEF Handle, Offered, MilestoneStatus, history
    <2>6. \A r \in parties :
            /\ panel'[r].rev = panel[r].rev /\ panel'[r].status = panel[r].status
            /\ panel[r].behind => panel'[r].behind
            /\ r # q /\ panel[r].error => panel'[r].error
      BY <1>1 DEF Handle, PageTypeOK, Panel
    <2>7. \A r \in parties : LoadsFirst(r) /\ panel[r].status = None =>
            /\ r = "client" => modal'.at = "shut"
            /\ w.who = r /\ w.mounted => w.kind \in Blank
      BY <2>2, <2>5 DEF LoadsFirst
    <2>8. QED
      BY <2>2, <2>3, <2>4, <2>5, <2>6, <2>7, OneDeedOn
  <1>2. ASSUME NEW i \in 1 .. MaxWork, Done(i)  PROVE DeedsReachPanels'
    <2> DEFINE w == IF wire[i].mounted THEN Ask(wire[i].who, "refresh") ELSE Free
    <2>1. /\ wire[i].mounted => w.who = wire[i].who /\ w.kind = "refresh" /\ w.step = "again" /\ w.mounted
          /\ ~wire[i].mounted => w.kind = "free"
          /\ Become(i, w) /\ UNCHANGED <<modal, ownRev>> /\ wire[i].kind \in {"submit", "release", "dispute"}
          /\ wire[i].mounted \in BOOLEAN
      BY <1>2, WorkFields DEF Done, IsAt, Ask, Start, Free, history
    <2> HIDE DEF w
    <2>2. \A r \in parties : panel'[r].rev = panel[r].rev /\ panel'[r].status = panel[r].status
                             /\ panel'[r].behind = panel[r].behind /\ panel'[r].error = panel[r].error
      BY <1>2 DEF Done, PageTypeOK, Panel
    <2>3. \A r \in parties : WillShow(wire[i], r, ownRev[r]) => WillShow(w, r, ownRev[r])
      BY <2>1 DEF WillShow
    <2>4. \A r \in parties : LoadsFirst(r) /\ panel[r].status = None =>
            /\ r = "client" => modal'.at = "shut"
            /\ w.who = r /\ w.mounted => w.kind \in Blank
      BY <2>1 DEF LoadsFirst, Blank
    <2>5. QED
      BY <2>1, <2>2, <2>3, <2>4, OneDeedOn
  <1>3. ASSUME NEW i \in 1 .. MaxWork, Answer(i)  PROVE DeedsReachPanels'
    <2> DEFINE w == [wire[i] EXCEPT !.step = "reply", !.row = status, !.seen = rev]
    <2>1. /\ w.kind = wire[i].kind /\ w.who = wire[i].who /\ w.mounted = wire[i].mounted /\ w.seen = rev /\ w.step = "reply"
          /\ Become(i, w) /\ UNCHANGED <<panel, modal, ownRev>> /\ w.kind \in {"load", "refresh"}
      BY <1>3, WorkFields DEF Answer, IsAt, Work, history
    <2> HIDE DEF w
    <2>2. \A r \in parties : WillShow(wire[i], r, ownRev[r]) => WillShow(w, r, ownRev[r])
      <3>1. \A r \in parties : rev >= ownRev[r]
        BY DEF CopiesAreDated, PageTypeOK
      <3>2. QED
        BY <2>1, <3>1 DEF WillShow
    <2>4. \A r \in parties : LoadsFirst(r) /\ panel[r].status = None =>
            /\ r = "client" => modal'.at = "shut"
            /\ w.who = r /\ w.mounted => w.kind \in Blank
      BY <2>1 DEF LoadsFirst, Blank
    <2>5. QED
      BY <2>1, <2>2, <2>4, OneDeedOn
  <1>4. ASSUME NEW i \in 1 .. MaxWork, TakeList(i)  PROVE DeedsReachPanels'
    <2> DEFINE w == wire[i]
    <2>0. wire'[i] = Free /\ \A j \in 1 .. MaxWork : j # i => wire'[j] = wire[j]
      BY <1>4, BecomeEffect DEF TakeList
    <2>1. /\ w.kind \in {"load", "refresh"} /\ w.step = "reply" /\ w.row # None /\ w.mounted \in BOOLEAN
          /\ w.seen \in Nat /\ w.who \in parties /\ UNCHANGED <<modal, ownRev>>
      BY <1>4, WorkFields DEF TakeList, IsAt, CopiesAreDated, Dated, history
    <2>2. \A r \in parties : r # w.who \/ ~w.mounted => panel'[r] = panel[r]
      BY <1>4 DEF TakeList, PageTypeOK
    <2>3. w.mounted => /\ panel'[w.who].rev = w.seen /\ panel'[w.who].status = w.row
                       /\ panel'[w.who].behind = (panel[w.who].behind \/ w.seen < panel[w.who].rev)
                       /\ panel'[w.who].error = panel[w.who].error
      BY <1>4, <2>1 DEF TakeList, PageTypeOK, Panel
    <2> HIDE DEF w
    <2>4. ListsAreAsked'
      BY <2>0 DEF DeedsReachPanels, ListsAreAsked, Free
    <2>5. ASSUME NEW r \in parties  PROVE DeedReaches(r)'
      <3>0. panel[r].rev \in Nat /\ ownRev[r] \in Nat
        BY PanelFields DEF PageTypeOK
      <3>1. Knows(panel[r], ownRev[r]) => Knows(panel'[r], ownRev[r])
        BY <2>1, <2>2, <2>3, <3>0 DEF Knows
      <3>2. ASSUME NEW j \in 1 .. MaxWork, WillShow(wire[j], r, ownRev[r])
            PROVE  Knows(panel'[r], ownRev[r]) \/ WillShow(wire'[j], r, ownRev[r])
        <4>1. CASE j = i
          BY <2>1, <2>2, <2>3, <3>2, <4>1 DEF WillShow, Knows, w
        <4>2. CASE j # i
          BY <2>0, <3>2, <4>2
        <4>3. QED
          BY <4>1, <4>2
      <3>3. QED
        BY <2>1, <3>1, <3>2 DEF DeedsReachPanels, DeedReaches, Knows, WillShow
    <2>6. ASSUME NEW r \in parties  PROVE LoadsFirst(r)'
      BY <2>0, <2>1, <2>2, <2>3 DEF DeedsReachPanels, LoadsFirst, Free, Blank
    <2>7. QED
      BY <2>4, <2>5, <2>6 DEF DeedsReachPanels
  <1>5. QED
    BY <1>1, <1>2, <1>3, <1>4 DEF PanelStep, HandleSubmitDelivery, HandleRelease, HandleDispute, parties

LEMMA FormDeedsReach ==
  ASSUME PageTypeOK, Carried, CopiesAreDated, DeedsReachPanels, status' = "PENDING" => rev' = 0, UNCHANGED <<status, rev>>, FormStep
  PROVE  DeedsReachPanels'
  <1>0. /\ panel["client"].status = None => modal.at = "shut" /\ modal.key = NoId
        /\ "client" \in parties /\ "developer" \in parties /\ NoId \notin FundKeys
    BY NoIdAssumption DEF DeedsReachPanels, LoadsFirst, parties, Carried, Keys
  <1>1. CASE OpenModal
    <2>1. PICK i \in 1 .. MaxWork, k \in FundKeys : Lowest(i) /\ Become(i, Start("fund", "client", "out", k))
      BY <1>1 DEF OpenModal
    <2>2. panel["client"].status # None /\ UNCHANGED <<panel, ownRev>>
      BY <1>1, FundingAssumption DEF OpenModal, Offered, MilestoneStatus, history
    <2>3. QED
      BY <1>0, <2>1, <2>2, StartedDeedOn
  <1>2. CASE CloseModal
    <2>1. modal'.at = "shut" /\ UNCHANGED <<panel, ownRev, wire>>
      BY <1>2 DEF CloseModal, Shut, Modal, history
    <2>2. QED
      BY <2>1 DEF DeedsReachPanels, ListsAreAsked, DeedReaches, LoadsFirst, Knows, WillShow
  <1>3. CASE HandlePay
    <2>1. PICK i \in 1 .. MaxWork : Lowest(i) /\ Become(i, Start("pay", "client", "confirm", modal.key))
      BY <1>3 DEF HandlePay
    <2>2. panel["client"].status # None /\ UNCHANGED <<panel, ownRev>>
      BY <1>0, <1>3 DEF HandlePay
    <2>3. QED
      BY <1>0, <2>1, <2>2, StartedDeedOn
  <1>4. ASSUME NEW i \in 1 .. MaxWork, TakeSecret(i) \/ Declined(i)  PROVE DeedsReachPanels'
    <2>1. Become(i, Free) /\ UNCHANGED <<panel, ownRev>> /\ wire[i].kind \in {"fund", "pay"}
      BY <1>4 DEF TakeSecret, Declined, IsAt, history
    <2>2. wire[i].key # NoId
      BY <1>0, <2>1 DEF Carried, Carries
    <2>3. modal'.at = modal.at \/ panel["client"].status # None
      <3>1. CASE TakeSecret(i)
        BY <1>0, <2>2, <3>1 DEF TakeSecret
      <3>2. CASE Declined(i)
        BY <3>2 DEF Declined, EndPaying, PageTypeOK
      <3>3. QED
        BY <1>4, <3>1, <3>2
    <2>4. QED
      BY <2>1, <2>3, QuietDeedOn
  <1>5. ASSUME NEW i \in 1 .. MaxWork, Confirm(i)  PROVE DeedsReachPanels'
    <2> DEFINE w == [wire[i] EXCEPT !.step = "poll"]
    <2>1. /\ SameWork(w, wire[i]) /\ w.mounted = wire[i].mounted /\ w.kind = "pay"
          /\ Become(i, w) /\ UNCHANGED <<panel, ownRev, modal>>
      BY <1>5, WorkFields DEF Confirm, ToStep, IsAt, Work, SameWork, history
    <2> HIDE DEF w
    <2>2. QED
      BY <2>1, QuietDeedOn
  <1>6. ASSUME NEW i \in 1 .. MaxWork, Redirected(i)  PROVE DeedsReachPanels'
    <2>1. ASSUME NEW j \in 1 .. MaxWork
          PROVE  \/ wire'[j] = wire[j] /\ (wire[j].who # "client" \/ wire[j] = Free)
                 \/ wire'[j] = Ask("client", "load") /\ wire[j].who = "client"
                 \/ wire'[j] = [wire[j] EXCEPT !.mounted = FALSE] /\ wire[j].who = "client"
      BY <1>6 DEF Redirected, IsAt, Carried, Carries
    <2>2. /\ modal'.at = "shut" /\ panel'["developer"] = panel["developer"] /\ panel'["client"] = Fresh
          /\ ownRev'["client"] = 0 /\ ownRev'["developer"] = ownRev["developer"]
      BY <1>0, <1>6 DEF Redirected, Shut, Modal, PageTypeOK
    <2>3. /\ Ask("client", "load").kind = "load" /\ Ask("client", "load").step = "again"
          /\ Ask("client", "load").who = "client" /\ Free.kind = "free"
      BY DEF Ask, Start, Free
    <2>4. \A j \in 1 .. MaxWork : LET w == [wire[j] EXCEPT !.mounted = FALSE] IN
            w.kind = wire[j].kind /\ w.who = wire[j].who /\ w.step = wire[j].step /\ w.mounted = FALSE
      BY WorkFields DEF Work
    <2>5. ASSUME NEW j \in 1 .. MaxWork
          PROVE  /\ wire'[j].kind \in {"load", "refresh"} => wire'[j].step \in {"again", "reply", "lost"}
                 /\ wire'[j].who = "client" /\ wire'[j].mounted => wire'[j].kind \in Blank
                 /\ wire[j].who = "developer" \/ wire'[j].who = "developer" => wire'[j] = wire[j]
      <3>1. CASE wire'[j] = wire[j] /\ (wire[j].who # "client" \/ wire[j] = Free)
        BY <2>3, <3>1 DEF DeedsReachPanels, ListsAreAsked, Blank
      <3>2. CASE wire'[j] = Ask("client", "load") /\ wire[j].who = "client"
        BY <2>3, <3>2 DEF Blank
      <3>3. CASE wire'[j] = [wire[j] EXCEPT !.mounted = FALSE] /\ wire[j].who = "client"
        BY <2>4, <3>3 DEF DeedsReachPanels, ListsAreAsked
      <3>4. QED
        BY <2>1, <3>1, <3>2, <3>3
    <2>6. ListsAreAsked'
      BY <2>5 DEF ListsAreAsked
    <2>7. Fresh.rev = 0 /\ 0 >= 0
      BY DEF Fresh
    <2>8. (DeedReaches("client") /\ LoadsFirst("client"))'
      BY <2>2, <2>5, <2>7 DEF DeedReaches, Knows, LoadsFirst
    <2>9. (DeedReaches("developer") /\ LoadsFirst("developer"))'
      <3>1. DeedReaches("developer") /\ LoadsFirst("developer")
        BY <1>0 DEF DeedsReachPanels
      <3>2. \A j \in 1 .. MaxWork : \A n : WillShow(wire[j], "developer", n) => WillShow(wire'[j], "developer", n)
        BY <2>5 DEF WillShow
      <3>3. DeedReaches("developer")'
        BY <2>2, <3>1, <3>2 DEF DeedReaches, Knows, WillShow
      <3>4. LoadsFirst("developer")'
        BY <2>2, <2>5, <3>1 DEF LoadsFirst
      <3>5. QED
        BY <3>3, <3>4
    <2>10. QED
      BY <2>6, <2>8, <2>9 DEF DeedsReachPanels, parties
  <1>7. ASSUME NEW i \in 1 .. MaxWork, Poll(i)  PROVE DeedsReachPanels'
    <2>1. wire[i].kind = "pay" /\ wire[i].who = "client" /\ wire[i].mounted \in BOOLEAN
      BY <1>7, WorkFields DEF Poll, IsAt, Carried, Carries
    <2>2. CASE ~(status # "PENDING" \/ wire[i].tries + 1 = MaxPolls)
      <3> DEFINE w == [wire[i] EXCEPT !.tries = @ + 1]
      <3>1. /\ SameWork(w, wire[i]) /\ w.mounted = wire[i].mounted /\ w.kind = "pay"
            /\ Become(i, w) /\ UNCHANGED <<panel, ownRev, modal>>
        BY <1>7, <2>1, <2>2, WorkFields DEF Poll, Work, SameWork
      <3> HIDE DEF w
      <3>2. QED
        BY <3>1, QuietDeedOn
    <2>3. CASE (status # "PENDING" \/ wire[i].tries + 1 = MaxPolls) /\ ~wire[i].mounted
      <3>1. Become(i, Free) /\ UNCHANGED <<panel, ownRev, modal>>
        BY <1>7, <2>3 DEF Poll
      <3>2. QED
        BY <2>1, <3>1, QuietDeedOn
    <2>4. CASE (status # "PENDING" \/ wire[i].tries + 1 = MaxPolls) /\ wire[i].mounted
      <3> DEFINE w == Ask("client", "refresh")
      <3>1. /\ Become(i, w) /\ panel' = panel /\ modal'.at = "shut"
            /\ w.who = "client" /\ w.kind = "refresh" /\ w.step = "again" /\ w.mounted
            /\ ownRev' = [ownRev EXCEPT !["client"] = rev]
        BY <1>7, <2>4 DEF Poll, Shut, Modal, Ask, Start
      <3> HIDE DEF w
      <3>2. wire'[i] = w /\ \A j \in 1 .. MaxWork : j # i => wire'[j] = wire[j]
        BY <3>1, BecomeEffect
      <3>3. panel["client"].status # None
        BY <1>0, <2>1, <2>4 DEF DeedsReachPanels, LoadsFirst, Blank
      <3>4. ListsAreAsked'
        BY <3>1, <3>2 DEF DeedsReachPanels, ListsAreAsked
      <3>5. (DeedReaches("client") /\ LoadsFirst("client"))'
        BY <3>1, <3>2, <3>3 DEF DeedReaches, WillShow, LoadsFirst
      <3>6. ownRev'["developer"] = ownRev["developer"]
        BY <1>0, <3>1 DEF PageTypeOK
      <3>7. \A j \in 1 .. MaxWork : \A n : WillShow(wire[j], "developer", n) => WillShow(wire'[j], "developer", n)
        BY <2>1, <3>2 DEF WillShow
      <3>8. DeedReaches("developer") /\ LoadsFirst("developer")
        BY <1>0 DEF DeedsReachPanels
      <3>9. DeedReaches("developer")'
        BY <3>1, <3>6, <3>7, <3>8 DEF DeedReaches, Knows, WillShow
      <3>10. LoadsFirst("developer")'
        BY <3>1, <3>2, <3>6, <3>8 DEF LoadsFirst
      <3>11. QED
        BY <3>4, <3>5, <3>9, <3>10 DEF DeedsReachPanels, parties
    <2>5. QED
      BY <2>1, <2>2, <2>3, <2>4
  <1>8. QED
    BY <1>1, <1>2, <1>3, <1>4, <1>5, <1>6, <1>7 DEF FormStep

LEMMA DeskDeedsReach ==
  ASSUME PageTypeOK, DeedsReachPanels, status' = "PENDING" => rev' = 0, DeskStep
  PROVE  DeedsReachPanels'
  <1>0. UNCHANGED <<panel, ownRev, modal>>
    BY DEF DeskStep, CheckStatus, ReloadSettings, Onboard, CreateReview, ReadDeveloper, CreateAccount, SaveAccount,
       Retrieve, TakeStatus, InsertReview, history
  <1>1. CASE CheckStatus
    <2>1. PICK i \in 1 .. MaxWork : Lowest(i) /\ Become(i, Start("check", "developer", "out", NoId))
      BY <1>1 DEF CheckStatus
    <2>2. QED
      BY <1>0, <2>1, StartedDeedOn DEF parties, Blank
  <1>2. CASE CreateReview
    <2>1. PICK i \in 1 .. MaxWork : Lowest(i) /\ Become(i, Start("review", "client", "insert", NoId))
      BY <1>2 DEF CreateReview
    <2>2. QED
      BY <1>0, <2>1, StartedDeedOn DEF parties, Blank
  <1>3. CASE Onboard
    BY <1>0, <1>3 DEF Onboard, DeedsReachPanels, ListsAreAsked, DeedReaches, LoadsFirst, Knows, WillShow
  <1>4. CASE ReloadSettings
    <2>1. ASSUME NEW j \in 1 .. MaxWork  PROVE wire'[j] = wire[j] \/ (wire[j].kind = "check" /\ wire'[j].kind = "check")
      <3>1. wire'[j] = wire[j] \/ (wire[j].kind = "check" /\ wire'[j] = [wire[j] EXCEPT !.mounted = FALSE])
        BY <1>4 DEF ReloadSettings
      <3>2. QED
        BY <3>1, WorkFields DEF Work
    <2>2. ListsAreAsked'
      BY <2>1 DEF DeedsReachPanels, ListsAreAsked
    <2>3. ASSUME NEW r \in parties  PROVE DeedReaches(r)' /\ LoadsFirst(r)'
      <3>1. DeedReaches(r) /\ LoadsFirst(r)
        BY DEF DeedsReachPanels
      <3>2. \A j \in 1 .. MaxWork : \A n : WillShow(wire[j], r, n) => WillShow(wire'[j], r, n)
        BY <2>1 DEF WillShow
      <3>3. DeedReaches(r)'
        BY <1>0, <3>1, <3>2 DEF DeedReaches, Knows, WillShow
      <3>4. LoadsFirst(r)'
        BY <1>0, <2>1, <3>1 DEF LoadsFirst, Blank
      <3>5. QED
        BY <3>3, <3>4
    <2>4. QED
      BY <2>2, <2>3 DEF DeedsReachPanels
  <1>5. ASSUME NEW i \in 1 .. MaxWork, ReadDeveloper(i) \/ CreateAccount(i) \/ SaveAccount(i) \/ Retrieve(i)
        PROVE DeedsReachPanels'
    <2>1. PICK s, a : Become(i, [wire[i] EXCEPT !.step = s, !.account = a]) \/ Become(i, [wire[i] EXCEPT !.step = s])
      BY <1>5 DEF ReadDeveloper, CreateAccount, SaveAccount, Retrieve, ToStep
    <2>2. wire[i].kind = "check"
      BY <1>5 DEF ReadDeveloper, CreateAccount, SaveAccount, Retrieve, IsAt
    <2>3. \E w : Become(i, w) /\ SameWork(w, wire[i]) /\ w.mounted = wire[i].mounted /\ w.kind = "check"
      <3>1. /\ SameWork([wire[i] EXCEPT !.step = s, !.account = a], wire[i]) /\ SameWork([wire[i] EXCEPT !.step = s], wire[i])
            /\ [wire[i] EXCEPT !.step = s, !.account = a].mounted = wire[i].mounted
            /\ [wire[i] EXCEPT !.step = s].mounted = wire[i].mounted
        BY WorkFields DEF Work, SameWork
      <3>2. QED
        BY <2>1, <2>2, <3>1 DEF SameWork
    <2>4. QED
      BY <1>0, <2>3, QuietDeedOn
  <1>6. ASSUME NEW i \in 1 .. MaxWork, TakeStatus(i) \/ InsertReview(i)  PROVE DeedsReachPanels'
    <2>1. Become(i, Free) /\ wire[i].kind \in {"check", "review"}
      BY <1>6 DEF TakeStatus, InsertReview, IsAt
    <2>2. QED
      BY <1>0, <2>1, QuietDeedOn
  <1>7. QED
    BY <1>1, <1>2, <1>3, <1>4, <1>5, <1>6 DEF DeskStep

\* The answer of a fund call that ends well finds the milestone unwritten yet.
LEMMA FundAnswersBeforeWrites ==
  ASSUME SInv, calm, NEW c \in Calls, Continue(c), call'[c] = Idle, call[c].step \in FundSteps,
         \A k \in FundKeys : reply[k] # "succeeded", ~At(c, "fund_insert")
  PROVE  status = "PENDING" /\ status' = "PENDING"
  <1>0. TypeOK /\ RequestFacts(c) /\ RequestHolds(c)
    BY DEF SInv, IInv, CallsRelyOnFacts, ChecksHold
  <1>1. status = "PENDING" /\ call[c].key \in FundKeys
    BY <1>0 DEF RequestHolds, RequestFacts
  <1>2. FundCheck(c) \/ FundStripe(c) \/ FundInsert(c) \/ FundMark(c)
    BY OnlyFundSteps
  <1>3. QED
    BY <1>1, <1>2 DEF FundCheck, FundStripe, FundInsert, FundMark, db

\* A call that goes on: its end is the deed of the handler it serves.
LEMMA GoOnDeedsReach ==
  ASSUME SInv, calm, PageTypeOK, ServesItsCall, DeedsReachPanels, status' = "PENDING" => rev' = 0,
         \A k \in FundKeys : reply[k] # "succeeded", NEW c \in Calls, GoOn(c)
  PROVE  DeedsReachPanels'
  <1>0. UNCHANGED <<panel, modal>> /\ Continue(c)
    BY DEF GoOn
  <1>1. CASE call'[c] = Idle /\ serves[c] # 0
    <2> DEFINE i == serves[c]
               w == wire[i]
               ok == ~At(c, "transfer_check") /\ ~At(c, "fund_insert") /\ (At(c, "transfer_commit") => payout' # payout)
    <2>1. /\ i \in 1 .. MaxWork
          /\ w.kind \in Calling /\ (w.kind = "fund" => call[c].step \in FundSteps)
      BY <1>1, FundingAssumption DEF PageTypeOK, ServesItsCall
    <2>2. PICK s \in {"done", "lost"} : Become(i, [w EXCEPT !.step = s])
      BY <1>1 DEF GoOn, ToStep
    <2>3. SameWork(wire'[i], w) /\ wire'[i].mounted = w.mounted /\ \A j \in 1 .. MaxWork : j # i => wire'[j] = wire[j]
      BY <2>1, <2>2, WorkFields, BecomeEffect DEF Work, SameWork
    <2>4. w.who \in parties /\ w.mounted \in BOOLEAN
      BY <2>1, WorkFields
    <2>5. ownRev' = IF ok /\ w.mounted THEN [ownRev EXCEPT ![w.who] = rev'] ELSE ownRev
      BY <1>1 DEF GoOn
    <2>6. ok /\ w.kind = "fund" => rev' = 0
      BY <1>0, <1>1, <2>1, FundAnswersBeforeWrites
    <2> HIDE DEF ok, w, i
    <2>7. ListsAreAsked'
      BY <2>1, <2>3 DEF DeedsReachPanels, ListsAreAsked, Calling, SameWork
    <2>8. ASSUME NEW r \in parties  PROVE DeedReaches(r)' /\ LoadsFirst(r)'
      <3>1. DeedReaches(r) /\ LoadsFirst(r)
        BY DEF DeedsReachPanels
      <3>2. ASSUME NEW j \in 1 .. MaxWork, NEW n, WillShow(wire[j], r, n)  PROVE WillShow(wire'[j], r, n)
        BY <2>1, <2>3, <3>2 DEF WillShow, Calling, SameWork, w
      <3>3. CASE ownRev'[r] = ownRev[r]
        <4>1. DeedReaches(r)'
          BY <1>0, <3>1, <3>2, <3>3 DEF DeedReaches, Knows, WillShow
        <4>2. LoadsFirst(r)'
          BY <1>0, <2>3, <3>1, <3>3 DEF LoadsFirst, SameWork, w
        <4>3. QED
          BY <4>1, <4>2
      <3>4. CASE ownRev'[r] # ownRev[r]
        <4>1. ok /\ w.mounted /\ w.who = r /\ ownRev'[r] = rev'
          BY <2>4, <2>5, <3>4 DEF PageTypeOK
        <4>2. panel[r].status # None
          BY <2>1, <3>1, <4>1 DEF LoadsFirst, Blank, Calling, w
        <4>3. CASE w.kind = "fund"
          <5>1. ownRev'[r] = 0 /\ panel'[r].rev \in Nat
            BY <1>0, <2>6, <4>1, <4>3, PanelFields
          <5>2. panel'[r].rev >= ownRev'[r]
            BY <5>1
          <5>3. QED
            BY <1>0, <4>2, <5>2 DEF DeedReaches, Knows, LoadsFirst
        <4>4. CASE w.kind # "fund"
          <5>1. WillShow(wire'[i], r, ownRev'[r])
            BY <2>1, <2>3, <4>1, <4>4 DEF WillShow, Calling, SameWork
          <5>2. QED
            BY <1>0, <2>1, <4>2, <5>1 DEF DeedReaches, LoadsFirst, WillShow
        <4>5. QED
          BY <4>3, <4>4
      <3>5. QED
        BY <3>3, <3>4
    <2>9. QED
      BY <2>7, <2>8 DEF DeedsReachPanels
  <1>2. CASE UNCHANGED <<wire, ownRev>>
    BY <1>0, <1>2 DEF DeedsReachPanels, ListsAreAsked, DeedReaches, LoadsFirst, Knows, WillShow
  <1>3. QED
    BY <1>1, <1>2 DEF GoOn

LEMMA CatchDeedsReach ==
  ASSUME PageTypeOK, Carried, DeedsReachPanels, status' = "PENDING" => rev' = 0, NEW i \in 1 .. MaxWork, Catch(i)
  PROVE  DeedsReachPanels'
  <1> DEFINE w == wire[i]
  <1>1. Become(i, Free) /\ ownRev' = ownRev /\ w.who \in parties /\ Free.kind = "free" /\ w.mounted \in BOOLEAN
    BY WorkFields DEF Catch, history, Free
  <1>2. \A r \in parties : /\ panel'[r].rev = panel[r].rev /\ panel'[r].status = panel[r].status
                           /\ panel[r].behind => panel'[r].behind
                           /\ panel[r].error => panel'[r].error
    BY <1>1 DEF Catch, PageTypeOK, Panel
  <1>3. \A r \in parties : WillShow(w, r, ownRev[r]) => panel'[r].error \/ panel'[r].behind
    BY DEF Catch, PageTypeOK, Panel, WillShow
  <1>4. \A r \in parties : LoadsFirst(r) /\ panel[r].status = None => (r = "client" => modal'.at = "shut")
    <2>1. w.kind \in {"fund", "pay"} => w.key \in FundKeys
      BY DEF Carried, Carries
    <2>2. NoId \notin FundKeys /\ (modal.at = "shut" => modal.key = NoId)
      BY NoIdAssumption DEF Keys, Carried
    <2>3. QED
      BY <2>1, <2>2 DEF Catch, LoadsFirst
  <1> HIDE DEF w
  <1>5. QED
    BY <1>1, <1>2, <1>3, <1>4, OneDeedOn DEF w, Blank

LEMMA DeedsStayShown ==
  ASSUME SInv, calm, calm', PageTypeOK, Carried, ServesItsCall, CopiesAreDated, DeedsReachPanels,
         \A k \in FundKeys : reply[k] # "succeeded", mix.pages # {}, PagesNext
  PROVE  DeedsReachPanels'
  <1>0. (status' = "PENDING" => rev' = 0) /\ TypeOK
    BY NothingReturnsToPending DEF DeedsReachPanels, SInv, IInv
  <1>1. CASE \E c \in Calls : GoOn(c)
    BY <1>0, <1>1, GoOnDeedsReach
  <1>2. CASE \A c \in Calls : ~GoOn(c)
    <2>1. UNCHANGED <<status, rev>>
      BY <1>2, OthersKeepStatus
    <2>2. CASE PanelStep \/ FormStep \/ DeskStep
      BY <1>0, <2>1, <2>2, PanelDeedsReach, FormDeedsReach, DeskDeedsReach
    <2>3. ASSUME NEW i \in 1 .. MaxWork, Refuse(i) \/ Lose(i) \/ \E c \in Calls : Accept(i, c)
          PROVE  DeedsReachPanels'
      <3>1. UNCHANGED <<panel, ownRev, modal>> /\ \E s \in {"in", "lost"} : ToStep(i, s)
        BY <2>3 DEF Refuse, Lose, Accept, history
      <3>2. PICK s \in {"in", "lost"} : ToStep(i, s)
        BY <3>1
      <3>3. s = "lost" \/ wire[i].kind \notin {"load", "refresh"}
        <4>1. CASE \E c \in Calls : Accept(i, c)
          BY <4>1 DEF Accept
        <4>2. CASE Refuse(i) \/ Lose(i)
          <5>1. ToStep(i, "lost")
            BY <4>2 DEF Refuse, Lose
          <5>2. [wire[i] EXCEPT !.step = "lost"].step = "lost" /\ [wire[i] EXCEPT !.step = s].step = s
            BY WorkFields DEF Work
          <5>3. QED
            BY <3>2, <5>1, <5>2 DEF ToStep, Become, PageTypeOK
        <4>3. QED
          BY <2>3, <4>1, <4>2
      <3> DEFINE w == [wire[i] EXCEPT !.step = s]
      <3>4. SameWork(w, wire[i]) /\ w.mounted = wire[i].mounted /\ w.step = s /\ Become(i, w)
        BY <3>2, WorkFields DEF ToStep, Work, SameWork
      <3> HIDE DEF w
      <3>5. w.kind \in {"load", "refresh"} => w.step \in {"again", "lost"}
        BY <3>3, <3>4 DEF SameWork
      <3>6. QED
        BY <1>0, <3>1, <3>4, <3>5, QuietDeedOn
    <2>4. ASSUME NEW i \in 1 .. MaxWork, Catch(i)  PROVE DeedsReachPanels'
      BY <1>0, <2>4, CatchDeedsReach
    <2>5. ASSUME UNCHANGED <<panel, ownRev, modal, wire>>  PROVE DeedsReachPanels'
      BY <1>0, <2>5 DEF DeedsReachPanels, ListsAreAsked, DeedReaches, LoadsFirst, Knows, WillShow
    <2>6. ASSUME NEW c \in Calls, Resolve(c)  PROVE DeedsReachPanels'
      BY <2>5, <2>6 DEF Resolve, history
    <2>7. CASE UNCHANGED pageVars
      BY <2>5, <2>7 DEF pageVars, history
    <2>8. QED
      BY <1>2, <2>2, <2>3, <2>4, <2>6, <2>7, EveryStep DEF ServerStep, Hook, StripeSettles, Direct
  <1>3. QED
    BY <1>1, <1>2

-----------------------------------------------------------------------------
(* The payment form, and what is charged. *)

\* How a handler of the payment form goes on.
LEMMA MoneyWorkKept ==
  ASSUME PageTypeOK, PagesNext, NEW j \in 1 .. MaxWork, wire'[j].kind \in {"fund", "pay"}
  PROVE  \/ /\ SameWork(wire'[j], wire[j])
            /\ \/ wire'[j].step = wire[j].step \/ wire'[j].step \in {"poll", "lost"}
               \/ wire'[j].step = "in" /\ \E c \in Calls : Accept(j, c)
               \/ /\ wire'[j].step = "done" /\ wire[j].step # "done"
                  /\ \E c \in Calls : GoOn(c) /\ call'[c] = Idle /\ serves[c] = j /\ ~At(c, "fund_insert")
         \/ OpenModal /\ wire'[j].kind = "fund" /\ wire'[j].step = "out" /\ wire'[j].key = modal'.key
         \/ HandlePay /\ wire'[j].kind = "pay" /\ wire'[j].step = "confirm" /\ wire'[j].key = modal.key
  <1> DEFINE Goal == \/ /\ SameWork(wire'[j], wire[j])
                        /\ \/ wire'[j].step = wire[j].step \/ wire'[j].step \in {"poll", "lost"}
                           \/ wire'[j].step = "in" /\ \E c \in Calls : Accept(j, c)
                           \/ /\ wire'[j].step = "done" /\ wire[j].step # "done"
                              /\ \E c \in Calls : GoOn(c) /\ call'[c] = Idle /\ serves[c] = j /\ ~At(c, "fund_insert")
                     \/ OpenModal /\ wire'[j].kind = "fund" /\ wire'[j].step = "out" /\ wire'[j].key = modal'.key
                     \/ HandlePay /\ wire'[j].kind = "pay" /\ wire'[j].step = "confirm" /\ wire'[j].key = modal.key
  <1> SUFFICES Goal
    OBVIOUS
  <1>1. CASE wire'[j] = wire[j]
    BY <1>1 DEF SameWork
  <1>2. ASSUME NEW i \in 1 .. MaxWork, NEW w, Become(i, w), w.kind \notin {"fund", "pay"}  PROVE Goal
    BY <1>1, <1>2, BecomeEffect
  <1>3. ASSUME NEW i \in 1 .. MaxWork, NEW w, Become(i, w), SameWork(w, wire[i]),
               w.step = wire[i].step \/ w.step \in {"poll", "lost"}
        PROVE  Goal
    BY <1>1, <1>3, BecomeEffect
  <1>4. /\ Free.kind = "free" /\ \A r, kind : Ask(r, kind).kind = kind
        /\ \A kind, r, s, k : /\ Start(kind, r, s, k).kind = kind /\ Start(kind, r, s, k).key = k
                              /\ Start(kind, r, s, k).step = s
    BY DEF Free, Ask, Start
  <1>5. /\ \A i \in 1 .. MaxWork : \A s : SameWork([wire[i] EXCEPT !.step = s], wire[i]) /\ [wire[i] EXCEPT !.step = s].step = s
        /\ \A i \in 1 .. MaxWork : \A a : SameWork([wire[i] EXCEPT !.tries = a], wire[i]) /\ [wire[i] EXCEPT !.tries = a].step = wire[i].step
        /\ \A i \in 1 .. MaxWork : \A a : SameWork([wire[i] EXCEPT !.mounted = a], wire[i]) /\ [wire[i] EXCEPT !.mounted = a].step = wire[i].step
        /\ \A i \in 1 .. MaxWork : \A s, a : [wire[i] EXCEPT !.step = s, !.account = a].kind = wire[i].kind
        /\ \A i \in 1 .. MaxWork : \A s, a, b : [wire[i] EXCEPT !.step = s, !.row = a, !.seen = b].kind = wire[i].kind
    BY WorkFields DEF SameWork, Work
  <1> HIDE DEF Goal
  <1>6. CASE PanelStep
    <2>1. ASSUME NEW r \in parties, NEW b \in {"submit", "release", "dispute"}, NEW k, Handle(r, b, k)  PROVE Goal
      <3>1. PICK i \in 1 .. MaxWork : Become(i, Start(b, r, "out", k))
        BY <2>1 DEF Handle
      <3>2. QED
        BY <1>2, <1>4, <3>1
    <2>2. ASSUME NEW i \in 1 .. MaxWork, Done(i)  PROVE Goal
      BY <1>2, <1>4, <2>2 DEF Done
    <2>3. ASSUME NEW i \in 1 .. MaxWork, Answer(i)  PROVE Goal
      <3>1. [wire[i] EXCEPT !.step = "reply", !.row = status, !.seen = rev].kind \in {"load", "refresh"}
        BY <1>5, <2>3 DEF Answer, IsAt
      <3>2. QED
        BY <1>2, <2>3, <3>1 DEF Answer
    <2>4. ASSUME NEW i \in 1 .. MaxWork, TakeList(i)  PROVE Goal
      BY <1>2, <1>4, <2>4 DEF TakeList
    <2>5. QED
      BY <1>6, <2>1, <2>2, <2>3, <2>4 DEF PanelStep, HandleSubmitDelivery, HandleRelease, HandleDispute, parties
  <1>7. CASE FormStep
    <2>1. CASE OpenModal
      <3>1. PICK k \in FundKeys, i \in 1 .. MaxWork :
              Become(i, Start("fund", "client", "out", k)) /\ modal' = Modal("loading", k)
        BY <2>1 DEF OpenModal
      <3>2. modal'.key = k
        BY <3>1 DEF Modal
      <3>3. QED
        BY <1>1, <1>4, <2>1, <3>1, <3>2, BecomeEffect DEF Goal
    <2>2. CASE HandlePay
      <3>1. PICK i \in 1 .. MaxWork : Become(i, Start("pay", "client", "confirm", modal.key))
        BY <2>2 DEF HandlePay
      <3>2. QED
        BY <1>1, <1>4, <2>2, <3>1, BecomeEffect DEF Goal
    <2>3. CASE CloseModal
      BY <1>1, <2>3 DEF CloseModal, Goal
    <2>4. ASSUME NEW i \in 1 .. MaxWork, TakeSecret(i) \/ Declined(i)  PROVE Goal
      BY <1>2, <1>4, <2>4 DEF TakeSecret, Declined
    <2>5. ASSUME NEW i \in 1 .. MaxWork, Confirm(i)  PROVE Goal
      <3>1. SameWork([wire[i] EXCEPT !.step = "poll"], wire[i]) /\ [wire[i] EXCEPT !.step = "poll"].step = "poll"
        BY <1>5
      <3>2. Become(i, [wire[i] EXCEPT !.step = "poll"])
        BY <2>5 DEF Confirm, ToStep
      <3>3. QED
        BY <1>3, <3>1, <3>2
    <2>6. ASSUME NEW i \in 1 .. MaxWork, Redirected(i)  PROVE Goal
      <3>1. \/ wire'[j] = Ask("client", "load") \/ wire'[j] = wire[j]
            \/ wire'[j] = [wire[j] EXCEPT !.mounted = FALSE]
        BY <2>6 DEF Redirected
      <3>2. SameWork([wire[j] EXCEPT !.mounted = FALSE], wire[j]) /\ [wire[j] EXCEPT !.mounted = FALSE].step = wire[j].step
        BY <1>5
      <3>3. QED
        <4>1. CASE wire'[j] = Ask("client", "load")
          BY <1>4, <4>1
        <4>2. CASE wire'[j] = [wire[j] EXCEPT !.mounted = FALSE]
          BY <3>2, <4>2 DEF Goal
        <4>3. QED
          BY <1>1, <3>1, <4>1, <4>2
    <2>7. ASSUME NEW i \in 1 .. MaxWork, Poll(i)  PROVE Goal
      <3> DEFINE w == [wire[i] EXCEPT !.tries = @ + 1]
      <3>1. SameWork(w, wire[i]) /\ w.step = wire[i].step
        BY WorkFields DEF SameWork, Work
      <3>2. Become(i, w) \/ Become(i, Free) \/ Become(i, Ask("client", "refresh"))
        BY <2>7 DEF Poll
      <3> HIDE DEF w
      <3>3. QED
        BY <1>2, <1>3, <1>4, <3>1, <3>2
    <2>8. QED
      BY <1>7, <2>1, <2>2, <2>3, <2>4, <2>5, <2>6, <2>7 DEF FormStep
  <1>8. CASE DeskStep
    <2>1. ASSUME NEW i \in 1 .. MaxWork, NEW r, NEW s, NEW kind \in {"check", "review"}, Become(i, Start(kind, r, s, NoId))  PROVE Goal
      BY <1>2, <1>4, <2>1
    <2>2. CASE CheckStatus \/ CreateReview
      BY <2>1, <2>2 DEF CheckStatus, CreateReview
    <2>3. CASE Onboard
      BY <1>1, <2>3 DEF Onboard, Goal
    <2>4. CASE ReloadSettings
      <3>1. wire'[j] = wire[j] \/ wire'[j] = [wire[j] EXCEPT !.mounted = FALSE]
        BY <2>4 DEF ReloadSettings
      <3>2. SameWork([wire[j] EXCEPT !.mounted = FALSE], wire[j]) /\ [wire[j] EXCEPT !.mounted = FALSE].step = wire[j].step
        BY <1>5
      <3>3. QED
        BY <1>1, <3>1, <3>2 DEF Goal
    <2>5. ASSUME NEW i \in 1 .. MaxWork, ReadDeveloper(i) \/ CreateAccount(i) \/ SaveAccount(i) \/ Retrieve(i)  PROVE Goal
      <3>1. PICK s, a : Become(i, [wire[i] EXCEPT !.step = s, !.account = a]) \/ Become(i, [wire[i] EXCEPT !.step = s])
        BY <2>5 DEF ReadDeveloper, CreateAccount, SaveAccount, Retrieve, ToStep
      <3>2. wire[i].kind = "check"
        BY <2>5 DEF ReadDeveloper, CreateAccount, SaveAccount, Retrieve, IsAt
      <3>3. [wire[i] EXCEPT !.step = s, !.account = a].kind = "check" /\ [wire[i] EXCEPT !.step = s].kind = "check"
        BY <1>5, <3>2 DEF SameWork
      <3>4. QED
        BY <1>2, <3>1, <3>3
    <2>6. ASSUME NEW i \in 1 .. MaxWork, TakeStatus(i) \/ InsertReview(i)  PROVE Goal
      BY <1>2, <1>4, <2>6 DEF TakeStatus, InsertReview
    <2>7. QED
      BY <1>8, <2>2, <2>3, <2>4, <2>5, <2>6 DEF DeskStep
  <1>9. CASE ServerStep
    <2>1. ASSUME NEW i \in 1 .. MaxWork, Refuse(i) \/ Lose(i)  PROVE Goal
      BY <1>3, <1>5, <2>1 DEF Refuse, Lose, ToStep
    <2>2. ASSUME NEW i \in 1 .. MaxWork, Catch(i)  PROVE Goal
      BY <1>2, <1>4, <2>2 DEF Catch
    <2>3. ASSUME NEW i \in 1 .. MaxWork, NEW c \in Calls, Accept(i, c)  PROVE Goal
      <3>1. Become(i, [wire[i] EXCEPT !.step = "in"])
        BY <2>3 DEF Accept, ToStep
      <3>2. SameWork([wire[i] EXCEPT !.step = "in"], wire[i]) /\ [wire[i] EXCEPT !.step = "in"].step = "in"
        BY <1>5
      <3>3. QED
        BY <1>1, <2>3, <3>1, <3>2, BecomeEffect DEF Goal
    <2>4. ASSUME NEW c \in Calls, GoOn(c)  PROVE Goal
      <3>1. CASE call'[c] = Idle /\ serves[c] # 0
        <4> DEFINE i  == serves[c]
                   ok == ~At(c, "transfer_check") /\ ~At(c, "fund_insert") /\ (At(c, "transfer_commit") => payout' # payout)
        <4>1. i \in 1 .. MaxWork
          BY <3>1, FundingAssumption DEF PageTypeOK
        <4>2. ToStep(i, IF ok THEN "done" ELSE "lost")
          BY <2>4, <3>1 DEF GoOn
        <4>3. wire'[i] = [wire[i] EXCEPT !.step = IF ok THEN "done" ELSE "lost"] /\ (j # i => wire'[j] = wire[j])
          BY <4>1, <4>2, BecomeEffect DEF ToStep
        <4>4. CASE j # i
          BY <1>1, <4>3, <4>4 DEF Goal
        <4>5. CASE j = i
          <5> DEFINE s == IF ok THEN "done" ELSE "lost"
          <5>0. wire'[i] = [wire[i] EXCEPT !.step = s]
            BY <4>3
          <5> HIDE DEF s
          <5>1. SameWork(wire'[j], wire[j]) /\ wire'[j].step = s
            BY <1>5, <4>1, <4>5, <5>0
          <5>3. s = IF ok THEN "done" ELSE "lost"
            BY DEF s
          <5>2. QED
            BY <2>4, <3>1, <4>5, <5>1, <5>3 DEF Goal
        <4>6. QED
          BY <4>4, <4>5
      <3>2. CASE UNCHANGED wire
        BY <1>1, <3>2 DEF Goal
      <3>3. QED
        BY <2>4, <3>1, <3>2 DEF GoOn
    <2>5. ASSUME NEW c \in Calls, Resolve(c)  PROVE Goal
      BY <1>1, <2>5 DEF Resolve, Goal
    <2>6. CASE UNCHANGED pageVars
      BY <1>1, <2>6 DEF pageVars, Goal
    <2>7. QED
      BY <1>9, <2>1, <2>2, <2>3, <2>4, <2>5, <2>6 DEF ServerStep, Hook, StripeSettles, Direct
  <1>10. QED
    BY <1>6, <1>7, <1>8, <1>9, EveryStep DEF Goal

\* The one call that asks Stripe for an intent asks for one to be confirmed.
LEMMA GoOnCreatesIntent ==
  ASSUME TypeOK, \A k \in FundKeys : reply[k] # "succeeded", NEW c \in Calls, GoOn(c)
  PROVE  \A k \in FundKeys :
           /\ reply'[k] # "succeeded"
           /\ intent'[k] # intent[k] => intent[k] = "none" /\ intent'[k] = "processing"
  <1>1. \A k \in FundKeys : reply'[k] # "succeeded"
    BY DEF GoOn, AsThePagesHaveIt
  <1>2. intent' = intent \/ FundStripe(c)
    BY DEF GoOn, Continue, FundCheck, FundInsert, FundMark, SubmitWrite, TransferCheck, TransferStripe, TransferCommit,
       ResolveClose, CloseDispute, DisputeInsert, DisputeMark, RefundPick, RefundStripe, RefundMark, RefundClose,
       ReadSucceeded, MarkSucceeded, MarkFunded, ReadFailed, MarkFailed, ReadRefunded, MarkRefunded, SetPayment,
       ReadTransferCreated, ConfirmPayout, FindMilestone, Backfill, ReadTransferReversed, FailPayout, Reopen, HookClose,
       stripe
  <1>3. ASSUME FundStripe(c), NEW k \in FundKeys, intent'[k] # intent[k]
        PROVE  intent[k] = "none" /\ intent'[k] = "processing"
    <2>1. k = call[c].key /\ intent[k] = "none"
      BY <1>3 DEF FundStripe, TypeOK
    <2>2. PICK s \in {"processing", "succeeded"} : intent' = [intent EXCEPT ![k] = s] /\ reply' = [reply EXCEPT ![k] = s]
      BY <1>3, <2>1 DEF FundStripe
    <2>3. intent'[k] = s /\ reply'[k] = s
      BY <2>2 DEF TypeOK
    <2>4. QED
      BY <1>1, <2>1, <2>3
  <1>4. QED
    BY <1>1, <1>2, <1>3

\* How an intent goes on: only what is confirmed already is charged.
LEMMA IntentsGoOn ==
  ASSUME TypeOK, PageTypeOK, Carried, FormsAndCharges, mix.pages # {}, PagesNext
  PROVE  \A k \in FundKeys :
           /\ reply'[k] # "succeeded"
           /\ intent'[k] # intent[k] =>
                \/ intent[k] = "none" /\ intent'[k] = "processing"
                \/ intent[k] # "none" /\ intent'[k] = "failed"
                \/ intent[k] # "none" /\ intent'[k] = "succeeded" /\ k \in pressed /\ Chargeable(k)
  <1> DEFINE Goal == \A k \in FundKeys :
           /\ reply'[k] # "succeeded"
           /\ intent'[k] # intent[k] =>
                \/ intent[k] = "none" /\ intent'[k] = "processing"
                \/ intent[k] # "none" /\ intent'[k] = "failed"
                \/ intent[k] # "none" /\ intent'[k] = "succeeded" /\ k \in pressed /\ Chargeable(k)
  <1> SUFFICES Goal
    OBVIOUS
  <1>0. \A k \in FundKeys : reply[k] # "succeeded"
    BY DEF FormsAndCharges
  <1>1. CASE UNCHANGED <<intent, reply>>
    BY <1>0, <1>1
  <1>2. ASSUME NEW k \in FundKeys, IntentSucceeds(k), k \in pressed, Chargeable(k)  PROVE Goal
    BY <1>0, <1>2 DEF IntentSucceeds, TypeOK
  <1>3. ASSUME NEW k \in FundKeys, IntentDeclined(k)  PROVE Goal
    BY <1>0, <1>3 DEF IntentDeclined, TypeOK
  <1>4. ASSUME NEW i \in 1 .. MaxWork, IsAt(i, {"pay"}, "confirm")
        PROVE  wire[i].key \in FundKeys /\ wire[i].key \in pressed /\ Chargeable(wire[i].key)
    <2>1. wire[i].key \in pressed /\ wire[i].key \in FundKeys
      BY <1>4 DEF FormsAndCharges, FitsForm, Carried, Carries, IsAt
    <2>2. Paying(wire[i], wire[i].key)
      BY <1>4 DEF IsAt, Paying
    <2>3. QED
      BY <2>1, <2>2 DEF Chargeable
  <1> HIDE DEF Goal
  <1>5. CASE PanelStep \/ DeskStep
    BY <1>1, <1>5 DEF PanelStep, DeskStep, HandleSubmitDelivery, HandleRelease, HandleDispute, Handle, Done,
       Answer, TakeList, CheckStatus, ReloadSettings, Onboard, CreateReview, ReadDeveloper,
       CreateAccount, SaveAccount, Retrieve, TakeStatus, InsertReview, vars, stripe
  <1>6. CASE FormStep
    <2>1. CASE OpenModal \/ CloseModal \/ HandlePay
      BY <1>1, <2>1 DEF OpenModal, CloseModal, HandlePay, vars, stripe
    <2>2. ASSUME NEW i \in 1 .. MaxWork, Confirm(i) \/ Declined(i) \/ Redirected(i)  PROVE Goal
      <3>1. IsAt(i, {"pay"}, "confirm")
        BY <2>2 DEF Confirm, Declined, Redirected
      <3>2. IntentSucceeds(wire[i].key) \/ IntentDeclined(wire[i].key) \/ UNCHANGED vars
        BY <2>2 DEF Confirm, Declined, Redirected
      <3>3. QED
        BY <1>1, <1>2, <1>3, <1>4, <3>1, <3>2 DEF vars, stripe
    <2>3. ASSUME NEW i \in 1 .. MaxWork, TakeSecret(i) \/ Poll(i)  PROVE Goal
      BY <1>1, <2>3 DEF TakeSecret, Poll, vars, stripe
    <2>4. QED
      BY <1>6, <2>1, <2>2, <2>3 DEF FormStep
  <1>7. CASE ServerStep
    <2>1. ASSUME NEW i \in 1 .. MaxWork, Refuse(i) \/ Lose(i) \/ Catch(i) \/ \E c \in Calls : Accept(i, c)  PROVE Goal
      BY <1>1, <2>1 DEF Refuse, Lose, Catch, Accept, Fund, Submit, Release, RaiseDispute, vars, stripe
    <2>2. ASSUME NEW c \in Calls, GoOn(c)  PROVE Goal
      BY <1>0, <2>2, GoOnCreatesIntent DEF Goal
    <2>3. ASSUME NEW c \in Calls, Resolve(c) \/ \E e \in Event : Hook(c, e)  PROVE Goal
      BY <1>1, <2>3 DEF Resolve, ResolveRelease, ResolveRefund, Hook, HandleStripeWebhook, stripe
    <2>4. CASE StripeSettles
      <3>1. ASSUME NEW k \in pressed, intent[k] = "processing", IntentSucceeds(k) \/ IntentDeclined(k)  PROVE Goal
        <4>1. k \in FundKeys /\ Chargeable(k)
          BY <3>1 DEF PageTypeOK, Chargeable
        <4>2. QED
          BY <1>2, <1>3, <3>1, <4>1
      <3>2. ASSUME NEW k \in TransferKeys, TransferReverses(k)  PROVE Goal
        BY <1>1, <3>2 DEF TransferReverses
      <3>3. QED
        BY <2>4, <3>1, <3>2 DEF StripeSettles
    <2>5. QED
      BY <1>7, <2>1, <2>2, <2>3, <2>4 DEF ServerStep, Direct
  <1>8. QED
    BY <1>5, <1>6, <1>7, EveryStep DEF Goal

LEMMA PressedKept == PagesNext => pressed' = pressed \/ (HandlePay /\ pressed' = pressed \cup {modal.key})
  BY DEF PagesNext, Works, HandleSubmitDelivery, HandleRelease, HandleDispute, Handle, OpenModal, CloseModal, HandlePay,
     CheckStatus, ReloadSettings, Onboard, CreateReview, Done, Answer, TakeList, TakeSecret, Confirm, Declined, Redirected,
     Poll, ReadDeveloper, CreateAccount, SaveAccount, Retrieve, TakeStatus, InsertReview, Refuse, Lose, Catch, Accept,
     GoOn, Resolve, Hook, StripeSettles, Direct, pageVars, history

\* How the form goes on.
LEMMA ModalKept ==
  ASSUME PageTypeOK, PagesNext
  PROVE  \/ modal'.at = modal.at /\ modal'.key = modal.key
         \/ modal'.at = "shut" /\ modal'.key = NoId
         \/ /\ OpenModal /\ modal'.at = "loading" /\ modal'.key \in FundKeys
            /\ ~Drawn(modal'.key) /\ intent[modal'.key] = "none" /\ pressed' = pressed
         \/ /\ modal'.key = modal.key /\ pressed' = pressed
            /\ \E i \in 1 .. MaxWork :
                 /\ wire[i].key = modal.key /\ wire'[i] = Free
                 /\ \/ wire[i].kind = "fund" /\ wire[i].step = "done" /\ modal'.at = "form"
                    \/ wire[i].kind = "fund" /\ modal'.at = "error"
                    \/ wire[i].kind = "pay" /\ modal'.at = "form"
  <1>0. \A at, k : Modal(at, k).at = at /\ Modal(at, k).key = k
    BY DEF Modal
  <1>1. CASE UNCHANGED modal
    BY <1>1
  <1>2. UNCHANGED modal \/ OpenModal \/ CloseModal \/ HandlePay
        \/ \E i \in 1 .. MaxWork : TakeSecret(i) \/ Declined(i) \/ Redirected(i) \/ Poll(i) \/ Catch(i)
    BY DEF PagesNext, Works, HandleSubmitDelivery, HandleRelease, HandleDispute, Handle,
       CheckStatus, ReloadSettings, Onboard, CreateReview, Done, Answer, TakeList, Confirm,
       ReadDeveloper, CreateAccount, SaveAccount, Retrieve, TakeStatus, InsertReview, Refuse, Lose, Accept,
       GoOn, Resolve, Hook, StripeSettles, Direct, pageVars
  <1>3. CASE OpenModal
    BY <1>0, <1>3 DEF OpenModal, history
  <1>4. CASE CloseModal
    BY <1>0, <1>4 DEF CloseModal, Shut
  <1>5. CASE HandlePay
    BY <1>5 DEF HandlePay, PageTypeOK
  <1>6. ASSUME NEW i \in 1 .. MaxWork, TakeSecret(i)
        PROVE  \/ UNCHANGED modal
               \/ /\ modal'.key = modal.key /\ modal'.at = "form" /\ wire[i].key = modal.key /\ pressed' = pressed
                  /\ wire'[i] = Free /\ wire[i].kind = "fund" /\ wire[i].step = "done"
    BY <1>0, <1>6, BecomeEffect DEF TakeSecret, IsAt, history
  <1>7. ASSUME NEW i \in 1 .. MaxWork, Declined(i)  PROVE modal'.at = modal.at /\ modal'.key = modal.key
    BY <1>7 DEF Declined, EndPaying, PageTypeOK
  <1>8. ASSUME NEW i \in 1 .. MaxWork, Redirected(i) \/ Poll(i)
        PROVE  UNCHANGED modal \/ (modal'.at = "shut" /\ modal'.key = NoId)
    BY <1>0, <1>8 DEF Redirected, Poll, Shut
  <1>9. ASSUME NEW i \in 1 .. MaxWork, Catch(i)
        PROVE  \/ UNCHANGED modal
               \/ /\ modal'.key = modal.key /\ wire[i].key = modal.key /\ wire'[i] = Free /\ pressed' = pressed
                  /\ \/ wire[i].kind = "fund" /\ modal'.at = "error"
                     \/ wire[i].kind = "pay" /\ modal'.at = "form"
    <2>1. wire'[i] = Free /\ pressed' = pressed
      BY <1>9, BecomeEffect DEF Catch, history
    <2>2. CASE wire[i].kind = "fund" /\ modal.key = wire[i].key
      <3>1. modal' = Modal("error", wire[i].key)
        BY <1>9, <2>2 DEF Catch
      <3>2. QED
        BY <1>0, <2>1, <2>2, <3>1
    <2>3. CASE wire[i].kind = "pay" /\ modal.key = wire[i].key
      <3>1. modal' = Modal("form", wire[i].key)
        BY <1>9, <2>3 DEF Catch
      <3>2. QED
        BY <1>0, <2>1, <2>3, <3>1
    <2>4. QED
      BY <1>9, <2>2, <2>3 DEF Catch
  <1>10. QED
    BY <1>1, <1>2, <1>3, <1>4, <1>5, <1>6, <1>7, <1>8, <1>9

\* The intent of a handler whose call has ended well exists.
LEMMA AnsweredHasIntent ==
  ASSUME IInv, PageTypeOK, Carried, ServesItsCall, NEW j \in 1 .. MaxWork, wire[j].kind = "fund",
         NEW c \in Calls, Continue(c), call'[c] = Idle, serves[c] = j, ~At(c, "fund_insert")
  PROVE  intent[wire[j].key] # "none"
  <1>1. call[c].step \in FundSteps /\ call[c].key = wire[j].key /\ wire[j].key \in FundKeys
    BY FundingAssumption DEF ServesItsCall, Carried, Carries
  <1>2. FundCheck(c) \/ FundStripe(c) \/ FundInsert(c) \/ FundMark(c)
    BY <1>1, OnlyFundSteps
  <1>3. TypeOK /\ RequestFacts(c) /\ RowsBackedByStripe
    BY DEF IInv, CallsRelyOnFacts
  <1>4. CASE FundCheck(c)
    <2>1. payment[call[c].key] # "none"
      <3>1. ~Goto(c, "fund_stripe")
        BY <1>3, GotoEffect DEF TypeOK, Idle, Steps, RequestSteps
      <3>2. QED
        BY <1>4, <3>1 DEF FundCheck
    <2>2. QED
      BY <1>1, <1>3, <2>1 DEF RowsBackedByStripe
  <1>5. CASE FundStripe(c)
    <2>1. ~Goto(c, "fund_insert")
      BY <1>3, GotoEffect DEF TypeOK, Idle, Steps, RequestSteps
    <2>2. QED
      BY <1>5, <2>1 DEF FundStripe
  <1>6. CASE FundInsert(c)
    BY <1>6 DEF FundInsert
  <1>7. CASE FundMark(c)
    BY <1>1, <1>3, <1>7 DEF FundMark, At, RequestFacts
  <1>8. QED
    BY <1>2, <1>4, <1>5, <1>6, <1>7

LEMMA FormsStayFit ==
  ASSUME IInv, PageTypeOK, Carried, ServesItsCall, FormsAndCharges, mix.pages # {}, PagesNext,
         NEW j \in 1 .. MaxWork
  PROVE  FitsForm(wire[j])'
  <1>0. /\ FitsForm(wire[j]) /\ NoId \notin FundKeys /\ TypeOK
        /\ \A k \in FundKeys : intent[k] # "none" => intent'[k] # "none"
    BY IntentsGoOn, NoIdAssumption DEF FormsAndCharges, IInv, Keys
  <1>1. CASE wire'[j].kind \notin {"fund", "pay"}
    BY <1>1 DEF FitsForm
  <1>2. CASE OpenModal /\ wire'[j].kind = "fund" /\ wire'[j].step = "out" /\ wire'[j].key = modal'.key
    <2>1. modal'.at = "loading" /\ modal'.key \in FundKeys /\ intent[modal'.key] = "none" /\ pressed' = pressed
      BY <1>2 DEF OpenModal, Modal, history
    <2>2. modal'.key \notin pressed
      BY <2>1 DEF FormsAndCharges
    <2>3. QED
      BY <1>2, <2>1, <2>2 DEF FitsForm
  <1>3. CASE HandlePay /\ wire'[j].kind = "pay" /\ wire'[j].step = "confirm" /\ wire'[j].key = modal.key
    <2>1. modal'.at = "form" /\ modal'.key = modal.key /\ modal.key \in pressed'
      BY <1>3 DEF HandlePay, PageTypeOK
    <2>2. QED
      BY <1>3, <2>1 DEF FitsForm
  <1>4. CASE SameWork(wire'[j], wire[j]) /\ wire[j].kind = "pay"
    <2>1. wire[j].key \in pressed /\ (modal.key = wire[j].key => modal.at = "form") /\ wire[j].key \in FundKeys
      BY <1>0, <1>4 DEF FitsForm, Carried, Carries
    <2>2. wire[j].key \in pressed'
      BY <2>1, PressedKept
    <2>3. \A i \in 1 .. MaxWork : wire[i].kind = "fund" => wire[i].key \notin pressed
      BY DEF FormsAndCharges, FitsForm
    <2>4. modal'.key = wire[j].key => modal'.at = "form"
      BY <1>0, <2>1, <2>3, ModalKept DEF Drawn
    <2>5. QED
      BY <1>4, <2>2, <2>4 DEF FitsForm, SameWork
  <1>5. ASSUME SameWork(wire'[j], wire[j]), wire[j].kind = "fund"  PROVE FitsForm(wire[j])'
    <2>1. wire[j].key \notin pressed /\ (modal.key = wire[j].key => modal.at = "loading") /\ wire[j].key \in FundKeys
      BY <1>0, <1>5 DEF FitsForm, Carried, Carries
    <2>2. wire[j].key \notin pressed'
      BY <2>1, PressedKept DEF HandlePay
    <2>3. wire'[j] # Free
      BY <1>5 DEF SameWork, Free
    <2>4. \A i \in 1 .. MaxWork : /\ wire[i].kind = "fund" /\ wire[i].key = wire[j].key => i = j
                                  /\ wire[i].kind = "pay" => wire[i].key \in pressed
      BY <1>5 DEF FormsAndCharges, FitsForm
    <2>5. modal'.key = wire[j].key => modal'.at = "loading"
      <3>1. CASE modal'.at = modal.at /\ modal'.key = modal.key
        BY <2>1, <3>1
      <3>2. CASE modal'.at = "shut" /\ modal'.key = NoId
        BY <1>0, <2>1, <3>2
      <3>3. CASE modal'.at = "loading"
        BY <3>3
      <3>4. ASSUME modal'.key = modal.key, NEW i \in 1 .. MaxWork, wire[i].key = modal.key, wire'[i] = Free,
                   wire[i].kind \in {"fund", "pay"}
            PROVE  modal'.key # wire[j].key
        <4>1. CASE wire[i].kind = "fund"
          BY <2>3, <2>4, <3>4, <4>1
        <4>2. CASE wire[i].kind = "pay"
          BY <2>1, <2>4, <3>4, <4>2
        <4>3. QED
          BY <3>4, <4>1, <4>2
      <3>5. QED
        BY <3>1, <3>2, <3>3, <3>4, ModalKept
    <2>6. wire'[j].step = "done" => intent'[wire[j].key] # "none"
      <3>1. CASE wire[j].step = "done"
        BY <1>0, <1>5, <2>1, <3>1 DEF FitsForm
      <3>2. ASSUME NEW c \in Calls, GoOn(c), call'[c] = Idle, serves[c] = j, ~At(c, "fund_insert")
            PROVE  intent'[wire[j].key] # "none"
        BY <1>0, <1>5, <2>1, <3>2, AnsweredHasIntent DEF GoOn
      <3>3. wire'[j].kind = "fund"
        BY <1>5 DEF SameWork
      <3>4. QED
        BY <3>1, <3>2, <3>3, MoneyWorkKept
    <2>7. QED
      BY <1>5, <2>2, <2>5, <2>6 DEF FitsForm, SameWork
  <1>6. QED
    BY <1>1, <1>2, <1>3, <1>4, <1>5, MoneyWorkKept DEF SameWork

LEMMA FormsStay ==
  ASSUME IInv, PageTypeOK, Carried, ServesItsCall, FormsAndCharges, mix.pages # {}, PagesNext
  PROVE  FormsAndCharges'
  <1>0. /\ TypeOK
        /\ \A k \in FundKeys : intent[k] # "none" => intent'[k] # "none"
        /\ modal.key \in FundKeys \cup {NoId} /\ (modal.at # "shut" => modal.key \in FundKeys)
        /\ pressed \subseteq FundKeys
    BY IntentsGoOn DEF IInv, PageTypeOK, Carried
  <1>1. \A k \in FundKeys : reply'[k] # "succeeded" /\ (intent'[k] = "succeeded" => k \in pressed')
    BY <1>0, IntentsGoOn, PressedKept DEF FormsAndCharges
  <1>2. \A k \in pressed' : intent'[k] # "none"
    BY <1>0, PressedKept DEF FormsAndCharges, HandlePay
  <1>3. modal'.at = "form" => intent'[modal'.key] # "none"
    <2>1. CASE modal'.at = modal.at /\ modal'.key = modal.key
      BY <1>0, <2>1 DEF FormsAndCharges
    <2>2. ASSUME modal'.key = modal.key, NEW i \in 1 .. MaxWork, wire[i].key = modal.key,
                 \/ wire[i].kind = "fund" /\ wire[i].step = "done"
                 \/ wire[i].kind = "pay"
          PROVE  intent'[modal'.key] # "none"
      <3>1. wire[i].key \in FundKeys /\ FitsForm(wire[i])
        BY <2>2 DEF Carried, Carries, FormsAndCharges
      <3>2. intent[modal.key] # "none"
        BY <2>2, <3>1 DEF FitsForm, FormsAndCharges
      <3>3. QED
        BY <1>0, <2>2, <3>1, <3>2
    <2>3. QED
      BY <2>1, <2>2, ModalKept
  <1>4. \A j \in 1 .. MaxWork : FitsForm(wire[j])'
    BY FormsStayFit
  <1>5. ASSUME NEW i \in 1 .. MaxWork, NEW j \in 1 .. MaxWork, wire'[i].kind = "fund", wire'[j].kind = "fund", wire'[i].key = wire'[j].key
        PROVE  i = j
    <2>1. CASE OpenModal
      <3>1. PICK k \in FundKeys, h \in 1 .. MaxWork : ~Drawn(k) /\ Become(h, Start("fund", "client", "out", k))
        BY <2>1 DEF OpenModal
      <3>2. Start("fund", "client", "out", k).key = k
        BY DEF Start
      <3>3. wire'[h].key = k /\ \A g \in 1 .. MaxWork : g # h => wire'[g] = wire[g] /\ wire'[g].key # k
        BY <3>1, <3>2, BecomeEffect DEF Drawn
      <3>4. QED
        BY <1>5, <3>3 DEF FormsAndCharges
    <2>2. CASE ~OpenModal
      <3>1. SameWork(wire'[i], wire[i]) /\ SameWork(wire'[j], wire[j])
        BY <1>5, <2>2, MoneyWorkKept
      <3>2. QED
        BY <1>5, <3>1 DEF SameWork, FormsAndCharges
    <2>3. QED
      BY <2>1, <2>2
  <1>6. QED
    BY <1>1, <1>2, <1>3, <1>4, <1>5 DEF FormsAndCharges

\* A handler that is to mark the milestone funded is still there, or has.
LEMMA FundingGoesOn ==
  ASSUME TypeOK, mix.pages # {}, PagesNext, NEW c \in Calls, At(c, "mark_funded")
  PROVE  At(c, "mark_funded")' \/ status' # "PENDING"
  <1>0. Idle.step = "idle" /\ call[c] # Idle
    BY DEF At, Idle
  <1>1. CASE PanelStep \/ FormStep \/ DeskStep
    <2>1. PanelStep \/ DeskStep => call' = call
      BY DEF PanelStep, DeskStep, HandleSubmitDelivery, HandleRelease, HandleDispute, Handle, Done, Answer, TakeList,
         CheckStatus, ReloadSettings, Onboard, CreateReview, ReadDeveloper, CreateAccount, SaveAccount, Retrieve,
         TakeStatus, InsertReview, vars
    <2>2. FormStep => call' = call
      BY DEF FormStep, OpenModal, CloseModal, HandlePay, TakeSecret, Confirm, Declined, Redirected, Poll, vars,
         IntentSucceeds, IntentDeclined
    <2>3. QED
      BY <1>1, <2>1, <2>2 DEF At
  <1>2. ASSUME NEW i \in 1 .. MaxWork, Refuse(i) \/ Lose(i) \/ Catch(i)  PROVE call' = call
    BY <1>2 DEF Refuse, Lose, Catch, vars
  <1>3. StripeSettles => call' = call
    BY DEF StripeSettles, IntentSucceeds, IntentDeclined, TransferReverses
  <1>4. ASSUME NEW d \in Calls, \E s \in RequestSteps \cup HookSteps : \E op, k, row : Begin(d, s, op, k, row)
        PROVE  call'[c] = call[c]
    <2>1. "idle" \notin RequestSteps \cup HookSteps
      BY DEF RequestSteps, HookSteps
    <2>2. call[d] = Idle /\ \A other \in Calls \ {d} : call'[other] = call[other]
      BY <1>4, <2>1, BegunEffect
    <2>3. QED
      BY <1>0, <2>2
  <1>5. ASSUME NEW d \in Calls, Resolve(d) \/ (\E e \in Event : Hook(d, e)) \/ \E i \in 1 .. MaxWork : Accept(i, d)
        PROVE  call'[c] = call[c]
    BY <1>4, <1>5 DEF Resolve, ResolveRelease, ResolveRefund, Hook, HandleStripeWebhook, Accept, Fund, Submit, Release,
       RaiseDispute, RequestSteps, HookSteps
  <1>6. ASSUME NEW d \in Calls, GoOn(d)  PROVE call'[c] = call[c] \/ status' # "PENDING"
    <2>1. CASE d = c
      <3>1. MarkFunded(c)
        BY <1>6, <2>1 DEF GoOn, Continue, At, FundCheck, FundStripe, FundInsert, FundMark, SubmitWrite, TransferCheck,
           TransferStripe, TransferCommit, ResolveClose, RefundClose, CloseDispute, DisputeInsert, DisputeMark, RefundPick,
           RefundStripe, RefundMark, ReadSucceeded, MarkSucceeded, ReadFailed, MarkFailed, ReadRefunded, MarkRefunded,
           ReadTransferCreated, ConfirmPayout, FindMilestone, Backfill, ReadTransferReversed, FailPayout, Reopen, HookClose
      <3>2. QED
        BY <3>1 DEF MarkFunded
    <2>2. CASE d # c
      BY <1>6, <2>2, ContinueEffect DEF GoOn
    <2>3. QED
      BY <2>1, <2>2
  <1>7. QED
    BY <1>1, <1>2, <1>3, <1>5, <1>6, EveryStep DEF ServerStep, Direct, At

LEMMA PaidStaysFunded ==
  ASSUME SInv, calm, calm', PaidIsFunded, \A k \in FundKeys : reply[k] # "succeeded", [Next]_vars,
         mix.pages # {}, PagesNext
  PROVE  PaidIsFunded'
  <1>0. TypeOK /\ call \in [Calls -> Call] /\ Idle.step = "idle" /\ ChecksHold
    BY DEF SInv, IInv, TypeOK, Idle
  <1> SUFFICES ASSUME NEW k \in FundKeys, payment'[k] = "SUCCEEDED", status' = "PENDING"
               PROVE  \E c \in Calls : At(c, "mark_funded")'
    BY DEF PaidIsFunded, At
  <1>1. status = "PENDING"
    BY StepFollowsLifecycle DEF Transitions, DocumentedTransitions
  <1>2. CASE payment'[k] # payment[k]
    <2>1. PICK c \in Calls : FundInsert(c) \/ MarkSucceeded(c) \/ MarkFailed(c) \/ MarkRefunded(c)
      BY <1>2, PaymentWriters
    <2>2. RequestFacts(c) /\ HookHolds(c)
      BY <1>0 DEF SInv, IInv, CallsRelyOnFacts, ChecksHold
    <2>3. ~FundInsert(c)
      BY <1>0, <1>2, <2>2 DEF FundInsert, At, RequestFacts, FundSteps, TypeOK
    <2>4. ~MarkFailed(c) /\ ~MarkRefunded(c)
      BY <1>0, <1>2 DEF MarkFailed, MarkRefunded, SetPayment, TypeOK
    <2>5. MarkSucceeded(c) /\ call[c].seen = "PENDING"
      BY <1>1, <2>1, <2>2, <2>3, <2>4 DEF MarkSucceeded, At, HookHolds
    <2>6. Goto(c, "mark_funded")
      BY <2>5 DEF MarkSucceeded
    <2>7. QED
      BY <1>0, <2>6, GotoEffect DEF At, Steps, HookSteps
  <1>3. CASE payment'[k] = payment[k]
    <2>1. PICK c \in Calls : At(c, "mark_funded")
      BY <1>1, <1>3 DEF PaidIsFunded
    <2>2. QED
      BY <1>0, <2>1, FundingGoesOn
  <1>4. QED
    BY <1>2, <1>3

\* An intent is created by the call of fund that asks for it.
LEMMA IntentCreated ==
  ASSUME IInv, PageTypeOK, Carried, FormsAndCharges, mix.pages # {}, PagesNext,
         NEW k \in FundKeys, intent[k] = "none", intent'[k] # "none"
  PROVE  \E c \in Calls : GoOn(c) /\ FundStripe(c) /\ call[c].key = k
  <1>0. TypeOK
    BY DEF IInv
  <1>1. ASSUME NEW j \in FundKeys, IntentSucceeds(j) \/ IntentDeclined(j)  PROVE intent'[k] = intent[k]
    BY <1>0, <1>1 DEF IntentSucceeds, IntentDeclined, TypeOK
  <1>2. ~(PanelStep \/ DeskStep)
    BY DEF PanelStep, DeskStep, HandleSubmitDelivery, HandleRelease, HandleDispute, Handle, Done,
       Answer, TakeList, CheckStatus, ReloadSettings, Onboard, CreateReview, ReadDeveloper,
       CreateAccount, SaveAccount, Retrieve, TakeStatus, InsertReview, vars, stripe
  <1>3. ~FormStep
    <2>1. ~(OpenModal \/ CloseModal \/ HandlePay \/ \E i \in 1 .. MaxWork : TakeSecret(i) \/ Poll(i))
      BY DEF OpenModal, CloseModal, HandlePay, TakeSecret, Poll, vars, stripe
    <2>2. ASSUME NEW i \in 1 .. MaxWork, Confirm(i) \/ Declined(i) \/ Redirected(i)  PROVE FALSE
      <3>1. wire[i].key \in FundKeys
        BY <2>2 DEF Confirm, Declined, Redirected, IsAt, Carried, Carries
      <3>2. IntentSucceeds(wire[i].key) \/ IntentDeclined(wire[i].key) \/ UNCHANGED vars
        BY <2>2 DEF Confirm, Declined, Redirected
      <3>3. QED
        BY <1>1, <3>1, <3>2 DEF vars, stripe
    <2>3. QED
      BY <2>1, <2>2 DEF FormStep
  <1>4. \A i \in 1 .. MaxWork : ~(Refuse(i) \/ Lose(i) \/ Catch(i) \/ \E c \in Calls : Accept(i, c))
    BY DEF Refuse, Lose, Catch, Accept, Fund, Submit, Release, RaiseDispute, vars, stripe
  <1>5. \A c \in Calls : ~(Resolve(c) \/ \E e \in Event : Hook(c, e))
    BY DEF Resolve, ResolveRelease, ResolveRefund, Hook, HandleStripeWebhook, stripe
  <1>6. ~StripeSettles
    BY <1>1 DEF StripeSettles, TransferReverses, PageTypeOK
  <1>7. PICK c \in Calls : GoOn(c)
    BY <1>2, <1>3, <1>4, <1>5, <1>6, EveryStep DEF ServerStep, Direct
  <1>8. intent' = intent \/ FundStripe(c)
    BY <1>7 DEF GoOn, Continue, FundCheck, FundInsert, FundMark, SubmitWrite, TransferCheck, TransferStripe, TransferCommit,
       ResolveClose, CloseDispute, DisputeInsert, DisputeMark, RefundPick, RefundStripe, RefundMark, RefundClose,
       ReadSucceeded, MarkSucceeded, MarkFunded, ReadFailed, MarkFailed, ReadRefunded, MarkRefunded, SetPayment,
       ReadTransferCreated, ConfirmPayout, FindMilestone, Backfill, ReadTransferReversed, FailPayout, Reopen, HookClose,
       stripe
  <1>9. FundStripe(c) /\ call[c].key = k
    BY <1>0, <1>8 DEF FundStripe, TypeOK
  <1>10. QED
    BY <1>7, <1>9

\* A call of fund goes on, or is begun for a handler.
LEMMA FundCallsBegin ==
  ASSUME TypeOK, PageTypeOK, mix.pages # {}, PagesNext, NEW c \in Calls, call'[c].step \in FundSteps
  PROVE  \/ call[c].step \in FundSteps /\ call'[c].key = call[c].key
         \/ \E i \in 1 .. MaxWork : /\ Accept(i, c) /\ wire[i].kind = "fund" /\ wire[i].step = "out"
                                    /\ wire'[i].step = "in" /\ call'[c].key = wire[i].key
  <1> USE DEF FundSteps
  <1>0. Idle.step = "idle"
    BY DEF Idle
  <1>1. CASE call'[c] = call[c]
    BY <1>1
  <1>2. ASSUME NEW d \in Calls, Resolve(d) \/ \E e \in Event : Hook(d, e)  PROVE call'[c] = call[c]
    <2>1. PICK s, op, k, row : s \in {"transfer_check", "refund_pick", "hook_read", "hook_close"} /\ Begin(d, s, op, k, row)
      BY <1>2 DEF Resolve, ResolveRelease, ResolveRefund, Hook, HandleStripeWebhook
    <2>2. call'[d].step = s /\ \A other \in Calls \ {d} : call'[other] = call[other]
      BY <2>1, BegunEffect
    <2>3. QED
      BY <2>1, <2>2
  <1>3. ASSUME NEW d \in Calls, NEW i \in 1 .. MaxWork, Accept(i, d)
        PROVE  \/ call'[c] = call[c]
               \/ /\ c = d /\ wire[i].kind = "fund" /\ wire[i].step = "out"
                  /\ wire'[i].step = "in" /\ call'[c].key = wire[i].key
    <2>1. wire[i].step = "out"
      BY <1>3 DEF Accept
    <2>2. CASE wire[i].kind = "fund"
      <3>1. call'[d].key = wire[i].key /\ \A other \in Calls \ {d} : call'[other] = call[other]
        BY <1>3, <2>2, BegunEffect DEF Accept, Fund
      <3>2. wire'[i].step = "in"
        BY <1>3, WorkFields, BecomeEffect DEF Accept, ToStep, Work
      <3>3. QED
        BY <2>1, <2>2, <3>1, <3>2
    <2>3. CASE wire[i].kind # "fund"
      <3>1. PICK s, op, k, row : s \in {"submit_write", "transfer_check", "dispute_insert"} /\ Begin(d, s, op, k, row)
        BY <1>3, <2>3 DEF Accept, Submit, Release, RaiseDispute
      <3>2. call'[d].step = s /\ \A other \in Calls \ {d} : call'[other] = call[other]
        BY <3>1, BegunEffect
      <3>3. QED
        BY <3>1, <3>2
    <2>4. QED
      BY <2>2, <2>3
  <1>4. ASSUME NEW d \in Calls, GoOn(d)
        PROVE  call'[c] = call[c] \/ (call[c].step \in FundSteps /\ call'[c].key = call[c].key)
    <2>1. CASE d # c
      BY <1>4, <2>1, ContinueEffect DEF GoOn
    <2>2. CASE d = c
      <3>1. call'[c] # Idle
        BY <1>0
      <3>2. call[c].step \in FundSteps
        BY <1>4, <2>2, FundGoesOnOnly DEF GoOn
      <3>3. QED
        BY <1>4, <2>2, <3>1, <3>2, ContinueEffect DEF GoOn
    <2>3. QED
      BY <2>1, <2>2
  <1>5. CASE PanelStep \/ FormStep \/ DeskStep \/ StripeSettles \/ \E i \in 1 .. MaxWork : Refuse(i) \/ Lose(i) \/ Catch(i)
    <2>1. PanelStep \/ DeskStep => call' = call
      BY DEF PanelStep, DeskStep, HandleSubmitDelivery, HandleRelease, HandleDispute, Handle, Done, Answer, TakeList,
         CheckStatus, ReloadSettings, Onboard, CreateReview, ReadDeveloper, CreateAccount, SaveAccount, Retrieve,
         TakeStatus, InsertReview, vars
    <2>2. FormStep => call' = call
      BY DEF FormStep, OpenModal, CloseModal, HandlePay, TakeSecret, Confirm, Declined, Redirected, Poll, vars,
         IntentSucceeds, IntentDeclined
    <2>3. StripeSettles \/ (\E i \in 1 .. MaxWork : Refuse(i) \/ Lose(i) \/ Catch(i)) => call' = call
      BY DEF StripeSettles, IntentSucceeds, IntentDeclined, TransferReverses, Refuse, Lose, Catch, vars
    <2>4. QED
      BY <1>5, <2>1, <2>2, <2>3
  <1>6. QED
    BY <1>1, <1>2, <1>3, <1>4, <1>5, EveryStep DEF ServerStep, Direct

LEMMA FundsStayAnew ==
  ASSUME IInv, PageTypeOK, Carried, FormsAndCharges, FundsAnew, mix.pages # {}, PagesNext
  PROVE  FundsAnew'
  <1> SUFFICES ASSUME NEW i \in 1 .. MaxWork, wire'[i].kind = "fund", wire'[i].step = "out"
               PROVE  /\ intent'[wire'[i].key] = "none"
                      /\ \A c \in Calls : call'[c].step \in FundSteps => call'[c].key # wire'[i].key
    BY DEF FundsAnew
  <1>0. TypeOK
    BY DEF IInv
  <1>1. CASE OpenModal
    <2>1. PICK k \in FundKeys, j \in 1 .. MaxWork :
             ~Drawn(k) /\ intent[k] = "none" /\ Lowest(j) /\ Become(j, Start("fund", "client", "out", k))
      BY <1>1 DEF OpenModal
    <2>2. UNCHANGED <<intent, call>>
      BY <1>1 DEF OpenModal, vars, stripe
    <2>3. CASE i = j
      <3>1. wire'[i].key = k
        BY <2>1, <2>3, BecomeEffect DEF Start
      <3>2. QED
        BY <2>1, <2>2, <3>1 DEF Drawn
    <2>4. CASE i # j
      BY <2>1, <2>2, <2>4, BecomeEffect DEF FundsAnew
    <2>5. QED
      BY <2>3, <2>4
  <1>2. CASE ~OpenModal
    <2>1. SameWork(wire'[i], wire[i]) /\ wire[i].step = "out"
      BY <1>2, MoneyWorkKept
    <2>2. wire[i].kind = "fund" /\ wire'[i].key = wire[i].key /\ wire[i].key \in FundKeys
      BY <2>1 DEF SameWork, Carried, Carries
    <2>3. /\ intent[wire[i].key] = "none"
          /\ \A c \in Calls : call[c].step \in FundSteps => call[c].key # wire[i].key
      BY <2>1, <2>2 DEF FundsAnew
    <2>4. intent'[wire[i].key] = "none"
      <3>1. \A c \in Calls : FundStripe(c) => call[c].step \in FundSteps
        BY DEF FundStripe, At, FundSteps
      <3>2. QED
        BY <2>2, <2>3, <3>1, IntentCreated
    <2>5. ASSUME NEW c \in Calls, call'[c].step \in FundSteps  PROVE call'[c].key # wire[i].key
      <3>1. CASE call[c].step \in FundSteps /\ call'[c].key = call[c].key
        BY <2>3, <3>1
      <3>2. ASSUME NEW j \in 1 .. MaxWork, wire[j].kind = "fund", wire'[j].step = "in", call'[c].key = wire[j].key
            PROVE  call'[c].key # wire[i].key
        <4>1. j # i
          BY <3>2
        <4>2. QED
          BY <2>2, <3>2, <4>1 DEF FormsAndCharges
      <3>3. QED
        BY <1>0, <2>5, <3>1, <3>2, FundCallsBegin
    <2>6. QED
      BY <2>2, <2>4, <2>5
  <1>3. QED
    BY <1>1, <1>2

\* A fund call is accepted where no other payment is outstanding: then no
\* other can be charged, but one that is recorded as paid and has its event
\* handled right now.
LEMMA AcceptedAlone ==
  ASSUME PageTypeOK, Carried, FormsAndCharges, PaidIsFunded, NEW i \in 1 .. MaxWork, NEW c \in Calls, Accept(i, c),
         wire[i].kind = "fund", "early" \notin marks', NEW j \in FundKeys, j # wire[i].key, modal.key = wire[i].key,
         Chargeable(j)
  PROVE  \E d \in Calls : At(d, "mark_funded")
  <1>1. status = "PENDING"
    BY DEF Accept, Fund, Begin
  <1>2. ~Outstanding(j)
    BY <1>1 DEF Accept
  <1>3. CASE payment[j] = "SUCCEEDED"
    BY <1>1, <1>3 DEF PaidIsFunded
  <1>4. CASE payment[j] # "SUCCEEDED"
    <2>1. ~(j \in pressed /\ intent[j] # "failed")
      BY <1>2, <1>4 DEF Outstanding
    <2>2. \A h \in 1 .. MaxWork : ~Paying(wire[h], j)
      BY <1>2, <1>4 DEF Outstanding, Paying, IsAt, FormsAndCharges, FitsForm
    <2>3. QED
      BY <2>1, <2>2 DEF Chargeable, FormsAndCharges
  <1>5. QED
    BY <1>3, <1>4

\* Only the call that creates an intent makes one chargeable that was not.
LEMMA ChargedSince ==
  ASSUME IInv, PageTypeOK, Carried, ServesItsCall, FormsAndCharges, FundsAnew, mix.pages # {}, PagesNext,
         NEW k \in FundKeys, Chargeable(k)'
  PROVE  \/ Chargeable(k)
         \/ /\ UNCHANGED <<modal, wire>> /\ modal.key = k /\ intent[k] = "none" /\ intent'[k] # "none"
            /\ \E i \in 1 .. MaxWork : wire[i].kind = "fund" /\ wire[i].step = "in" /\ wire[i].key = k
            /\ \E c \in Calls : GoOn(c) /\ FundStripe(c)
  <1>0. /\ TypeOK /\ pressed \subseteq FundKeys /\ NoId \notin FundKeys
        /\ \A j \in FundKeys : intent'[j] # "none" => intent[j] # "none" \/ intent'[j] = "processing"
    BY IntentsGoOn, NoIdAssumption DEF IInv, PageTypeOK, Keys
  <1>1. CASE intent'[k] = "succeeded"
    BY <1>0, <1>1, IntentsGoOn DEF Chargeable
  <1>2. CASE k \in pressed' /\ intent'[k] = "processing"
    <2>1. CASE k \in pressed
      BY <1>0, <1>2, <2>1, IntentsGoOn DEF Chargeable, FormsAndCharges
    <2>2. CASE HandlePay /\ k = modal.key
      BY <2>2 DEF HandlePay, Chargeable, FormsAndCharges
    <2>3. QED
      BY <1>2, <2>1, <2>2, PressedKept
  <1>3. ASSUME NEW j \in 1 .. MaxWork, Paying(wire'[j], k)  PROVE Chargeable(k)
    <2>1. wire'[j].kind = "pay" /\ wire'[j].step = "confirm" /\ wire'[j].key = k
      BY <1>3 DEF Paying
    <2>2. CASE SameWork(wire'[j], wire[j]) /\ wire'[j].step = wire[j].step
      BY <2>1, <2>2 DEF SameWork, Paying, Chargeable
    <2>3. CASE HandlePay /\ k = modal.key
      BY <2>3 DEF HandlePay, Chargeable, FormsAndCharges
    <2>4. QED
      BY <2>1, <2>2, <2>3, MoneyWorkKept
  <1>4. CASE modal'.key = k /\ modal'.at = "form"
    <2>1. CASE modal'.at = modal.at /\ modal'.key = modal.key
      BY <1>4, <2>1 DEF Chargeable, FormsAndCharges
    <2>2. ASSUME modal'.key = modal.key, NEW i \in 1 .. MaxWork, wire[i].key = modal.key,
                 wire[i].kind = "fund" /\ wire[i].step = "done"
          PROVE  Chargeable(k)
      BY <1>4, <2>2 DEF Chargeable, Asking, FormsAndCharges, FitsForm
    <2>3. ASSUME modal'.key = modal.key, NEW i \in 1 .. MaxWork, wire[i].key = modal.key, wire[i].kind = "pay"
          PROVE  Chargeable(k)
      BY <1>4, <2>3 DEF Chargeable, FormsAndCharges, FitsForm
    <2>4. QED
      BY <1>4, <2>1, <2>2, <2>3, ModalKept
  <1>5. ASSUME modal'.key = k, intent'[k] # "none", NEW j \in 1 .. MaxWork, Asking(wire'[j], k)
        PROVE  \/ Chargeable(k)
               \/ /\ UNCHANGED <<modal, wire>> /\ modal.key = k /\ intent[k] = "none" /\ intent'[k] # "none"
                  /\ wire[j].kind = "fund" /\ wire[j].step = "in" /\ wire[j].key = k
                  /\ \E c \in Calls : GoOn(c) /\ FundStripe(c)
    <2>1. wire'[j].kind = "fund" /\ wire'[j].step \in {"in", "done"} /\ wire'[j].key = k
      BY <1>5 DEF Asking
    <2>2. wire[j].kind = "fund" /\ wire[j].key = k
      BY <2>1, MoneyWorkKept DEF SameWork
    <2>3. modal.key = k
      <3>1. wire'[j] # Free /\ ~(OpenModal /\ ~Drawn(k))
        BY <2>1, <2>2 DEF Free, Drawn
      <3>2. QED
        BY <1>0, <1>5, <3>1, ModalKept
    <2>4. CASE intent[k] = "none"
      <3>1. PICK c \in Calls : GoOn(c) /\ FundStripe(c)
        BY <1>5, <2>4, IntentCreated
      <3>2. call'[c] # Idle
        BY <1>0, <3>1, GotoEffect DEF FundStripe, TypeOK, Idle, Steps, RequestSteps
      <3>3. UNCHANGED <<modal, wire>>
        BY <3>1, <3>2 DEF GoOn
      <3>4. wire[j].step = "in"
        BY <2>1, <2>2, <2>4, <3>3 DEF FormsAndCharges, FitsForm
      <3>5. QED
        BY <1>5, <2>2, <2>3, <2>4, <3>1, <3>3, <3>4
    <2>5. CASE intent[k] # "none"
      <3>1. CASE wire'[j].step = wire[j].step
        BY <2>1, <2>2, <2>3, <2>5, <3>1 DEF Asking, Chargeable
      <3>2. ~\E c \in Calls : Accept(j, c)
        BY <2>2, <2>5 DEF Accept, FundsAnew
      <3>3. ASSUME NEW c \in Calls, serves[c] = j  PROVE Chargeable(k)
        <4>1. wire[j].step = "in"
          BY <3>3, FundingAssumption DEF ServesItsCall
        <4>2. QED
          BY <2>2, <2>3, <2>5, <4>1 DEF Asking, Chargeable
      <3>4. QED
        BY <2>1, <3>1, <3>2, <3>3, MoneyWorkKept
    <2>6. QED
      BY <2>4, <2>5
  <1>6. QED
    BY <1>1, <1>2, <1>3, <1>4, <1>5 DEF Chargeable

\* What has funded the milestone, or is about to, has funded it in the end.
LEMMA PaymentStaysSeen ==
  ASSUME SInv, calm', [Next]_vars, mix.pages # {}, PagesNext, PaymentIsSeen
  PROVE  PaymentIsSeen'
  <1>0. TypeOK
    BY DEF SInv, IInv
  <1>1. status # "PENDING" => status' # "PENDING"
    BY StepFollowsLifecycle DEF Transitions, DocumentedTransitions
  <1>2. QED
    BY <1>0, <1>1, FundingGoesOn DEF PaymentIsSeen, At

LEMMA OneStaysChargeable ==
  ASSUME SInv, calm, calm', [Next]_vars, PageTypeOK, Carried, ServesItsCall, FormsAndCharges, FundsAnew, PaidIsFunded,
         OneIsChargeable, LateAskIsSeen, mix.pages # {}, PagesNext
  PROVE  OneIsChargeable' /\ LateAskIsSeen'
  <1>0. /\ IInv /\ TypeOK /\ NoId \notin FundKeys /\ Idle.step = "idle"
        /\ "early" \in marks => "early" \in marks'
    <2>1. marks \subseteq marks'
      BY DEF PagesNext, Works, HandleSubmitDelivery, HandleRelease, HandleDispute, Handle, OpenModal, CloseModal, HandlePay,
         CheckStatus, ReloadSettings, Onboard, CreateReview, Done, Answer, TakeList, TakeSecret, Confirm, Declined, Redirected,
         Poll, ReadDeveloper, CreateAccount, SaveAccount, Retrieve, TakeStatus, InsertReview, Refuse, Lose, Catch, Accept,
         GoOn, Resolve, Hook, StripeSettles, Direct, pageVars, history
    <2>2. QED
      BY <2>1, NoIdAssumption DEF SInv, IInv, Keys, Idle
  <1> SUFFICES ASSUME "early" \notin marks'
               PROVE  /\ \A j, k \in FundKeys : Chargeable(j)' /\ Chargeable(k)' => j = k
                      /\ \A i \in 1 .. MaxWork : ComesTooLate(i)' => PaymentIsSeen'
    BY DEF OneIsChargeable, LateAskIsSeen
  <1>1. /\ \A j, k \in FundKeys : Chargeable(j) /\ Chargeable(k) => j = k
        /\ \A i \in 1 .. MaxWork : ComesTooLate(i) => PaymentIsSeen
    BY <1>0 DEF OneIsChargeable, LateAskIsSeen
  <1>2. ASSUME NEW k \in FundKeys, Chargeable(k)', ~Chargeable(k)
        PROVE  /\ \A j \in FundKeys : Chargeable(j) => j = k
               /\ UNCHANGED <<modal, wire>> /\ modal.key = k /\ intent'[k] # "none"
    <2>1. /\ UNCHANGED <<modal, wire>> /\ modal.key = k /\ intent[k] = "none" /\ intent'[k] # "none"
          /\ \E i \in 1 .. MaxWork : wire[i].kind = "fund" /\ wire[i].step = "in" /\ wire[i].key = k
          /\ \E c \in Calls : GoOn(c) /\ FundStripe(c)
      BY <1>0, <1>2, ChargedSince
    <2>2. PICK i \in 1 .. MaxWork : wire[i].kind = "fund" /\ wire[i].step = "in" /\ wire[i].key = k
      BY <2>1
    <2>3. PICK c \in Calls : GoOn(c) /\ FundStripe(c)
      BY <2>1
    <2>4. status = "PENDING" /\ call[c].step = "fund_stripe"
      BY <2>3 DEF SInv, ChecksHold, RequestHolds, FundStripe, At, FundSteps
    <2>5. \A d \in Calls \ {c} : call[d] = Idle
      BY <2>3, <2>4 DEF GoOn, Tracked, Reads
    <2>6. ~PaymentIsSeen
      BY <1>0, <2>4, <2>5 DEF PaymentIsSeen, At
    <2>7. ~ComesTooLate(i)
      BY <1>1, <2>6
    <2>8. QED
      BY <2>1, <2>2, <2>7 DEF ComesTooLate
  <1>3. ASSUME NEW i \in 1 .. MaxWork, ComesTooLate(i)'  PROVE PaymentIsSeen'
    <2>1. /\ wire'[i].kind = "fund" /\ wire'[i].step = "in" /\ modal'.key = wire'[i].key /\ intent'[wire'[i].key] = "none"
          /\ \E j \in FundKeys \ {wire'[i].key} : Chargeable(j)'
      BY <1>3 DEF ComesTooLate
    <2>2. PICK j \in FundKeys : j # wire'[i].key /\ Chargeable(j)'
      BY <2>1
    <2>3. Chargeable(j)
      BY <1>2, <2>1, <2>2
    <2>4. wire[i].kind = "fund" /\ wire[i].key = wire'[i].key /\ wire[i].key \in FundKeys
      BY <2>1, MoneyWorkKept DEF SameWork, Carried, Carries
    <2>5. modal.key = wire[i].key
      <3>1. wire'[i] # Free /\ ~(OpenModal /\ ~Drawn(wire[i].key))
        BY <2>1, <2>4 DEF Free, Drawn
      <3>2. QED
        BY <1>0, <2>1, <2>4, <3>1, ModalKept
    <2>6. intent[wire[i].key] = "none"
      BY <1>0, <2>1, <2>4, IntentsGoOn
    <2>7. CASE wire[i].step = "in"
      <3>1. ComesTooLate(i)
        BY <2>2, <2>3, <2>4, <2>5, <2>6, <2>7 DEF ComesTooLate
      <3>2. QED
        BY <1>1, <3>1, PaymentStaysSeen
    <2>8. ASSUME NEW c \in Calls, Accept(i, c)  PROVE PaymentIsSeen'
      <3>1. \E d \in Calls : At(d, "mark_funded")
        BY <2>2, <2>3, <2>4, <2>5, <2>8, AcceptedAlone
      <3>2. QED
        BY <3>1, PaymentStaysSeen DEF PaymentIsSeen
    <2>9. QED
      BY <2>1, <2>7, <2>8, MoneyWorkKept
  <1>4. ASSUME NEW j \in FundKeys, NEW k \in FundKeys, Chargeable(j)', Chargeable(k)'  PROVE j = k
    <2>1. CASE Chargeable(j) /\ Chargeable(k)
      BY <1>1, <2>1
    <2>2. CASE ~Chargeable(j)
      BY <1>2, <1>4, <2>2
    <2>3. CASE ~Chargeable(k)
      BY <1>2, <1>4, <2>3
    <2>4. QED
      BY <2>1, <2>2, <2>3
  <1>5. QED
    BY <1>3, <1>4

-----------------------------------------------------------------------------
(* The invariant of the pages. *)

LEMMA InitEstablishesPagesInv == PagesInit => PagesInv
  <1> SUFFICES ASSUME PagesInit  PROVE PagesInv
    OBVIOUS
  <1>0. SInv /\ PageTypeOK /\ Carried
    BY InitEstablishesPages
  <1>1. /\ Free.kind = "free" /\ Free.seen = 0
        /\ \A r : Ask(r, "load").kind = "load" /\ Ask(r, "load").seen = 0 /\ Ask(r, "load").step = "again"
    BY DEF Free, Ask, Start
  <1>2. ASSUME NEW i \in 1 .. MaxWork
        PROVE  /\ wire[i].kind \in {"free", "load"} /\ wire[i].seen = 0
               /\ wire[i].kind = "load" => wire[i].step = "again"
    <2>1. \/ wire[i] = Ask("client", "load") \/ wire[i] = Ask("developer", "load") \/ wire[i] = Free
      BY DEF PagesInit
    <2>2. QED
      BY <1>1, <2>1
  <1>3. /\ \A r \in parties : panel[r].rev = 0 /\ panel[r].status = None /\ ownRev[r] = 0
        /\ modal.at = "shut" /\ modal.key = NoId /\ desk.link = 0 /\ desk.loading = FALSE
        /\ serves = [c \in Calls |-> 0] /\ account \in {0, 1} /\ onboarded = 1 .. account /\ reviews = 0
        /\ rev = 0 /\ marks = {} /\ pressed = {k \in FundKeys : intent[k] = "succeeded"} /\ 0 >= 0 /\ 0 <= 0
    BY DEF PagesInit, Fresh, Shut, Modal
  <1>4. /\ \A k \in FundKeys : reply[k] # "succeeded"
        /\ status = "PENDING" => \A k \in FundKeys : payment[k] # "SUCCEEDED"
        /\ \A j, k \in FundKeys : intent[j] = "succeeded" /\ intent[k] = "succeeded" => j = k
    BY DEF PagesInit, Init, FundedBy
  <1>5. ServesItsCall
    BY <1>3 DEF ServesItsCall
  <1>6. CopiesAreDated
    BY <1>2, <1>3 DEF CopiesAreDated, Dated, Calling
  <1>7. ButtonsAgree
    BY <1>3 DEF ButtonsAgree
  <1>8. DeedsReachPanels
    BY <1>2, <1>3 DEF DeedsReachPanels, ListsAreAsked, DeedReaches, Knows, LoadsFirst, Blank
  <1>9. OneCheckAtATime
    <2>1. Checks = {}
      BY <1>2 DEF Checks
    <2>2. onboarded \subseteq {account}
      BY <1>3
    <2>3. QED
      BY <1>3, <2>1, <2>2 DEF OneCheckAtATime
  <1>10. ReviewsFollowTransfer
    BY <1>2, <1>3 DEF ReviewsFollowTransfer
  <1>11. FormsAndCharges
    BY <1>2, <1>3, <1>4 DEF FormsAndCharges, FitsForm
  <1>12. PaidIsFunded
    BY <1>4 DEF PaidIsFunded
  <1>13. OneIsChargeable
    <2>1. \A k \in FundKeys : Chargeable(k) => intent[k] = "succeeded"
      BY <1>2, <1>3, NoIdAssumption DEF Chargeable, Paying, Keys
    <2>2. QED
      BY <1>4, <2>1 DEF OneIsChargeable
  <1>14. FundsAnew /\ LateAskIsSeen
    BY <1>2 DEF FundsAnew, LateAskIsSeen, ComesTooLate
  <1>15. QED
    BY <1>0, <1>5, <1>6, <1>7, <1>8, <1>9, <1>10, <1>11, <1>12, <1>13, <1>14 DEF PagesInv

LEMMA MixIsFixed == PagesNext => mix' = mix
  BY DEF PagesNext, Works, HandleSubmitDelivery, HandleRelease, HandleDispute, Handle, OpenModal, CloseModal, HandlePay,
     CheckStatus, ReloadSettings, Onboard, CreateReview, Done, Answer, TakeList, TakeSecret, Confirm, Declined, Redirected,
     Poll, ReadDeveloper, CreateAccount, SaveAccount, Retrieve, TakeStatus, InsertReview, Refuse, Lose, Catch, Accept,
     GoOn, Resolve, Hook, StripeSettles, Direct, pageVars, bounds, Press

LEMMA StepKeepsPagesInv ==
  ASSUME PagesInv, [PagesNext]_allVars
  PROVE  PagesInv'
  <1>0. SInv /\ IInv /\ TypeOK /\ PageTypeOK /\ Carried
    BY DEF PagesInv, SInv, IInv
  <1>1. /\ [Next]_vars /\ SInv' /\ PageTypeOK' /\ Carried'
        /\ calm' => calm
    BY <1>0, PagesStepIsEscrowStep, StepKeepsSInv, StepKeepsPages, CalmSince
  <1>2. CASE UNCHANGED allVars
    <2>1. UNCHANGED <<vars, calm, db, stripe, status, payment, reply, intent, transfer, call, pageVars, bounds, mix, panel,
                      modal, desk, wire, serves, account, made, onboarded, reviews, rev, ownRev, pressed, marks>>
      BY <1>2 DEF allVars, vars, db, stripe, pageVars, bounds, payouts, history
    <2>2. ServesItsCall => ServesItsCall'
      BY <2>1 DEF ServesItsCall
    <2>3. CopiesAreDated => CopiesAreDated'
      BY <2>1 DEF CopiesAreDated, Dated, Refused
    <2>4. DeedsReachPanels => DeedsReachPanels'
      BY <2>1 DEF DeedsReachPanels, ListsAreAsked, DeedReaches, Knows, WillShow, LoadsFirst
    <2>5. OneCheckAtATime => OneCheckAtATime'
      BY <2>1 DEF OneCheckAtATime, Checks
    <2>6. ReviewsFollowTransfer => ReviewsFollowTransfer'
      BY <2>1 DEF ReviewsFollowTransfer, Transferred
    <2>7. FormsAndCharges => FormsAndCharges'
      BY <2>1 DEF FormsAndCharges, FitsForm
    <2>8. PaidIsFunded => PaidIsFunded'
      BY <2>1 DEF PaidIsFunded, At
    <2>9. OneIsChargeable => OneIsChargeable'
      BY <2>1 DEF OneIsChargeable, Chargeable, Paying, Asking
    <2>10. ButtonsAgree => ButtonsAgree'
      BY <2>1 DEF ButtonsAgree
    <2>11. FundsAnew => FundsAnew'
      BY <2>1 DEF FundsAnew
    <2>12. LateAskIsSeen => LateAskIsSeen'
      BY <2>1 DEF LateAskIsSeen, ComesTooLate, PaymentIsSeen, Chargeable, Paying, Asking, At
    <2>13. QED
      BY <1>1, <2>1, <2>2, <2>3, <2>4, <2>5, <2>6, <2>7, <2>8, <2>9, <2>10, <2>11, <2>12 DEF PagesInv
  <1>3. CASE PagesNext /\ mix.pages = {}
    BY <1>1, <1>3, MixIsFixed DEF PagesInv
  <1>4. CASE PagesNext /\ mix.pages # {}
    <2>0. /\ ServesItsCall /\ CopiesAreDated /\ ButtonsAgree
          /\ OneCheckAtATime /\ ReviewsFollowTransfer
          /\ FormsAndCharges /\ FundsAnew
          /\ \A k \in FundKeys : reply[k] # "succeeded"
          /\ calm' => calm /\ DeedsReachPanels /\ PaidIsFunded /\ OneIsChargeable /\ LateAskIsSeen
      BY <1>1, <1>4 DEF PagesInv, FormsAndCharges
    <2>1. ServesItsCall'
      BY <1>0, <1>4, <2>0, ServedStay
    <2>2. CopiesAreDated'
      BY <1>0, <1>4, <2>0, CopiesStayDated
    <2>3. ButtonsAgree'
      BY <1>0, <1>4, <2>0, ButtonsStayAgreed
    <2>4. calm' => DeedsReachPanels'
      BY <1>0, <1>4, <2>0, DeedsStayShown
    <2>5. OneCheckAtATime'
      <3>1. CASE PanelStep \/ FormStep
        BY <1>0, <2>0, <3>1, OtherStepsKeepCheck
      <3>2. CASE DeskStep
        BY <1>0, <2>0, <3>2, OtherStepsKeepCheck, DeskKeepsOneCheck DEF DeskStep
      <3>3. CASE ServerStep
        BY <1>0, <2>0, <3>3, OtherStepsKeepCheck, DeskKeepsOneCheck DEF ServerStep
      <3>4. QED
        BY <1>4, <3>1, <3>2, <3>3, EveryStep
    <2>6. ReviewsFollowTransfer'
      BY <1>0, <1>4, <2>0, ReviewsStay
    <2>7. FormsAndCharges'
      BY <1>0, <1>4, <2>0, FormsStay
    <2>8. calm' => PaidIsFunded'
      BY <1>0, <1>1, <1>4, <2>0, PaidStaysFunded
    <2>9. calm' => OneIsChargeable' /\ LateAskIsSeen'
      BY <1>0, <1>1, <1>4, <2>0, OneStaysChargeable
    <2>10. FundsAnew'
      BY <1>0, <1>4, <2>0, FundsStayAnew
    <2>11. QED
      BY <1>1, <2>1, <2>2, <2>3, <2>4, <2>5, <2>6, <2>7, <2>8, <2>9, <2>10 DEF PagesInv
  <1>5. QED
    BY <1>2, <1>3, <1>4

LEMMA PagesInvIsWhatIsShown == PagesInv => FundingInv
  <1> SUFFICES ASSUME PagesInv, mix.pages # {}
               PROVE  /\ ButtonsAgree /\ OneAccountIsOnboarded /\ OneReviewPerRelease
                      /\ calm => ChargedAgainOnlyEarly /\ DeedsAreShown
    BY DEF FundingInv, PagesInv
  <1>1. calm => ChargedAgainOnlyEarly
    BY DEF PagesInv, ChargedAgainOnlyEarly, OneIsChargeable, Chargeable
  <1>2. ASSUME calm  PROVE DeedsAreShown
    <2> SUFFICES ASSUME NEW r \in parties, \A i \in 1 .. MaxWork : wire[i] = Free \/ wire[i].who # r,
                        ~panel[r].error, ~panel[r].behind
                 PROVE  panel[r].rev >= ownRev[r]
      BY DEF DeedsAreShown
    <2>1. DeedReaches(r) /\ Free.kind = "free"
      BY <1>2 DEF PagesInv, DeedsReachPanels, Free
    <2>2. QED
      BY <2>1 DEF DeedReaches, Knows, WillShow
  <1>3. OneAccountIsOnboarded
    BY DEF PagesInv, OneCheckAtATime, OneAccountIsOnboarded
  <1>4. OneReviewPerRelease
    BY DEF PagesInv, ReviewsFollowTransfer, OneReviewPerRelease
  <1>5. QED
    BY <1>1, <1>2, <1>3, <1>4 DEF PagesInv

\* What the parties are shown, offered, charged and asked about, for any number
\* of calls, handlers, keys, disputes and accounts, and whatever is lost: a
\* handler started on a true copy is not refused, one account is onboarded, and
\* a release has one review at most; and until a call writes beside another, a
\* client is charged twice only where he asked for a second form too early, and
\* a deed reaches the panel it was done on.
THEOREM PagesAreTruthful == PagesSpec => []FundingInv
  <1>1. PagesInv /\ [PagesNext]_allVars => PagesInv'
    BY StepKeepsPagesInv
  <1>2. QED
    BY <1>1, InitEstablishesPagesInv, PagesInvIsWhatIsShown, PTL DEF PagesSpec
=============================================================================
