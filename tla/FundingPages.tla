----------------------------- MODULE FundingPages -----------------------------
(***************************************************************************)
(* The pages over the escrow of one milestone: the panel that its client   *)
(* and its developer each have open, with the client's payment form, the   *)
(* section in which the developer connects a payout account, and the       *)
(* client's review of what was released.  Escrow has the rows and Stripe.  *)
(* A panel shows a copy of the milestone, offers what the copy allows, and *)
(* asks for the list again once a handler is done, without waiting for it. *)
(* Each attempt draws a new key.                                           *)
(***************************************************************************)
EXTENDS Escrow

CONSTANTS
  None,        \* nothing loaded
  Mixes,       \* bounds: who has pages open, the milestone they open on, whether there is a payout
               \* account, which buttons are pressed, how often, and the requests or replies lost
  MaxWork,     \* bound: how many handlers run at once
  MaxPolls,    \* how often the payment form asks whether the milestone is funded
  MaxAccounts  \* bound: how many accounts are created at Stripe

ASSUME FundingAssumption ==
  /\ None \notin MilestoneStatus
  /\ MaxWork \in Nat \ {0} /\ MaxPolls \in Nat \ {0} /\ MaxAccounts \in Nat \ {0}

VARIABLES
  mix, moves, faults,
  panel,      \* each party's panel
  modal,      \* the client's payment form
  desk,       \* the payout section: a check is running, and the account its link is for
  wire,       \* the handlers in flight
  serves,     \* which handler each call is for, 0 for another's
  account,    \* User.stripeAccountId of the developer, 0 while there is none
  made,       \* the accounts created at Stripe are 1 .. made
  onboarded,  \* those whose details are submitted
  reviews,    \* how many Review rows the milestone has
  rev,        \* history: how many writes of the milestone there were
  ownRev,     \* history: rev when each party's last deed was done
  pressed,    \* history: the keys whose payment the client has confirmed
  marks       \* history: what a property excuses, or forbids

parties  == {"client", "developer"}
bounds   == <<mix, moves, faults>>
payouts  == <<account, made, onboarded, reviews>>
history  == <<rev, ownRev, pressed, marks>>
pageVars == <<bounds, panel, modal, desk, wire, serves, payouts, history>>
allVars  == <<vars, pageVars>>

\* behind is history: an answer came after a younger one, or a refresh got none.
Panel == [behind : BOOLEAN, busy : BOOLEAN, error : BOOLEAN, rev : Nat,
          status : MilestoneStatus \cup {None}]
Fresh == [behind |-> FALSE, busy |-> FALSE, error |-> FALSE, rev |-> 0, status |-> None]

Modal(at, key) == [at |-> at, key |-> key, paying |-> FALSE]
Shut           == Modal("shut", NoId)

\* A handler, and the answer on its way to it.  tries counts the polls of a
\* payment, account is the local accountId of a check.
Work ==
  [account : 0 .. MaxAccounts,
   key     : Keys \cup {NoId},
   kind    : {"free", "load", "refresh", "fund", "pay", "submit", "release", "dispute", "check", "review"},
   mounted : BOOLEAN,           \* the page that started it is still there
   row     : MilestoneStatus \cup {None},
   seen    : Nat,               \* history: rev of the copy it was started on, or of its answer
   step    : {"out", "in", "done", "again", "reply", "lost", "confirm", "poll", "create", "save", "retrieve", "insert"},
   tries   : 0 .. MaxPolls - 1,
   who     : parties]

Start(kind, who, step, key) ==
  [account |-> 0, key |-> key, kind |-> kind, mounted |-> TRUE, row |-> None,
   seen |-> panel[who].rev, step |-> step, tries |-> 0, who |-> who]
Free == [account |-> 0, key |-> NoId, kind |-> "free", mounted |-> TRUE, row |-> None, seen |-> 0,
         step |-> "out", tries |-> 0, who |-> "client"]
Ask(who, kind) == [Start(kind, who, "again", NoId) EXCEPT !.seen = 0]

PageTypeOK ==
  /\ panel \in [parties -> Panel]
  /\ modal \in [at : {"shut", "loading", "form", "error"}, key : FundKeys \cup {NoId}, paying : BOOLEAN]
  /\ desk \in [link : 0 .. MaxAccounts, loading : BOOLEAN]
  /\ wire \in [1 .. MaxWork -> Work] /\ serves \in [Calls -> 0 .. MaxWork]
  /\ account \in 0 .. made /\ made \in 0 .. MaxAccounts /\ onboarded \subseteq 1 .. made
  /\ pressed \subseteq FundKeys /\ reviews \in Nat /\ rev \in Nat /\ ownRev \in [parties -> Nat]
  /\ marks \subseteq {"early", "reloaded", "refused"}

\* The milestone is new, or one that was paid for by an earlier form and
\* delivered.
FundedBy(k) ==
  /\ status = "SUBMITTED"
  /\ payment = [j \in FundKeys |-> IF j = k THEN "SUCCEEDED" ELSE "none"]
  /\ paymentLog = <<k>>
  /\ intent = [j \in FundKeys |-> IF j = k THEN "succeeded" ELSE "none"]
  /\ reply = [j \in FundKeys |-> IF j = k THEN "processing" ELSE "none"]
  /\ webhookRow = [e \in Event |-> IF e = [type |-> "payment_intent.succeeded", key |-> k]
                                   THEN "processed" ELSE "absent"]
  /\ payout = [j \in TransferKeys |-> "none"] /\ payoutLog = <<>> /\ backfilled = {}
  /\ dispute = [d \in Disputes |-> "none"] /\ declined = {}
  /\ transfer = [j \in TransferKeys |-> "none"] /\ refund = [j \in RefundKeys |-> NoId]
  /\ call = [c \in Calls |-> Idle] /\ calm = TRUE

PagesInit ==
  /\ mix \in Mixes /\ moves = 0 /\ faults = 0
  /\ IF mix.from = "new" THEN Init ELSE \E k \in FundKeys : FundedBy(k)
  /\ pressed = {k \in FundKeys : intent[k] = "succeeded"}
  /\ panel = [r \in parties |-> Fresh]
  /\ modal = Shut /\ desk = [link |-> 0, loading |-> FALSE]
  /\ wire = [i \in 1 .. MaxWork |->
               IF i = 1 /\ "client" \in mix.pages THEN Ask("client", "load")
               ELSE IF i = 2 /\ "developer" \in mix.pages THEN Ask("developer", "load") ELSE Free]
  /\ serves = [c \in Calls |-> 0]
  /\ account = (IF mix.connected THEN 1 ELSE 0) /\ made = account /\ onboarded = 1 .. made /\ reviews = 0
  /\ rev = 0 /\ ownRev = [r \in parties |-> 0] /\ marks = {}

IsAt(i, kinds, step) == wire[i].kind \in kinds /\ wire[i].step = step
Become(i, w)         == wire' = [wire EXCEPT ![i] = w]
ToStep(i, step)      == Become(i, [wire[i] EXCEPT !.step = step])
Lowest(i)            == wire[i] = Free /\ \A j \in 1 .. i - 1 : wire[j] # Free
Press(button)        == /\ button \in mix.buttons /\ moves < mix.moves
                        /\ moves' = moves + 1 /\ UNCHANGED <<mix, faults>>
Drawn(k)             == \E i \in 1 .. MaxWork : wire[i].key = k
                        \/ \E c \in Calls : call[c].key = k

-----------------------------------------------------------------------------
(* The panel *)

\* Mutant: the client's buttons do not look at the status.
OfferedAnytime(r) ==
  IF panel[r].status = None THEN {}
  ELSE IF r = "client" THEN {"fund", "release", "dispute"} ELSE {"submit", "dispute"}

\* The buttons of a row, by the copy and by who looks at it.
Offered(r) ==
  LET s == panel[r].status IN
  {b \in {"fund", "submit", "release", "dispute"} :
     \/ b = "fund" /\ r = "client" /\ s = "PENDING"
     \/ b = "submit" /\ r = "developer" /\ s = "FUNDED"
     \/ b = "release" /\ r = "client" /\ s = "SUBMITTED"
     \/ b = "dispute" /\ s \notin {None, "RELEASED", "REFUNDED"}}

\* A handler begins: actionBusy is set, and error cleared.  The payment form
\* covers the row.
Handle(r, button, key) ==
  /\ button \in Offered(r) /\ ~panel[r].busy
  /\ r = "client" => modal.at = "shut"
  /\ Press(button)
  /\ \E i \in 1 .. MaxWork : Lowest(i) /\ Become(i, Start(button, r, "out", key))
  /\ panel' = [panel EXCEPT ![r].busy = TRUE, ![r].error = FALSE]
  /\ UNCHANGED <<vars, modal, desk, serves, payouts, history>>

HandleSubmitDelivery == Handle("developer", "submit", NoId)
HandleRelease        == \E k \in TransferKeys :
                          ~Drawn(k) /\ transfer[k] = "none" /\ Handle("client", "release", k)
HandleDispute(r)     == Handle(r, "dispute", NoId)

\* Mutant: the row stays as it is.
DoneQuietly(i) ==
  /\ IsAt(i, {"submit", "release", "dispute"}, "done")
  /\ Become(i, Free)
  /\ panel' = [panel EXCEPT ![wire[i].who].busy = FALSE]
  /\ UNCHANGED <<vars, bounds, modal, desk, serves, payouts, history>>

\* onChanged() sends for the list, and the handler ends without it.
Done(i) ==
  /\ IsAt(i, {"submit", "release", "dispute"}, "done")
  /\ Become(i, IF wire[i].mounted THEN Ask(wire[i].who, "refresh") ELSE Free)
  /\ panel' = IF wire[i].mounted THEN [panel EXCEPT ![wire[i].who].busy = FALSE] ELSE panel
  /\ UNCHANGED <<vars, bounds, modal, desk, serves, payouts, history>>

\* listForHireRequest, whose cache is read under a version.
Answer(i) ==
  /\ IsAt(i, {"load", "refresh"}, "again")
  /\ Become(i, [wire[i] EXCEPT !.step = "reply", !.row = status, !.seen = rev])
  /\ UNCHANGED <<vars, bounds, panel, modal, desk, serves, payouts, history>>

\* refresh
TakeList(i) ==
  LET w == wire[i] IN
  /\ IsAt(i, {"load", "refresh"}, "reply")
  /\ Become(i, Free)
  /\ panel' = IF ~w.mounted THEN panel
              ELSE [panel EXCEPT ![w.who].status = w.row, ![w.who].rev = w.seen,
                                 ![w.who].behind = @ \/ w.seen < panel[w.who].rev]
  /\ UNCHANGED <<vars, bounds, modal, desk, serves, payouts, history>>

-----------------------------------------------------------------------------
(* The payment form *)

\* Opening the form asks for an intent under a new key.
OpenModal ==
  /\ "fund" \in Offered("client") /\ modal.at = "shut"
  /\ Press("fund")
  /\ \E k \in FundKeys, i \in 1 .. MaxWork :
       /\ ~Drawn(k) /\ intent[k] = "none" /\ Lowest(i)
       /\ Become(i, Start("fund", "client", "out", k))
       /\ modal' = Modal("loading", k)
  /\ UNCHANGED <<vars, panel, desk, serves, payouts, history>>

\* The answer is dropped when the form it was for is gone.
TakeSecret(i) ==
  /\ IsAt(i, {"fund"}, "done")
  /\ Become(i, Free)
  /\ modal' = IF modal.key = wire[i].key THEN Modal("form", modal.key) ELSE modal
  /\ UNCHANGED <<vars, bounds, panel, desk, serves, payouts, history>>

CloseModal ==
  /\ modal.at # "shut" /\ modal' = Shut
  /\ UNCHANGED <<vars, bounds, panel, desk, wire, serves, payouts, history>>

HandlePay ==
  /\ modal.at = "form" /\ ~modal.paying
  /\ Press("pay")
  /\ \E i \in 1 .. MaxWork : Lowest(i) /\ Become(i, Start("pay", "client", "confirm", modal.key))
  /\ modal' = [modal EXCEPT !.paying = TRUE]
  /\ pressed' = pressed \cup {modal.key}
  /\ UNCHANGED <<vars, panel, desk, serves, payouts, rev, ownRev, marks>>

EndPaying(i) == modal' = IF modal.key = wire[i].key THEN [modal EXCEPT !.paying = FALSE] ELSE modal

\* confirmPayment: charged, or accepted by a slow method.
Confirm(i) ==
  /\ IsAt(i, {"pay"}, "confirm")
  /\ \/ IntentSucceeds(wire[i].key)
     \/ intent[wire[i].key] = "processing" /\ UNCHANGED vars
  /\ ToStep(i, "poll")
  /\ UNCHANGED <<bounds, panel, modal, desk, serves, payouts, history>>

\* result.error: declined, or this intent has succeeded before.
Declined(i) ==
  /\ IsAt(i, {"pay"}, "confirm")
  /\ \/ IntentDeclined(wire[i].key)
     \/ intent[wire[i].key] # "processing" /\ UNCHANGED vars
  /\ Become(i, Free)
  /\ EndPaying(i)
  /\ UNCHANGED <<bounds, panel, desk, serves, payouts, history>>

\* redirect: "if_required": the bank's page, charged or not, then this page
\* as new; what was in flight goes on without it.
Redirected(i) ==
  /\ IsAt(i, {"pay"}, "confirm")
  /\ IntentSucceeds(wire[i].key) \/ UNCHANGED vars
  /\ wire' = [j \in 1 .. MaxWork |->
                IF j = i THEN Ask("client", "load")
                ELSE IF wire[j].who = "client" /\ wire[j] # Free THEN [wire[j] EXCEPT !.mounted = FALSE]
                ELSE wire[j]]
  /\ panel' = [panel EXCEPT !["client"] = Fresh]
  /\ ownRev' = [ownRev EXCEPT !["client"] = 0]
  /\ modal' = Shut
  /\ UNCHANGED <<bounds, desk, serves, payouts, rev, pressed, marks>>

\* The form asks until the milestone is no longer PENDING, six times at most;
\* then onFunded, and onClose, which closes whatever form is open.
Poll(i) ==
  LET over == status # "PENDING" \/ wire[i].tries + 1 = MaxPolls IN
  /\ IsAt(i, {"pay"}, "poll")
  /\ IF ~over
     THEN Become(i, [wire[i] EXCEPT !.tries = @ + 1]) /\ UNCHANGED <<modal, ownRev>>
     ELSE /\ Become(i, IF wire[i].mounted THEN Ask("client", "refresh") ELSE Free)
          /\ modal' = IF wire[i].mounted THEN Shut ELSE modal
          /\ ownRev' = IF wire[i].mounted THEN [ownRev EXCEPT !["client"] = rev] ELSE ownRev
  /\ UNCHANGED <<vars, bounds, panel, desk, serves, payouts, rev, pressed, marks>>

-----------------------------------------------------------------------------
(* The payout section *)

CheckStatus ==
  /\ "developer" \in mix.pages /\ desk = [link |-> 0, loading |-> FALSE]
  /\ Press("check")
  /\ \E i \in 1 .. MaxWork : Lowest(i) /\ Become(i, Start("check", "developer", "out", NoId))
  /\ desk' = [desk EXCEPT !.loading = TRUE]
  /\ UNCHANGED <<vars, panel, modal, serves, payouts, history>>

\* getPayoutAccountStatus reads the developer; without an account one is
\* created, and its id written; then the account is read at Stripe.
ReadDeveloper(i) ==
  /\ IsAt(i, {"check"}, "out")
  /\ Become(i, [wire[i] EXCEPT !.step = IF account = 0 THEN "create" ELSE "retrieve",
                               !.account = account])
  /\ UNCHANGED <<vars, bounds, panel, modal, desk, serves, payouts, history>>

CreateAccount(i) ==
  /\ IsAt(i, {"check"}, "create")
  /\ made < MaxAccounts /\ made' = made + 1
  /\ Become(i, [wire[i] EXCEPT !.step = "save", !.account = made + 1])
  /\ UNCHANGED <<vars, bounds, panel, modal, desk, serves, account, onboarded, reviews, history>>

\* Mutant: the new account is not written.
SaveNothing(i) ==
  /\ IsAt(i, {"check"}, "save")
  /\ ToStep(i, "retrieve")
  /\ UNCHANGED <<vars, bounds, panel, modal, desk, serves, payouts, history>>

SaveAccount(i) ==
  /\ IsAt(i, {"check"}, "save")
  /\ account' = wire[i].account
  /\ ToStep(i, "retrieve")
  /\ UNCHANGED <<vars, bounds, panel, modal, desk, serves, made, onboarded, reviews, history>>

\* onboardingRequired, with a link for this account.
Retrieve(i) ==
  /\ IsAt(i, {"check"}, "retrieve")
  /\ Become(i, [wire[i] EXCEPT !.step = "reply",
                               !.account = IF @ \in onboarded THEN 0 ELSE @])
  /\ UNCHANGED <<vars, bounds, panel, modal, desk, serves, payouts, history>>

TakeStatus(i) ==
  /\ IsAt(i, {"check"}, "reply")
  /\ Become(i, Free)
  /\ desk' = IF wire[i].mounted THEN [link |-> wire[i].account, loading |-> FALSE] ELSE desk
  /\ UNCHANGED <<vars, bounds, panel, modal, serves, payouts, history>>

\* The settings page is loaded again, its check left running on the server.
ReloadSettings ==
  /\ desk # [link |-> 0, loading |-> FALSE]
  /\ desk' = [link |-> 0, loading |-> FALSE]
  /\ wire' = [i \in 1 .. MaxWork |->
                IF wire[i].kind = "check" THEN [wire[i] EXCEPT !.mounted = FALSE] ELSE wire[i]]
  /\ marks' = IF desk.loading THEN marks \cup {"reloaded"} ELSE marks
  /\ UNCHANGED <<vars, bounds, panel, modal, serves, payouts, rev, ownRev, pressed>>

\* The developer follows the link, and comes back to the page as new.
Onboard ==
  /\ desk.link # 0
  /\ onboarded' = onboarded \cup {desk.link}
  /\ desk' = [link |-> 0, loading |-> FALSE]
  /\ UNCHANGED <<vars, bounds, panel, modal, wire, serves, account, made, reviews, history>>

-----------------------------------------------------------------------------
(* A review.  No page has a form for it: the client calls the API. *)

CreateReview ==
  /\ status = "RELEASED"
  /\ Press("review")
  /\ \E i \in 1 .. MaxWork : Lowest(i) /\ Become(i, Start("review", "client", "insert", NoId))
  /\ UNCHANGED <<vars, panel, modal, desk, serves, payouts, history>>

\* Mutant: Review.milestoneId is not unique.
InsertReviewAgain(i) ==
  /\ IsAt(i, {"review"}, "insert")
  /\ reviews' = reviews + 1
  /\ Become(i, Free)
  /\ UNCHANGED <<vars, bounds, panel, modal, desk, serves, account, made, onboarded, history>>

\* review.create; milestoneId is unique, so a second insert throws.
InsertReview(i) ==
  /\ IsAt(i, {"review"}, "insert")
  /\ reviews' = IF reviews = 0 THEN 1 ELSE reviews
  /\ Become(i, Free)
  /\ UNCHANGED <<vars, bounds, panel, modal, desk, serves, account, made, onboarded, history>>

-----------------------------------------------------------------------------
(* The server *)

\* A payment that the client has confirmed in an earlier form, and that is
\* neither declined nor recorded.
Outstanding(k) ==
  /\ k \in pressed /\ payment[k] # "SUCCEEDED"
  /\ \/ intent[k] # "failed"
     \/ \E i \in 1 .. MaxWork : IsAt(i, {"pay"}, "confirm") /\ wire[i].key = k

\* The handler's call begins as Escrow has it.
Accept(i, c) ==
  LET k == wire[i].key IN
  /\ wire[i].step = "out"
  /\ \/ wire[i].kind = "fund" /\ Fund(c, k)
     \/ wire[i].kind = "submit" /\ Submit(c)
     \/ wire[i].kind = "release" /\ Release(c, k)
     \/ wire[i].kind = "dispute" /\ \E d \in Disputes : RaiseDispute(c, d)
  /\ serves' = [serves EXCEPT ![c] = i]
  /\ ToStep(i, "in")
  /\ marks' = IF wire[i].kind = "fund" /\ status = "PENDING" /\ \E j \in FundKeys \ {k} : Outstanding(j)
              THEN marks \cup {"early"} ELSE marks
  /\ UNCHANGED <<calm, bounds, panel, modal, desk, payouts, rev, ownRev, pressed>>

\* The status checks of fund, submit, release and dispute.
Refused(kind) ==
  CASE kind = "fund"    -> status # "PENDING"
    [] kind = "submit"  -> status # "FUNDED"
    [] kind = "release" -> status # "SUBMITTED"
    [] kind = "dispute" -> status \in {"RELEASED", "REFUNDED", "DISPUTED"}

\* A dispute is offered of what is disputed already, and refused.
Refuse(i) ==
  LET w == wire[i] IN
  /\ w.kind \in {"fund", "submit", "release", "dispute"} /\ w.step = "out" /\ Refused(w.kind)
  /\ \E c \in Calls : call[c] = Idle
  /\ ToStep(i, "lost")
  /\ marks' = IF w.seen = rev /\ w.mounted /\ ~(w.kind = "dispute" /\ status = "DISPUTED")
              THEN marks \cup {"refused"} ELSE marks
  /\ UNCHANGED <<vars, bounds, panel, modal, desk, serves, payouts, rev, ownRev, pressed>>

\* The form sends no payment method, so its intent is not confirmed at once;
\* and whether there is a payout account is known here.
AsThePagesHaveIt(c) ==
  /\ \A k \in FundKeys : reply'[k] \in {reply[k], "processing"}
  /\ call'[c].step = "transfer_stripe" => account # 0
  /\ At(c, "transfer_check") /\ call'[c] = Idle => account = 0

\* A call ends, with an answer or an error.
GoOn(c) ==
  /\ mix.pages # {} /\ Continue(c) /\ Tracked(c) /\ AsThePagesHaveIt(c)
  /\ rev' = IF status' # status THEN rev + 1 ELSE rev
  /\ IF call'[c] = Idle /\ serves[c] # 0
     THEN LET i  == serves[c]
              ok == ~At(c, "transfer_check") /\ ~At(c, "fund_insert") /\ (At(c, "transfer_commit") => payout' # payout)
          IN  /\ ToStep(i, IF ok THEN "done" ELSE "lost")
              /\ ownRev' = IF ok /\ wire[i].mounted THEN [ownRev EXCEPT ![wire[i].who] = rev'] ELSE ownRev
              /\ serves' = [serves EXCEPT ![c] = 0]
     ELSE UNCHANGED <<wire, ownRev, serves>>
  /\ UNCHANGED <<bounds, panel, modal, desk, payouts, pressed, marks>>

Hook(c, e) ==
  mix.pages # {} /\ HandleStripeWebhook(c, e) /\ Tracked(c) /\ UNCHANGED pageVars

\* An admin resolves a dispute.
Resolve(c) ==
  /\ Press("resolve")
  /\ \/ \E d \in Disputes, k \in TransferKeys : ResolveRelease(c, d, k)
     \/ \E d \in Disputes, k \in RefundKeys : ResolveRefund(c, d, k)
  /\ UNCHANGED <<calm, panel, modal, desk, wire, serves, payouts, history>>

\* A slow payment is settled; a transfer comes back.
StripeSettles ==
  /\ mix.pages # {}
  /\ \/ \E k \in pressed : intent[k] = "processing" /\ (IntentSucceeds(k) \/ IntentDeclined(k))
     \/ \E k \in TransferKeys : TransferReverses(k)
  /\ UNCHANGED pageVars

\* A request, or its answer, is lost.
Lose(i) ==
  /\ wire[i] # Free /\ wire[i].step \in {"out", "again", "done", "reply", "poll"}
  /\ faults < mix.faults /\ faults' = faults + 1
  /\ ToStep(i, "lost")
  /\ UNCHANGED <<vars, mix, moves, panel, modal, desk, serves, payouts, history>>

\* catch and finally; of a refresh that fails nobody hears.
Catch(i) ==
  LET w == wire[i] IN
  /\ w.step = "lost"
  /\ Become(i, Free)
  /\ panel' = IF ~w.mounted \/ w.kind \in {"fund", "pay", "check"} THEN panel
              ELSE IF w.kind = "refresh" THEN [panel EXCEPT ![w.who].behind = TRUE]
              ELSE [panel EXCEPT ![w.who].error = TRUE,
                                 ![w.who].busy = IF w.kind = "load" THEN @ ELSE FALSE]
  /\ modal' = IF w.kind \in {"fund", "pay"} /\ modal.key = w.key
              THEN Modal(IF w.kind = "fund" THEN "error" ELSE "form", w.key) ELSE modal
  /\ desk' = IF w.kind = "check" /\ w.mounted THEN [desk EXCEPT !.loading = FALSE] ELSE desk
  /\ UNCHANGED <<vars, bounds, serves, payouts, history>>

\* Clients that have no page: Escrow as it is.
Direct == mix.pages = {} /\ Next /\ UNCHANGED pageVars

-----------------------------------------------------------------------------
Works(i) ==
  \/ Done(i) \/ Answer(i) \/ TakeList(i)
  \/ TakeSecret(i) \/ Confirm(i) \/ Declined(i) \/ Redirected(i) \/ Poll(i)
  \/ ReadDeveloper(i) \/ CreateAccount(i) \/ SaveAccount(i) \/ Retrieve(i) \/ TakeStatus(i)
  \/ InsertReview(i) \/ Refuse(i) \/ Lose(i) \/ Catch(i)
  \/ \E c \in Calls : Accept(i, c)

PagesNext ==
  \/ HandleSubmitDelivery \/ HandleRelease \/ \E r \in parties : HandleDispute(r)
  \/ OpenModal \/ CloseModal \/ HandlePay
  \/ CheckStatus \/ ReloadSettings \/ Onboard \/ CreateReview
  \/ \E i \in 1 .. MaxWork : Works(i)
  \/ \E c \in Calls : GoOn(c) \/ Resolve(c) \/ \E e \in Event : Hook(c, e)
  \/ StripeSettles
  \/ Direct

\* As Escrow has it.
PagesFairness ==
  /\ \A c \in Calls :
       WF_allVars(GoOn(c) \/ (mix.pages = {} /\ Continue(c) /\ Tracked(c) /\ UNCHANGED pageVars))
  /\ SF_allVars(\E c \in Calls, e \in Event :
       HandleStripeWebhook(c, e) /\ Tracked(c) /\ UNCHANGED pageVars)

PagesSpec == PagesInit /\ [][PagesNext]_allVars /\ PagesFairness

-----------------------------------------------------------------------------
(* Properties *)

\* A client with one page open is charged twice only where he asked for a
\* second form while his first payment was neither declined nor recorded: the
\* check of fund, the keys drawn anew and the polling of the form see to it,
\* although nothing refuses to confirm an intent of a milestone that is funded.
ChargedAgainOnlyEarly ==
  "early" \in marks \/ \A j, k \in FundKeys : intent[j] = "succeeded" /\ intent[k] = "succeeded" => j = k

\* A handler started on a copy that is still true is not refused for the status.
ButtonsAgree == "refused" \notin marks

\* With nothing on its way and no error, a panel shows what was done on it.
DeedsAreShown ==
  \A r \in parties :
    (\A i \in 1 .. MaxWork : wire[i] = Free \/ wire[i].who # r)
      /\ panel[r].status # None /\ ~panel[r].error /\ ~panel[r].behind
    => panel[r].rev >= ownRev[r]

\* The account that is onboarded is the one payouts go to, unless the settings
\* page was loaded again while it checked.
OneAccountIsOnboarded ==
  "reloaded" \in marks \/ (desk.link \in {0, account} /\ onboarded \subseteq {account})

\* reviews.service.ts: "Creates one review per released milestone", whatever
\* was reversed and released again meanwhile.
OneReviewPerRelease == reviews <= 1 /\ (reviews = 1 => Transferred)

\* What the parties are shown, offered, charged and asked about; the last two
\* until a call writes beside another.
FundingInv ==
  /\ PageTypeOK
  /\ mix.pages # {} =>
       /\ ButtonsAgree /\ OneAccountIsOnboarded /\ OneReviewPerRelease
       /\ calm => ChargedAgainOnlyEarly /\ DeedsAreShown
==============================================================================
