------------------------------ MODULE HirePages ------------------------------
(***************************************************************************)
(* The pages on which a request is made and a deal is struck: the client's *)
(* form, the list of requests of the client or of the developer, and the   *)
(* detail page with its milestones.  One of the two has a page open; he    *)
(* and everybody else may also call the API directly, as HireRequest has   *)
(* it.  The list shows a copy of the row and offers what the copy allows;  *)
(* each of its handlers sends, waits, reads the list again and waits.      *)
(***************************************************************************)
EXTENDS HireRequest

CONSTANTS
  None,       \* nobody, nothing loaded, no button pressed
  MaxWork,    \* bound: how many handlers run at once
  MaxMoves,   \* bound: how many buttons are pressed and direct calls made
  MaxFaults   \* bound: how many requests or replies are lost

ASSUME HirePagesAssumption ==
  /\ None \notin Actors \cup Status \cup {"PROPOSAL", "submitting"}
  /\ None \notin [status : Status, proposal : Amounts \cup {NoAmount}]
  /\ MaxWork \in Nat \ {0} /\ MaxMoves \in Nat /\ MaxFaults \in Nat

VARIABLES
  viewer,     \* whose pages these are, if any is open
  place,      \* the page that is open
  going,      \* router.push is on its way to the list
  asked,      \* what the form has left on the server
  copy,       \* the row as the page has it
  shown,      \* the milestones that the panel lists
  open,       \* the form on the page is open: the proposal's, or the milestone's
  busy,       \* actionId, or that submitting or actionBusy is set
  failed,     \* error is set
  wire,       \* the handlers in flight
  serves,     \* which handler each call is for, 0 for a direct call
  moves, faults,
  rev,        \* history: how many writes of the row there were
  copyRev,    \* history: how many of them the copy includes
  ownRev,     \* history: rev after the last write of this page
  mine,       \* history: the milestones that this page has created
  behind,     \* history: an answer came after a younger one, or when its page was gone
  surprised   \* history: the server refused what a copy that is still true offered

page    == <<viewer, place, going, asked, copy, shown, open, busy, failed>>
counts  == <<moves, faults>>
history == <<rev, copyRev, ownRev, mine, behind, surprised>>
all     == <<vars, page, wire, serves, counts, history>>

Places  == {"form", "list", "detail"}
Kinds   == {"free", "ask", "load", "status", "proposal", "milestone"}
Row     == [status : Status, proposal : Amounts \cup {NoAmount}]
Asked   == [inquiries : Nat, messages : Nat, requests : Nat]
Buttons == Status \cup {"PROPOSAL", "submitting", None}

\* A handler: what it sends, how far it is, and the answer on its way to it.
Work ==
  [kind    : Kinds,
   step    : {"inquire", "thread", "create", "out", "in", "done", "lost", "again", "reply"},
   to      : Status,
   amount  : Amounts \cup {NoAmount},
   isNull  : BOOLEAN,
   row     : Row \cup {None},
   listed  : SUBSET Milestones,
   seen    : Nat,               \* history: rev of the copy it was started on, or of its answer
   mounted : BOOLEAN]           \* the page that started it is still there

Free == [kind |-> "free", step |-> "out", to |-> "PENDING", amount |-> NoAmount, isNull |-> FALSE,
         row |-> None, listed |-> {}, seen |-> 0, mounted |-> TRUE]
Start(kind, step) == [Free EXCEPT !.kind = kind, !.step = step, !.seen = copyRev]

PageTypeOK ==
  /\ viewer \in {"client", "developer", None} /\ place \in Places /\ going \in BOOLEAN
  /\ asked \in Asked
  /\ copy \in Row \cup {None} /\ shown \in SUBSET Milestones
  /\ open \in BOOLEAN /\ busy \in Buttons /\ failed \in BOOLEAN
  /\ wire \in [1 .. MaxWork -> Work]
  /\ serves \in [Calls -> 0 .. MaxWork]
  /\ moves \in 0 .. MaxMoves /\ faults \in 0 .. MaxFaults
  /\ rev \in Nat /\ copyRev \in Nat /\ ownRev \in Nat
  /\ mine \in SUBSET Milestones /\ behind \in BOOLEAN /\ surprised \in BOOLEAN

\* The lists open on a request that is there, the client's form before there
\* is one.
PagesInit ==
  /\ Init
  /\ viewer \in {"client", "developer", None}
  /\ place \in IF viewer = "client" THEN {"form", "list"} ELSE {"list"}
  /\ LET n == IF place = "form" THEN 0 ELSE 1
     IN  asked = [inquiries |-> n, messages |-> n, requests |-> n]
  /\ going = FALSE /\ copy = None /\ shown = {} /\ open = FALSE /\ busy = None /\ failed = FALSE
  /\ rev = 0 /\ copyRev = 0 /\ ownRev = 0 /\ mine = {} /\ behind = FALSE /\ surprised = FALSE
  /\ wire = [i \in 1 .. MaxWork |->
               IF i = 1 /\ place = "list" /\ viewer # None THEN Start("load", "again") ELSE Free]
  /\ serves = [c \in Calls |-> 0]
  /\ moves = 0 /\ faults = 0

IsAt(i, kinds, step) == wire[i].kind \in kinds /\ wire[i].step = step
Become(i, w)         == wire' = [wire EXCEPT ![i] = w]
ToStep(i, step)      == Become(i, [wire[i] EXCEPT !.step = step])
Lowest(i)            == wire[i] = Free /\ \A j \in 1 .. i - 1 : wire[j] # Free

\* While nobody has a page open, the calls are not counted.
Click ==
  /\ viewer # None => moves < MaxMoves
  /\ moves' = IF viewer = None THEN moves ELSE moves + 1
  /\ UNCHANGED faults

\* A handler begins: error is cleared and its button disabled.
Handler(button, w) ==
  /\ Click
  /\ \E i \in 1 .. MaxWork : Lowest(i) /\ Become(i, w)
  /\ busy' = button /\ failed' = FALSE
  /\ UNCHANGED <<vars, viewer, place, going, asked, copy, shown, open, serves, history>>

-----------------------------------------------------------------------------
(* The form *)

Submit == place = "form" /\ busy = None /\ Handler("submitting", Start("ask", "inquire"))

\* trackProjectInquiry, createMessageThread, createHireRequest.
NextStep(step) == CASE step = "inquire" -> "thread" [] step = "thread" -> "create"
                    [] OTHER -> "done"
Leaves(step)   == CASE step = "inquire" -> "inquiries" [] step = "thread" -> "messages"
                    [] OTHER -> "requests"

Ask(i) ==
  /\ wire[i].kind = "ask" /\ wire[i].step \in {"inquire", "thread", "create"}
  /\ asked' = [asked EXCEPT ![Leaves(wire[i].step)] = @ + 1]
  /\ ToStep(i, NextStep(wire[i].step))
  /\ UNCHANGED <<vars, viewer, place, going, copy, shown, open, busy, failed, serves, counts,
                 history>>

\* submitting is cleared before the router has left the page.
Announce(i) ==
  /\ IsAt(i, {"ask"}, "done")
  /\ going' = TRUE
  /\ busy' = IF wire[i].mounted THEN None ELSE busy
  /\ Become(i, Free)
  /\ UNCHANGED <<vars, viewer, place, asked, copy, shown, open, failed, serves, counts, history>>

\* A page is left with its handlers running, and another one mounts and loads.
Show(dest, pushed) ==
  /\ place' = dest /\ going' = pushed
  /\ copy' = None /\ shown' = {} /\ open' = FALSE /\ busy' = None /\ failed' = FALSE
  /\ \E i \in 1 .. MaxWork :
       /\ Lowest(i)
       /\ wire' = [j \in 1 .. MaxWork |->
                     IF j = i THEN Start("load", "again")
                     ELSE [wire[j] EXCEPT !.mounted = wire[j] = Free]]
  /\ UNCHANGED <<vars, viewer, asked, serves, history>>

Arrive  == going /\ Show("list", FALSE) /\ UNCHANGED counts
OpenRequest ==
  place = "list" /\ copy # None /\ copy.status = "ACCEPTED" /\ Show("detail", going) /\ UNCHANGED counts
BackToList  == place = "detail" /\ Show("list", going) /\ UNCHANGED counts

-----------------------------------------------------------------------------
(* The lists *)

\* Mutant: a request under review may be accepted.
ClientAcceptsEarly(s) ==
  CASE s \in {"PROPOSAL_SENT", "NEGOTIATING"} -> {"ACCEPTED", "NEGOTIATING", "REJECTED"}
    [] s \in {"PENDING", "REVIEWING"}         -> {"ACCEPTED", "CANCELLED"}
    [] OTHER                                  -> {}

\* The buttons of a card.
ClientOffers(s) ==
  CASE s \in {"PROPOSAL_SENT", "NEGOTIATING"} -> {"ACCEPTED", "NEGOTIATING", "REJECTED"}
    [] s \in {"PENDING", "REVIEWING"}         -> {"CANCELLED"}
    [] OTHER                                  -> {}
DeveloperOffers(s) ==
  (IF s = "PENDING" THEN {"REVIEWING"} ELSE {}) \cup (IF s \in Closed THEN {} ELSE {"REJECTED"})
Offers == IF viewer = "client" THEN ClientOffers(copy.status) ELSE DeveloperOffers(copy.status)

\* Only the button that was pressed is disabled.
MutateStatus(to) ==
  /\ place = "list" /\ copy # None
  /\ to \in Offers /\ busy # to
  /\ Handler(to, [Start("status", "out") EXCEPT !.to = to])

ToggleForm ==
  /\ copy # None
  /\ \/ place = "list" /\ viewer = "developer" /\ copy.status \in {"PENDING", "REVIEWING", "NEGOTIATING"}
     \/ place = "detail" /\ viewer = "client" /\ copy.status \in Eligible
  /\ open' = ~open
  /\ UNCHANGED <<vars, viewer, place, going, asked, copy, shown, busy, failed, wire, serves, counts,
                 history>>

\* An empty amount is left out; one that is no number is NaN, which JSON has as
\* null.  An open form stays when the request is closed.
SubmitForm(n, isNull) ==
  /\ place = "list" /\ copy # None /\ open /\ busy # "PROPOSAL"
  /\ Handler("PROPOSAL",
             [Start("proposal", "out") EXCEPT !.amount = n, !.isNull = isNull])

\* handleCreate takes a finite amount above zero only.
CreateForm(n) ==
  /\ place = "detail" /\ copy # None /\ open /\ copy.status \in Eligible /\ busy = None
  /\ Handler("submitting", [Start("milestone", "out") EXCEPT !.amount = n])

-----------------------------------------------------------------------------
(* The server *)

\* A handler's call begins as HireRequest has it, or is refused.
Refusal(i) ==
  \/ IsAt(i, {"status"}, "out") /\ ~Allowed(viewer, wire[i].to)
  \/ IsAt(i, {"proposal"}, "out") /\ status \in Closed
  \/ IsAt(i, {"milestone"}, "out") /\ status \notin Eligible

Refuse(i) ==
  /\ Refusal(i)
  /\ \E c \in Calls : call[c] = Idle
  /\ ToStep(i, "lost")
  /\ surprised' = (surprised \/ (wire[i].kind # "proposal" /\ wire[i].seen = rev))
  /\ UNCHANGED <<vars, page, serves, counts, rev, copyRev, ownRev, mine, behind>>

Accept(i, c) ==
  /\ wire[i].step = "out"
  /\ \/ wire[i].kind = "status" /\ UpdateStatus(c, viewer, wire[i].to)
     \/ wire[i].kind = "proposal" /\ SubmitProposal(c, viewer, wire[i].amount, wire[i].isNull)
     \/ wire[i].kind = "milestone"
        /\ \E m \in Milestones : CreateMilestone(c, viewer, m, wire[i].amount)
  /\ serves' = [serves EXCEPT ![c] = i]
  /\ ToStep(i, "in")
  /\ UNCHANGED <<page, counts, history>>

\* Anybody, on this request, without these pages.
Direct(c) ==
  /\ asked.requests > 0
  /\ Click
  /\ \/ \E a \in Actors, to \in Status : UpdateStatus(c, a, to)
     \/ \E a \in Actors, n \in Amounts \cup {NoAmount}, z \in BOOLEAN :
          (z => n = NoAmount) /\ SubmitProposal(c, a, n, z)
     \/ \E a \in Actors, m \in Milestones, n \in Amounts : CreateMilestone(c, a, m, n)
  /\ UNCHANGED <<page, wire, serves, history>>

Settle(c, step) ==
  /\ wire' = IF serves[c] = 0 THEN wire ELSE [wire EXCEPT ![serves[c]].step = step]
  /\ serves' = [serves EXCEPT ![c] = 0]

WriteRow(c) ==
  /\ WriteStatus(c) \/ WriteProposal(c)
  /\ rev' = IF viewer = None THEN rev ELSE rev + 1
  /\ ownRev' = IF serves[c] = 0 THEN ownRev ELSE rev'
  /\ Settle(c, "done")
  /\ UNCHANGED <<page, counts, copyRev, mine, behind, surprised>>

SumUp(c) ==
  /\ Sum(c)
  /\ IF call'[c] = Idle THEN Settle(c, "lost") ELSE UNCHANGED <<wire, serves>>
  /\ UNCHANGED <<page, counts, history>>

InsertRow(c) ==
  /\ Insert(c)
  /\ mine' = IF serves[c] = 0 THEN mine ELSE mine \cup {call[c].milestone}
  /\ Settle(c, "done")
  /\ UNCHANGED <<page, counts, rev, copyRev, ownRev, behind, surprised>>

Refunded(m) == Click /\ m \notin refunded /\ Refund(m) /\ UNCHANGED <<page, wire, serves, history>>

\* list, getById and listForHireRequest.
Answer(i) ==
  /\ wire[i].step = "again"
  /\ Become(i, [wire[i] EXCEPT !.step = "reply", !.row = [status |-> status, proposal |-> proposal],
                               !.listed = {m \in Milestones : amount[m] # NoAmount}, !.seen = rev])
  /\ UNCHANGED <<vars, page, serves, counts, history>>

-----------------------------------------------------------------------------
(* The rest of a handler *)

\* Mutant: the list is not read again.
DoneForgetsRefresh(i) ==
  /\ IsAt(i, {"status", "proposal", "milestone"}, "done")
  /\ Become(i, Free)
  /\ busy' = None
  /\ UNCHANGED <<vars, viewer, place, going, asked, copy, shown, open, failed, serves, counts, history>>

\* The proposal's form is closed before the list is read again.
Done(i) ==
  /\ IsAt(i, {"status", "proposal", "milestone"}, "done")
  /\ ToStep(i, "again")
  /\ open' = (open /\ ~(wire[i].kind = "proposal" /\ wire[i].mounted))
  /\ UNCHANGED <<vars, viewer, place, going, asked, copy, shown, busy, failed, serves, counts, history>>

\* The detail page keeps the request that it loaded first; a handler of its
\* panel reads the milestones only.  finally enables every button.
TakeReply(i) ==
  LET w == wire[i] IN
  /\ w.step = "reply"
  /\ Become(i, Free)
  /\ IF w.mounted
     THEN /\ copy' = IF w.kind = "milestone" THEN copy ELSE w.row
          /\ copyRev' = IF w.kind = "milestone" THEN copyRev ELSE w.seen
          /\ shown' = IF place = "detail" THEN w.listed ELSE shown
          /\ open' = (open /\ w.kind # "milestone")
          /\ behind' = (behind \/ w.seen < copyRev)
          /\ busy' = IF w.kind = "load" THEN busy ELSE None
     ELSE /\ behind' = (behind \/ w.kind # "load")
          /\ UNCHANGED <<copy, copyRev, shown, open, busy>>
  /\ UNCHANGED <<vars, viewer, place, going, asked, failed, serves, counts, rev, ownRev, mine, surprised>>

\* A request or its answer is lost.
Lose(i) ==
  /\ wire[i] # Free /\ wire[i].step \notin {"in", "lost"}
  /\ faults < MaxFaults /\ faults' = faults + 1
  /\ ToStep(i, "lost")
  /\ UNCHANGED <<vars, page, serves, moves, history>>

Catch(i) ==
  /\ wire[i].step = "lost"
  /\ Become(i, Free)
  /\ IF wire[i].mounted
     THEN /\ failed' = TRUE /\ busy' = IF wire[i].kind = "load" THEN busy ELSE None
          /\ UNCHANGED behind
     ELSE /\ behind' = (behind \/ wire[i].kind \notin {"ask", "load"})
          /\ UNCHANGED <<failed, busy>>
  /\ UNCHANGED <<vars, viewer, place, going, asked, copy, shown, open, serves, counts,
                 rev, copyRev, ownRev, mine, surprised>>

-----------------------------------------------------------------------------
PagesNext ==
  \/ Submit \/ Arrive \/ OpenRequest \/ BackToList \/ ToggleForm
  \/ \E to \in Status : MutateStatus(to)
  \/ \E n \in Amounts \cup {NoAmount}, z \in BOOLEAN : (z => n = NoAmount) /\ SubmitForm(n, z)
  \/ \E n \in Amounts : CreateForm(n)
  \/ \E i \in 1 .. MaxWork :
       Ask(i) \/ Announce(i) \/ Refuse(i) \/ Answer(i) \/ Done(i) \/ TakeReply(i) \/ Lose(i) \/ Catch(i)
  \/ \E i \in 1 .. MaxWork, c \in Calls : Accept(i, c)
  \/ \E c \in Calls : Direct(c) \/ WriteRow(c) \/ SumUp(c) \/ InsertRow(c)
  \/ \E m \in Milestones : Refunded(m)

PagesSpec == PagesInit /\ [][PagesNext]_all

-----------------------------------------------------------------------------
(* Properties *)

\* What a card offers is what assertStatusChangeAllowed lets through, and the
\* panel's list of statuses is the service's: a handler started on a copy that
\* is still true is refused neither for its status nor for the request's.
OfferedIsAllowed == ~surprised

\* A page with nothing in flight and no error shows what it has written itself,
\* whoever wrote in between; but for answers that overtook each other and for
\* handlers of a page that was left.
OwnWritesAreShown ==
  (\A i \in 1 .. MaxWork : wire[i] = Free) /\ copy # None /\ ~failed /\ ~behind =>
    /\ place = "list" => copyRev >= ownRev
    /\ place = "detail" => mine \subseteq shown

\* A party can rely on the page it has open: on what it offers and what it shows.
PagesCanBeRelied == OfferedIsAllowed /\ OwnWritesAreShown
==============================================================================
