-------------------------------- MODULE Browse --------------------------------
(***************************************************************************)
(* A page that lists projects by filter, query and page number: /projects, *)
(* whose effect is cancelled when it runs again, and the client's feed,    *)
(* whose effect is not.  The filters are state of the page, the query and  *)
(* the page number are in the URL, which changes when the router has       *)
(* navigated; a page number past the last page is put right through the    *)
(* URL too.  The server answers with the number of pages there are then.   *)
(***************************************************************************)
EXTENDS Hearts

CONSTANTS
  Deeds,       \* bound: what the user does, "browse" or "like"
  Filters,     \* what may be chosen on the page
  Queries,     \* what may be searched for
  Nothing,     \* nothing
  MaxPage,     \* bound: the most pages a list has
  MaxWire,     \* bound: how many requests are in flight at once
  MaxMoves,    \* bound: how often the user filters, searches or turns the page
  MaxChanges,  \* bound: how often the projects change
  MaxFaults    \* bound: how many requests fail

ASSUME BrowseAssumption ==
  /\ Deeds \subseteq {"browse", "like"}
  /\ Nothing \notin Filters \cup Queries /\ Filters # {} /\ Queries # {}
  /\ Nothing \notin [query : Queries, page : 1 .. MaxPage]
  /\ {MaxPage, MaxWire} \subseteq Nat \ {0}
  /\ {MaxMoves, MaxChanges, MaxFaults} \subseteq Nat

VARIABLES
  deed,      \* what the user does
  feed,      \* the page is the feed, else it is /projects
  pages,     \* the server: how many pages each list has, one if it is empty
  filter, url,
  going,     \* the URL router.replace is navigating to
  wire,      \* the requests in flight, the oldest first
  shown,     \* the list and page that are shown
  loading, error,
  moves, changes, faults,   \* what the bounds count
  astray     \* history: a reply came after that of a younger request, or the user
             \* turned to the page he was on while it was being put right

counts == <<moves, changes, faults>>
page   == <<filter, url, going, shown, loading, error>>
fixed  == <<deed, feed>>
lists  == <<fixed, pages, page, wire, counts, astray>>
browseVars == <<lists, heartVars>>

Url   == [query : Queries, page : 1 .. MaxPage]
List  == [filter : Filters, url : Url]
NothingShown == [filter |-> Nothing, url |-> Nothing]

\* alive: its effect has not been cancelled; late: a younger one was answered.
Ask == [list : List, alive : BOOLEAN, late : BOOLEAN, pages : 0 .. MaxPage]

BrowseTypeOK ==
  /\ deed \in Deeds /\ feed \in BOOLEAN
  /\ pages \in [Filters \X Queries -> 1 .. MaxPage]
  /\ filter \in Filters /\ url \in Url /\ going \in Url \cup {Nothing}
  /\ wire \in Seq(Ask) /\ Len(wire) <= MaxWire
  /\ shown \in List \cup {NothingShown}
  /\ loading \in BOOLEAN /\ error \in BOOLEAN
  /\ moves \in 0 .. MaxMoves /\ changes \in 0 .. MaxChanges /\ faults \in 0 .. MaxFaults
  /\ astray \in BOOLEAN

-----------------------------------------------------------------------------
(* The effect asks for the list. *)

Request(f, u) ==
  [list |-> [filter |-> f, url |-> u], alive |-> TRUE, late |-> FALSE, pages |-> 0]

\* Mutant: nothing is cancelled.
AskAlongside(f, u) ==
  /\ Len(wire) < MaxWire
  /\ wire' = Append(wire, Request(f, u))
  /\ loading' = TRUE /\ error' = FALSE

\* The effect runs again: on /projects the requests of the last run are cancelled.
AskAgain(f, u) ==
  /\ Len(wire) < MaxWire
  /\ wire' = Append([i \in DOMAIN wire |-> [wire[i] EXCEPT !.alive = feed]], Request(f, u))
  /\ loading' = TRUE /\ error' = FALSE

\* A page that opens; or a feed that has its list, with the client at its hearts.
ListInit ==
  /\ feed \in BOOLEAN
  /\ pages \in [Filters \X Queries -> 1 .. MaxPage]
  /\ filter \in Filters /\ url \in Url
  /\ wire = <<Request(filter, url)>>
  /\ shown = NothingShown /\ loading = TRUE

ListLoaded ==
  /\ feed = TRUE
  /\ pages = [l \in Filters \X Queries |-> 1]
  /\ filter = (CHOOSE f \in Filters : TRUE) /\ url = [query |-> CHOOSE q \in Queries : TRUE, page |-> 1]
  /\ wire = <<>>
  /\ shown = [filter |-> filter, url |-> url] /\ loading = FALSE

HeartsLoaded ==
  /\ place = "feed" /\ listed = Projects
  /\ liked = {} /\ hearts = {} /\ load = Taken /\ pending = {} /\ failed = FALSE
  /\ posts = <<>> /\ presses = 0 /\ losses = 0 /\ doubted = {}

BrowseInit ==
  /\ deed \in Deeds
  /\ IF deed = "browse" THEN ListInit /\ HeartsLoaded ELSE ListLoaded /\ HeartsInit
  /\ going = Nothing /\ error = FALSE
  /\ moves = 0 /\ changes = 0 /\ faults = 0
  /\ astray = FALSE

-----------------------------------------------------------------------------
(* The user. *)

Move == moves < MaxMoves /\ moves' = moves + 1

\* A filter is chosen: the list is asked for with the page number that is still
\* in the URL, and the first page is navigated to.
ChooseFilter(f) ==
  /\ f # filter /\ Move
  /\ filter' = f
  /\ AskAgain(f, url)
  /\ going' = [url EXCEPT !.page = 1]
  /\ UNCHANGED <<fixed, pages, url, shown, changes, faults, astray>>

\* updateQueryInUrl, on the feed.
Search(q) ==
  /\ feed /\ q # url.query /\ Move
  /\ going' = [query |-> q, page |-> 1]
  /\ UNCHANGED <<fixed, pages, filter, url, wire, shown, loading, error, changes, faults, astray>>

\* updatePageInUrl
Turn(p) ==
  /\ Move
  /\ going' = [url EXCEPT !.page = p]
  /\ astray' = (astray \/ (p = url.page /\ going # Nothing))
  /\ UNCHANGED <<fixed, pages, filter, url, wire, shown, loading, error, changes, faults>>

Navigate ==
  /\ going # Nothing /\ going' = Nothing
  /\ url' = going
  /\ IF url' = url THEN UNCHANGED <<wire, loading, error>> ELSE AskAgain(filter, url')
  /\ UNCHANGED <<fixed, pages, filter, shown, counts, astray>>

-----------------------------------------------------------------------------
(* The server. *)

ProjectsChange(f, q, n) ==
  /\ changes < MaxChanges /\ changes' = changes + 1
  /\ pages' = [pages EXCEPT ![<<f, q>>] = n]
  /\ UNCHANGED <<fixed, page, wire, moves, faults, astray>>

Serve(i) ==
  /\ wire[i].pages = 0
  /\ wire' = [wire EXCEPT ![i].pages = pages[<<wire[i].list.filter, wire[i].list.url.query>>]]
  /\ UNCHANGED <<fixed, pages, page, counts, astray>>

-----------------------------------------------------------------------------
(* The reply. *)

Answered(i) ==
  /\ wire' = [j \in 1 .. Len(wire) - 1 |->
                IF j < i THEN [wire[j] EXCEPT !.late = TRUE] ELSE wire[j + 1]]
  /\ astray' = (astray \/ (wire[i].alive /\ wire[i].late))

\* Mutant: the reply for a page past the last one is dropped.
ReceiveWithinList(i) ==
  LET list == wire[i].list IN
  /\ wire[i].pages # 0 /\ wire[i].alive
  /\ shown' = IF list.url.page > wire[i].pages THEN shown ELSE list
  /\ loading' = FALSE
  /\ Answered(i)
  /\ UNCHANGED <<fixed, pages, filter, url, going, error, counts>>

\* A page past the last one goes back to the last one, through the URL as it was
\* when the request was made; otherwise the list is shown.
Receive(i) ==
  LET list == wire[i].list IN
  /\ wire[i].pages # 0 /\ wire[i].alive
  /\ IF list.url.page > wire[i].pages
     THEN going' = [list.url EXCEPT !.page = wire[i].pages] /\ UNCHANGED shown
     ELSE shown' = list /\ UNCHANGED going
  /\ loading' = FALSE
  /\ Answered(i)
  /\ UNCHANGED <<fixed, pages, filter, url, error, counts>>

\* The reply of an effect that was cancelled, whatever it says.
Ignore(i) ==
  /\ ~wire[i].alive
  /\ Answered(i)
  /\ UNCHANGED <<fixed, pages, page, counts>>

Fail(i) ==
  /\ wire[i].alive
  /\ faults < MaxFaults /\ faults' = faults + 1
  /\ loading' = FALSE /\ error' = TRUE
  /\ Answered(i)
  /\ UNCHANGED <<fixed, pages, filter, url, going, shown, moves, changes>>

-----------------------------------------------------------------------------
(* The fit panel, which orders the cards of the feed by what the client says *)
(* he needs.  Weeks are counted in sevenths; nought is nothing said, a price *)
(* that is not fixed.                                                        *)

\* A time named in the text of the project, or else that of its category.
Weeks(amount, unit) ==
  LET days == CASE unit = "day" -> amount [] unit = "week" -> 7 * amount [] unit = "month" -> 28 * amount
  IN IF days < 7 THEN 7 ELSE days
DefaultWeeks == {7 * n : n \in 5 .. 10}

BudgetFit(budget, price) ==
  CASE budget = 0          -> 70
    [] budget > 0 /\ price = 0 -> 65
    [] OTHER -> IF budget >= price THEN 100
                ELSE IF 5 * budget >= 4 * price THEN 75
                ELSE IF 5 * budget >= 3 * price THEN 50 ELSE 20

TimelineFit(deadline, weeks) ==
  IF deadline = 0 THEN 70
  ELSE IF 7 * deadline >= weeks THEN 100
  ELSE IF 35 * deadline >= 4 * weeks THEN 70
  ELSE IF 35 * deadline >= 3 * weeks THEN 40 ELSE 15

StackFit(matched, required) ==
  IF required = 0 THEN 70 ELSE (200 * matched + required) \div (2 * required)

Fit(card, need) ==
  (4 * BudgetFit(need.budget, card.price) + 3 * TimelineFit(need.deadline, card.weeks)
     + 3 * StackFit(card.matched, need.required) + 5) \div 10

-----------------------------------------------------------------------------
ListNext ==
  \/ \E f \in Filters : ChooseFilter(f) \/ \E q \in Queries, n \in 1 .. MaxPage : ProjectsChange(f, q, n)
  \/ \E q \in Queries : Search(q)
  \/ \E p \in 1 .. MaxPage : Turn(p)
  \/ Navigate
  \/ \E i \in DOMAIN wire : Serve(i) \/ Receive(i) \/ Ignore(i) \/ Fail(i)

BrowseNext ==
  \/ deed = "browse" /\ ListNext /\ UNCHANGED heartVars
  \/ deed = "like" /\ HeartsNext /\ UNCHANGED lists

\* A navigation ends and the oldest request is answered; nobody need do anything else.
BrowseFairness ==
  /\ SF_lists(Navigate)     \* strong only because MaxWire may hold it up
  /\ WF_lists(wire # <<>> /\ Serve(1))
  /\ WF_lists(wire # <<>> /\ (Receive(1) \/ Ignore(1)))

BrowseSpec     == BrowseInit /\ [][BrowseNext]_browseVars
BrowseFairSpec == BrowseSpec /\ BrowseFairness

-----------------------------------------------------------------------------
(* Properties *)

Wanted == [filter |-> filter, url |-> url]

\* A list that is shown as loaded, with no navigation on its way, is the one of
\* the filter and the URL; the feed says so only when its last reply has come,
\* and, as it cancels nothing, unless the replies came out of order.
ShownIsWanted ==
  ~loading /\ ~error /\ going = Nothing /\ ~astray /\ (feed => wire = <<>>) => shown = Wanted

\* Bounds: a few needs, and the cards there may be.
Needs == [budget : {0, 3, 4, 5, 8}, deadline : {0, 1, 4, 8, 12}, required : 0 .. 2]
Cards == [price : {0, 5, 10}, matched : 0 .. 2,
          weeks : DefaultWeeks \cup UNION {{Weeks(1, u), Weeks(3, u)} : u \in {"day", "week", "month"}}]

\* A card that costs no more, takes no longer and matches as much of the stack
\* is not put below another, and a fit of 100 says that everything was said and
\* everything is met.
FitIsFair ==
  \A need \in Needs :
    LET apt == {card \in Cards : card.matched <= need.required} IN
    /\ \A x, y \in apt :
         /\ 0 < x.price /\ x.price <= y.price /\ x.weeks <= y.weeks /\ x.matched >= y.matched
         => Fit(x, need) >= Fit(y, need)
    /\ \A x \in apt :
         Fit(x, need) = 100 <=> /\ 0 < x.price /\ x.price <= need.budget
                                /\ x.weeks <= 7 * need.deadline
                                /\ 0 < need.required /\ x.matched = need.required

\* The list, the hearts and the order of the cards.
BrowseInv == BrowseTypeOK /\ ShownIsWanted /\ HeartsInv /\ FitIsFair

\* Once the user and the projects rest, what the URL asks for is shown, or an error
\* is: putting a page number right ends, and ends at a page that is shown.
BrowseSettles ==
  <>[](astray \/ error \/ (shown = Wanted /\ ~loading /\ going = Nothing /\ wire = <<>>))
===============================================================================
