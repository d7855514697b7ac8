# Find a Client: formal models

TLA+ models of the parts of this repository in which order matters: the escrow
of milestones against Stripe, hire requests and their budget, the versioned
cache, the sessions of an account on both sides of the wire, likes and the
ranking they feed, messages with their notifications and mails, profiles and the
dashboard put together from them, the platform's entities and engines, and the
pages of the web client whose requests overlap.  TLC checks each on small
instances; TLAPS proves the central invariants for every value of the constants.

The models are written from the code under `src/backend/src`,
`src/backend/prisma/schema.prisma` and `src/frontend/src`.  `PROJECT.json` maps
every definition to the lines it stands for.

## 1. The system

A NestJS backend over PostgreSQL (Prisma), Redis, Stripe, Supabase Auth, Resend
and Cloudinary, and a Next.js client.  The backend is one Node process per
instance: it runs one piece of JavaScript at a time, but every `await` lets other
requests run, and it takes no lock anywhere on the paths modelled here.  What is
atomic is a single SQL statement, a `$transaction` that does not read what others
write (the default isolation is READ COMMITTED), and a unique index.  A page of
the client is the same thing once more: handlers and effects that send, wait, and
then write React state.

| Component | State it keeps | Operations | Interacts with |
|---|---|---|---|
| Milestone escrow (`milestones/`) | Milestone, Payment, Payout, Dispute, User.stripeAccountId | fund, submit, release, dispute, resolve, lists, payout account | Stripe (calls and webhooks), hire requests, cache, notifications |
| Webhook intake (`payments/`) | StripeWebhookEvent | handleStripeWebhook | calls the escrow's `apply...` handlers |
| Hire requests (`hire-requests/`) | HireRequest | create, updateStatus, submitProposal | milestones read its status and amounts |
| Milestone budget (`milestones/`) | Milestone.amount | createForHireRequest | reads the hire request |
| Cache (`common/cache/`) | Redis or a Map, a version per namespace | get, set, composeKey, invalidateNamespace | nearly every service |
| Auth sessions (`auth/`, guard) | User.isVerified, RefreshSession, AuthActionToken, cookies | register, login, links, refresh, logout, password, OAuth | Supabase Auth, notifications, admin |
| Admin (`admin/`) | the rows of the others | bans, roles, passwords, verification, deletion | sessions, users |
| Messages (`messages/`) | Thread, Message | createThread, send, attach, markRead, listThreads | notifications, Supabase realtime |
| Notifications (`notifications/`) | Notification, EmailDeliveryLog | dispatch, read, Resend webhook | Resend |
| Projects (`projects/`) | Project and its counters, ProjectLike, Saved | CRUD, like, save, view, inquiry, ranked lists | cache, search, developers list |
| Media (`media/`) | Media, Project.demoVideoUrl | uploadFile, deleteFile | Cloudinary, projects |
| Users (`users/`) | User: profile and GitHub verification | getMe, updateMe, verify, dashboard | Supabase identities, projects, messages, cache |
| Reviews (`reviews/`) | Review | create, list | milestones, projects |
| Questions, search, AI | rows of their own, none | inserts and reads | projects |
| Platform (`platform/`) | tenants, entities, stock, sales, tickets | CRUD; pricing, tax, sales and inventory engines | cache |
| Session of a browser (`lib/api.ts`) | cookie jar, a refresh in flight and a cached session per tab | every call of the API | the guard, auth sessions |
| Pages (`app/`, `components/`) | React state, the URL | messages, project list and feed, project page and editor, new project, hiring, milestones with payment and payout, settings, dashboard, account, admin | `lib/api.ts`, the services above |

What is hard here, component by component (`PROJECT.json` "hazards" has each at
its line):

* **Escrow.** A call checks the milestone's status, calls Stripe, and writes the
  status blindly some awaits later.  Two calls, or a call and a webhook,
  interleave at every await; the process may die at any; Stripe delivers events
  late, in any order, more than once.  It is correct when money moves once, when
  no row claims money that did not move, and when what Stripe reports ends up in
  the rows.
* **Hire requests.** Check and write are separate.  Correct when a closed deal is
  frozen, nobody is hired alone, and milestones stay within the agreed amount.
* **Cache.** Read-through against invalidation, over failing Redis commands.
  Correct when a reader never sees a row older than the last invalidated write
  before it began; and, when that is lost, when it comes back with the TTL.
* **Sessions.** A sign-in proves something, awaits, and upserts a row that
  anybody may have revoked meanwhile.  Correct when a session stands only where
  somebody vouched for the address, and when a revocation holds.
* **The browser's side of a session.** Tabs share the cookies and not the
  refresh; a reply can be lost after its cookies were rotated.  Correct when one
  tab with a live session is served whatever it does, when cookies never mix two
  sign-ins, and when the cached session names the present user.
* **Likes and ranking.** A toggle reads, inserts or deletes, and counts, in four
  statements; the score is computed from what was read.  Correct when the count is
  the number of rows, when the answer given to the user is true, and when being
  viewed, liked or inquired about never lowers a project in a list.
* **Messages.** A message, its notification, its mail and its log are four writes
  with no transaction, and the reader marks it read at any of them.  Correct when
  no unread notification outlives its message, when every unread message is in a
  thread somebody can open, and when the log follows the provider.
* **An account beside Supabase.** Password, ban and existence are Supabase's, the
  role is in both places, the row and the links are the backend's; a handler writes
  them one after the other.  Correct when the password announced last is the one
  that works, when rows and roles agree, and when a link is not spent for nothing.
* **Profiles.** A save decides on a read and sends a whole form filled from another.
  Correct when a verification stands on the URL that was verified, and when a page
  that wrote last shows what is stored.
* **The dashboard.** Eight queries, one cache entry, writers in four services.
  Correct when no part is older than what had been invalidated when it was asked for.
* **Platform.** Caches that nothing invalidates; engines that write line by line.
  Correct when no answer is older than its TTL, when a price can be explained, and
  when stock is the sum of its movements.
* **Pages.** Replies overtake each other, carry what the page had selected when it
  asked, and find a page that has moved on.  Correct when what is shown belongs to
  what is selected, when the page settles once it is left alone, and when nothing
  that was announced as saved is missing.

## 2. Modules

| Module | What it is |
|---|---|
| `Escrow` | one milestone, its payments, payouts, disputes, webhook rows, and Stripe |
| `EscrowInvariant` | its inductive invariants: `IInv`, and `SInv` with what the checks achieve until a call writes beside another |
| `FundingPages` | the pages over it: milestone panel, payment form, payout account, reviews |
| `EscrowProofs` | the proofs about both, with the invariant `PagesInv` of the pages |
| `HireRequest` | one hire request and the milestones committed against it |
| `HireRequestInvariant` | its invariants: `HInv`, and `BudgetInv` of the milestones |
| `HirePages` | the pages over it: the form, the lists, the detail pages |
| `HireRequestProofs` | the proofs about both, with `PagesInv` |
| `SettledRead` | abstract: what a cache promises a reader |
| `Cache` | CacheService with the handlers around it; implements `SettledRead` |
| `CacheInvariant` | its inductive invariant `CInv` |
| `AuthSession` | one account, its session row, its e-mailed links, its tokens |
| `AuthSessionInvariant` | its invariant `AInv` |
| `AccountPages` | the pages of an account and the admin's on it, with Supabase |
| `AuthSessionProofs` | the proofs about both, with `PagesInv` and `PasswordInv` |
| `Ranking` | the scores projects and developers are listed by, as pure operators |
| `Engagement` | one project, its likes, saves, views and inquiries; uses `Ranking` |
| `EngagementInvariant` | its invariants: `LInv` of the rows, `EInv` of what users are told |
| `Profile` | a user's row, the GitHub verification and both settings pages |
| `Dashboard` | the developer's dashboard and its cache, over `Engagement` and `Profile` |
| `DashboardInvariant` | its invariants: `BInv` of the cache, `ProfInv` of the settings |
| `DashboardProofs` | the proofs about all three, refinement included |
| `Messaging` | two users, their threads, messages, notifications and mails |
| `MessagingInvariant` | its invariant `MInv` |
| `BrowserSession` | a browser, its tabs, its cookies, and the server's answers |
| `ChatPage` | the two messages pages |
| `MessagingProofs` | the proofs about messages and their pages, with the invariant `ChatIInv` of these |
| `Hearts` | the like buttons of the client's feed, and the page of what he likes |
| `Browse` | the projects page and the client's feed, its hearts and its fit panel |
| `BrowserSessionProofs` | the proofs about the browser, with its invariant `SInv`, and about lists and hearts, with `ListIInv` and `HeartsIInv` |
| `ProjectPage` | the project page with its editor, the form for a new project, and their rows |
| `ProjectPageProofs` | its invariant `PInv`, and the proofs |
| `Blueprints`, `Pricing` | the platform's tables, prices and taxes, as pure operators |
| `Platform` | one tenant: entities, caches, carts, sales, stock; uses both |
| `PlatformProofs` | the proofs about the cache, refinement included, and about the platform, with its invariants |
| `MC...` | where a run needs definitions: the instance TLC checks, and its symmetry |

Composition is by EXTENDS: a module of pages takes the module of its service, conjoins
to the service's actions what the pages do with them, and keeps an action `Direct` for
clients that have no page.  `Dashboard` puts two services side by side and ties the
author of the one to the user of the other.  Five refinements are proved: `Cache`
implements `SettledRead`; `FundingPages`, `HirePages` and `AccountPages` take only the
steps of `Escrow`, `HireRequest` and `AuthSession`, and `Dashboard` those of `Engagement`,
so that what is proved of a service holds with its pages around it.

All modules of the backend follow one convention.  `call` holds, for each slot of
`Calls`, the program counter and the locals of one request or webhook delivery in
flight; an action is what runs between two awaits that touch shared state; `Begin`
starts a call with its first read and check, `Return` ends it.  `Fail` (`Throw` in
`Cache`) drops a call at an await: a crash and a thrown error look the same from
the database, namely what was written before stays.  A call that is refused before
it writes anything is not an action: it changes nothing.

The pages follow another.  `wire` holds, for each slot, a request on its way, or
its reply, with the locals of the handler that waits for it; a new request takes
a free slot, and which one does not matter.  What a handler does from one `await` to the next is one
action, since the browser runs it without interruption; effects that React runs
after a render are part of the action that renders, or, where they run late, an
action of their own.  A request may be lost before the server has seen it or after.

Variables and fields whose comment begins with "history:" are not in the code.
They record what happened: which runs a property excuses, or what it compares
with.  No action depends on them, but for the bounds.  Operators whose comment begins with
"Mutant:" are not part of a specification.  Each is a plausible bug that stands
beside the definition it would replace, and shows that the property named in
`PROJECT.json` would notice it.

### Escrow

A Stripe object is named by the idempotency key that created it.  `FundKeys`,
`TransferKeys` and `RefundKeys` are kept apart.  `intent`, `reply`, `declined`,
`transfer` and `refund` are Stripe's side: a repeated key is answered with the
first answer, `Emitted` is what Stripe has to tell, and any of it may be delivered
at any time, again and again.  `payment`, `payout`, `dispute`, `status` and
`webhookRow` are the tables; the two logs are creation order, which `findFirst ...
orderBy createdAt desc` reads; `backfilled` are the payout rows without a key in
their payload, since `createPayoutTransfer` looks for it there.

Abstracted: amounts, fees and currencies (one milestone has one amount); the actor
checks (each operation is offered to whoever may call it); events, notifications
and cache calls after the last write, which throw at worst and are then `Fail`; a
developer without a payout account (a free choice in `TransferCheck`, settled in
`FundingPages`); a Prisma
`include` is one read.  A card declined while the intent is created throws, as
`Fail`.  `IN_PROGRESS` and `UNDER_REVIEW` are in the enum and never written, so
they are not in the model.  Stripe forgets keys after a day; the model does not.

### FundingPages

Each party has one panel, with a copy of the milestone (`panel.status`); `Offered` is
what the row renders for it.  A handler waits for its call, then sends for the list and
does not wait for it (`Done`, `Answer`, `TakeList`).  `OpenModal` asks for an intent
under a new key; `HandlePay`, `Confirm`, `Declined`, `Redirected` and `Poll` are the
payment form with what stripe.js answers.  A redirect loads the page as new, and what
was in flight goes on without it (`mounted`).  `Accept` starts a handler's call as
`Escrow` has it, `Refuse` is the status check that stops it, `GoOn` ties the end of the
call to the handler.  `ReadDeveloper` to `Retrieve` are the awaits of
`getPayoutAccountStatus`; `account` decides now whether `TransferCheck` refuses.
`CreateReview` and `InsertReview` are the review, whose uniqueness is the index of
`Review.milestoneId`.  `rev` and `ownRev` are history: how many writes there were, and
how many when a party's last deed was done.

### HireRequest

`Allowed` is `assertStatusChangeAllowed` with both tables of transitions;
an admin is unrestricted and writing the status a request already has is always
allowed, as in the code.  `hands` is history: who has written the row; so is
`overtaken`: the calls between whose check and write another call wrote what they checked.
`CreateMilestone`, `Sum` and `Insert` are the awaits of `createForHireRequest`:
the request is read, the standing milestones are summed (those REFUNDED do not
count), the row is inserted.  Amounts are natural numbers; dates and texts are not
modelled.

### HirePages

The client's form (an inquiry, a thread and the request, one after the other), the list
with its buttons and the proposal, and the detail page with its milestones.  Each handler
sends, waits, reads the list again and waits; `busy` is `actionId`.  One party has a
page; the other, and the same one in another program, calls directly.  `rev`, `copyRev`
and `ownRev` count the writes of the row and say which the copy includes.

### Cache

Rows are numbered by the write that made them, so "older" is `<`.  `entries` are
what is stored and has not expired, `version` is the namespace's counter (0 while
there is none), `row` the database.  `Compose`, `ComposeUnversioned` and `Seed` are
`composeKey`; `Hit`, `Miss`, `Query`, `Store` a read-through; `Write` and
`Invalidate` a handler's statement and its invalidation.  `backend` is chosen at the
start from `Backends`: the Map, a Redis that has the version key (`warm`) or not
(`cold`), or one whose commands may fail, each failure being swallowed (`failing`);
`Versioned` says whether the call site composes its key.  `settled`, `since` and `reply`
are history, and are what `SettledRead` speaks of; `settled` only grows while the backend
keeps its versions (`Reliable`: the Map or a warm Redis), which is where the promise is
made.  `Promised` instantiates the abstract module and `ReadsAreSettled` is the refinement.

### AuthSession

One account and its one `RefreshSession` row.  A refresh token holds the user and
the second it was signed in, and nothing random, so the model's token *is* that
second.  `held` are the tokens that were sent to clients; any of them may be
presented at any time.  `era` counts revocations and a call's `proof` is the count
when it proved who the caller is; `raced` are the revocations that ran while some
other call was signing in; `vouched` says that a link, a provider or an admin has
vouched for the address.  All four are history.

Supabase is external: a password check or change succeeds, or the call fails.  Not
modelled: rate limits and expiry of tokens and sessions (refusals), the access
token (it is valid for 15 minutes whatever happens), deletion of users.  A link is usable from its insert on, even before
the mail is sent.

### AccountPages

`supa` is the Supabase user, `role` the row's.  A tab has one form, whose button is
disabled while it waits, so the tabs are `AuthSession`'s slots; `stage` is the request to
Supabase that a call has still to make, and it may be refused, fail, or succeed without
an answer.  The admin's page presses one button at a time, and reads the user and the
Supabase state again after each.  `known` is the password that was last announced,
`paid` the links whose visitor was told that he is signed in; `amiss` names what has
failed half-way, or was set twice at once.

### Ranking and Engagement

`Ranking` has the scores of the project list, the search, the developers list and
the project itself as operators over whole numbers; fractions are kept in tenths or
hundredths, and the decay of freshness at three ages.  `Engagement` has one
published project.  A toggle of a like reads the project, reads its own row, inserts
or deletes it, counts, and commits; each statement sees what others have committed
by then (READ COMMITTED), `ON CONFLICT DO NOTHING` and `deleteMany` do what they do
when the row is there already, or gone.  A view, a save and an inquiry write as the
code does, the score being computed from the counters that the call has read.
`raced` are the users who had two toggles of one kind in flight, `unsure` those
who never got an answer, `toldLiked` and `toldSaved` what the others were told.

### Profile and Dashboard

`user` is the row, its texts and lists one each where the code treats several alike;
`Fill` is what a page puts in its form (the developer's puts something in the place of
what it cannot show), `Written` what `updateMe` does with a body.  `Save` and `Check` are
split where they await.  `crossed` records a save that decided on a URL which was not
there any more; `Offers` is what the lists of the developer's page let him choose.
`Dashboard` numbers the writes of each part: an answer is, for each
part, the write at which it was read, 0 upwards, or `None` where the fallback stands in
for a query that failed.  `due` are the handlers that have written and not invalidated
yet; they may die.

### Messaging

Two users, so a thread is one pair's.  `thread` holds who is listed first in each
row, `messages` the rows with their notification (`note`), their mail, its log, and
what the provider has still to report (`pending`) or has reported (`handled`).  A
send inserts, touches the thread, notifies, logs, mails and records the
`messageId`; an attachment is uploaded first (`SendAttachment`, `Upload`), and there is no
message when that fails; a mark writes the messages, then the notifications; a list
consolidates threads of the same pair (`Consolidated`): the one with the newest message
is shown.  `updatedAt`, which stands in for an empty thread's newest message, is not kept,
so a thread counts as shown only where no empty one may hide it.  `Fail` may stop any call at any statement.  `split` are the messages read
before they were announced, `disordered` the mails reported out of order or before
the log knew their id, `forked` says that two threads were created at once.
Supabase realtime only tells a page to ask again, and is in `ChatPage`.

### BrowserSession

The jar (access, refresh and CSRF cookie), the server's session row of each user,
and each tab's `refresh` in flight and cached session.  A call is sent with the
cookies of that moment, judged by the guard in its order (cookie, CSRF header,
token), may come back 401, awaits the tab's refresh or starts one, and is sent once
more.  `requestJson`, `getAuthSession`, `sendThreadAttachment` and the raw fetches
are kept apart since they do different things here.  Sessions are revoked elsewhere
at any time, access tokens expire, replies are lost before or after the server has
acted.  `excused` says that something happened which may cost the browser its
session, `mixed` are the tabs whose session another tab has changed, `refused` the
calls that a signed-in browser was refused.

### ChatPage

Polls, broadcasts and effects of the messages page: the list of threads, the selected
thread's newest messages and the mark that follows them, the thread or the recipient that
the URL names.  A threads reply applies the selection that the page had when it asked, as
the code's closure does.  The load effect opens the thread of a recipient first
(`LoadEffect`, `ServeOpen`, `ReceiveOpen`): it selects that thread and replaces the URL.
The server is the messages and their `isRead`; it answers with the newest `PageSize` (50 in
the code; `Newest`) and marks all of the thread.  The pages never ask for an older one.
`seen` are the messages the page has shown, `missed` those that a mark took though they
were not on the page fetched before it: too old for it, or stored since.  Threads are there
by the time they are asked for, and a link names a thread or a recipient, not both.

### Hearts and Browse

`hearts` is what the page believes to be liked, `liked` the rows.  The feed keeps the
button of each project down (`pending`) until its answer comes; the page of likes knows of
one button only, and takes an entry away whatever the answer says.  `TakeLikes` puts the
list of likes over whatever was pressed meanwhile.  `doubted` are the projects of which
an answer was lost, or came in an order that the network chose.

The filter is React state, query and page number are in the URL, and a navigation
takes time (`going`).  `feed` tells the client's feed from the projects page: only
the latter cancels its effect when it runs again.  The server answers with the
number of pages the list has then, and a page past the last is corrected through the
URL.  `astray` records that a reply was overtaken, or that the user asked for the
page he was on while a correction was on its way.  `Fit` and what it is made of are the
feed's fit panel, which puts the cards in order, in whole numbers: weeks are sevenths.

### ProjectPage

`projects` and `liked` are the rows, `copy`, `isLiked`, `form`, `busy` and `told`
what the page has, `at` which page it is: 0 is the form for a new project.  Each
handler in flight is a slot of `wire`: a save updates and reads again, an upload
sends its files at once and reads again, the form for a new project creates,
publishes, says so and goes away by a timer.  Only what the code disables is
disabled.  `rev`, `copyRev` and `likeRev` count commits and say which a copy
includes; `excused` says in which way a run is beyond what the page handles
("behind": a copy was overtaken; "unliked": an old like status was written last;
"lost": a save replaced screenshots its form did not have); `kept` are the
screenshots the form has taken, `torn` is a video upload that died half way.

### Blueprints, Pricing and Platform

`Blueprints` holds the three verticals as tables, with the overrides of a tenant and the
fields that a form asks for.  `Pricing` computes in whole cents, percents and minutes;
`Rounded` is `Math.round` of a quotient, `Summed` the sum that `reduce` makes.  In
`Platform` a tick is 15 seconds: a cached list lives four (`ListTTL`), a price two
(`PriceTTL`), and `Instants` says what the server's clock shows at each.  `rows` has the
entities that were ever created, by id; a deleted one keeps its row.  The entity routes are
the only HTTP routes; the engines are exported and not called yet, so any order of calls to
them is taken as legal.  `written` and `past` are history: since which tick the present
table is there, and which tables there were before, from when until when.  A seed is a
tenant with its rows and, as a bound, the mixes of calls that are made of it (`work`: which
kinds, how many, in how many ticks).  `torn` are the entities whose receipt died between the
stock and its movement, or whose first adjustment was below 0, and those with a ticket out
for a sale that was refused or died (`Orphans`); `DeductLine` is the line at which
`deductStock` throws; `slow` marks an answer whose
making took a tick itself.

## 3. Runs

| Run | Question | Bounds |
|---|---|---|
| `escrow_serial` | what the checks achieve while calls do not overlap or die, called directly or by the pages: `PaidOutOnce`, `FundingInv` (charged once, what is offered is accepted, deeds are shown, one payout account, one review), and in the end `ChargeFundsMilestone`, `EventsAreProcessed` | 1 call, 2 fund and 2 transfer keys, 1 refund key, 1 dispute; 2 handlers, 2 to 4 buttons, 1 loss, 2 polls (6 in the code), 2 accounts |
| `escrow_shop`: the escrow | what survives any overlap and any failure: `StatusBackedByStripe`, `RowsBackedByStripe`, `EventHandledOnce`; and until a call writes beside another or dies halfway `OpenDisputeBlocksRelease`, `RowsFollowLifecycle` | 2 calls, 1 key of each kind, failure at every await |
| `escrow_shop`: the shop | `CachesAreRecent`, `DiscountsHaveAWindow`, `ShopInv`, `BlueprintIsCoherent` | 2 entities, 2 calls at once, 3 or 4 in all; 4 ticks for lists, 3 for carts, within which an entry expires and a window closes; and 3 in which a quarter of an hour and a day end; a restaurant, a shop, a spa, and one that is empty |
| `platform_tax`, `platform_stock` | `TaxIsAskedOnce` and `InStockIsSold`, which the documentation states and the code violates | as the shop |
| `hiring` | `DealNeedsBothParties`, `ClosedDealIsFrozen`, `MilestoneFitsBudget`, `PagesCanBeRelied` | 2 calls that overlap, amounts 1..2, 2 milestones; 2 handlers, 2 moves, 1 fault |
| `lists`: the cache | `ReadsAreSettled` (the refinement), and `StaleReadsEnd`: lost invalidations heal | 3 calls, 1 write; Map, warm, cold and failing Redis |
| `lists`: the pages | `BrowseInv` (the list shown is the one wanted, hearts are likes, the fit is fair), and in the end `BrowseSettles` | 2 filters, 2 queries, 2 pages, 3 requests in flight, 2 moves, 1 change of the list, 1 fault; or 2 projects with hearts, 2 toggles in flight, 4 presses, 1 loss; the needs and cards that `Needs` and `Cards` list |
| `accounts` | `SignedInMeansVouched`, `RevocationMissesOnlySignIns`, `PasswordIsKnown`, `AccountInv` (rows and roles in step, links paid for, the admin sees the ban) | 2 calls or tabs, 3 passwords, 1 link of each type, 2 revocations, 2 seconds; 4 calls, or 5 forms, or 2 forms and 2 buttons of the admin |
| `dashboard` | `LikesMatchRows`, `EngagementInv` (answers true, scores follow counters), `EngagementNeverCostsRank`, `SettingsInv`, `BoardInv` | 2 users, 3 calls at once, 2 tabs of settings, 2 dashboards, 5 mixes of them |
| `messaging` | `ReadTogether`, `UnreadIsReachable`, `MailLogFollowsProvider` | 2 threads, 2 calls at once, 4 in all, 2 messages, failure at every statement |
| `chat` | `ChatInv`, and in the end `ViewSettles` | 2 threads, 2 messages of which the page fetches 1, 2 requests in flight, 1 selection or fault |
| `browser_session` | `SessionInv`, `RequestsAreServed` | 2 tabs, 2 users, 2 calls at once, 4 in all, 3 tokens |
| `project` | `PageInv`, `QuietPageIsTrue`, `UploadsAreKept` | 3 handlers at once, 3 moves of the user, 2 projects, 3 URLs, 1 fault |

Two runs have two parts that share no state (`MCEscrowShop`, `MCLists`): one of them moves,
whichever, while the other rests where it began.  Each is checked as it would be alone, for
a property reads the variables of one part only; beside each other they would be checked on
the product of their states, which has nothing new in it.  In `lists` the part that rests
owes nothing to its fairness: it has no call, no entry and no request.

Four components are run in `Mixes`: sets of records that say which buttons or calls a
run may combine, how many, and from which start.  All of them together are too many
states; each mix is a question (paying twice, delivering and releasing, a check of the
payout account beside a release, ...), and where there are pages the service alone is
one of them.

Why the bounds are enough to be worth something.  Nearly every hazard needs two
calls that overlap (three in the cache and on the project page: the one that is
late, the writer, and the reader that is misled), one crash, and at most two
objects of a kind: two funding keys for the double charge and the "newest payment",
two transfer keys for a second payout, two threads for a fork, two tabs for a refresh
that collides.  A milestone's rows do not depend on another milestone's, nor one
namespace's entries on another's.  The serial escrow run gives each operation
enough keys to be repeated; the concurrent one has a key of each kind, since with
two it no longer fits in a few minutes.  Two milestones of 1 and of 2 exceed every
agreed amount, which is at most 2.  A page of one message leaves an older one out, as 50
leave the fifty-first.  Two revocations are one that races and one that does not.  A fourth
request lets a third one find what the first two left.  Two polls show the form giving
up before the webhook and after it, which six would do as well; two Stripe accounts are
one too many.  Three replies in flight are
needed for a correction that is itself overtaken.  `Disputes` and `Milestones` bound
creations, the constants named `Max...` the counters; each is named where it is
declared.

`CHECK_DEADLOCK FALSE` is said where the system really may stop: a milestone that is
REFUNDED or RELEASED with all its keys used up, and every module that bounds the
requests made.

Fairness.  `Escrow!Fairness`: a call in flight goes on (Node runs what it has
accepted), and some outstanding event gets through if the server is free again and
again (Stripe retries for days; strong fairness, because each new call makes the
slot busy again); `FundingPages!PagesFairness` is the same, no handler of a page being assumed to
go on.  `Cache!Fairness`: calls go on, and every entry expires (each has
a TTL).  `ChatPage!ChatFairness`: the interval asks again and the router navigates, both
strongly only because the bound on requests in flight may hold them up; a request
is answered and the reply is taken.  `Browse!BrowseFairness`: the same, with the oldest request
answered first in the end.  No user is ever assumed to do anything.  The other
modules state no liveness.

### What is known not to hold

The properties above are what the code keeps.  Where they name an exception, this
is why; each was found as a counterexample while the models were written.

* *Escrow, two overlapping calls.*  A dispute raised between a release's check and its
  write stays open on a milestone that is paid out; two releases
  pay it out twice.  `OpenDisputeBlocksRelease`, `PaidOutOnce` and `RowsFollowLifecycle` say
  so of the runs until a call has written while another was in flight, or died between two
  writes that belong together (`calm`), however many calls there are.
* *Escrow, documented transitions.*  `docs/API_PAYMENTS_SPEC.md:38-44` allows a dispute of a
  SUBMITTED milestone only, and nothing that leaves RELEASED.  The code disputes a PENDING and a
  FUNDED milestone too (`milestones.service.ts:580`) and takes RELEASED back to SUBMITTED
  when the transfer is reversed: `Transitions` is `DocumentedTransitions` and these three,
  and `escrow_shop` violates `RowsFollowLifecycle` if one of them is left out.
* *Escrow, failures.*  A handler that dies between the event row and `processedAt`
  loses the event, since every redelivery is a duplicate.  A transfer made before
  a crash may never be recorded: a second release under another key closes the
  milestone and the backfill gives up.
* *Hire requests, two overlapping calls.*  A late write goes over an acceptance, and two
  milestones created at once exceed the amount.  `ClosedDealIsFrozen` and
  `MilestoneFitsBudget` excuse the calls that were `overtaken`, and no other.
* *Funding pages.*  A client who reopens the form before the webhook has come is
  charged twice, under two keys; so could two tabs, which are not modelled.  Nothing
  refuses to confirm an intent of a milestone that is funded already.  A dispute is
  offered of a DISPUTED milestone and refused.  A refresh that fails is not caught, and
  the panel stays as it was without an error.  A settings page loaded again during a
  check makes a second Stripe account, and the one onboarded may not be the row's.
  The payout flags of the row are only as recent as the last check.
* *Reviews.*  A review outlives the reversal of its payout, and a second release of the
  milestone cannot be reviewed.  Nothing writes `Project.averageRating` from reviews, so
  the review part of the quality score never reflects them; no page posts one.
* *Cache.*  The promise fails for a raw key (`Versioned = FALSE`, as in `entity.service`
  `findAll`) and for a cold Redis, where the version key is set to 1 over an INCR.
* *Dashboard.*  A view and a verified GitHub account invalidate nothing.  An answer put
  together from fallbacks is cached for 5 seconds like another.  The page takes every
  error for a missing session and goes to the login.
* *Sessions.*  A refresh that overlaps a logout upserts `revokedAt: null` over it
  (`auth.service.ts:1001`).  Two refreshes within a second yield one token.
* *Accounts.*  The registration form, and the admin's password field, accept a password
  without a special character, which the server refuses.  A Supabase user whose row was
  never written is stuck: registering says that it exists, logging in that it has no
  profile, the forgotten password and the resent link that a mail was sent; only OAuth
  heals it.  A mail that fails makes the registration report an error for an account
  that exists.  Links sign a disabled user in.  A reset link is spent when Supabase then
  refuses the password.  `readSupabaseAccountState` shows a ban that it cannot read as
  none.  A role that the row has and Supabase has not stays so.
* *Profiles.*  A save that decided before a verification and writes after it leaves the
  mark on another URL; the badge of a page stays after it has saved another URL.  A load
  that failed leaves an empty form that can be saved and empties every list.  An
  untouched save of the developer's page writes the template bio, "Remote", the account's
  address, and drops skills the page does not offer.  A text cannot be emptied.
* *Platform.*  `deductStock` selects `on_hand` where the column is `"onHand"`, so that it
  always throws and nothing whose stock must be reduced can be sold, though
  `docs/ADEERA_PLATFORM_ENGINE_SPEC.md:646-655`, `sales.engine.ts:29-38` and
  `inventory.engine.ts:73` say that a sale deducts it: `platform_stock` has a sale refused
  that the stock covers.  The required
  fields of the blueprints are in snake case and those of the DTO are not, so that only
  types which require a name can be created over HTTP.  Tax that is included in a price is
  in the grand total twice, though `schema.prisma:918` ("Tax included in price?"),
  `engine.interfaces.ts:135` and `ADEERA_PLATFORM_ENGINE_SPEC.md:584` take it to be in the
  price: `platform_tax` has such a cart.  Two first receipts make two rows of stock.  A sale that
  fails on a later line leaves the tickets of the earlier ones; a void done twice
  restocks twice.  `commitSale` says that it prices again, and does not.
* *Browser.*  Calls of `lib/api.ts` that bypass `requestJson` (`getThreadMessages`
  1536, `uploadMediaFile` 1843) or read the CSRF cookie early
  (`sendThreadAttachment` 1569) come back 401 or 403 in a session that could be
  refreshed, though `docs/AUTH_SESSION_SECURITY_FLOW.md:56-65` says that a refresh
  is transparent.  Two tabs that refresh at once sign the browser out.
* *Likes.*  Two toggles of one user at once double count.  Two unlikes at once can take
  the count below nought, where the calls do not agree on what to score:
  `EngagementNeverCostsRank` is about counts from nought up.  It also leaves out a project
  whose quality score is at most 1, which the lists take for a fraction: with 25 views and
  nothing else it ranks as if it scored 70, and loses that with its first like.
* *Hearts.*  The feed's hearts are pressed before it knows what is liked, and the list of
  likes, coming later, hides the press.  The page of likes frees every button when one
  answer is there, so that an entry may be toggled twice, and ignores `result.liked`
  (`client/likes/page.tsx:71-83`): an entry that was unliked elsewhere is liked again
  and leaves the page.
* *Messages.*  Opening a thread marks all of its messages as read, and shows the newest 50
  (`page.tsx:158`, `messages.service.ts:365`): older unread ones are marked unseen, and no
  page fetches them.  Two first messages at once make two threads (the next list repairs
  it); a mail whose delivery is reported before its `messageId` is stored stays
  SENT; a send that failed after its insert is sent again as a second message.
* *Feed.*  The older of two replies may come last and stays.
* *Project page.*  A save that overlaps an upload, or whose form was filled from a
  copy that lagged, deletes the uploaded screenshot.  An emptied role is not sent
  (`|| undefined`), so it cannot be cleared.  Background images appear in the form
  as screenshots and are saved as such, and cannot be removed.  The page says that
  it will show "exactly what will be saved" of the edited fields, while a save sends
  every field.  The form for a new project, sent again after its publication failed,
  makes a second project; it is in the client's area and needs the role DEVELOPER.

## 4. Proofs

Each theorem holds for every value of the constants: any number of calls, handlers, tabs,
keys, users and rows.

| Theorem | Module | Says |
|---|---|---|
| `InvariantHolds` | `EscrowProofs` | `IInv` is invariant; from it `TypeCorrect`, `StatusNeverAheadOfMoney`, `RowsNeverAheadOfMoney`, `EventsHandledOnce`, `NoDuplicateRows` |
| `SInvHolds`, `PaidOnce`, `DisputeBlocksRelease`, `LifecycleIsFollowed` | `EscrowProofs` | until a call writes beside another or dies halfway, the developer is paid once and not beside a refund, an open dispute blocks the release, rows take the transitions of the code's checks |
| `PagesTakeEscrowSteps`, `PagesPayOnce`, `PagesRespectDisputes`, `PagesFollowLifecycle` | `EscrowProofs` | the pages take only steps of `Escrow`, and what is proved of it holds behind them |
| `PagesAreTruthful` | `EscrowProofs` | `FundingInv`: what a true copy offers is accepted, one Stripe account, one review; and, until a call writes beside another or dies halfway, a second charge needs a form asked for too early and deeds reach the panel |
| `HireInvariantHolds`, `HiringNeedsBothParties` | `HireRequestProofs` | no overlap of calls closes a deal alone |
| `ClosedDealStaysClosed` | `HireRequestProofs` | only an admin, or a call whose check another has overtaken, changes a closed deal |
| `MilestonesFitBudget` | `HireRequestProofs` | no milestone takes the sum of those that stand over what was agreed, but by a call whose check another has overtaken |
| `PagesTakeHireSteps`, `PagesNeedBothParties`, `PagesLeaveDealsClosed`, `PagesFitBudget` | `HireRequestProofs` | `PagesSpec => Spec`: the pages take only steps of `HireRequest` |
| `PagesCanBeReliedOn` | `HireRequestProofs` | what is started on a true copy is not refused, and a page at rest shows what it wrote |
| `CacheInvariantHolds`, `CacheTypeCorrect`, `InvalidationIsEffective` | `PlatformProofs` | `CInv`, types and freshness, given `Healthy` |
| `CacheKeepsItsPromise` | `PlatformProofs` | `Spec => Promised!Spec`: the cache implements `SettledRead`, given `Healthy` |
| `AuthInvariantHolds`, `SessionsAreVouchedFor`, `RevocationsAreHonoured` | `AuthSessionProofs` | `AInv`, and what it says of sessions |
| `PagesTakeAuthSteps`, `PagesAreVouchedFor`, `PagesHonourRevocations` | `AuthSessionProofs` | the account's pages and the admin's take only steps of `AuthSession` |
| `AccountsAgree` | `AuthSessionProofs` | `AccountInv`: a row only for somebody Supabase has, one role, no link spent for nothing, the admin sees the ban |
| `AnnouncedPasswordIsSet` | `AuthSessionProofs` | the password announced last is the one Supabase has, unless two were set at once or a call failed after setting one |
| `LInvHolds`, `TypesHold`, `LikeCountIsTheLikes` | `DashboardProofs` | `LInv`; while no user toggles twice at once, the count is the number of rows |
| `EInvHolds`, `ToldAndScoredTruly`, `EngagementCostsNoRank` | `DashboardProofs` | `EInv`; users are told the truth of their own rows, the score is that of the counters, and no like, view or inquiry lowers a rank |
| `BInvHolds`, `DashboardsAreRecent` | `DashboardProofs` | `BInv`; no part of a dashboard is older than what had been invalidated when it was asked for |
| `BoardKeepsEngagement`, `DashboardCountsLikes`, `DashboardShowsTheTruth`, `DashboardCostsNoRank` | `DashboardProofs` | `BoardSpec => Spec`: the dashboard implements `Engagement`, and keeps what is proved of it |
| `ProfInvHolds`, `SettingsPagesAreTrue` | `DashboardProofs` | `ProfInv`; a verified URL is the one that was verified, and a settings page that wrote last shows what is stored |
| `MInvHolds`, `NotificationsFollowMessages`, `UnreadMessagesAreShown`, `MailLogIsTrue` | `MessagingProofs` | `MInv`, and the three properties of the run `messaging` |
| `SInvHolds`, `SessionsAreInStep`, `SignedInIsServed` | `BrowserSessionProofs` | `SInv`; cookies, server and cached sessions are in step, and a signed-in browser is refused nothing unless it is excused |
| `PInvHolds`, `PageIsSound`, `PageComesToRestOnTheTruth`, `UploadsAreNotLost` | `ProjectPageProofs` | `PInv`, and the three properties of the run `project`: what the form says of its success is so and no button stays disabled, a page at rest shows what is stored, no uploaded screenshot is lost but in the ways named |
| `ChatInvHolds` | `MessagingProofs` | `ChatInv`: a messages page marks as read what it has shown, what came after the page it showed, or what was too old for it |
| `BrowseInvHolds` | `BrowserSessionProofs` | `BrowseInv`: the list at rest is the one wanted, hearts are likes, the fit panel is fair, unless the run is excused |
| `CachedAnswersAreRecent` | `PlatformProofs` | no answer from the platform's caches is older than it may be, or another channel's or quarter's |
| `BlueprintsAreCoherent` | `PlatformProofs` | for every tenant of a vertical: forms ask for what is required, and types have the engines they need |
| `DiscountsAreOpen` | `PlatformProofs` | for any rows, windows and times: a price is the entity's or what an open window makes of it |
| `ShopIsAccounted` | `PlatformProofs` | stock is the sum of its movements, every line of a kitchen's entity that is sold has its ticket, and a ticket without a sale is one of a commit at work, refused or dead |

Assumptions are the named ASSUMEs on constants (`NoIdAssumption`, `FailingAssumption`,
`AmountAssumption`, `CacheAssumption`, `AuthAssumption`, `EngagementAssumption`,
`ProfileAssumption`, `MessagingAssumption`, `BrowserAssumption`, and those of the pages),
which TLC evaluates in every run that uses them.  They say that bounds are numbers and
that a value that stands for nothing is not one of the others; `ProfileAssumption` adds
that the rows a run starts from have the fields of their table and a verification of
their own URL, and `SeedsAssumption` of `ProjectPage` that its seeds are projects, with an
uploaded video only where the project points to one.  `BrowseAssumption` has a filter and a
query to start with; `PlatformAssumption` has numbers where the schema has them (prices,
windows, rates, quantities, minutes), tenants of one of the three verticals, and slots that
can be counted.  One assumption of theorems restricts the system,
and without it the property is false, as section 3 says.  `Healthy` in `PlatformProofs`:
keys are composed, and the backend is the Map or a Redis that answers and has the version
key.  The theorems of the escrow and of hire requests assume nothing of the calls: any
number of them overlap and die.  Where a check is not enough for that, the property itself
names the history it ends with (`calm`) or the calls it excuses (`overtaken`).

An invariant was given to TLC with its run before it was proved, but for those of the
platform, which speak of sets that TLC cannot enumerate.  Why each needs its strengthening:

* **Escrow.** Nothing in the database is stable, since any status may be
  overwritten by a call that checked it long ago.  What Stripe has done is stable.
  `CallsRelyOnFacts` says, for each await, which of those facts the call waiting
  there rests on (a call about to write REFUNDED has a refund behind it), and
  `StripeConsistent` and `LogsListRows` carry these facts across Stripe's own steps.
  `EventHandledOnce` quantifies over pairs of calls because two deliveries are
  told apart only by the row's unique index.  The proof first lists the actions
  that write each variable, then goes by action and conjunct.
* **Escrow, until a call writes beside another.** `RequestHolds` and `HookHolds` say that what a call
  has checked is still so at each await, while `calm`: nobody else has written.  `PayoutsStand`
  ties the rows to Stripe and to the status: a transfer without a row is in the hands of
  the call about to commit it, at most one payout stands and RELEASED means that one
  does.  It needs that a FAILED payout's event has been recorded, since a second handling
  would reopen a milestone released again.  `RefundsMark` and `DisputesMark` name the
  awaits around which a refund or an open dispute and the status disagree.
* **Funding pages.** A panel can be anything that the milestone once was, so every copy,
  reply and deed is dated with the number of writes it has seen (`CopiesAreDated`): one
  with today's date is the row.  That a deed is shown is not inductive without the
  handler that will show it: `DeedsReachPanels` says that the panel has it, knows of an
  error, has been overtaken, or that a list no older is on its way.  `FormsAndCharges`
  and `OneIsChargeable` say which intents may yet be charged, `PaidIsFunded` that a
  recorded payment and PENDING meet only within one delivery.
* **HireRequest.** A call that passed the check is a write to come.  `HInv` says of
  every status that a party can still be waiting to write what `hands` must hold
  already; the transition tables are the only place a client gets ACCEPTED from.
  For a closed deal `ChecksStillHold` adds that a call which
  nobody has overtaken writes what it checked.
* **Milestone budget.** `InsertsFit`: a milestone that waits to be inserted is not in the
  table, and unless another call has overtaken the one that inserts it, it fits the cap that
  there is now with those that are.  `Committed` is a fold
  over a set, in an order nobody knows: `OrderIsFree` shows that any element may be
  taken out first, `SumOfMore` what one more adds, and so what a refund takes away.
* **Hiring pages.** Dates again; and `ListIsTold` and `PanelIsTold`, that a page behind
  its own write has a handler which will read the list after it.  Both rest on
  `TakesTurns`: one handler loads a page, and one call serves one handler.
* **Cache.** `KeysAreFresh` says of every entry, and of every row a reader is
  holding to store, that it satisfies all readers of its key: a late `Store` is
  harmless because it goes under the version it was loaded for.
  `NothingFromTheFuture` makes the next version's key new.
* **AuthSession.** What is claimed of the session is claimed of every call that may
  still write it (`SignInsMissOnlyRaced`, `VouchedCalls`).
* **Account pages.** `FormsInStep` says where the call of each form is, `Founded` which
  table rests on which, `RowsFollow` that a Supabase user without a row has somebody on
  the way to it.  The admin's change of a role is in one table and not yet in the other
  at known steps only (`RoleGoesThrough`).  For the password, `PasswordInv` holds that
  who has set one and has not been told so is alone, or the run is `amiss`.
* **Engagement.** The count and the rows are written by different statements, but
  committed together; what is needed is that the row a toggle has read is still as
  it read it when it writes (`ReadsStillHold`), which is so because no other toggle
  of its user is in flight (`OneToggleEach`).  The rest is arithmetic on the
  cardinality of `likes`.  `EInv` says the same for each user by himself, who may be
  true to his own row while others race; `AloneHasSeenAll`, that a call no other has
  overtaken computes the score from the counters there are.  That no rank is lost is the
  monotonicity of each score in each counter, from lemmas about `Rounded` and `Clamp`.
* **Dashboard.** The argument of the cache with a number for each part: `Serves` says of
  every answer, stored or half put together, that it satisfies all who hold its key, and
  under the present version all who may still compose it; an invalidation raises what
  they may count on and makes every key in use a past one.
* **Settings.** Copies, saves and checks are dated by the write they are of.  `SavedIsStored`:
  a page that says so, and was last, holds the row.  `BadgeIsTrue` has to follow the badge
  through the page's own save, which reads nothing back, if that kept the URL and
  came right after what the page shows; `DecidedOnTheRow`, that a save which has
  compared URLs is right about it until the next write.
* **Messaging.** What a call knows of its thread and message stays true until it acts: a
  thread exists for good, a message is announced by the one call that inserted it
  (`OneAnnouncer`), a provider's event is in the hands of one delivery (`OneDelivery`),
  and a pair has one thread unless two calls created it at once (`OneThread`).  Each is
  about pairs of rows or calls, which the properties never mention.
* **Browser.** While nothing is `excused`, one refresh or one call that signs in or out is
  on its way, or such a call waits for the refresh it began (`OneAtATime`); so a refresh
  was sent with the cookies there still are (`RefreshedWithThese`), and the server's row
  is ahead of the jar only by an answer that is coming (`ServerTakesIt`).
  `CallsCarryWhatTheyShould`: who tries again has a fresh access token, so that a second
  401 is not for want of one.
* **Messages page.** `WireIsSound` makes each request and reply keep what it promises: a page
  never ends after what is stored, and all that a mark is about was shown when it was
  sent, or is in `missed`, though the page may show another thread by the time it is served.
* **Lists.** `ListFollows`: unless a reply was overtaken, the youngest request is for what is
  wanted, or that is shown, or the URL is about to change.  The projects page cancels all
  but the youngest and the feed cancels none (`EffectsCancelled`), so the feed needs
  `RepliesInOrder` on top of it.
* **Hearts.** What the page believes of a project is the row only while no toggle of it has
  been answered and not yet taken, so `PageIsTrue` is about the others, `AnswersAreTrue`
  about those, and `LoadIsTrue` about the list of likes on its way.  On the feed
  `ButtonsAreDown` keeps it to one toggle for each project (`FeedPressesOnce`).
* **Platform's caches.** Nothing invalidates them, so a clock takes the place of versions:
  a stored list or price was right at the tick that its TTL counts from (`ListsAreDated`,
  `PricesAreDated`), by a table that there was at that tick, and such tables are only
  ever added to (`TablesGrow`).  A price's key names the quarter of that tick, which is
  how a hit knows that it is of this quarter.
* **Discounts.** Rows, prices and lines hold numbers throughout (`CartIInv`); that a range of days is passed by walking it
  is arithmetic modulo 7.
* **Stock and tickets.** `StockIInv`: stock is ahead of its movements by the receipts that
  are between the two.  `TicketIInv`: a call that commits has a ticket out for every line it
  has passed, which become lines that are sold, one for one, when it stores the sale; a
  ticket more than these is of an entity in `torn`.
* **Project page.** The page may lag behind its project at any time, so copies and answers
  are dated, and there is a date `d` of the last write such that what was read since is the
  row (`AuthorReads`).  That the page comes to rest on the truth is inductive only with the
  handler that will see to it: unless a reply was lost or overtaken, the copy is that recent
  or somebody on the page is about to read the project again.  For a guest `GuestReads`
  says so of the like and its count, and that nothing else of his copy can differ.
  `KeptAreInForms` follows a screenshot from the form into what was sent, into the row and
  to the project a redirect is due to; `NewAreUnknown`, that nobody writes the project
  which a creation is still publishing, is why that redirect finds it and why the success
  message is true.  `AloneUnderItsFlag` gives each flag but `mediaUploading` one handler, so that none is
  cleared under another, and `IsOfThePage` leaves handlers of a page that is gone
  without a say.

The library's induction theorems take an operator and cannot be cited, so what is proved of
sums goes by the least counterexample: `LeastIs`, from the well-foundedness of the
naturals, and `Induction` over sets of numbers.  `FoldsExist` and `SumsExist` build the
recursive functions that the folds and sums are defined by.

Only model-checked: the liveness properties (`ChargeFundsMilestone`, `EventsAreProcessed`,
`StaleReadsEnd`, `ViewSettles`, `BrowseSettles`), which need fairness and so ENABLED.
Every other property that a run checks has its theorem.

## 5. Not modelled

* **AI assistant.** A prompt, an external model, a fallback text.  Nothing is stored and
  nothing is read twice.
* **Questions, search.** Inserts of one row, and reads; only the ranking of the search is
  in `Ranking`.
* **Roles, throttling, exception filter, timings.** Each looks at one request.  The JWT
  guard and the CSRF check are in `BrowserSession`.
* **Lists.** Those that nobody caches or acts on: admin lists, the activity of a
  milestone, reviews.  The cursor mode of the project list has no caller in the client.
* **Featured flag, bookmarks on pages, avatars, deletion of users and of files at
  Cloudinary.** One statement each, or without a caller in the client.
* **Engines without state.** Payment, tender, work order and loyalty events of the platform
  return what they are given; booking is an interface.
* **Markup, texts, e-mail templates, validation decorators,** but where a guard depends on
  one.  They are most of the lines that the map leaves out.
* **Time,** but for the seconds of tokens, the TTLs of the platform's caches and the expiry
  of links and entries as steps that may happen.
* **More than one of a thing,** where rows do not touch: a second milestone of a deal is in
  `HireRequest` and not in `Escrow`, a second account nowhere.

## 6. Plan

Done in this order: escrow, hire requests, cache and sessions with their proofs;
engagement with its proof; messages; the browser's session and the pages of messages and
lists; the project page; the platform; profiles and the dashboard; the pages over
accounts, hiring and escrow.  What is left, most useful first:

1. Two tabs of the payment form, and the client's and the developer's panel over two
   milestones of one deal, which would compose `FundingPages` with `HirePages`.
2. The featured flag and bookmarks of the project lists, and the cursor mode once a page
   uses it.
3. The access token's 15 minutes after a revocation, as a bound that could be stated.
