------------------------------- MODULE Platform -------------------------------
(***************************************************************************)
(* One tenant of the platform: its entities behind the list cache, prices  *)
(* behind theirs, and the engines that sell, void, receive and adjust.     *)
(* The entity routes are the only ones; the engines are exported to other  *)
(* modules of the backend, which do not call them yet, so any order of     *)
(* calls to them is a legal one.                                           *)
(*                                                                         *)
(* A tick is 15 seconds.  Neither cache is ever invalidated: their keys    *)
(* are used raw, and invalidateNamespace counts a version up that no       *)
(* composed key reads.                                                     *)
(***************************************************************************)
EXTENDS Blueprints, Pricing

CONSTANTS
  Items,     \* ids of entities
  Slots,     \* slots for calls in flight
  Nothing,      \* no entry, no call, no cart
  Seeds,     \* tenants: their blueprint, overrides and the rows there are; and,
             \* bounds, which kinds of calls are mixed, how many are made, and
             \* from which tick to which
  Instants,  \* what the clock of the server shows at each tick
  Classes,   \* the tenant's tax classes
  Prices,    \* amounts an update may set
  Carts,     \* lines that may be put in a cart
  MaxClock   \* the last tick of Instants

\* A row of Entity, its extension and its flags; without a tax class of its own
\* it has the standard one.
EntityRow(type, price) ==
  [type |-> type, status |-> "DRAFT", deleted |-> FALSE, price |-> price, channels |-> <<>>,
   windows |-> <<>>, taxClass |-> "STANDARD", on |-> {}, off |-> {}, recipe |-> FALSE, reorder |-> 0]

\* The columns that hold numbers.
IsEntityRow(entity) ==
  /\ DOMAIN entity = DOMAIN EntityRow("MENU_ITEM", 0)
  /\ {entity.price, entity.reorder} \subseteq Int
  /\ \A channel \in DOMAIN entity.channels : entity.channels[channel] \in Int
  /\ DOMAIN entity.windows \subseteq Nat
  /\ \A n \in DOMAIN entity.windows :
       {entity.windows[n].from, entity.windows[n].to, entity.windows[n].pct} \subseteq Int

\* A tenant is of a vertical that there is a blueprint for, and nothing that a
\* call knows is taken for no call.
ASSUME PlatformAssumption ==
  /\ \A seed \in Seeds : /\ seed.tenant.vertical \in DOMAIN SystemBlueprints
                         /\ DOMAIN seed.rows \subseteq Items
                         /\ \A i \in DOMAIN seed.rows : IsEntityRow(seed.rows[i])
                         /\ \A mix \in seed.mixes : mix.from \in Nat
  /\ \A t \in DOMAIN Instants : Instants[t].minute \in Int
  /\ DOMAIN Instants = 0 .. MaxClock
  /\ \A name \in DOMAIN Classes : Classes[name].rate \in Nat /\ Classes[name].inclusive \in BOOLEAN
  /\ Prices \subseteq Int
  /\ Carts \subseteq Seq([item : Items, quantity : Int, channel : STRING])
  /\ IsFiniteSet(Slots)
  /\ Nothing \notin [step : {"receive", "record"}, item : Items, quantity : Int, found : BOOLEAN, then : {Nothing}]
  /\ Nothing \notin [step : {"commit"}, lines : PricedLines(Items), n : Nat]

VARIABLES
  tenant,   \* its vertical and allowed types
  rows,     \* the Entity rows with their extension and flags, by id
  clock,
  listed,   \* cached lists, by filter
  priced,   \* cached prices
  stock,    \* the InventoryStock rows of each entity, branch and variant fixed
  moved,    \* the sum of its InventoryMovement rows
  cart,     \* the cart built last
  sales,    \* the Sale rows
  tickets,  \* kitchen tickets that were requested, by entity
  running,  \* the calls in flight
  work,     \* the calls still to be made, of which kinds, the first and the last tick
  written,  \* history: the tick from which rows has been as it is
  past,     \* history: the tables before, with their first and last tick
  said,     \* history: the last answer of findAll
  torn      \* history: entities whose stock was written and its movement not, and
            \* those with a ticket in the kitchen of a sale that came to nothing

shop   == <<stock, moved, sales, tickets, torn>>
caches == <<listed, priced>>
tables == <<written, past>>
platformVars ==
  <<tenant, rows, clock, listed, priced, stock, moved, cart, sales, tickets, running, work, written, past, said, torn>>

ListTTL  == 4
PriceTTL == 2

Filters == {"all", "DRAFT", "ACTIVE"}

PlatformInit ==
  /\ \E seed \in Seeds : tenant = seed.tenant /\ rows = seed.rows /\ work \in seed.mixes
  /\ clock = work.from
  /\ listed = [f \in Filters |-> Nothing] /\ priced = {}
  /\ stock = [i \in Items |-> <<>>] /\ moved = [i \in Items |-> 0]
  /\ cart = Nothing /\ sales = <<>> /\ tickets = [i \in Items |-> 0]
  /\ running = [c \in Slots |-> Nothing]
  /\ written = work.from /\ past = {} /\ said = Nothing /\ torn = {}

There(i) == i \in DOMAIN rows
Found(i) == There(i) /\ ~rows[i].deleted

AtStep(c, step)   == running[c] # Nothing /\ running[c].step = step
CallBecomes(c, r) == running' = [running EXCEPT ![c] = r]
EndCall(c)         == CallBecomes(c, Nothing)
Spend(kind)       == kind \in work.kinds /\ work.left > 0 /\ work' = [work EXCEPT !.left = @ - 1]
StartCall(c, kind, r) == running[c] = Nothing /\ Spend(kind) /\ CallBecomes(c, r)

\* A statement that changes the entities.
Replace(table) ==
  /\ rows' = table
  /\ past' = past \cup {[rows |-> rows, from |-> written, until |-> clock]}
  /\ written' = clock

Able(i) == CapabilitiesOf(ForTenant(tenant), rows[i].type, rows[i].on, rows[i].off)

-----------------------------------------------------------------------------
(* Entities. *)

\* create: the most that a request may have is DtoFields.  The row and its
\* extension are one transaction.
Create(i, type, price) ==
  /\ Spend("edit")
  /\ ~There(i)
  /\ type \in ForTenant(tenant).supported
  /\ Missing(ForTenant(tenant), type, DtoFields) = {}
  /\ Replace([j \in DOMAIN rows \cup {i} |-> IF j = i THEN EntityRow(type, price) ELSE rows[j]])
  /\ UNCHANGED <<tenant, clock, caches, shop, cart, running, said>>

Matching(table, filter) ==
  {i \in DOMAIN table : /\ ~table[i].deleted
                        /\ filter \in {"all", table[i].status}}

Tell(filter, entry) ==
  said' = [filter |-> filter, items |-> entry.items, slow |-> entry.slow, at |-> clock]

Fresh(entry) == entry # Nothing /\ clock < entry.until

ListHit(c, filter) ==
  /\ Fresh(listed[filter])
  /\ StartCall(c, "list", Nothing)
  /\ Tell(filter, listed[filter])
  /\ UNCHANGED <<tenant, rows, clock, caches, shop, cart, tables>>

ListMiss(c, filter) ==
  /\ ~Fresh(listed[filter])
  /\ StartCall(c, "list", [step |-> "list", filter |-> filter])
  /\ UNCHANGED <<tenant, rows, clock, caches, shop, cart, tables, said>>

ListLoad(c) ==
  /\ AtStep(c, "list")
  /\ CallBecomes(c, [step |-> "liststore", filter |-> running[c].filter, at |-> clock,
                     items |-> Matching(rows, running[c].filter)])
  /\ UNCHANGED <<tenant, rows, clock, caches, shop, cart, tables, said, work>>

\* Mutant: one key for the lists of all statuses.
ListStoreForAll(c) ==
  /\ AtStep(c, "liststore")
  /\ LET entry == [items |-> running[c].items, until |-> clock + ListTTL, slow |-> clock # running[c].at]
     IN  /\ listed' = [f \in Filters |-> entry]
         /\ Tell(running[c].filter, entry)
  /\ EndCall(c)
  /\ UNCHANGED <<tenant, rows, clock, priced, shop, cart, tables, work>>

ListStore(c) ==
  /\ AtStep(c, "liststore")
  /\ LET entry == [items |-> running[c].items, until |-> clock + ListTTL, slow |-> clock # running[c].at]
     IN  /\ listed' = [listed EXCEPT ![running[c].filter] = entry]
         /\ Tell(running[c].filter, entry)
  /\ EndCall(c)
  /\ UNCHANGED <<tenant, rows, clock, priced, shop, cart, tables, work>>

\* update and softDelete look for a row that is not deleted, and write by id.
CheckEntity(c, i, step) ==
  /\ Found(i)
  /\ StartCall(c, "edit", [step |-> step, item |-> i])
  /\ UNCHANGED <<tenant, rows, clock, caches, shop, cart, tables, said>>

Edits(entity) ==
  {[entity EXCEPT !.price = p] : p \in Prices} \cup
  {[entity EXCEPT !.status = s] : s \in {"ACTIVE", "ARCHIVED"}} \cup
  {[entity EXCEPT !.windows = <<>>]}

Update(c) ==
  /\ AtStep(c, "update")
  /\ \E edited \in Edits(rows[running[c].item]) : Replace([rows EXCEPT ![running[c].item] = edited])
  /\ EndCall(c)
  /\ UNCHANGED <<tenant, clock, caches, shop, cart, said, work>>

SoftDelete(c) ==
  /\ AtStep(c, "delete")
  /\ Replace([rows EXCEPT ![running[c].item].deleted = TRUE, ![running[c].item].status = "ARCHIVED"])
  /\ EndCall(c)
  /\ UNCHANGED <<tenant, clock, caches, shop, cart, said, work>>

-----------------------------------------------------------------------------
(* Carts.  The lines of a cart are priced side by side, all at the time of *)
(* the call.                                                               *)

\* Mutant: prices of all channels share a key.
PriceKeyOfEntity(line, at) == <<line.item, Bucket(Instants[at])>>

PriceKey(line, at) == <<line.item, line.channel, Bucket(Instants[at])>>

BuildCart(c, lines) ==
  /\ \A n \in DOMAIN lines : There(lines[n].item)
  /\ StartCall(c, "cart", [step |-> "cart", lines |-> lines, at |-> clock,
               price |-> [n \in DOMAIN lines |-> [step |-> "get"]]])
  /\ UNCHANGED <<tenant, rows, clock, caches, shop, cart, tables, said>>

PriceIs(c, n, step) == AtStep(c, "cart") /\ n \in DOMAIN running[c].lines /\ running[c].price[n].step = step

PriceBecomes(c, n, r) ==
  /\ running' = [running EXCEPT ![c].price[n] = r]
  /\ UNCHANGED <<tenant, rows, clock, listed, shop, cart, tables, said, work>>

Cached(c, n) == {e \in priced : e.key = PriceKey(running[c].lines[n], running[c].at) /\ clock < e.until}

PriceHit(c, n) ==
  /\ PriceIs(c, n, "get")
  /\ \E e \in Cached(c, n) : PriceBecomes(c, n, [step |-> "done", price |-> e.price, slow |-> e.slow])
  /\ UNCHANGED priced

PriceMiss(c, n) ==
  /\ PriceIs(c, n, "get") /\ Cached(c, n) = {}
  /\ PriceBecomes(c, n, [step |-> "load"])
  /\ UNCHANGED priced

PriceLoad(c, n) ==
  /\ PriceIs(c, n, "load")
  /\ LET line  == running[c].lines[n]
         price == FinalPrice(rows[line.item], line.channel, Instants[running[c].at])
     IN  PriceBecomes(c, n, [step |-> "set", price |-> price])
  /\ UNCHANGED priced

PriceStore(c, n) ==
  /\ PriceIs(c, n, "set")
  /\ LET key  == PriceKey(running[c].lines[n], running[c].at)
         slow == clock # running[c].at
     IN  /\ priced' = {e \in priced : e.key # key} \cup
                      {[key |-> key, price |-> running[c].price[n].price, until |-> clock + PriceTTL, slow |-> slow]}
         /\ PriceBecomes(c, n, [step |-> "done", price |-> running[c].price[n].price, slow |-> slow])

\* The tax class of an entity is not changed here, nor are the classes.
CartIsPriced(c) ==
  /\ AtStep(c, "cart") /\ \A n \in DOMAIN running[c].lines : running[c].price[n].step = "done"
  /\ LET Line(n) == PricedLine(running[c].lines[n], running[c].price[n].price,
                               TaxClass(Classes, rows[running[c].lines[n].item].taxClass))
         lines   == [n \in DOMAIN running[c].lines |-> Line(n)]
     IN  cart' = [lines |-> lines, input |-> running[c].lines, totals |-> CartTotals(lines), at |-> running[c].at,
                  slow |-> \E n \in DOMAIN lines : running[c].price[n].slow \/ clock # running[c].at]
  /\ EndCall(c)
  /\ UNCHANGED <<tenant, rows, clock, caches, shop, tables, said, work>>

-----------------------------------------------------------------------------
(* Sales.  commitSale takes a cart that was built at any time before; it   *)
(* neither prices nor locks anything again.                                *)

Commit(c) ==
  /\ cart # Nothing
  /\ StartCall(c, "sale", [step |-> "commit", lines |-> cart.lines, n |-> 1])
  /\ UNCHANGED <<tenant, rows, clock, caches, shop, cart, tables, said>>

LineOf(c) == running[c].lines[running[c].n]

\* A line of a sale that the stock has to be reduced for.
Deducts(i) ==
  \/ "CAN_CONSUME_INGREDIENTS" \in Able(i) /\ rows[i].recipe
  \/ "CAN_CONSUME_INGREDIENTS" \notin Able(i) /\ "CAN_TRACK_INVENTORY" \in Able(i)

\* Mutant: the engine looks at the wrong capability.
PrintsTicketOfCombo(i) == "CAN_HAVE_COMBOS" \in Able(i)

PrintsTicket(i) == "CAN_GENERATE_KITCHEN_TICKET" \in Able(i)

CommitLine(c) ==
  /\ AtStep(c, "commit") /\ running[c].n <= Len(running[c].lines)
  /\ ~Deducts(LineOf(c).item)
  /\ tickets' = [tickets EXCEPT ![LineOf(c).item] = @ + IF PrintsTicket(LineOf(c).item) THEN 1 ELSE 0]
  /\ CallBecomes(c, [running[c] EXCEPT !.n = @ + 1])
  /\ UNCHANGED <<tenant, rows, clock, caches, stock, moved, sales, torn, cart, tables, said, work>>

\* The entities of the lines that a commit has passed, and those of them that
\* have a ticket in the kitchen.
Passed(c)  == {running[c].lines[k].item : k \in 1 .. running[c].n - 1}
Orphans(c) == {<<"kitchen", i>> : i \in {j \in Passed(c) : PrintsTicket(j)}}

\* deductStock selects a column that the table does not have: whatever there is
\* in stock it throws, and the sale is over.
DeductLine(c) ==
  /\ AtStep(c, "commit") /\ running[c].n <= Len(running[c].lines)
  /\ Deducts(LineOf(c).item)
  /\ torn' = torn \cup Orphans(c)
  /\ EndCall(c)
  /\ UNCHANGED <<tenant, rows, clock, caches, stock, moved, sales, tickets, cart, tables, said, work>>

CreateSale(c) ==
  /\ AtStep(c, "commit") /\ running[c].n > Len(running[c].lines)
  /\ sales' = Append(sales, [lines |-> running[c].lines, voided |-> FALSE])
  /\ EndCall(c)
  /\ UNCHANGED <<tenant, rows, clock, caches, stock, moved, tickets, torn, cart, tables, said, work>>

\* The lines to void are those of the sale, or what the caller says; whether
\* the sale is voided already is not asked.
Void(c, n, items) ==
  /\ n \in DOMAIN sales
  /\ StartCall(c, "sale", [step |-> "void", sale |-> n,
               items |-> SelectSeq(items, LAMBDA i : "CAN_TRACK_INVENTORY" \in Able(i))])
  /\ UNCHANGED <<tenant, rows, clock, caches, shop, cart, tables, said>>

\* adjustStock of the next line, and on to the one after.
VoidLine(c) ==
  /\ AtStep(c, "void") /\ running[c].items # <<>>
  /\ CallBecomes(c, [step |-> "adjust", item |-> Head(running[c].items), quantity |-> 1,
                     found |-> stock[Head(running[c].items)] # <<>>,
                     then |-> [running[c] EXCEPT !.items = Tail(@)]])
  /\ UNCHANGED <<tenant, rows, clock, caches, shop, cart, tables, said, work>>

VoidMark(c) ==
  /\ AtStep(c, "void") /\ running[c].items = <<>>
  /\ sales' = [sales EXCEPT ![running[c].sale].voided = TRUE]
  /\ EndCall(c)
  /\ UNCHANGED <<tenant, rows, clock, caches, stock, moved, tickets, torn, cart, tables, said, work>>

-----------------------------------------------------------------------------
(* Stock.  A transaction looks for the row and writes it in two statements.*)
(* The variant is null, and nulls are distinct to the unique index.        *)

StockCall(c, i, step, quantity) ==
  /\ There(i)
  /\ StartCall(c, "stock", [step |-> step, item |-> i, quantity |-> quantity, found |-> stock[i] # <<>>, then |-> Nothing])
  /\ UNCHANGED <<tenant, rows, clock, caches, shop, cart, tables, said>>

Added(i, quantity) ==
  {[stock[i] EXCEPT ![n] = @ + quantity] : n \in DOMAIN stock[i]}

\* Mutant: what is received takes the place of what is there.
ReceiveInstead(c) ==
  /\ AtStep(c, "receive")
  /\ stock' = [stock EXCEPT ![running[c].item] = <<running[c].quantity>>]
  /\ CallBecomes(c, [running[c] EXCEPT !.step = "record"])
  /\ UNCHANGED <<tenant, rows, clock, caches, moved, sales, tickets, torn, cart, tables, said, work>>

Receive(c) ==
  /\ AtStep(c, "receive")
  /\ LET i == running[c].item
     IN  \E after \in IF running[c].found THEN Added(i, running[c].quantity)
                                       ELSE {Append(stock[i], running[c].quantity)} :
           stock' = [stock EXCEPT ![i] = after]
  /\ CallBecomes(c, [running[c] EXCEPT !.step = "record"])
  /\ UNCHANGED <<tenant, rows, clock, caches, moved, sales, tickets, torn, cart, tables, said, work>>

\* The movements of a receipt come after its transaction.
Record(c) ==
  /\ AtStep(c, "record")
  /\ moved' = [moved EXCEPT ![running[c].item] = @ + running[c].quantity]
  /\ EndCall(c)
  /\ UNCHANGED <<tenant, rows, clock, caches, stock, sales, tickets, torn, cart, tables, said, work>>

\* adjustStock writes the movement along; a first row does not begin below 0.
Adjust(c) ==
  /\ AtStep(c, "adjust")
  /\ LET i == running[c].item
         q == running[c].quantity
     IN  /\ \E after \in IF running[c].found THEN Added(i, q) ELSE {Append(stock[i], IF q < 0 THEN 0 ELSE q)} :
              stock' = [stock EXCEPT ![i] = after]
         /\ moved' = [moved EXCEPT ![i] = @ + q]
         /\ torn' = IF ~running[c].found /\ q < 0 THEN torn \cup {<<"stock", i>>} ELSE torn
  /\ CallBecomes(c, running[c].then)
  /\ UNCHANGED <<tenant, rows, clock, caches, sales, tickets, cart, tables, said, work>>

-----------------------------------------------------------------------------
\* The call throws or the process dies at any await.
CallFails(c) ==
  /\ running[c] # Nothing
  /\ torn' = torn \cup CASE AtStep(c, "record") -> {<<"stock", running[c].item>>}
                          [] AtStep(c, "commit") -> Orphans(c)
                          [] OTHER               -> {}
  /\ EndCall(c)
  /\ UNCHANGED <<tenant, rows, clock, caches, stock, moved, sales, tickets, cart, tables, said, work>>

Tick ==
  /\ clock < work.ticks
  /\ clock' = clock + 1
  /\ UNCHANGED <<tenant, rows, caches, shop, cart, running, work, tables, said>>

Pricing(c) ==
  \E n \in UNION {DOMAIN lines : lines \in Carts} :
    PriceHit(c, n) \/ PriceMiss(c, n) \/ PriceLoad(c, n) \/ PriceStore(c, n)

PlatformNext ==
  \/ Tick
  \/ \E i \in Items, p \in Prices : \E type \in ForTenant(tenant).supported : Create(i, type, p)
  \/ \E c \in Slots :
       \/ \E f \in Filters : ListHit(c, f) \/ ListMiss(c, f)
       \/ ListLoad(c) \/ ListStore(c)
       \/ \E i \in Items : CheckEntity(c, i, "update") \/ CheckEntity(c, i, "delete")
       \/ Update(c) \/ SoftDelete(c)
       \/ \E lines \in Carts : BuildCart(c, lines)
       \/ Pricing(c) \/ CartIsPriced(c)
       \/ Commit(c) \/ CommitLine(c) \/ DeductLine(c) \/ CreateSale(c)
       \/ \E n \in DOMAIN sales, i \in Items : There(i) /\ Void(c, n, <<i>>)
       \/ \E n \in DOMAIN sales : Void(c, n, [k \in DOMAIN sales[n].lines |-> sales[n].lines[k].item])
       \/ VoidLine(c) \/ VoidMark(c)
       \/ \E i \in Items : StockCall(c, i, "receive", 1)
       \/ \E i \in Items, q \in {-1, 1} : StockCall(c, i, "adjust", q)
       \/ Receive(c) \/ Record(c) \/ Adjust(c)
       \/ CallFails(c)

PlatformSpec == PlatformInit /\ [][PlatformNext]_platformVars

-----------------------------------------------------------------------------
(* Properties. *)

\* The tables that were in the database at some moment of tick t.
During(t) ==
  {p.rows : p \in {q \in past : q.from <= t /\ t <= q.until}} \cup (IF written <= t THEN {rows} ELSE {})

\* The type invariant, for the shape of the calls in flight.
PlatformTypeOK ==
  /\ clock \in 0 .. MaxClock /\ work.left \in Nat
  /\ \A i \in Items : \A n \in DOMAIN stock[i] : stock[i][n] \in Int
  /\ \A c \in Slots : running[c] # Nothing =>
       running[c].step \in {"list", "liststore", "update", "delete", "cart", "commit", "void", "adjust", "receive", "record"}

\* Nothing reaches the cached lists but their TTL, so this is all that findAll
\* promises: what it answers matched the filter, deleted rows left out, at some
\* moment of the last minute.  (A list whose loading itself took a tick may be
\* as much older.)
AnswersAreRecent ==
  said # Nothing => \/ said.slow
                 \/ \E t \in said.at - ListTTL .. said.at : \E table \in During(t) :
                      said.items = Matching(table, said.filter)

\* Each price in a cart is what its entity cost on its channel at some moment
\* of the half minute before, discounts of the hour included: a cached price is
\* never another channel's, another quarter's or another day's.
PricesAreRecent ==
  cart # Nothing => \/ cart.slow
                 \/ \A n \in DOMAIN cart.lines :
                      LET line == cart.input[n]
                      IN  \E t \in cart.at - PriceTTL .. cart.at : \E table \in During(t) :
                            /\ line.item \in DOMAIN table
                            /\ Bucket(Instants[t]) = Bucket(Instants[cart.at])
                            /\ cart.lines[n].unitPrice = FinalPrice(table[line.item], line.channel, Instants[t])

\* What callers are answered from the caches is never older than it may be.
CachesAreRecent == AnswersAreRecent /\ PricesAreRecent

\* The days that one passes walking from a day to another.
Walk(from, to) ==
  IF {from, to} \subseteq ToSet(Days)
  THEN {Days[((IndexOfDay(from) - 1 + k) % 7) + 1] : k \in 0 .. (IndexOfDay(to) - IndexOfDay(from)) % 7}
  ELSE {}

\* A window is open on a day that is passed on the way from its first day to
\* its last, within its hours.
IsOpen(window, at) ==
  /\ at.day \in IF Len(window.days) = 1 THEN {window.days[1]} ELSE Walk(window.days[1], window.days[2])
  /\ at.minute \in window.from .. window.to

\* An entity costs its channel price, or what an open window makes of it if
\* there is one with a discount; a range of days may run over the end of the
\* week.
DiscountsHaveAWindow ==
  \A i \in Items, at \in Range(Instants) : There(i) =>
    LET windows == rows[i].windows
        open    == {n \in DOMAIN windows : windows[n].pct # 0 /\ IsOpen(windows[n], at)}
        price   == ChannelPrice(rows[i], "POS")
        final   == FinalPrice(rows[i], "POS", at)
    IN  IF open = {} THEN final = price
                     ELSE \E n \in open : final = Discounted(price, windows[n].pct)

\* TaxClass.inclusive of schema.prisma says "Tax included in price?", TaxResult's
\* "is tax included in price or added on top?": what the customer is asked for is
\* the sum of the lines, with each tax in it once.
TaxIsAskedOnce ==
  cart # Nothing => cart.totals.grandTotal = Total(cart.lines, LAMBDA l : l.total)

OnHand(i) == Summed(stock[i])

\* A receipt that has written its stock and not yet its movement.
Unrecorded(i) == {c \in Slots : AtStep(c, "record") /\ running[c].item = i}

\* getReorderAlerts: one for each row of stock that is down to the point.
Alerts(i) ==
  IF Found(i) /\ rows[i].reorder # 0 THEN {n \in DOMAIN stock[i] : stock[i][n] <= rows[i].reorder} ELSE {}

\* The stock of an entity is the sum of its movements, in however many rows it
\* is kept (two first receipts make two); and whenever the movements say that
\* an entity is down to its reorder point there is an alert for it.  Only a
\* receipt that died before its movements, a first adjustment below 0 and, for
\* the alert, deletion are excused.
StockIsItsMovements ==
  \A i \in Items : Unrecorded(i) = {} /\ <<"stock", i>> \notin torn =>
    /\ OnHand(i) = moved[i]
    /\ Found(i) /\ stock[i] # <<>> /\ rows[i].reorder > 0 /\ moved[i] <= rows[i].reorder
         => Alerts(i) # {}

\* The lines of an entity that were sold, by sale and line.
SoldLines(i) ==
  UNION {{<<n, k>> : k \in {k \in DOMAIN sales[n].lines : sales[n].lines[k].item = i}} : n \in DOMAIN sales}

Sold(i) == Cardinality(SoldLines(i))

\* A commit at work that has passed a line of the entity.
Committing(i) == {c \in Slots : AtStep(c, "commit") /\ i \in Passed(c)}

\* No sale is stored before its kitchen tickets are out, and a ticket that no
\* sale is stored for is one of a commit that is at work, was refused or died;
\* none is requested for a tenant whose blueprint has no kitchen, unless a flag
\* of the entity says so.
SalesAreTicketed ==
  \A i \in Items : There(i) =>
    /\ PrintsTicket(i) => tickets[i] >= Sold(i)
    /\ tickets[i] > Sold(i) => <<"kitchen", i>> \in torn \/ Committing(i) # {}
    /\ tickets[i] > 0 => "kitchen" \in ForTenant(tenant).engines \/ "CAN_GENERATE_KITCHEN_TICKET" \in rows[i].on

\* What happens to the stock, and in the kitchen, is accounted for.
ShopInv == StockIsItsMovements /\ SalesAreTicketed

\* commitSale is documented to "deduct stock", and to refuse what is not there
\* ("Insufficient stock for ..."): a line that its stock covers is not refused.
InStockIsSold ==
  [][\A c \in Slots : DeductLine(c) /\ "CAN_CONSUME_INGREDIENTS" \notin Able(LineOf(c).item) =>
       \A n \in DOMAIN stock[LineOf(c).item] : stock[LineOf(c).item][n] < LineOf(c).quantity]_platformVars

\* A form asks for what its type requires, whichever steps it skips; a type that
\* can be booked or prints tickets has the engine for it.
BlueprintIsCoherent ==
  LET blueprint == ForTenant(tenant)
  IN  \A type \in blueprint.supported \cap DOMAIN blueprint.capabilities :
        /\ blueprint.required[type] \subseteq Asked(blueprint, type)
        /\ "CAN_GENERATE_KITCHEN_TICKET" \in blueprint.capabilities[type] => "kitchen" \in blueprint.engines
        /\ "CAN_REQUIRE_BOOKING" \in blueprint.capabilities[type] => "booking" \in blueprint.engines
===============================================================================
