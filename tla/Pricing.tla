-------------------------------- MODULE Pricing --------------------------------
(***************************************************************************)
(* Prices and taxes as the engines compute them: channel price, discount   *)
(* window, tax class, cart.  Amounts are whole cents, rates and discounts  *)
(* whole percents, times of day whole minutes.                             *)
(***************************************************************************)
EXTENDS Integers, Sequences, FiniteSetsExt, SequencesExt

\* Math.round of a quotient of naturals.
Rounded(n, d) == (2 * n + d) \div (2 * d)

Days == <<"MON", "TUE", "WED", "THU", "FRI", "SAT", "SUN">>

\* Its index, and 0 (-1 in the code) for a day that is not listed.
IndexOfDay(day) == IF day \in ToSet(Days) THEN CHOOSE i \in DOMAIN Days : Days[i] = day ELSE 0

\* Mutant: a range that runs over the end of the week is empty.
DayInRangeOfWeek(day, from, to) ==
  LET f == IndexOfDay(from)  t == IndexOfDay(to)  d == IndexOfDay(day)
  IN  0 \notin {f, t, d} /\ d >= f /\ d <= t

DayInRange(day, from, to) ==
  LET f == IndexOfDay(from)  t == IndexOfDay(to)  d == IndexOfDay(day)
  IN  /\ 0 \notin {f, t, d}
      /\ IF f <= t THEN d >= f /\ d <= t ELSE d >= f \/ d <= t

\* window.day is one day, or two with a dash between.
MatchesDay(window, day) ==
  CASE Len(window.days) = 1 -> window.days[1] = day
    [] OTHER                -> DayInRange(day, window.days[1], window.days[2])

MatchesTime(window, minute) == minute >= window.from /\ minute <= window.to

Discounted(price, pct) == Rounded(price * (100 - pct), 100)

\* The first window that matches and has a discount.
ApplyTimeWindows(price, windows, at) ==
  LET Hits(w) == MatchesDay(w, at.day) /\ MatchesTime(w, at.minute) /\ w.pct # 0
      open    == {i \in DOMAIN windows : Hits(windows[i])}
  IN  IF open = {} THEN price ELSE Discounted(price, windows[Min(open)].pct)

\* A channel without a price of its own has the base price.
ChannelPrice(entity, channel) ==
  IF channel \in DOMAIN entity.channels THEN entity.channels[channel] ELSE entity.price

FinalPrice(entity, channel, at) ==
  ApplyTimeWindows(ChannelPrice(entity, channel), entity.windows, at)

\* Results for one minute share a key with the rest of their quarter.
Bucket(at) == <<at.day, at.minute \div 15>>

-----------------------------------------------------------------------------
(* Taxes. *)

ZeroClass == [rate |-> 0, inclusive |-> FALSE]

\* resolveTaxClass: an unknown class taxes nothing.
TaxClass(classes, name) == IF name \in DOMAIN classes THEN classes[name] ELSE ZeroClass

TaxOn(price, class) ==
  IF class.inclusive THEN Rounded(price * class.rate, 100 + class.rate)
                     ELSE Rounded(price * class.rate, 100)

PricedLine(line, price, class) ==
  LET tax == TaxOn(price, class)
  IN  [item |-> line.item, quantity |-> line.quantity, unitPrice |-> price, tax |-> tax,
       inclusive |-> class.inclusive,
       total |-> (price + IF class.inclusive THEN 0 ELSE tax) * line.quantity]

\* Lines that were priced, of the given items.
PricedLines(items) ==
  Seq([item : items, quantity : Int, unitPrice : Int, tax : Int, inclusive : BOOLEAN, total : Int])

\* The sum of a sequence of amounts.
Summed(amounts) ==
  LET upto[n \in 0 .. Len(amounts)] == IF n = 0 THEN 0 ELSE upto[n - 1] + amounts[n]
  IN  upto[Len(amounts)]

Total(lines, Amount(_)) == Summed([n \in DOMAIN lines |-> Amount(lines[n])])

\* buildCart: the tax of a line that includes it is added once more.
CartTotals(lines) ==
  LET subtotal == Total(lines, LAMBDA l : l.unitPrice * l.quantity)
      totalTax == Total(lines, LAMBDA l : l.tax * l.quantity)
  IN  [subtotal |-> subtotal, totalTax |-> totalTax, grandTotal |-> subtotal + totalTax]
===============================================================================
