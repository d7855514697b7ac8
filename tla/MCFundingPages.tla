---------------------------- MODULE MCFundingPages ----------------------------
(***************************************************************************)
(* Instances of FundingPages, and of the Escrow under it, for TLC.         *)
(***************************************************************************)
EXTENDS FundingPages, TLC

Mix(pages, from, connected, buttons, n, f) ==
  [buttons |-> buttons, connected |-> connected, faults |-> f, from |-> from, moves |-> n,
   pages |-> pages]

NoSteps == {}

\* Escrow alone; paying again; paying with a loss, and delivering; what follows
\* a delivery; the payout section, by itself and with a release; and reviews.
AllMixes ==
  {Mix({}, "new", FALSE, {}, 0, 0),
   Mix({"client"}, "new", TRUE, {"fund", "pay"}, 4, 0),
   Mix({"client"}, "new", TRUE, {"fund", "pay"}, 2, 1),
   Mix(parties, "new", TRUE, {"fund", "pay", "submit"}, 3, 0),
   Mix(parties, "submitted", TRUE, {"release", "dispute", "resolve"}, 2, 0),
   Mix({"client"}, "submitted", TRUE, {"release", "dispute"}, 2, 1),
   Mix({"developer"}, "new", FALSE, {"check"}, 3, 1),
   Mix(parties, "submitted", FALSE, {"check", "release"}, 2, 1),
   Mix({"client"}, "submitted", TRUE, {"release", "review"}, 3, 0)}
==============================================================================
