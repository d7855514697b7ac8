----------------------------- MODULE MCDashboard -----------------------------
(***************************************************************************)
(* Instances of Dashboard, with Engagement and Profile in it, for TLC.     *)
(***************************************************************************)
EXTENDS DashboardInvariant, EngagementInvariant, TLC

\* A project a view away from its first tenths of a score; one with a
\* score that the next view takes past 1; one whose score a like takes to its
\* ceiling.
Quiet  == [filled |-> 3, recency |-> 0, isFeatured |-> FALSE, rating |-> 0,
           profile |-> 4, received |-> 3, answered |-> 1]
Promoted == [Quiet EXCEPT !.filled = 7, !.recency = 30, !.isFeatured = TRUE]
Young == [others |-> 0, view |-> 24, inquiry |-> 0, days |-> 16, listing |-> Quiet]
MCSeeds ==
  {Young,
   [others |-> 0, view |-> 49, inquiry |-> 0, days |-> 48, listing |-> Promoted],
   [others |-> 24, view |-> 74, inquiry |-> 0, days |-> 16, listing |-> Promoted]}

\* A developer who has just signed up, with a skill and a place the page does
\* not offer; one with a verified account; a client.
Row(title, bio, location, contact, skills, records, github) ==
  [title |-> title, bio |-> bio, location |-> location, contact |-> contact,
   skills |-> skills, entries |-> records, github |-> github]
Fresh    == [role |-> "developer", verified |-> None,
             user |-> Row("own", None, "Oslo", None, {"React", "Cobol"}, {"BSc"}, None)]
Verified == [role |-> "developer", verified |-> "mine",
             user |-> Row("own", "own", "Accra", "work", {"React"}, {"BSc"}, "mine")]
Customer == [role |-> "client", verified |-> None,
             user |-> Row("own", None, "Oslo", None, {"React", "Cobol"}, {"BSc"}, "other")]
MCRows == {Fresh, Verified, Customer}

\* Empties a text and a list; another URL, one of the user's, and no URL.
MCEdits == {<<"title", None>>, <<"github", "other">>, <<"github", "mine">>,
            <<"github", "bad">>, <<"skills", {}>>}

\* Three calls at the project; the dashboard while somebody likes, views or asks
\* about it and it is archived; while mail arrives and the database fails; the
\* settings in two tabs; the dashboard while they are saved.
Mix(calls, moves_, asks, mail, fallbacks, seeds_, rows_) ==
  [calls |-> calls, moves |-> moves_, asks |-> asks, mail |-> mail, fallbacks |-> fallbacks,
   seeds |-> seeds_, rows |-> rows_]
MCMixes ==
  {Mix(3, 0, 0, 0, FALSE, MCSeeds, {Customer}),
   Mix(1, 0, 2, 0, FALSE, {Young}, {Fresh}),
   Mix(0, 0, 2, 1, TRUE, {Young}, {Fresh}),
   Mix(0, 5, 0, 0, FALSE, {Young}, MCRows),
   Mix(0, 2, 2, 0, FALSE, {Young}, {Fresh})}

Symmetry == Permutations(Calls) \cup Permutations(Users) \cup Permutations(Tabs)
===============================================================================
