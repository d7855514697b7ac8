------------------------------- MODULE Ranking -------------------------------
(***************************************************************************)
(* The scores a project and its developer are listed by.  Amounts with a   *)
(* fraction are kept as whole numbers of a smaller unit: qualityScore and  *)
(* averageRating in tenths, weighted sums in hundredths.  JavaScript's     *)
(* binary fractions can round a half the other way; the units are exact.   *)
(***************************************************************************)
EXTENDS Integers

AtMost(n, max)  == IF n > max THEN max ELSE n
AtLeast(n, min) == IF n < min THEN min ELSE n
Clamp(n)        == AtLeast(AtMost(n, 100), 0)

\* Math.round(n / d)
Rounded(n, d) == (2 * n + d) \div (2 * d)

\* The ages, in days, at which freshness is looked at, and what it decays to
\* there with a half life of 16 and of 24 days.
Ages == {0, 16, 48}
Decayed16(days) == CASE days = 0 -> 100 [] days = 16 -> 37 [] days = 48 -> 5
Decayed24(days) == CASE days = 0 -> 100 [] days = 16 -> 51 [] days = 48 -> 14

\* A project's counters, and what else is scored.
Counters == [view : Nat, inquiry : Nat, like : Int]
Listing  == [filled     : 0 .. 7,    \* how many completenessChecks hold
             recency    : 0 .. 30,   \* recencyBoost of createdAt
             isFeatured : BOOLEAN,
             rating     : 0 .. 50,   \* averageRating
             profile    : 0 .. 10,   \* how many of the author's profileChecks hold
             received   : Nat,       \* hire requests the author received
             answered   : Nat]       \* and how many of them are answered

\* In tenths: 0.7 of the engagement score and 0.3 of the rating.
QualityScore(n, rating) ==
  7 * AtMost(4 * n.like + 8 * n.inquiry + n.view \div 25, 100) + 3 * Clamp(2 * rating)

\* Mutant: the score is compared in its tenths.
QualityModelOfTenths(quality) == IF quality <= 100 THEN 100 * quality ELSE quality

\* A qualityScore up to 1 is taken for a fraction of 100, above for a percentage.
QualityModel(quality)   == IF quality <= 10 THEN 100 * quality ELSE quality
ReadAsFraction(quality) == quality # 0 /\ quality <= 10

Share(filled, checks) == Rounded(100 * filled, checks)
Featured(p)           == IF p.isFeatured THEN 800 ELSE 0

\* The score of the project list.
ProjectScore(n, quality, days, p) ==
  LET quality100 == Clamp(Rounded(700 * p.rating + 65 * QualityModel(quality), 1000))
      activity   == Clamp(Rounded(600 * n.inquiry + 210 * n.like + 2 * n.view, 60))
      signals    == 25 * Decayed16(days) + 30 * quality100 + 20 * Share(p.filled, 7) + 25 * activity
  IN  Rounded(AtMost(signals + Featured(p), 10000), 100)

\* The score of a search with no query text, which has relevance 70.  The long
\* description, which no project lacks, is an eighth check.
SearchScore(n, quality, days, p) ==
  LET quality100 == Clamp(Rounded(1200 * p.rating + 40 * QualityModel(quality), 1000))
      engagement == Clamp(Rounded(450 * n.inquiry + 175 * n.like + 2 * n.view, 50))
      activity   == Clamp(Rounded(80 * engagement + 100 * p.recency, 100))
      signals    == 25 * Decayed16(days) + 30 * quality100 + 15 * Share(p.filled + 1, 8)
                    + 20 * activity + 10 * 70
  IN  Rounded(AtMost(signals + Featured(p), 10000), 100)

\* The score of an author of this one project, with no skills asked for.
DeveloperScore(n, days, p) ==
  LET response == Clamp(Rounded(100 * (p.answered + 3), p.received + 5))
      reviews  == IF p.rating = 0 THEN 68 ELSE Clamp(Rounded(50 * p.rating + 5100, 100))
      recent   == IF days <= 45 THEN 1800 ELSE 0
      activity == Clamp(Rounded(recent + AtMost(400 * n.inquiry, 2500) + AtMost(150 * n.like, 1800)
                                + AtMost((100 * n.view) \div 30, 1400), 100))
      signals  == 15 * Decayed24(days) + 30 * response + 25 * reviews
                  + 15 * Share(p.profile + 1, 11) + 15 * activity
  IN  Rounded(80 * signals + 20 * 7000, 10000)
=============================================================================
