------------------------- MODULE EngagementInvariant -------------------------
(***************************************************************************)
(* Why likeCount is the number of like rows, what a user is told is true   *)
(* and the score is that of the counters: what each step of a toggle that  *)
(* no other toggle of its user overlaps knows of the rows, and what a call *)
(* that nobody overtook knows of the counters.                             *)
(***************************************************************************)
EXTENDS Engagement

NoLikeRaced == \A u \in Users : <<u, "like">> \notin raced

\* A toggle belongs to a user, and unless the user raced, to no other call.
OneToggleEach ==
  \A c \in Calls :
    /\ call[c].step \in LikeSteps \cup SaveSteps => call[c].user \in Users
    /\ call[c].step \in LikeSteps /\ <<call[c].user, "like">> \notin raced =>
         \A d \in Calls \ {c} :
           call[d].step \in LikeSteps => call[d].user # call[c].user

\* What the toggle has read still holds when it writes and when it commits.
ReadsStillHold ==
  NoLikeRaced =>
    \A c \in Calls :
      LET u == call[c].user  counted0 == call[c].seen.like IN
      /\ call[c].step = "like?" /\ u \in likes => counted0 > 0
      /\ call[c].step \in {"unlike", "unlikes"} => u \in likes /\ counted0 > 0
      /\ call[c].step \in {"like", "likes"} => u \notin likes
      /\ call[c].step \in {"likes", "unlikes"} => call[c].write

LInv ==
  /\ TypeOK
  /\ OneToggleEach
  /\ ReadsStillHold
  /\ LikesMatchRows

\* Whoever does not race knows of his own row, whatever others do.
OwnReadsHold ==
  \A c \in Calls :
    LET u == call[c].user IN
    <<u, "like">> \notin raced =>
      /\ call[c].step \in {"unlike", "unlikes"} => u \in likes
      /\ call[c].step \in {"like", "likes"} => u \notin likes
      /\ call[c].step \in {"likes", "unlikes"} => call[c].write

\* What was last heard of a row is what it is, from the commit on.
ToldIsTrue ==
  \A u \in Users :
    /\ <<u, "like">> \notin raced \cup unsure => (u \in toldLiked <=> u \in likes)
    /\ <<u, "save">> \notin unsure => (u \in toldSaved <=> u \in saves)

\* A call that no other has overtaken has seen the counters there are.
AloneHasSeenAll == \A c \in alone : ~At(c, "idle") => call[c].seen = project

EInv ==
  /\ LInv
  /\ OwnReadsHold
  /\ ToldIsTrue
  /\ AloneHasSeenAll
  /\ ScoreFollowsCounters
===============================================================================
