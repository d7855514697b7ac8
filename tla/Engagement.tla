------------------------------ MODULE Engagement ------------------------------
(***************************************************************************)
(* One published project and the users who like, save, view and inquire    *)
(* about it.  A like is a row of ProjectLike and a count on the project,   *)
(* written in one READ COMMITTED transaction that first reads both; the    *)
(* project's qualityScore is recomputed by whoever counts, from the        *)
(* counters that call read.  Each statement is a step of its own, so that  *)
(* the transactions of other calls fall between them.                      *)
(***************************************************************************)
EXTENDS Ranking, FiniteSets

CONSTANTS
  Users,     \* who likes, saves and inquires: none is the author
  Calls,     \* slots for HTTP requests in flight
  Nobody,    \* the user of a call that is not a user's
  Seeds,     \* what the project may be like to begin with
  MaxCalls   \* bound: how many requests are made

ASSUME EngagementAssumption ==
  /\ IsFiniteSet(Users)
  /\ Nobody \notin Users
  /\ Seeds \subseteq [others : Nat, view : Nat, inquiry : Nat, days : Ages, listing : Listing]
  /\ MaxCalls \in Nat

VARIABLES
  seed,      \* the element of Seeds; others is the likes of users not in Users
  likes,     \* the committed ProjectLike rows
  saves,     \* the Saved rows
  project,   \* likeCount, viewCount, inquiryCount
  quality,   \* qualityScore, in tenths
  days,      \* how long ago updatedAt is
  isListed,  \* deletedAt is null
  made,      \* how many requests have been made
  call,      \* the program counter and local variables of each call
  raced,     \* history: the users who had two toggles of a kind in flight
  unsure,    \* history: those who were not told how a toggle ended
  toldLiked, \* history: the users last told that they like the project
  toldSaved, \* history: the users last told that they saved it
  alone,     \* history: the calls since whose beginning no other has counted
  inStep     \* history: the last to count was alone

rows    == <<likes, saves>>
counted == <<project, quality, days, inStep>>
history == <<raced, unsure, toldLiked, toldSaved>>
vars    == <<seed, rows, counted, isListed, made, call, history, alone>>

Kind == {"like", "save"}
Step == {"idle", "like?", "like", "unlike", "likes", "unlikes", "save?", "save", "unsave",
         "view", "inquire"}
Call == [step  : Step,
         user  : Users \cup {Nobody},
         seen  : Counters,      \* the project as the call read it
         write : BOOLEAN]       \* its INSERT or DELETE has a row to commit

Unread == [view |-> 0, inquiry |-> 0, like |-> 0]
Slot(step, u, seen, write) == [step |-> step, user |-> u, seen |-> seen, write |-> write]
Idle == Slot("idle", Nobody, Unread, FALSE)

TypeOK ==
  /\ seed \in Seeds
  /\ likes \in SUBSET Users /\ saves \in SUBSET Users
  /\ project \in Counters /\ quality \in Int /\ days \in Ages
  /\ isListed \in BOOLEAN
  /\ made \in Nat
  /\ call \in [Calls -> Call]
  /\ raced \in SUBSET (Users \X Kind) /\ unsure \in SUBSET (Users \X Kind)
  /\ toldLiked \in SUBSET Users /\ toldSaved \in SUBSET Users
  /\ alone \in SUBSET Calls
  /\ inStep \in BOOLEAN

Init ==
  /\ seed \in Seeds
  /\ likes \in SUBSET Users /\ saves = {}
  /\ project = [view |-> seed.view, inquiry |-> seed.inquiry, like |-> seed.others + Cardinality(likes)]
  /\ quality = QualityScore(project, seed.listing.rating)
  /\ days = seed.days
  /\ isListed = TRUE
  /\ made = 0
  /\ call = [c \in Calls |-> Idle]
  /\ raced = {} /\ unsure = {}
  /\ toldLiked = likes /\ toldSaved = {}
  /\ alone = {}
  /\ inStep = TRUE

At(c, step)   == call[c].step = step
Become(c, r)  == call' = [call EXCEPT ![c] = r]
Move(c, step) == call' = [call EXCEPT ![c].step = step]

LikeSteps == {"like?", "like", "unlike", "likes", "unlikes"}
SaveSteps == {"save?", "save", "unsave"}
KindOf(step) == IF step \in LikeSteps THEN "like" ELSE "save"
Toggling(u, kind) == {c \in Calls : call[c].user = u /\ KindOf(call[c].step) = kind}

\* A request arrives: the handler runs up to its first read, done in this step.
Begin(c, step, u) ==
  /\ At(c, "idle")
  /\ made < MaxCalls
  /\ made' = made + 1
  /\ Become(c, Slot(step, u, project, FALSE))
  /\ raced' = IF u # Nobody /\ Toggling(u, KindOf(step)) # {}
               THEN raced \cup {<<u, KindOf(step)>>} ELSE raced
  /\ alone' = alone \cup {c}
  /\ UNCHANGED <<seed, rows, counted, isListed, unsure, toldLiked, toldSaved>>

\* The counters are written from now on n, and the score q with them; updatedAt
\* is touched.
Count(c, n, q) ==
  /\ project' = n
  /\ quality' = q
  /\ days' = 0
  /\ inStep' = (c \in alone)
  /\ alone' = {}

-----------------------------------------------------------------------------
(* toggleLike *)

\* The transaction reads the project, listed or not ...
ToggleLike(c, u) == Begin(c, "like?", u)

\* ... and whether there is a committed like of the user.
ReadLike(c) ==
  /\ At(c, "like?")
  /\ Move(c, IF call[c].user \in likes THEN "unlike" ELSE "like")
  /\ UNCHANGED <<seed, rows, counted, isListed, made, history, alone>>

\* Another transaction has written the user's row and has not committed.
Locked(c, step) ==
  \E other \in Calls \ {c} :
    At(other, step) /\ call[other].user = call[c].user /\ call[other].write

\* INSERT ... ON CONFLICT DO NOTHING waits for whoever is writing the row.
InsertLike(c) ==
  /\ At(c, "like")
  /\ ~Locked(c, "likes") /\ ~Locked(c, "unlikes")
  /\ Become(c, [call[c] EXCEPT !.step = "likes", !.write = call[c].user \notin likes])
  /\ UNCHANGED <<seed, rows, counted, isListed, made, history, alone>>

\* DELETE waits for another delete, and does not see a row not committed yet.
DeleteLike(c) ==
  /\ At(c, "unlike")
  /\ ~Locked(c, "unlikes")
  /\ Become(c, [call[c] EXCEPT !.step = "unlikes", !.write = call[c].user \in likes])
  /\ UNCHANGED <<seed, rows, counted, isListed, made, history, alone>>

\* The answer reaches the user, or an error after the commit does.
Tell(c, told) ==
  \/ told /\ UNCHANGED unsure
  \/ UNCHANGED <<toldLiked, toldSaved>> /\ unsure' = unsure \cup {<<call[c].user, KindOf(call[c].step)>>}

\* Mutant: the score is of the likes before this one.
CommitLikeScoredEarly(c) ==
  LET u == call[c].user  seen == call[c].seen IN
  /\ At(c, "likes")
  /\ likes' = IF call[c].write THEN likes \cup {u} ELSE likes
  /\ Count(c, [project EXCEPT !.like = @ + 1],
              QualityScore(seen, seed.listing.rating))
  /\ Tell(c, toldLiked' = toldLiked \cup {u} /\ UNCHANGED toldSaved)
  /\ Become(c, Idle)
  /\ UNCHANGED <<seed, saves, isListed, made, raced>>

\* The count goes up by one whether or not the INSERT wrote a row; the score is
\* of the counters as the transaction read them.
CommitLike(c) ==
  LET u == call[c].user  seen == call[c].seen IN
  /\ At(c, "likes")
  /\ likes' = IF call[c].write THEN likes \cup {u} ELSE likes
  /\ Count(c, [project EXCEPT !.like = @ + 1],
              QualityScore([seen EXCEPT !.like = @ + 1], seed.listing.rating))
  /\ Tell(c, toldLiked' = toldLiked \cup {u} /\ UNCHANGED toldSaved)
  /\ Become(c, Idle)
  /\ UNCHANGED <<seed, saves, isListed, made, raced>>

\* Mutant: the count is taken down when it was more than one.
CommitUnlikeKeepingOne(c) ==
  LET u == call[c].user  seen == call[c].seen IN
  /\ At(c, "unlikes")
  /\ likes' = IF call[c].write THEN likes \ {u} ELSE likes
  /\ Count(c, [project EXCEPT !.like = IF seen.like > 1 THEN @ - 1 ELSE @],
              QualityScore([seen EXCEPT !.like = AtLeast(@ - 1, 0)], seed.listing.rating))
  /\ Tell(c, toldLiked' = toldLiked \ {u} /\ UNCHANGED toldSaved)
  /\ Become(c, Idle)
  /\ UNCHANGED <<seed, saves, isListed, made, raced>>

\* Mutant: the DELETE has lost its condition on the user.
CommitUnlikeOfAll(c) ==
  LET u == call[c].user  seen == call[c].seen IN
  /\ At(c, "unlikes")
  /\ likes' = IF call[c].write THEN {} ELSE likes
  /\ Count(c, [project EXCEPT !.like = IF seen.like > 0 THEN @ - 1 ELSE @],
              QualityScore([seen EXCEPT !.like = AtLeast(@ - 1, 0)], seed.listing.rating))
  /\ Tell(c, toldLiked' = toldLiked \ {u} /\ UNCHANGED toldSaved)
  /\ Become(c, Idle)
  /\ UNCHANGED <<seed, saves, isListed, made, raced>>

\* The count goes down unless it was seen at nought.
CommitUnlike(c) ==
  LET u == call[c].user  seen == call[c].seen IN
  /\ At(c, "unlikes")
  /\ likes' = IF call[c].write THEN likes \ {u} ELSE likes
  /\ Count(c, [project EXCEPT !.like = IF seen.like > 0 THEN @ - 1 ELSE @],
              QualityScore([seen EXCEPT !.like = AtLeast(@ - 1, 0)], seed.listing.rating))
  /\ Tell(c, toldLiked' = toldLiked \ {u} /\ UNCHANGED toldSaved)
  /\ Become(c, Idle)
  /\ UNCHANGED <<seed, saves, isListed, made, raced>>

-----------------------------------------------------------------------------
(* toggleSave: no transaction, and no count *)

ToggleSave(c, u) == Begin(c, "save?", u)

ReadSave(c) ==
  /\ At(c, "save?")
  /\ Move(c, IF call[c].user \in saves THEN "unsave" ELSE "save")
  /\ UNCHANGED <<seed, rows, counted, isListed, made, history, alone>>

\* create throws when the row is there by now, delete when it is not.
CreateSave(c) ==
  LET u == call[c].user IN
  /\ At(c, "save")
  /\ u \notin saves
  /\ saves' = saves \cup {u}
  /\ Tell(c, toldSaved' = toldSaved \cup {u} /\ UNCHANGED toldLiked)
  /\ Become(c, Idle)
  /\ UNCHANGED <<seed, likes, counted, isListed, made, raced, alone>>

DeleteSave(c) ==
  LET u == call[c].user IN
  /\ At(c, "unsave")
  /\ u \in saves
  /\ saves' = saves \ {u}
  /\ Tell(c, toldSaved' = toldSaved \ {u} /\ UNCHANGED toldLiked)
  /\ Become(c, Idle)
  /\ UNCHANGED <<seed, likes, counted, isListed, made, raced, alone>>

-----------------------------------------------------------------------------
(* getBySlug, trackInquiry, archive *)

GetBySlug(c) == isListed /\ Begin(c, "view", Nobody)

CountView(c) ==
  LET seen == call[c].seen IN
  /\ At(c, "view")
  /\ Count(c, [project EXCEPT !.view = @ + 1],
              QualityScore([seen EXCEPT !.view = @ + 1], seed.listing.rating))
  /\ Become(c, Idle)
  /\ UNCHANGED <<seed, rows, isListed, made, history>>

TrackInquiry(c) == Begin(c, "inquire", Nobody)

CountInquiry(c) ==
  LET seen == call[c].seen IN
  /\ At(c, "inquire")
  /\ Count(c, [project EXCEPT !.inquiry = @ + 1],
              QualityScore([seen EXCEPT !.inquiry = @ + 1], seed.listing.rating))
  /\ Become(c, Idle)
  /\ UNCHANGED <<seed, rows, isListed, made, history>>

\* The owner archives the project, which touches updatedAt.
Archive ==
  /\ isListed
  /\ isListed' = FALSE
  /\ days' = 0
  /\ UNCHANGED <<seed, rows, project, quality, inStep, made, call, history, alone>>

\* A call throws: its transaction, if it has one, is rolled back.
Fail(c) ==
  /\ ~At(c, "idle")
  /\ Become(c, Idle)
  /\ unsure' = IF call[c].user = Nobody THEN unsure
                ELSE unsure \cup {<<call[c].user, KindOf(call[c].step)>>}
  /\ UNCHANGED <<seed, rows, counted, isListed, made, raced, toldLiked, toldSaved, alone>>

Next ==
  \/ Archive
  \/ \E c \in Calls :
       \/ \E u \in Users : ToggleLike(c, u) \/ ToggleSave(c, u)
       \/ ReadLike(c) \/ InsertLike(c) \/ DeleteLike(c) \/ CommitLike(c) \/ CommitUnlike(c)
       \/ ReadSave(c) \/ CreateSave(c) \/ DeleteSave(c)
       \/ GetBySlug(c) \/ CountView(c)
       \/ TrackInquiry(c) \/ CountInquiry(c)
       \/ Fail(c)

Spec == Init /\ [][Next]_vars

-----------------------------------------------------------------------------
(* Properties *)

\* As long as no user sends two like toggles at a time, the likeCount that the
\* lists sort by is the number of ProjectLike rows, whatever other users do in
\* between the reads and the writes of a toggle.
LikesMatchRows ==
  (\A u \in Users : <<u, "like">> \notin raced) => project.like = seed.others + Cardinality(likes)

\* A user who toggles one at a time and has heard how each toggle ended was told
\* the truth: the button shows what the rows hold.
AnswersAreTrue ==
  \A u \in Users :
    /\ <<u, "like">> \notin raced \cup unsure /\ Toggling(u, "like") = {}
         => (u \in toldLiked <=> u \in likes)
    /\ <<u, "save">> \notin raced \cup unsure /\ Toggling(u, "save") = {}
         => (u \in toldSaved <=> u \in saves)

\* The score is computed from the counters a call read earlier.  Once a call has
\* counted that no other overtook, the score is the score of the counters again,
\* so a score that lags behind does so until the next quiet view and no longer.
\* Two unlikes of one user at once can take likeCount below nought, and there
\* the calls do not agree on what to score.
ScoreFollowsCounters ==
  inStep /\ project.like >= 0 => quality = QualityScore(project, seed.listing.rating)

\* Types, what users are told, and what the lists sort by.
EngagementInv == TypeOK /\ AnswersAreTrue /\ ScoreFollowsCounters

\* A view, a like or an inquiry never lowers a project or its author in any of
\* the three lists, except where qualityScore was at most 1 and so had been
\* taken for a fraction of 100: a project with 25 views and nothing else ranks as
\* if its score were 70, and loses that to its first like; and where likeCount
\* has been raced below nought, what was written for the score is not of it.
EngagementNeverCostsRank ==
  [][LET p == seed.listing IN
     /\ inStep /\ inStep'
     /\ project' # project /\ project'.like >= project.like /\ project.like >= 0
     /\ ~ReadAsFraction(quality)
     => /\ ProjectScore(project, quality, days, p)' >= ProjectScore(project, quality, days, p)
        /\ SearchScore(project, quality, days, p)' >= SearchScore(project, quality, days, p)
        /\ DeveloperScore(project, days, p)' >= DeveloperScore(project, days, p)]_vars
===============================================================================
