--------------------------- MODULE DashboardProofs ---------------------------
(***************************************************************************)
(* For any users, calls and initial counters: likeCount is the number of   *)
(* like rows while no user toggles twice at a time, users are told the     *)
(* truth, the score is that of the counters and engagement never costs a   *)
(* rank.  For any number of dashboards and mixes: no part of a dashboard   *)
(* is older than what had been invalidated when it was asked for; and the  *)
(* project that it shows behaves as Engagement says, the dashboard and the *)
(* settings beside it notwithstanding.  And a settings page that wrote     *)
(* last is true, in any number of tabs.                                    *)
(***************************************************************************)
EXTENDS DashboardInvariant, EngagementInvariant, FiniteSetTheorems, TLAPS

-----------------------------------------------------------------------------
(* The likes and their count *)

\* The slot that an action replaces, and all the slots that it does not.
LEMMA SlotEffect ==
  ASSUME call \in [Calls -> Call], NEW c \in Calls, NEW r \in Call, Become(c, r)
  PROVE  /\ call' \in [Calls -> Call]
         /\ call'[c] = r
         /\ \A other \in Calls \ {c} : call'[other] = call[other]
  BY DEF Become

\* Every score is a number.
LEMMA QualityScoreType ==
  ASSUME NEW n \in Counters, NEW rating \in 0 .. 50
  PROVE  QualityScore(n, rating) \in Int
  BY DEF QualityScore, Counters, AtMost, AtLeast, Clamp

\* Sets of users are finite, so that likes can be counted.
LEMMA LikesAreFinite ==
  ASSUME NEW S \in SUBSET Users
  PROVE  IsFiniteSet(S) /\ Cardinality(S) \in Nat
  BY EngagementAssumption, FS_Subset, FS_CardinalityType

\* A like more or a like less is one more or one less to count.
LEMMA LikesCount ==
  ASSUME NEW S \in SUBSET Users, NEW u \in Users
  PROVE  /\ u \in S => Cardinality(S) > 0
         /\ u \notin S => Cardinality(S \cup {u}) = Cardinality(S) + 1
         /\ u \in S => Cardinality(S \ {u}) = Cardinality(S) - 1
  <1>1. IsFiniteSet(S) /\ Cardinality(S) \in Nat
    BY LikesAreFinite
  <1>2. u \notin S => Cardinality(S \cup {u}) = Cardinality(S) + 1
    BY <1>1, FS_AddElement
  <1>3. u \in S => Cardinality(S \ {u}) = Cardinality(S) - 1
    BY <1>1, FS_RemoveElement
  <1>4. u \in S => Cardinality(S) # 0
    BY <1>1, FS_EmptySet
  <1>5. QED
    BY <1>1, <1>2, <1>3, <1>4

\* In the beginning no toggle is in flight and the count is of the rows.
LEMMA InitEstablishesLInv ==
  ASSUME Init PROVE LInv
  <1>1. Cardinality(likes) \in Nat
    BY LikesAreFinite DEF Init
  <1>2. /\ seed \in Seeds
        /\ seed \in [others : Nat, view : Nat, inquiry : Nat, days : Ages, listing : Listing]
    BY EngagementAssumption DEF Init
  <1>3. project \in Counters
    BY <1>1, <1>2 DEF Init, Counters
  <1>4. quality \in Int
    BY <1>2, <1>3, QualityScoreType DEF Init, Listing
  <1>5. \A c \in Calls : call[c].step = "idle"
    BY DEF Init, Idle, Slot
  <1>6. call \in [Calls -> Call]
    BY DEF Init, Idle, Slot, Call, Step, Unread, Counters
  <1>7. TypeOK
    BY <1>2, <1>3, <1>4, <1>6 DEF Init, TypeOK
  <1>8. OneToggleEach /\ ReadsStillHold
    BY <1>5 DEF OneToggleEach, ReadsStillHold, LikeSteps, SaveSteps
  <1>9. LikesMatchRows
    BY DEF Init, LikesMatchRows
  <1>10. QED
    BY <1>7, <1>8, <1>9 DEF LInv

\* A call begins: if it is a toggle, then either its user races from now on or no
\* other toggle of the user is in flight; and a row there is has been counted.
LEMMA BeginKeepsLInv ==
  ASSUME LInv, NEW c \in Calls, NEW step \in Step, NEW u \in Users \cup {Nobody},
         step \in LikeSteps => step = "like?" /\ u \in Users,
         step \in SaveSteps => u \in Users, Begin(c, step, u)
  PROVE  LInv'
  <1> DEFINE r == Slot(step, u, project, FALSE)
  <1>1. /\ r.step = step /\ r.user = u /\ r.seen = project
        /\ r \in Call
    BY DEF LInv, TypeOK, Slot, Call
  <1>2. Become(c, r)
    BY DEF Begin
  <1> HIDE DEF r
  <1>3. /\ call' \in [Calls -> Call]
        /\ call'[c] = r
        /\ \A other \in Calls \ {c} : call'[other] = call[other]
    BY <1>1, <1>2, SlotEffect DEF LInv, TypeOK
  <1>4. /\ UNCHANGED <<seed, likes, saves, project, quality, days, inStep, isListed>>
        /\ UNCHANGED <<unsure, toldLiked, toldSaved>>
        /\ made' = made + 1
        /\ alone' = alone \cup {c}
    BY DEF Begin, rows, counted
  <1>5. /\ raced \subseteq raced'
        /\ raced' \in SUBSET (Users \X Kind)
        /\ step \in LikeSteps /\ Toggling(u, "like") # {} => <<u, "like">> \in raced'
    <2>1. raced \in SUBSET (Users \X Kind)
      BY DEF LInv, TypeOK
    <2>2. KindOf(step) \in Kind
      BY DEF KindOf, Kind
    <2>3. step \in LikeSteps => KindOf(step) = "like" /\ u # Nobody
      BY EngagementAssumption DEF KindOf
    <2>4. raced' = IF u # Nobody /\ Toggling(u, KindOf(step)) # {}
                   THEN raced \cup {<<u, KindOf(step)>>} ELSE raced
      BY DEF Begin
    <2>5. raced' \in SUBSET (Users \X Kind)
      BY <2>1, <2>2, <2>4
    <2>6. QED
      BY <2>3, <2>4, <2>5
  <1>6. TypeOK'
    BY <1>3, <1>4, <1>5 DEF LInv, TypeOK
  <1>7. OneToggleEach'
    <2>1. ASSUME NEW d \in Calls \ {c}, call[d].step \in LikeSteps, step \in LikeSteps,
                 call[d].user = u
          PROVE  <<u, "like">> \in raced'
      <3>1. KindOf(call[d].step) = "like"
        BY <2>1 DEF KindOf
      <3>2. d \in Toggling(u, "like")
        BY <2>1, <3>1 DEF Toggling
      <3>3. QED
        BY <1>5, <2>1, <3>2
    <2>2. QED
      BY <1>1, <1>3, <1>5, <2>1 DEF LInv, OneToggleEach
  <1>8. ReadsStillHold'
    <2>1. SUFFICES ASSUME NoLikeRaced', NEW d \in Calls
                   PROVE  LET v == call'[d].user  counted0 == call'[d].seen.like IN
                          /\ call'[d].step = "like?" /\ v \in likes' => counted0 > 0
                          /\ call'[d].step \in {"unlike", "unlikes"} => v \in likes' /\ counted0 > 0
                          /\ call'[d].step \in {"like", "likes"} => v \notin likes'
                          /\ call'[d].step \in {"likes", "unlikes"} => call'[d].write
      BY DEF ReadsStillHold
    <2>2. NoLikeRaced
      BY <1>5, <2>1 DEF NoLikeRaced
    <2>3. CASE d # c
      BY <1>3, <1>4, <2>2, <2>3 DEF LInv, ReadsStillHold
    <2>4. CASE d = c
      <3>1. step = "like?" /\ u \in likes => project.like > 0
        <4>1. project.like = seed.others + Cardinality(likes)
          BY <2>2 DEF LInv, LikesMatchRows, NoLikeRaced
        <4>2. seed.others \in Nat /\ likes \in SUBSET Users /\ Cardinality(likes) \in Nat
          BY EngagementAssumption, LikesAreFinite DEF LInv, TypeOK
        <4>3. step = "like?" /\ u \in likes => Cardinality(likes) > 0
          BY <4>2, LikesCount
        <4>4. QED
          BY <4>1, <4>2, <4>3
      <3>2. step \in LikeSteps => step = "like?"
        OBVIOUS
      <3>3. step \notin {"like", "likes", "unlike", "unlikes"}
        BY <3>2 DEF LikeSteps
      <3>4. QED
        BY <1>1, <1>3, <1>4, <2>4, <3>1, <3>3
    <2>5. QED
      BY <2>3, <2>4
  <1>9. LikesMatchRows'
    BY <1>4, <1>5 DEF LInv, LikesMatchRows
  <1>10. QED
    BY <1>6, <1>7, <1>8, <1>9 DEF LInv

\* A toggle takes its next step before the commit: no row and no counter moves.
LEMMA StepKeepsLInv ==
  ASSUME LInv, NEW c \in Calls, NEW r \in Call, Become(c, r),
         r.user = call[c].user, r.seen = call[c].seen,
         call[c].step \in LikeSteps, r.step \in LikeSteps, r.step # "like?",
         NoLikeRaced =>
           /\ r.step \in {"unlike", "unlikes"} => r.user \in likes /\ r.seen.like > 0
           /\ r.step \in {"like", "likes"} => r.user \notin likes
           /\ r.step \in {"likes", "unlikes"} => r.write,
         UNCHANGED <<seed, rows, counted, isListed, made, history, alone>>
  PROVE  LInv'
  <1>1. /\ call' \in [Calls -> Call]
        /\ call'[c] = r
        /\ \A other \in Calls \ {c} : call'[other] = call[other]
    BY SlotEffect DEF LInv, TypeOK
  <1>2. /\ UNCHANGED <<seed, likes, saves, project, quality, days, inStep, isListed, made, alone>>
        /\ UNCHANGED <<raced, unsure, toldLiked, toldSaved>>
    BY DEF rows, counted, history
  <1>3. TypeOK'
    BY <1>1, <1>2 DEF LInv, TypeOK
  <1>4. OneToggleEach'
    BY <1>1, <1>2 DEF LInv, OneToggleEach, LikeSteps, SaveSteps
  <1>5. ReadsStillHold'
    BY <1>1, <1>2 DEF LInv, ReadsStillHold, NoLikeRaced
  <1>6. LikesMatchRows'
    BY <1>2 DEF LInv, LikesMatchRows
  <1>7. QED
    BY <1>3, <1>4, <1>5, <1>6 DEF LInv

\* Another toggle than this one is of another user, if nobody raced.
LEMMA OthersToggleForOthers ==
  ASSUME LInv, NoLikeRaced, NEW c \in Calls, NEW d \in Calls \ {c},
         call[c].step \in LikeSteps, call[d].step \in LikeSteps
  PROVE  call[c].user \in Users /\ call[d].user # call[c].user
  BY DEF LInv, OneToggleEach, NoLikeRaced

\* A toggle commits: its row and its count move together, and no other toggle in
\* flight is of this user.
LEMMA CommitKeepsLInv ==
  ASSUME LInv, NEW c \in Calls, call[c].step \in {"likes", "unlikes"}, Become(c, Idle),
         likes' \in SUBSET Users, project' \in Counters, quality' \in Int,
         days' \in Ages, inStep' \in BOOLEAN, alone' \in SUBSET Calls,
         unsure' \in SUBSET (Users \X Kind), toldLiked' \in SUBSET Users,
         UNCHANGED <<seed, saves, isListed, made, raced, toldSaved>>,
         \A v \in Users \ {call[c].user} : v \in likes' <=> v \in likes,
         NoLikeRaced => project'.like - project.like = Cardinality(likes') - Cardinality(likes)
  PROVE  LInv'
  <1>1. Idle \in Call /\ Idle.step = "idle"
    BY DEF Idle, Slot, Call, Step, Unread, Counters
  <1>2. /\ call' \in [Calls -> Call]
        /\ call'[c] = Idle
        /\ \A other \in Calls \ {c} : call'[other] = call[other]
    BY <1>1, SlotEffect DEF LInv, TypeOK
  <1>3. TypeOK'
    BY <1>2 DEF LInv, TypeOK
  <1>4. OneToggleEach'
    BY <1>1, <1>2 DEF LInv, OneToggleEach, LikeSteps, SaveSteps
  <1>5. ReadsStillHold'
    <2>1. SUFFICES ASSUME NoLikeRaced, NEW d \in Calls \ {c}, call[d].step \in LikeSteps
                   PROVE  call[d].user \in likes' <=> call[d].user \in likes
      BY <1>1, <1>2 DEF LInv, ReadsStillHold, NoLikeRaced, LikeSteps
    <2>2. call[c].step \in LikeSteps
      BY DEF LikeSteps
    <2>3. call[d].user \in Users \ {call[c].user}
      BY <2>1, <2>2, OthersToggleForOthers DEF LInv, OneToggleEach
    <2>4. QED
      BY <2>3
  <1>6. LikesMatchRows'
    <2>1. SUFFICES ASSUME NoLikeRaced
                   PROVE  project'.like = seed.others + Cardinality(likes')
      BY DEF LikesMatchRows, NoLikeRaced
    <2>2. project.like = seed.others + Cardinality(likes)
      BY <2>1 DEF LInv, LikesMatchRows, NoLikeRaced
    <2>3. likes \in SUBSET Users /\ likes' \in SUBSET Users
      BY DEF LInv, TypeOK
    <2>4. Cardinality(likes) \in Nat /\ Cardinality(likes') \in Nat
      BY <2>3, LikesAreFinite
    <2>5. project.like \in Int /\ project'.like \in Int /\ seed.others \in Nat
      BY EngagementAssumption DEF LInv, TypeOK, Counters
    <2>6. QED
      BY <2>1, <2>2, <2>4, <2>5
  <1>7. QED
    BY <1>3, <1>4, <1>5, <1>6 DEF LInv

\* What a call counts is a number, and so is the score it writes.
LEMMA CountType ==
  ASSUME LInv, NEW c \in Calls, NEW n \in Counters, NEW s \in Counters,
         Count(c, n, QualityScore(s, seed.listing.rating))
  PROVE  /\ project' = n /\ project' \in Counters
         /\ quality' \in Int /\ days' \in Ages
         /\ inStep' \in BOOLEAN /\ alone' \in SUBSET Calls
  <1>1. seed.listing.rating \in 0 .. 50
    BY EngagementAssumption DEF LInv, TypeOK, Listing
  <1>2. QualityScore(s, seed.listing.rating) \in Int
    BY <1>1, QualityScoreType
  <1>3. QED
    BY <1>2 DEF Count, Ages

\* A like is committed: the row was not there, so there is one more to count.
LEMMA CommitLikeKeepsLInv ==
  ASSUME LInv, NEW c \in Calls, CommitLike(c) PROVE LInv'
  <1> DEFINE u == call[c].user
             seen == call[c].seen
             n == [project EXCEPT !.like = @ + 1]
             s == [seen EXCEPT !.like = @ + 1]
  <1>1. call[c].step = "likes" /\ u \in Users /\ seen \in Counters /\ project \in Counters
    BY DEF LInv, TypeOK, OneToggleEach, CommitLike, At, LikeSteps, Call
  <1>2. n \in Counters /\ s \in Counters /\ n.like = project.like + 1 /\ project.like \in Int
    BY <1>1 DEF Counters
  <1>3. Count(c, n, QualityScore(s, seed.listing.rating))
    BY DEF CommitLike
  <1> HIDE DEF n, s
  <1>4. /\ project' = n /\ project' \in Counters /\ quality' \in Int /\ days' \in Ages
        /\ inStep' \in BOOLEAN /\ alone' \in SUBSET Calls
    BY <1>2, <1>3, CountType
  <1>5. /\ likes' = IF call[c].write THEN likes \cup {u} ELSE likes
        /\ UNCHANGED <<seed, saves, isListed, made, raced, toldSaved>>
        /\ Become(c, Idle)
    BY DEF CommitLike, Tell
  <1>6. likes \in SUBSET Users /\ likes' \in SUBSET Users
    BY <1>1, <1>5 DEF LInv, TypeOK
  <1>7. unsure' \in SUBSET (Users \X Kind) /\ toldLiked' \in SUBSET Users
    BY <1>1 DEF CommitLike, Tell, LInv, TypeOK, KindOf, Kind
  <1>8. NoLikeRaced => project'.like - project.like = Cardinality(likes') - Cardinality(likes)
    <2>1. SUFFICES ASSUME NoLikeRaced
                   PROVE  project'.like - project.like = Cardinality(likes') - Cardinality(likes)
      OBVIOUS
    <2>2. call[c].write /\ u \notin likes
      BY <1>1, <2>1 DEF LInv, ReadsStillHold
    <2>3. Cardinality(likes') = Cardinality(likes) + 1 /\ Cardinality(likes) \in Nat
      BY <1>1, <1>5, <1>6, <2>2, LikesCount, LikesAreFinite
    <2>4. QED
      BY <1>2, <1>4, <2>3
  <1>9. \A v \in Users \ {u} : v \in likes' <=> v \in likes
    BY <1>5
  <1>10. QED
    BY <1>1, <1>4, <1>5, <1>6, <1>7, <1>8, <1>9, CommitKeepsLInv

\* An unlike is committed: the row was there, and the count was seen above nought.
LEMMA CommitUnlikeKeepsLInv ==
  ASSUME LInv, NEW c \in Calls, CommitUnlike(c) PROVE LInv'
  <1> DEFINE u == call[c].user
             seen == call[c].seen
             n == [project EXCEPT !.like = IF seen.like > 0 THEN @ - 1 ELSE @]
             s == [seen EXCEPT !.like = AtLeast(@ - 1, 0)]
  <1>1. call[c].step = "unlikes" /\ u \in Users /\ seen \in Counters /\ project \in Counters
    BY DEF LInv, TypeOK, OneToggleEach, CommitUnlike, At, LikeSteps, Call
  <1>2. /\ n \in Counters /\ s \in Counters /\ project.like \in Int
        /\ seen.like > 0 => n.like = project.like - 1
    BY <1>1 DEF Counters, AtLeast
  <1>3. Count(c, n, QualityScore(s, seed.listing.rating))
    BY DEF CommitUnlike
  <1> HIDE DEF n, s
  <1>4. /\ project' = n /\ project' \in Counters /\ quality' \in Int /\ days' \in Ages
        /\ inStep' \in BOOLEAN /\ alone' \in SUBSET Calls
    BY <1>2, <1>3, CountType
  <1>5. /\ likes' = IF call[c].write THEN likes \ {u} ELSE likes
        /\ UNCHANGED <<seed, saves, isListed, made, raced, toldSaved>>
        /\ Become(c, Idle)
    BY DEF CommitUnlike, Tell
  <1>6. likes \in SUBSET Users /\ likes' \in SUBSET Users
    BY <1>1, <1>5 DEF LInv, TypeOK
  <1>7. unsure' \in SUBSET (Users \X Kind) /\ toldLiked' \in SUBSET Users
    BY <1>1 DEF CommitUnlike, Tell, LInv, TypeOK, KindOf, Kind
  <1>8. NoLikeRaced => project'.like - project.like = Cardinality(likes') - Cardinality(likes)
    <2>1. SUFFICES ASSUME NoLikeRaced
                   PROVE  project'.like - project.like = Cardinality(likes') - Cardinality(likes)
      OBVIOUS
    <2>2. call[c].write /\ u \in likes /\ seen.like > 0
      BY <1>1, <2>1 DEF LInv, ReadsStillHold
    <2>3. Cardinality(likes') = Cardinality(likes) - 1 /\ Cardinality(likes) \in Nat
      BY <1>1, <1>5, <1>6, <2>2, LikesCount, LikesAreFinite
    <2>4. QED
      BY <1>2, <1>4, <2>2, <2>3
  <1>9. \A v \in Users \ {u} : v \in likes' <=> v \in likes
    BY <1>5
  <1>10. QED
    BY <1>1, <1>4, <1>5, <1>6, <1>7, <1>8, <1>9, CommitKeepsLInv

\* A step that leaves the likes and their count alone, and starts no toggle of a
\* like: it moves one slot, or none.
LEMMA AsideKeepsLInv ==
  ASSUME LInv, TypeOK', UNCHANGED <<seed, likes, raced>>, project'.like = project.like,
         \A c \in Calls :
           \/ call'[c] = call[c]
           \/ /\ call'[c].step \notin LikeSteps
              /\ call'[c].step \in SaveSteps => call'[c].user \in Users
  PROVE  LInv'
  <1>1. OneToggleEach'
    BY DEF LInv, OneToggleEach
  <1>2. ReadsStillHold'
    BY DEF LInv, ReadsStillHold, NoLikeRaced, LikeSteps
  <1>3. LikesMatchRows'
    BY DEF LInv, LikesMatchRows
  <1>4. QED
    BY <1>1, <1>2, <1>3 DEF LInv

\* A call ends, or takes a step that is not one of toggleLike.
LEMMA MoveKeepsLInv ==
  ASSUME LInv, NEW c \in Calls, NEW r \in Call, Become(c, r),
         r.step \notin LikeSteps, r.step \in SaveSteps => r.user \in Users,
         UNCHANGED <<seed, likes, isListed, made, raced>>,
         saves' \in SUBSET Users, project' \in Counters, project'.like = project.like,
         quality' \in Int, days' \in Ages, inStep' \in BOOLEAN, alone' \in SUBSET Calls,
         unsure' \in SUBSET (Users \X Kind),
         toldLiked' \in SUBSET Users, toldSaved' \in SUBSET Users
  PROVE  LInv'
  <1>1. /\ call' \in [Calls -> Call]
        /\ call'[c] = r
        /\ \A other \in Calls \ {c} : call'[other] = call[other]
    BY SlotEffect DEF LInv, TypeOK
  <1>2. TypeOK'
    BY <1>1 DEF LInv, TypeOK
  <1>3. QED
    BY <1>1, <1>2, AsideKeepsLInv

\* Every step of the code keeps the invariant.
LEMMA NextKeepsLInv ==
  ASSUME LInv, [Next]_vars PROVE LInv'
  <1>1. TypeOK
    BY DEF LInv
  <1>2. Idle \in Call /\ Idle.step = "idle"
    BY DEF Idle, Slot, Call, Step, Unread, Counters
  <1>3. CASE UNCHANGED vars
    <2>1. TypeOK'
      BY <1>1, <1>3 DEF TypeOK, vars, rows, counted, history
    <2>2. QED
      BY <1>3, <2>1, AsideKeepsLInv DEF vars, rows, counted, history
  <1>4. CASE Archive
    <2>1. TypeOK'
      BY <1>1, <1>4 DEF TypeOK, Archive, rows, history, Ages
    <2>2. QED
      BY <1>4, <2>1, AsideKeepsLInv DEF Archive, rows, history
  <1>5. ASSUME NEW c \in Calls, NEW u \in Users, ToggleLike(c, u) \/ ToggleSave(c, u)
        PROVE  LInv'
    <2>1. "like?" \in Step /\ "save?" \in Step /\ "save?" \notin LikeSteps
      BY DEF Step, LikeSteps
    <2>2. QED
      BY <1>5, <2>1, BeginKeepsLInv DEF ToggleLike, ToggleSave
  <1>6. ASSUME NEW c \in Calls, GetBySlug(c) \/ TrackInquiry(c)
        PROVE  LInv'
    <2>1. /\ "view" \in Step /\ "view" \notin LikeSteps \cup SaveSteps
          /\ "inquire" \in Step /\ "inquire" \notin LikeSteps \cup SaveSteps
      BY DEF Step, LikeSteps, SaveSteps
    <2>2. QED
      BY <1>6, <2>1, BeginKeepsLInv DEF GetBySlug, TrackInquiry
  <1>7. ASSUME NEW c \in Calls, ReadLike(c) \/ InsertLike(c) \/ DeleteLike(c)
        PROVE  LInv'
    <2>1. call[c] \in Call /\ call \in [Calls -> Call]
      BY <1>1 DEF TypeOK
    <2>2. CASE ReadLike(c)
      <3> DEFINE r == [call[c] EXCEPT !.step = IF call[c].user \in likes THEN "unlike" ELSE "like"]
      <3>1. /\ r \in Call /\ Become(c, r) /\ r.user = call[c].user /\ r.seen = call[c].seen
            /\ r.step = IF r.user \in likes THEN "unlike" ELSE "like"
        BY <2>1, <2>2 DEF Call, Step, ReadLike, Move, Become
      <3> HIDE DEF r
      <3>2. call[c].step = "like?"
        BY <2>2 DEF ReadLike, At
      <3>3. NoLikeRaced /\ call[c].user \in likes => call[c].seen.like > 0
        BY <3>2 DEF LInv, ReadsStillHold
      <3>4. call[c].step \in LikeSteps /\ r.step \in LikeSteps /\ r.step # "like?"
        BY <3>1, <3>2 DEF LikeSteps
      <3>5. UNCHANGED <<seed, rows, counted, isListed, made, history, alone>>
        BY <2>2 DEF ReadLike
      <3>6. /\ r.step \in {"unlike", "unlikes"} => r.user \in likes
            /\ r.step \in {"like", "likes"} => r.user \notin likes
            /\ r.step \notin {"likes", "unlikes"}
        BY <3>1
      <3>7. QED
        BY <3>1, <3>3, <3>4, <3>5, <3>6, StepKeepsLInv
    <2>3. CASE InsertLike(c)
      <3> DEFINE r == [call[c] EXCEPT !.step = "likes", !.write = call[c].user \notin likes]
      <3>1. /\ r \in Call /\ Become(c, r) /\ r.user = call[c].user /\ r.seen = call[c].seen
            /\ r.step = "likes" /\ r.write = (r.user \notin likes)
        BY <2>1, <2>3 DEF Call, Step, InsertLike
      <3> HIDE DEF r
      <3>2. call[c].step = "like"
        BY <2>3 DEF InsertLike, At
      <3>3. NoLikeRaced => call[c].user \notin likes
        BY <3>2 DEF LInv, ReadsStillHold
      <3>4. call[c].step \in LikeSteps /\ r.step \in LikeSteps
        BY <3>1, <3>2 DEF LikeSteps
      <3>5. UNCHANGED <<seed, rows, counted, isListed, made, history, alone>>
        BY <2>3 DEF InsertLike
      <3>6. QED
        BY <3>1, <3>3, <3>4, <3>5, StepKeepsLInv
    <2>4. CASE DeleteLike(c)
      <3> DEFINE w == call[c].user \in likes
                 r == [call[c] EXCEPT !.step = "unlikes", !.write = w]
      <3>0. Become(c, r) /\ w \in BOOLEAN
        BY <2>4 DEF DeleteLike
      <3>7. w = (call[c].user \in likes)
        OBVIOUS
      <3> HIDE DEF w
      <3>1. /\ r \in Call /\ Become(c, r) /\ r.user = call[c].user /\ r.seen = call[c].seen
            /\ r.step = "unlikes" /\ r.write = w
        BY <2>1, <3>0 DEF Call, Step
      <3> HIDE DEF r
      <3>2. call[c].step = "unlike"
        BY <2>4 DEF DeleteLike, At
      <3>3. NoLikeRaced => call[c].user \in likes /\ call[c].seen.like > 0
        BY <3>2 DEF LInv, ReadsStillHold
      <3>4. call[c].step \in LikeSteps /\ r.step \in LikeSteps
        BY <3>1, <3>2 DEF LikeSteps
      <3>5. UNCHANGED <<seed, rows, counted, isListed, made, history, alone>>
        BY <2>4 DEF DeleteLike
      <3>6. QED
        BY <3>1, <3>3, <3>4, <3>5, <3>7, StepKeepsLInv
    <2>5. QED
      BY <1>7, <2>2, <2>3, <2>4
  <1>8. ASSUME NEW c \in Calls, CommitLike(c) \/ CommitUnlike(c)
        PROVE  LInv'
    BY <1>8, CommitLikeKeepsLInv, CommitUnlikeKeepsLInv
  <1>9. ASSUME NEW c \in Calls, ReadSave(c) PROVE LInv'
    <2> DEFINE r == [call[c] EXCEPT !.step = IF call[c].user \in saves THEN "unsave" ELSE "save"]
    <2>1. call[c] \in Call /\ call[c].step = "save?" /\ call[c].user \in Users
      BY <1>9 DEF LInv, TypeOK, OneToggleEach, ReadSave, At, SaveSteps
    <2>2. /\ r \in Call /\ Become(c, r) /\ r.user \in Users
          /\ r.step \notin LikeSteps
      BY <1>1, <1>9, <2>1 DEF TypeOK, Call, Step, ReadSave, Move, Become, LikeSteps
    <2> HIDE DEF r
    <2>3. QED
      BY <1>1, <1>9, <2>2, MoveKeepsLInv DEF TypeOK, ReadSave, rows, counted, history
  <1>10. ASSUME NEW c \in Calls, CreateSave(c) \/ DeleteSave(c) PROVE LInv'
    <2>1. call[c].user \in Users
      BY <1>10 DEF LInv, OneToggleEach, CreateSave, DeleteSave, At, SaveSteps
    <2>2. Become(c, Idle) /\ saves' \in SUBSET Users
      BY <1>1, <1>10, <2>1 DEF TypeOK, CreateSave, DeleteSave
    <2>3. /\ unsure' \in SUBSET (Users \X Kind)
          /\ toldLiked' \in SUBSET Users /\ toldSaved' \in SUBSET Users
      BY <1>1, <1>10, <2>1 DEF TypeOK, CreateSave, DeleteSave, Tell, KindOf, Kind
    <2>4. UNCHANGED <<seed, likes, isListed, made, raced, project, quality, days, inStep, alone>>
      BY <1>10 DEF CreateSave, DeleteSave, counted
    <2>5. "idle" \notin LikeSteps \cup SaveSteps
      BY DEF LikeSteps, SaveSteps
    <2>6. QED
      BY <1>1, <1>2, <2>2, <2>3, <2>4, <2>5, MoveKeepsLInv DEF TypeOK
  <1>11. ASSUME NEW c \in Calls, CountView(c) \/ CountInquiry(c) PROVE LInv'
    <2> DEFINE seen == call[c].seen
    <2>1. seen \in Counters /\ project \in Counters
      BY <1>1 DEF TypeOK, Call
    <2>2. \E n \in Counters, s \in Counters :
             n.like = project.like /\ Count(c, n, QualityScore(s, seed.listing.rating))
      <3>1. /\ [project EXCEPT !.view = @ + 1] \in Counters
            /\ [project EXCEPT !.view = @ + 1].like = project.like
            /\ [seen EXCEPT !.view = @ + 1] \in Counters
            /\ [project EXCEPT !.inquiry = @ + 1] \in Counters
            /\ [project EXCEPT !.inquiry = @ + 1].like = project.like
            /\ [seen EXCEPT !.inquiry = @ + 1] \in Counters
        BY <2>1 DEF Counters
      <3>2. QED
        BY <1>11, <3>1 DEF CountView, CountInquiry
    <2>3. /\ project' \in Counters /\ project'.like = project.like
          /\ quality' \in Int /\ days' \in Ages
          /\ inStep' \in BOOLEAN /\ alone' \in SUBSET Calls
      BY <2>2, CountType
    <2>4. /\ UNCHANGED <<seed, likes, saves, isListed, made, raced, unsure, toldLiked, toldSaved>>
          /\ Become(c, Idle)
      BY <1>11 DEF CountView, CountInquiry, rows, history
    <2>5. "idle" \notin LikeSteps \cup SaveSteps
      BY DEF LikeSteps, SaveSteps
    <2>6. QED
      BY <1>1, <1>2, <2>3, <2>4, <2>5, MoveKeepsLInv DEF TypeOK
  <1>12. ASSUME NEW c \in Calls, Fail(c) PROVE LInv'
    <2>1. call[c].user \in Users \cup {Nobody}
      BY <1>1 DEF TypeOK, Call
    <2>2. unsure' \in SUBSET (Users \X Kind) /\ Become(c, Idle)
      BY <1>1, <1>12, <2>1 DEF TypeOK, Fail, KindOf, Kind
    <2>3. UNCHANGED <<seed, rows, counted, isListed, made, raced, toldLiked, toldSaved, alone>>
      BY <1>12 DEF Fail
    <2>4. "idle" \notin LikeSteps \cup SaveSteps
      BY DEF LikeSteps, SaveSteps
    <2>5. QED
      BY <1>1, <1>2, <2>2, <2>3, <2>4, MoveKeepsLInv DEF TypeOK, rows, counted
  <1>13. QED
    BY <1>3, <1>4, <1>5, <1>6, <1>7, <1>8, <1>9, <1>10, <1>11, <1>12 DEF Next

\* The invariant holds throughout.
THEOREM LInvHolds ==
  Spec => []LInv
  <1>1. Init => LInv
    BY InitEstablishesLInv
  <1>2. LInv /\ [Next]_vars => LInv'
    BY NextKeepsLInv
  <1>3. QED
    BY <1>1, <1>2, PTL DEF Spec

\* The rows, the counters and the calls keep their types, for all users and calls.
THEOREM TypesHold ==
  Spec => []TypeOK
  <1>1. LInv => TypeOK
    BY DEF LInv
  <1>2. QED
    BY <1>1, LInvHolds, PTL

\* toggleLike keeps likeCount equal to the number of like rows for any number of
\* users, as long as none of them has two toggles in flight.
THEOREM LikeCountIsTheLikes ==
  Spec => []LikesMatchRows
  <1>1. LInv => LikesMatchRows
    BY DEF LInv
  <1>2. QED
    BY <1>1, LInvHolds, PTL

-----------------------------------------------------------------------------
(* What users are told, and what is scored *)

\* In the beginning nothing has been told but what there is, and the score is of
\* the counters.
LEMMA InitEstablishesEInv ==
  ASSUME Init PROVE EInv
  <1>1. LInv
    BY InitEstablishesLInv
  <1>2. \A c \in Calls : call[c].step = "idle"
    BY DEF Init, Idle, Slot
  <1>3. OwnReadsHold /\ AloneHasSeenAll
    BY <1>2 DEF Init, OwnReadsHold, AloneHasSeenAll
  <1>4. ToldIsTrue /\ ScoreFollowsCounters
    BY DEF Init, ToldIsTrue, ScoreFollowsCounters
  <1>5. QED
    BY <1>1, <1>3, <1>4 DEF EInv

\* A call that begins has seen the counters, and knows nothing of any row yet.
LEMMA BeginKeepsEInv ==
  ASSUME EInv, LInv', NEW c \in Calls, NEW step \in {"like?", "save?", "view", "inquire"},
         NEW u \in Users \cup {Nobody}, Begin(c, step, u)
  PROVE  EInv'
  <1> DEFINE r == Slot(step, u, project, FALSE)
  <1>1. /\ r.step = step /\ r.user = u /\ r.seen = project
        /\ r \in Call
    BY DEF EInv, LInv, TypeOK, Slot, Call, Step
  <1>2. Become(c, r)
    BY DEF Begin
  <1> HIDE DEF r
  <1>3. /\ call' \in [Calls -> Call]
        /\ call'[c] = r
        /\ \A other \in Calls \ {c} : call'[other] = call[other]
    BY <1>1, <1>2, SlotEffect DEF EInv, LInv, TypeOK
  <1>4. /\ UNCHANGED <<seed, likes, saves, project, quality, inStep, unsure, toldLiked, toldSaved>>
        /\ raced \subseteq raced'
        /\ alone' = alone \cup {c}
    BY DEF Begin, rows, counted
  <1>5. OwnReadsHold'
    BY <1>1, <1>3, <1>4 DEF EInv, OwnReadsHold
  <1>6. ToldIsTrue'
    BY <1>4 DEF EInv, ToldIsTrue
  <1>7. AloneHasSeenAll'
    <2>1. alone \in SUBSET Calls
      BY DEF EInv, LInv, TypeOK
    <2>2. QED
      BY <1>1, <1>3, <1>4, <2>1 DEF EInv, AloneHasSeenAll, At
  <1>8. ScoreFollowsCounters'
    BY <1>4 DEF EInv, ScoreFollowsCounters
  <1>9. QED
    BY <1>5, <1>6, <1>7, <1>8 DEF EInv

\* A toggle reads or writes its row, uncommitted: nobody else can tell.
LEMMA StepKeepsEInv ==
  ASSUME EInv, LInv', NEW c \in Calls, NEW r \in Call, Become(c, r),
         ~At(c, "idle"), r.user = call[c].user, r.seen = call[c].seen,
         <<r.user, "like">> \notin raced =>
           /\ r.step \in {"unlike", "unlikes"} => r.user \in likes
           /\ r.step \in {"like", "likes"} => r.user \notin likes
           /\ r.step \in {"likes", "unlikes"} => r.write,
         UNCHANGED <<seed, rows, counted, isListed, made, history, alone>>
  PROVE  EInv'
  <1>1. /\ call' \in [Calls -> Call]
        /\ call'[c] = r
        /\ \A other \in Calls \ {c} : call'[other] = call[other]
    BY SlotEffect DEF EInv, LInv, TypeOK
  <1>2. /\ UNCHANGED <<seed, likes, saves, project, quality, inStep, unsure, toldLiked, toldSaved>>
        /\ UNCHANGED <<raced, alone>> /\ alone \in SUBSET Calls
    BY DEF rows, counted, history, EInv, LInv, TypeOK
  <1>3. OwnReadsHold'
    BY <1>1, <1>2 DEF EInv, OwnReadsHold
  <1>4. ToldIsTrue' /\ ScoreFollowsCounters'
    BY <1>2 DEF EInv, ToldIsTrue, ScoreFollowsCounters
  <1>5. AloneHasSeenAll'
    BY <1>1, <1>2 DEF EInv, AloneHasSeenAll, At
  <1>6. QED
    BY <1>3, <1>4, <1>5 DEF EInv

\* What each step of a toggle finds out about its row.
LEMMA TogglesKeepEInv ==
  ASSUME EInv, LInv', NEW c \in Calls,
         ReadLike(c) \/ InsertLike(c) \/ DeleteLike(c) \/ ReadSave(c)
  PROVE  EInv'
  <1> DEFINE u == call[c].user
             present == u \in likes
  <1>1. call[c] \in Call /\ call \in [Calls -> Call]
    BY DEF EInv, LInv, TypeOK
  <1>2. CASE ReadLike(c) \/ ReadSave(c)
    <2> DEFINE to == IF ReadLike(c) THEN (IF present THEN "unlike" ELSE "like")
                                    ELSE (IF u \in saves THEN "unsave" ELSE "save")
               r == [call[c] EXCEPT !.step = to]
    <2>1. Become(c, r) /\ ~At(c, "idle")
      BY <1>2 DEF ReadLike, ReadSave, Move, Become, At
    <2>2. UNCHANGED <<seed, rows, counted, isListed, made, history, alone>>
      BY <1>2 DEF ReadLike, ReadSave
    <2>3. /\ to \in Step /\ to \notin {"likes", "unlikes"}
          /\ to = "unlike" => u \in likes
          /\ to = "like" => u \notin likes
      BY DEF Step
    <2> HIDE DEF to
    <2>4. r \in Call /\ r.user = u /\ r.seen = call[c].seen /\ r.step = to
      BY <1>1, <2>3 DEF Call
    <2> HIDE DEF r
    <2>5. QED
      BY <2>1, <2>2, <2>3, <2>4, StepKeepsEInv
  <1>3. ASSUME NEW to \in {"likes", "unlikes"}, NEW w \in BOOLEAN,
               Become(c, [call[c] EXCEPT !.step = to, !.write = w]), ~At(c, "idle"),
               <<u, "like">> \notin raced => w /\ (to = "unlikes" <=> u \in likes),
               UNCHANGED <<seed, rows, counted, isListed, made, history, alone>>
        PROVE  EInv'
    <2> DEFINE r == [call[c] EXCEPT !.step = to, !.write = w]
    <2>1. r \in Call /\ r.user = u /\ r.seen = call[c].seen /\ r.step = to /\ r.write = w
      BY <1>1, <1>3 DEF Call, Step
    <2>2. Become(c, r)
      BY <1>3
    <2> HIDE DEF r
    <2>3. QED
      BY <1>3, <2>1, <2>2, StepKeepsEInv
  <1>4. CASE InsertLike(c)
    <2> DEFINE w == u \notin likes
    <2>1. <<u, "like">> \notin raced => u \notin likes
      BY <1>4 DEF EInv, OwnReadsHold, InsertLike, At
    <2>2. Become(c, [call[c] EXCEPT !.step = "likes", !.write = w]) /\ ~At(c, "idle")
      BY <1>4 DEF InsertLike, At
    <2>3. UNCHANGED <<seed, rows, counted, isListed, made, history, alone>>
      BY <1>4 DEF InsertLike
    <2>4. w \in BOOLEAN /\ (<<u, "like">> \notin raced => w)
      BY <2>1
    <2> HIDE DEF w
    <2>5. QED
      BY <1>3, <2>1, <2>2, <2>3, <2>4
  <1>5. CASE DeleteLike(c)
    <2> DEFINE w == u \in likes
    <2>1. <<u, "like">> \notin raced => u \in likes
      BY <1>5 DEF EInv, OwnReadsHold, DeleteLike, At
    <2>2. Become(c, [call[c] EXCEPT !.step = "unlikes", !.write = w]) /\ ~At(c, "idle")
      BY <1>5 DEF DeleteLike, At
    <2>3. UNCHANGED <<seed, rows, counted, isListed, made, history, alone>>
      BY <1>5 DEF DeleteLike
    <2>4. w \in BOOLEAN /\ (<<u, "like">> \notin raced => w)
      BY <2>1
    <2> HIDE DEF w
    <2>5. QED
      BY <1>3, <2>1, <2>2, <2>3, <2>4
  <1>6. QED
    BY <1>2, <1>4, <1>5

\* A call ends.  Left to show: what it leaves of its user's rows is what it tells,
\* if anything, and what it counts is what it scores, if it was alone.
LEMMA EndKeepsEInv ==
  ASSUME EInv, LInv', NEW c \in Calls, Become(c, Idle), UNCHANGED <<seed, raced>>,
         unsure \subseteq unsure',
         \A v \in Users \ {call[c].user} :
           /\ v \in likes' <=> v \in likes
           /\ v \in saves' <=> v \in saves
           /\ v \in toldLiked' <=> v \in toldLiked
           /\ v \in toldSaved' <=> v \in toldSaved,
         UNCHANGED likes \/ call[c].step \in {"likes", "unlikes"},
         LET u == call[c].user IN
         u \in Users =>
           /\ <<u, "like">> \notin raced \cup unsure' => (u \in toldLiked' <=> u \in likes')
           /\ <<u, "save">> \notin unsure' => (u \in toldSaved' <=> u \in saves'),
         alone' = {} \/ (UNCHANGED alone /\ UNCHANGED project),
         ScoreFollowsCounters'
  PROVE  EInv'
  <1>1. Idle \in Call /\ Idle.step = "idle"
    BY DEF Idle, Slot, Call, Step, Unread, Counters
  <1>2. /\ call' \in [Calls -> Call]
        /\ call'[c] = Idle
        /\ \A other \in Calls \ {c} : call'[other] = call[other]
    BY <1>1, SlotEffect DEF EInv, LInv, TypeOK
  <1>3. OwnReadsHold'
    <2>1. SUFFICES ASSUME NEW d \in Calls \ {c}, <<call[d].user, "like">> \notin raced,
                          call[d].step \in {"like", "likes", "unlike", "unlikes"}
                   PROVE  call[d].user \in likes' <=> call[d].user \in likes
      BY <1>1, <1>2 DEF EInv, OwnReadsHold
    <2>2. call[d].step \in LikeSteps
      BY <2>1 DEF LikeSteps
    <2>3. call[d].user \in Users
      BY <2>1, <2>2 DEF EInv, LInv, OneToggleEach
    <2>4. CASE call[c].step \in {"likes", "unlikes"}
      <3>1. call[c].step \in LikeSteps
        BY <2>4 DEF LikeSteps
      <3>2. call[c].user # call[d].user
        BY <2>1, <2>2, <3>1 DEF EInv, LInv, OneToggleEach
      <3>3. QED
        BY <2>3, <3>2
    <2>5. QED
      BY <2>4
  <1>4. ToldIsTrue'
    BY DEF EInv, ToldIsTrue
  <1>5. AloneHasSeenAll'
    <2>1. alone \in SUBSET Calls
      BY DEF EInv, LInv, TypeOK
    <2>2. QED
      BY <1>1, <1>2, <2>1 DEF EInv, AloneHasSeenAll, At
  <1>6. QED
    BY <1>3, <1>4, <1>5 DEF EInv

\* Whoever counts alone has seen what it adds to, and scores what it writes.
LEMMA AloneScoresTheCounters ==
  ASSUME EInv, NEW c \in Calls, ~At(c, "idle"), NEW n, NEW s, UNCHANGED seed,
         Count(c, n, QualityScore(s, seed.listing.rating)),
         call[c].seen = project /\ n.like >= 0 => n = s
  PROVE  ScoreFollowsCounters' /\ alone' = {}
  BY DEF EInv, AloneHasSeenAll, ScoreFollowsCounters, Count

\* A like is committed.
LEMMA CommitLikeKeepsEInv ==
  ASSUME EInv, LInv', NEW c \in Calls, CommitLike(c) PROVE EInv'
  <1> DEFINE u == call[c].user
             seen == call[c].seen
             n == [project EXCEPT !.like = @ + 1]
             s == [seen EXCEPT !.like = @ + 1]
  <1>1. call[c].step = "likes" /\ u \in Users
    BY DEF EInv, LInv, OneToggleEach, CommitLike, At, LikeSteps
  <1>2. Count(c, n, QualityScore(s, seed.listing.rating)) /\ (seen = project => n = s)
    BY DEF CommitLike
  <1> HIDE DEF n, s
  <1>3. ScoreFollowsCounters' /\ alone' = {}
    BY <1>1, <1>2, AloneScoresTheCounters DEF CommitLike, At
  <1>4. /\ likes' = IF call[c].write THEN likes \cup {u} ELSE likes
        /\ UNCHANGED <<seed, saves, raced, toldSaved>>
        /\ Become(c, Idle)
        /\ \/ toldLiked' = toldLiked \cup {u} /\ unsure' = unsure
           \/ toldLiked' = toldLiked /\ unsure' = unsure \cup {<<u, "like">>}
    BY <1>1 DEF CommitLike, Tell, KindOf, LikeSteps
  <1>5. <<u, "like">> \notin raced \cup unsure' => (u \in toldLiked' <=> u \in likes')
    BY <1>1, <1>4 DEF EInv, OwnReadsHold
  <1>6. <<u, "save">> \notin unsure' => (u \in toldSaved' <=> u \in saves')
    BY <1>1, <1>4 DEF EInv, ToldIsTrue
  <1>7. QED
    BY <1>1, <1>3, <1>4, <1>5, <1>6, EndKeepsEInv

\* An unlike is committed; from nought, what was scored is what stays counted.
LEMMA CommitUnlikeKeepsEInv ==
  ASSUME EInv, LInv', NEW c \in Calls, CommitUnlike(c) PROVE EInv'
  <1> DEFINE u == call[c].user
             seen == call[c].seen
             n == [project EXCEPT !.like = IF seen.like > 0 THEN @ - 1 ELSE @]
             s == [seen EXCEPT !.like = AtLeast(@ - 1, 0)]
  <1>1. call[c].step = "unlikes" /\ u \in Users /\ project \in Counters
    BY DEF EInv, LInv, TypeOK, OneToggleEach, CommitUnlike, At, LikeSteps
  <1>2. seen = project /\ n.like >= 0 => n = s
    <2>1. ASSUME seen = project, n.like >= 0 PROVE n = s
      <3>1. project.like \in Int /\ n.like = IF project.like > 0 THEN project.like - 1 ELSE project.like
        BY <1>1, <2>1 DEF Counters
      <3>2. n.like = AtLeast(project.like - 1, 0)
        BY <2>1, <3>1 DEF AtLeast
      <3>3. n = [project EXCEPT !.like = n.like]
        BY <1>1 DEF Counters
      <3>4. QED
        BY <2>1, <3>2, <3>3
    <2>2. QED
      BY <2>1
  <1>3. Count(c, n, QualityScore(s, seed.listing.rating))
    BY DEF CommitUnlike
  <1> HIDE DEF n, s
  <1>4. ScoreFollowsCounters' /\ alone' = {}
    BY <1>1, <1>2, <1>3, AloneScoresTheCounters DEF CommitUnlike, At
  <1>5. /\ likes' = IF call[c].write THEN likes \ {u} ELSE likes
        /\ UNCHANGED <<seed, saves, raced, toldSaved>>
        /\ Become(c, Idle)
        /\ \/ toldLiked' = toldLiked \ {u} /\ unsure' = unsure
           \/ toldLiked' = toldLiked /\ unsure' = unsure \cup {<<u, "like">>}
    BY <1>1 DEF CommitUnlike, Tell, KindOf, LikeSteps
  <1>6. <<u, "like">> \notin raced \cup unsure' => (u \in toldLiked' <=> u \in likes')
    BY <1>1, <1>5 DEF EInv, OwnReadsHold
  <1>7. <<u, "save">> \notin unsure' => (u \in toldSaved' <=> u \in saves')
    BY <1>1, <1>5 DEF EInv, ToldIsTrue
  <1>8. QED
    BY <1>1, <1>4, <1>5, <1>6, <1>7, EndKeepsEInv

\* A save is created or deleted.
LEMMA SavesKeepEInv ==
  ASSUME EInv, LInv', NEW c \in Calls, CreateSave(c) \/ DeleteSave(c) PROVE EInv'
  <1> DEFINE u == call[c].user
  <1>1. u \in Users /\ call[c].step \notin LikeSteps
    BY DEF EInv, LInv, OneToggleEach, CreateSave, DeleteSave, At, LikeSteps, SaveSteps
  <1>2. /\ UNCHANGED <<seed, likes, raced, toldLiked, project, quality, inStep, alone>>
        /\ Become(c, Idle)
        /\ saves' = saves \cup {u} \/ saves' = saves \ {u}
        /\ \/ /\ unsure' = unsure
              /\ \/ toldSaved' = toldSaved \cup {u} /\ saves' = saves \cup {u}
                 \/ toldSaved' = toldSaved \ {u} /\ saves' = saves \ {u}
           \/ toldSaved' = toldSaved /\ unsure' = unsure \cup {<<u, "save">>}
    BY <1>1 DEF CreateSave, DeleteSave, Tell, KindOf, counted
  <1>3. ScoreFollowsCounters'
    BY <1>2 DEF EInv, ScoreFollowsCounters
  <1>4. <<u, "like">> \notin raced \cup unsure' => (u \in toldLiked' <=> u \in likes')
    BY <1>1, <1>2 DEF EInv, ToldIsTrue
  <1>5. QED
    BY <1>1, <1>2, <1>3, <1>4, EndKeepsEInv

\* A view or an inquiry is counted.
LEMMA CountsKeepEInv ==
  ASSUME EInv, LInv', NEW c \in Calls, CountView(c) \/ CountInquiry(c) PROVE EInv'
  <1>1. \E n, s : /\ Count(c, n, QualityScore(s, seed.listing.rating))
                  /\ call[c].seen = project => n = s
    BY DEF CountView, CountInquiry
  <1>2. ~At(c, "idle") /\ UNCHANGED <<seed, likes, saves, raced, unsure, toldLiked, toldSaved>>
        /\ Become(c, Idle)
    BY DEF CountView, CountInquiry, At, rows, history
  <1>3. ScoreFollowsCounters' /\ alone' = {}
    BY <1>1, <1>2, AloneScoresTheCounters
  <1>4. QED
    BY <1>2, <1>3, EndKeepsEInv DEF EInv, ToldIsTrue

\* A call that throws leaves its user unsure, if it is a toggle.
LEMMA FailKeepsEInv ==
  ASSUME EInv, LInv', NEW c \in Calls, Fail(c) PROVE EInv'
  <1>1. /\ UNCHANGED <<seed, likes, saves, raced, toldLiked, toldSaved, project, quality, inStep, alone>>
        /\ Become(c, Idle) /\ unsure \subseteq unsure'
    BY DEF Fail, rows, counted
  <1>2. ScoreFollowsCounters'
    BY <1>1 DEF EInv, ScoreFollowsCounters
  <1>3. QED
    BY <1>1, <1>2, EndKeepsEInv DEF EInv, ToldIsTrue

\* Every step keeps what is told true, and the score that of the counters.
LEMMA NextKeepsEInv ==
  ASSUME EInv, [Next]_vars PROVE EInv'
  <1>1. LInv'
    BY NextKeepsLInv DEF EInv
  <1>2. CASE Archive \/ UNCHANGED vars
    BY <1>1, <1>2 DEF EInv, OwnReadsHold, ToldIsTrue, AloneHasSeenAll, At, ScoreFollowsCounters,
                      Archive, vars, rows, counted, history
  <1>3. ASSUME NEW c \in Calls, NEW u \in Users, ToggleLike(c, u) \/ ToggleSave(c, u)
        PROVE  EInv'
    BY <1>1, <1>3, BeginKeepsEInv DEF ToggleLike, ToggleSave
  <1>4. ASSUME NEW c \in Calls, GetBySlug(c) \/ TrackInquiry(c)
        PROVE  EInv'
    BY <1>1, <1>4, BeginKeepsEInv DEF GetBySlug, TrackInquiry
  <1>5. QED
    BY <1>1, <1>2, <1>3, <1>4, TogglesKeepEInv, CommitLikeKeepsEInv, CommitUnlikeKeepsEInv, SavesKeepEInv,
       CountsKeepEInv, FailKeepsEInv DEF Next

\* EInv is an invariant of the engagement.
THEOREM EInvHolds ==
  Spec => []EInv
  <1>1. Init => EInv
    BY InitEstablishesEInv
  <1>2. EInv /\ [Next]_vars => EInv'
    BY NextKeepsEInv
  <1>3. QED
    BY <1>1, <1>2, PTL DEF Spec

\* Whoever toggles one at a time is told what the rows hold, and the score of the
\* last call that nobody overtook is that of the counters, for any users and calls.
THEOREM ToldAndScoredTruly ==
  Spec => []EngagementInv
  <1>1. EInv => EngagementInv
    BY DEF EInv, LInv, EngagementInv, ToldIsTrue, AnswersAreTrue
  <1>2. QED
    BY <1>1, EInvHolds, PTL

-----------------------------------------------------------------------------
(* The ranks *)

\* A sum that grows never rounds to less, over each unit the scores use.
LEMMA RoundedGrows ==
  ASSUME NEW a \in Int, NEW b \in Int, a <= b
  PROVE  /\ Rounded(a, 50) <= Rounded(b, 50) /\ Rounded(a, 50) \in Int /\ Rounded(b, 50) \in Int
         /\ Rounded(a, 60) <= Rounded(b, 60) /\ Rounded(a, 60) \in Int /\ Rounded(b, 60) \in Int
         /\ Rounded(a, 100) <= Rounded(b, 100) /\ Rounded(a, 100) \in Int /\ Rounded(b, 100) \in Int
         /\ Rounded(a, 1000) <= Rounded(b, 1000) /\ Rounded(a, 1000) \in Int /\ Rounded(b, 1000) \in Int
         /\ Rounded(a, 10000) <= Rounded(b, 10000) /\ Rounded(a, 10000) \in Int /\ Rounded(b, 10000) \in Int
  BY DEF Rounded

\* Nor does it clamp to less.
LEMMA ClampGrows ==
  ASSUME NEW a \in Int, NEW b \in Int, a <= b
  PROVE  Clamp(a) <= Clamp(b) /\ Clamp(a) \in 0 .. 100 /\ Clamp(b) \in 0 .. 100
  BY DEF Clamp, AtMost, AtLeast

\* More of everything is no less of a score, and scores are not negative.
LEMMA QualityGrows ==
  ASSUME NEW n \in Counters, NEW m \in Counters, NEW rating \in 0 .. 50,
         n.like >= 0, n.like <= m.like, n.view <= m.view, n.inquiry <= m.inquiry
  PROVE  /\ QualityScore(n, rating) \in Nat /\ QualityScore(m, rating) \in Nat
         /\ QualityScore(n, rating) <= QualityScore(m, rating)
  <1>1. Clamp(2 * rating) \in 0 .. 100
    BY ClampGrows
  <1>2. /\ n.view \in Nat /\ m.view \in Nat /\ n.inquiry \in Nat /\ m.inquiry \in Nat
        /\ n.like \in Int /\ m.like \in Int
    BY DEF Counters
  <1>3. n.view \div 25 <= m.view \div 25 /\ n.view \div 25 \in Nat /\ m.view \div 25 \in Nat
    BY <1>2
  <1>4. QED
    BY <1>1, <1>2, <1>3 DEF QualityScore, AtMost

\* Freshly touched is as fresh as there is.
LEMMA FreshIsBest ==
  ASSUME NEW d \in Ages
  PROVE  /\ Decayed16(d) \in 0 .. 100 /\ Decayed16(0) = 100
         /\ Decayed24(d) \in 0 .. 100 /\ Decayed24(0) = 100
  <1>1. d = 0 \/ d = 16 \/ d = 48
    BY DEF Ages
  <1>2. QED
    BY <1>1 DEF Decayed16, Decayed24

\* A score above the first tenths is taken as it is, and none below is left.
LEMMA ModelGrows ==
  ASSUME NEW q \in Nat, NEW r \in Nat, q <= r, ~ReadAsFraction(q)
  PROVE  QualityModel(q) \in Nat /\ QualityModel(r) \in Nat /\ QualityModel(q) <= QualityModel(r)
  BY DEF QualityModel, ReadAsFraction

\* What the scores share out is a number, whatever of it is there.
LEMMA SharesAreNumbers ==
  ASSUME NEW p \in Listing
  PROVE  /\ Share(p.filled, 7) \in Int /\ Share(p.filled + 1, 8) \in Int
         /\ Share(p.profile + 1, 11) \in Int
         /\ Rounded(100 * (p.answered + 3), p.received + 5) \in Int
         /\ Featured(p) \in Int /\ p.rating \in Int /\ p.recency \in Int
  <1>1. /\ p.filled \in Int /\ p.profile \in Int /\ p.rating \in Int /\ p.recency \in Int
        /\ p.answered \in Nat /\ p.received \in Nat
    BY DEF Listing
  <1>2. /\ Share(p.filled, 7) \in Int /\ Share(p.filled + 1, 8) \in Int
        /\ Share(p.profile + 1, 11) \in Int /\ Featured(p) \in Int
    BY <1>1 DEF Share, Rounded, Featured
  <1>3. ASSUME NEW a \in Nat, NEW b \in Nat, b > 0 PROVE Rounded(a, b) \in Int
    <2>1. 2 * a + b \in Nat /\ 2 * b \in Nat /\ 2 * b > 0
      BY <1>3
    <2>2. QED
      BY <2>1 DEF Rounded
  <1>4. 100 * (p.answered + 3) \in Nat /\ p.received + 5 \in Nat /\ p.received + 5 > 0
    BY <1>1
  <1>5. QED
    BY <1>1, <1>2, <1>3, <1>4

\* A larger sum is worth no fewer points out of 100, over each unit.
LEMMA PointsGrow ==
  ASSUME NEW a \in Int, NEW b \in Int, a <= b, NEW unit \in {50, 60, 100, 1000}
  PROVE  /\ Clamp(Rounded(a, unit)) \in Int /\ Clamp(Rounded(b, unit)) \in Int
         /\ Clamp(Rounded(a, unit)) <= Clamp(Rounded(b, unit))
  <1>1. Rounded(a, unit) \in Int /\ Rounded(b, unit) \in Int /\ Rounded(a, unit) <= Rounded(b, unit)
    <2>1. CASE unit = 50
      BY <2>1, RoundedGrows
    <2>2. CASE unit = 60
      BY <2>2, RoundedGrows
    <2>3. CASE unit = 100
      BY <2>3, RoundedGrows
    <2>4. CASE unit = 1000
      BY <2>4, RoundedGrows
    <2>5. QED
      BY <2>1, <2>2, <2>3, <2>4
  <1> DEFINE x == Rounded(a, unit)
             y == Rounded(b, unit)
  <1>2. x \in Int /\ y \in Int /\ x <= y
    BY <1>1
  <1> HIDE DEF x, y
  <1>3. Clamp(x) \in Int /\ Clamp(y) \in Int /\ Clamp(x) <= Clamp(y)
    BY <1>2, ClampGrows
  <1>4. QED
    BY <1>3 DEF x, y

\* What is compared: counters that have grown, a score that has, and a project
\* just touched.
Grown(n, q, m, r) ==
  /\ n \in Counters /\ m \in Counters /\ q \in Nat /\ r \in Nat
  /\ n.like <= m.like /\ n.view <= m.view /\ n.inquiry <= m.inquiry
  /\ QualityModel(q) \in Nat /\ QualityModel(r) \in Nat /\ QualityModel(q) <= QualityModel(r)

\* The project list.
LEMMA ProjectScoreGrows ==
  ASSUME NEW n, NEW m, NEW q, NEW r, Grown(n, q, m, r), NEW d \in Ages, NEW p \in Listing
  PROVE  ProjectScore(n, q, d, p) <= ProjectScore(m, r, 0, p)
  <1> DEFINE rated(x) == 700 * p.rating + 65 * QualityModel(x)
             quality100(x) == Clamp(Rounded(rated(x), 1000))
             counted100(x) == 600 * x.inquiry + 210 * x.like + 2 * x.view
             activity(x) == Clamp(Rounded(counted100(x), 60))
             fixed == 20 * Share(p.filled, 7)
             signals(x, y, z) == 25 * Decayed16(z) + 30 * quality100(y) + fixed + 25 * activity(x)
  <1>1. /\ n.view \in Int /\ m.view \in Int /\ n.inquiry \in Int /\ m.inquiry \in Int
        /\ n.like \in Int /\ m.like \in Int /\ n.like <= m.like /\ n.view <= m.view /\ n.inquiry <= m.inquiry
        /\ QualityModel(q) \in Int /\ QualityModel(r) \in Int /\ QualityModel(q) <= QualityModel(r)
    BY DEF Grown, Counters
  <1>2. fixed \in Int /\ Featured(p) \in Int /\ p.rating \in Int
    BY SharesAreNumbers
  <1>3. quality100(q) \in Int /\ quality100(r) \in Int /\ quality100(q) <= quality100(r)
    <2>1. rated(q) \in Int /\ rated(r) \in Int /\ rated(q) <= rated(r)
      BY <1>1, <1>2
    <2> HIDE DEF rated
    <2>2. QED
      BY <2>1, PointsGrow
  <1>4. activity(n) \in Int /\ activity(m) \in Int /\ activity(n) <= activity(m)
    <2>1. counted100(n) \in Int /\ counted100(m) \in Int /\ counted100(n) <= counted100(m)
      BY <1>1
    <2> HIDE DEF counted100
    <2>2. QED
      BY <2>1, PointsGrow
  <1>5. /\ ProjectScore(n, q, d, p) = Rounded(AtMost(signals(n, q, d) + Featured(p), 10000), 100)
        /\ ProjectScore(m, r, 0, p) = Rounded(AtMost(signals(m, r, 0) + Featured(p), 10000), 100)
    BY DEF ProjectScore
  <1>6. Decayed16(d) \in Int /\ Decayed16(0) \in Int /\ Decayed16(d) <= Decayed16(0)
    BY FreshIsBest
  <1> HIDE DEF quality100, activity, fixed
  <1>7. signals(n, q, d) \in Int /\ signals(m, r, 0) \in Int /\ signals(n, q, d) <= signals(m, r, 0)
    BY <1>2, <1>3, <1>4, <1>6
  <1> HIDE DEF signals
  <1>8. /\ AtMost(signals(n, q, d) + Featured(p), 10000) \in Int
        /\ AtMost(signals(m, r, 0) + Featured(p), 10000) \in Int
        /\ AtMost(signals(n, q, d) + Featured(p), 10000) <= AtMost(signals(m, r, 0) + Featured(p), 10000)
    BY <1>2, <1>7 DEF AtMost
  <1>9. QED
    BY <1>5, <1>8, RoundedGrows

\* The search.
LEMMA SearchScoreGrows ==
  ASSUME NEW n, NEW m, NEW q, NEW r, Grown(n, q, m, r), NEW d \in Ages, NEW p \in Listing
  PROVE  SearchScore(n, q, d, p) <= SearchScore(m, r, 0, p)
  <1> DEFINE rated(x) == 1200 * p.rating + 40 * QualityModel(x)
             quality100(x) == Clamp(Rounded(rated(x), 1000))
             counted100(x) == 450 * x.inquiry + 175 * x.like + 2 * x.view
             engagement(x) == Clamp(Rounded(counted100(x), 50))
             weighed(x) == 80 * engagement(x) + 100 * p.recency
             activity(x) == Clamp(Rounded(weighed(x), 100))
             fixed == 15 * Share(p.filled + 1, 8)
             signals(x, y, z) == 25 * Decayed16(z) + 30 * quality100(y) + fixed + 20 * activity(x) + 10 * 70
  <1>1. /\ n.view \in Int /\ m.view \in Int /\ n.inquiry \in Int /\ m.inquiry \in Int
        /\ n.like \in Int /\ m.like \in Int /\ n.like <= m.like /\ n.view <= m.view /\ n.inquiry <= m.inquiry
        /\ QualityModel(q) \in Int /\ QualityModel(r) \in Int /\ QualityModel(q) <= QualityModel(r)
    BY DEF Grown, Counters
  <1>2. fixed \in Int /\ Featured(p) \in Int /\ p.rating \in Int /\ p.recency \in Int
    BY SharesAreNumbers
  <1>3. quality100(q) \in Int /\ quality100(r) \in Int /\ quality100(q) <= quality100(r)
    <2>1. rated(q) \in Int /\ rated(r) \in Int /\ rated(q) <= rated(r)
      BY <1>1, <1>2
    <2> HIDE DEF rated
    <2>2. QED
      BY <2>1, PointsGrow
  <1>4. engagement(n) \in Int /\ engagement(m) \in Int /\ engagement(n) <= engagement(m)
    <2>1. counted100(n) \in Int /\ counted100(m) \in Int /\ counted100(n) <= counted100(m)
      BY <1>1
    <2> HIDE DEF counted100
    <2>2. QED
      BY <2>1, PointsGrow
  <1>5. /\ SearchScore(n, q, d, p) = Rounded(AtMost(signals(n, q, d) + Featured(p), 10000), 100)
        /\ SearchScore(m, r, 0, p) = Rounded(AtMost(signals(m, r, 0) + Featured(p), 10000), 100)
    BY DEF SearchScore
  <1>6. Decayed16(d) \in Int /\ Decayed16(0) \in Int /\ Decayed16(d) <= Decayed16(0)
    BY FreshIsBest
  <1> HIDE DEF quality100, engagement, fixed
  <1>7. activity(n) \in Int /\ activity(m) \in Int /\ activity(n) <= activity(m)
    <2>1. weighed(n) \in Int /\ weighed(m) \in Int /\ weighed(n) <= weighed(m)
      BY <1>2, <1>4
    <2> HIDE DEF weighed
    <2>2. QED
      BY <2>1, PointsGrow
  <1> HIDE DEF activity
  <1>8. signals(n, q, d) \in Int /\ signals(m, r, 0) \in Int /\ signals(n, q, d) <= signals(m, r, 0)
    BY <1>2, <1>3, <1>6, <1>7
  <1> HIDE DEF signals
  <1>9. /\ AtMost(signals(n, q, d) + Featured(p), 10000) \in Int
        /\ AtMost(signals(m, r, 0) + Featured(p), 10000) \in Int
        /\ AtMost(signals(n, q, d) + Featured(p), 10000) <= AtMost(signals(m, r, 0) + Featured(p), 10000)
    BY <1>2, <1>8 DEF AtMost
  <1>10. QED
    BY <1>5, <1>9, RoundedGrows

\* The developers' list.
LEMMA DeveloperScoreGrows ==
  ASSUME NEW n, NEW m, NEW q, NEW r, Grown(n, q, m, r), NEW d \in Ages, NEW p \in Listing
  PROVE  DeveloperScore(n, d, p) <= DeveloperScore(m, 0, p)
  <1> DEFINE response == Clamp(Rounded(100 * (p.answered + 3), p.received + 5))
             reviewed == 50 * p.rating + 5100
             reviews == IF p.rating = 0 THEN 68 ELSE Clamp(Rounded(reviewed, 100))
             recent(z) == IF z <= 45 THEN 1800 ELSE 0
             touched(x, z) == recent(z) + AtMost(400 * x.inquiry, 2500) + AtMost(150 * x.like, 1800)
                                + AtMost((100 * x.view) \div 30, 1400)
             activity(x, z) == Clamp(Rounded(touched(x, z), 100))
             signals(x, z) == 15 * Decayed24(z) + 30 * response + 25 * reviews
                                + 15 * Share(p.profile + 1, 11) + 15 * activity(x, z)
  <1>1. /\ n.view \in Int /\ m.view \in Int /\ n.inquiry \in Int /\ m.inquiry \in Int
        /\ n.like \in Int /\ m.like \in Int /\ n.like <= m.like /\ n.view <= m.view /\ n.inquiry <= m.inquiry
    BY DEF Grown, Counters
  <1>2. response \in Int /\ reviews \in Int /\ Share(p.profile + 1, 11) \in Int
    <2>1. Rounded(100 * (p.answered + 3), p.received + 5) \in Int /\ p.rating \in Int
      BY SharesAreNumbers
    <2>2. response \in Int
      BY <2>1, ClampGrows
    <2>3. reviewed \in Int /\ reviewed <= reviewed
      BY <2>1
    <2> HIDE DEF reviewed
    <2>4. Rounded(reviewed, 100) \in Int
      BY <2>3, RoundedGrows
    <2>5. reviews \in Int
      BY <2>4, ClampGrows
    <2>6. QED
      BY <2>2, <2>5, SharesAreNumbers
  <1>3. touched(n, d) \in Int /\ touched(m, 0) \in Int /\ touched(n, d) <= touched(m, 0)
    <2>1. d \in Int /\ recent(d) \in Int /\ recent(0) = 1800 /\ recent(d) <= 1800
      BY DEF Ages
    <2>2. /\ (100 * n.view) \div 30 \in Int /\ (100 * m.view) \div 30 \in Int
          /\ (100 * n.view) \div 30 <= (100 * m.view) \div 30
      BY <1>1
    <2> HIDE DEF recent
    <2>3. QED
      BY <1>1, <2>1, <2>2 DEF AtMost
  <1>4. activity(n, d) \in Int /\ activity(m, 0) \in Int /\ activity(n, d) <= activity(m, 0)
    <2> HIDE DEF touched
    <2>1. QED
      BY <1>3, PointsGrow
  <1>5. /\ DeveloperScore(n, d, p) = Rounded(80 * signals(n, d) + 20 * 7000, 10000)
        /\ DeveloperScore(m, 0, p) = Rounded(80 * signals(m, 0) + 20 * 7000, 10000)
    BY DEF DeveloperScore
  <1>6. Decayed24(d) \in Int /\ Decayed24(0) \in Int /\ Decayed24(d) <= Decayed24(0)
    BY FreshIsBest
  <1> HIDE DEF response, reviews, activity
  <1>7. signals(n, d) \in Int /\ signals(m, 0) \in Int /\ signals(n, d) <= signals(m, 0)
    BY <1>2, <1>4, <1>6
  <1> HIDE DEF signals
  <1>8. /\ 80 * signals(n, d) + 20 * 7000 \in Int /\ 80 * signals(m, 0) + 20 * 7000 \in Int
        /\ 80 * signals(n, d) + 20 * 7000 <= 80 * signals(m, 0) + 20 * 7000
    BY <1>7
  <1>9. QED
    BY <1>5, <1>8, RoundedGrows

\* Whoever writes the counters adds to them, or takes a like away; and touches
\* the project.
LEMMA CountersOnlyGrow ==
  ASSUME TypeOK, Next, project' # project, project'.like >= project.like
  PROVE  /\ project'.view >= project.view /\ project'.inquiry >= project.inquiry
         /\ days' = 0 /\ UNCHANGED seed
  <1>1. /\ project \in Counters /\ project.view \in Nat /\ project.inquiry \in Nat /\ project.like \in Int
    BY DEF TypeOK, Counters
  <1>2. PICK c \in Calls : CommitLike(c) \/ CommitUnlike(c) \/ CountView(c) \/ CountInquiry(c)
    BY DEF Next, Archive, ToggleLike, ToggleSave, GetBySlug, TrackInquiry, Begin, ReadLike, InsertLike,
           DeleteLike, ReadSave, CreateSave, DeleteSave, Fail, counted
  <1>3. CASE CommitLike(c)
    BY <1>1, <1>3 DEF CommitLike, Count, Counters
  <1>4. CASE CommitUnlike(c)
    <2>1. /\ project' = [project EXCEPT !.like = IF call[c].seen.like > 0 THEN @ - 1 ELSE @]
          /\ days' = 0 /\ UNCHANGED seed
      BY <1>4 DEF CommitUnlike, Count
    <2>2. project'.view = project.view /\ project'.inquiry = project.inquiry
      BY <1>1, <2>1 DEF Counters
    <2>3. QED
      BY <1>1, <2>1, <2>2
  <1>5. CASE CountView(c)
    BY <1>1, <1>5 DEF CountView, Count, Counters
  <1>6. CASE CountInquiry(c)
    BY <1>1, <1>6 DEF CountInquiry, Count, Counters
  <1>7. QED
    BY <1>2, <1>3, <1>4, <1>5, <1>6

\* Where both scores are those of the counters, they grow with them, and the
\* ranks with the scores.
LEMMA StepCostsNoRank ==
  ASSUME EInv, EInv', Next, inStep, inStep', project' # project,
         project'.like >= project.like, project.like >= 0, ~ReadAsFraction(quality)
  PROVE  LET p == seed.listing IN
         /\ ProjectScore(project, quality, days, p)' >= ProjectScore(project, quality, days, p)
         /\ SearchScore(project, quality, days, p)' >= SearchScore(project, quality, days, p)
         /\ DeveloperScore(project, days, p)' >= DeveloperScore(project, days, p)
  <1> DEFINE p == seed.listing
             m == project'
             r == quality'
  <1>1. TypeOK /\ TypeOK'
    BY DEF EInv, LInv
  <1>2. m.view >= project.view /\ m.inquiry >= project.inquiry /\ days' = 0 /\ UNCHANGED seed
    BY <1>1, CountersOnlyGrow
  <1>3. /\ project \in Counters /\ m \in Counters /\ days \in Ages
        /\ p \in Listing /\ p.rating \in 0 .. 50
    BY <1>1, EngagementAssumption DEF TypeOK, Listing
  <1>4. /\ project.view \in Nat /\ project.inquiry \in Nat /\ project.like \in Int
        /\ m.view \in Nat /\ m.inquiry \in Nat /\ m.like \in Int
    BY <1>3 DEF Counters
  <1>5. quality = QualityScore(project, p.rating)
    BY DEF EInv, ScoreFollowsCounters
  <1>6. r = QualityScore(m, p.rating)
    <2>1. m.like >= 0
      BY <1>4
    <2>2. QED
      BY <1>2, <2>1 DEF EInv, ScoreFollowsCounters
  <1>7. quality \in Nat /\ r \in Nat /\ quality <= r
    <2>1. project.like <= m.like /\ project.view <= m.view /\ project.inquiry <= m.inquiry
      BY <1>2, <1>4
    <2>2. QED
      BY <1>3, <1>5, <1>6, <2>1, QualityGrows
  <1>8. Grown(project, quality, m, r)
    BY <1>2, <1>3, <1>4, <1>7, ModelGrows DEF Grown
  <1>9. /\ ProjectScore(project, quality, days, p)' = ProjectScore(m, r, 0, p)
        /\ SearchScore(project, quality, days, p)' = SearchScore(m, r, 0, p)
        /\ DeveloperScore(project, days, p)' = DeveloperScore(m, 0, p)
    BY <1>2
  <1> HIDE DEF m, r, p
  <1>10. /\ ProjectScore(project, quality, days, p) <= ProjectScore(m, r, 0, p)
         /\ SearchScore(project, quality, days, p) <= SearchScore(m, r, 0, p)
         /\ DeveloperScore(project, days, p) <= DeveloperScore(m, 0, p)
    BY <1>3, <1>8, ProjectScoreGrows, SearchScoreGrows, DeveloperScoreGrows
  <1>11. QED
    BY <1>9, <1>10 DEF p

\* A view, a like or an inquiry that nobody overtook lowers no rank, in any of the
\* three lists, for any project and any counters.
THEOREM EngagementCostsNoRank ==
  Spec => EngagementNeverCostsRank
  <1> DEFINE Costless ==
               LET p == seed.listing IN
               /\ inStep /\ inStep'
               /\ project' # project /\ project'.like >= project.like /\ project.like >= 0
               /\ ~ReadAsFraction(quality)
               => /\ ProjectScore(project, quality, days, p)' >= ProjectScore(project, quality, days, p)
                  /\ SearchScore(project, quality, days, p)' >= SearchScore(project, quality, days, p)
                  /\ DeveloperScore(project, days, p)' >= DeveloperScore(project, days, p)
  <1>1. EInv /\ EInv' /\ [Next]_vars => [Costless]_vars
    BY StepCostsNoRank DEF vars
  <1>2. EngagementNeverCostsRank <=> [][Costless]_vars
    BY DEF EngagementNeverCostsRank
  <1>3. Spec => []EInv /\ [][Next]_vars
    BY EInvHolds, PTL DEF Spec
  <1> HIDE DEF Costless
  <1>4. QED
    BY <1>1, <1>2, <1>3, PTL

-----------------------------------------------------------------------------
(* The dashboard *)

DeskStep == {"shut", "compose", "lookup", "profile", "parts", "shown"}
DeskType == [step : DeskStep, key : Nat, answer : Answer, unread : SUBSET Parts, since : [Parts -> Nat]]

\* The desk that an action replaces, and all the desks that it does not.
LEMMA PutEffect ==
  ASSUME BInv, NEW d \in Desks, NEW r \in DeskType, Put(d, r)
  PROVE  /\ desk' \in [Desks -> DeskType]
         /\ desk'[d] = r
         /\ \A other \in Desks \ {d} : desk'[other] = desk[other]
  BY DEF BInv, BoardTypeOK, DeskType, DeskStep, Put

\* The types of what has settled, and of what is read for a part.
LEMMA FloorType ==
  ASSUME BInv
  PROVE  /\ Floor \in [Parts -> Nat]
         /\ \A p \in Parts : Floor[p] = settled[IF p = "completeness" THEN "profile" ELSE p]
         /\ \A p \in Parts : Now(p) \in Nat /\ Floor[p] <= Now(p)
  <1>1. settled \in [Parts -> Nat] /\ Floor \in [Parts -> Nat]
        /\ \A p \in Parts : Floor[p] = settled[IF p = "completeness" THEN "profile" ELSE p]
    BY DEF BInv, BoardTypeOK, Floor, Parts
  <1>2. \A p \in Parts : Now(p) \in Nat
    BY DEF BInv, BoardTypeOK, Now, Parts
  <1>3. Now("completeness") = Now("profile") /\ "profile" \in Parts /\ "completeness" \in Parts
    BY DEF Now, Parts
  <1>4. \A p \in Parts : settled[p] <= Now(p)
    BY DEF BInv, SettledIsWritten
  <1>5. QED
    BY <1>1, <1>2, <1>3, <1>4

\* Shut desks, no entries: nothing that could be stale.
LEMMA BoardInitEstablishesBInv ==
  ASSUME BoardInit PROVE BInv
  <1>1. Nothing \in Answer /\ [p \in Parts |-> 0] \in [Parts -> Nat]
    BY DEF Nothing, Answer
  <1>2. Shut \in DeskType /\ Shut.step = "shut" /\ Shut.since = [p \in Parts |-> 0]
    BY <1>1 DEF Shut, Desk, DeskType, DeskStep
  <1>3. /\ writes = [p \in {"projects", "inbox"} |-> 0] /\ due = {} /\ version = 1 /\ entries = {}
        /\ settled = [p \in Parts |-> 0] /\ rev = 0
        /\ desk = [d \in Desks |-> Shut]
    BY DEF BoardInit, ProfileInit
  <1> HIDE DEF Shut
  <1>4. desk \in [Desks -> DeskType] /\ \A d \in Desks : desk[d] = Shut
    BY <1>2, <1>3
  <1>5. BoardTypeOK /\ rev \in Nat
    BY <1>3, <1>4 DEF BoardTypeOK, DeskType, DeskStep
  <1>6. SettledIsWritten
    BY <1>3 DEF SettledIsWritten, Now, Parts
  <1>7. BoundsAreKept
    BY <1>2, <1>3, <1>4 DEF BoundsAreKept, Floor, Parts
  <1>8. KeysArePast /\ NothingReadYet /\ KeysAreFresh /\ DashboardIsRecent
    BY <1>2, <1>3, <1>4 DEF KeysArePast, NothingReadYet, KeysAreFresh, DashboardIsRecent, Keyed
  <1>9. QED
    BY <1>5, <1>6, <1>7, <1>8 DEF BInv

\* Whoever writes what the dashboard is about, and does not invalidate it, only
\* makes it newer.
LEMMA WritesKeepBInv ==
  ASSUME BInv, UNCHANGED <<version, entries, settled, desk>>,
         rev' \in Nat, rev' >= rev,
         writes' \in [{"projects", "inbox"} -> Nat],
         \A p \in {"projects", "inbox"} : writes'[p] >= writes[p],
         due' \subseteq [part : Parts, write : Nat],
         \A w \in due' : w \in due \/ w.write <= Now(w.part)'
  PROVE  BInv'
  <1>1. \A p \in Parts : Now(p) \in Nat /\ Now(p)' \in Nat /\ Now(p)' >= Now(p)
    BY DEF BInv, BoardTypeOK, Now, Parts
  <1>2. BoardTypeOK'
    BY DEF BInv, BoardTypeOK
  <1>3. SettledIsWritten'
    <2>1. \A w \in due : w.part \in Parts /\ w.write \in Nat /\ w.write <= Now(w.part)
      BY DEF BInv, BoardTypeOK, SettledIsWritten
    <2>2. \A w \in due' : w.part \in Parts /\ w.write \in Nat
      OBVIOUS
    <2>3. \A w \in due' : w.write <= Now(w.part)'
      BY <1>1, <2>1, <2>2
    <2>4. \A p \in Parts : settled[p] \in Nat /\ settled[p] <= Now(p)
      BY DEF BInv, BoardTypeOK, SettledIsWritten
    <2>5. QED
      BY <1>1, <2>3, <2>4 DEF SettledIsWritten
  <1>4. /\ BoundsAreKept' /\ KeysArePast' /\ NothingReadYet' /\ KeysAreFresh' /\ DashboardIsRecent'
    BY DEF BInv, BoundsAreKept, Floor, KeysArePast, NothingReadYet, KeysAreFresh, Serves, Meets,
           DashboardIsRecent, Keyed
  <1>5. QED
    BY <1>2, <1>3, <1>4 DEF BInv

\* An invalidation raises what may be counted on, and makes every key a past one.
LEMMA InvalidateKeepsBInv ==
  ASSUME BInv, NEW w \in due, Invalidate(w) PROVE BInv'
  <1>1. /\ version' = version + 1 /\ version \in Nat /\ due' = due \ {w}
        /\ settled' = [settled EXCEPT ![w.part] = IF w.write > @ THEN w.write ELSE @]
        /\ settled \in [Parts -> Nat]
        /\ UNCHANGED <<writes, entries, desk, rev>>
        /\ w.part \in Parts /\ w.write \in Nat /\ w.write <= Now(w.part)
    BY DEF Invalidate, BInv, BoardTypeOK, SettledIsWritten, profVars, rowVars
  <1>2. /\ settled' \in [Parts -> Nat]
        /\ \A p \in Parts : settled'[p] >= settled[p] /\ (settled'[p] = settled[p] \/ (p = w.part /\ settled'[p] = w.write))
    BY <1>1
  <1>3. /\ Floor' \in [Parts -> Nat] /\ Floor \in [Parts -> Nat]
        /\ \A p \in Parts : Floor'[p] >= Floor[p]
    BY <1>2, FloorType DEF Floor, Parts
  <1>4. BoardTypeOK' /\ rev' \in Nat
    BY <1>1, <1>2 DEF BInv, BoardTypeOK
  <1>5. SettledIsWritten'
    <2>1. \A p \in Parts : Now(p)' = Now(p) /\ Now(p) \in Nat
      BY <1>1, FloorType DEF Now
    <2>2. \A p \in Parts : settled[p] <= Now(p)
      BY DEF BInv, SettledIsWritten
    <2>3. \A p \in Parts : settled'[p] <= Now(p)'
      BY <1>1, <1>2, <2>1, <2>2
    <2>4. \A v \in due' : v.part \in Parts /\ v.write <= Now(v.part)
      BY <1>1 DEF BInv, BoardTypeOK, SettledIsWritten
    <2>5. QED
      BY <2>1, <2>3, <2>4 DEF SettledIsWritten
  <1>6. BoundsAreKept'
    <2>1. \A d \in Desks, p \in Parts : desk[d].since[p] \in Nat /\ desk[d].since[p] <= Floor[p]
      BY DEF BInv, BoardTypeOK, BoundsAreKept
    <2>2. ASSUME NEW d \in Desks, NEW p \in Parts PROVE desk'[d].since[p] <= Floor'[p]
      <3>1. desk'[d].since[p] = desk[d].since[p]
        BY <1>1
      <3>2. /\ Floor[p] \in Nat /\ Floor'[p] \in Nat /\ Floor[p] <= Floor'[p]
            /\ desk[d].since[p] \in Nat /\ desk[d].since[p] <= Floor[p]
        BY <1>3, <2>1
      <3>3. QED
        BY <3>1, <3>2
    <2>3. QED
      BY <2>2 DEF BoundsAreKept
  <1>7. /\ \A e \in entries : e.key \in Nat /\ e.key <= version
        /\ \A d \in Desks : desk[d].key \in Nat /\ (Keyed(d) => desk[d].key <= version)
    BY DEF BInv, BoardTypeOK, KeysArePast
  <1>8. KeysArePast'
    BY <1>1, <1>7 DEF KeysArePast, Keyed
  <1>9. NothingReadYet' /\ DashboardIsRecent'
    BY <1>1 DEF BInv, NothingReadYet, DashboardIsRecent, Meets
  <1>10. KeysAreFresh'
    <2>1. /\ \A e \in entries : e.key # version'
          /\ \A d \in Desks : Keyed(d) => desk[d].key # version'
      BY <1>1, <1>7
    <2>2. QED
      BY <1>1, <2>1 DEF BInv, KeysAreFresh, Serves, Meets, Keyed
  <1>11. QED
    BY <1>4, <1>5, <1>6, <1>8, <1>9, <1>10 DEF BInv

\* Only a desk moves, and keeps its bound, or takes the present one.  Left to
\* show: what it has read satisfies whoever holds its key, and its own bound.
LEMMA DeskKeepsBInv ==
  ASSUME BInv, NEW d \in Desks, NEW r \in DeskType, Put(d, r),
         UNCHANGED <<version, entries, settled, writes, due, rev>>,
         \A p \in Parts : r.since[p] <= Floor[p],
         r.step = "compose" => r.answer = Nothing,
         r.step = "shown" => Meets(r.answer, r.since),
         r.step \in {"lookup", "profile", "parts"} =>
           /\ r.key <= version
           /\ r.key = version => Meets(r.answer, Floor)
           /\ Meets(r.answer, r.since)
           /\ \A e \in entries : e.key = r.key => Meets(e.answer, r.since)
           /\ \A o \in Desks \ {d} : Keyed(o) /\ desk[o].key = r.key =>
                Meets(r.answer, desk[o].since) /\ Meets(desk[o].answer, r.since)
  PROVE  BInv'
  <1>1. /\ desk' \in [Desks -> DeskType]
        /\ desk'[d] = r
        /\ \A o \in Desks \ {d} : desk'[o] = desk[o]
    BY PutEffect
  <1>2. BoardTypeOK' /\ rev' \in Nat
    BY <1>1 DEF BInv, BoardTypeOK, DeskType, DeskStep
  <1>3. SettledIsWritten'
    BY DEF BInv, SettledIsWritten, Now
  <1>4. BoundsAreKept'
    BY <1>1 DEF BInv, BoundsAreKept, Floor
  <1>5. /\ Keyed(d)' <=> r.step \in {"lookup", "profile", "parts"}
        /\ \A o \in Desks \ {d} : Keyed(o)' <=> Keyed(o)
    BY <1>1 DEF Keyed
  <1>6. KeysArePast' /\ NothingReadYet'
    BY <1>1, <1>5 DEF BInv, KeysArePast, NothingReadYet
  <1>7. DashboardIsRecent'
    BY <1>1 DEF BInv, DashboardIsRecent, Meets
  <1>8. Floor' = Floor
    BY DEF Floor
  <1>9. \A e \in entries : Serves(e.answer, e.key)'
    BY <1>1, <1>5, <1>8 DEF BInv, KeysAreFresh, Serves, Meets
  <1>10. \A o \in Desks : Keyed(o)' => Serves(desk[o].answer, desk[o].key)'
    <2>1. Keyed(d)' => Serves(desk[d].answer, desk[d].key)'
      BY <1>1, <1>5, <1>8 DEF Serves, Meets
    <2>2. ASSUME NEW o \in Desks \ {d}, Keyed(o)' PROVE Serves(desk[o].answer, desk[o].key)'
      <3>1. Keyed(o) /\ Serves(desk[o].answer, desk[o].key) /\ desk'[o] = desk[o]
        BY <1>1, <1>5, <2>2 DEF BInv, KeysAreFresh
      <3>2. QED
        BY <1>1, <1>5, <1>8, <3>1 DEF Serves, Meets
    <2>3. QED
      BY <2>1, <2>2
  <1>11. KeysAreFresh'
    BY <1>9, <1>10 DEF KeysAreFresh
  <1>12. QED
    BY <1>2, <1>3, <1>4, <1>6, <1>7, <1>11 DEF BInv

\* A dashboard is asked for, with nothing read yet.
LEMMA AskKeepsBInv ==
  ASSUME BInv, NEW d \in Desks, AskDashboard(d) PROVE BInv'
  <1> DEFINE r == Desk("compose", 0, Nothing, {}, Floor)
  <1>1. Nothing \in Answer /\ Floor \in [Parts -> Nat]
    BY FloorType DEF Nothing, Answer
  <1>2. r \in DeskType /\ r.step = "compose" /\ r.answer = Nothing /\ r.since = Floor
    BY <1>1 DEF Desk, DeskType, DeskStep
  <1>3. Put(d, r) /\ UNCHANGED <<version, entries, settled, writes, due, rev>>
    BY DEF AskDashboard, OnlyDesks, profVars, rowVars
  <1> HIDE DEF r
  <1>4. \A p \in Parts : r.since[p] <= Floor[p]
    BY <1>1, <1>2
  <1>5. QED
    BY <1>2, <1>3, <1>4, DeskKeepsBInv

\* Whoever composes the present key is served by all that is under it.
LEMMA ComposeKeepsBInv ==
  ASSUME BInv, NEW d \in Desks, Compose(d) PROVE BInv'
  <1> DEFINE r == [desk[d] EXCEPT !.step = "lookup", !.key = version]
  <1>1. desk[d] \in DeskType /\ version \in Nat /\ desk[d].step = "compose" /\ desk[d].answer = Nothing
    BY DEF BInv, BoardTypeOK, NothingReadYet, Compose, DeskType, DeskStep
  <1>2. /\ r \in DeskType /\ r.step = "lookup" /\ r.key = version
        /\ r.answer = Nothing /\ r.since = desk[d].since
    BY <1>1 DEF DeskType, DeskStep
  <1>3. Put(d, r) /\ UNCHANGED <<version, entries, settled, writes, due, rev>>
    BY DEF Compose, OnlyDesks, profVars, rowVars
  <1> HIDE DEF r
  <1>4. \A p \in Parts : r.since[p] \in Nat /\ Floor[p] \in Nat /\ r.since[p] <= Floor[p]
    BY <1>1, <1>2, FloorType DEF BInv, BoundsAreKept, DeskType
  <1>5. ASSUME NEW answer \in Answer, Meets(answer, Floor) PROVE Meets(answer, r.since)
    BY <1>4, <1>5 DEF Meets, Answer
  <1>6. \A bound : Meets(r.answer, bound)
    BY <1>2 DEF Meets, Nothing
  <1>7. \A e \in entries : e.key = version => Meets(e.answer, r.since)
    BY <1>5 DEF BInv, BoardTypeOK, KeysAreFresh, Serves
  <1>8. \A o \in Desks : Keyed(o) /\ desk[o].key = version => Meets(desk[o].answer, r.since)
    BY <1>5 DEF BInv, BoardTypeOK, KeysAreFresh, Serves
  <1>9. version <= version
    BY <1>1
  <1>10. QED
    BY <1>2, <1>3, <1>4, <1>6, <1>7, <1>8, <1>9, DeskKeepsBInv

\* A desk that keeps its key, its bound and what it has read, or adds a part that
\* is as new as the present, is as good as before.
LEMMA KeyedDeskKeepsBInv ==
  ASSUME BInv, NEW d \in Desks, Keyed(d), NEW r \in DeskType, Put(d, r),
         UNCHANGED <<version, entries, settled, writes, due, rev>>,
         r.since = desk[d].since, r.key = desk[d].key,
         r.step \in {"lookup", "profile", "parts", "shown"},
         \A p \in Parts : r.answer[p] \in {desk[d].answer[p], Now(p), None}
  PROVE  BInv'
  <1>1. /\ desk[d] \in DeskType /\ Serves(desk[d].answer, desk[d].key)
        /\ \A o \in Desks : desk[o] \in DeskType /\ (Keyed(o) => Serves(desk[o].answer, desk[o].key))
        /\ \A e \in entries : Serves(e.answer, e.key)
        /\ version \in Nat /\ desk[d].key <= version
    BY DEF BInv, BoardTypeOK, KeysAreFresh, KeysArePast, DeskType, DeskStep
  <1>2. \A o \in Desks, p \in Parts : desk[o].since[p] \in Nat /\ desk[o].since[p] <= Floor[p]
    BY <1>1 DEF BInv, BoundsAreKept, DeskType
  <1>3. \A p \in Parts : Floor[p] \in Nat /\ Now(p) \in Nat /\ Floor[p] <= Now(p)
    BY FloorType
  <1>4. ASSUME NEW bound \in [Parts -> Nat], Meets(desk[d].answer, bound),
               \A p \in Parts : bound[p] <= Now(p)
        PROVE  Meets(r.answer, bound)
    BY <1>3, <1>4 DEF Meets
  <1>5. \A o \in Desks : Keyed(o) /\ desk[o].key = r.key => Meets(r.answer, desk[o].since)
    <2>1. SUFFICES ASSUME NEW o \in Desks, Keyed(o), desk[o].key = r.key
                   PROVE  Meets(r.answer, desk[o].since)
      OBVIOUS
    <2>2. Meets(desk[d].answer, desk[o].since) /\ desk[o].since \in [Parts -> Nat]
      BY <1>1, <2>1 DEF Serves, DeskType
    <2>3. \A p \in Parts : desk[o].since[p] <= Now(p)
      BY <1>2, <1>3
    <2>4. QED
      BY <1>4, <2>2, <2>3
  <1>6. r.key = version => Meets(r.answer, Floor)
    <2>1. Floor \in [Parts -> Nat]
      BY FloorType
    <2>2. QED
      BY <1>1, <1>3, <1>4, <2>1 DEF Serves
  <1>7. \A e \in entries : e.key = r.key => Meets(e.answer, r.since)
    BY <1>1 DEF Serves
  <1>8. \A o \in Desks : Keyed(o) /\ desk[o].key = r.key => Meets(desk[o].answer, r.since)
    BY <1>1 DEF Serves
  <1>9. Meets(r.answer, r.since)
    BY <1>5
  <1>10. \A p \in Parts : r.since[p] <= Floor[p]
    BY <1>2
  <1>11. QED
    BY <1>1, <1>5, <1>6, <1>7, <1>8, <1>9, <1>10, DeskKeepsBInv

\* What is found under a key satisfies whoever looked it up.
LEMMA HitKeepsBInv ==
  ASSUME BInv, NEW d \in Desks, Hit(d) PROVE BInv'
  <1>1. PICK e \in entries : e.key = desk[d].key /\ Put(d, [desk[d] EXCEPT !.step = "shown", !.answer = e.answer])
    BY DEF Hit
  <1> DEFINE r == [desk[d] EXCEPT !.step = "shown", !.answer = e.answer]
  <1>2. desk[d] \in DeskType /\ e.answer \in Answer /\ Keyed(d)
    BY DEF BInv, BoardTypeOK, DeskType, DeskStep, Hit, Keyed
  <1>3. r \in DeskType /\ r.step = "shown" /\ r.answer = e.answer /\ r.since = desk[d].since
    BY <1>2 DEF DeskType, DeskStep
  <1>4. Put(d, r) /\ UNCHANGED <<version, entries, settled, writes, due, rev>>
    BY <1>1 DEF Hit, OnlyDesks, profVars, rowVars
  <1> HIDE DEF r
  <1>5. Meets(r.answer, r.since)
    BY <1>1, <1>2, <1>3 DEF BInv, KeysAreFresh, Serves
  <1>6. \A p \in Parts : r.since[p] <= Floor[p]
    BY <1>3 DEF BInv, BoundsAreKept
  <1>7. QED
    BY <1>3, <1>4, <1>5, <1>6, DeskKeepsBInv

\* A miss, and the queries that follow it.
LEMMA QueriesKeepBInv ==
  ASSUME BInv, NEW d \in Desks, Miss(d) \/ ReadProfile(d) \/ \E p \in Parts : ReadPart(d, p)
  PROVE  BInv'
  <1>1. /\ desk[d] \in DeskType /\ Keyed(d)
        /\ UNCHANGED <<version, entries, settled, writes, due, rev>>
    BY DEF BInv, BoardTypeOK, DeskType, DeskStep, Miss, ReadProfile, ReadPart, Keyed, OnlyDesks,
           profVars, rowVars
  <1>2. CASE Miss(d)
    <2> DEFINE r == [desk[d] EXCEPT !.step = "profile"]
    <2>1. /\ r \in DeskType /\ r.since = desk[d].since /\ r.key = desk[d].key /\ r.step = "profile"
          /\ r.answer = desk[d].answer /\ Put(d, r)
      BY <1>1, <1>2 DEF DeskType, DeskStep, Miss
    <2> HIDE DEF r
    <2>2. QED
      BY <1>1, <2>1, KeyedDeskKeepsBInv
  <1>3. ASSUME NEW p \in Parts, NEW n \in Answers(Now(p)), NEW unread \in SUBSET Parts,
               Put(d, [desk[d] EXCEPT !.step = "parts", !.unread = unread, !.answer[p] = n])
        PROVE  BInv'
    <2> DEFINE r == [desk[d] EXCEPT !.step = "parts", !.unread = unread, !.answer[p] = n]
    <2>1. n \in {Now(p), None} /\ Now(p) \in Nat
      BY <1>3, FloorType DEF Answers
    <2>2. /\ r.step = "parts" /\ r.since = desk[d].since /\ r.key = desk[d].key /\ r.unread = unread
          /\ r.answer = [desk[d].answer EXCEPT ![p] = n]
      BY <1>1 DEF DeskType
    <2>3. desk[d].answer \in Answer /\ desk[d].key \in Nat /\ desk[d].since \in [Parts -> Nat]
      BY <1>1 DEF DeskType
    <2>4. [desk[d].answer EXCEPT ![p] = n] \in Answer
      BY <2>1, <2>3 DEF Answer
    <2>5. r \in DeskType
      BY <1>1, <2>3, <2>4 DEF DeskType, DeskStep
    <2>6. Put(d, r)
      BY <1>3
    <2> HIDE DEF r
    <2>7. \A q \in Parts : r.answer[q] \in {desk[d].answer[q], Now(q), None}
      BY <2>1, <2>2, <2>3 DEF Answer
    <2>8. QED
      BY <1>1, <2>2, <2>5, <2>6, <2>7, KeyedDeskKeepsBInv
  <1>4. CASE ReadProfile(d)
    <2>1. PICK n \in Answers(rev) :
            Put(d, [desk[d] EXCEPT !.step = "parts", !.unread = Parts \ {"profile"}, !.answer["profile"] = n])
      BY <1>4 DEF ReadProfile
    <2>2. "profile" \in Parts /\ n \in Answers(Now("profile"))
      BY DEF Parts, Now
    <2>3. QED
      BY <1>3, <2>1, <2>2
  <1>5. ASSUME NEW p \in Parts, ReadPart(d, p) PROVE BInv'
    <2>1. PICK n \in Answers(Now(p)) : Put(d, [desk[d] EXCEPT !.unread = @ \ {p}, !.answer[p] = n])
      BY <1>5 DEF ReadPart
    <2>2. [desk[d] EXCEPT !.unread = @ \ {p}, !.answer[p] = n]
            = [desk[d] EXCEPT !.step = "parts", !.unread = desk[d].unread \ {p}, !.answer[p] = n]
      BY <1>1, <1>5 DEF DeskType, ReadPart
    <2>3. desk[d].unread \ {p} \in SUBSET Parts
      BY <1>1 DEF DeskType
    <2>4. QED
      BY <1>3, <2>1, <2>2, <2>3
  <1>6. QED
    BY <1>2, <1>4, <1>5

\* An answer is stored under the key it was put together for, however late.
LEMMA StoreKeepsBInv ==
  ASSUME BInv, NEW d \in Desks, Store(d) PROVE BInv'
  <1> DEFINE r == [desk[d] EXCEPT !.step = "shown"]
             stored == [key |-> desk[d].key, answer |-> desk[d].answer]
  <1>1. /\ desk[d] \in DeskType /\ Keyed(d) /\ Put(d, r)
        /\ UNCHANGED <<version, settled, writes, due, rev>>
        /\ \A e \in entries' : e \in entries \/ e = stored
    BY DEF BInv, BoardTypeOK, DeskType, DeskStep, Store, Keyed, OnlyDesks, profVars, rowVars
  <1>2. /\ r \in DeskType /\ r.step = "shown" /\ r.since = desk[d].since
        /\ r.answer = desk[d].answer
        /\ stored \in [key : Nat, answer : Answer]
        /\ stored.key = desk[d].key /\ stored.answer = desk[d].answer
    BY <1>1 DEF DeskType, DeskStep
  <1> HIDE DEF r, stored
  <1>3. /\ desk' \in [Desks -> DeskType] /\ desk'[d] = r
        /\ \A o \in Desks \ {d} : desk'[o] = desk[o]
    BY <1>1, <1>2, PutEffect
  <1>4. /\ ~Keyed(d)'
        /\ \A o \in Desks \ {d} : Keyed(o)' <=> Keyed(o)
    BY <1>2, <1>3 DEF Keyed
  <1>5. BoardTypeOK' /\ rev' \in Nat
    BY <1>1, <1>2, <1>3 DEF BInv, BoardTypeOK, DeskType, DeskStep
  <1>6. SettledIsWritten' /\ BoundsAreKept'
    BY <1>1, <1>2, <1>3 DEF BInv, SettledIsWritten, BoundsAreKept, Now, Floor
  <1>7. KeysArePast' /\ NothingReadYet'
    BY <1>1, <1>2, <1>3, <1>4 DEF BInv, KeysArePast, NothingReadYet
  <1>8. Floor' = Floor
    BY <1>1 DEF Floor
  <1>9. Serves(stored.answer, stored.key)
    BY <1>1, <1>2 DEF BInv, KeysAreFresh
  <1>10. DashboardIsRecent'
    <2>1. Meets(r.answer, r.since)
      BY <1>1, <1>2, <1>9 DEF Serves
    <2>2. QED
      BY <1>3, <2>1 DEF BInv, DashboardIsRecent, Meets
  <1>11. ASSUME NEW answer, NEW key, Serves(answer, key)
         PROVE  /\ key = version' => Meets(answer, Floor')
                /\ \A o \in Desks : Keyed(o)' /\ desk'[o].key = key => Meets(answer, desk'[o].since)
    BY <1>1, <1>3, <1>4, <1>8, <1>11 DEF Serves
  <1>12. \A e \in entries' : Serves(e.answer, e.key)'
    <2>1. \A e \in entries' : Serves(e.answer, e.key)
      BY <1>1, <1>9 DEF BInv, KeysAreFresh
    <2>2. QED
      BY <1>11, <2>1 DEF Serves, Meets
  <1>13. \A o \in Desks : Keyed(o)' => Serves(desk[o].answer, desk[o].key)'
    <2>1. ASSUME NEW o \in Desks, Keyed(o)' PROVE Serves(desk[o].answer, desk[o].key)'
      <3>1. Serves(desk[o].answer, desk[o].key) /\ desk'[o] = desk[o]
        BY <1>3, <1>4, <2>1 DEF BInv, KeysAreFresh
      <3>2. QED
        BY <1>11, <3>1 DEF Serves, Meets
    <2>2. QED
      BY <2>1
  <1>14. QED
    BY <1>5, <1>6, <1>7, <1>10, <1>12, <1>13 DEF BInv, KeysAreFresh

\* An error, an entry that expires, a handler that dies: less to satisfy.
LEMMA LossesKeepBInv ==
  ASSUME BInv,
         \/ \E d \in Desks : GoToLogin(d)
         \/ \E e \in entries : Expire(e)
         \/ \E w \in due : Forget(w)
  PROVE  BInv'
  <1>1. ASSUME NEW d \in Desks, GoToLogin(d) PROVE BInv'
    <2>1. Nothing \in Answer /\ [p \in Parts |-> 0] \in [Parts -> Nat]
      BY DEF Nothing, Answer
    <2>2. Shut \in DeskType /\ Shut.step = "shut" /\ Shut.since = [p \in Parts |-> 0]
      BY <2>1 DEF Shut, Desk, DeskType, DeskStep
    <2>3. Put(d, Shut) /\ UNCHANGED <<version, entries, settled, writes, due, rev>>
      BY <1>1 DEF GoToLogin, OnlyDesks, profVars, rowVars
    <2> HIDE DEF Shut
    <2>4. \A p \in Parts : Shut.since[p] <= Floor[p]
      BY <2>2, FloorType
    <2>5. QED
      BY <2>2, <2>3, <2>4, DeskKeepsBInv
  <1>2. ASSUME NEW e \in entries, Expire(e) PROVE BInv'
    <2>1. entries' = entries \ {e} /\ UNCHANGED <<version, settled, writes, due, rev, desk>>
      BY <1>2 DEF Expire, OnlyDesks, profVars, rowVars
    <2>2. BoardTypeOK' /\ rev' \in Nat /\ SettledIsWritten' /\ BoundsAreKept' /\ KeysArePast' /\ NothingReadYet'
      BY <2>1 DEF BInv, BoardTypeOK, SettledIsWritten, Now, BoundsAreKept, Floor, KeysArePast, Keyed,
                  NothingReadYet
    <2>3. KeysAreFresh' /\ DashboardIsRecent'
      BY <2>1 DEF BInv, KeysAreFresh, Serves, Meets, Keyed, Floor, DashboardIsRecent
    <2>4. QED
      BY <2>2, <2>3 DEF BInv
  <1>3. ASSUME NEW w \in due, Forget(w) PROVE BInv'
    <2>1. due' \subseteq due /\ UNCHANGED <<version, entries, settled, desk, writes, rev>>
      BY <1>3 DEF Forget, profVars, rowVars
    <2>2. /\ rev \in Nat /\ writes \in [{"projects", "inbox"} -> Nat]
          /\ due \subseteq [part : Parts, write : Nat]
      BY DEF BInv, BoardTypeOK
    <2>3. /\ rev' \in Nat /\ rev' >= rev /\ writes' \in [{"projects", "inbox"} -> Nat]
          /\ \A p \in {"projects", "inbox"} : writes'[p] >= writes[p]
          /\ due' \subseteq [part : Parts, write : Nat]
      BY <2>1, <2>2
    <2>4. QED
      BY <2>1, <2>3, WritesKeepBInv
  <1>4. QED
    BY <1>1, <1>2, <1>3

\* The project, the inbox and the settings: each write is newer than all there is.
LEMMA SubjectsKeepBInv ==
  ASSUME BInv,
         ProjectChanges \/ ProjectIsViewed \/ CallsGoOn \/ InboxChanges \/ ProfileIsSaved \/ SettingsGoOn
  PROVE  BInv'
  <1>1. /\ rev \in Nat /\ writes \in [{"projects", "inbox"} -> Nat]
        /\ due \subseteq [part : Parts, write : Nat]
    BY DEF BInv, BoardTypeOK
  <1>2. UNCHANGED <<version, entries, settled, desk>>
    BY DEF ProjectChanges, ProjectIsViewed, CallsGoOn, InboxChanges, ProfileIsSaved, SettingsGoOn, boardVars
  <1>3. ASSUME NEW p \in {"projects", "inbox"}, Writes(p), UNCHANGED rev,
               Owes(p, writes[p] + 1) \/ UNCHANGED due
        PROVE  BInv'
    <2>1. /\ writes' \in [{"projects", "inbox"} -> Nat]
          /\ \A q \in {"projects", "inbox"} : writes'[q] >= writes[q]
          /\ Watched => writes'[p] = writes[p] + 1
      BY <1>1, <1>3 DEF Writes
    <2>2. \A w \in due' : w \in due \/ (Watched /\ w = [part |-> p, write |-> writes[p] + 1])
      BY <1>3 DEF Owes
    <2>3. p \in Parts /\ Now(p)' = writes'[p] /\ writes[p] + 1 \in Nat
      BY <1>1 DEF Parts, Now
    <2>4. due' \subseteq [part : Parts, write : Nat]
      BY <1>1, <2>2, <2>3
    <2>5. \A w \in due' : w \in due \/ w.write <= Now(w.part)'
      <3>1. ASSUME NEW w \in due', w \notin due PROVE w.write <= Now(w.part)'
        <4>1. Watched /\ w.part = p /\ w.write = writes[p] + 1
          BY <2>2, <3>1
        <4>2. Now(w.part)' = writes[p] + 1
          BY <2>1, <2>3, <4>1
        <4>3. QED
          BY <2>3, <4>1, <4>2
      <3>2. QED
        BY <3>1
    <2>6. rev' \in Nat /\ rev' >= rev
      BY <1>1, <1>3
    <2>7. QED
      BY <1>2, <2>1, <2>4, <2>5, <2>6, WritesKeepBInv
  <1>4. ASSUME rev' \in {rev, rev + 1}, UNCHANGED writes,
               \A w \in due' : w \in due \/ (w = [part |-> "profile", write |-> rev + 1] /\ rev' = rev + 1)
        PROVE  BInv'
    <2>1. /\ rev' \in Nat /\ rev' >= rev /\ writes' \in [{"projects", "inbox"} -> Nat]
          /\ \A q \in {"projects", "inbox"} : writes'[q] >= writes[q]
      BY <1>1, <1>4
    <2>2. "profile" \in Parts /\ Now("profile")' = rev' /\ rev + 1 \in Nat
      BY <1>1 DEF Parts, Now
    <2>3. due' \subseteq [part : Parts, write : Nat]
      BY <1>1, <1>4, <2>2
    <2>4. \A w \in due' : w \in due \/ w.write <= Now(w.part)'
      <3>1. ASSUME NEW w \in due', w \notin due PROVE w.write <= Now(w.part)'
        <4>1. w.part = "profile" /\ w.write = rev + 1 /\ rev' = rev + 1
          BY <1>4, <3>1
        <4>2. QED
          BY <2>2, <4>1
      <3>2. QED
        BY <3>1
    <2>5. QED
      BY <1>2, <2>1, <2>3, <2>4, WritesKeepBInv
  <1>5. CASE ProjectChanges
    BY <1>3, <1>5 DEF ProjectChanges, profVars, rowVars
  <1>6. CASE ProjectIsViewed
    BY <1>3, <1>6 DEF ProjectIsViewed, profVars, rowVars
  <1>7. CASE InboxChanges
    BY <1>3, <1>7 DEF InboxChanges, profVars, rowVars
  <1>8. CASE CallsGoOn
    BY <1>4, <1>8 DEF CallsGoOn, profVars, rowVars, boardVars
  <1>9. CASE ProfileIsSaved
    <2>1. UNCHANGED writes /\ rev' = rev + 1 /\ Owes("profile", rev + 1)
      BY <1>9 DEF ProfileIsSaved, WriteProfile
    <2>2. QED
      BY <1>4, <2>1 DEF Owes
  <1>10. CASE SettingsGoOn
    <2>1. UNCHANGED <<writes, due>>
      BY <1>10 DEF SettingsGoOn
    <2>2. ASSUME NEW t \in Tabs,
                 \/ OpenSettings(t) \/ Submit(t) \/ ConnectGithub(t) \/ VerifyGithub(t)
                 \/ \E e \in Edits : Edit(t, e[1], e[2])
                 \/ ReadMe(t) \/ ShowMe(t) \/ ComeBack(t)
                 \/ ReadUrl(t) \/ SaveFails(t) \/ TakeSave(t)
                 \/ ReadIdentity(t) \/ WriteVerified(t) \/ CheckFails(t) \/ TakeCheck(t)
          PROVE  rev' \in {rev, rev + 1}
      BY <2>2 DEF OpenSettings, Submit, ConnectGithub, VerifyGithub, Edit, ReadMe, ShowMe, ComeBack,
                  ReadUrl, SaveFails, TakeSave, ReadIdentity, WriteVerified, CheckFails, TakeCheck, rowVars
    <2>3. rev' \in {rev, rev + 1}
      BY <1>10, <2>2 DEF SettingsGoOn
    <2>4. QED
      BY <1>4, <2>1, <2>3
  <1>11. QED
    BY <1>5, <1>6, <1>7, <1>8, <1>9, <1>10

LEMMA BoardNextKeepsBInv ==
  ASSUME BInv, [BoardNext]_allVars PROVE BInv'
  <1>1. CASE UNCHANGED allVars
    <2>1. UNCHANGED <<version, entries, settled, desk, writes, due, rev>>
      BY <1>1 DEF allVars, profVars, rowVars, boardVars
    <2>2. QED
      BY <2>1 DEF BInv, BoardTypeOK, SettledIsWritten, Now, BoundsAreKept, Floor, KeysArePast, Keyed,
                  NothingReadYet, KeysAreFresh, Serves, Meets, DashboardIsRecent
  <1>2. CASE ProjectChanges \/ ProjectIsViewed \/ CallsGoOn \/ InboxChanges \/ ProfileIsSaved \/ SettingsGoOn
    BY <1>2, SubjectsKeepBInv
  <1>3. ASSUME NEW w \in due, Invalidate(w) \/ Forget(w) PROVE BInv'
    BY <1>3, InvalidateKeepsBInv, LossesKeepBInv
  <1>4. ASSUME NEW d \in Desks,
               \/ AskDashboard(d) \/ Compose(d) \/ Hit(d) \/ Miss(d) \/ ReadProfile(d)
               \/ \E p \in Parts : ReadPart(d, p)
               \/ Store(d) \/ GoToLogin(d)
        PROVE  BInv'
    BY <1>4, AskKeepsBInv, ComposeKeepsBInv, HitKeepsBInv, QueriesKeepBInv, StoreKeepsBInv, LossesKeepBInv
  <1>5. ASSUME NEW e \in entries, Expire(e) PROVE BInv'
    BY <1>5, LossesKeepBInv
  <1>6. QED
    BY <1>1, <1>2, <1>3, <1>4, <1>5 DEF BoardNext

\* BInv is an invariant of the dashboard and all that it is about.
THEOREM BInvHolds ==
  BoardSpec => []BInv
  <1>1. BoardInit => BInv
    BY BoardInitEstablishesBInv
  <1>2. BInv /\ [BoardNext]_allVars => BInv'
    BY BoardNextKeepsBInv
  <1>3. QED
    BY <1>1, <1>2, PTL DEF BoardSpec

\* No part of a dashboard is older than what had been written and invalidated when
\* it was asked for, whatever is written, cached, found and stored meanwhile.
THEOREM DashboardsAreRecent ==
  BoardSpec => []BoardInv
  <1>1. BInv => BoardInv
    BY DEF BInv, BoardInv
  <1>2. QED
    BY <1>1, BInvHolds, PTL

-----------------------------------------------------------------------------
\* Beside settings and dashboard the project behaves as Engagement says, so that
\* what is proved of it there holds here.
THEOREM BoardKeepsEngagement ==
  BoardSpec => Spec
  <1>1. BoardInit => Init
    BY DEF BoardInit
  <1>2. [BoardNext]_allVars => [Next]_vars
    <2>1. SUFFICES ASSUME [BoardNext]_allVars PROVE [Next]_vars
      OBVIOUS
    <2>2. CASE ProjectChanges
      BY <2>2 DEF ProjectChanges, Next
    <2>3. CASE ProjectIsViewed
      BY <2>3 DEF ProjectIsViewed, Next
    <2>4. CASE CallsGoOn
      BY <2>4 DEF CallsGoOn, Next
    <2>5. CASE InboxChanges \/ ProfileIsSaved \/ SettingsGoOn
      BY <2>5 DEF InboxChanges, ProfileIsSaved, SettingsGoOn
    <2>6. ASSUME NEW w \in due, Invalidate(w) \/ Forget(w) PROVE UNCHANGED vars
      BY <2>6 DEF Invalidate, Forget
    <2>7. ASSUME NEW d \in Desks,
                 \/ AskDashboard(d) \/ Compose(d) \/ Hit(d) \/ Miss(d) \/ ReadProfile(d)
                 \/ \E p \in Parts : ReadPart(d, p)
                 \/ Store(d) \/ GoToLogin(d)
          PROVE  UNCHANGED vars
      BY <2>7 DEF AskDashboard, Compose, Hit, Miss, ReadProfile, ReadPart, Store, GoToLogin, OnlyDesks
    <2>8. ASSUME NEW e \in entries, Expire(e) PROVE UNCHANGED vars
      BY <2>8 DEF Expire, OnlyDesks
    <2>9. CASE UNCHANGED allVars
      BY <2>9 DEF allVars
    <2>10. QED
      BY <2>1, <2>2, <2>3, <2>4, <2>5, <2>6, <2>7, <2>8, <2>9 DEF BoardNext
  <1>3. QED
    BY <1>1, <1>2, PTL DEF BoardSpec, Spec

\* While no user toggles twice at once, the likes a dashboard counts are the rows.
THEOREM DashboardCountsLikes ==
  BoardSpec => []LikesMatchRows
  <1>1. QED
    BY BoardKeepsEngagement, LikeCountIsTheLikes, PTL

\* Nor does the dashboard touch what users are told and what is scored.
THEOREM DashboardShowsTheTruth ==
  BoardSpec => []EngagementInv
  <1>1. QED
    BY BoardKeepsEngagement, ToldAndScoredTruly, PTL

\* Nor any rank.
THEOREM DashboardCostsNoRank ==
  BoardSpec => EngagementNeverCostsRank
  <1>1. QED
    BY BoardKeepsEngagement, EngagementCostsNoRank, PTL

-----------------------------------------------------------------------------
(* The settings *)

\* A tab that does not move: while the row is left alone all that holds of it goes
\* on holding, and a write leaves behind whatever was dated before it.
LEMMA OtherTabsHold ==
  ASSUME UNCHANGED role, rev \in Nat, UNCHANGED rowVars \/ rev' = rev + 1, NEW t \in Tabs,
         page'[t] = page[t], save'[t] = save[t], check'[t] = check[t],
         TabHolds(page[t], save[t], check[t])
  PROVE  TabHolds(page[t], save[t], check[t])'
  <1> DEFINE p == page[t]
             s == save[t]
             c == check[t]
  <1>1. /\ p.seen \in Nat /\ p.seen <= rev /\ s.seen \in Nat /\ s.seen <= rev
        /\ c.seen \in Nat /\ c.seen <= rev
    BY DEF TabHolds, HaveTheirParts
  <1>2. \/ UNCHANGED <<role, user, verified, rev, crossed>>
        \/ p.seen # rev' /\ s.seen # rev' /\ c.seen # rev'
    BY <1>1 DEF rowVars
  <1>3. HaveTheirParts(page[t], save[t], check[t])'
    <2>1. p.seen <= rev' /\ s.seen <= rev' /\ c.seen <= rev'
      BY <1>1 DEF rowVars
    <2>2. Fillable(p.form)' /\ Fillable(s.body)'
      BY DEF TabHolds, HaveTheirParts, Fillable, Texts, Lists
    <2>3. QED
      BY <2>1, <2>2 DEF TabHolds, HaveTheirParts
  <1>4. SavedIsStored(page[t], save[t])'
    <2>1. UNCHANGED <<role, user, verified, rev, crossed>> =>
            (Stored(p.form)' <=> Stored(p.form)) /\ (Stored(s.body)' <=> Stored(s.body))
      BY DEF Stored, Fill, Texts, Lists
    <2>2. QED
      BY <1>2, <2>1 DEF TabHolds, SavedIsStored
  <1>5. SomebodyWaits(page[t], save[t], check[t])' /\ DecidedOnTheRow(save[t])'
    BY <1>2 DEF TabHolds, SomebodyWaits, DecidedOnTheRow
  <1>6. BadgeIsTrue(page[t], save[t], check[t])'
    BY <1>2 DEF TabHolds, BadgeIsTrue, Kept
  <1>7. QED
    BY <1>3, <1>4, <1>5, <1>6 DEF TabHolds

\* One tab moves; left to show is what holds of it, and of the row if it was
\* written.
LEMMA TabKeepsProfInv ==
  ASSUME ProfInv, NEW t \in Tabs, UNCHANGED role, UNCHANGED rowVars \/ rev' = rev + 1,
         page' = [o \in Tabs |-> page'[o]], save' = [o \in Tabs |-> save'[o]],
         check' = [o \in Tabs |-> check'[o]],
         \A o \in Tabs \ {t} : page'[o] = page[o] /\ save'[o] = save[o] /\ check'[o] = check[o],
         RowHolds', TabHolds(page[t], save[t], check[t])'
  PROVE  ProfInv'
  <1>1. ASSUME NEW o \in Tabs PROVE TabHolds(page[o], save[o], check[o])'
    BY OtherTabsHold DEF ProfInv, RowHolds
  <1>2. QED
    BY <1>1 DEF ProfInv

\* What a page is filled with, from the row or from nothing, it can hold.
LEMMA FillsAreFillable ==
  ASSUME RowHolds
  PROVE  Fillable(Fill(user)) /\ Fillable(Empty)
  <1>1. DOMAIN Fill(user) = Texts \cup Lists /\ DOMAIN Empty = Texts \cup Lists
    BY DEF Fill, Empty
  <1>2. role = "developer" =>
          /\ Fill(user).location \in OfferedLocations /\ Fill(user).skills \subseteq OfferedSkills
          /\ Empty.location = None /\ Empty.skills = {}
    BY DEF Fill, Empty, Texts, Lists, OfferedLocations, OfferedSkills
  <1>3. QED
    BY <1>1, <1>2 DEF Fillable

\* An action that leaves the row alone leaves it as good as it was.
LEMMA SameRowHolds ==
  ASSUME RowHolds, UNCHANGED <<role, rowVars>>, identity' \in Accounts \cup {None}
  PROVE  RowHolds'
  BY DEF RowHolds, rowVars, VerifiedUrlIsTheirs

\* One tab moves and the row does not: left to show is what holds of the page, the
\* save and the check that the tab has now.
LEMMA MoveKeepsProfInv ==
  ASSUME ProfInv, UNCHANGED <<role, rowVars>>, identity' \in Accounts \cup {None},
         NEW t \in Tabs, NEW p, NEW s, NEW c, TabHolds(p, s, c),
         page' = [page EXCEPT ![t] = p], save' = [save EXCEPT ![t] = s], check' = [check EXCEPT ![t] = c]
  PROVE  ProfInv'
  <1>1. /\ page' = [o \in Tabs |-> page'[o]] /\ save' = [o \in Tabs |-> save'[o]]
        /\ check' = [o \in Tabs |-> check'[o]]
        /\ page'[t] = p /\ save'[t] = s /\ check'[t] = c
        /\ \A o \in Tabs \ {t} : page'[o] = page[o] /\ save'[o] = save[o] /\ check'[o] = check[o]
    BY DEF ProfInv
  <1>2. RowHolds'
    BY SameRowHolds DEF ProfInv
  <1>3. UNCHANGED <<role, user, verified, rev, crossed>>
    BY DEF rowVars
  <1>4. TabHolds(page[t], save[t], check[t])'
    <2>1. (Stored(page[t].form)' <=> Stored(p.form)) /\ (Stored(save[t].body)' <=> Stored(s.body))
      <3>1. Fill(user)' = Fill(user)
        BY <1>3 DEF Fill, Texts, Lists
      <3>2. page[t].form' = p.form /\ save[t].body' = s.body
        BY <1>1
      <3>3. QED
        BY <3>1, <3>2 DEF Stored
    <2>2. SavedIsStored(page[t], save[t])'
      BY <1>1, <1>3, <2>1 DEF TabHolds, SavedIsStored
    <2>3. (Fillable(page[t].form)' <=> Fillable(p.form)) /\ (Fillable(save[t].body)' <=> Fillable(s.body))
      BY <1>1, <1>3 DEF Fillable, Texts, Lists
    <2>4. HaveTheirParts(page[t], save[t], check[t])'
      BY <1>1, <1>3, <2>3 DEF TabHolds, HaveTheirParts
    <2>5. SomebodyWaits(page[t], save[t], check[t])' /\ DecidedOnTheRow(save[t])'
      BY <1>1, <1>3 DEF TabHolds, SomebodyWaits, DecidedOnTheRow
    <2>6. BadgeIsTrue(page[t], save[t], check[t])'
      BY <1>1, <1>3 DEF TabHolds, BadgeIsTrue, Kept
    <2>7. QED
      BY <2>2, <2>4, <2>5, <2>6 DEF TabHolds
  <1>5. QED
    BY <1>1, <1>2, <1>4, TabKeepsProfInv

\* What is known of a tab before it moves.
LEMMA TabFacts ==
  ASSUME ProfInv, NEW t \in Tabs
  PROVE  /\ TabHolds(page[t], save[t], check[t]) /\ RowHolds /\ rev \in Nat
         /\ page = [page EXCEPT ![t] = page[t]] /\ save = [save EXCEPT ![t] = save[t]]
         /\ check = [check EXCEPT ![t] = check[t]]
  BY DEF ProfInv, RowHolds

\* A page that is left, or has just come to anything, claims nothing but its badge.
LEMMA NewPageHolds ==
  ASSUME RowHolds, NEW p, NEW s, NEW c, TabHolds(p, s, c), NEW form, Fillable(form), NEW badge,
         NEW at \in {"asked", "away", "answered", "open"}, NEW n \in {0, rev}, NEW r,
         DOMAIN r = {"at", "form", "badge", "told", "dirty", "seen", "unsure", "loaded"},
         r.at = at, r.form = form, r.badge = badge, r.told \in {None, "error"}, r.dirty = FALSE,
         r.seen = n, r.unsure \in BOOLEAN, r.loaded \in BOOLEAN,
         s.step # "none" => s.orphan, c.step = "none",
         at \in {"answered", "open"} => r.unsure \/ (badge = verified /\ n = rev)
  PROVE  TabHolds(r, s, c)
  <1>1. rev \in Nat /\ n \in Nat /\ n <= rev
    BY DEF RowHolds
  <1>2. HaveTheirParts(r, s, c)
    BY <1>1 DEF TabHolds, HaveTheirParts
  <1>3. SomebodyWaits(r, s, c) /\ SavedIsStored(r, s) /\ DecidedOnTheRow(s)
    BY ProfileAssumption DEF TabHolds, SomebodyWaits, SavedIsStored, DecidedOnTheRow
  <1>4. BadgeIsTrue(r, s, c)
    BY <1>2 DEF TabHolds, HaveTheirParts, BadgeIsTrue, Kept
  <1>5. QED
    BY <1>2, <1>3, <1>4 DEF TabHolds

\* A tab that is left or loaded.
LEMMA LoadingKeepsProfInv ==
  ASSUME ProfInv, NEW t \in Tabs,
         \/ OpenSettings(t) \/ ConnectGithub(t) \/ ReadMe(t) \/ ShowMe(t)
  PROVE  ProfInv'
  <1> DEFINE p == page[t]
             s == save[t]
             c == check[t]
  <1>1. /\ TabHolds(p, s, c) /\ RowHolds /\ rev \in Nat
        /\ save = [save EXCEPT ![t] = s] /\ check = [check EXCEPT ![t] = c]
    BY TabFacts
  <1>2. Fillable(Empty) /\ Fillable(Fill(user)) /\ identity \in Accounts \cup {None}
    BY <1>1, FillsAreFillable DEF RowHolds
  <1>3. UNCHANGED <<role, rowVars, identity, check>>
    BY DEF OpenSettings, ConnectGithub, ReadMe, ShowMe, Leave
  <1> HIDE DEF p, s, c
  <1>4. CASE OpenSettings(t) \/ ConnectGithub(t)
    <2>1. PICK at \in {"asked", "away"} : Leave(t, at)
      BY <1>4 DEF OpenSettings, ConnectGithub
    <2> DEFINE q == Page(at, Empty, None, 0)
               z == [s EXCEPT !.orphan = (s.step # "none")]
    <2>2. /\ page' = [page EXCEPT ![t] = q] /\ save' = [save EXCEPT ![t] = z] /\ c.step = "none"
      BY <2>1 DEF Leave, s, c
    <2>3. /\ z.step = s.step /\ z.body = s.body /\ z.changed = s.changed
          /\ z.seen = s.seen /\ z.orphan = (s.step # "none")
          /\ DOMAIN z = {"step", "body", "changed", "seen", "orphan"}
      BY <1>1 DEF TabHolds, HaveTheirParts
    <2>4. /\ DOMAIN q = {"at", "form", "badge", "told", "dirty", "seen", "unsure", "loaded"}
          /\ q.at = at /\ q.form = Empty /\ q.badge = None /\ q.told = None /\ q.dirty = FALSE
          /\ q.seen = 0 /\ q.unsure = FALSE /\ q.loaded = (at = "answered")
      BY DEF Page
    <2> HIDE DEF q, z
    <2>5. TabHolds(p, z, c)
      BY <1>1, <2>2, <2>3 DEF TabHolds, HaveTheirParts, SomebodyWaits, SavedIsStored, DecidedOnTheRow, BadgeIsTrue, Kept
    <2>6. TabHolds(q, z, c)
      BY <1>1, <1>2, <2>2, <2>3, <2>4, <2>5, NewPageHolds
    <2>7. QED
      BY <1>1, <1>2, <1>3, <2>2, <2>6, MoveKeepsProfInv
  <1>5. ASSUME p.at \in {"asked", "answered"} PROVE (s.step # "none" => s.orphan) /\ c.step = "none"
    BY <1>1, <1>5 DEF TabHolds, SomebodyWaits, HaveTheirParts
  <1>6. CASE ReadMe(t)
    <2> DEFINE q == Page("answered", Fill(user), verified, rev)
    <2>1. page' = [page EXCEPT ![t] = q] /\ UNCHANGED save /\ p.at = "asked"
      BY <1>6 DEF ReadMe, p
    <2>2. /\ DOMAIN q = {"at", "form", "badge", "told", "dirty", "seen", "unsure", "loaded"}
          /\ q.at = "answered" /\ q.form = Fill(user) /\ q.badge = verified /\ q.told = None
          /\ q.dirty = FALSE /\ q.seen = rev /\ q.unsure = FALSE /\ q.loaded = TRUE
      BY DEF Page
    <2> HIDE DEF q
    <2>3. TabHolds(q, s, c)
      BY <1>1, <1>2, <1>5, <2>1, <2>2, NewPageHolds
    <2>4. QED
      BY <1>1, <1>2, <1>3, <2>1, <2>3, MoveKeepsProfInv
  <1>7. CASE ShowMe(t) /\ p.at = "answered" /\ page' = [page EXCEPT ![t].at = "open"]
    <2> DEFINE q == [p EXCEPT !.at = "open"]
    <2>1. page' = [page EXCEPT ![t] = q] /\ UNCHANGED save
      BY <1>7 DEF ShowMe, p
    <2>2. /\ DOMAIN q = {"at", "form", "badge", "told", "dirty", "seen", "unsure", "loaded"}
          /\ q.at = "open" /\ q.form = p.form /\ q.badge = p.badge /\ q.told = p.told
          /\ q.dirty = p.dirty /\ q.seen = p.seen /\ q.unsure = p.unsure /\ q.loaded = p.loaded
      BY <1>1 DEF TabHolds, HaveTheirParts
    <2> HIDE DEF q
    <2>3. TabHolds(q, s, c)
      BY <1>1, <1>7, <2>2 DEF TabHolds, HaveTheirParts, SomebodyWaits, SavedIsStored, BadgeIsTrue
    <2>4. QED
      BY <1>1, <1>2, <1>3, <2>1, <2>3, MoveKeepsProfInv
  <1>8. CASE /\ ShowMe(t)
             /\ page' = [page EXCEPT ![t] = [Page("open", Empty, None, 0) EXCEPT !.told = "error",
                                                                               !.unsure = TRUE]]
    <2> DEFINE q == [Page("open", Empty, None, 0) EXCEPT !.told = "error", !.unsure = TRUE]
    <2>1. page' = [page EXCEPT ![t] = q] /\ UNCHANGED save /\ p.at \in {"asked", "answered"}
      BY <1>8 DEF ShowMe, p
    <2>2. /\ DOMAIN q = {"at", "form", "badge", "told", "dirty", "seen", "unsure", "loaded"}
          /\ q.at = "open" /\ q.form = Empty /\ q.badge = None /\ q.told = "error"
          /\ q.dirty = FALSE /\ q.seen = 0 /\ q.unsure = TRUE /\ q.loaded = FALSE
      BY DEF Page
    <2> HIDE DEF q
    <2>3. TabHolds(q, s, c)
      BY <1>1, <1>2, <1>5, <2>1, <2>2, NewPageHolds
    <2>4. QED
      BY <1>1, <1>2, <1>3, <2>1, <2>3, MoveKeepsProfInv
  <1>9. QED
    BY <1>4, <1>6, <1>7, <1>8 DEF ShowMe, p

\* The user comes back from GitHub, and the page is loaded again.
LEMMA ComeBackKeepsProfInv ==
  ASSUME ProfInv, NEW t \in Tabs, ComeBack(t) PROVE ProfInv'
  <1> DEFINE p == page[t]
             s == save[t]
             c == check[t]
             q == [p EXCEPT !.at = "asked"]
  <1>1. /\ TabHolds(p, s, c) /\ RowHolds
        /\ save = [save EXCEPT ![t] = s] /\ check = [check EXCEPT ![t] = c]
    BY TabFacts
  <1>2. UNCHANGED <<role, rowVars, save, check>> /\ page' = [page EXCEPT ![t] = q] /\ p.at = "away"
    BY DEF ComeBack
  <1>3. identity' \in Accounts \cup {None}
    BY <1>1 DEF ComeBack, RowHolds
  <1>4. /\ DOMAIN q = {"at", "form", "badge", "told", "dirty", "seen", "unsure", "loaded"}
        /\ q.at = "asked" /\ q.form = p.form /\ q.badge = p.badge /\ q.told = p.told
        /\ q.dirty = p.dirty /\ q.seen = p.seen /\ q.unsure = p.unsure /\ q.loaded = p.loaded
    BY <1>1 DEF TabHolds, HaveTheirParts
  <1> HIDE DEF p, s, c, q
  <1>5. TabHolds(q, s, c)
    BY <1>1, <1>2, <1>4 DEF TabHolds, HaveTheirParts, SomebodyWaits, SavedIsStored, BadgeIsTrue
  <1>6. QED
    BY <1>1, <1>2, <1>3, <1>5, MoveKeepsProfInv

\* An edited form can still be held, and no longer claims to be saved.
LEMMA EditKeepsProfInv ==
  ASSUME ProfInv, NEW t \in Tabs, NEW f, NEW v, Edit(t, f, v) PROVE ProfInv'
  <1> DEFINE p == page[t]
             s == save[t]
             c == check[t]
             form == [p.form EXCEPT ![f] = v]
             q == [p EXCEPT !.form = form, !.dirty = TRUE]
  <1>1. /\ TabHolds(p, s, c) /\ RowHolds
        /\ save = [save EXCEPT ![t] = s] /\ check = [check EXCEPT ![t] = c]
        /\ identity \in Accounts \cup {None}
    BY TabFacts DEF RowHolds
  <1>2. /\ UNCHANGED <<role, rowVars, identity, save, check>>
        /\ page' = [page EXCEPT ![t] = q] /\ Offers(f, v)
    BY DEF Edit
  <1>3. Fillable(form)
    BY <1>1, <1>2 DEF TabHolds, HaveTheirParts, Fillable, Offers
  <1>4. /\ DOMAIN q = {"at", "form", "badge", "told", "dirty", "seen", "unsure", "loaded"}
        /\ q.at = p.at /\ q.form = form /\ q.badge = p.badge /\ q.told = p.told
        /\ q.dirty = TRUE /\ q.seen = p.seen /\ q.unsure = p.unsure /\ q.loaded = p.loaded
    BY <1>1 DEF TabHolds, HaveTheirParts
  <1> HIDE DEF p, s, c, q, form
  <1>5. TabHolds(q, s, c)
    BY <1>1, <1>3, <1>4 DEF TabHolds, HaveTheirParts, SomebodyWaits, SavedIsStored, BadgeIsTrue
  <1>6. QED
    BY <1>1, <1>2, <1>5, MoveKeepsProfInv

\* The page says something else than that it saved.
LEMMA ToldKeepsProfInv ==
  ASSUME ProfInv, NEW t \in Tabs, NEW c, TabHolds(page[t], save[t], c), NEW what \in {None, "error"},
         UNCHANGED <<role, rowVars, identity, save>>, check' = [check EXCEPT ![t] = c],
         page' = [page EXCEPT ![t].told = what]
  PROVE  ProfInv'
  <1> DEFINE p == page[t]
             s == save[t]
             q == [p EXCEPT !.told = what]
  <1>1. TabHolds(p, s, c) /\ save = [save EXCEPT ![t] = s] /\ identity \in Accounts \cup {None}
    BY TabFacts DEF RowHolds
  <1>2. page' = [page EXCEPT ![t] = q]
    OBVIOUS
  <1>3. /\ DOMAIN q = {"at", "form", "badge", "told", "dirty", "seen", "unsure", "loaded"}
        /\ q.at = p.at /\ q.form = p.form /\ q.badge = p.badge /\ q.told = what
        /\ q.dirty = p.dirty /\ q.seen = p.seen /\ q.unsure = p.unsure /\ q.loaded = p.loaded
    BY <1>1 DEF TabHolds, HaveTheirParts
  <1> HIDE DEF p, s, q
  <1>4. TabHolds(q, s, c)
    BY <1>1, <1>3, ProfileAssumption DEF TabHolds, HaveTheirParts, SomebodyWaits, SavedIsStored, BadgeIsTrue
  <1>5. QED
    BY <1>1, <1>2, <1>4, MoveKeepsProfInv

\* A form is sent: from here on it is what the save carries, until it is edited.
LEMMA SubmitKeepsProfInv ==
  ASSUME ProfInv, NEW t \in Tabs, Submit(t) PROVE ProfInv'
  <1> DEFINE p == page[t]
             s == save[t]
             c == check[t]
             q == [p EXCEPT !.told = None, !.dirty = FALSE]
             z == [NoSave EXCEPT !.step = "sent", !.body = p.form]
  <1>1. /\ TabHolds(p, s, c) /\ RowHolds /\ rev \in Nat
        /\ save = [save EXCEPT ![t] = s] /\ check = [check EXCEPT ![t] = c]
        /\ identity \in Accounts \cup {None}
    BY TabFacts DEF RowHolds
  <1>2. UNCHANGED <<role, rowVars, identity, check>> /\ p.at = "open" /\ s.step = "none"
    BY DEF Submit, Open
  <1>3. CASE Told(t, "error") /\ UNCHANGED save
    BY <1>1, <1>2, <1>3, ToldKeepsProfInv DEF Told
  <1>4. CASE /\ page' = [page EXCEPT ![t].told = None, ![t].dirty = FALSE]
             /\ save' = [save EXCEPT ![t] = [NoSave EXCEPT !.step = "sent", !.body = page[t].form]]
    <2>1. page' = [page EXCEPT ![t] = q] /\ save' = [save EXCEPT ![t] = z]
      BY <1>4
    <2>2. /\ DOMAIN q = {"at", "form", "badge", "told", "dirty", "seen", "unsure", "loaded"}
          /\ q.at = p.at /\ q.form = p.form /\ q.badge = p.badge /\ q.told = None
          /\ q.dirty \in BOOLEAN /\ ~q.dirty /\ q.seen = p.seen /\ q.unsure = p.unsure /\ q.loaded = p.loaded
      BY <1>1 DEF TabHolds, HaveTheirParts
    <2>3. /\ z.step = "sent" /\ z.body = p.form /\ z.seen = 0
          /\ z.changed \in BOOLEAN /\ z.orphan \in BOOLEAN /\ ~z.changed /\ ~z.orphan
          /\ DOMAIN z = {"step", "body", "changed", "seen", "orphan"}
      BY DEF NoSave
    <2> HIDE DEF p, s, c, q, z
    <2>4. HaveTheirParts(q, z, c)
      <3>1. z.seen \in Nat /\ z.seen <= rev
        BY <1>1, <2>3
      <3>2. QED
        BY <1>1, <2>2, <2>3, <3>1 DEF TabHolds, HaveTheirParts
    <2>5. SomebodyWaits(q, z, c) /\ DecidedOnTheRow(z)
      BY <1>1, <1>2, <2>2, <2>3 DEF TabHolds, SomebodyWaits, DecidedOnTheRow
    <2>6. SavedIsStored(q, z)
      BY <2>2, <2>3, ProfileAssumption DEF SavedIsStored
    <2>7. BadgeIsTrue(q, z, c)
      BY <1>1, <2>2, <2>3 DEF TabHolds, BadgeIsTrue, Kept
    <2>8. TabHolds(q, z, c)
      BY <2>4, <2>5, <2>6, <2>7 DEF TabHolds
    <2>9. QED
      BY <1>1, <1>2, <2>1, <2>8, MoveKeepsProfInv
  <1>5. QED
    BY <1>3, <1>4 DEF Submit

\* updateMe decides on the URL there is; or the call fails.
LEMMA SaveMovesKeepProfInv ==
  ASSUME ProfInv, NEW t \in Tabs, ReadUrl(t) \/ SaveFails(t) PROVE ProfInv'
  <1> DEFINE p == page[t]
             s == save[t]
             c == check[t]
             differs == s.body.github # None /\ s.body.github # user.github
  <1>1. /\ TabHolds(p, s, c) /\ RowHolds /\ rev \in Nat
        /\ page = [page EXCEPT ![t] = p] /\ check = [check EXCEPT ![t] = c]
        /\ identity \in Accounts \cup {None}
    BY TabFacts DEF RowHolds
  <1>2. UNCHANGED <<role, rowVars, identity, page, check>> /\ s.step # "none"
    BY DEF ReadUrl, SaveFails
  <1>3. CASE ReadUrl(t)
    <2> DEFINE z == [s EXCEPT !.step = "checked", !.seen = rev, !.changed = differs]
    <2>1. save' = [save EXCEPT ![t] = z]
      BY <1>3 DEF ReadUrl
    <2>2. differs \in BOOLEAN /\ (differs <=> s.body.github # None /\ s.body.github # user.github)
      OBVIOUS
    <2> HIDE DEF differs
    <2>3. /\ z.step = "checked" /\ z.body = s.body /\ z.changed = differs /\ z.seen = rev
          /\ z.orphan = s.orphan
          /\ DOMAIN z = {"step", "body", "changed", "seen", "orphan"}
      BY <1>1 DEF TabHolds, HaveTheirParts
    <2> HIDE DEF p, s, c, z
    <2>4. HaveTheirParts(p, z, c)
      BY <1>1, <2>2, <2>3 DEF TabHolds, HaveTheirParts
    <2>5. SomebodyWaits(p, z, c) /\ SavedIsStored(p, z) /\ BadgeIsTrue(p, z, c)
      BY <1>1, <1>2, <2>3 DEF TabHolds, SomebodyWaits, SavedIsStored, BadgeIsTrue, Kept
    <2>6. DecidedOnTheRow(z)
      BY <2>2, <2>3 DEF DecidedOnTheRow
    <2>7. TabHolds(p, z, c)
      BY <2>4, <2>5, <2>6 DEF TabHolds
    <2>8. QED
      BY <1>1, <1>2, <2>1, <2>7, MoveKeepsProfInv
  <1>4. CASE SaveFails(t)
    <2> DEFINE z == [s EXCEPT !.step = "failed"]
    <2>1. save' = [save EXCEPT ![t] = z]
      BY <1>4 DEF SaveFails
    <2>2. /\ z.step = "failed" /\ z.body = s.body /\ z.changed = s.changed /\ z.seen = s.seen
          /\ z.orphan = s.orphan
          /\ DOMAIN z = {"step", "body", "changed", "seen", "orphan"}
      BY <1>1 DEF TabHolds, HaveTheirParts
    <2> HIDE DEF p, s, c, z
    <2>3. TabHolds(p, z, c)
      BY <1>1, <1>2, <2>2 DEF TabHolds, HaveTheirParts, SomebodyWaits, SavedIsStored, DecidedOnTheRow,
                              BadgeIsTrue, Kept
    <2>4. QED
      BY <1>1, <1>2, <2>1, <2>3, MoveKeepsProfInv
  <1>5. QED
    BY <1>3, <1>4

\* The page takes the answer of its save: what was written is the form, if it was
\* not edited, and the badge is the row's if that was the next write and no other.
LEMMA TakeSaveKeepsProfInv ==
  ASSUME ProfInv, NEW t \in Tabs, TakeSave(t) PROVE ProfInv'
  <1> DEFINE p == page[t]
             s == save[t]
             c == check[t]
             done == s.step = "done"
             told == IF done THEN "saved" ELSE "error"
             seen == IF done THEN s.seen ELSE p.seen
             unsure0 == p.unsure \/ s.changed \/ s.seen # p.seen + 1
             q == [p EXCEPT !.told = told, !.seen = seen, !.unsure = unsure0]
  <1>1. /\ TabHolds(p, s, c) /\ RowHolds /\ rev \in Nat
        /\ page = [page EXCEPT ![t] = p] /\ check = [check EXCEPT ![t] = c]
        /\ identity \in Accounts \cup {None}
    BY TabFacts DEF RowHolds
  <1>2. /\ UNCHANGED <<role, rowVars, identity, check>> /\ s.step \in {"done", "failed"}
        /\ save' = [save EXCEPT ![t] = NoSave]
    BY DEF TakeSave
  <1>3. /\ NoSave.step = "none" /\ NoSave.body = Empty /\ NoSave.seen = 0
        /\ NoSave.changed \in BOOLEAN /\ NoSave.orphan \in BOOLEAN
        /\ DOMAIN NoSave = {"step", "body", "changed", "seen", "orphan"}
    BY DEF NoSave
  <1>4. Fillable(Empty)
    BY <1>1, FillsAreFillable
  <1> HIDE DEF NoSave
  <1>5. TabHolds(p, NoSave, c)
    <2>1. NoSave.seen \in Nat /\ NoSave.seen <= rev
      BY <1>1, <1>3
    <2> HIDE DEF p, s, c
    <2>2. HaveTheirParts(p, NoSave, c)
      BY <1>1, <1>3, <1>4, <2>1 DEF TabHolds, HaveTheirParts
    <2>3. /\ SomebodyWaits(p, NoSave, c) /\ SavedIsStored(p, NoSave) /\ DecidedOnTheRow(NoSave)
          /\ BadgeIsTrue(p, NoSave, c)
      BY <1>1, <1>3 DEF TabHolds, SomebodyWaits, SavedIsStored, DecidedOnTheRow, BadgeIsTrue, Kept
    <2>4. QED
      BY <2>2, <2>3 DEF TabHolds
  <1>6. CASE s.orphan
    <2>1. page' = page
      BY <1>6 DEF TakeSave
    <2>2. QED
      BY <1>1, <1>2, <1>5, <2>1, MoveKeepsProfInv
  <1>7. CASE ~s.orphan
    <2>1. page' = [page EXCEPT ![t] = q]
      BY <1>7 DEF TakeSave
    <2>2. /\ told = IF done THEN "saved" ELSE "error"
          /\ seen = IF done THEN s.seen ELSE p.seen
          /\ unsure0 \in BOOLEAN /\ (~unsure0 => ~p.unsure /\ ~s.changed /\ s.seen = p.seen + 1)
      OBVIOUS
    <2> HIDE DEF told, seen, unsure0
    <2>3. /\ DOMAIN q = {"at", "form", "badge", "told", "dirty", "seen", "unsure", "loaded"}
          /\ q.at = p.at /\ q.form = p.form /\ q.badge = p.badge /\ q.told = told
          /\ q.dirty = p.dirty /\ q.seen = seen /\ q.unsure = unsure0 /\ q.loaded = p.loaded
      BY <1>1 DEF TabHolds, HaveTheirParts
    <2> HIDE DEF p, s, c, q
    <2>4. HaveTheirParts(q, NoSave, c)
      BY <1>5, <1>1, <2>2, <2>3 DEF TabHolds, HaveTheirParts
    <2>5. SomebodyWaits(q, NoSave, c) /\ DecidedOnTheRow(NoSave)
      BY <1>1, <1>3, <2>3 DEF TabHolds, SomebodyWaits, DecidedOnTheRow
    <2>6. SavedIsStored(q, NoSave)
      BY <1>1, <1>2, <1>3, <1>7, <2>2, <2>3 DEF TabHolds, SavedIsStored
    <2>7. BadgeIsTrue(q, NoSave, c)
      BY <1>1, <1>2, <1>3, <1>7, <2>2, <2>3 DEF TabHolds, BadgeIsTrue, Kept
    <2>8. TabHolds(q, NoSave, c)
      BY <2>4, <2>5, <2>6, <2>7 DEF TabHolds
    <2>9. QED
      BY <1>1, <1>2, <2>1, <2>8, MoveKeepsProfInv
  <1>8. QED
    BY <1>6, <1>7

\* A check begins, learns which account is linked, or fails.
LEMMA CheckMovesKeepProfInv ==
  ASSUME ProfInv, NEW t \in Tabs, VerifyGithub(t) \/ ReadIdentity(t) \/ CheckFails(t) PROVE ProfInv'
  <1> DEFINE p == page[t]
             s == save[t]
             c == check[t]
  <1>1. /\ TabHolds(p, s, c) /\ RowHolds /\ rev \in Nat
        /\ page = [page EXCEPT ![t] = p] /\ save = [save EXCEPT ![t] = s]
        /\ identity \in Accounts \cup {None}
    BY TabFacts DEF RowHolds
  <1>2. UNCHANGED <<role, rowVars, identity, save>>
    BY DEF VerifyGithub, ReadIdentity, CheckFails
  <1>3. ASSUME NEW step \in {"sent", "asked", "failed"}, NEW url, NEW n \in {0, c.seen}, NEW k,
               DOMAIN k = {"step", "url", "seen"}, k.step = step, k.url = url, k.seen = n,
               step = "asked" => url \in Accounts, p.at = "open"
        PROVE  TabHolds(p, s, k)
    BY <1>1, <1>3 DEF TabHolds, HaveTheirParts, SomebodyWaits, BadgeIsTrue
  <1>4. c.step # "none" => p.at = "open"
    BY <1>1 DEF TabHolds, SomebodyWaits
  <1>5. CASE VerifyGithub(t)
    <2> DEFINE k == [NoCheck EXCEPT !.step = "sent"]
    <2>1. /\ DOMAIN k = {"step", "url", "seen"} /\ k.step = "sent" /\ k.url = None /\ k.seen = 0
      BY DEF NoCheck
    <2>2. /\ check' = [check EXCEPT ![t] = k] /\ p.at = "open"
          /\ page' = [page EXCEPT ![t].told = None]
      BY <1>5 DEF VerifyGithub, Told, Open
    <2> HIDE DEF k, p, s, c
    <2>3. TabHolds(p, s, k)
      BY <1>3, <2>1, <2>2
    <2>4. QED
      BY <1>2, <2>2, <2>3, ToldKeepsProfInv DEF p, s
  <1>6. CASE ReadIdentity(t)
    <2> DEFINE to == IF identity = None THEN "failed" ELSE "asked"
               k == [c EXCEPT !.step = to, !.url = identity]
    <2>1. /\ DOMAIN k = {"step", "url", "seen"} /\ k.step = to /\ k.url = identity /\ k.seen = c.seen
      BY <1>1 DEF TabHolds, HaveTheirParts
    <2>2. /\ check' = [check EXCEPT ![t] = k] /\ UNCHANGED page /\ c.step # "none"
      BY <1>6 DEF ReadIdentity
    <2>3. to \in {"asked", "failed"} /\ (to = "asked" => identity \in Accounts)
      BY <1>1
    <2> HIDE DEF k, p, s, c, to
    <2>4. TabHolds(p, s, k)
      BY <1>3, <1>4, <2>1, <2>2, <2>3
    <2>5. QED
      BY <1>1, <1>2, <2>2, <2>4, MoveKeepsProfInv
  <1>7. CASE CheckFails(t)
    <2> DEFINE k == [c EXCEPT !.step = "failed"]
    <2>1. /\ DOMAIN k = {"step", "url", "seen"} /\ k.step = "failed" /\ k.url = c.url /\ k.seen = c.seen
      BY <1>1 DEF TabHolds, HaveTheirParts
    <2>2. /\ check' = [check EXCEPT ![t] = k] /\ UNCHANGED page /\ c.step # "none"
      BY <1>7 DEF CheckFails
    <2> HIDE DEF k, p, s, c
    <2>3. TabHolds(p, s, k)
      BY <1>3, <1>4, <2>1, <2>2
    <2>4. QED
      BY <1>1, <1>2, <2>2, <2>3, MoveKeepsProfInv
  <1>8. QED
    BY <1>5, <1>6, <1>7

\* The page takes the answer of its check, and shows the URL that was verified.
LEMMA TakeCheckKeepsProfInv ==
  ASSUME ProfInv, NEW t \in Tabs, TakeCheck(t) PROVE ProfInv'
  <1> DEFINE p == page[t]
             s == save[t]
             c == check[t]
             badge == IF p.loaded THEN c.url ELSE p.badge
             dirty == p.dirty \/ s.step # "none"
             form == [p.form EXCEPT !.github = c.url]
             q == [p EXCEPT !.told = "verified", !.seen = c.seen, !.form.github = c.url, !.badge = badge,
                            !.unsure = ~p.loaded, !.dirty = @ \/ s.step # "none"]
  <1>1. /\ TabHolds(p, s, c) /\ RowHolds /\ rev \in Nat
        /\ page = [page EXCEPT ![t] = p] /\ save = [save EXCEPT ![t] = s]
        /\ identity \in Accounts \cup {None}
    BY TabFacts DEF RowHolds
  <1>2. /\ UNCHANGED <<role, rowVars, identity, save>> /\ c.step \in {"done", "failed"}
        /\ check' = [check EXCEPT ![t] = NoCheck]
    BY DEF TakeCheck
  <1>3. /\ NoCheck.step = "none" /\ NoCheck.seen = 0 /\ DOMAIN NoCheck = {"step", "url", "seen"}
    BY DEF NoCheck
  <1> HIDE DEF NoCheck
  <1>4. TabHolds(p, s, NoCheck)
    BY <1>1, <1>3 DEF TabHolds, HaveTheirParts, SomebodyWaits, BadgeIsTrue
  <1>5. CASE c.step = "failed"
    <2>1. page' = [page EXCEPT ![t].told = "error"]
      BY <1>5 DEF TakeCheck
    <2>2. QED
      BY <1>2, <1>4, <2>1, ToldKeepsProfInv
  <1>6. CASE c.step = "done"
    <2>1. page' = [page EXCEPT ![t] = q]
      BY <1>6 DEF TakeCheck
    <2>2. Fillable(form)
      BY <1>1 DEF TabHolds, HaveTheirParts, Fillable
    <2>3. /\ badge = IF p.loaded THEN c.url ELSE p.badge
          /\ dirty \in BOOLEAN /\ (~dirty => s.step = "none")
      OBVIOUS
    <2>4. /\ DOMAIN q = {"at", "form", "badge", "told", "dirty", "seen", "unsure", "loaded"}
          /\ q.at = p.at /\ q.form = form /\ q.badge = badge /\ q.told = "verified"
          /\ q.dirty = dirty /\ q.seen = c.seen /\ q.unsure = ~p.loaded /\ q.loaded = p.loaded
      BY <1>1 DEF TabHolds, HaveTheirParts
    <2> HIDE DEF p, s, c, q, badge, dirty, form
    <2>5. HaveTheirParts(q, s, NoCheck)
      BY <1>1, <1>4, <2>2, <2>3, <2>4 DEF TabHolds, HaveTheirParts
    <2>6. SomebodyWaits(q, s, NoCheck) /\ SavedIsStored(q, s) /\ DecidedOnTheRow(s)
      BY <1>1, <1>3, <2>3, <2>4 DEF TabHolds, SomebodyWaits, SavedIsStored
    <2>7. BadgeIsTrue(q, s, NoCheck)
      BY <1>1, <1>3, <1>6, <2>3, <2>4 DEF TabHolds, HaveTheirParts, BadgeIsTrue, Kept
    <2>8. TabHolds(q, s, NoCheck)
      BY <2>5, <2>6, <2>7 DEF TabHolds
    <2>9. QED
      BY <1>1, <1>2, <2>1, <2>8, MoveKeepsProfInv
  <1>7. QED
    BY <1>2, <1>5, <1>6

\* What a form held that is written can be read back from the row.
LEMMA WrittenIsStored ==
  ASSUME DOMAIN user = Fields, role \in {"developer", "client"}, UNCHANGED role,
         NEW body, Fillable(body), user' = Written(user, body)
  PROVE  Stored(body)' /\ DOMAIN user' = Fields
         /\ (body.github # None => user'.github = body.github)
         /\ (body.github = None => user'.github = user.github)
  <1>1. DOMAIN user' = Fields
    BY DEF Written
  <1>2. Texts \cup Lists \subseteq Fields /\ "github" \in Texts /\ "github" \notin Lists
    BY DEF Texts, Lists, Fields
  <1>3. \A f \in Texts \cup Lists : body[f] # None => user'[f] = body[f]
    BY <1>2 DEF Written
  <1>4. /\ body.github # None => user'.github = body.github
        /\ body.github = None => user'.github = user.github
    BY <1>2, <1>3 DEF Written, Fields
  <1>5. ASSUME NEW f \in Texts \cup Lists, body[f] # None PROVE Fill(user)'[f] = body[f]
    <2>1. user'[f] = body[f] /\ role' = role /\ f \in Texts' \cup Lists'
      BY <1>3, <1>5 DEF Texts, Lists
    <2>2. CASE role = "client"
      BY <2>1, <2>2 DEF Fill
    <2>3. CASE role = "developer"
      <3>1. f = "location" => body[f] \in OfferedLocations
        BY <1>5, <2>3 DEF Fillable
      <3>2. f = "skills" => body[f] \cap OfferedSkills = body[f]
        BY <2>3 DEF Fillable
      <3>3. CASE f \in {"bio", "contact"}
        BY <1>5, <2>1, <2>3, <3>3 DEF Fill
      <3>4. CASE f = "location"
        BY <1>5, <2>1, <2>3, <3>1, <3>4 DEF Fill
      <3>5. CASE f = "skills"
        BY <1>5, <2>1, <2>3, <3>2, <3>5 DEF Fill
      <3>6. CASE f \notin {"bio", "contact", "location", "skills"}
        BY <1>5, <2>1, <2>3, <3>6 DEF Fill
      <3>7. QED
        BY <3>3, <3>4, <3>5, <3>6
    <2>4. QED
      BY <2>2, <2>3
  <1>6. DOMAIN body = Texts \cup Lists
    BY DEF Fillable
  <1>7. Stored(body)'
    BY <1>5, <1>6 DEF Stored
  <1>8. QED
    BY <1>1, <1>4, <1>7

\* A save is written.
LEMMA WriteProfileKeepsProfInv ==
  ASSUME ProfInv, NEW t \in Tabs, WriteProfile(t) PROVE ProfInv'
  <1> DEFINE p == page[t]
             s == save[t]
             c == check[t]
             z == [s EXCEPT !.step = "done", !.seen = rev + 1]
  <1>1. /\ TabHolds(p, s, c) /\ RowHolds /\ rev \in Nat
        /\ page = [o \in Tabs |-> page[o]] /\ save = [o \in Tabs |-> save[o]]
        /\ check = [o \in Tabs |-> check[o]]
    BY DEF ProfInv, RowHolds
  <1>2. /\ UNCHANGED <<role, identity, page, check>> /\ s.step = "checked"
        /\ user' = Written(user, s.body)
        /\ verified' = IF s.changed THEN None ELSE verified
        /\ rev' = rev + 1
        /\ crossed' = (~s.changed /\ (s.seen # rev \/ crossed))
        /\ save' = [save EXCEPT ![t] = z]
    BY DEF WriteProfile
  <1>3. /\ save' = [o \in Tabs |-> save'[o]] /\ save'[t] = z
        /\ \A o \in Tabs \ {t} : save'[o] = save[o]
    BY <1>1, <1>2
  <1>4. /\ z.step = "done" /\ z.body = s.body /\ z.changed = s.changed /\ z.seen = rev + 1
        /\ z.orphan = s.orphan
        /\ DOMAIN z = {"step", "body", "changed", "seen", "orphan"}
        /\ Fillable(s.body) /\ s.changed \in BOOLEAN
    BY <1>1 DEF TabHolds, HaveTheirParts
  <1>5. /\ Stored(s.body)' /\ DOMAIN user' = Fields
        /\ s.body.github # None => user'.github = s.body.github
        /\ s.body.github = None => user'.github = user.github
    BY <1>1, <1>2, <1>4, WrittenIsStored DEF RowHolds
  <1>6. /\ p.seen \in Nat /\ p.seen <= rev /\ p.seen # rev' /\ c.seen \in Nat /\ c.seen <= rev
        /\ c.seen # rev'
    BY <1>1, <1>2 DEF TabHolds, HaveTheirParts
  <1>7. ~s.changed /\ ~crossed' => s.seen = rev /\ ~crossed /\ verified' = verified
    BY <1>2
  <1>8. RowHolds'
    <2>1. s.seen = rev /\ ~s.changed => s.body.github = None \/ s.body.github = user.github
      BY <1>1, <1>2 DEF TabHolds, DecidedOnTheRow
    <2>2. VerifiedUrlIsTheirs'
      BY <1>1, <1>2, <1>5, <1>7, <2>1 DEF RowHolds, VerifiedUrlIsTheirs
    <2>3. crossed' \in BOOLEAN /\ rev' \in Nat /\ verified' \in Accounts \cup {None}
      BY <1>1, <1>2 DEF RowHolds
    <2>4. QED
      BY <1>1, <1>2, <1>5, <2>2, <2>3 DEF RowHolds
  <1> HIDE DEF z
  <1>9. HaveTheirParts(page[t], save[t], check[t])'
    <2>1. Fillable(p.form)' /\ Fillable(save[t].body)' /\ Fillable(p.form)
      BY <1>1, <1>2, <1>3, <1>4 DEF TabHolds, HaveTheirParts, Fillable, Texts, Lists
    <2>2. z.seen \in Nat /\ z.seen <= rev' /\ p.seen <= rev' /\ c.seen <= rev'
      BY <1>1, <1>2, <1>4, <1>6
    <2>3. QED
      BY <1>1, <1>2, <1>3, <1>4, <2>1, <2>2 DEF TabHolds, HaveTheirParts
  <1>10. SomebodyWaits(page[t], save[t], check[t])' /\ DecidedOnTheRow(save[t])'
    BY <1>1, <1>2, <1>3, <1>4 DEF TabHolds, SomebodyWaits, DecidedOnTheRow
  <1>11. SavedIsStored(page[t], save[t])'
    <2>1. Stored(save[t].body)'
      BY <1>3, <1>4, <1>5 DEF Stored
    <2>2. QED
      BY <1>1, <1>2, <1>3, <1>4, <1>6, <2>1 DEF TabHolds, SavedIsStored
  <1>12. BadgeIsTrue(page[t], save[t], check[t])'
    <2>1. ASSUME ~s.orphan, ~s.changed, ~crossed', rev + 1 = p.seen + 1, ~p.unsure
          PROVE  p.badge = verified'
      <3>1. p.at = "open"
        BY <1>1, <1>2, <2>1 DEF TabHolds, SomebodyWaits
      <3>2. p.seen = rev
        BY <1>1, <1>6, <2>1
      <3>3. QED
        BY <1>1, <1>7, <2>1, <3>1, <3>2 DEF TabHolds, BadgeIsTrue
    <2>2. ASSUME ~s.changed, ~crossed', rev + 1 = c.seen + 1, c.step = "done"
          PROVE  c.url = verified'
      <3>1. c.seen = rev
        BY <1>1, <1>6, <2>2
      <3>2. QED
        BY <1>1, <1>7, <2>2, <3>1 DEF TabHolds, BadgeIsTrue
    <2>3. c.step \in {"asked", "done"} => c.url \in Accounts
      BY <1>1 DEF TabHolds, BadgeIsTrue
    <2>4. /\ page'[t] = p /\ check'[t] = c /\ save'[t] = z
      BY <1>2, <1>3
    <2> HIDE DEF p, s, c
    <2>5. QED
      BY <1>2, <1>4, <1>6, <2>1, <2>2, <2>3, <2>4 DEF BadgeIsTrue, Kept
  <1>13. QED
    BY <1>1, <1>2, <1>3, <1>8, <1>9, <1>10, <1>11, <1>12, TabKeepsProfInv DEF TabHolds

\* A URL is written together with its verification.
LEMMA WriteVerifiedKeepsProfInv ==
  ASSUME ProfInv, NEW t \in Tabs, WriteVerified(t) PROVE ProfInv'
  <1> DEFINE p == page[t]
             s == save[t]
             c == check[t]
             z == [c EXCEPT !.step = "done", !.seen = rev + 1]
  <1>1. /\ TabHolds(p, s, c) /\ RowHolds /\ rev \in Nat
        /\ page = [o \in Tabs |-> page[o]] /\ save = [o \in Tabs |-> save[o]]
        /\ check = [o \in Tabs |-> check[o]]
    BY DEF ProfInv, RowHolds
  <1>2. /\ UNCHANGED <<role, identity, page, save>> /\ c.step = "asked"
        /\ user' = [user EXCEPT !.github = c.url]
        /\ verified' = c.url /\ rev' = rev + 1 /\ crossed' = FALSE
        /\ check' = [check EXCEPT ![t] = z]
    BY DEF WriteVerified
  <1>3. /\ check' = [o \in Tabs |-> check'[o]] /\ check'[t] = z
        /\ \A o \in Tabs \ {t} : check'[o] = check[o]
    BY <1>1, <1>2
  <1>4. /\ z.step = "done" /\ z.url = c.url /\ z.seen = rev + 1
        /\ DOMAIN z = {"step", "url", "seen"}
    BY <1>1 DEF TabHolds, HaveTheirParts
  <1>5. /\ p.seen \in Nat /\ p.seen <= rev /\ p.seen # rev' /\ s.seen \in Nat /\ s.seen <= rev
        /\ s.seen # rev' /\ c.url \in Accounts
    BY <1>1, <1>2 DEF TabHolds, HaveTheirParts, BadgeIsTrue
  <1>6. RowHolds'
    <2>1. "github" \in DOMAIN user
      BY <1>1 DEF RowHolds, Fields
    <2>2. user'.github = c.url /\ DOMAIN user' = DOMAIN user
      BY <1>2, <2>1
    <2>3. VerifiedUrlIsTheirs'
      BY <1>2, <2>2 DEF VerifiedUrlIsTheirs
    <2>4. rev' \in Nat /\ crossed' \in BOOLEAN
      <3>1. rev' \in Nat
        BY <1>1, <1>2
      <3>2. crossed' \in BOOLEAN
        BY Zenon DEF WriteVerified
      <3>3. QED
        BY <3>1, <3>2
    <2>5. verified' \in Accounts \cup {None} /\ identity' \in Accounts \cup {None}
      BY <1>1, <1>2, <1>5 DEF RowHolds
    <2>6. role' \in {"developer", "client"} /\ DOMAIN user' = Fields
      BY <1>1, <1>2, <2>2 DEF RowHolds
    <2>7. QED
      BY <2>3, <2>4, <2>5, <2>6 DEF RowHolds
  <1> HIDE DEF z
  <1>7. HaveTheirParts(page[t], save[t], check[t])'
    <2>1. Fillable(p.form)' /\ Fillable(s.body)'
      BY <1>1, <1>2 DEF TabHolds, HaveTheirParts, Fillable, Texts, Lists
    <2>2. z.seen \in Nat /\ z.seen <= rev' /\ p.seen <= rev' /\ s.seen <= rev'
      BY <1>1, <1>2, <1>4, <1>5
    <2>3. QED
      BY <1>1, <1>2, <1>3, <1>4, <2>1, <2>2 DEF TabHolds, HaveTheirParts
  <1>8. /\ SomebodyWaits(page[t], save[t], check[t])' /\ DecidedOnTheRow(save[t])'
        /\ SavedIsStored(page[t], save[t])' /\ BadgeIsTrue(page[t], save[t], check[t])'
    BY <1>1, <1>2, <1>3, <1>4, <1>5 DEF TabHolds, SomebodyWaits, DecidedOnTheRow, SavedIsStored,
                                         BadgeIsTrue, Kept
  <1>9. QED
    BY <1>1, <1>2, <1>3, <1>6, <1>7, <1>8, TabKeepsProfInv DEF TabHolds

\* A step of the board that has nothing to do with the settings.
LEMMA ElsewhereKeepsProfInv ==
  ASSUME ProfInv, UNCHANGED profVars PROVE ProfInv'
  <1>1. /\ UNCHANGED <<role, user, verified, rev, crossed, identity, page, save, check>>
        /\ UNCHANGED rowVars /\ UNCHANGED role /\ rev \in Nat
    BY DEF profVars, rowVars, ProfInv, RowHolds
  <1>2. RowHolds'
    BY <1>1 DEF ProfInv, RowHolds, VerifiedUrlIsTheirs
  <1>3. ASSUME NEW t \in Tabs PROVE TabHolds(page[t], save[t], check[t])'
    <2>1. TabHolds(page[t], save[t], check[t])
      BY DEF ProfInv
    <2>2. page'[t] = page[t] /\ save'[t] = save[t] /\ check'[t] = check[t]
      BY <1>1
    <2>3. QED
      BY <1>1, <2>1, <2>2, OtherTabsHold
  <1>4. QED
    BY <1>1, <1>2, <1>3 DEF ProfInv

\* At the start nothing is open and the row is one of Rows.
LEMMA ProfInitHolds ==
  ASSUME ProfileInit PROVE ProfInv
  <1>1. RowHolds
    <2>1. PICK r \in Rows : /\ role = r.role /\ user = r.user
                            /\ verified = r.verified /\ identity = r.verified
      BY DEF ProfileInit
    <2>2. /\ r.role \in {"developer", "client"} /\ DOMAIN r.user = Fields
          /\ r.verified \in Accounts \cup {None}
          /\ r.verified # None => r.user.github = r.verified
      BY ProfileAssumption
    <2>3. rev \in Nat /\ crossed \in BOOLEAN
      BY DEF ProfileInit
    <2>4. QED
      BY <2>1, <2>2, <2>3 DEF RowHolds, VerifiedUrlIsTheirs
  <1>2. Fillable(Empty)
    BY <1>1, FillsAreFillable
  <1> DEFINE p == Page("closed", Empty, None, 0)
  <1>3. /\ page = [t \in Tabs |-> p] /\ save = [t \in Tabs |-> NoSave]
        /\ check = [t \in Tabs |-> NoCheck] /\ rev = 0
    BY DEF ProfileInit
  <1>4. TabHolds(p, NoSave, NoCheck)
    <2>1. /\ DOMAIN p = {"at", "form", "badge", "told", "dirty", "seen", "unsure", "loaded"}
          /\ p.at = "closed" /\ p.told = None /\ p.form = Empty /\ p.seen = 0
          /\ p.dirty \in BOOLEAN /\ p.unsure \in BOOLEAN /\ p.loaded \in BOOLEAN
      BY DEF Page
    <2>2. /\ DOMAIN NoSave = {"step", "body", "changed", "seen", "orphan"}
          /\ NoSave.step = "none" /\ NoSave.body = Empty /\ NoSave.seen = 0
          /\ NoSave.changed \in BOOLEAN /\ NoSave.orphan \in BOOLEAN
      BY DEF NoSave
    <2>3. /\ DOMAIN NoCheck = {"step", "url", "seen"}
          /\ NoCheck.step = "none" /\ NoCheck.seen = 0
      BY DEF NoCheck
    <2> HIDE DEF p
    <2>4. HaveTheirParts(p, NoSave, NoCheck)
      BY <1>2, <1>3, <2>1, <2>2, <2>3 DEF HaveTheirParts
    <2>5. p.told # "saved"
      BY <2>1, ProfileAssumption
    <2>6. QED
      BY <2>1, <2>2, <2>3, <2>4, <2>5 DEF TabHolds, SomebodyWaits, SavedIsStored,
                                          DecidedOnTheRow, BadgeIsTrue, Kept
  <1> HIDE DEF p
  <1>5. ASSUME NEW t \in Tabs PROVE TabHolds(page[t], save[t], check[t])
    BY <1>3, <1>4
  <1>6. QED
    BY <1>1, <1>3, <1>5 DEF ProfInv

\* What has been found of copies, saves and checks says what a page shows is true.
LEMMA ProfInvGivesSettingsInv ==
  ProfInv => SettingsInv
  <1> SUFFICES ASSUME ProfInv PROVE SettingsInv
    OBVIOUS
  <1>1. RowHolds
    BY DEF ProfInv
  <1>2. ASSUME NEW t \in Tabs PROVE TabHolds(page[t], save[t], check[t])
    BY DEF ProfInv
  <1>3. ProfileTypeOK
    BY <1>1, <1>2 DEF RowHolds, TabHolds, HaveTheirParts, ProfileTypeOK
  <1>4. SettingsAreTrue
    <2>1. SUFFICES ASSUME NEW t \in Tabs, page[t].at = "open", page[t].seen = rev,
                          save[t].step = "none", check[t].step = "none"
                   PROVE  /\ page[t].told = "saved" /\ ~page[t].dirty => Stored(page[t].form)
                          /\ ~page[t].unsure /\ ~crossed => page[t].badge = verified
      BY DEF SettingsAreTrue, Open, Stored
    <2>2. SavedIsStored(page[t], save[t]) /\ BadgeIsTrue(page[t], save[t], check[t])
      BY <1>2 DEF TabHolds
    <2>3. QED
      BY <2>1, <2>2 DEF SavedIsStored, BadgeIsTrue
  <1>5. QED
    BY <1>1, <1>3, <1>4 DEF SettingsInv, RowHolds

\* The settings hold through every step of the board.
LEMMA BoardNextKeepsProfInv ==
  ASSUME ProfInv, [BoardNext]_allVars PROVE ProfInv'
  <1>1. CASE ProfileIsSaved
    BY <1>1, WriteProfileKeepsProfInv DEF ProfileIsSaved
  <1>2. CASE SettingsGoOn
    <2>1. PICK t \in Tabs :
            \/ OpenSettings(t) \/ Submit(t) \/ ConnectGithub(t) \/ VerifyGithub(t)
            \/ \E e \in Edits : Edit(t, e[1], e[2])
            \/ ReadMe(t) \/ ShowMe(t) \/ ComeBack(t)
            \/ ReadUrl(t) \/ SaveFails(t) \/ TakeSave(t)
            \/ ReadIdentity(t) \/ WriteVerified(t) \/ CheckFails(t) \/ TakeCheck(t)
      BY <1>2 DEF SettingsGoOn
    <2>2. CASE OpenSettings(t) \/ ConnectGithub(t) \/ ReadMe(t) \/ ShowMe(t)
      BY <2>2, LoadingKeepsProfInv
    <2>3. CASE Submit(t)
      BY <2>3, SubmitKeepsProfInv
    <2>4. CASE VerifyGithub(t) \/ ReadIdentity(t) \/ CheckFails(t)
      BY <2>4, CheckMovesKeepProfInv
    <2>5. ASSUME NEW e \in Edits, Edit(t, e[1], e[2]) PROVE ProfInv'
      BY <2>5, EditKeepsProfInv
    <2>6. CASE ComeBack(t)
      BY <2>6, ComeBackKeepsProfInv
    <2>7. CASE ReadUrl(t) \/ SaveFails(t)
      BY <2>7, SaveMovesKeepProfInv
    <2>8. CASE TakeSave(t)
      BY <2>8, TakeSaveKeepsProfInv
    <2>9. CASE WriteVerified(t)
      BY <2>9, WriteVerifiedKeepsProfInv
    <2>10. CASE TakeCheck(t)
      BY <2>10, TakeCheckKeepsProfInv
    <2>11. QED
      BY <2>1, <2>2, <2>3, <2>4, <2>5, <2>6, <2>7, <2>8, <2>9, <2>10
  <1>3. ASSUME ProjectChanges \/ ProjectIsViewed \/ CallsGoOn \/ InboxChanges
        PROVE  UNCHANGED profVars
    BY <1>3 DEF ProjectChanges, ProjectIsViewed, CallsGoOn, InboxChanges
  <1>4. ASSUME NEW w \in due, Invalidate(w) \/ Forget(w) PROVE UNCHANGED profVars
    BY <1>4 DEF Invalidate, Forget
  <1>5. ASSUME NEW d \in Desks,
               \/ AskDashboard(d) \/ Compose(d) \/ Hit(d) \/ Miss(d) \/ ReadProfile(d)
               \/ \E p \in Parts : ReadPart(d, p)
               \/ Store(d) \/ GoToLogin(d)
        PROVE  UNCHANGED profVars
    BY <1>5 DEF AskDashboard, Compose, Hit, Miss, ReadProfile, ReadPart, Store, GoToLogin, OnlyDesks
  <1>6. ASSUME NEW e \in entries, Expire(e) PROVE UNCHANGED profVars
    BY <1>6 DEF Expire, OnlyDesks
  <1>7. ASSUME UNCHANGED allVars PROVE UNCHANGED profVars
    BY <1>7 DEF allVars
  <1>8. UNCHANGED profVars => ProfInv'
    BY ElsewhereKeepsProfInv
  <1>9. QED
    BY <1>1, <1>2, <1>3, <1>4, <1>5, <1>6, <1>7, <1>8 DEF BoardNext

\* Copies of the row, saves and checks are dated by the write they are of, and
\* what is dated by the last write is of the row.
THEOREM ProfInvHolds ==
  BoardSpec => []ProfInv
  <1>1. BoardInit => ProfInv
    BY ProfInitHolds DEF BoardInit
  <1>2. ProfInv /\ [BoardNext]_allVars => ProfInv'
    BY BoardNextKeepsProfInv
  <1>3. QED
    BY <1>1, <1>2, PTL DEF BoardSpec

\* A verified URL is the URL that was verified, and a settings page that wrote last
\* shows what is stored, however many tabs load, save, connect and verify and
\* whatever fails between.
THEOREM SettingsPagesAreTrue ==
  BoardSpec => []SettingsInv
  <1>1. QED
    BY ProfInvHolds, ProfInvGivesSettingsInv, PTL
===============================================================================
