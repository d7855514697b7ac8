-------------------------------- MODULE Hearts --------------------------------
(***************************************************************************)
(* The hearts of a client: the like buttons of the feed's cards, and the   *)
(* page of the projects he likes, where a button takes the like away.      *)
(* Each page asks once which projects are liked, and from then on believes *)
(* the answers to its own presses.  The feed keeps a button down until its *)
(* answer is there; the page of likes remembers one button only.  What the *)
(* statements of two toggles at once do to the rows is in Engagement: here *)
(* the server does a toggle in one step.                                   *)
(***************************************************************************)
EXTENDS Naturals, Sequences

CONSTANTS
  Projects,
  MaxPosts,    \* bound: how many toggles are in flight at once
  MaxPresses,  \* bound: how often the client presses a heart or changes the page
  MaxLosses    \* bound: how many requests or replies are lost

ASSUME HeartsAssumption ==
  MaxPosts \in Nat \ {0} /\ {MaxPresses, MaxLosses} \subseteq Nat

VARIABLES
  place,     \* the page that is open
  listed,    \* the server: the projects with deletedAt null
  liked,     \* the server: the projects with a ProjectLike row of the client
  hearts,    \* likedProjectIds of the feed, entries of the page of likes
  load,      \* the page's request for the liked projects, and its answer
  pending,   \* the buttons that are down
  failed,    \* the page of likes shows an error in place of its list
  posts,     \* the toggles in flight
  presses, losses,
  doubted    \* history: projects of which the page was not told, or told twice
             \* in an order that the network chose

heartVars == <<place, listed, liked, hearts, load, pending, failed, posts, presses, losses, doubted>>

Load == [step : {"asked", "answered", "done"}, liked : SUBSET Projects]
Post == [project : Projects, mounted : BOOLEAN, reply : {"none", "liked", "unliked"}]

HeartsTypeOK ==
  /\ place \in {"feed", "likes"}
  /\ listed \subseteq Projects /\ liked \subseteq Projects
  /\ hearts \subseteq Projects /\ pending \subseteq Projects /\ doubted \subseteq Projects
  /\ load \in Load /\ failed \in BOOLEAN
  /\ posts \in Seq(Post) /\ Len(posts) <= MaxPosts
  /\ presses \in 0 .. MaxPresses /\ losses \in 0 .. MaxLosses

Asked == [step |-> "asked", liked |-> {}]
Taken == [step |-> "done", liked |-> {}]

HeartsInit ==
  /\ place \in {"feed", "likes"}
  /\ listed = Projects /\ liked \in SUBSET Projects
  /\ hearts = {} /\ load = Asked
  /\ pending = {} /\ failed = FALSE /\ posts = <<>>
  /\ presses = 0 /\ losses = 0
  /\ doubted = {}

Spend == presses < MaxPresses /\ presses' = presses + 1
Lost  == losses < MaxLosses /\ losses' = losses + 1
Without(i) == posts' = [j \in 1 .. Len(posts) - 1 |-> IF j < i THEN posts[j] ELSE posts[j + 1]]

-----------------------------------------------------------------------------
(* The liked projects *)

\* getLikedProjects: the rows, but for projects that have been archived since.
ServeLikes ==
  /\ load.step = "asked"
  /\ load' = [step |-> "answered", liked |-> liked \cap listed]
  /\ UNCHANGED <<place, listed, liked, hearts, pending, failed, posts, presses, losses, doubted>>

TakeLikes ==
  /\ load.step = "answered"
  /\ hearts' = load.liked
  /\ load' = Taken
  /\ UNCHANGED <<place, listed, liked, pending, failed, posts, presses, losses, doubted>>

\* The feed goes on as if nothing were liked; the page of likes says so.
LoseLikes ==
  /\ load.step # "done" /\ Lost
  /\ load' = Taken
  /\ hearts' = IF place = "feed" THEN {} ELSE hearts
  /\ failed' = (place = "likes")
  /\ doubted' = doubted \cup liked \cup load.liked
  /\ UNCHANGED <<place, listed, liked, pending, posts, presses>>

-----------------------------------------------------------------------------
(* A heart is pressed *)

\* The cards of the feed have hearts while the liked projects are still on
\* their way; the page of likes has nothing until then.
Pressable ==
  IF place = "feed" THEN Projects
  ELSE IF load.step # "done" \/ failed THEN {} ELSE hearts

\* The page of likes lets go of a button when another is pressed, and then of
\* any when one answer is there, so that an entry may be pressed twice.
PressHeart(p) ==
  /\ p \in Pressable \ pending
  /\ Len(posts) < MaxPosts /\ Spend
  /\ posts' = Append(posts, [project |-> p, mounted |-> TRUE, reply |-> "none"])
  /\ pending' = IF place = "feed" THEN pending \cup {p} ELSE {p}
  /\ doubted' = IF \E i \in DOMAIN posts : posts[i].mounted /\ posts[i].project = p
                THEN doubted \cup {p} ELSE doubted
  /\ UNCHANGED <<place, listed, liked, hearts, load, failed, losses>>

\* toggleLike.  The page is not told in order when another answer about the
\* project is on its way, or not told at all when it has gone.
ServeToggle(i) ==
  LET p == posts[i].project IN
  /\ posts[i].reply = "none"
  /\ liked' = IF p \in liked THEN liked \ {p} ELSE liked \cup {p}
  /\ posts' = [posts EXCEPT ![i].reply = IF p \in liked THEN "unliked" ELSE "liked"]
  /\ doubted' = IF \/ load.step = "answered"
                   \/ load.step = "done" /\ ~posts[i].mounted
                   \/ \E j \in DOMAIN posts \ {i} : posts[j].project = p
                THEN doubted \cup {p} ELSE doubted
  /\ UNCHANGED <<place, listed, hearts, load, pending, failed, presses, losses>>

\* The feed believes the answer; the page of likes takes the entry away whatever
\* it says, and lets go of every button.
Believed(i) ==
  IF place = "feed" /\ posts[i].reply = "liked"
  THEN hearts \cup {posts[i].project} ELSE hearts \ {posts[i].project}
Released(p) == IF place = "feed" THEN pending \ {p} ELSE {}

TakeToggle(i) ==
  /\ posts[i].reply # "none"
  /\ IF posts[i].mounted
     THEN hearts' = Believed(i) /\ pending' = Released(posts[i].project)
     ELSE UNCHANGED <<hearts, pending>>
  /\ Without(i)
  /\ UNCHANGED <<place, listed, liked, load, failed, presses, losses, doubted>>

\* The request or its answer is lost: the feed has a message, and the page of
\* likes an error that stands until it is loaded again.
LoseToggle(i) ==
  LET p == posts[i].project IN
  /\ Lost
  /\ IF posts[i].mounted
     THEN /\ pending' = Released(p)
          /\ failed' = (failed \/ place = "likes")
     ELSE UNCHANGED <<pending, failed>>
  /\ doubted' = IF posts[i].reply # "none" THEN doubted \cup {p} ELSE doubted
  /\ Without(i)
  /\ UNCHANGED <<place, listed, liked, hearts, load, presses>>

-----------------------------------------------------------------------------
(* The client goes to the other page, or loads the page again: what is in    *)
(* flight goes on without him.                                               *)

Visit(page) ==
  /\ Spend
  /\ place' = page
  /\ hearts' = {} /\ load' = Asked /\ pending' = {} /\ failed' = FALSE
  /\ posts' = [i \in DOMAIN posts |-> [posts[i] EXCEPT !.mounted = FALSE]]
  /\ doubted' = {}
  /\ UNCHANGED <<listed, liked, losses>>

\* The author archives a project: its likes stay.
ArchiveProject(p) ==
  /\ p \in listed
  /\ listed' = listed \ {p}
  /\ UNCHANGED <<place, liked, hearts, load, pending, failed, posts, presses, losses, doubted>>

HeartsNext ==
  \/ ServeLikes \/ TakeLikes \/ LoseLikes
  \/ \E p \in Projects : PressHeart(p) \/ ArchiveProject(p)
  \/ \E i \in DOMAIN posts : ServeToggle(i) \/ TakeToggle(i) \/ LoseToggle(i)
  \/ \E page \in {"feed", "likes"} : Visit(page)

-----------------------------------------------------------------------------
(* Properties *)

\* When no answer is on its way, the hearts are the likes, but for those of
\* which the page was not told.
HeartsAreTrue ==
  load.step = "done" /\ ~failed /\ posts = <<>> =>
    (hearts \cap listed) \ doubted = (liked \cap listed) \ doubted

\* The feed sends one toggle of a project at a time: a second press while the
\* first is on its way would take back what the first did.
FeedPressesOnce ==
  place = "feed" =>
    \A i, j \in DOMAIN posts :
      posts[i].mounted /\ posts[j].mounted /\ posts[i].project = posts[j].project => i = j

HeartsInv == HeartsTypeOK /\ HeartsAreTrue /\ FeedPressesOnce
===============================================================================
