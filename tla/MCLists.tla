------------------------------- MODULE MCLists -------------------------------
(***************************************************************************)
(* One instance for TLC of the cache that the lists of projects go through *)
(* and of the page that shows them.  Neither model has the other in it, so *)
(* one of them moves while the other rests.                                *)
(***************************************************************************)
EXTENDS CacheInvariant, Browse

VARIABLE moving  \* "cache" or "page"

CacheRests == Init /\ backend = "memory"

\* Everything has been loaded, and nothing been liked.
PageRests == BrowseInit /\ deed = "like" /\ place = "feed" /\ liked = {}

\* The filters are interchangeable until one is chosen, and so are the queries.
PageOpens ==
  BrowseInit /\ filter = (CHOOSE f \in Filters : TRUE) /\ url.query = (CHOOSE q \in Queries : TRUE)

ListsInit ==
  \/ moving = "cache" /\ Init /\ PageRests
  \/ moving = "page" /\ CacheRests /\ PageOpens

ListsNext ==
  /\ \/ moving = "cache" /\ Next /\ UNCHANGED browseVars
     \/ moving = "page" /\ BrowseNext /\ UNCHANGED vars
  /\ UNCHANGED moving

\* What rests satisfies the fairness of its specification: a cache without calls
\* or entries, and a page that waits for nothing.
ListsSpec ==
  /\ ListsInit /\ [][ListsNext]_<<moving, vars, browseVars>>
  /\ Fairness /\ BrowseFairness
==============================================================================
