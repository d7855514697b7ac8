--------------------------- MODULE CacheInvariant ---------------------------
(***************************************************************************)
(* The inductive invariant behind Cache's promise.  Every row that was     *)
(* loaded for a version is at least what had settled while that version    *)
(* was the current one, in the store and in the hands of a reader alike.   *)
(***************************************************************************)
EXTENDS Cache

\* The version a read that composes its key now would see.
Current == IF version = 0 THEN 1 ELSE version

\* Reads that have composed their key, and those that hold a row to store.
Keyed   == {c \in Calls : call[c].step \in {"lookup", "load", "store"}}
Holding == {c \in Calls : call[c].step = "store"}

\* No key runs ahead of the namespace, and no row ahead of the database.
NothingFromTheFuture ==
  /\ settled <= row
  /\ \A e \in entries : e.key <= Current /\ e.value <= row
  /\ \A c \in Keyed : call[c].key <= Current
  /\ \A c \in Calls : call[c].value <= row

\* A reading call knows what had settled; a call that does not read has no bound.
BoundsAreKept ==
  /\ \A c \in Calls : IF call[c].step \in {"idle", "invalidate"}
                      THEN since[c] = NoRead
                      ELSE since[c] \in Nat /\ since[c] <= settled

\* What the readers of a key may find or store there satisfies all of them.
KeysAreFresh ==
  /\ \A e \in entries :
       /\ e.key = Current => e.value >= settled
       /\ \A c \in Keyed : e.key = call[c].key => e.value >= since[c]
  /\ \A h \in Holding :
       /\ call[h].key = Current => call[h].value >= settled
       /\ \A c \in Keyed : call[h].key = call[c].key => call[h].value >= since[c]

CInv ==
  /\ TypeOK
  /\ \A c \in Calls : call[c].step # "seed"
  /\ Reliable
  /\ Redis => version # 0
  /\ NothingFromTheFuture
  /\ BoundsAreKept
  /\ KeysAreFresh
===============================================================================
