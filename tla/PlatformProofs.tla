----------------------------- MODULE PlatformProofs -----------------------------
(***************************************************************************)
(* The cache and the shop of a tenant.                                     *)
(*                                                                         *)
(* For every number of calls and of writes: as long as the namespace's     *)
(* version key is there and Redis answers, a call site that composes its   *)
(* key implements SettledRead.                                             *)
(*                                                                         *)
(* For every tenant, seed and number of calls: what the platform's caches  *)
(* tell was right within their time to live, a cart adds up, the stock is  *)
(* what its movements say, and a line that was sold has its ticket.        *)
(***************************************************************************)
EXTENDS CacheInvariant, Platform, FiniteSetTheorems, WellFoundedInduction, TLAPS

\* The conditions under which the promise is kept.  A key that no version is part
\* of is never invalidated; a namespace whose version is being seeded, or
\* a Redis that fails, loses it too.
Healthy == Versioned /\ Backends \subseteq {"memory", "warm"}

\* The slot that an action replaces, and all the slots that it does not.
LEMMA SlotEffect ==
  ASSUME call \in [Calls -> Call], NEW c \in Calls, NEW r \in Call, Become(c, r)
  PROVE  /\ call' \in [Calls -> Call]
         /\ call'[c] = r
         /\ \A other \in Calls \ {c} : call'[other] = call[other]
  BY DEF Become

\* The state of an empty cache satisfies the invariant.
LEMMA InitEstablishesCInv ==
  ASSUME Healthy, Init PROVE CInv
  BY CacheAssumption DEF Healthy, Init, CInv, TypeOK, Call, Idle, Slot, NothingFromTheFuture,
     BoundsAreKept, KeysAreFresh, Current, Keyed, Holding, Reliable, Redis

\* A read begins: it has no key yet, and its bound is what has settled.
LEMMA ReadKeepsCInv ==
  ASSUME Healthy, CInv, NEW c \in Calls, Read(c) PROVE CInv'
  <1> DEFINE r == Slot("compose", 0, 0)
  <1>1. r.step = "compose" /\ r.key = 0 /\ r.value = 0
    BY DEF Slot
  <1>2. r \in Call /\ Become(c, r)
    BY DEF Call, Slot, Read, Healthy
  <1> HIDE DEF r
  <1>3. /\ call' \in [Calls -> Call]
        /\ call'[c] = r
        /\ \A other \in Calls \ {c} : call'[other] = call[other]
    BY <1>2, SlotEffect DEF CInv, TypeOK
  <1>4. /\ UNCHANGED <<backend, row, version, entries, settled, reply>>
        /\ since' = [since EXCEPT ![c] = settled]
    BY DEF Read, cache
  <1>5. TypeOK'
    BY <1>3, <1>4 DEF CInv, TypeOK
  <1>6. NothingFromTheFuture'
    BY <1>1, <1>3, <1>4 DEF CInv, TypeOK, NothingFromTheFuture, Keyed, Current
  <1>7. BoundsAreKept'
    BY <1>1, <1>3, <1>4, CacheAssumption DEF CInv, TypeOK, BoundsAreKept
  <1>8. KeysAreFresh'
    BY <1>1, <1>3, <1>4 DEF CInv, TypeOK, KeysAreFresh, Keyed, Holding, Current
  <1>9. QED
    BY <1>1, <1>3, <1>4, <1>5, <1>6, <1>7, <1>8 DEF CInv, Reliable, Redis

\* What had settled for the current version is what the read is bound by.
LEMMA ComposeKeepsCInv ==
  ASSUME Healthy, CInv, NEW c \in Calls, Compose(c) PROVE CInv'
  <1> DEFINE r == Slot("lookup", version, 0)
  <1>1. r.step = "lookup" /\ r.key = version /\ r.value = 0
    BY DEF Slot
  <1>2. r \in Call /\ Become(c, r)
    BY DEF Call, Slot, Compose, CInv, TypeOK
  <1> HIDE DEF r
  <1>3. /\ call' \in [Calls -> Call]
        /\ call'[c] = r
        /\ \A other \in Calls \ {c} : call'[other] = call[other]
    BY <1>2, SlotEffect DEF CInv, TypeOK
  <1>4. /\ UNCHANGED <<backend, row, version, entries, settled, since, reply>>
        /\ version # 0 /\ call[c].step = "compose"
    BY DEF Compose, At, cache, history
  <1>5. TypeOK'
    BY <1>3, <1>4 DEF CInv, TypeOK, Call
  <1>6. NothingFromTheFuture'
    BY <1>1, <1>3, <1>4 DEF CInv, TypeOK, Call, NothingFromTheFuture, Keyed, Current
  <1>7. BoundsAreKept'
    BY <1>1, <1>3, <1>4, CacheAssumption DEF CInv, TypeOK, Call, BoundsAreKept
  <1>8. KeysAreFresh'
    <2>1. /\ settled \in Nat /\ version \in Nat /\ Current = version
          /\ since[c] \in Nat /\ since[c] <= settled
          /\ \A e \in entries : e.key \in Nat /\ e.value \in Nat
          /\ \A h \in Calls : call[h].key \in Nat /\ call[h].value \in Nat
      BY <1>4 DEF CInv, TypeOK, Call, BoundsAreKept, Current
    <2>2. Keyed' \subseteq Keyed \cup {c} /\ Holding' = Holding /\ c \notin Holding
      BY <1>1, <1>3, <1>4 DEF Keyed, Holding
    <2>3. Holding \subseteq Calls \ {c} /\ Keyed \subseteq Calls /\ Current' = Current
      BY <1>4, <2>2 DEF Holding, Keyed, Current
    <2>4. QED
      BY <1>1, <1>3, <1>4, <2>1, <2>2, <2>3 DEF CInv, KeysAreFresh
  <1>9. QED
    BY <1>1, <1>3, <1>4, <1>5, <1>6, <1>7, <1>8 DEF CInv, Reliable, Redis

\* Only the Map is ever without a version here, and is given one at once.
LEMMA UnversionedKeepsCInv ==
  ASSUME Healthy, CInv, NEW c \in Calls, ComposeUnversioned(c) PROVE CInv'
  <1> DEFINE r == Slot("lookup", 1, 0)
  <1>1. r.step = "lookup" /\ r.key = 1 /\ r.value = 0
    BY DEF Slot
  <1>2. r \in Call /\ Become(c, r)
    BY DEF Call, Slot, ComposeUnversioned, CInv, Fails, Redis, Reliable
  <1> HIDE DEF r
  <1>3. /\ call' \in [Calls -> Call]
        /\ call'[c] = r
        /\ \A other \in Calls \ {c} : call'[other] = call[other]
    BY <1>2, SlotEffect DEF CInv, TypeOK
  <1>4. /\ UNCHANGED <<backend, row, entries, settled, since, reply>>
        /\ version = 0 /\ version' = 1 /\ call[c].step = "compose"
    BY DEF ComposeUnversioned, At, CInv, Fails, Redis, Reliable, history
  <1>5. TypeOK'
    BY <1>3, <1>4 DEF CInv, TypeOK, Call
  <1>6. NothingFromTheFuture'
    BY <1>1, <1>3, <1>4 DEF CInv, TypeOK, Call, NothingFromTheFuture, Keyed, Current
  <1>7. BoundsAreKept'
    BY <1>1, <1>3, <1>4, CacheAssumption DEF CInv, TypeOK, Call, BoundsAreKept
  <1>8. KeysAreFresh'
    BY <1>1, <1>3, <1>4
    DEF CInv, TypeOK, Call, KeysAreFresh, NothingFromTheFuture, BoundsAreKept, Keyed, Holding, Current
  <1>9. QED
    BY <1>1, <1>3, <1>4, <1>5, <1>6, <1>7, <1>8 DEF CInv, Reliable, Redis

\* A miss changes nothing but the reader's next step.
LEMMA MissKeepsCInv ==
  ASSUME Healthy, CInv, NEW c \in Calls, Miss(c) PROVE CInv'
  <1> DEFINE r == Slot("load", call[c].key, 0)
  <1>1. r.step = "load" /\ r.key = call[c].key /\ r.value = 0
    BY DEF Slot
  <1>2. r \in Call /\ Become(c, r)
    BY DEF Call, Slot, Miss, CInv, TypeOK
  <1> HIDE DEF r
  <1>3. /\ call' \in [Calls -> Call]
        /\ call'[c] = r
        /\ \A other \in Calls \ {c} : call'[other] = call[other]
    BY <1>2, SlotEffect DEF CInv, TypeOK
  <1>4. /\ UNCHANGED <<backend, row, version, entries, settled, since, reply>>
        /\ call[c].step = "lookup"
    BY DEF Miss, At, cache, history
  <1>5. TypeOK'
    BY <1>3, <1>4 DEF CInv, TypeOK, Call
  <1>6. NothingFromTheFuture'
    BY <1>1, <1>3, <1>4 DEF CInv, TypeOK, Call, NothingFromTheFuture, Keyed, Current
  <1>7. BoundsAreKept'
    BY <1>1, <1>3, <1>4, CacheAssumption DEF CInv, TypeOK, Call, BoundsAreKept
  <1>8. KeysAreFresh'
    BY <1>1, <1>3, <1>4
    DEF CInv, TypeOK, Call, KeysAreFresh, NothingFromTheFuture, BoundsAreKept, Keyed, Holding, Current
  <1>9. QED
    BY <1>1, <1>3, <1>4, <1>5, <1>6, <1>7, <1>8 DEF CInv, Reliable, Redis

\* The row as it is now satisfies every reader.
LEMMA QueryKeepsCInv ==
  ASSUME Healthy, CInv, NEW c \in Calls, Query(c) PROVE CInv'
  <1> DEFINE r == Slot("store", call[c].key, row)
  <1>1. r.step = "store" /\ r.key = call[c].key /\ r.value = row
    BY DEF Slot
  <1>2. r \in Call /\ Become(c, r)
    BY DEF Call, Slot, Query, CInv, TypeOK
  <1> HIDE DEF r
  <1>3. /\ call' \in [Calls -> Call]
        /\ call'[c] = r
        /\ \A other \in Calls \ {c} : call'[other] = call[other]
    BY <1>2, SlotEffect DEF CInv, TypeOK
  <1>4. /\ UNCHANGED <<backend, row, version, entries, settled, since, reply>>
        /\ call[c].step = "load"
    BY DEF Query, At, cache, history
  <1>5. TypeOK'
    BY <1>3, <1>4 DEF CInv, TypeOK, Call
  <1>6. NothingFromTheFuture'
    BY <1>1, <1>3, <1>4 DEF CInv, TypeOK, Call, NothingFromTheFuture, Keyed, Current
  <1>7. BoundsAreKept'
    BY <1>1, <1>3, <1>4, CacheAssumption DEF CInv, TypeOK, Call, BoundsAreKept
  <1>8. KeysAreFresh'
    BY <1>1, <1>3, <1>4
    DEF CInv, TypeOK, Call, KeysAreFresh, NothingFromTheFuture, BoundsAreKept, Keyed, Holding, Current
  <1>9. QED
    BY <1>1, <1>3, <1>4, <1>5, <1>6, <1>7, <1>8 DEF CInv, Reliable, Redis

\* A reader that has its row leaves, and nobody else is bound by more.
LEMMA AnswerKeepsCInv ==
  ASSUME CInv, NEW c \in Calls, NEW n \in Nat, Answer(c, n), UNCHANGED <<backend, row, version>>,
         entries' \in SUBSET [key : Nat, value : Nat],
         call[c].step \in {"lookup", "store"},
         \A e \in entries' : e \in entries \/ (/\ call[c].step = "store"
                                               /\ e.key = call[c].key /\ e.value = call[c].value)
  PROVE  CInv'
  <1> DEFINE r == Slot("idle", 0, 0)
  <1>1. r.step = "idle" /\ r.key = 0 /\ r.value = 0
    BY DEF Slot
  <1>2. r \in Call /\ Become(c, r)
    BY DEF Call, Slot, Answer, Idle
  <1> HIDE DEF r
  <1>3. /\ call' \in [Calls -> Call]
        /\ call'[c] = r
        /\ \A other \in Calls \ {c} : call'[other] = call[other]
    BY <1>2, SlotEffect DEF CInv, TypeOK
  <1>4. /\ UNCHANGED <<backend, row, version, settled>>
        /\ since' = [since EXCEPT ![c] = NoRead]
        /\ reply' = [reply EXCEPT ![c] = n]
    BY DEF Answer
  <1>5. TypeOK'
    BY <1>3, <1>4 DEF CInv, TypeOK, Call
  <1>6. NothingFromTheFuture'
    BY <1>1, <1>3, <1>4 DEF CInv, TypeOK, Call, NothingFromTheFuture, Keyed, Current
  <1>7. BoundsAreKept'
    BY <1>1, <1>3, <1>4, CacheAssumption DEF CInv, TypeOK, Call, BoundsAreKept
  <1>8. KeysAreFresh'
    BY <1>1, <1>3, <1>4 DEF CInv, TypeOK, Call, KeysAreFresh, Keyed, Holding, Current
  <1>9. QED
    BY <1>1, <1>3, <1>4, <1>5, <1>6, <1>7, <1>8 DEF CInv, Reliable, Redis

\* A hit answers with what is there.
LEMMA HitKeepsCInv ==
  ASSUME CInv, NEW c \in Calls, Hit(c) PROVE CInv'
  <1>1. PICK e \in entries : e.key = call[c].key /\ Answer(c, e.value)
    BY DEF Hit
  <1>2. e.value \in Nat /\ entries' \in SUBSET [key : Nat, value : Nat] /\ entries' = entries
    BY DEF CInv, TypeOK, Hit, cache
  <1>3. call[c].step \in {"lookup", "store"} /\ UNCHANGED <<backend, row, version>>
    BY DEF Hit, At, cache
  <1>4. QED
    BY <1>1, <1>2, <1>3, AnswerKeepsCInv

\* What is stored is what the reader holds, under the key it composed.
LEMMA StoreKeepsCInv ==
  ASSUME Healthy, CInv, NEW c \in Calls, Store(c) PROVE CInv'
  <1>1. call[c] \in Call
    BY DEF CInv, TypeOK
  <1>2. /\ entries' = {e \in entries : e.key # call[c].key} \cup
                       {[key |-> call[c].key, value |-> call[c].value]}
        /\ Answer(c, call[c].value) /\ UNCHANGED <<backend, row, version>>
        /\ call[c].step = "store"
    BY DEF Store, CInv, Reliable, Fails, At
  <1>3. call[c].value \in Nat /\ entries' \in SUBSET [key : Nat, value : Nat]
    BY <1>1, <1>2 DEF CInv, TypeOK, Call
  <1>4. \A e \in entries' : e \in entries \/ (/\ call[c].step = "store"
                                              /\ e.key = call[c].key /\ e.value = call[c].value)
    BY <1>2
  <1>5. QED
    BY <1>2, <1>3, <1>4, AnswerKeepsCInv

\* The row moves on, and everything cached of it stays behind.
LEMMA WriteKeepsCInv ==
  ASSUME Healthy, CInv, NEW c \in Calls, Write(c) PROVE CInv'
  <1> DEFINE r == Slot("invalidate", 0, row + 1)
  <1>1. r.step = "invalidate" /\ r.key = 0 /\ r.value = row + 1
    BY DEF Slot
  <1>2. r \in Call /\ Become(c, r)
    BY DEF Call, Slot, Write, CInv, TypeOK
  <1> HIDE DEF r
  <1>3. /\ call' \in [Calls -> Call]
        /\ call'[c] = r
        /\ \A other \in Calls \ {c} : call'[other] = call[other]
    BY <1>2, SlotEffect DEF CInv, TypeOK
  <1>4. /\ UNCHANGED <<backend, version, entries, settled, since, reply>>
        /\ row' = row + 1 /\ call[c].step = "idle"
    BY DEF Write, At, cache, history
  <1>5. TypeOK'
    BY <1>3, <1>4 DEF CInv, TypeOK, Call
  <1>6. NothingFromTheFuture'
    BY <1>1, <1>3, <1>4 DEF CInv, TypeOK, Call, NothingFromTheFuture, Keyed, Current
  <1>7. BoundsAreKept'
    BY <1>1, <1>3, <1>4, CacheAssumption DEF CInv, TypeOK, Call, BoundsAreKept
  <1>8. KeysAreFresh'
    BY <1>1, <1>3, <1>4
    DEF CInv, TypeOK, Call, KeysAreFresh, NothingFromTheFuture, BoundsAreKept, Keyed, Holding, Current
  <1>9. QED
    BY <1>1, <1>3, <1>4, <1>5, <1>6, <1>7, <1>8 DEF CInv, Reliable, Redis

\* The new version has no entries and no readers yet, so it may settle more.
LEMMA InvalidateKeepsCInv ==
  ASSUME Healthy, CInv, NEW c \in Calls, Invalidate(c) PROVE CInv'
  <1> DEFINE r == Slot("idle", 0, 0)
  <1>1. r.step = "idle" /\ r.key = 0 /\ r.value = 0
    BY DEF Slot
  <1>2. r \in Call /\ Become(c, r)
    BY DEF Call, Slot, Invalidate, Idle
  <1> HIDE DEF r
  <1>3. /\ call' \in [Calls -> Call]
        /\ call'[c] = r
        /\ \A other \in Calls \ {c} : call'[other] = call[other]
    BY <1>2, SlotEffect DEF CInv, TypeOK
  <1>4. /\ UNCHANGED <<backend, row, entries, since, reply>>
        /\ call[c].step = "invalidate" /\ call[c].value \in Nat
        /\ settled' = IF call[c].value > settled THEN call[c].value ELSE settled
    <2>1. call[c] \in Call
      BY DEF CInv, TypeOK
    <2>2. QED
      BY <2>1 DEF Invalidate, At, Call, CInv
  <1>5. version' \in Nat /\ Current \in Nat /\ Current' = Current + 1 /\ version' # 0
    <2>1. version' = NextVersion
      BY DEF Invalidate, CInv, Reliable, Fails
    <2>2. NextVersion = Current + 1 /\ version \in Nat
      BY DEF NextVersion, Current, CInv, TypeOK, Redis, Reliable
    <2>3. Current \in Nat
      BY <2>2 DEF Current
    <2>4. QED
      BY <2>1, <2>2, <2>3 DEF Current
  <1>6. TypeOK'
    BY <1>3, <1>4, <1>5 DEF CInv, TypeOK, Call
  <1>7. NothingFromTheFuture'
    BY <1>1, <1>3, <1>4, <1>5 DEF CInv, TypeOK, Call, NothingFromTheFuture, Keyed
  <1>8. BoundsAreKept'
    BY <1>1, <1>3, <1>4, <1>5, CacheAssumption DEF CInv, TypeOK, Call, BoundsAreKept
  <1>9. KeysAreFresh'
    BY <1>1, <1>3, <1>4, <1>5
    DEF CInv, TypeOK, Call, KeysAreFresh, NothingFromTheFuture, BoundsAreKept, Keyed, Holding
  <1>10. QED
    BY <1>1, <1>3, <1>4, <1>5, <1>6, <1>7, <1>8, <1>9 DEF CInv, Reliable, Redis

\* A call that ends early takes its bound with it.
LEMMA ThrowKeepsCInv ==
  ASSUME Healthy, CInv, NEW c \in Calls, Throw(c) PROVE CInv'
  <1> DEFINE r == Slot("idle", 0, 0)
  <1>1. r.step = "idle" /\ r.key = 0 /\ r.value = 0
    BY DEF Slot
  <1>2. r \in Call /\ Become(c, r)
    BY DEF Call, Slot, Throw, Idle
  <1> HIDE DEF r
  <1>3. /\ call' \in [Calls -> Call]
        /\ call'[c] = r
        /\ \A other \in Calls \ {c} : call'[other] = call[other]
    BY <1>2, SlotEffect DEF CInv, TypeOK
  <1>4. /\ UNCHANGED <<backend, row, version, entries, settled, reply>>
        /\ since' = [since EXCEPT ![c] = NoRead]
    BY DEF Throw, cache
  <1>5. TypeOK'
    BY <1>3, <1>4 DEF CInv, TypeOK, Call
  <1>6. NothingFromTheFuture'
    BY <1>1, <1>3, <1>4 DEF CInv, TypeOK, Call, NothingFromTheFuture, Keyed, Current
  <1>7. BoundsAreKept'
    BY <1>1, <1>3, <1>4, CacheAssumption DEF CInv, TypeOK, Call, BoundsAreKept
  <1>8. KeysAreFresh'
    BY <1>1, <1>3, <1>4
    DEF CInv, TypeOK, Call, KeysAreFresh, NothingFromTheFuture, BoundsAreKept, Keyed, Holding, Current
  <1>9. QED
    BY <1>1, <1>3, <1>4, <1>5, <1>6, <1>7, <1>8 DEF CInv, Reliable, Redis

\* An entry that expires takes its promise with it.
LEMMA ExpireKeepsCInv ==
  ASSUME CInv, NEW e \in entries, Expire(e) PROVE CInv'
  BY DEF CInv, TypeOK, Expire, history, NothingFromTheFuture, BoundsAreKept, KeysAreFresh,
     Keyed, Holding, Current, Reliable, Redis

\* Every step keeps the invariant.
LEMMA StepKeepsCInv ==
  ASSUME Healthy, CInv, [Next]_vars PROVE CInv'
  <1>1. CASE UNCHANGED vars
    BY <1>1 DEF vars, cache, history, CInv, TypeOK, NothingFromTheFuture, BoundsAreKept,
       KeysAreFresh, Keyed, Holding, Current, Reliable, Redis
  <1>2. ASSUME NEW c \in Calls, Read(c) \/ Write(c) \/ Invalidate(c) \/ Throw(c)
        PROVE  CInv'
    BY <1>2, ReadKeepsCInv, WriteKeepsCInv, InvalidateKeepsCInv, ThrowKeepsCInv
  <1>3. ASSUME NEW c \in Calls, Reading(c)
        PROVE  CInv'
    <2>1. ~Seed(c)
      BY DEF CInv, Seed, At
    <2>2. QED
      BY <1>3, <2>1, ComposeKeepsCInv, UnversionedKeepsCInv, HitKeepsCInv, MissKeepsCInv,
         QueryKeepsCInv, StoreKeepsCInv DEF Reading
  <1>4. ASSUME NEW e \in entries, Expire(e)
        PROVE  CInv'
    BY <1>4, ExpireKeepsCInv
  <1>5. QED
    BY <1>1, <1>2, <1>3, <1>4 DEF Next

\* CInv holds of every behaviour: what a reader may find or store under a key
\* is never older than what had settled while the key was current.
THEOREM CacheInvariantHolds ==
  ASSUME Healthy PROVE Spec => []CInv
  <1>1. Init => CInv
    BY InitEstablishesCInv
  <1>2. CInv /\ [Next]_vars => CInv'
    BY StepKeepsCInv
  <1>3. QED
    BY <1>1, <1>2, PTL DEF Spec

\* TypeOK: the state keeps its shape.
THEOREM CacheTypeCorrect ==
  ASSUME Healthy PROVE Spec => []TypeOK
  <1>1. CInv => TypeOK
    BY DEF CInv
  <1>2. QED
    BY <1>1, CacheInvariantHolds, PTL

\* FreshAfterInvalidation: after invalidateNamespace no new read can find an
\* entry older than the write that was invalidated.
THEOREM InvalidationIsEffective ==
  ASSUME Healthy PROVE Spec => []FreshAfterInvalidation
  <1>1. CInv => FreshAfterInvalidation
    BY DEF Healthy, CInv, KeysAreFresh, FreshAfterInvalidation, CurrentKey, Current
  <1>2. QED
    BY <1>1, CacheInvariantHolds, PTL

-----------------------------------------------------------------------------
(* Every step of the cache is a step of SettledRead, or none at all. *)

\* A reader that answers with a row no older than its bound ends its read.
LEMMA AnswerEndsRead ==
  ASSUME CInv, NEW c \in Calls, NEW n \in Nat, Answer(c, n), UNCHANGED row,
         call[c].step \in {"lookup", "store"}, since[c] <= n, n <= row
  PROVE  Promised!Next
  <1>1. /\ since[c] # NoRead /\ since[c] \in Nat /\ row \in Nat
    BY CacheAssumption DEF CInv, TypeOK, BoundsAreKept, Call
  <1>2. n \in since[c] .. row /\ n \in 0 .. row
    BY <1>1
  <1>3. Promised!EndRead(c, n)
    BY <1>1, <1>2 DEF Answer, Promised!EndRead
  <1>4. QED
    BY <1>2, <1>3 DEF Promised!Next

\* Each action does to the four shared variables what SettledRead allows.
LEMMA StepIsPromised ==
  ASSUME Healthy, CInv, [Next]_vars PROVE [Promised!Next]_(Promised!vars)
  <1>1. CASE UNCHANGED vars
    BY <1>1 DEF vars, history, Promised!vars
  <1>2. ASSUME NEW c \in Calls, Read(c) PROVE Promised!Next
    <2>1. since[c] = NoRead
      BY <1>2 DEF Read, At, CInv, BoundsAreKept
    <2>2. Promised!BeginRead(c)
      BY <1>2, <2>1 DEF Read, Promised!BeginRead
    <2>3. QED
      BY <2>2 DEF Promised!Next
  <1>3. ASSUME NEW c \in Calls, Write(c) PROVE Promised!Next
    BY <1>3 DEF Write, history, Promised!Write, Promised!Next
  <1>4. ASSUME NEW c \in Calls, Invalidate(c) PROVE Promised!Next
    <2>1. /\ row \in Nat /\ settled \in Nat /\ settled <= row
          /\ call[c].value \in Nat /\ call[c].value <= row
      BY DEF CInv, TypeOK, Call, NothingFromTheFuture
    <2>2. settled' \in settled .. row /\ settled' \in 0 .. row
      BY <1>4, <2>1 DEF Invalidate
    <2>3. Promised!Settle(settled')
      BY <1>4, <2>2 DEF Invalidate, Promised!Settle
    <2>4. QED
      BY <2>2, <2>3 DEF Promised!Next
  <1>5. ASSUME NEW c \in Calls, Throw(c) PROVE Promised!Next
    BY <1>5 DEF Throw, Promised!FailRead, Promised!Next
  <1>6. ASSUME NEW c \in Calls, Hit(c) PROVE Promised!Next
    <2>1. PICK e \in entries : e.key = call[c].key /\ Answer(c, e.value)
      BY <1>6 DEF Hit
    <2>2. e.value \in Nat /\ e.value <= row /\ call[c].step = "lookup" /\ UNCHANGED row
      BY <1>6 DEF CInv, TypeOK, NothingFromTheFuture, Hit, At
    <2>3. since[c] <= e.value
      BY <2>1, <2>2 DEF CInv, KeysAreFresh, Keyed
    <2>4. QED
      BY <2>1, <2>2, <2>3, AnswerEndsRead
  <1>7. ASSUME NEW c \in Calls, Store(c) PROVE Promised!Next
    <2>1. /\ call[c].value \in Nat /\ call[c].value <= row /\ call[c].step = "store"
          /\ Answer(c, call[c].value) /\ UNCHANGED row
      BY <1>7 DEF CInv, TypeOK, Call, NothingFromTheFuture, Store, At
    <2>2. since[c] <= call[c].value
      BY <2>1 DEF CInv, KeysAreFresh, Keyed, Holding
    <2>3. QED
      BY <2>1, <2>2, AnswerEndsRead
  <1>8. ASSUME NEW c \in Calls, Compose(c) \/ ComposeUnversioned(c) \/ Seed(c) \/ Miss(c) \/ Query(c)
        PROVE  UNCHANGED Promised!vars
    BY <1>8 DEF Compose, ComposeUnversioned, Seed, Miss, Query, history, Promised!vars
  <1>9. ASSUME NEW e \in entries, Expire(e) PROVE UNCHANGED Promised!vars
    BY <1>9 DEF Expire, history, Promised!vars
  <1>10. QED
    BY <1>1, <1>2, <1>3, <1>4, <1>5, <1>6, <1>7, <1>8, <1>9 DEF Next, Reading

\* ReadsAreSettled: the cache implements SettledRead, so no reader is shown a
\* row older than the last write invalidated before its read began.
THEOREM CacheKeepsItsPromise ==
  ASSUME Healthy PROVE Spec => ReadsAreSettled
  <1>1. Init => Promised!Init
    BY DEF Init, Promised!Init
  <1>2. CInv /\ [Next]_vars => [Promised!Next]_(Promised!vars)
    BY StepIsPromised
  <1>3. QED
    BY <1>1, <1>2, CacheInvariantHolds, PTL DEF Spec, ReadsAreSettled, Promised!Spec

-----------------------------------------------------------------------------
(* The platform's caches.  Every list and every price that is cached, on   *)
(* its way into a cache or out of one was right at a tick that is known:   *)
(* the one at which it was loaded, if it was stored within that tick.      *)

\* The tables that were there at some moment of tick t, of the one that is there
\* now and has been from a tick on, and those before.
TablesAt(t, table, from, before) ==
  {p.rows : p \in {q \in before : q.from <= t /\ t <= q.until}} \cup (IF from <= t THEN {table} ELSE {})

\* items are what one of the tables has for the filter.
MatchedIn(S, items, filter) ==
  \E table \in S : items = Matching(table, filter)

\* price is what item costs on channel at tick t by one of the tables, and t is
\* of the same quarter as tick at.
CostsIn(S, t, price, item, channel, at) ==
  \E table \in S :
    /\ item \in DOMAIN table
    /\ Bucket(Instants[t]) = Bucket(Instants[at])
    /\ price = FinalPrice(table[item], channel, Instants[t])

Then(t) == TablesAt(t, rows, written, past)

\* Nothing is dated later than the clock.
Dated ==
  /\ clock \in Nat /\ written \in 0 .. clock
  /\ DOMAIN running = Slots /\ DOMAIN listed = Filters

\* A call knows its step, and so does the one that goes on after an adjustment.
StepIsKnown(c) ==
  /\ running[c] # Nothing => "step" \in DOMAIN running[c]
  /\ AtStep(c, "adjust") => \/ running[c].then = Nothing
                            \/ "step" \in DOMAIN running[c].then /\ running[c].then.step = "void"

\* A list on its way into the cache matched at the tick it was loaded.
ListCallIsDated(c) ==
  /\ AtStep(c, "list") => running[c].filter \in Filters
  /\ AtStep(c, "liststore") =>
       /\ running[c].filter \in Filters
       /\ running[c].at \in 0 .. clock
       /\ MatchedIn(Then(running[c].at), running[c].items, running[c].filter)

\* The lines of a cart in the making are of rows that there are.  As long as
\* its tick lasts, a price just loaded was right at that tick, and one that is
\* done at a tick that a cached price may be of.
LineIsDated(c, n) ==
  LET line  == running[c].lines[n]
      price == running[c].price[n]
      at    == running[c].at
  IN  /\ line.item \in DOMAIN rows
      /\ price.step = "set" /\ clock = at =>
           CostsIn(Then(at), at, price.price, line.item, line.channel, at)
      /\ price.step = "done" /\ clock = at /\ ~price.slow =>
           \E t \in at - PriceTTL .. at : CostsIn(Then(t), t, price.price, line.item, line.channel, at)

CartCallIsDated(c) ==
  AtStep(c, "cart") =>
    /\ running[c].at \in 0 .. clock
    /\ DOMAIN running[c] = {"step", "lines", "at", "price"}
    /\ DOMAIN running[c].price = DOMAIN running[c].lines
    /\ \A n \in DOMAIN running[c].lines : LineIsDated(c, n)

CallsAreDated ==
  \A c \in Slots : StepIsKnown(c) /\ ListCallIsDated(c) /\ CartCallIsDated(c)

\* A stored list matched at the tick that its TTL counts from.
ListsAreDated ==
  \A f \in Filters : listed[f] # Nothing =>
    /\ listed[f].until \in ListTTL .. clock + ListTTL
    /\ ~listed[f].slow => MatchedIn(Then(listed[f].until - ListTTL), listed[f].items, f)

\* A stored price was right at the tick that its TTL counts from, and its key
\* names what it was the price of, and the quarter.
PricesAreDated ==
  \A e \in priced :
    /\ e.until \in PriceTTL .. clock + PriceTTL
    /\ ~e.slow => LET t == e.until - PriceTTL
                  IN  \E item, channel : /\ e.key = <<item, channel, Bucket(Instants[t])>>
                                         /\ CostsIn(Then(t), t, e.price, item, channel, t)

\* What was answered and what was built is of the past.
AnswersAreDated ==
  /\ said # Nothing => said.at \in 0 .. clock
  /\ cart # Nothing => cart.at \in 0 .. clock

PlatformIInv ==
  Dated /\ CallsAreDated /\ ListsAreDated /\ PricesAreDated /\ AnswersAreDated /\ CachesAreRecent

\* The tables of a tick that is over or has begun are only ever added to.
TablesGrow ==
  /\ clock' \in Nat /\ clock <= clock' /\ written' \in 0 .. clock'
  /\ DOMAIN rows \subseteq DOMAIN rows'
  /\ \A t \in Int : t <= clock => Then(t) \subseteq TablesAt(t, rows', written', past')

\* A statement that changes the entities puts the table away with its dates.
LEMMA ReplaceGrows ==
  ASSUME Dated, NEW table, Replace(table), clock' = clock, DOMAIN rows \subseteq DOMAIN table
  PROVE  TablesGrow
  <1>1. rows' = table /\ written' = clock
        /\ past' = past \cup {[rows |-> rows, from |-> written, until |-> clock]}
    BY DEF Replace
  <1>2. ASSUME NEW t \in Int, t <= clock, NEW old \in Then(t)
        PROVE  old \in TablesAt(t, rows', written', past')
    <2>1. CASE \E p \in past : p.from <= t /\ t <= p.until /\ old = p.rows
      BY <2>1, <1>1 DEF TablesAt
    <2>2. CASE written <= t /\ old = rows
      <3> DEFINE q == [rows |-> rows, from |-> written, until |-> clock]
      <3>1. q \in past' /\ q.from <= t /\ t <= q.until /\ q.rows = old
        BY <2>2, <1>1, <1>2
      <3> HIDE DEF q
      <3>2. QED
        BY <3>1 DEF TablesAt
    <2>3. QED
      BY <2>1, <2>2, <1>2 DEF Then, TablesAt
  <1>3. QED
    BY <1>1, <1>2 DEF TablesGrow, Dated

\* Where the entities stay as they are, only the clock may go on.
LEMMA StillGrows ==
  ASSUME Dated, UNCHANGED <<rows, written, past>>, clock' \in {clock, clock + 1}
  PROVE  TablesGrow
  BY DEF Dated, TablesGrow, Then

\* The table that is there is one of the tick that it is.
LEMMA RowsAreThen ==
  ASSUME Dated PROVE rows \in Then(clock)
  BY DEF Dated, Then, TablesAt

\* What is right by some tables is right by more of them.
LEMMA MoreMatches ==
  ASSUME NEW S, NEW T, S \subseteq T, NEW items, NEW filter, MatchedIn(S, items, filter)
  PROVE  MatchedIn(T, items, filter)
  BY DEF MatchedIn

LEMMA MoreCosts ==
  ASSUME NEW S, NEW T, S \subseteq T, NEW t, NEW price, NEW item, NEW channel, NEW at,
         CostsIn(S, t, price, item, channel, at)
  PROVE  CostsIn(T, t, price, item, channel, at)
  BY DEF CostsIn

\* A call that does not move keeps what is known of it.
LEMMA CallKept ==
  ASSUME PlatformIInv, TablesGrow, NEW c \in Slots, running'[c] = running[c]
  PROVE  (StepIsKnown(c) /\ ListCallIsDated(c) /\ CartCallIsDated(c))'
  <1>1. StepIsKnown(c) /\ ListCallIsDated(c) /\ CartCallIsDated(c)
    BY DEF PlatformIInv, CallsAreDated
  <1>2. clock \in Nat /\ clock' \in Nat /\ clock <= clock'
    BY DEF PlatformIInv, Dated, TablesGrow
  <1>3. StepIsKnown(c)'
    BY <1>1 DEF StepIsKnown, AtStep
  <1>4. ListCallIsDated(c)'
    <2>1. SUFFICES ASSUME running[c] # Nothing, running[c].step = "liststore"
                   PROVE  /\ running[c].filter \in Filters
                          /\ running[c].at \in 0 .. clock'
                          /\ MatchedIn(TablesAt(running[c].at, rows', written', past'), running[c].items,
                                       running[c].filter)
      BY <1>1 DEF ListCallIsDated, AtStep, Then
    <2>2. running[c].at \in 0 .. clock
      BY <2>1, <1>1 DEF ListCallIsDated, AtStep
    <2>3. Then(running[c].at) \subseteq TablesAt(running[c].at, rows', written', past')
      BY <2>2, <1>2 DEF TablesGrow
    <2>4. QED
      BY <2>1, <2>2, <2>3, <1>1, <1>2, MoreMatches DEF ListCallIsDated, AtStep
  <1>5. CartCallIsDated(c)'
    <2>1. CASE ~(running[c] # Nothing /\ running[c].step = "cart")
      BY <2>1 DEF CartCallIsDated, AtStep
    <2>2. CASE running[c] # Nothing /\ running[c].step = "cart"
      <3>1. /\ running[c].at \in 0 .. clock
            /\ DOMAIN running[c] = {"step", "lines", "at", "price"}
            /\ DOMAIN running[c].price = DOMAIN running[c].lines
            /\ \A n \in DOMAIN running[c].lines : LineIsDated(c, n)
        BY <2>2, <1>1 DEF CartCallIsDated, AtStep
      <3>2. ASSUME NEW n \in DOMAIN running[c].lines PROVE LineIsDated(c, n)'
        <4> DEFINE line  == running[c].lines[n]
                   price == running[c].price[n]
                   at    == running[c].at
        <4>1. LineIsDated(c, n) /\ at \in 0 .. clock
          BY <3>1, <3>2
        <4>2. line.item \in DOMAIN rows'
          BY <4>1 DEF LineIsDated, TablesGrow
        <4>3. clock' = at => clock = at
          BY <4>1, <1>2
        <4>4. ASSUME price.step = "set", clock' = at
              PROVE  CostsIn(TablesAt(at, rows', written', past'), at, price.price, line.item, line.channel, at)
          <5>1. CostsIn(Then(at), at, price.price, line.item, line.channel, at)
            BY <4>1, <4>3, <4>4 DEF LineIsDated
          <5>2. Then(at) \subseteq TablesAt(at, rows', written', past')
            BY <4>1, <1>2 DEF TablesGrow
          <5>3. QED
            BY <5>1, <5>2, MoreCosts
        <4>5. ASSUME price.step = "done", clock' = at, ~price.slow
              PROVE  \E t \in at - PriceTTL .. at :
                       CostsIn(TablesAt(t, rows', written', past'), t, price.price, line.item, line.channel, at)
          <5>1. PICK t \in at - PriceTTL .. at :
                       CostsIn(Then(t), t, price.price, line.item, line.channel, at)
            BY <4>1, <4>3, <4>5 DEF LineIsDated
          <5>2. Then(t) \subseteq TablesAt(t, rows', written', past')
            BY <4>1, <1>2, <5>1 DEF TablesGrow, PriceTTL
          <5>3. QED
            BY <5>1, <5>2, MoreCosts
        <4>6. QED
          BY <4>2, <4>4, <4>5 DEF LineIsDated, Then
      <3>3. QED
        BY <3>1, <3>2, <1>2 DEF CartCallIsDated
    <2>3. QED
      BY <2>1, <2>2
  <1>6. QED
    BY <1>3, <1>4, <1>5

\* A call of another step than those that carry dates.
LEMMA CallFree ==
  ASSUME NEW c \in Slots,
         \/ running'[c] = Nothing
         \/ "step" \in DOMAIN running'[c] /\ running'[c].step \notin {"list", "liststore", "cart", "adjust"}
  PROVE  (StepIsKnown(c) /\ ListCallIsDated(c) /\ CartCallIsDated(c))'
  BY DEF StepIsKnown, ListCallIsDated, CartCallIsDated, AtStep

\* The slot that an action replaces, and all the slots that it does not.
LEMMA RunningEffect ==
  ASSUME Dated, NEW c \in Slots, NEW r, CallBecomes(c, r)
  PROVE  /\ DOMAIN running' = Slots
         /\ running'[c] = r
         /\ \A other \in Slots \ {c} : running'[other] = running[other]
  BY DEF CallBecomes, Dated

\* What is stored keeps its date while nothing else is stored.
LEMMA ListsKept ==
  ASSUME PlatformIInv, TablesGrow, UNCHANGED listed
  PROVE  ListsAreDated'
  <1>1. SUFFICES ASSUME NEW f \in Filters, listed[f] # Nothing
                 PROVE  /\ listed[f].until \in ListTTL .. clock' + ListTTL
                        /\ ~listed[f].slow => MatchedIn(TablesAt(listed[f].until - ListTTL, rows', written', past'),
                                                        listed[f].items, f)
    BY DEF ListsAreDated, Then
  <1>2. /\ listed[f].until \in ListTTL .. clock + ListTTL
        /\ ~listed[f].slow => MatchedIn(Then(listed[f].until - ListTTL), listed[f].items, f)
    BY <1>1 DEF PlatformIInv, ListsAreDated
  <1>3. clock \in Nat /\ clock' \in Nat /\ clock <= clock'
    BY DEF PlatformIInv, Dated, TablesGrow
  <1>4. Then(listed[f].until - ListTTL) \subseteq TablesAt(listed[f].until - ListTTL, rows', written', past')
    BY <1>2, <1>3 DEF TablesGrow, ListTTL
  <1>5. QED
    BY <1>2, <1>3, <1>4, MoreMatches DEF ListTTL

LEMMA PriceKept ==
  ASSUME PlatformIInv, TablesGrow, NEW e \in priced
  PROVE  /\ e.until \in PriceTTL .. clock' + PriceTTL
         /\ ~e.slow => LET t == e.until - PriceTTL
                       IN  \E item, channel : /\ e.key = <<item, channel, Bucket(Instants[t])>>
                                              /\ CostsIn(TablesAt(t, rows', written', past'), t, e.price, item, channel, t)
  <1> DEFINE t == e.until - PriceTTL
  <1>1. /\ e.until \in PriceTTL .. clock + PriceTTL
        /\ ~e.slow => \E item, channel : /\ e.key = <<item, channel, Bucket(Instants[t])>>
                                         /\ CostsIn(Then(t), t, e.price, item, channel, t)
    BY DEF PlatformIInv, PricesAreDated
  <1>2. clock \in Nat /\ clock' \in Nat /\ clock <= clock'
    BY DEF PlatformIInv, Dated, TablesGrow
  <1>3. Then(t) \subseteq TablesAt(t, rows', written', past')
    BY <1>1, <1>2 DEF TablesGrow, PriceTTL
  <1>4. e.until \in PriceTTL .. clock' + PriceTTL
    BY <1>1, <1>2 DEF PriceTTL
  <1> HIDE DEF t
  <1>5. ASSUME ~e.slow
        PROVE  \E item, channel : /\ e.key = <<item, channel, Bucket(Instants[t])>>
                                  /\ CostsIn(TablesAt(t, rows', written', past'), t, e.price, item, channel, t)
    <2>1. PICK item, channel : /\ e.key = <<item, channel, Bucket(Instants[t])>>
                               /\ CostsIn(Then(t), t, e.price, item, channel, t)
      BY <1>1, <1>5
    <2>2. CostsIn(TablesAt(t, rows', written', past'), t, e.price, item, channel, t)
      BY <2>1, <1>3, MoreCosts
    <2>3. QED
      BY <2>1, <2>2
  <1>6. QED
    BY <1>4, <1>5 DEF t

LEMMA PricesKept ==
  ASSUME PlatformIInv, TablesGrow, UNCHANGED priced
  PROVE  PricesAreDated'
  BY PriceKept DEF PricesAreDated, Then

\* The last answer is right by the tables of a tick that its list may be of.
AnswerIsRecent(table, from, before) ==
  said # Nothing /\ ~said.slow =>
    \E t \in said.at - ListTTL .. said.at : MatchedIn(TablesAt(t, table, from, before), said.items, said.filter)

\* Each price of the last cart is right at a tick that it may be of.
PriceIsRecent(n, table, from, before) ==
  \E t \in cart.at - PriceTTL .. cart.at :
    CostsIn(TablesAt(t, table, from, before), t, cart.lines[n].unitPrice,
            cart.input[n].item, cart.input[n].channel, cart.at)

CartIsRecent(table, from, before) ==
  cart # Nothing /\ ~cart.slow => \A n \in DOMAIN cart.lines : PriceIsRecent(n, table, from, before)

\* These are what CachesAreRecent says.
LEMMA RecentByTables ==
  CachesAreRecent <=> AnswerIsRecent(rows, written, past) /\ CartIsRecent(rows, written, past)
  <1>1. AnswersAreRecent <=> AnswerIsRecent(rows, written, past)
    BY DEF AnswersAreRecent, AnswerIsRecent, MatchedIn, During, TablesAt
  <1>2. PricesAreRecent <=> CartIsRecent(rows, written, past)
    BY DEF PricesAreRecent, CartIsRecent, PriceIsRecent, CostsIn, During, TablesAt
  <1>3. QED
    BY <1>1, <1>2 DEF CachesAreRecent

\* An answer that is not followed by another stays right, and so does a cart.
LEMMA SaidKept ==
  ASSUME PlatformIInv, TablesGrow, UNCHANGED said
  PROVE  /\ AnswerIsRecent(rows, written, past)'
         /\ said' # Nothing => said'.at \in 0 .. clock'
  <1>1. clock \in Nat /\ clock' \in Nat /\ clock <= clock'
    BY DEF PlatformIInv, Dated, TablesGrow
  <1>2. said # Nothing => said.at \in 0 .. clock
    BY DEF PlatformIInv, AnswersAreDated
  <1>3. AnswerIsRecent(rows, written, past)
    BY RecentByTables DEF PlatformIInv
  <1>4. ASSUME said # Nothing, ~said.slow
        PROVE  \E t \in said.at - ListTTL .. said.at :
                 MatchedIn(TablesAt(t, rows', written', past'), said.items, said.filter)
    <2>1. PICK t \in said.at - ListTTL .. said.at :
                 MatchedIn(TablesAt(t, rows, written, past), said.items, said.filter)
      BY <1>3, <1>4 DEF AnswerIsRecent
    <2>2. TablesAt(t, rows, written, past) \subseteq TablesAt(t, rows', written', past')
      BY <1>1, <1>2, <1>4, <2>1 DEF TablesGrow, Then, ListTTL
    <2>3. QED
      BY <2>1, <2>2, MoreMatches
  <1>5. QED
    BY <1>1, <1>2, <1>4 DEF AnswerIsRecent

LEMMA CartKept ==
  ASSUME PlatformIInv, TablesGrow, UNCHANGED cart
  PROVE  /\ CartIsRecent(rows, written, past)'
         /\ cart' # Nothing => cart'.at \in 0 .. clock'
  <1>1. clock \in Nat /\ clock' \in Nat /\ clock <= clock'
    BY DEF PlatformIInv, Dated, TablesGrow
  <1>2. cart # Nothing => cart.at \in 0 .. clock
    BY DEF PlatformIInv, AnswersAreDated
  <1>3. CartIsRecent(rows, written, past)
    BY RecentByTables DEF PlatformIInv
  <1>4. ASSUME cart # Nothing, ~cart.slow, NEW n \in DOMAIN cart.lines
        PROVE  \E t \in cart.at - PriceTTL .. cart.at :
                 CostsIn(TablesAt(t, rows', written', past'), t, cart.lines[n].unitPrice,
                         cart.input[n].item, cart.input[n].channel, cart.at)
    <2>1. PICK t \in cart.at - PriceTTL .. cart.at :
                 CostsIn(TablesAt(t, rows, written, past), t, cart.lines[n].unitPrice,
                         cart.input[n].item, cart.input[n].channel, cart.at)
      BY <1>3, <1>4 DEF CartIsRecent, PriceIsRecent
    <2>2. TablesAt(t, rows, written, past) \subseteq TablesAt(t, rows', written', past')
      BY <1>1, <1>2, <1>4, <2>1 DEF TablesGrow, Then, PriceTTL
    <2>3. QED
      BY <2>1, <2>2, MoreCosts
  <1>5. QED
    BY <1>1, <1>2, <1>4 DEF CartIsRecent, PriceIsRecent

\* The parts of the invariant, one by one, in the next state.
LEMMA PlatformParts ==
  ASSUME PlatformIInv, TablesGrow, DOMAIN running' = Slots, DOMAIN listed' = Filters,
         \A c \in Slots : (StepIsKnown(c) /\ ListCallIsDated(c) /\ CartCallIsDated(c))',
         ListsAreDated', PricesAreDated',
         AnswerIsRecent(rows, written, past)', said' # Nothing => said'.at \in 0 .. clock',
         CartIsRecent(rows, written, past)', cart' # Nothing => cart'.at \in 0 .. clock'
  PROVE  PlatformIInv'
  <1>1. CachesAreRecent'
    BY RecentByTables, PTL
  <1>2. Dated'
    BY DEF Dated, TablesGrow
  <1>3. CallsAreDated'
    BY DEF CallsAreDated
  <1>4. QED
    BY <1>1, <1>2, <1>3 DEF PlatformIInv, AnswersAreDated

\* A step that leaves the caches, the last answer and the last cart alone, and
\* of whose calls no other than c moves.
LEMMA OtherwiseKept ==
  ASSUME PlatformIInv, TablesGrow, UNCHANGED <<listed, priced, said, cart>>,
         NEW c \in Slots, NEW r, CallBecomes(c, r),
         (StepIsKnown(c) /\ ListCallIsDated(c) /\ CartCallIsDated(c))'
  PROVE  PlatformIInv'
  <1>1. /\ DOMAIN running' = Slots
        /\ \A d \in Slots \ {c} : running'[d] = running[d]
    BY RunningEffect DEF PlatformIInv
  <1>2. \A d \in Slots : (StepIsKnown(d) /\ ListCallIsDated(d) /\ CartCallIsDated(d))'
    BY <1>1, CallKept
  <1>3. DOMAIN listed' = Filters
    BY DEF PlatformIInv, Dated
  <1>4. QED
    BY <1>1, <1>2, <1>3, ListsKept, PricesKept, SaidKept, CartKept, PlatformParts

\* No call moves.
LEMMA AllKept ==
  ASSUME PlatformIInv, TablesGrow, UNCHANGED <<running, listed, priced, said, cart>>
  PROVE  PlatformIInv'
  <1>1. DOMAIN running' = Slots /\ DOMAIN listed' = Filters
    BY DEF PlatformIInv, Dated
  <1>2. \A d \in Slots : (StepIsKnown(d) /\ ListCallIsDated(d) /\ CartCallIsDated(d))'
    BY CallKept
  <1>3. QED
    BY <1>1, <1>2, ListsKept, PricesKept, SaidKept, CartKept, PlatformParts

\* Nothing is cached, and nobody calls.
LEMMA InitIsDated ==
  ASSUME PlatformInit PROVE PlatformIInv
  <1>1. Dated
    BY PlatformAssumption DEF PlatformInit, Dated
  <1>2. CallsAreDated
    BY DEF PlatformInit, CallsAreDated, StepIsKnown, ListCallIsDated, CartCallIsDated, AtStep
  <1>3. ListsAreDated /\ PricesAreDated
    BY DEF PlatformInit, ListsAreDated, PricesAreDated
  <1>4. AnswersAreDated /\ CachesAreRecent
    BY DEF PlatformInit, AnswersAreDated, CachesAreRecent, AnswersAreRecent, PricesAreRecent
  <1>5. QED
    BY <1>1, <1>2, <1>3, <1>4 DEF PlatformIInv

LEMMA TickKeepsDates ==
  ASSUME PlatformIInv, Tick PROVE PlatformIInv'
  <1>1. TablesGrow
    BY StillGrows DEF PlatformIInv, Tick, tables
  <1>2. QED
    BY <1>1, AllKept DEF Tick, caches

\* The entities: a statement puts a date on the table that it ends.
LEMMA CreateKeepsDates ==
  ASSUME PlatformIInv, NEW i, NEW type, NEW price, Create(i, type, price) PROVE PlatformIInv'
  <1> DEFINE table == [j \in DOMAIN rows \cup {i} |-> IF j = i THEN EntityRow(type, price) ELSE rows[j]]
  <1>1. Replace(table) /\ clock' = clock /\ UNCHANGED <<running, listed, priced, said, cart>>
    BY DEF Create, caches
  <1>2. DOMAIN rows \subseteq DOMAIN table
    OBVIOUS
  <1> HIDE DEF table
  <1>3. TablesGrow
    BY <1>1, <1>2, ReplaceGrows DEF PlatformIInv
  <1>4. QED
    BY <1>1, <1>3, AllKept

LEMMA EditKeepsDates ==
  ASSUME PlatformIInv, NEW c \in Slots, Update(c) \/ SoftDelete(c) PROVE PlatformIInv'
  <1>1. PICK table : Replace(table) /\ DOMAIN table = DOMAIN rows
    <2>1. CASE Update(c)
      <3>1. PICK edited \in Edits(rows[running[c].item]) : Replace([rows EXCEPT ![running[c].item] = edited])
        BY <2>1 DEF Update
      <3>2. QED
        BY <3>1
    <2>2. CASE SoftDelete(c)
      <3>1. PICK table :
              table = [rows EXCEPT ![running[c].item].deleted = TRUE, ![running[c].item].status = "ARCHIVED"]
        OBVIOUS
      <3>2. Replace(table)
        BY <2>2, <3>1 DEF SoftDelete
      <3>3. DOMAIN table = DOMAIN rows
        BY <3>1
      <3>4. QED
        BY <3>2, <3>3
    <2>3. QED
      BY <2>1, <2>2
  <1>2. clock' = clock /\ UNCHANGED <<listed, priced, said, cart>> /\ CallBecomes(c, Nothing)
    BY DEF Update, SoftDelete, caches, EndCall
  <1>3. TablesGrow
    BY <1>1, <1>2, ReplaceGrows DEF PlatformIInv
  <1>4. running'[c] = Nothing
    BY <1>2, RunningEffect DEF PlatformIInv
  <1>5. QED
    BY <1>2, <1>3, <1>4, CallFree, OtherwiseKept

\* A call of a step without dates.
LEMMA FreeStepKeepsDates ==
  ASSUME PlatformIInv, UNCHANGED <<rows, written, past, clock, listed, priced, said, cart>>,
         NEW c \in Slots, NEW r, CallBecomes(c, r),
         r = Nothing \/ ("step" \in DOMAIN r /\ r.step \notin {"list", "liststore", "cart", "adjust"})
  PROVE  PlatformIInv'
  <1>1. TablesGrow
    BY StillGrows DEF PlatformIInv
  <1>2. running'[c] = r
    BY RunningEffect DEF PlatformIInv
  <1>3. QED
    BY <1>1, <1>2, CallFree, OtherwiseKept

LEMMA EndKeepsDates ==
  ASSUME PlatformIInv, UNCHANGED <<rows, written, past, clock, listed, priced, said, cart>>,
         NEW c \in Slots, CallBecomes(c, Nothing)
  PROVE  PlatformIInv'
  <1>1. TablesGrow
    BY StillGrows DEF PlatformIInv
  <1>2. running'[c] = Nothing
    BY RunningEffect DEF PlatformIInv
  <1>3. QED
    BY <1>1, <1>2, CallFree, OtherwiseKept

LEMMA CheckKeepsDates ==
  ASSUME PlatformIInv, NEW c \in Slots, NEW i,
         CheckEntity(c, i, "update") \/ CheckEntity(c, i, "delete")
  PROVE  PlatformIInv'
  <1>1. PICK step \in {"update", "delete"} : CheckEntity(c, i, step)
    OBVIOUS
  <1>2. PICK r : r = [step |-> step, item |-> i]
    OBVIOUS
  <1>3. CallBecomes(c, r) /\ UNCHANGED <<rows, written, past, clock, listed, priced, said, cart>>
    BY <1>1, <1>2 DEF CheckEntity, StartCall, caches, tables
  <1>4. "step" \in DOMAIN r /\ r.step \notin {"list", "liststore", "cart", "adjust"}
    BY <1>1, <1>2
  <1>5. QED
    BY <1>3, <1>4, FreeStepKeepsDates

\* What a sale, a voiding and a receipt do.
LEMMA SaleKeepsDates ==
  ASSUME PlatformIInv, NEW c \in Slots, Commit(c) \/ CommitLine(c) \/ DeductLine(c) \/ CreateSale(c) \/ VoidMark(c)
  PROVE  PlatformIInv'
  <1>1. UNCHANGED <<rows, written, past, clock, listed, priced, said, cart>>
    BY DEF Commit, CommitLine, DeductLine, CreateSale, VoidMark, caches, tables
  <1>2. running[c] # Nothing => "step" \in DOMAIN running[c]
    BY DEF PlatformIInv, CallsAreDated, StepIsKnown
  <1>3. CASE Commit(c)
    <2>1. PICK r : r = [step |-> "commit", lines |-> cart.lines, n |-> 1]
      OBVIOUS
    <2>2. CallBecomes(c, r)
      BY <1>3, <2>1 DEF Commit, StartCall
    <2>3. "step" \in DOMAIN r /\ r.step \notin {"list", "liststore", "cart", "adjust"}
      BY <2>1
    <2>4. QED
      BY <1>1, <2>2, <2>3, FreeStepKeepsDates
  <1>4. CASE CommitLine(c)
    <2>1. PICK r : r = [running[c] EXCEPT !.n = @ + 1]
      OBVIOUS
    <2>2. CallBecomes(c, r) /\ AtStep(c, "commit")
      BY <1>4, <2>1 DEF CommitLine
    <2>3. "step" \in DOMAIN r /\ r.step \notin {"list", "liststore", "cart", "adjust"}
      BY <2>1, <2>2, <1>2 DEF AtStep
    <2>4. QED
      BY <1>1, <2>2, <2>3, FreeStepKeepsDates
  <1>5. CASE DeductLine(c) \/ CreateSale(c) \/ VoidMark(c)
    <2>1. CallBecomes(c, Nothing)
      BY <1>5 DEF DeductLine, CreateSale, VoidMark, EndCall
    <2>2. QED
      BY <1>1, <2>1, EndKeepsDates
  <1>6. QED
    BY <1>3, <1>4, <1>5

LEMMA VoidKeepsDates ==
  ASSUME PlatformIInv, NEW c \in Slots, NEW n, NEW items, Void(c, n, items) PROVE PlatformIInv'
  <1>1. UNCHANGED <<rows, written, past, clock, listed, priced, said, cart>>
    BY DEF Void, caches, tables
  <1>2. \E tracked : CallBecomes(c, [step |-> "void", sale |-> n, items |-> tracked])
    BY DEF Void, StartCall
  <1>3. PICK tracked : CallBecomes(c, [step |-> "void", sale |-> n, items |-> tracked])
    BY <1>2
  <1>4. PICK r : r = [step |-> "void", sale |-> n, items |-> tracked]
    OBVIOUS
  <1>5. CallBecomes(c, r) /\ "step" \in DOMAIN r /\ r.step \notin {"list", "liststore", "cart", "adjust"}
    BY <1>3, <1>4
  <1>6. QED
    BY <1>1, <1>5, FreeStepKeepsDates

\* A call that adjusts knows what it goes on to.
LEMMA AdjustingKeepsDates ==
  ASSUME PlatformIInv, UNCHANGED <<rows, written, past, clock, listed, priced, said, cart>>,
         NEW c \in Slots, NEW r, CallBecomes(c, r),
         "step" \in DOMAIN r, r.step = "adjust",
         r.then = Nothing \/ ("step" \in DOMAIN r.then /\ r.then.step = "void")
  PROVE  PlatformIInv'
  <1>1. TablesGrow
    BY StillGrows DEF PlatformIInv
  <1>2. running'[c] = r
    BY RunningEffect DEF PlatformIInv
  <1>3. (StepIsKnown(c) /\ ListCallIsDated(c) /\ CartCallIsDated(c))'
    BY <1>2 DEF StepIsKnown, ListCallIsDated, CartCallIsDated, AtStep
  <1>4. QED
    BY <1>1, <1>3, OtherwiseKept

LEMMA VoidLineKeepsDates ==
  ASSUME PlatformIInv, NEW c \in Slots, VoidLine(c) PROVE PlatformIInv'
  <1>1. UNCHANGED <<rows, written, past, clock, listed, priced, said, cart>>
    BY DEF VoidLine, caches, tables
  <1>2. "step" \in DOMAIN running[c] /\ running[c].step = "void"
    BY DEF PlatformIInv, CallsAreDated, StepIsKnown, VoidLine, AtStep
  <1>3. PICK next : next = [running[c] EXCEPT !.items = Tail(@)]
    OBVIOUS
  <1>4. PICK r : r = [step |-> "adjust", item |-> Head(running[c].items), quantity |-> 1,
                      found |-> stock[Head(running[c].items)] # <<>>, then |-> next]
    OBVIOUS
  <1>5. CallBecomes(c, r)
    BY <1>3, <1>4 DEF VoidLine
  <1>6. "step" \in DOMAIN next /\ next.step = "void"
    BY <1>2, <1>3
  <1>7. "step" \in DOMAIN r /\ r.step = "adjust" /\ r.then = next
    BY <1>4
  <1>8. QED
    BY <1>1, <1>5, <1>6, <1>7, AdjustingKeepsDates

LEMMA StockKeepsDates ==
  ASSUME PlatformIInv, NEW c \in Slots, NEW i, NEW step \in {"receive", "adjust"}, NEW q,
         StockCall(c, i, step, q)
  PROVE  PlatformIInv'
  <1>1. UNCHANGED <<rows, written, past, clock, listed, priced, said, cart>>
    BY DEF StockCall, caches, tables
  <1>2. PICK r : r = [step |-> step, item |-> i, quantity |-> q, found |-> stock[i] # <<>>, then |-> Nothing]
    OBVIOUS
  <1>3. CallBecomes(c, r)
    BY <1>2 DEF StockCall, StartCall
  <1>4. "step" \in DOMAIN r /\ r.step = step /\ r.then = Nothing
    BY <1>2
  <1>5. CASE step = "receive"
    BY <1>1, <1>3, <1>4, <1>5, FreeStepKeepsDates
  <1>6. CASE step = "adjust"
    BY <1>1, <1>3, <1>4, <1>6, AdjustingKeepsDates
  <1>7. QED
    BY <1>5, <1>6

LEMMA StockStepKeepsDates ==
  ASSUME PlatformIInv, NEW c \in Slots, Receive(c) \/ Record(c) \/ Adjust(c) \/ CallFails(c)
  PROVE  PlatformIInv'
  <1>1. UNCHANGED <<rows, written, past, clock, listed, priced, said, cart>>
    BY DEF Receive, Record, Adjust, CallFails, caches, tables
  <1>2. StepIsKnown(c)
    BY DEF PlatformIInv, CallsAreDated
  <1>3. CASE Receive(c)
    <2>1. PICK r : r = [running[c] EXCEPT !.step = "record"]
      OBVIOUS
    <2>2. CallBecomes(c, r) /\ AtStep(c, "receive")
      BY <1>3, <2>1 DEF Receive
    <2>3. "step" \in DOMAIN r /\ r.step = "record"
      BY <2>1, <2>2, <1>2 DEF AtStep, StepIsKnown
    <2>4. QED
      BY <1>1, <2>2, <2>3, FreeStepKeepsDates
  <1>4. CASE Record(c) \/ CallFails(c)
    <2>1. CallBecomes(c, Nothing)
      BY <1>4 DEF Record, CallFails, EndCall
    <2>2. QED
      BY <1>1, <2>1, EndKeepsDates
  <1>5. CASE Adjust(c)
    <2>0. PICK r : r = running[c].then
      OBVIOUS
    <2>1. CallBecomes(c, r) /\ AtStep(c, "adjust")
      BY <1>5, <2>0 DEF Adjust
    <2>2. r = Nothing \/ ("step" \in DOMAIN r /\ r.step = "void")
      BY <2>0, <2>1, <1>2 DEF StepIsKnown
    <2>3. QED
      BY <1>1, <2>1, <2>2, FreeStepKeepsDates
  <1>6. QED
    BY <1>3, <1>4, <1>5

\* A cached list is answered while its TTL lasts, so it is of a tick that an
\* answer may be of.
LEMMA ListHitKeepsDates ==
  ASSUME PlatformIInv, NEW c \in Slots, NEW f \in Filters, ListHit(c, f) PROVE PlatformIInv'
  <1> DEFINE entry == listed[f]
             t     == entry.until - ListTTL
  <1>1. /\ UNCHANGED <<rows, written, past, clock, listed, priced, cart>>
        /\ CallBecomes(c, Nothing) /\ Tell(f, entry) /\ Fresh(entry)
    BY DEF ListHit, caches, tables, StartCall
  <1>2. TablesGrow
    BY <1>1, StillGrows DEF PlatformIInv
  <1>3. /\ DOMAIN running' = Slots
        /\ running'[c] = Nothing
        /\ \A d \in Slots \ {c} : running'[d] = running[d]
    BY <1>1, RunningEffect DEF PlatformIInv
  <1>4. \A d \in Slots : (StepIsKnown(d) /\ ListCallIsDated(d) /\ CartCallIsDated(d))'
    BY <1>2, <1>3, CallKept, CallFree
  <1>5. clock \in Nat /\ entry.until \in ListTTL .. clock + ListTTL /\ clock < entry.until
    BY <1>1 DEF PlatformIInv, Dated, ListsAreDated, Fresh
  <1>6. ~entry.slow => MatchedIn(Then(t), entry.items, f)
    BY <1>1 DEF PlatformIInv, ListsAreDated, Fresh
  <1>7. /\ said'.at = clock /\ said'.items = entry.items /\ said'.filter = f
        /\ said'.slow = entry.slow
    BY <1>1 DEF Tell
  <1>8. t \in clock - ListTTL .. clock
    BY <1>5 DEF ListTTL
  <1> HIDE DEF t, entry
  <1>9. AnswerIsRecent(rows, written, past)'
    BY <1>1, <1>6, <1>7, <1>8 DEF AnswerIsRecent, Then
  <1>10. said'.at \in 0 .. clock'
    BY <1>1, <1>5, <1>7
  <1>11. DOMAIN listed' = Filters
    BY <1>1 DEF PlatformIInv, Dated
  <1>12. QED
    BY <1>1, <1>2, <1>3, <1>4, <1>9, <1>10, <1>11, ListsKept, PricesKept, CartKept, PlatformParts

LEMMA ListMissKeepsDates ==
  ASSUME PlatformIInv, NEW c \in Slots, NEW f \in Filters, ListMiss(c, f) PROVE PlatformIInv'
  <1>1. PICK r : r = [step |-> "list", filter |-> f]
    OBVIOUS
  <1>2. CallBecomes(c, r) /\ UNCHANGED <<rows, written, past, clock, listed, priced, said, cart>>
    BY <1>1 DEF ListMiss, caches, tables, StartCall
  <1>3. TablesGrow
    BY <1>2, StillGrows DEF PlatformIInv
  <1>4. running'[c] = r
    BY <1>2, RunningEffect DEF PlatformIInv
  <1>5. "step" \in DOMAIN r /\ r.step = "list" /\ r.filter \in Filters
    BY <1>1
  <1>6. (StepIsKnown(c) /\ ListCallIsDated(c) /\ CartCallIsDated(c))'
    BY <1>4, <1>5 DEF StepIsKnown, ListCallIsDated, CartCallIsDated, AtStep
  <1>7. QED
    BY <1>2, <1>3, <1>6, OtherwiseKept

\* What is loaded is what matches now.
LEMMA ListLoadKeepsDates ==
  ASSUME PlatformIInv, NEW c \in Slots, ListLoad(c) PROVE PlatformIInv'
  <1>1. PICK r : r = [step |-> "liststore", filter |-> running[c].filter, at |-> clock,
                      items |-> Matching(rows, running[c].filter)]
    OBVIOUS
  <1>2. CallBecomes(c, r) /\ UNCHANGED <<rows, written, past, clock, listed, priced, said, cart>>
    BY <1>1 DEF ListLoad, caches, tables
  <1>3. TablesGrow
    BY <1>2, StillGrows DEF PlatformIInv
  <1>4. running'[c] = r
    BY <1>2, RunningEffect DEF PlatformIInv
  <1>5. running[c].filter \in Filters /\ clock \in Nat
    BY DEF PlatformIInv, Dated, CallsAreDated, ListCallIsDated, ListLoad
  <1>6. "step" \in DOMAIN r /\ r.step = "liststore" /\ r.filter \in Filters /\ r.at = clock
        /\ r.items = Matching(rows, r.filter)
    BY <1>1, <1>5
  <1>7. MatchedIn(TablesAt(r.at, rows', written', past'), r.items, r.filter)
    BY <1>2, <1>6, RowsAreThen DEF PlatformIInv, MatchedIn, Then
  <1>8. (StepIsKnown(c) /\ ListCallIsDated(c) /\ CartCallIsDated(c))'
    BY <1>2, <1>4, <1>5, <1>6, <1>7 DEF StepIsKnown, ListCallIsDated, CartCallIsDated, AtStep, Then
  <1>9. QED
    BY <1>2, <1>3, <1>8, OtherwiseKept

\* A list that is stored in the tick of its loading is of the tick from which
\* its TTL counts.
LEMMA ListStoreKeepsDates ==
  ASSUME PlatformIInv, NEW c \in Slots, ListStore(c) PROVE PlatformIInv'
  <1> DEFINE f == running[c].filter
  <1>1. PICK entry : entry = [items |-> running[c].items, until |-> clock + ListTTL, slow |-> clock # running[c].at]
    OBVIOUS
  <1>2. /\ UNCHANGED <<rows, written, past, clock, priced, cart>>
        /\ listed' = [listed EXCEPT ![f] = entry] /\ Tell(f, entry) /\ CallBecomes(c, Nothing)
    BY <1>1 DEF ListStore, tables, EndCall
  <1>3. TablesGrow
    BY <1>2, StillGrows DEF PlatformIInv
  <1>4. /\ DOMAIN running' = Slots
        /\ running'[c] = Nothing
        /\ \A d \in Slots \ {c} : running'[d] = running[d]
    BY <1>2, RunningEffect DEF PlatformIInv
  <1>5. \A d \in Slots : (StepIsKnown(d) /\ ListCallIsDated(d) /\ CartCallIsDated(d))'
    BY <1>3, <1>4, CallKept, CallFree
  <1>6. /\ f \in Filters /\ running[c].at \in 0 .. clock /\ clock \in Nat
        /\ MatchedIn(Then(running[c].at), running[c].items, f)
    BY DEF PlatformIInv, Dated, CallsAreDated, ListCallIsDated, ListStore
  <1>7. /\ entry.items = running[c].items /\ entry.until = clock + ListTTL
        /\ ~entry.slow => clock = running[c].at
    BY <1>1
  <1>8. ~entry.slow => MatchedIn(Then(clock), entry.items, f)
    BY <1>6, <1>7
  <1>9. /\ said'.at = clock /\ said'.items = entry.items /\ said'.filter = f
        /\ said'.slow = entry.slow
    BY <1>2 DEF Tell
  <1> HIDE DEF f
  <1>10. clock \in clock - ListTTL .. clock
    BY <1>6 DEF ListTTL
  <1>11. AnswerIsRecent(rows, written, past)'
    BY <1>2, <1>8, <1>9, <1>10 DEF AnswerIsRecent, Then
  <1>12. said'.at \in 0 .. clock'
    BY <1>2, <1>6, <1>9
  <1>13. DOMAIN listed = Filters /\ DOMAIN listed' = Filters
    BY <1>2 DEF PlatformIInv, Dated
  <1>14. ListsAreDated'
    <2>1. SUFFICES ASSUME NEW g \in Filters, listed'[g] # Nothing
                   PROVE  /\ listed'[g].until \in ListTTL .. clock + ListTTL
                          /\ ~listed'[g].slow => MatchedIn(Then(listed'[g].until - ListTTL), listed'[g].items, g)
      BY <1>2 DEF ListsAreDated, Then
    <2>2. CASE g = f
      <3>1. listed'[g] = entry /\ entry.until - ListTTL = clock
        BY <1>2, <1>6, <1>7, <1>13, <2>2 DEF ListTTL
      <3>2. QED
        BY <1>6, <1>7, <1>8, <2>2, <3>1 DEF ListTTL
    <2>3. CASE g # f
      BY <1>2, <1>13, <2>1, <2>3 DEF PlatformIInv, ListsAreDated
    <2>4. QED
      BY <2>2, <2>3
  <1>15. QED
    BY <1>2, <1>3, <1>4, <1>5, <1>11, <1>12, <1>13, <1>14, PricesKept, CartKept, PlatformParts

-----------------------------------------------------------------------------
(* Carts. *)

\* What is known of the price of one line of a cart: r is its state, at the tick
\* of the cart.
PriceIsDated(r, line, at) ==
  /\ r.step = "set" /\ clock = at =>
       CostsIn(Then(at), at, r.price, line.item, line.channel, at)
  /\ r.step = "done" /\ clock = at /\ ~r.slow =>
       \E t \in at - PriceTTL .. at : CostsIn(Then(t), t, r.price, line.item, line.channel, at)

\* The price of one line moves, and nothing else of the call.
LEMMA PriceEffect ==
  ASSUME PlatformIInv, NEW c \in Slots, AtStep(c, "cart"), NEW n \in DOMAIN running[c].lines, NEW r,
         PriceBecomes(c, n, r)
  PROVE  /\ DOMAIN running' = Slots
         /\ \A d \in Slots \ {c} : running'[d] = running[d]
         /\ DOMAIN running'[c] = {"step", "lines", "at", "price"}
         /\ running'[c].step = "cart" /\ running'[c].lines = running[c].lines /\ running'[c].at = running[c].at
         /\ DOMAIN running'[c].price = DOMAIN running[c].lines
         /\ running'[c].price[n] = r
         /\ \A m \in DOMAIN running[c].lines \ {n} : running'[c].price[m] = running[c].price[m]
  <1>1. /\ DOMAIN running[c] = {"step", "lines", "at", "price"}
        /\ DOMAIN running[c].price = DOMAIN running[c].lines
        /\ DOMAIN running = Slots
    BY DEF PlatformIInv, Dated, CallsAreDated, CartCallIsDated
  <1>2. PICK price : price = [running[c].price EXCEPT ![n] = r]
    OBVIOUS
  <1>3. PICK moved1 : moved1 = [running[c] EXCEPT !.price = price]
    OBVIOUS
  <1>4. running' = [running EXCEPT ![c] = moved1]
    BY <1>2, <1>3 DEF PriceBecomes
  <1>5. DOMAIN price = DOMAIN running[c].lines /\ price[n] = r
        /\ \A m \in DOMAIN running[c].lines \ {n} : price[m] = running[c].price[m]
    BY <1>1, <1>2
  <1>6. /\ DOMAIN moved1 = {"step", "lines", "at", "price"} /\ moved1.price = price
        /\ moved1.step = "cart" /\ moved1.lines = running[c].lines /\ moved1.at = running[c].at
    BY <1>1, <1>3 DEF AtStep
  <1>7. DOMAIN running' = Slots /\ running'[c] = moved1 /\ \A d \in Slots \ {c} : running'[d] = running[d]
    BY <1>1, <1>4
  <1>8. QED
    BY <1>5, <1>6, <1>7

LEMMA PriceStepKeepsDates ==
  ASSUME PlatformIInv, NEW c \in Slots, AtStep(c, "cart"), NEW n \in DOMAIN running[c].lines, NEW r,
         PriceBecomes(c, n, r), PriceIsDated(r, running[c].lines[n], running[c].at), PricesAreDated'
  PROVE  PlatformIInv'
  <1>1. UNCHANGED <<rows, written, past, clock, listed, said, cart>>
    BY DEF PriceBecomes, tables
  <1>2. TablesGrow
    BY <1>1, StillGrows DEF PlatformIInv
  <1>3. /\ DOMAIN running' = Slots
        /\ \A d \in Slots \ {c} : running'[d] = running[d]
        /\ DOMAIN running'[c] = {"step", "lines", "at", "price"}
        /\ running'[c].step = "cart" /\ running'[c].lines = running[c].lines /\ running'[c].at = running[c].at
        /\ DOMAIN running'[c].price = DOMAIN running[c].lines
        /\ running'[c].price[n] = r
        /\ \A m \in DOMAIN running[c].lines \ {n} : running'[c].price[m] = running[c].price[m]
    BY PriceEffect
  <1>4. /\ running[c].at \in 0 .. clock
        /\ \A m \in DOMAIN running[c].lines : LineIsDated(c, m)
    BY DEF PlatformIInv, CallsAreDated, CartCallIsDated
  <1>5. ASSUME NEW m \in DOMAIN running[c].lines PROVE LineIsDated(c, m)'
    <2>1. LineIsDated(c, m)
      BY <1>4
    <2>2. CASE m = n
      BY <1>1, <1>3, <2>1, <2>2 DEF LineIsDated, PriceIsDated, Then
    <2>3. CASE m # n
      BY <1>1, <1>3, <2>1, <2>3 DEF LineIsDated, Then
    <2>4. QED
      BY <2>2, <2>3
  <1>6. CartCallIsDated(c)'
    BY <1>1, <1>3, <1>4, <1>5 DEF CartCallIsDated
  <1>7. StepIsKnown(c)' /\ ListCallIsDated(c)'
    BY <1>3 DEF StepIsKnown, ListCallIsDated, AtStep
  <1>8. \A d \in Slots : (StepIsKnown(d) /\ ListCallIsDated(d) /\ CartCallIsDated(d))'
    BY <1>2, <1>3, <1>6, <1>7, CallKept
  <1>9. DOMAIN listed' = Filters
    BY <1>1 DEF PlatformIInv, Dated
  <1>10. QED
    BY <1>1, <1>2, <1>3, <1>8, <1>9, ListsKept, SaidKept, CartKept, PlatformParts

\* The price of another key is never found, so what is found is of the line's
\* item, channel and quarter, and of a tick within its TTL.
LEMMA PriceHitKeepsDates ==
  ASSUME PlatformIInv, NEW c \in Slots, NEW n, PriceHit(c, n) PROVE PlatformIInv'
  <1> DEFINE line == running[c].lines[n]
             at   == running[c].at
  <1>1. AtStep(c, "cart") /\ n \in DOMAIN running[c].lines
    BY DEF PriceHit, PriceIs
  <1>2. PICK e \in Cached(c, n) : PriceBecomes(c, n, [step |-> "done", price |-> e.price, slow |-> e.slow])
    BY DEF PriceHit
  <1>3. PICK r : r = [step |-> "done", price |-> e.price, slow |-> e.slow]
    OBVIOUS
  <1>4. PriceBecomes(c, n, r) /\ r.step = "done" /\ r.price = e.price /\ r.slow = e.slow
    BY <1>2, <1>3
  <1>5. e \in priced /\ e.key = PriceKey(line, at) /\ clock < e.until
    BY <1>2 DEF Cached
  <1>6. PriceIsDated(r, line, at)
    <2>1. SUFFICES ASSUME clock = at, ~e.slow
                   PROVE  \E t \in at - PriceTTL .. at : CostsIn(Then(t), t, e.price, line.item, line.channel, at)
      BY <1>4 DEF PriceIsDated
    <2> DEFINE t == e.until - PriceTTL
    <2>2. clock \in Nat /\ e.until \in PriceTTL .. clock + PriceTTL
      BY <1>5 DEF PlatformIInv, Dated, PricesAreDated
    <2>3. t \in at - PriceTTL .. at
      BY <1>5, <2>1, <2>2 DEF PriceTTL
    <2>4. PICK item, channel : /\ e.key = <<item, channel, Bucket(Instants[t])>>
                               /\ CostsIn(Then(t), t, e.price, item, channel, t)
      BY <1>5, <2>1 DEF PlatformIInv, PricesAreDated
    <2> HIDE DEF t
    <2>5. item = line.item /\ channel = line.channel /\ Bucket(Instants[t]) = Bucket(Instants[at])
      BY <1>5, <2>4 DEF PriceKey
    <2>6. CostsIn(Then(t), t, e.price, line.item, line.channel, at)
      BY <2>4, <2>5 DEF CostsIn
    <2>7. QED
      BY <2>3, <2>6
  <1>7. TablesGrow /\ UNCHANGED priced
    BY <1>4, StillGrows DEF PlatformIInv, PriceHit, PriceBecomes, tables
  <1>8. PricesAreDated'
    BY <1>7, PricesKept
  <1>9. QED
    BY <1>1, <1>4, <1>6, <1>8, PriceStepKeepsDates

LEMMA PriceMissKeepsDates ==
  ASSUME PlatformIInv, NEW c \in Slots, NEW n, PriceMiss(c, n) PROVE PlatformIInv'
  <1>1. AtStep(c, "cart") /\ n \in DOMAIN running[c].lines
    BY DEF PriceMiss, PriceIs
  <1>2. PICK r : r = [step |-> "load"]
    OBVIOUS
  <1>3. PriceBecomes(c, n, r) /\ r.step = "load"
    BY <1>2 DEF PriceMiss
  <1>4. PriceIsDated(r, running[c].lines[n], running[c].at)
    BY <1>3 DEF PriceIsDated
  <1>5. TablesGrow /\ UNCHANGED priced
    BY <1>3, StillGrows DEF PlatformIInv, PriceMiss, PriceBecomes, tables
  <1>6. PricesAreDated'
    BY <1>5, PricesKept
  <1>7. QED
    BY <1>1, <1>3, <1>4, <1>6, PriceStepKeepsDates

\* What is loaded is what the entity costs now, at the time of the cart.
LEMMA PriceLoadKeepsDates ==
  ASSUME PlatformIInv, NEW c \in Slots, NEW n, PriceLoad(c, n) PROVE PlatformIInv'
  <1> DEFINE line == running[c].lines[n]
             at   == running[c].at
  <1>1. AtStep(c, "cart") /\ n \in DOMAIN running[c].lines
    BY DEF PriceLoad, PriceIs
  <1>2. PICK r : r = [step |-> "set", price |-> FinalPrice(rows[line.item], line.channel, Instants[at])]
    OBVIOUS
  <1>3. PriceBecomes(c, n, r)
    BY <1>2 DEF PriceLoad
  <1>4. r.step = "set" /\ r.price = FinalPrice(rows[line.item], line.channel, Instants[at])
    BY <1>2
  <1>5. line.item \in DOMAIN rows
    BY <1>1 DEF PlatformIInv, CallsAreDated, CartCallIsDated, LineIsDated
  <1>6. PriceIsDated(r, line, at)
    <2>1. SUFFICES ASSUME clock = at
                   PROVE  CostsIn(Then(at), at, r.price, line.item, line.channel, at)
      BY <1>4 DEF PriceIsDated
    <2>2. rows \in Then(at)
      BY <2>1, RowsAreThen DEF PlatformIInv
    <2>3. QED
      BY <1>4, <1>5, <2>2 DEF CostsIn
  <1>7. TablesGrow /\ UNCHANGED priced
    BY <1>3, StillGrows DEF PlatformIInv, PriceLoad, PriceBecomes, tables
  <1>8. PricesAreDated'
    BY <1>7, PricesKept
  <1>9. QED
    BY <1>1, <1>3, <1>6, <1>8, PriceStepKeepsDates

\* A price that is stored in the tick of the cart is of the tick from which its
\* TTL counts.
LEMMA PriceStoreKeepsDates ==
  ASSUME PlatformIInv, NEW c \in Slots, NEW n, PriceStore(c, n) PROVE PlatformIInv'
  <1> DEFINE line == running[c].lines[n]
             at   == running[c].at
             old  == running[c].price[n].price
  <1>1. AtStep(c, "cart") /\ n \in DOMAIN running[c].lines /\ running[c].price[n].step = "set"
    BY DEF PriceStore, PriceIs
  <1>2. PICK r : r = [step |-> "done", price |-> old, slow |-> clock # at]
    OBVIOUS
  <1>3. PICK new : new = [key |-> PriceKey(line, at), price |-> old, until |-> clock + PriceTTL,
                          slow |-> clock # at]
    OBVIOUS
  <1>4. PriceBecomes(c, n, r) /\ priced' = {e \in priced : e.key # PriceKey(line, at)} \cup {new}
    BY <1>2, <1>3 DEF PriceStore
  <1>5. r.step = "done" /\ r.price = old
    BY <1>2
  <1>6. /\ new.key = PriceKey(line, at) /\ new.price = old /\ new.until = clock + PriceTTL
        /\ ~new.slow => clock = at
    BY <1>3
  <1>7. LineIsDated(c, n) /\ at \in 0 .. clock /\ clock \in Nat
    BY <1>1 DEF PlatformIInv, Dated, CallsAreDated, CartCallIsDated
  <1>8. clock = at => CostsIn(Then(at), at, old, line.item, line.channel, at)
    BY <1>1, <1>7 DEF LineIsDated
  <1>9. PriceIsDated(r, line, at)
    <2>1. at \in at - PriceTTL .. at
      BY <1>7 DEF PriceTTL
    <2>2. QED
      BY <1>5, <1>8, <2>1 DEF PriceIsDated
  <1>10. TablesGrow /\ UNCHANGED <<rows, written, past, clock>>
    BY <1>4, StillGrows DEF PlatformIInv, PriceBecomes, tables
  <1>11. PricesAreDated'
    <2>1. SUFFICES ASSUME NEW e \in priced'
                   PROVE  /\ e.until \in PriceTTL .. clock' + PriceTTL
                          /\ ~e.slow => LET t == e.until - PriceTTL
                                        IN  \E item, channel :
                                              /\ e.key = <<item, channel, Bucket(Instants[t])>>
                                              /\ CostsIn(TablesAt(t, rows', written', past'), t, e.price,
                                                         item, channel, t)
      BY DEF PricesAreDated, Then
    <2>2. CASE e \in priced
      BY <1>10, <2>2, PriceKept
    <2>3. CASE e = new
      <3>1. e.until \in PriceTTL .. clock' + PriceTTL
        BY <1>6, <1>7, <1>10, <2>3 DEF PriceTTL
      <3>2. e.until - PriceTTL = clock
        BY <1>6, <1>7, <2>3 DEF PriceTTL
      <3>3. ASSUME ~e.slow
            PROVE  /\ e.key = <<line.item, line.channel, Bucket(Instants[clock])>>
                   /\ CostsIn(TablesAt(clock, rows', written', past'), clock, e.price, line.item, line.channel, clock)
        <4>1. clock = at
          BY <1>6, <2>3, <3>3
        <4>2. CostsIn(Then(clock), clock, e.price, line.item, line.channel, clock)
          BY <1>6, <1>8, <2>3, <4>1
        <4>3. QED
          BY <1>6, <1>10, <2>3, <4>1, <4>2 DEF PriceKey, Then
      <3>4. QED
        BY <3>1, <3>2, <3>3
    <2>4. QED
      BY <1>4, <2>1, <2>2, <2>3
  <1>12. QED
    BY <1>1, <1>4, <1>9, <1>11, PriceStepKeepsDates

LEMMA BuildCartKeepsDates ==
  ASSUME PlatformIInv, NEW c \in Slots, NEW lines, BuildCart(c, lines) PROVE PlatformIInv'
  <1>1. PICK prices : prices = [n \in DOMAIN lines |-> [step |-> "get"]]
    OBVIOUS
  <1>2. PICK r : r = [step |-> "cart", lines |-> lines, at |-> clock, price |-> prices]
    OBVIOUS
  <1>3. /\ CallBecomes(c, r) /\ \A n \in DOMAIN lines : lines[n].item \in DOMAIN rows
        /\ UNCHANGED <<rows, written, past, clock, listed, priced, said, cart>>
    BY <1>1, <1>2 DEF BuildCart, StartCall, There, caches, tables
  <1>4. TablesGrow
    BY <1>3, StillGrows DEF PlatformIInv
  <1>5. running'[c] = r
    BY <1>3, RunningEffect DEF PlatformIInv
  <1>6. /\ DOMAIN r = {"step", "lines", "at", "price"} /\ r.step = "cart" /\ r.at = clock /\ r.lines = lines
        /\ r.price = prices
    BY <1>2
  <1>7. DOMAIN prices = DOMAIN lines /\ \A n \in DOMAIN lines : prices[n].step = "get"
    BY <1>1
  <1>8. \A n \in DOMAIN lines : LineIsDated(c, n)'
    BY <1>3, <1>5, <1>6, <1>7 DEF LineIsDated
  <1>9. clock \in Nat
    BY DEF PlatformIInv, Dated
  <1>10. (StepIsKnown(c) /\ ListCallIsDated(c) /\ CartCallIsDated(c))'
    <2>1. CartCallIsDated(c)'
      BY <1>3, <1>5, <1>6, <1>7, <1>8, <1>9 DEF CartCallIsDated
    <2>2. StepIsKnown(c)' /\ ListCallIsDated(c)'
      BY <1>5, <1>6 DEF StepIsKnown, ListCallIsDated, AtStep
    <2>3. QED
      BY <2>1, <2>2
  <1>11. QED
    BY <1>3, <1>4, <1>10, OtherwiseKept

\* A cart all of whose prices were right is built in the tick of the call, or is
\* slow.
LEMMA CartIsPricedKeepsDates ==
  ASSUME PlatformIInv, NEW c \in Slots, CartIsPriced(c) PROVE PlatformIInv'
  <1> DEFINE input == running[c].lines
             at    == running[c].at
             class(n) == TaxClass(Classes, rows[input[n].item].taxClass)
  <1>1. PICK lines : lines = [n \in DOMAIN input |-> PricedLine(input[n], running[c].price[n].price, class(n))]
    OBVIOUS
  <1>2. PICK new : new = [lines |-> lines, input |-> input, totals |-> CartTotals(lines), at |-> at,
                          slow |-> \E n \in DOMAIN lines : running[c].price[n].slow \/ clock # at]
    OBVIOUS
  <1>3. /\ UNCHANGED <<rows, written, past, clock, listed, priced, said>>
        /\ cart' = new /\ CallBecomes(c, Nothing) /\ AtStep(c, "cart")
        /\ \A n \in DOMAIN input : running[c].price[n].step = "done"
    BY <1>1, <1>2 DEF CartIsPriced, EndCall, caches, tables
  <1>4. TablesGrow
    BY <1>3, StillGrows DEF PlatformIInv
  <1>5. /\ DOMAIN running' = Slots
        /\ running'[c] = Nothing
        /\ \A d \in Slots \ {c} : running'[d] = running[d]
    BY <1>3, RunningEffect DEF PlatformIInv
  <1>6. \A d \in Slots : (StepIsKnown(d) /\ ListCallIsDated(d) /\ CartCallIsDated(d))'
    BY <1>4, <1>5, CallKept, CallFree
  <1>7. /\ at \in 0 .. clock
        /\ \A n \in DOMAIN input : LineIsDated(c, n)
    BY <1>3 DEF PlatformIInv, CallsAreDated, CartCallIsDated
  <1>8. /\ new.lines = lines /\ new.input = input /\ new.at = at
        /\ ~new.slow => \A n \in DOMAIN lines : ~running[c].price[n].slow /\ clock = at
    BY <1>2
  <1>9. /\ DOMAIN lines = DOMAIN input
        /\ \A n \in DOMAIN input : lines[n].unitPrice = running[c].price[n].price
    BY <1>1 DEF PricedLine
  <1>10. ASSUME ~new.slow, NEW n \in DOMAIN input
         PROVE  \E t \in at - PriceTTL .. at :
                  CostsIn(Then(t), t, lines[n].unitPrice, input[n].item, input[n].channel, at)
    <2>1. clock = at /\ ~running[c].price[n].slow /\ running[c].price[n].step = "done"
      BY <1>3, <1>8, <1>9, <1>10
    <2>2. LineIsDated(c, n)
      BY <1>7
    <2>3. QED
      BY <1>9, <2>1, <2>2 DEF LineIsDated
  <1>11. CartIsRecent(rows, written, past)'
    BY <1>3, <1>8, <1>9, <1>10 DEF CartIsRecent, PriceIsRecent, Then
  <1>12. cart'.at \in 0 .. clock' /\ DOMAIN listed' = Filters
    BY <1>3, <1>7, <1>8 DEF PlatformIInv, Dated
  <1>13. QED
    BY <1>3, <1>4, <1>5, <1>6, <1>11, <1>12, ListsKept, PricesKept, SaidKept, PlatformParts

\* The invariant is inductive.
LEMMA PlatformStepKeepsDates ==
  ASSUME PlatformIInv, [PlatformNext]_platformVars PROVE PlatformIInv'
  <1>1. CASE UNCHANGED platformVars
    <2>1. UNCHANGED <<rows, written, past, clock, running, listed, priced, said, cart>>
      BY <1>1 DEF platformVars
    <2>2. TablesGrow
      BY <2>1, StillGrows DEF PlatformIInv
    <2>3. QED
      BY <2>1, <2>2, AllKept
  <1>2. CASE Tick
    BY <1>2, TickKeepsDates
  <1>3. ASSUME NEW i \in Items, NEW p \in Prices, NEW type \in ForTenant(tenant).supported, Create(i, type, p)
        PROVE  PlatformIInv'
    BY <1>3, CreateKeepsDates
  <1>4. ASSUME NEW c \in Slots, NEW f \in Filters, ListHit(c, f) \/ ListMiss(c, f)
        PROVE  PlatformIInv'
    BY <1>4, ListHitKeepsDates, ListMissKeepsDates
  <1>5. ASSUME NEW c \in Slots, ListLoad(c) \/ ListStore(c)
        PROVE  PlatformIInv'
    BY <1>5, ListLoadKeepsDates, ListStoreKeepsDates
  <1>6. ASSUME NEW c \in Slots, NEW i \in Items, CheckEntity(c, i, "update") \/ CheckEntity(c, i, "delete")
        PROVE  PlatformIInv'
    BY <1>6, CheckKeepsDates
  <1>7. ASSUME NEW c \in Slots, Update(c) \/ SoftDelete(c)
        PROVE  PlatformIInv'
    BY <1>7, EditKeepsDates
  <1>8. ASSUME NEW c \in Slots, NEW lines \in Carts, BuildCart(c, lines)
        PROVE  PlatformIInv'
    BY <1>8, BuildCartKeepsDates
  <1>9. ASSUME NEW c \in Slots, Pricing(c)
        PROVE  PlatformIInv'
    BY <1>9, PriceHitKeepsDates, PriceMissKeepsDates, PriceLoadKeepsDates, PriceStoreKeepsDates DEF Pricing
  <1>10. ASSUME NEW c \in Slots, CartIsPriced(c)
         PROVE  PlatformIInv'
    BY <1>10, CartIsPricedKeepsDates
  <1>11. ASSUME NEW c \in Slots, Commit(c) \/ CommitLine(c) \/ DeductLine(c) \/ CreateSale(c) \/ VoidMark(c)
         PROVE  PlatformIInv'
    BY <1>11, SaleKeepsDates
  <1>12. ASSUME NEW c \in Slots, NEW n, NEW items, Void(c, n, items)
         PROVE  PlatformIInv'
    BY <1>12, VoidKeepsDates
  <1>13. ASSUME NEW c \in Slots, VoidLine(c)
         PROVE  PlatformIInv'
    BY <1>13, VoidLineKeepsDates
  <1>14. ASSUME NEW c \in Slots, NEW i \in Items, NEW q,
                StockCall(c, i, "receive", q) \/ StockCall(c, i, "adjust", q)
         PROVE  PlatformIInv'
    BY <1>14, StockKeepsDates
  <1>15. ASSUME NEW c \in Slots, Receive(c) \/ Record(c) \/ Adjust(c) \/ CallFails(c)
         PROVE  PlatformIInv'
    BY <1>15, StockStepKeepsDates
  <1>16. QED
    BY <1>1, <1>2, <1>3, <1>4, <1>5, <1>6, <1>7, <1>8, <1>9, <1>10, <1>11, <1>12, <1>13, <1>14, <1>15
       DEF PlatformNext

\* CachesAreRecent: what findAll answers matched at some moment of the last
\* minute, and each price of a cart was that of its channel, in the same quarter
\* of an hour, at some moment of the last half minute; whatever is edited,
\* deleted, cached and priced at once.
THEOREM CachedAnswersAreRecent ==
  PlatformSpec => []CachesAreRecent
  <1>1. PlatformIInv => CachesAreRecent
    BY DEF PlatformIInv
  <1>2. QED
    BY <1>1, InitIsDated, PlatformStepKeepsDates, PTL DEF PlatformSpec

-----------------------------------------------------------------------------
(* The blueprints. *)

\* A field of a step that every tenant takes is asked for.
LEMMA StepIsAsked ==
  ASSUME NEW blueprint, NEW type \in DOMAIN blueprint.steps,
         NEW i \in DOMAIN blueprint.steps[type], blueprint.steps[type][i].needs = {}
  PROVE  blueprint.steps[type][i].fields \subseteq Asked(blueprint, type)
  BY DEF Asked, Entry

\* What BlueprintIsCoherent asks of one type.
TypeIsCoherent(blueprint, type) ==
  /\ blueprint.required[type] \subseteq Asked(blueprint, type)
  /\ "CAN_GENERATE_KITCHEN_TICKET" \in blueprint.capabilities[type] => "kitchen" \in blueprint.engines
  /\ "CAN_REQUIRE_BOOKING" \in blueprint.capabilities[type] => "booking" \in blueprint.engines

LEMMA RestaurantIsCoherent ==
  ASSUME NEW type \in DOMAIN Restaurant.capabilities PROVE TypeIsCoherent(Restaurant, type)
  <1>1. /\ Restaurant.capabilities = RestaurantCapabilities /\ Restaurant.steps = RestaurantSteps
        /\ Restaurant.required = RestaurantRequired /\ Restaurant.engines = {"kitchen"}
    BY DEF Restaurant, Blueprint
  <1>2. type \in {"MENU_ITEM", "INGREDIENT", "MODIFIER", "COMBO"}
    BY <1>1 DEF RestaurantCapabilities
  <1>3. "CAN_REQUIRE_BOOKING" \notin RestaurantCapabilities[type]
    BY <1>2 DEF RestaurantCapabilities
  <1>4. RestaurantRequired[type] \subseteq Asked(Restaurant, type)
    <2>1. type \in DOMAIN RestaurantSteps
      BY <1>2 DEF RestaurantSteps
    <2>2. \A i \in DOMAIN RestaurantSteps[type] : RestaurantSteps[type][i].needs = {}
      BY <1>2 DEF RestaurantSteps, WizardStep
    <2>3. \A i \in DOMAIN RestaurantSteps[type] : RestaurantSteps[type][i].fields \subseteq Asked(Restaurant, type)
      BY <1>1, <2>1, <2>2, StepIsAsked
    <2>4. CASE type = "MENU_ITEM"
      <3>1. /\ 1 \in DOMAIN RestaurantSteps[type] /\ {"name", "category"} \subseteq RestaurantSteps[type][1].fields
            /\ 2 \in DOMAIN RestaurantSteps[type] /\ {"base_price", "tax_class"} \subseteq RestaurantSteps[type][2].fields
        BY <2>4 DEF RestaurantSteps, WizardStep
      <3>2. RestaurantRequired[type] = {"name", "base_price", "tax_class", "category"}
        BY <2>4 DEF RestaurantRequired
      <3>3. QED
        BY <2>3, <3>1, <3>2
    <2>5. CASE type \in {"INGREDIENT", "MODIFIER"}
      <3>1. 1 \in DOMAIN RestaurantSteps[type] /\ RestaurantRequired[type] \subseteq RestaurantSteps[type][1].fields
        BY <2>5 DEF RestaurantSteps, RestaurantRequired, WizardStep
      <3>2. QED
        BY <2>3, <3>1
    <2>6. CASE type = "COMBO"
      <3>1. /\ 1 \in DOMAIN RestaurantSteps[type] /\ "name" \in RestaurantSteps[type][1].fields
            /\ 3 \in DOMAIN RestaurantSteps[type] /\ {"base_price", "tax_class"} \subseteq RestaurantSteps[type][3].fields
        BY <2>6 DEF RestaurantSteps, WizardStep
      <3>2. RestaurantRequired[type] = {"name", "base_price", "tax_class"}
        BY <2>6 DEF RestaurantRequired
      <3>3. QED
        BY <2>3, <3>1, <3>2
    <2>7. QED
      BY <1>2, <2>4, <2>5, <2>6
  <1>5. QED
    BY <1>1, <1>3, <1>4 DEF TypeIsCoherent

\* The second step of a product is for tenants with variants, and asks for
\* nothing that is required.
LEMMA FashionIsCoherent ==
  ASSUME NEW type \in DOMAIN Fashion.capabilities PROVE TypeIsCoherent(Fashion, type)
  <1>1. /\ Fashion.capabilities = FashionCapabilities /\ Fashion.steps = FashionSteps
        /\ Fashion.required = FashionRequired /\ Fashion.engines = {}
    BY DEF Fashion, Blueprint
  <1>2. type \in {"PRODUCT", "BUNDLE"} /\ type \in DOMAIN FashionSteps
    BY <1>1 DEF FashionCapabilities, FashionSteps
  <1>3. "CAN_REQUIRE_BOOKING" \notin FashionCapabilities[type]
        /\ "CAN_GENERATE_KITCHEN_TICKET" \notin FashionCapabilities[type]
    BY <1>2 DEF FashionCapabilities
  <1>4. FashionRequired[type] \subseteq Asked(Fashion, type)
    <2>1. /\ 1 \in DOMAIN FashionSteps[type] /\ FashionSteps[type][1].needs = {}
          /\ 3 \in DOMAIN FashionSteps[type] /\ FashionSteps[type][3].needs = {}
      BY <1>2 DEF FashionSteps, WizardStep
    <2>2. /\ FashionSteps[type][1].fields \subseteq Asked(Fashion, type)
          /\ FashionSteps[type][3].fields \subseteq Asked(Fashion, type)
      BY <1>1, <1>2, <2>1, StepIsAsked
    <2>3. CASE type = "PRODUCT"
      <3>1. /\ {"name", "category"} \subseteq FashionSteps[type][1].fields
            /\ {"base_price", "tax_class", "cost_price"} \subseteq FashionSteps[type][3].fields
        BY <2>3 DEF FashionSteps, WizardStep
      <3>2. FashionRequired[type] = {"name", "base_price", "tax_class", "category", "cost_price"}
        BY <2>3 DEF FashionRequired
      <3>3. QED
        BY <2>2, <3>1, <3>2
    <2>4. CASE type = "BUNDLE"
      <3>1. /\ "name" \in FashionSteps[type][1].fields
            /\ {"base_price", "tax_class"} \subseteq FashionSteps[type][3].fields
        BY <2>4 DEF FashionSteps, WizardStep
      <3>2. FashionRequired[type] = {"name", "base_price", "tax_class"}
        BY <2>4 DEF FashionRequired
      <3>3. QED
        BY <2>2, <3>1, <3>2
    <2>5. QED
      BY <1>2, <2>3, <2>4
  <1>5. QED
    BY <1>1, <1>3, <1>4 DEF TypeIsCoherent

LEMMA SpaIsCoherent ==
  ASSUME NEW type \in DOMAIN Spa.capabilities PROVE TypeIsCoherent(Spa, type)
  <1>1. /\ Spa.capabilities = SpaCapabilities /\ Spa.steps = SpaSteps
        /\ Spa.required = SpaRequired /\ Spa.engines = {"booking"}
    BY DEF Spa, Blueprint
  <1>2. type \in {"SERVICE", "PRODUCT"} /\ type \in DOMAIN SpaSteps
    BY <1>1 DEF SpaCapabilities, SpaSteps
  <1>3. "CAN_GENERATE_KITCHEN_TICKET" \notin SpaCapabilities[type]
    BY <1>2 DEF SpaCapabilities
  <1>4. SpaRequired[type] \subseteq Asked(Spa, type)
    <2>1. \A i \in DOMAIN SpaSteps[type] : SpaSteps[type][i].needs = {}
      BY <1>2 DEF SpaSteps, WizardStep
    <2>2. \A i \in DOMAIN SpaSteps[type] : SpaSteps[type][i].fields \subseteq Asked(Spa, type)
      BY <1>1, <1>2, <2>1, StepIsAsked
    <2>3. CASE type = "SERVICE"
      <3>1. /\ 1 \in DOMAIN SpaSteps[type] /\ "name" \in SpaSteps[type][1].fields
            /\ 2 \in DOMAIN SpaSteps[type] /\ "duration_minutes" \in SpaSteps[type][2].fields
            /\ 3 \in DOMAIN SpaSteps[type] /\ {"base_price", "tax_class"} \subseteq SpaSteps[type][3].fields
        BY <2>3 DEF SpaSteps, WizardStep
      <3>2. SpaRequired[type] = {"name", "base_price", "duration_minutes", "tax_class"}
        BY <2>3 DEF SpaRequired
      <3>3. QED
        BY <2>2, <3>1, <3>2
    <2>4. CASE type = "PRODUCT"
      <3>1. 1 \in DOMAIN SpaSteps[type] /\ SpaRequired[type] \subseteq SpaSteps[type][1].fields
        BY <2>4 DEF SpaSteps, SpaRequired, WizardStep
      <3>2. QED
        BY <2>2, <3>1
    <2>5. QED
      BY <1>2, <2>3, <2>4
  <1>5. QED
    BY <1>1, <1>3, <1>4 DEF TypeIsCoherent

\* The overrides of a tenant change what it may create, and nothing else.
LEMMA OverridesAreCoherent ==
  ASSUME NEW vertical \in DOMAIN SystemBlueprints, NEW allowed,
         NEW type \in DOMAIN ApplyTenantOverrides(SystemBlueprints[vertical], allowed).capabilities
  PROVE  TypeIsCoherent(ApplyTenantOverrides(SystemBlueprints[vertical], allowed), type)
  <1>1. PICK base : base = SystemBlueprints[vertical]
    OBVIOUS
  <1>2. base \in {Restaurant, Fashion, Spa}
    BY <1>1 DEF SystemBlueprints
  <1>3. DOMAIN base = {"supported", "engines", "capabilities", "steps", "required"}
    BY <1>2 DEF Restaurant, Fashion, Spa, Blueprint
  <1>4. PICK mine : mine = ApplyTenantOverrides(base, allowed)
    OBVIOUS
  <1>5. /\ mine.engines = base.engines /\ mine.capabilities = base.capabilities
        /\ mine.steps = base.steps /\ mine.required = base.required
    BY <1>3, <1>4 DEF ApplyTenantOverrides
  <1>6. type \in DOMAIN base.capabilities
    BY <1>1, <1>4, <1>5
  <1>7. TypeIsCoherent(base, type)
    BY <1>2, <1>6, RestaurantIsCoherent, FashionIsCoherent, SpaIsCoherent
  <1>8. Asked(mine, type) = Asked(base, type)
    BY <1>5 DEF Asked
  <1>9. TypeIsCoherent(mine, type)
    BY <1>5, <1>7, <1>8 DEF TypeIsCoherent
  <1>10. QED
    BY <1>1, <1>4, <1>9

\* A tenant is of one vertical for as long as it is there.
VerticalIsKnown == tenant.vertical \in DOMAIN SystemBlueprints

LEMMA VerticalStays ==
  ASSUME [PlatformNext]_platformVars PROVE UNCHANGED tenant
  <1>1. CASE UNCHANGED platformVars
    BY <1>1 DEF platformVars
  <1>2. CASE Tick
    BY <1>2 DEF Tick
  <1>3. ASSUME NEW i \in Items, NEW p \in Prices, NEW type \in ForTenant(tenant).supported, Create(i, type, p)
        PROVE  UNCHANGED tenant
    BY <1>3 DEF Create
  <1>4. ASSUME NEW c \in Slots, NEW f \in Filters, ListHit(c, f) \/ ListMiss(c, f) PROVE UNCHANGED tenant
    BY <1>4 DEF ListHit, ListMiss
  <1>5. ASSUME NEW c \in Slots, NEW i \in Items, CheckEntity(c, i, "update") \/ CheckEntity(c, i, "delete")
        PROVE  UNCHANGED tenant
    BY <1>5 DEF CheckEntity
  <1>6. ASSUME NEW c \in Slots, NEW lines \in Carts, BuildCart(c, lines) PROVE UNCHANGED tenant
    BY <1>6 DEF BuildCart
  <1>7. ASSUME NEW c \in Slots, Pricing(c) \/ CartIsPriced(c) PROVE UNCHANGED tenant
    BY <1>7 DEF Pricing, PriceHit, PriceMiss, PriceLoad, PriceStore, PriceBecomes, CartIsPriced
  <1>8. ASSUME NEW c \in Slots, Commit(c) \/ CommitLine(c) \/ DeductLine(c) \/ CreateSale(c) PROVE UNCHANGED tenant
    BY <1>8 DEF Commit, CommitLine, DeductLine, CreateSale
  <1>9. ASSUME NEW c \in Slots, NEW n, NEW items, Void(c, n, items) PROVE UNCHANGED tenant
    BY <1>9 DEF Void
  <1>10. ASSUME NEW c \in Slots, VoidLine(c) \/ VoidMark(c) PROVE UNCHANGED tenant
    BY <1>10 DEF VoidLine, VoidMark
  <1>11. ASSUME NEW c \in Slots, NEW i \in Items, NEW q,
                StockCall(c, i, "receive", q) \/ StockCall(c, i, "adjust", q)
         PROVE  UNCHANGED tenant
    BY <1>11 DEF StockCall
  <1>12. ASSUME NEW c \in Slots, Receive(c) \/ Record(c) \/ Adjust(c) \/ CallFails(c) PROVE UNCHANGED tenant
    BY <1>12 DEF Receive, Record, Adjust, CallFails
  <1>13. ASSUME NEW c \in Slots, ListLoad(c) \/ ListStore(c) PROVE UNCHANGED tenant
    BY <1>13 DEF ListLoad, ListStore
  <1>14. ASSUME NEW c \in Slots, Update(c) \/ SoftDelete(c) PROVE UNCHANGED tenant
    BY <1>14 DEF Update, SoftDelete
  <1>15. QED
    BY <1>1, <1>2, <1>3, <1>4, <1>5, <1>6, <1>7, <1>8, <1>9, <1>10, <1>11, <1>12, <1>13, <1>14
       DEF PlatformNext

\* BlueprintIsCoherent, for every tenant of the three verticals and whatever
\* types it is allowed.
THEOREM BlueprintsAreCoherent ==
  PlatformSpec => []BlueprintIsCoherent
  <1>1. PlatformInit => VerticalIsKnown
    BY PlatformAssumption DEF PlatformInit, VerticalIsKnown
  <1>2. VerticalIsKnown /\ [PlatformNext]_platformVars => VerticalIsKnown'
    BY VerticalStays DEF VerticalIsKnown
  <1>3. VerticalIsKnown => BlueprintIsCoherent
    <2>1. SUFFICES ASSUME VerticalIsKnown, NEW type \in DOMAIN ForTenant(tenant).capabilities
                   PROVE  TypeIsCoherent(ForTenant(tenant), type)
      BY DEF BlueprintIsCoherent, TypeIsCoherent
    <2>2. QED
      BY <2>1, OverridesAreCoherent DEF VerticalIsKnown, ForTenant
  <1>4. QED
    BY <1>1, <1>2, <1>3, PTL DEF PlatformSpec

-----------------------------------------------------------------------------
(* Sums over a set of indices. *)

\* Without a counterexample below it there is none at all.
LEMMA LeastIs ==
  ASSUME NEW T, T \subseteq Nat, T # {} PROVE \E n \in T : \A m \in T : n <= m
  <1>1. PICK n \in T : \A m \in T : ~ (<<m, n>> \in OpToRel(<, Nat))
    BY NatLessThanWellFounded, WFMin
  <1>2. \A m \in T : ~(m < n)
    BY <1>1 DEF OpToRel
  <1>3. QED BY <1>2

\* A set of naturals that has 0 and all successors has all.
LEMMA Induction ==
  ASSUME NEW S, 0 \in S, \A n \in Nat : n \in S => n + 1 \in S
  PROVE  \A n \in Nat : n \in S
  <1> DEFINE T == {n \in Nat : n \notin S}
  <1>1. SUFFICES ASSUME T # {} PROVE FALSE
    OBVIOUS
  <1>2. PICK n \in T : \A m \in T : n <= m
    BY <1>1, LeastIs
  <1>3. CASE n = 0
    BY <1>2, <1>3
  <1>4. CASE n # 0
    <2>1. n - 1 \in Nat /\ n - 1 \notin T
      BY <1>2, <1>4
    <2>2. QED
      BY <2>1, <1>2
  <1>5. QED
    BY <1>3, <1>4

\* The sums of the beginnings of a sequence, up to its k-th.
SumsUpto(f, amounts, k) ==
  f = [n \in 0 .. k |-> IF n = 0 THEN 0 ELSE f[n - 1] + amounts[n]]

LEMMA SumsExist ==
  ASSUME NEW amounts, NEW k \in Nat PROVE \E f : SumsUpto(f, amounts, k)
  <1> DEFINE S == {n \in Nat : \E f : SumsUpto(f, amounts, n)}
  <1>1. 0 \in S
    <2>1. SumsUpto([n \in 0 .. 0 |-> 0], amounts, 0)
      BY DEF SumsUpto
    <2>2. QED
      BY <2>1
  <1>2. ASSUME NEW n \in Nat, n \in S PROVE n + 1 \in S
    <2>1. PICK f : SumsUpto(f, amounts, n)
      BY <1>2
    <2>2. PICK g : g = [m \in 0 .. n + 1 |-> IF m = n + 1 THEN f[n] + amounts[n + 1] ELSE f[m]]
      OBVIOUS
    <2>3. SumsUpto(g, amounts, n + 1)
      BY <2>1, <2>2 DEF SumsUpto
    <2>4. QED
      BY <2>3
  <1> HIDE DEF S
  <1>3. k \in S
    BY <1>1, <1>2, Induction
  <1>4. QED
    BY <1>3 DEF S

\* The sums of a sequence of numbers, whose last is its sum.
Sums(f, amounts) ==
  /\ f \in [0 .. Len(amounts) -> Int] /\ f[0] = 0
  /\ \A n \in 1 .. Len(amounts) : f[n] = f[n - 1] + amounts[n]

LEMMA SummedBySums ==
  ASSUME NEW amounts \in Seq(Int)
  PROVE  \E f : Sums(f, amounts) /\ Summed(amounts) = f[Len(amounts)]
  <1> DEFINE f == CHOOSE g : SumsUpto(g, amounts, Len(amounts))
  <1>1. SumsUpto(f, amounts, Len(amounts))
    BY SumsExist
  <1>2. Summed(amounts) = f[Len(amounts)]
    BY DEF Summed, SumsUpto
  <1> HIDE DEF f
  <1> DEFINE S == {n \in Nat : n <= Len(amounts) => f[n] \in Int}
  <1>3. 0 \in S
    BY <1>1 DEF SumsUpto
  <1>4. ASSUME NEW n \in Nat, n \in S PROVE n + 1 \in S
    BY <1>1, <1>4 DEF SumsUpto
  <1>5. \A n \in Nat : n \in S
    <2> HIDE DEF S
    <2>1. QED
      BY <1>3, <1>4, Induction
  <1>6. Sums(f, amounts)
    <2>1. DOMAIN f = 0 .. Len(amounts) /\ Len(amounts) \in Nat
      BY <1>1 DEF SumsUpto
    <2>2. \A n \in 0 .. Len(amounts) : f[n] \in Int
      BY <1>5, <2>1
    <2>3. f = [n \in 0 .. Len(amounts) |-> f[n]]
      BY <1>1 DEF SumsUpto
    <2>4. f \in [0 .. Len(amounts) -> Int]
      BY <2>2, <2>3
    <2>5. f[0] = 0 /\ \A n \in 1 .. Len(amounts) : f[n] = f[n - 1] + amounts[n]
      BY <1>1, <2>1 DEF SumsUpto
    <2>6. QED
      BY <2>4, <2>5 DEF Sums
  <1>7. QED
    BY <1>2, <1>6

\* A sum is the same however the sums of its beginnings are written down.
LEMMA SumsAreOne ==
  ASSUME NEW amounts \in Seq(Int), NEW f, Sums(f, amounts)
  PROVE  Summed(amounts) = f[Len(amounts)]
  <1>1. PICK g : Sums(g, amounts) /\ Summed(amounts) = g[Len(amounts)]
    BY SummedBySums
  <1> DEFINE S == {n \in Nat : n <= Len(amounts) => f[n] = g[n]}
  <1>2. 0 \in S
    BY <1>1 DEF Sums
  <1>3. ASSUME NEW n \in Nat, n \in S PROVE n + 1 \in S
    <2>1. SUFFICES ASSUME n + 1 <= Len(amounts) PROVE f[n + 1] = g[n + 1]
      OBVIOUS
    <2>2. n + 1 \in 1 .. Len(amounts) /\ (n + 1) - 1 = n
      BY <2>1
    <2>3. f[n + 1] = f[n] + amounts[n + 1] /\ g[n + 1] = g[n] + amounts[n + 1]
      BY <1>1, <2>2 DEF Sums
    <2>4. f[n] = g[n]
      BY <1>3, <2>1
    <2>5. QED
      BY <2>3, <2>4
  <1> HIDE DEF S
  <1>4. Len(amounts) \in S
    BY <1>2, <1>3, Induction
  <1>5. QED
    BY <1>1, <1>4 DEF S

LEMMA SumsByParts ==
  ASSUME NEW amounts, NEW length \in Nat, Len(amounts) = length,
         NEW g, DOMAIN g = 0 .. length, g = [n \in 0 .. length |-> g[n]],
         \A n \in 0 .. length : g[n] \in Int, g[0] = 0,
         \A n \in 1 .. length : g[n] = g[n - 1] + amounts[n]
  PROVE  Sums(g, amounts)
  BY DEF Sums

LEMMA SumIsANumber ==
  ASSUME NEW amounts \in Seq(Int) PROVE Summed(amounts) \in Int
  BY SummedBySums DEF Sums

LEMMA SumOfNone ==
  Summed(<<>>) = 0
  <1>0. <<>> \in Seq(Int)
    OBVIOUS
  <1>1. PICK f : Sums(f, <<>>) /\ Summed(<<>>) = f[Len(<<>>)]
    BY <1>0, SummedBySums
  <1>2. QED
    BY <1>1 DEF Sums

\* A row more adds its amount.
LEMMA SumOfAppend ==
  ASSUME NEW amounts \in Seq(Int), NEW q \in Int
  PROVE  Summed(Append(amounts, q)) = Summed(amounts) + q
  <1>1. PICK f : Sums(f, amounts) /\ Summed(amounts) = f[Len(amounts)]
    BY SummedBySums
  <1>2. PICK more : more = Append(amounts, q)
    OBVIOUS
  <1>3. /\ more \in Seq(Int) /\ Len(more) = Len(amounts) + 1 /\ more[Len(amounts) + 1] = q
        /\ \A n \in 1 .. Len(amounts) : more[n] = amounts[n]
    BY <1>2
  <1>4. PICK g : g = [n \in 0 .. Len(amounts) + 1 |-> IF n = Len(amounts) + 1 THEN f[Len(amounts)] + q ELSE f[n]]
    OBVIOUS
  <1>5. PICK length \in Nat : length = Len(amounts)
    OBVIOUS
  <1>6. /\ \A n \in 0 .. length : f[n] \in Int /\ n # length + 1
        /\ \A n \in 1 .. length : f[n] = f[n - 1] + amounts[n]
        /\ f[0] = 0
    BY <1>1, <1>5 DEF Sums
  <1>7. DOMAIN g = 0 .. length + 1 /\ g = [n \in 0 .. length + 1 |-> g[n]]
    BY <1>4, <1>5
  <1>8. g[length + 1] = f[length] + q /\ \A n \in 0 .. length : g[n] = f[n]
    BY <1>4, <1>5
  <1>9. \A n \in 0 .. length + 1 : g[n] \in Int
    BY <1>6, <1>8
  <1>10. ASSUME NEW n \in 1 .. length + 1 PROVE g[n] = g[n - 1] + more[n]
    <2>1. CASE n = length + 1
      BY <1>3, <1>5, <1>8, <2>1
    <2>2. CASE n # length + 1
      <3>1. n \in 1 .. length /\ n \in 0 .. length /\ n - 1 \in 0 .. length
        BY <2>2
      <3>2. g[n] = f[n] /\ g[n - 1] = f[n - 1] /\ more[n] = amounts[n] /\ f[n] = f[n - 1] + amounts[n]
        BY <1>3, <1>5, <1>6, <1>8, <3>1
      <3>3. QED
        BY <3>2
    <2>3. QED
      BY <2>1, <2>2
  <1>11. Sums(g, more)
    <2>1. length + 1 \in Nat /\ Len(more) = length + 1 /\ g[0] = 0
      BY <1>3, <1>5, <1>6, <1>8
    <2>2. QED
      BY <1>7, <1>9, <1>10, <2>1, SumsByParts
  <1>12. Summed(more) = g[length + 1]
    BY <1>3, <1>5, <1>11, SumsAreOne
  <1>13. QED
    BY <1>1, <1>2, <1>5, <1>8, <1>12

\* A change of one row changes the sum by as much.
LEMMA SumOfChange ==
  ASSUME NEW amounts \in Seq(Int), NEW n \in DOMAIN amounts, NEW q \in Int
  PROVE  /\ [amounts EXCEPT ![n] = @ + q] \in Seq(Int)
         /\ Summed([amounts EXCEPT ![n] = @ + q]) = Summed(amounts) + q
  <1>1. PICK f : Sums(f, amounts) /\ Summed(amounts) = f[Len(amounts)]
    BY SummedBySums
  <1>2. PICK changed : changed = [amounts EXCEPT ![n] = @ + q]
    OBVIOUS
  <1>3. n \in 1 .. Len(amounts) /\ Len(amounts) \in Nat
    OBVIOUS
  <1>4. /\ changed \in Seq(Int) /\ Len(changed) = Len(amounts) /\ changed[n] = amounts[n] + q
        /\ \A m \in 1 .. Len(amounts) : m # n => changed[m] = amounts[m]
    BY <1>2
  <1>5. PICK g : g = [m \in 0 .. Len(amounts) |-> IF m >= n THEN f[m] + q ELSE f[m]]
    OBVIOUS
  <1>6. PICK length \in Nat : length = Len(amounts)
    OBVIOUS
  <1>7. /\ \A m \in 0 .. length : f[m] \in Int
        /\ \A m \in 1 .. length : f[m] = f[m - 1] + amounts[m]
        /\ f[0] = 0
    BY <1>1, <1>6 DEF Sums
  <1>8. DOMAIN g = 0 .. length /\ g = [m \in 0 .. length |-> g[m]]
    BY <1>5, <1>6
  <1>9. \A m \in 0 .. length : g[m] = IF m >= n THEN f[m] + q ELSE f[m]
    BY <1>5, <1>6
  <1>10. (\A m \in 0 .. length : g[m] \in Int) /\ g[0] = 0
    <2>1. \A m \in 0 .. length : g[m] \in Int
      BY <1>7, <1>9
    <2>2. 0 \in 0 .. length /\ ~(0 >= n)
      BY <1>3
    <2>3. QED
      BY <1>7, <1>9, <2>1, <2>2
  <1>11. ASSUME NEW m \in 1 .. length PROVE g[m] = g[m - 1] + changed[m]
    <2>1. m \in 0 .. length /\ m - 1 \in 0 .. length /\ f[m] = f[m - 1] + amounts[m]
          /\ f[m - 1] \in Int /\ amounts[m] \in Int
      BY <1>6, <1>7
    <2>2. CASE m < n
      <3>1. ~(m >= n) /\ ~(m - 1 >= n) /\ m # n
        BY <1>3, <2>2
      <3>2. g[m] = f[m] /\ g[m - 1] = f[m - 1] /\ changed[m] = amounts[m]
        BY <1>4, <1>6, <1>9, <2>1, <3>1
      <3>3. QED
        BY <2>1, <3>2
    <2>3. CASE m = n
      <3>1. m >= n /\ ~(m - 1 >= n)
        BY <1>3, <2>3
      <3>2. g[m] = f[m] + q /\ g[m - 1] = f[m - 1] /\ changed[m] = amounts[m] + q
        BY <1>4, <1>9, <2>1, <2>3, <3>1
      <3>3. QED
        BY <2>1, <3>2
    <2>4. CASE m > n
      <3>1. m >= n /\ m - 1 >= n /\ m # n
        BY <1>3, <2>4
      <3>2. g[m] = f[m] + q /\ g[m - 1] = f[m - 1] + q /\ changed[m] = amounts[m]
        BY <1>4, <1>6, <1>9, <2>1, <3>1
      <3>3. QED
        BY <2>1, <3>2
    <2>5. QED
      BY <1>3, <2>2, <2>3, <2>4
  <1>12. Sums(g, changed)
    BY <1>4, <1>6, <1>8, <1>10, <1>11, SumsByParts
  <1>13. Summed(changed) = g[length] /\ g[length] = f[length] + q
    BY <1>3, <1>4, <1>6, <1>9, <1>12, SumsAreOne
  <1>14. QED
    BY <1>1, <1>2, <1>4, <1>6, <1>13

\* Rows that are all above a bound have a sum above it.
LEMMA SumIsAbove ==
  ASSUME NEW amounts \in Seq(Int), amounts # <<>>, NEW bound \in Nat,
         \A n \in DOMAIN amounts : amounts[n] > bound
  PROVE  Summed(amounts) > bound
  <1>1. PICK f : Sums(f, amounts) /\ Summed(amounts) = f[Len(amounts)]
    BY SummedBySums
  <1> DEFINE S == {n \in Nat : n + 1 <= Len(amounts) => f[n + 1] > bound}
  <1>2. 0 \in S
    BY <1>1 DEF Sums
  <1>3. ASSUME NEW n \in Nat, n \in S PROVE n + 1 \in S
    <2>1. SUFFICES ASSUME n + 2 <= Len(amounts) PROVE f[n + 2] > bound
      OBVIOUS
    <2>2. n + 2 \in 1 .. Len(amounts) /\ (n + 2) - 1 = n + 1 /\ n + 1 <= Len(amounts)
      BY <2>1
    <2>3. f[n + 2] = f[n + 1] + amounts[n + 2] /\ f[n + 1] \in Int /\ amounts[n + 2] \in Int
      <3>1. PICK m : m = n + 2
        OBVIOUS
      <3>2. m \in 1 .. Len(amounts) /\ m - 1 \in 0 .. Len(amounts) /\ m - 1 = n + 1
        BY <2>2, <3>1
      <3>3. f[m] = f[m - 1] + amounts[m] /\ f[m - 1] \in Int
        BY <1>1, <3>2 DEF Sums
      <3>4. amounts[m] \in Int
        BY <3>2
      <3>5. QED
        BY <3>1, <3>2, <3>3, <3>4
    <2>4. f[n + 1] > bound /\ amounts[n + 2] > bound
      BY <1>3, <2>2
    <2>5. QED
      BY <2>3, <2>4
  <1> HIDE DEF S
  <1>4. \A n \in Nat : n \in S
    BY <1>2, <1>3, Induction
  <1>5. Len(amounts) - 1 \in Nat
    OBVIOUS
  <1>6. QED
    BY <1>1, <1>4, <1>5 DEF S

-----------------------------------------------------------------------------
(* Days and windows. *)

\* The days of the week by their index.
LEMMA DaysAreSeven ==
  /\ DOMAIN Days = 1 .. 7
  /\ Days[1] = "MON" /\ Days[2] = "TUE" /\ Days[3] = "WED" /\ Days[4] = "THU"
  /\ Days[5] = "FRI" /\ Days[6] = "SAT" /\ Days[7] = "SUN"
  BY DEF Days

LEMMA DaysDiffer ==
  ASSUME NEW i \in 1 .. 7, NEW j \in 1 .. 7, Days[i] = Days[j]
  PROVE  i = j
  BY DaysAreSeven

LEMMA IndexOfListedDay ==
  ASSUME NEW day \in ToSet(Days)
  PROVE  IndexOfDay(day) \in 1 .. 7 /\ Days[IndexOfDay(day)] = day
  BY DaysAreSeven DEF IndexOfDay, ToSet

LEMMA IndexOfOtherDay ==
  ASSUME NEW day, day \notin ToSet(Days) PROVE IndexOfDay(day) = 0
  BY DEF IndexOfDay

\* The arithmetic of a walk through the week.
LEMMA WalkByIndex ==
  ASSUME NEW f \in 1 .. 7, NEW t \in 1 .. 7, NEW d \in 1 .. 7
  PROVE  (IF f <= t THEN d >= f /\ d <= t ELSE d >= f \/ d <= t)
         <=> \E k \in 0 .. (t - f) % 7 : ((f - 1 + k) % 7) + 1 = d
  <1>1. CASE f <= t
    <2>1. (t - f) % 7 = t - f
      BY <1>1
    <2>2. ASSUME NEW k \in 0 .. t - f PROVE ((f - 1 + k) % 7) + 1 = f + k
      BY <1>1
    <2>3. QED
      <3>1. ASSUME d >= f, d <= t PROVE \E k \in 0 .. t - f : f + k = d
        <4>1. d - f \in 0 .. t - f /\ f + (d - f) = d
          BY <3>1
        <4>2. QED
          BY <4>1
      <3>2. ASSUME NEW k \in 0 .. t - f, f + k = d PROVE d >= f /\ d <= t
        BY <3>2
      <3>3. (d >= f /\ d <= t) <=> \E k \in 0 .. t - f : f + k = d
        BY <3>1, <3>2
      <3>4. (\E k \in 0 .. t - f : f + k = d) <=> \E k \in 0 .. t - f : ((f - 1 + k) % 7) + 1 = d
        BY <2>2
      <3>5. QED
        BY <1>1, <2>1, <3>3, <3>4
  <1>2. CASE f > t
    <2>1. (t - f) % 7 = t - f + 7
      BY <1>2
    <2>2. ASSUME NEW k \in 0 .. t - f + 7
          PROVE  ((f - 1 + k) % 7) + 1 = IF f + k <= 7 THEN f + k ELSE f + k - 7
      BY <1>2
    <2>3. ASSUME d >= f PROVE \E k \in 0 .. t - f + 7 : ((f - 1 + k) % 7) + 1 = d
      <3>1. PICK k : k = d - f
        OBVIOUS
      <3>2. k \in 0 .. t - f + 7 /\ f + k = d /\ d <= 7
        BY <1>2, <2>3, <3>1
      <3>3. ((f - 1 + k) % 7) + 1 = d
        BY <2>2, <3>2
      <3>4. QED
        BY <3>2, <3>3
    <2>4. ASSUME d <= t PROVE \E k \in 0 .. t - f + 7 : ((f - 1 + k) % 7) + 1 = d
      <3>1. PICK k : k = d - f + 7
        OBVIOUS
      <3>2. k \in 0 .. t - f + 7 /\ f + k = d + 7 /\ f + k > 7
        BY <1>2, <2>4, <3>1
      <3>3. ((f - 1 + k) % 7) + 1 = d
        BY <2>2, <3>2
      <3>4. QED
        BY <3>2, <3>3
    <2>5. ASSUME NEW k \in 0 .. t - f + 7, ((f - 1 + k) % 7) + 1 = d PROVE d >= f \/ d <= t
      BY <1>2, <2>2, <2>5
    <2>6. QED
      BY <1>2, <2>1, <2>3, <2>4, <2>5
  <1>3. QED
    BY <1>1, <1>2

\* The engine's comparison of indices is a walk from day to day.
LEMMA RangeIsWalk ==
  ASSUME NEW day, NEW from, NEW to
  PROVE  DayInRange(day, from, to) <=> day \in Walk(from, to)
  <1> DEFINE f == IndexOfDay(from)
             t == IndexOfDay(to)
             d == IndexOfDay(day)
  <1>1. CASE ~({from, to} \subseteq ToSet(Days))
    <2>1. f = 0 \/ t = 0
      BY <1>1, IndexOfOtherDay
    <2>2. QED
      BY <1>1, <2>1 DEF DayInRange, Walk
  <1>2. CASE {from, to} \subseteq ToSet(Days) /\ day \in ToSet(Days)
    <2>1. f \in 1 .. 7 /\ t \in 1 .. 7 /\ d \in 1 .. 7 /\ Days[d] = day
      BY <1>2, IndexOfListedDay
    <2>2. DayInRange(day, from, to) <=> (IF f <= t THEN d >= f /\ d <= t ELSE d >= f \/ d <= t)
      BY <2>1 DEF DayInRange
    <2>3. day \in Walk(from, to) <=> \E k \in 0 .. (t - f) % 7 : day = Days[((f - 1 + k) % 7) + 1]
      BY <1>2 DEF Walk
    <2> HIDE DEF f, t, d
    <2>4. ASSUME NEW k \in 0 .. (t - f) % 7
          PROVE  day = Days[((f - 1 + k) % 7) + 1] <=> ((f - 1 + k) % 7) + 1 = d
      <3>1. PICK m : m = ((f - 1 + k) % 7) + 1
        OBVIOUS
      <3>2. m \in 1 .. 7
        BY <2>1, <3>1
      <3>3. day = Days[m] <=> m = d
        BY <2>1, <3>2, DaysDiffer
      <3>4. QED
        BY <3>1, <3>3
    <2>5. QED
      BY <2>1, <2>2, <2>3, <2>4, WalkByIndex
  <1>3. CASE {from, to} \subseteq ToSet(Days) /\ day \notin ToSet(Days)
    <2>1. d = 0
      BY <1>3, IndexOfOtherDay
    <2>2. f \in 1 .. 7 /\ t \in 1 .. 7
      BY <1>3, IndexOfListedDay
    <2>3. \A k \in 0 .. (t - f) % 7 : ((f - 1 + k) % 7) + 1 \in 1 .. 7
      BY <2>2
    <2>4. Walk(from, to) \subseteq ToSet(Days)
      BY <1>3, <2>3, DaysAreSeven DEF Walk, ToSet
    <2>5. QED
      BY <1>3, <2>1, <2>4 DEF DayInRange
  <1>4. QED
    BY <1>1, <1>2, <1>3

\* A window is open as the engine finds it to be.
LEMMA OpenIsMatched ==
  ASSUME NEW window, NEW at
  PROVE  IsOpen(window, at) <=> MatchesDay(window, at.day) /\ at.minute \in window.from .. window.to
  BY RangeIsWalk DEF IsOpen, MatchesDay

-----------------------------------------------------------------------------
(* What the rows, the prices and the lines of a cart are made of. *)

RowsAreKnown   == DOMAIN rows \subseteq Items /\ \A i \in DOMAIN rows : IsEntityRow(rows[i])
PricesAreKnown == \A e \in priced : e.price \in Int

\* The lines of a cart in the making are what was asked for, and the prices
\* that have been found are numbers.
CartCallIsKnown(c) ==
  AtStep(c, "cart") =>
    /\ running[c].lines \in Carts
    /\ \A n \in DOMAIN running[c].lines :
         running[c].price[n].step \in {"set", "done"} => running[c].price[n].price \in Int

CartIsKnown == cart # Nothing => cart.lines \in PricedLines(DOMAIN rows)

CartIInv ==
  /\ RowsAreKnown /\ PricesAreKnown
  /\ \A c \in Slots : CartCallIsKnown(c)
  /\ CartIsKnown

\* More items have more lines.
LEMMA MoreLines ==
  ASSUME NEW S, NEW T, S \subseteq T PROVE PricedLines(S) \subseteq PricedLines(T)
  <1> DEFINE L(items) == [item : items, quantity : Int, unitPrice : Int, tax : Int, inclusive : BOOLEAN, total : Int]
  <1>1. L(S) \subseteq L(T)
    OBVIOUS
  <1> HIDE DEF L
  <1>2. Seq(L(S)) \subseteq Seq(L(T))
    BY <1>1
  <1>3. QED
    BY <1>2 DEF PricedLines, L

\* Whatever is computed of numbers is a number.
LEMMA RoundedIsANumber ==
  ASSUME NEW n \in Int, NEW d \in Nat \ {0} PROVE Rounded(n, d) \in Int
  BY DEF Rounded

LEMMA TimesIsANumber ==
  ASSUME NEW n \in Int, NEW m \in Int PROVE n * m \in Int
  OBVIOUS

LEMMA DiscountIsANumber ==
  ASSUME NEW price \in Int, NEW pct \in Int PROVE Discounted(price, pct) \in Int
  <1>1. 100 - pct \in Int
    OBVIOUS
  <1>2. price * (100 - pct) \in Int
    BY <1>1, TimesIsANumber
  <1>3. QED
    BY <1>2, RoundedIsANumber DEF Discounted

LEMMA ChannelPriceIsANumber ==
  ASSUME NEW entity, IsEntityRow(entity), NEW channel PROVE ChannelPrice(entity, channel) \in Int
  BY DEF IsEntityRow, ChannelPrice

\* The windows that are open, as the engine finds them.
LEMMA OpenWindows ==
  ASSUME NEW windows, DOMAIN windows \subseteq Nat,
         \A n \in DOMAIN windows : windows[n].from \in Int /\ windows[n].to \in Int,
         NEW at, at.minute \in Int
  PROVE  {n \in DOMAIN windows : MatchesDay(windows[n], at.day) /\ MatchesTime(windows[n], at.minute) /\ windows[n].pct # 0}
         = {n \in DOMAIN windows : windows[n].pct # 0 /\ IsOpen(windows[n], at)}
  <1>1. ASSUME NEW n \in DOMAIN windows
        PROVE  IsOpen(windows[n], at) <=> MatchesDay(windows[n], at.day) /\ MatchesTime(windows[n], at.minute)
    BY OpenIsMatched DEF MatchesTime
  <1>2. QED
    BY <1>1

\* The engine takes the first of them.
LEMMA FirstWindow ==
  ASSUME NEW open, open \subseteq Nat, open # {} PROVE Min(open) \in open
  BY LeastIs DEF Min

LEMMA PriceIsDiscounted ==
  ASSUME NEW windows, DOMAIN windows \subseteq Nat, NEW price, NEW at
  PROVE  LET open == {n \in DOMAIN windows : /\ MatchesDay(windows[n], at.day)
                                             /\ MatchesTime(windows[n], at.minute) /\ windows[n].pct # 0}
         IN  IF open = {} THEN ApplyTimeWindows(price, windows, at) = price
             ELSE \E n \in open : ApplyTimeWindows(price, windows, at) = Discounted(price, windows[n].pct)
  <1> DEFINE open == {n \in DOMAIN windows : /\ MatchesDay(windows[n], at.day)
                                             /\ MatchesTime(windows[n], at.minute) /\ windows[n].pct # 0}
  <1>1. ApplyTimeWindows(price, windows, at) =
          IF open = {} THEN price ELSE Discounted(price, windows[Min(open)].pct)
    BY DEF ApplyTimeWindows
  <1>2. open \subseteq Nat
    OBVIOUS
  <1> HIDE DEF open
  <1>3. open # {} => Min(open) \in open
    BY <1>2, FirstWindow
  <1>4. QED
    BY <1>1, <1>3 DEF open

LEMMA FinalPriceIsANumber ==
  ASSUME NEW entity, IsEntityRow(entity), NEW channel, NEW at
  PROVE  FinalPrice(entity, channel, at) \in Int
  <1> DEFINE windows == entity.windows
             price   == ChannelPrice(entity, channel)
  <1>1. /\ DOMAIN windows \subseteq Nat
        /\ \A n \in DOMAIN windows : windows[n].pct \in Int
    BY DEF IsEntityRow
  <1>2. price \in Int
    BY ChannelPriceIsANumber
  <1> HIDE DEF windows, price
  <1>3. \/ ApplyTimeWindows(price, windows, at) = price
        \/ \E n \in DOMAIN windows : ApplyTimeWindows(price, windows, at) = Discounted(price, windows[n].pct)
    BY <1>1, PriceIsDiscounted
  <1>4. ApplyTimeWindows(price, windows, at) \in Int
    BY <1>1, <1>2, <1>3, DiscountIsANumber
  <1>5. QED
    BY <1>4 DEF FinalPrice, windows, price

\* DiscountsHaveAWindow follows from what the rows hold.
LEMMA DiscountsAreExplained ==
  ASSUME RowsAreKnown PROVE DiscountsHaveAWindow
  <1>1. SUFFICES ASSUME NEW i \in DOMAIN rows, NEW at \in Range(Instants)
                 PROVE  LET windows == rows[i].windows
                            open    == {n \in DOMAIN windows : windows[n].pct # 0 /\ IsOpen(windows[n], at)}
                            price   == ChannelPrice(rows[i], "POS")
                            final   == FinalPrice(rows[i], "POS", at)
                        IN  IF open = {} THEN final = price
                                         ELSE \E n \in open : final = Discounted(price, windows[n].pct)
    BY DEF DiscountsHaveAWindow, There
  <1> DEFINE windows == rows[i].windows
             price   == ChannelPrice(rows[i], "POS")
             open    == {n \in DOMAIN windows : windows[n].pct # 0 /\ IsOpen(windows[n], at)}
  <1>2. /\ DOMAIN windows \subseteq Nat
        /\ \A n \in DOMAIN windows : windows[n].from \in Int /\ windows[n].to \in Int
    BY DEF RowsAreKnown, IsEntityRow
  <1>3. at.minute \in Int
    BY PlatformAssumption DEF Range
  <1>4. FinalPrice(rows[i], "POS", at) = ApplyTimeWindows(price, windows, at)
    BY DEF FinalPrice
  <1> HIDE DEF windows, price
  <1>5. open = {n \in DOMAIN windows : /\ MatchesDay(windows[n], at.day)
                                       /\ MatchesTime(windows[n], at.minute) /\ windows[n].pct # 0}
    BY <1>2, <1>3, OpenWindows
  <1>6. IF open = {} THEN ApplyTimeWindows(price, windows, at) = price
        ELSE \E n \in open : ApplyTimeWindows(price, windows, at) = Discounted(price, windows[n].pct)
    BY <1>2, <1>5, PriceIsDiscounted
  <1>7. QED
    BY <1>4, <1>6 DEF windows, price

\* A tax class that is there, or the one that taxes nothing.
LEMMA ClassIsKnown ==
  ASSUME NEW name PROVE TaxClass(Classes, name).rate \in Nat /\ TaxClass(Classes, name).inclusive \in BOOLEAN
  <1>1. \A known \in DOMAIN Classes : Classes[known].rate \in Nat /\ Classes[known].inclusive \in BOOLEAN
    BY PlatformAssumption
  <1>3. CASE name \in DOMAIN Classes
    BY <1>1, <1>3 DEF TaxClass
  <1>4. CASE name \notin DOMAIN Classes
    <2>1. TaxClass(Classes, name) = ZeroClass
      BY <1>4 DEF TaxClass
    <2>2. ZeroClass.rate \in Nat /\ ZeroClass.inclusive \in BOOLEAN
      BY DEF ZeroClass
    <2>3. QED
      BY <2>1, <2>2
  <1>5. QED
    BY <1>3, <1>4

LEMMA TaxIsANumber ==
  ASSUME NEW price \in Int, NEW class, class.rate \in Nat PROVE TaxOn(price, class) \in Int
  <1>1. PICK rate \in Nat : rate = class.rate
    OBVIOUS
  <1>2. price * rate \in Int
    BY TimesIsANumber
  <1>3. 100 \in Nat \ {0} /\ 100 + rate \in Nat \ {0}
    OBVIOUS
  <1>4. Rounded(price * rate, 100) \in Int /\ Rounded(price * rate, 100 + rate) \in Int
    BY <1>2, <1>3, RoundedIsANumber
  <1>5. QED
    BY <1>1, <1>4 DEF TaxOn

\* A line that is priced.
LEMMA PricedLineIsKnown ==
  ASSUME NEW items, NEW line, line.item \in items, line.quantity \in Int, NEW price \in Int,
         NEW class, class.rate \in Nat, class.inclusive \in BOOLEAN
  PROVE  PricedLine(line, price, class)
           \in [item : items, quantity : Int, unitPrice : Int, tax : Int, inclusive : BOOLEAN, total : Int]
  <1>1. PICK tax : tax = TaxOn(price, class)
    OBVIOUS
  <1>2. tax \in Int
    BY <1>1, TaxIsANumber
  <1>3. PICK net : net = price + IF class.inclusive THEN 0 ELSE tax
    OBVIOUS
  <1>4. net \in Int
    BY <1>2, <1>3
  <1>5. net * line.quantity \in Int
    BY <1>4, TimesIsANumber
  <1>6. PICK l : l = [item |-> line.item, quantity |-> line.quantity, unitPrice |-> price, tax |-> tax,
                      inclusive |-> class.inclusive, total |-> net * line.quantity]
    OBVIOUS
  <1>7. PricedLine(line, price, class) = l
    BY <1>1, <1>3, <1>6 DEF PricedLine
  <1>8. l \in [item : items, quantity : Int, unitPrice : Int, tax : Int, inclusive : BOOLEAN, total : Int]
    BY <1>2, <1>5, <1>6
  <1>9. QED
    BY <1>7, <1>8

-----------------------------------------------------------------------------
(* The steps of the platform, by what they leave alone. *)

\* An entity is never taken away, and what it can do does not change.
RowsStay ==
  /\ DOMAIN rows \subseteq DOMAIN rows'
  /\ \A i \in DOMAIN rows : /\ rows'[i].type = rows[i].type /\ rows'[i].recipe = rows[i].recipe
                            /\ rows'[i].on = rows[i].on /\ rows'[i].off = rows[i].off

\* An edit of an entity.
LEMMA EditIsKnown ==
  ASSUME NEW entity, IsEntityRow(entity), NEW edited,
         \/ edited \in Edits(entity)
         \/ edited = [entity EXCEPT !.deleted = TRUE, !.status = "ARCHIVED"]
  PROVE  /\ IsEntityRow(edited)
         /\ edited.type = entity.type /\ edited.recipe = entity.recipe
         /\ edited.on = entity.on /\ edited.off = entity.off
  <1>0. DOMAIN entity = {"type", "status", "deleted", "price", "channels", "windows", "taxClass", "on", "off",
                         "recipe", "reorder"}
    BY DEF IsEntityRow, EntityRow
  <1>1. DOMAIN edited = DOMAIN entity
    BY DEF Edits
  <1>2. /\ edited.type = entity.type /\ edited.recipe = entity.recipe /\ edited.on = entity.on
        /\ edited.off = entity.off /\ edited.channels = entity.channels /\ edited.reorder = entity.reorder
    BY <1>0 DEF Edits
  <1>3. edited.price \in Prices \cup {entity.price} /\ edited.windows \in {<<>>, entity.windows}
    BY <1>0 DEF Edits
  <1>4. edited.price \in Int
    BY <1>3, PlatformAssumption DEF IsEntityRow
  <1>5. CASE edited.windows = <<>>
    <2>1. DOMAIN edited.windows = {}
      BY <1>5
    <2>2. QED
      BY <1>1, <1>2, <1>4, <2>1 DEF IsEntityRow
  <1>6. CASE edited.windows = entity.windows
    BY <1>1, <1>2, <1>4, <1>6 DEF IsEntityRow
  <1>7. QED
    BY <1>2, <1>3, <1>5, <1>6

LEMMA NewRowIsKnown ==
  ASSUME NEW type, NEW price \in Prices PROVE IsEntityRow(EntityRow(type, price))
  <1>1. PICK entity : entity = EntityRow(type, price)
    OBVIOUS
  <1>2. price \in Int
    BY PlatformAssumption
  <1>3. /\ entity.price = price /\ entity.reorder = 0
        /\ entity.channels = <<>> /\ entity.windows = <<>>
    BY <1>1 DEF EntityRow
  <1>4. DOMAIN entity = DOMAIN EntityRow("MENU_ITEM", 0)
    BY <1>1 DEF EntityRow
  <1>5. DOMAIN entity.channels = {} /\ DOMAIN entity.windows = {}
    BY <1>3
  <1>6. QED
    BY <1>1, <1>2, <1>3, <1>4, <1>5 DEF IsEntityRow

LEMMA CreateKeepsRows ==
  ASSUME RowsAreKnown, NEW i \in Items, NEW type, NEW price \in Prices, Create(i, type, price)
  PROVE  RowsAreKnown' /\ RowsStay
  <1>1. PICK entity : entity = EntityRow(type, price)
    OBVIOUS
  <1>2. rows' = [j \in DOMAIN rows \cup {i} |-> IF j = i THEN entity ELSE rows[j]] /\ i \notin DOMAIN rows
    BY <1>1 DEF Create, Replace, There
  <1>3. IsEntityRow(entity)
    BY <1>1, NewRowIsKnown
  <1>4. QED
    BY <1>2, <1>3 DEF RowsAreKnown, RowsStay

LEMMA EditKeepsRows ==
  ASSUME RowsAreKnown, NEW c \in Slots, Update(c) \/ SoftDelete(c)
  PROVE  RowsAreKnown' /\ RowsStay
  <1> DEFINE i == running[c].item
  <1>1. PICK edited : /\ rows' = [rows EXCEPT ![i] = edited]
                      /\ \/ edited \in Edits(rows[i])
                         \/ edited = [rows[i] EXCEPT !.deleted = TRUE, !.status = "ARCHIVED"]
    <2>1. CASE Update(c)
      BY <2>1 DEF Update, Replace
    <2>2. CASE SoftDelete(c)
      <3>1. rows' = [rows EXCEPT ![i].deleted = TRUE, ![i].status = "ARCHIVED"]
        BY <2>2 DEF SoftDelete, Replace
      <3>2. PICK edited : edited = [rows[i] EXCEPT !.deleted = TRUE, !.status = "ARCHIVED"]
        OBVIOUS
      <3>3. rows' = [rows EXCEPT ![i] = edited]
        BY <3>1, <3>2
      <3>4. QED
        BY <3>2, <3>3
    <2>3. QED
      BY <2>1, <2>2
  <1> HIDE DEF i
  <1>2. CASE i \notin DOMAIN rows
    BY <1>1, <1>2 DEF RowsAreKnown, RowsStay
  <1>3. CASE i \in DOMAIN rows
    <2>1. /\ IsEntityRow(edited)
          /\ edited.type = rows[i].type /\ edited.recipe = rows[i].recipe
          /\ edited.on = rows[i].on /\ edited.off = rows[i].off
      BY <1>1, <1>3, EditIsKnown DEF RowsAreKnown
    <2>2. DOMAIN rows' = DOMAIN rows /\ rows'[i] = edited /\ \A j \in DOMAIN rows \ {i} : rows'[j] = rows[j]
      BY <1>1, <1>3
    <2>3. QED
      BY <2>1, <2>2 DEF RowsAreKnown, RowsStay
  <1>4. QED
    BY <1>2, <1>3

\* A call of no step that sells, prices or moves stock.
Quiet(r) == r = Nothing \/ r.step \in {"list", "liststore", "update", "delete", "void"}

\* A step of the entities or of the lists, or the beginning of a voiding.
QuietStep ==
  /\ UNCHANGED <<priced, cart, stock, moved, sales, tickets, torn>>
  /\ \/ UNCHANGED running
     \/ \E c \in Slots : \E r : CallBecomes(c, r) /\ Quiet(running[c]) /\ Quiet(r)

CartStep(c)  == (\E lines \in Carts : BuildCart(c, lines)) \/ Pricing(c) \/ CartIsPriced(c)
SaleStep(c)  == Commit(c) \/ CommitLine(c) \/ DeductLine(c) \/ CreateSale(c)
VoidStep(c)  == VoidLine(c) \/ VoidMark(c)
StockStep(c) == \/ \E i \in Items : StockCall(c, i, "receive", 1)
                \/ \E i \in Items, q \in {-1, 1} : StockCall(c, i, "adjust", q)
                \/ Receive(c) \/ Record(c) \/ Adjust(c)

LoudStep == \E c \in Slots : CartStep(c) \/ SaleStep(c) \/ VoidStep(c) \/ StockStep(c) \/ CallFails(c)

LEMMA ListStepIsQuiet ==
  ASSUME NEW c \in Slots, NEW f, ListHit(c, f) \/ ListMiss(c, f) \/ ListLoad(c) \/ ListStore(c)
  PROVE  QuietStep
  <1>1. UNCHANGED <<priced, cart, stock, moved, sales, tickets, torn>>
    BY DEF ListHit, ListMiss, ListLoad, ListStore, caches, shop
  <1>2. CASE ListHit(c, f)
    BY <1>1, <1>2 DEF ListHit, StartCall, QuietStep, Quiet
  <1>3. CASE ListMiss(c, f)
    <2>1. PICK r : r = [step |-> "list", filter |-> f]
      OBVIOUS
    <2>2. CallBecomes(c, r) /\ running[c] = Nothing /\ r.step = "list"
      BY <1>3, <2>1 DEF ListMiss, StartCall
    <2>3. QED
      BY <1>1, <2>2 DEF QuietStep, Quiet
  <1>4. CASE ListLoad(c)
    <2>1. PICK r : r = [step |-> "liststore", filter |-> running[c].filter, at |-> clock,
                        items |-> Matching(rows, running[c].filter)]
      OBVIOUS
    <2>2. CallBecomes(c, r) /\ running[c].step = "list" /\ r.step = "liststore"
      BY <1>4, <2>1 DEF ListLoad, AtStep
    <2>3. QED
      BY <1>1, <2>2 DEF QuietStep, Quiet
  <1>5. CASE ListStore(c)
    BY <1>1, <1>5 DEF ListStore, EndCall, AtStep, QuietStep, Quiet
  <1>6. QED
    BY <1>2, <1>3, <1>4, <1>5

LEMMA EntityStepIsQuiet ==
  ASSUME NEW c \in Slots,
         \/ \E i \in Items : CheckEntity(c, i, "update") \/ CheckEntity(c, i, "delete")
         \/ Update(c) \/ SoftDelete(c)
         \/ \E n, items : Void(c, n, items)
  PROVE  QuietStep
  <1>1. UNCHANGED <<priced, cart, stock, moved, sales, tickets, torn>>
    BY DEF CheckEntity, Update, SoftDelete, Void, caches, shop
  <1>2. ASSUME NEW i, NEW step \in {"update", "delete"}, CheckEntity(c, i, step) PROVE QuietStep
    <2>1. PICK r : r = [step |-> step, item |-> i]
      OBVIOUS
    <2>2. CallBecomes(c, r) /\ running[c] = Nothing /\ r.step = step
      BY <1>2, <2>1 DEF CheckEntity, StartCall
    <2>3. QED
      BY <1>1, <1>2, <2>2 DEF QuietStep, Quiet
  <1>3. CASE Update(c) \/ SoftDelete(c)
    BY <1>1, <1>3 DEF Update, SoftDelete, EndCall, AtStep, QuietStep, Quiet
  <1>4. ASSUME NEW n, NEW items, Void(c, n, items) PROVE QuietStep
    <2>1. \E tracked : CallBecomes(c, [step |-> "void", sale |-> n, items |-> tracked]) /\ running[c] = Nothing
      BY <1>4 DEF Void, StartCall
    <2>2. PICK tracked : CallBecomes(c, [step |-> "void", sale |-> n, items |-> tracked]) /\ running[c] = Nothing
      BY <2>1
    <2>3. PICK r : r = [step |-> "void", sale |-> n, items |-> tracked]
      OBVIOUS
    <2>4. CallBecomes(c, r) /\ running[c] = Nothing /\ r.step = "void"
      BY <2>2, <2>3
    <2>5. QED
      BY <1>1, <2>4 DEF QuietStep, Quiet
  <1>5. QED
    BY <1>2, <1>3, <1>4

\* What a step does to the rows, and what kind of step it is.
LEMMA StepKinds ==
  ASSUME RowsAreKnown, [PlatformNext]_platformVars
  PROVE  RowsAreKnown' /\ RowsStay /\ (QuietStep \/ LoudStep)
  <1>0. UNCHANGED rows => RowsAreKnown' /\ RowsStay
    BY DEF RowsAreKnown, RowsStay
  <1>1. CASE UNCHANGED platformVars
    BY <1>0, <1>1 DEF platformVars, QuietStep
  <1>2. CASE Tick
    BY <1>0, <1>2 DEF Tick, caches, shop, QuietStep
  <1>3. ASSUME NEW i \in Items, NEW p \in Prices, NEW type \in ForTenant(tenant).supported, Create(i, type, p)
        PROVE  RowsAreKnown' /\ RowsStay /\ QuietStep
    <2>1. QuietStep
      BY <1>3 DEF Create, caches, shop, QuietStep
    <2>2. QED
      BY <1>3, <2>1, CreateKeepsRows
  <1>4. ASSUME NEW c \in Slots, NEW f \in Filters, ListHit(c, f) \/ ListMiss(c, f)
        PROVE  UNCHANGED rows /\ QuietStep
    BY <1>4, ListStepIsQuiet DEF ListHit, ListMiss
  <1>5. ASSUME NEW c \in Slots, ListLoad(c) \/ ListStore(c)
        PROVE  UNCHANGED rows /\ QuietStep
    BY <1>5, ListStepIsQuiet DEF ListLoad, ListStore
  <1>6. ASSUME NEW c \in Slots, NEW i \in Items, CheckEntity(c, i, "update") \/ CheckEntity(c, i, "delete")
        PROVE  UNCHANGED rows /\ QuietStep
    BY <1>6, EntityStepIsQuiet DEF CheckEntity
  <1>7. ASSUME NEW c \in Slots, Update(c) \/ SoftDelete(c)
        PROVE  RowsAreKnown' /\ RowsStay /\ QuietStep
    BY <1>7, EntityStepIsQuiet, EditKeepsRows
  <1>8. ASSUME NEW c \in Slots, NEW lines \in Carts, BuildCart(c, lines)
        PROVE  UNCHANGED rows /\ CartStep(c)
    BY <1>8 DEF BuildCart, CartStep
  <1>9. ASSUME NEW c \in Slots, Pricing(c) \/ CartIsPriced(c)
        PROVE  UNCHANGED rows /\ CartStep(c)
    BY <1>9 DEF Pricing, PriceHit, PriceMiss, PriceLoad, PriceStore, PriceBecomes, CartIsPriced, CartStep
  <1>10. ASSUME NEW c \in Slots, Commit(c) \/ CommitLine(c) \/ DeductLine(c) \/ CreateSale(c)
         PROVE  UNCHANGED rows /\ SaleStep(c)
    BY <1>10 DEF Commit, CommitLine, DeductLine, CreateSale, SaleStep
  <1>11. ASSUME NEW c \in Slots, NEW n, NEW items, Void(c, n, items)
         PROVE  UNCHANGED rows /\ QuietStep
    BY <1>11, EntityStepIsQuiet DEF Void
  <1>12. ASSUME NEW c \in Slots, VoidLine(c) \/ VoidMark(c)
         PROVE  UNCHANGED rows /\ VoidStep(c)
    BY <1>12 DEF VoidLine, VoidMark, VoidStep
  <1>13. ASSUME NEW c \in Slots, NEW i \in Items, StockCall(c, i, "receive", 1)
         PROVE  UNCHANGED rows /\ StockStep(c)
    BY <1>13 DEF StockCall, StockStep
  <1>14. ASSUME NEW c \in Slots, NEW i \in Items, NEW q \in {-1, 1}, StockCall(c, i, "adjust", q)
         PROVE  UNCHANGED rows /\ StockStep(c)
    BY <1>14 DEF StockCall, StockStep
  <1>15. ASSUME NEW c \in Slots, Receive(c) \/ Record(c) \/ Adjust(c)
         PROVE  UNCHANGED rows /\ StockStep(c)
    BY <1>15 DEF Receive, Record, Adjust, StockStep
  <1>16. ASSUME NEW c \in Slots, CallFails(c)
         PROVE  UNCHANGED rows
    BY <1>16 DEF CallFails
  <1>17. QED
    BY <1>0, <1>1, <1>2, <1>3, <1>4, <1>5, <1>6, <1>7, <1>8, <1>9, <1>10, <1>11, <1>12, <1>13, <1>14, <1>15, <1>16
       DEF PlatformNext, LoudStep

-----------------------------------------------------------------------------
(* What is known of carts. *)

LEMMA InitIsKnown ==
  ASSUME PlatformInit PROVE CartIInv
  <1>1. RowsAreKnown
    BY PlatformAssumption DEF PlatformInit, RowsAreKnown
  <1>2. PricesAreKnown /\ CartIsKnown /\ cart = Nothing
    BY DEF PlatformInit, PricesAreKnown, CartIsKnown
  <1>3. \A c \in Slots : CartCallIsKnown(c)
    BY DEF PlatformInit, CartCallIsKnown, AtStep
  <1>4. QED
    BY <1>1, <1>2, <1>3 DEF CartIInv

\* The cart that was built last stays what it is.
LEMMA LastCartKept ==
  ASSUME CartIInv, RowsStay, UNCHANGED cart PROVE CartIsKnown'
  <1>1. PricedLines(DOMAIN rows) \subseteq PricedLines(DOMAIN rows')
    BY MoreLines DEF RowsStay
  <1>2. cart' # Nothing => cart'.lines \in PricedLines(DOMAIN rows')
    BY <1>1 DEF CartIInv, CartIsKnown
  <1>3. QED
    BY <1>2 DEF CartIsKnown

\* A step of a call that is not the pricing of a line.
LEMMA OtherwiseKnown ==
  ASSUME PlatformIInv, CartIInv, RowsAreKnown', RowsStay, UNCHANGED <<priced, cart>>,
         NEW c \in Slots, NEW r, CallBecomes(c, r), CartCallIsKnown(c)'
  PROVE  CartIInv'
  <1>1. \A d \in Slots \ {c} : running'[d] = running[d]
    BY RunningEffect DEF PlatformIInv
  <1>2. \A d \in Slots \ {c} : CartCallIsKnown(d)'
    BY <1>1 DEF CartIInv, CartCallIsKnown, AtStep
  <1>3. PricesAreKnown'
    BY DEF CartIInv, PricesAreKnown
  <1>4. QED
    BY <1>2, <1>3, LastCartKept DEF CartIInv

LEMMA FreeStepIsKnown ==
  ASSUME PlatformIInv, CartIInv, RowsAreKnown', RowsStay, UNCHANGED <<priced, cart>>,
         NEW c \in Slots, NEW r, CallBecomes(c, r), r = Nothing \/ r.step # "cart"
  PROVE  CartIInv'
  <1>1. running'[c] = r
    BY RunningEffect DEF PlatformIInv
  <1>2. CartCallIsKnown(c)'
    BY <1>1 DEF CartCallIsKnown, AtStep
  <1>3. QED
    BY <1>2, OtherwiseKnown

LEMMA QuietStepIsKnown ==
  ASSUME PlatformIInv, CartIInv, RowsAreKnown', RowsStay, QuietStep PROVE CartIInv'
  <1>1. CASE UNCHANGED running
    <2>1. \A d \in Slots : CartCallIsKnown(d)'
      BY <1>1 DEF CartIInv, CartCallIsKnown, AtStep
    <2>2. PricesAreKnown'
      BY DEF QuietStep, CartIInv, PricesAreKnown
    <2>3. QED
      BY <2>1, <2>2, LastCartKept DEF CartIInv, QuietStep
  <1>2. ASSUME NEW c \in Slots, NEW r, CallBecomes(c, r), Quiet(r) PROVE CartIInv'
    BY <1>2, FreeStepIsKnown DEF QuietStep, Quiet
  <1>3. QED
    BY <1>1, <1>2 DEF QuietStep

\* The step that a call is at after a sale's, a voiding's or a receipt's step.
LEMMA StepIsNoCart ==
  ASSUME PlatformIInv, NEW c \in Slots, SaleStep(c) \/ VoidStep(c) \/ StockStep(c) \/ CallFails(c)
  PROVE  UNCHANGED <<priced, cart>> /\ \E r : CallBecomes(c, r) /\ (r = Nothing \/ r.step # "cart")
  <1>1. UNCHANGED <<priced, cart>>
    BY DEF SaleStep, VoidStep, StockStep, Commit, CommitLine, DeductLine, CreateSale, VoidLine, VoidMark, StockCall,
           Receive, Record, Adjust, CallFails, caches
  <1>2. StepIsKnown(c)
    BY DEF PlatformIInv, CallsAreDated
  <1>3. CASE Commit(c)
    <2>1. PICK r : r = [step |-> "commit", lines |-> cart.lines, n |-> 1]
      OBVIOUS
    <2>2. CallBecomes(c, r) /\ r.step = "commit"
      BY <1>3, <2>1 DEF Commit, StartCall
    <2>3. QED
      BY <1>1, <2>2
  <1>4. CASE CommitLine(c)
    <2>1. PICK r : r = [running[c] EXCEPT !.n = @ + 1]
      OBVIOUS
    <2>2. CallBecomes(c, r) /\ r.step = "commit"
      BY <1>2, <1>4, <2>1 DEF CommitLine, AtStep, StepIsKnown
    <2>3. QED
      BY <1>1, <2>2
  <1>5. CASE VoidLine(c)
    <2>1. PICK r : r = [step |-> "adjust", item |-> Head(running[c].items), quantity |-> 1,
                        found |-> stock[Head(running[c].items)] # <<>>,
                        then |-> [running[c] EXCEPT !.items = Tail(@)]]
      OBVIOUS
    <2>2. CallBecomes(c, r) /\ r.step = "adjust"
      BY <1>5, <2>1 DEF VoidLine
    <2>3. QED
      BY <1>1, <2>2
  <1>6. ASSUME NEW i, NEW step \in {"receive", "adjust"}, NEW q, StockCall(c, i, step, q)
        PROVE  \E r : CallBecomes(c, r) /\ (r = Nothing \/ r.step # "cart")
    <2>1. PICK r : r = [step |-> step, item |-> i, quantity |-> q, found |-> stock[i] # <<>>, then |-> Nothing]
      OBVIOUS
    <2>2. CallBecomes(c, r) /\ r.step = step
      BY <1>6, <2>1 DEF StockCall, StartCall
    <2>3. QED
      BY <2>2
  <1>7. CASE Receive(c)
    <2>1. PICK r : r = [running[c] EXCEPT !.step = "record"]
      OBVIOUS
    <2>2. CallBecomes(c, r) /\ r.step = "record"
      BY <1>2, <1>7, <2>1 DEF Receive, AtStep, StepIsKnown
    <2>3. QED
      BY <1>1, <2>2
  <1>8. CASE Adjust(c)
    <2>1. CallBecomes(c, running[c].then) /\ AtStep(c, "adjust")
      BY <1>8 DEF Adjust
    <2>2. QED
      BY <1>1, <1>2, <2>1 DEF StepIsKnown
  <1>9. CASE DeductLine(c) \/ CreateSale(c) \/ VoidMark(c) \/ Record(c) \/ CallFails(c)
    BY <1>1, <1>9 DEF DeductLine, CreateSale, VoidMark, Record, CallFails, EndCall
  <1>10. QED
    BY <1>1, <1>3, <1>4, <1>5, <1>6, <1>7, <1>8, <1>9 DEF SaleStep, VoidStep, StockStep

LEMMA BuildCartIsKnown ==
  ASSUME PlatformIInv, CartIInv, RowsAreKnown', RowsStay, NEW c \in Slots, NEW lines \in Carts, BuildCart(c, lines)
  PROVE  CartIInv'
  <1>1. PICK prices : prices = [n \in DOMAIN lines |-> [step |-> "get"]]
    OBVIOUS
  <1>2. PICK r : r = [step |-> "cart", lines |-> lines, at |-> clock, price |-> prices]
    OBVIOUS
  <1>3. CallBecomes(c, r) /\ UNCHANGED <<priced, cart>>
    BY <1>1, <1>2 DEF BuildCart, StartCall, caches
  <1>4. running'[c] = r
    BY <1>3, RunningEffect DEF PlatformIInv
  <1>5. r.lines = lines /\ r.price = prices /\ \A n \in DOMAIN lines : prices[n].step = "get"
    BY <1>1, <1>2
  <1>6. CartCallIsKnown(c)'
    BY <1>4, <1>5 DEF CartCallIsKnown
  <1>7. QED
    BY <1>3, <1>6, OtherwiseKnown

\* A price that is found in the cache, missed, loaded or stored.
LEMMA PriceStepIsKnown ==
  ASSUME PlatformIInv, CartIInv, RowsAreKnown', RowsStay, NEW c \in Slots, AtStep(c, "cart"),
         NEW n \in DOMAIN running[c].lines, NEW r, PriceBecomes(c, n, r),
         r.step \in {"set", "done"} => r.price \in Int, PricesAreKnown'
  PROVE  CartIInv'
  <1>1. UNCHANGED cart
    BY DEF PriceBecomes
  <1>2. /\ \A d \in Slots \ {c} : running'[d] = running[d]
        /\ running'[c].lines = running[c].lines
        /\ running'[c].price[n] = r
        /\ \A m \in DOMAIN running[c].lines \ {n} : running'[c].price[m] = running[c].price[m]
    BY PriceEffect
  <1>3. CartCallIsKnown(c)
    BY DEF CartIInv
  <1>4. CartCallIsKnown(c)'
    BY <1>2, <1>3 DEF CartCallIsKnown
  <1>5. \A d \in Slots \ {c} : CartCallIsKnown(d)'
    BY <1>2 DEF CartIInv, CartCallIsKnown, AtStep
  <1>6. QED
    BY <1>1, <1>4, <1>5, LastCartKept DEF CartIInv

LEMMA PricingIsKnown ==
  ASSUME PlatformIInv, CartIInv, RowsAreKnown', RowsStay, NEW c \in Slots, Pricing(c)
  PROVE  CartIInv'
  <1>1. PICK n : PriceHit(c, n) \/ PriceMiss(c, n) \/ PriceLoad(c, n) \/ PriceStore(c, n)
    BY DEF Pricing
  <1>2. AtStep(c, "cart") /\ n \in DOMAIN running[c].lines
    BY <1>1 DEF PriceHit, PriceMiss, PriceLoad, PriceStore, PriceIs
  <1>3. \A e \in priced : e.price \in Int
    BY DEF CartIInv, PricesAreKnown
  <1>4. UNCHANGED priced => PricesAreKnown'
    BY <1>3 DEF PricesAreKnown
  <1>5. CASE PriceHit(c, n)
    <2>1. PICK e \in priced : PriceBecomes(c, n, [step |-> "done", price |-> e.price, slow |-> e.slow])
      BY <1>5 DEF PriceHit, Cached
    <2>2. PICK r : r = [step |-> "done", price |-> e.price, slow |-> e.slow]
      OBVIOUS
    <2>3. PriceBecomes(c, n, r) /\ r.price \in Int
      BY <1>3, <2>1, <2>2
    <2>4. QED
      BY <1>2, <1>4, <1>5, <2>3, PriceStepIsKnown DEF PriceHit
  <1>6. CASE PriceMiss(c, n)
    <2>1. PICK r : r = [step |-> "load"]
      OBVIOUS
    <2>2. PriceBecomes(c, n, r) /\ r.step = "load"
      BY <1>6, <2>1 DEF PriceMiss
    <2>3. QED
      BY <1>2, <1>4, <1>6, <2>2, PriceStepIsKnown DEF PriceMiss
  <1>7. CASE PriceLoad(c, n)
    <2> DEFINE line == running[c].lines[n]
    <2>1. line.item \in DOMAIN rows
      BY <1>2 DEF PlatformIInv, CallsAreDated, CartCallIsDated, LineIsDated
    <2>2. FinalPrice(rows[line.item], line.channel, Instants[running[c].at]) \in Int
      BY <2>1, FinalPriceIsANumber DEF CartIInv, RowsAreKnown
    <2>3. PICK r : r = [step |-> "set", price |-> FinalPrice(rows[line.item], line.channel, Instants[running[c].at])]
      OBVIOUS
    <2>4. PriceBecomes(c, n, r) /\ r.price \in Int
      BY <1>7, <2>2, <2>3 DEF PriceLoad
    <2>5. QED
      BY <1>2, <1>4, <1>7, <2>4, PriceStepIsKnown DEF PriceLoad
  <1>8. CASE PriceStore(c, n)
    <2> DEFINE old  == running[c].price[n].price
               key  == PriceKey(running[c].lines[n], running[c].at)
               slow == clock # running[c].at
    <2>1. old \in Int
      BY <1>2, <1>8 DEF CartIInv, CartCallIsKnown, PriceStore, PriceIs
    <2>2. PICK r : r = [step |-> "done", price |-> old, slow |-> slow]
      OBVIOUS
    <2>3. PICK new : new = [key |-> key, price |-> old, until |-> clock + PriceTTL, slow |-> slow]
      OBVIOUS
    <2>4. PriceBecomes(c, n, r) /\ priced' = {e \in priced : e.key # key} \cup {new}
      BY <1>8, <2>2, <2>3 DEF PriceStore
    <2>5. r.price \in Int /\ new.price \in Int
      BY <2>1, <2>2, <2>3
    <2>6. PricesAreKnown'
      BY <1>3, <2>4, <2>5 DEF PricesAreKnown
    <2>7. QED
      BY <1>2, <2>4, <2>5, <2>6, PriceStepIsKnown
  <1>9. QED
    BY <1>1, <1>5, <1>6, <1>7, <1>8

\* A cart is built: its lines were priced with a class each, and its totals were
\* computed from them.
LEMMA CartIsPricedIsKnown ==
  ASSUME PlatformIInv, CartIInv, RowsAreKnown', RowsStay, NEW c \in Slots, CartIsPriced(c)
  PROVE  CartIInv'
  <1> DEFINE input    == running[c].lines
             price(n) == running[c].price[n].price
             class(n) == TaxClass(Classes, rows[input[n].item].taxClass)
  <1>1. PICK lines : lines = [n \in DOMAIN input |-> PricedLine(input[n], price(n), class(n))]
    OBVIOUS
  <1>2. PICK new : new = [lines |-> lines, input |-> input, totals |-> CartTotals(lines), at |-> running[c].at,
                          slow |-> \E n \in DOMAIN lines : running[c].price[n].slow \/ clock # running[c].at]
    OBVIOUS
  <1>3. /\ cart' = new /\ UNCHANGED <<priced, rows>> /\ CallBecomes(c, Nothing) /\ AtStep(c, "cart")
        /\ \A n \in DOMAIN input : running[c].price[n].step = "done"
    BY <1>1, <1>2 DEF CartIsPriced, EndCall, caches
  <1>4. new.lines = lines /\ new.totals = CartTotals(lines)
    BY <1>2
  <1>5. input \in Carts /\ \A n \in DOMAIN input : price(n) \in Int
    BY <1>3 DEF CartIInv, CartCallIsKnown
  <1>6. /\ input \in Seq([item : Items, quantity : Int, channel : STRING])
        /\ DOMAIN input = 1 .. Len(input) /\ Len(input) \in Nat
        /\ \A n \in DOMAIN input : input[n].quantity \in Int
    <2>1. PICK R : R = [item : Items, quantity : Int, channel : STRING]
      OBVIOUS
    <2>2. input \in Seq(R)
      BY <1>5, <2>1, PlatformAssumption
    <2> HIDE DEF input
    <2>3. DOMAIN input = 1 .. Len(input) /\ Len(input) \in Nat /\ \A n \in DOMAIN input : input[n] \in R
      BY <2>2
    <2>4. QED
      BY <2>1, <2>2, <2>3
  <1>7. \A n \in DOMAIN input : input[n].item \in DOMAIN rows
    BY <1>3 DEF PlatformIInv, CallsAreDated, CartCallIsDated, LineIsDated
  <1>8. ASSUME NEW n \in DOMAIN input
        PROVE  lines[n] \in [item : DOMAIN rows, quantity : Int, unitPrice : Int, tax : Int,
                             inclusive : BOOLEAN, total : Int]
    <2>1. class(n).rate \in Nat /\ class(n).inclusive \in BOOLEAN
      BY ClassIsKnown
    <2>2. PICK taxed : taxed = class(n)
      OBVIOUS
    <2>3. PICK line : line = input[n]
      OBVIOUS
    <2>4. PICK amount : amount = price(n)
      OBVIOUS
    <2>5. lines[n] = PricedLine(line, amount, taxed)
      BY <1>1, <2>2, <2>3, <2>4
    <2>6. line.item \in DOMAIN rows /\ line.quantity \in Int /\ amount \in Int
          /\ taxed.rate \in Nat /\ taxed.inclusive \in BOOLEAN
      BY <1>5, <1>6, <1>7, <2>1, <2>2, <2>3, <2>4
    <2>7. PICK l : l = PricedLine(line, amount, taxed)
      OBVIOUS
    <2>8. l \in [item : DOMAIN rows, quantity : Int, unitPrice : Int, tax : Int, inclusive : BOOLEAN, total : Int]
      BY <2>6, <2>7, PricedLineIsKnown
    <2>9. QED
      BY <2>5, <2>7, <2>8
  <1>9. DOMAIN lines = 1 .. Len(input) /\ lines = [n \in 1 .. Len(input) |-> lines[n]]
    BY <1>1, <1>6
  <1> HIDE DEF input, price, class
  <1>10. lines \in PricedLines(DOMAIN rows)
    <2>1. PICK L : L = [item : DOMAIN rows, quantity : Int, unitPrice : Int, tax : Int, inclusive : BOOLEAN, total : Int]
      OBVIOUS
    <2>2. \A n \in 1 .. Len(input) : lines[n] \in L
      BY <1>6, <1>8, <2>1
    <2>3. lines \in Seq(L)
      BY <1>6, <1>9, <2>2
    <2>4. QED
      BY <2>1, <2>3 DEF PricedLines
  <1>12. CartIsKnown'
    BY <1>3, <1>4, <1>10 DEF CartIsKnown
  <1>13. /\ running'[c] = Nothing
         /\ \A d \in Slots \ {c} : running'[d] = running[d]
    BY <1>3, RunningEffect DEF PlatformIInv
  <1>14. \A d \in Slots : CartCallIsKnown(d)'
    BY <1>13 DEF CartIInv, CartCallIsKnown, AtStep
  <1>15. PricesAreKnown'
    BY <1>3 DEF CartIInv, PricesAreKnown
  <1>16. QED
    BY <1>12, <1>14, <1>15 DEF CartIInv

LEMMA StepKeepsCarts ==
  ASSUME PlatformIInv, CartIInv, [PlatformNext]_platformVars PROVE CartIInv'
  <1>1. RowsAreKnown' /\ RowsStay /\ (QuietStep \/ LoudStep)
    BY StepKinds DEF CartIInv
  <1>2. CASE QuietStep
    BY <1>1, <1>2, QuietStepIsKnown
  <1>3. ASSUME NEW c \in Slots, CartStep(c) PROVE CartIInv'
    BY <1>1, <1>3, BuildCartIsKnown, PricingIsKnown, CartIsPricedIsKnown DEF CartStep
  <1>4. ASSUME NEW c \in Slots, SaleStep(c) \/ VoidStep(c) \/ StockStep(c) \/ CallFails(c) PROVE CartIInv'
    <2>1. UNCHANGED <<priced, cart>> /\ \E r : CallBecomes(c, r) /\ (r = Nothing \/ r.step # "cart")
      BY <1>4, StepIsNoCart
    <2>2. QED
      BY <1>1, <2>1, FreeStepIsKnown
  <1>5. QED
    BY <1>1, <1>2, <1>3, <1>4 DEF LoudStep

\* DiscountsHaveAWindow: whatever an entity costs is its channel's price or what
\* an open window makes of it, over the end of the week as well; for any rows,
\* windows and times.
THEOREM DiscountsAreOpen ==
  PlatformSpec => []DiscountsHaveAWindow
  <1>1. PlatformInit => PlatformIInv /\ CartIInv
    BY InitIsDated, InitIsKnown
  <1>2. PlatformIInv /\ CartIInv /\ [PlatformNext]_platformVars => (PlatformIInv /\ CartIInv)'
    BY PlatformStepKeepsDates, StepKeepsCarts
  <1>3. PlatformIInv /\ CartIInv => DiscountsHaveAWindow
    BY DiscountsAreExplained DEF CartIInv
  <1>4. QED
    BY <1>1, <1>2, <1>3, PTL DEF PlatformSpec

-----------------------------------------------------------------------------
(* Stock and its movements. *)

\* A receipt of one piece, at one of its steps.
ReceiptsAt(step) == [step : {step}, item : Items, quantity : {1}, found : BOOLEAN, then : {Nothing}]

StockCallIsKnown(c) ==
  /\ AtStep(c, "receive") => running[c] \in ReceiptsAt("receive")
  /\ AtStep(c, "record") => running[c] \in ReceiptsAt("record")
  /\ AtStep(c, "adjust") => running[c].quantity \in Int

\* The stock of an entity is ahead of its movements by what has been received and
\* is not recorded yet.
StockIsAccounted(i) ==
  /\ stock[i] \in Seq(Int) /\ moved[i] \in Int
  /\ <<"stock", i>> \notin torn => OnHand(i) = moved[i] + Cardinality(Unrecorded(i))

StockIInv ==
  /\ DOMAIN stock = Items /\ DOMAIN moved = Items
  /\ \A c \in Slots : StockCallIsKnown(c)
  /\ \A i \in Items : StockIsAccounted(i)

LEMMA UnrecordedAreFinite ==
  ASSUME NEW i PROVE IsFiniteSet(Unrecorded(i))
  BY PlatformAssumption, FS_Subset DEF Unrecorded

LEMMA InitIsAccounted ==
  ASSUME PlatformInit PROVE StockIInv
  <1>1. DOMAIN stock = Items /\ DOMAIN moved = Items
    BY DEF PlatformInit
  <1>2. \A c \in Slots : running[c] = Nothing
    BY DEF PlatformInit
  <1>3. \A c \in Slots : StockCallIsKnown(c)
    BY <1>2 DEF StockCallIsKnown, AtStep
  <1>4. ASSUME NEW i \in Items PROVE StockIsAccounted(i)
    <2>1. stock[i] = <<>> /\ moved[i] = 0 /\ <<>> \in Seq(Int)
      BY DEF PlatformInit
    <2>2. Unrecorded(i) = {}
      BY <1>2 DEF Unrecorded, AtStep
    <2>3. OnHand(i) = 0 /\ Cardinality(Unrecorded(i)) = 0
      BY <2>1, <2>2, SumOfNone, FS_EmptySet DEF OnHand
    <2>4. QED
      BY <2>1, <2>3 DEF StockIsAccounted
  <1>5. QED
    BY <1>1, <1>3, <1>4 DEF StockIInv

\* The other calls of a step stay known.
LEMMA OtherCallsStay ==
  ASSUME PlatformIInv, StockIInv, NEW c \in Slots, NEW r, CallBecomes(c, r)
  PROVE  /\ running'[c] = r
         /\ \A d \in Slots \ {c} : running'[d] = running[d] /\ StockCallIsKnown(d)'
  <1>1. running'[c] = r /\ \A d \in Slots \ {c} : running'[d] = running[d]
    BY RunningEffect DEF PlatformIInv
  <1>2. \A d \in Slots \ {c} : StockCallIsKnown(d)'
    BY <1>1 DEF StockIInv, StockCallIsKnown, AtStep
  <1>3. QED
    BY <1>1, <1>2

\* A step that neither writes stock nor begins or ends to record.
LEMMA StockKept ==
  ASSUME PlatformIInv, StockIInv, UNCHANGED <<stock, moved>>, torn \subseteq torn',
         NEW c \in Slots, NEW r, CallBecomes(c, r), ~AtStep(c, "record"), r = Nothing \/ r.step # "record",
         StockCallIsKnown(c)'
  PROVE  StockIInv'
  <1>1. /\ running'[c] = r
        /\ \A d \in Slots \ {c} : running'[d] = running[d] /\ StockCallIsKnown(d)'
    BY OtherCallsStay
  <1>2. ASSUME NEW i \in Items PROVE StockIsAccounted(i)'
    <2>1. Unrecorded(i)' = Unrecorded(i)
      BY <1>1 DEF Unrecorded, AtStep
    <2>2. OnHand(i)' = OnHand(i)
      BY DEF OnHand
    <2>3. StockIsAccounted(i)
      BY DEF StockIInv
    <2>4. QED
      BY <2>1, <2>2, <2>3 DEF StockIsAccounted
  <1>3. QED
    BY <1>1, <1>2 DEF StockIInv

\* Such a step of a call that goes on to nothing that the stock knows of.
LEMMA StockKeptFree ==
  ASSUME PlatformIInv, StockIInv, UNCHANGED <<stock, moved>>, torn \subseteq torn',
         NEW c \in Slots, NEW r, CallBecomes(c, r), ~AtStep(c, "record"),
         r = Nothing \/ r.step \notin {"receive", "record", "adjust"}
  PROVE  StockIInv'
  <1>1. running'[c] = r
    BY OtherCallsStay
  <1>2. StockCallIsKnown(c)'
    BY <1>1 DEF StockCallIsKnown, AtStep
  <1>3. QED
    BY <1>2, StockKept

LEMMA QuietStepIsAccounted ==
  ASSUME PlatformIInv, StockIInv, QuietStep PROVE StockIInv'
  <1>1. CASE UNCHANGED running
    <2>1. \A d \in Slots : StockCallIsKnown(d)'
      BY <1>1 DEF StockIInv, StockCallIsKnown, AtStep
    <2>2. ASSUME NEW i \in Items PROVE StockIsAccounted(i)'
      <3>1. Unrecorded(i)' = Unrecorded(i) /\ OnHand(i)' = OnHand(i)
        BY <1>1 DEF QuietStep, Unrecorded, AtStep, OnHand
      <3>2. QED
        BY <3>1 DEF QuietStep, StockIInv, StockIsAccounted
    <2>3. QED
      BY <2>1, <2>2 DEF QuietStep, StockIInv
  <1>2. ASSUME NEW c \in Slots, NEW r, CallBecomes(c, r), Quiet(running[c]), Quiet(r) PROVE StockIInv'
    <2>1. ~AtStep(c, "record") /\ (r = Nothing \/ r.step \notin {"receive", "record", "adjust"})
      BY <1>2 DEF Quiet, AtStep
    <2>2. QED
      BY <1>2, <2>1, StockKeptFree DEF QuietStep
  <1>3. QED
    BY <1>1, <1>2 DEF QuietStep

\* Carts and sales have nothing to do with the stock.
LEMMA CartStepIsAccounted ==
  ASSUME PlatformIInv, StockIInv, NEW c \in Slots, CartStep(c) PROVE StockIInv'
  <1>1. ASSUME NEW lines \in Carts, BuildCart(c, lines) PROVE StockIInv'
    <2>1. PICK r : r = [step |-> "cart", lines |-> lines, at |-> clock,
                        price |-> [n \in DOMAIN lines |-> [step |-> "get"]]]
      OBVIOUS
    <2>2. CallBecomes(c, r) /\ running[c] = Nothing /\ r.step = "cart" /\ UNCHANGED <<stock, moved, torn>>
      BY <1>1, <2>1 DEF BuildCart, StartCall, shop
    <2>3. QED
      BY <2>2, StockKeptFree DEF AtStep
  <1>2. CASE Pricing(c)
    <2>1. PICK n, r : AtStep(c, "cart") /\ n \in DOMAIN running[c].lines /\ PriceBecomes(c, n, r)
      <3>1. PICK n : PriceHit(c, n) \/ PriceMiss(c, n) \/ PriceLoad(c, n) \/ PriceStore(c, n)
        BY <1>2 DEF Pricing
      <3>2. AtStep(c, "cart") /\ n \in DOMAIN running[c].lines
        BY <3>1 DEF PriceHit, PriceMiss, PriceLoad, PriceStore, PriceIs
      <3>3. \E r : PriceBecomes(c, n, r)
        BY <3>1 DEF PriceHit, PriceMiss, PriceLoad, PriceStore
      <3>4. QED
        BY <3>2, <3>3
    <2>2. PICK r2 : r2 = [running[c] EXCEPT !.price[n] = r]
      OBVIOUS
    <2>3. CallBecomes(c, r2) /\ UNCHANGED <<stock, moved, torn>>
      BY <2>1, <2>2 DEF PriceBecomes, CallBecomes, shop
    <2>4. running'[c].step = "cart"
      BY <2>1, PriceEffect
    <2>5. running'[c] = r2
      BY <2>3, OtherCallsStay
    <2>6. ~AtStep(c, "record")
      BY <2>1 DEF AtStep
    <2>7. QED
      BY <2>3, <2>4, <2>5, <2>6, StockKeptFree
  <1>3. CASE CartIsPriced(c)
    BY <1>3, StockKeptFree DEF CartIsPriced, EndCall, AtStep, shop
  <1>4. QED
    BY <1>1, <1>2, <1>3 DEF CartStep

LEMMA SaleStepIsAccounted ==
  ASSUME PlatformIInv, StockIInv, NEW c \in Slots, SaleStep(c) \/ VoidMark(c) PROVE StockIInv'
  <1>1. CASE Commit(c)
    <2>1. PICK r : r = [step |-> "commit", lines |-> cart.lines, n |-> 1]
      OBVIOUS
    <2>2. CallBecomes(c, r) /\ running[c] = Nothing /\ r.step = "commit" /\ UNCHANGED <<stock, moved, torn>>
      BY <1>1, <2>1 DEF Commit, StartCall, shop
    <2>3. QED
      BY <2>2, StockKeptFree DEF AtStep
  <1>2. CASE CommitLine(c)
    <2>1. PICK r : r = [running[c] EXCEPT !.n = @ + 1]
      OBVIOUS
    <2>2. CallBecomes(c, r) /\ AtStep(c, "commit") /\ UNCHANGED <<stock, moved, torn>>
      BY <1>2, <2>1 DEF CommitLine
    <2>3. r.step = "commit"
      BY <2>1, <2>2 DEF AtStep, PlatformIInv, CallsAreDated, StepIsKnown
    <2>4. QED
      BY <2>2, <2>3, StockKeptFree DEF AtStep
  <1>3. CASE DeductLine(c) \/ CreateSale(c) \/ VoidMark(c)
    <2>1. CallBecomes(c, Nothing) /\ ~AtStep(c, "record") /\ UNCHANGED <<stock, moved>> /\ torn \subseteq torn'
      BY <1>3 DEF DeductLine, CreateSale, VoidMark, EndCall, AtStep
    <2>2. QED
      BY <2>1, StockKeptFree
  <1>4. QED
    BY <1>1, <1>2, <1>3 DEF SaleStep

LEMMA VoidLineIsAccounted ==
  ASSUME PlatformIInv, StockIInv, NEW c \in Slots, VoidLine(c) PROVE StockIInv'
  <1>1. PICK r : r = [step |-> "adjust", item |-> Head(running[c].items), quantity |-> 1,
                      found |-> stock[Head(running[c].items)] # <<>>,
                      then |-> [running[c] EXCEPT !.items = Tail(@)]]
    OBVIOUS
  <1>2. CallBecomes(c, r) /\ AtStep(c, "void") /\ UNCHANGED <<stock, moved, torn>>
    BY <1>1 DEF VoidLine, shop
  <1>3. r.step = "adjust" /\ r.quantity = 1
    BY <1>1
  <1>4. running'[c] = r
    BY <1>2, OtherCallsStay
  <1>5. StockCallIsKnown(c)'
    BY <1>3, <1>4 DEF StockCallIsKnown, AtStep
  <1>6. QED
    BY <1>2, <1>3, <1>5, StockKept DEF AtStep

LEMMA StockCallIsAccounted ==
  ASSUME PlatformIInv, StockIInv, NEW c \in Slots, NEW i \in Items, NEW step \in {"receive", "adjust"}, NEW q \in Int,
         StockCall(c, i, step, q), step = "receive" => q = 1
  PROVE  StockIInv'
  <1>1. PICK r : r = [step |-> step, item |-> i, quantity |-> q, found |-> stock[i] # <<>>, then |-> Nothing]
    OBVIOUS
  <1>2. CallBecomes(c, r) /\ running[c] = Nothing /\ UNCHANGED <<stock, moved, torn>>
    BY <1>1 DEF StockCall, StartCall, shop
  <1>3. PICK found \in BOOLEAN : found = (stock[i] # <<>>)
    OBVIOUS
  <1>4. r.step = step /\ r.quantity = q /\ (step = "receive" => r \in ReceiptsAt("receive"))
    <2>1. r = [step |-> step, item |-> i, quantity |-> q, found |-> found, then |-> Nothing]
      BY <1>1, <1>3
    <2> HIDE <1>1, <1>3
    <2>2. QED
      BY <2>1 DEF ReceiptsAt
  <1>5. running'[c] = r
    BY <1>2, OtherCallsStay
  <1>6. StockCallIsKnown(c)'
    BY <1>4, <1>5 DEF StockCallIsKnown, AtStep
  <1>7. QED
    BY <1>2, <1>4, <1>6, StockKept DEF AtStep

\* The statement of a receipt, or of an adjustment, makes one row larger or
\* adds one.
LEMMA RowsAreWritten ==
  ASSUME StockIInv, NEW i \in Items, NEW q \in Int, NEW after,
         after \in Added(i, q) \/ after = Append(stock[i], q)
  PROVE  after \in Seq(Int) /\ Summed(after) = OnHand(i) + q
  <1>1. stock[i] \in Seq(Int)
    BY DEF StockIInv, StockIsAccounted
  <1>2. CASE after \in Added(i, q)
    <2>1. PICK n \in DOMAIN stock[i] : after = [stock[i] EXCEPT ![n] = @ + q]
      BY <1>2 DEF Added
    <2>2. QED
      BY <1>1, <2>1, SumOfChange DEF OnHand
  <1>3. CASE after = Append(stock[i], q)
    BY <1>1, <1>3, SumOfAppend DEF OnHand
  <1>4. QED
    BY <1>2, <1>3

LEMMA ReceiveIsAccounted ==
  ASSUME PlatformIInv, StockIInv, NEW c \in Slots, Receive(c) PROVE StockIInv'
  <1>0. PICK i : i = running[c].item
    OBVIOUS
  <1>1. running[c] \in ReceiptsAt("receive") /\ AtStep(c, "receive")
    BY DEF StockIInv, StockCallIsKnown, Receive
  <1>2. i \in Items /\ running[c].quantity = 1
    BY <1>0, <1>1 DEF ReceiptsAt
  <1>3. PICK after : /\ stock' = [stock EXCEPT ![i] = after]
                     /\ after \in Added(i, 1) \/ after = Append(stock[i], 1)
    BY <1>0, <1>2 DEF Receive
  <1>4. PICK r : r = [running[c] EXCEPT !.step = "record"]
    OBVIOUS
  <1>5. CallBecomes(c, r) /\ UNCHANGED <<moved, torn>>
    BY <1>4 DEF Receive
  <1>6. r \in ReceiptsAt("record") /\ r.step = "record" /\ r.item = i
    BY <1>0, <1>1, <1>4 DEF ReceiptsAt
  <1>7. r # Nothing
    <2>1. {"record"} \subseteq {"receive", "record"} /\ {1} \subseteq Int
      OBVIOUS
    <2>2. ReceiptsAt("record") \subseteq
            [step : {"receive", "record"}, item : Items, quantity : Int, found : BOOLEAN, then : {Nothing}]
      BY <2>1, Zenon DEF ReceiptsAt
    <2>3. QED
      BY <1>6, <2>2, PlatformAssumption
  <1>8. after \in Seq(Int) /\ Summed(after) = OnHand(i) + 1
    <2>1. PICK q \in Int : q = 1
      OBVIOUS
    <2>2. after \in Added(i, q) \/ after = Append(stock[i], q)
      BY <1>3, <2>1
    <2>3. after \in Seq(Int) /\ Summed(after) = OnHand(i) + q
      BY <1>2, <2>2, RowsAreWritten
    <2>4. QED
      BY <2>1, <2>3
  <1>9. /\ running'[c] = r
        /\ \A d \in Slots \ {c} : running'[d] = running[d] /\ StockCallIsKnown(d)'
    BY <1>5, OtherCallsStay
  <1>10. StockCallIsKnown(c)'
    BY <1>6, <1>9 DEF StockCallIsKnown, AtStep
  <1>11. ASSUME NEW j \in Items PROVE StockIsAccounted(j)'
    <2>1. StockIsAccounted(j)
      BY DEF StockIInv
    <2>2. CASE j # i
      <3>1. stock'[j] = stock[j]
        BY <1>3, <2>2 DEF StockIInv
      <3>2. Unrecorded(j)' = Unrecorded(j)
        BY <1>0, <1>1, <1>6, <1>9, <2>2 DEF Unrecorded, AtStep
      <3>3. OnHand(j)' = OnHand(j)
        BY <3>1 DEF OnHand
      <3>4. QED
        BY <1>5, <2>1, <3>1, <3>2, <3>3 DEF StockIsAccounted
    <2>3. CASE j = i
      <3>1. stock'[i] = after
        BY <1>2, <1>3 DEF StockIInv
      <3>2. Unrecorded(i)' = Unrecorded(i) \cup {c} /\ c \notin Unrecorded(i)
        BY <1>0, <1>1, <1>6, <1>7, <1>9 DEF Unrecorded, AtStep
      <3>3. Cardinality(Unrecorded(i)') = Cardinality(Unrecorded(i)) + 1 /\ Cardinality(Unrecorded(i)) \in Nat
        BY <3>2, UnrecordedAreFinite, FS_AddElement, FS_CardinalityType
      <3>4. OnHand(i)' = OnHand(i) + 1
        BY <1>8, <3>1 DEF OnHand
      <3>5. OnHand(i) \in Int
        BY <2>1, <2>3, SumIsANumber DEF StockIsAccounted, OnHand
      <3>6. QED
        BY <1>5, <1>8, <2>1, <2>3, <3>1, <3>3, <3>4, <3>5 DEF StockIsAccounted
    <2>4. QED
      BY <2>2, <2>3
  <1>12. QED
    BY <1>3, <1>5, <1>9, <1>10, <1>11 DEF StockIInv

LEMMA RecordIsAccounted ==
  ASSUME PlatformIInv, StockIInv, NEW c \in Slots, Record(c) PROVE StockIInv'
  <1>0. PICK i : i = running[c].item
    OBVIOUS
  <1>1. running[c] \in ReceiptsAt("record") /\ AtStep(c, "record")
    BY DEF StockIInv, StockCallIsKnown, Record
  <1>2. i \in Items /\ running[c].quantity = 1
    BY <1>0, <1>1 DEF ReceiptsAt
  <1>3. moved' = [moved EXCEPT ![i] = @ + 1] /\ UNCHANGED <<stock, torn>> /\ CallBecomes(c, Nothing)
    BY <1>0, <1>2 DEF Record, EndCall
  <1>4. /\ running'[c] = Nothing
        /\ \A d \in Slots \ {c} : running'[d] = running[d] /\ StockCallIsKnown(d)'
    BY <1>3, OtherCallsStay
  <1>5. StockCallIsKnown(c)'
    BY <1>4 DEF StockCallIsKnown, AtStep
  <1>6. ASSUME NEW j \in Items PROVE StockIsAccounted(j)'
    <2>1. StockIsAccounted(j)
      BY DEF StockIInv
    <2>2. OnHand(j)' = OnHand(j)
      BY <1>3 DEF OnHand
    <2>3. CASE j # i
      <3>1. Unrecorded(j)' = Unrecorded(j)
        BY <1>0, <1>4, <2>3 DEF Unrecorded, AtStep
      <3>2. moved'[j] = moved[j]
        BY <1>3, <2>3 DEF StockIInv
      <3>3. QED
        BY <1>3, <2>1, <2>2, <3>1, <3>2 DEF StockIsAccounted
    <2>4. CASE j = i
      <3>1. Unrecorded(i)' = Unrecorded(i) \ {c} /\ c \in Unrecorded(i)
        BY <1>0, <1>1, <1>4 DEF Unrecorded, AtStep
      <3>2. Cardinality(Unrecorded(i)') = Cardinality(Unrecorded(i)) - 1 /\ Cardinality(Unrecorded(i)) \in Nat
        BY <3>1, UnrecordedAreFinite, FS_RemoveElement, FS_CardinalityType
      <3>3. moved'[i] = moved[i] + 1
        BY <1>2, <1>3 DEF StockIInv
      <3>4. QED
        BY <1>3, <2>1, <2>2, <2>4, <3>2, <3>3 DEF StockIsAccounted
    <2>5. QED
      BY <2>3, <2>4
  <1>7. QED
    BY <1>3, <1>4, <1>5, <1>6 DEF StockIInv

\* An adjustment writes stock and movement at once; only one below 0 of an entity
\* that has no row does not.
LEMMA AdjustIsAccounted ==
  ASSUME PlatformIInv, StockIInv, NEW c \in Slots, Adjust(c) PROVE StockIInv'
  <1> DEFINE i == running[c].item
             q == running[c].quantity
  <1>1. AtStep(c, "adjust") /\ q \in Int
    BY DEF StockIInv, StockCallIsKnown, Adjust
  <1>2. PICK after : /\ stock' = [stock EXCEPT ![i] = after]
                     /\ after \in IF running[c].found THEN Added(i, q)
                                                      ELSE {Append(stock[i], IF q < 0 THEN 0 ELSE q)}
    BY DEF Adjust
  <1>3. /\ moved' = [moved EXCEPT ![i] = @ + q]
        /\ torn' = IF ~running[c].found /\ q < 0 THEN torn \cup {<<"stock", i>>} ELSE torn
    BY DEF Adjust
  <1>4. PICK r : r = running[c].then
    OBVIOUS
  <1>5. CallBecomes(c, r)
    BY <1>4 DEF Adjust
  <1>6. r = Nothing \/ r.step = "void"
    BY <1>1, <1>4 DEF PlatformIInv, CallsAreDated, StepIsKnown
  <1>7. /\ running'[c] = r
        /\ \A d \in Slots \ {c} : running'[d] = running[d] /\ StockCallIsKnown(d)'
    BY <1>5, OtherCallsStay
  <1>8. StockCallIsKnown(c)'
    BY <1>6, <1>7 DEF StockCallIsKnown, AtStep
  <1> HIDE DEF i, q
  <1>9. \A j \in Items : Unrecorded(j)' = Unrecorded(j)
    BY <1>1, <1>6, <1>7 DEF Unrecorded, AtStep
  <1>10. ASSUME NEW j \in Items PROVE StockIsAccounted(j)'
    <2>1. StockIsAccounted(j)
      BY DEF StockIInv
    <2>2. CASE j # i
      <3>1. stock'[j] = stock[j] /\ moved'[j] = moved[j] /\ torn \subseteq torn'
        BY <1>2, <1>3, <2>2 DEF StockIInv
      <3>2. OnHand(j)' = OnHand(j)
        BY <3>1 DEF OnHand
      <3>3. QED
        BY <1>9, <2>1, <3>1, <3>2 DEF StockIsAccounted
    <2>3. CASE j = i
      <3>1. stock'[j] = after /\ moved'[j] = moved[j] + q
        BY <1>2, <1>3, <2>3 DEF StockIInv
      <3>2. PICK p \in Int : after \in Added(j, p) \/ after = Append(stock[j], p)
        BY <1>1, <1>2, <2>3
      <3>3. after \in Seq(Int)
        BY <3>2, RowsAreWritten
      <3>4. ASSUME <<"stock", j>> \notin torn' PROVE Summed(after) = OnHand(j) + q
        <4>1. after \in Added(j, q) \/ after = Append(stock[j], q)
          BY <1>1, <1>2, <1>3, <2>3, <3>4
        <4>2. QED
          BY <1>1, <4>1, RowsAreWritten
      <3>5. OnHand(j)' = Summed(after) /\ OnHand(j) \in Int
        BY <2>1, <3>1, SumIsANumber DEF OnHand, StockIsAccounted
      <3>6. Cardinality(Unrecorded(j)) \in Nat
        BY UnrecordedAreFinite, FS_CardinalityType
      <3>7. torn \subseteq torn'
        BY <1>3
      <3>8. QED
        BY <1>1, <1>9, <2>1, <3>1, <3>3, <3>4, <3>5, <3>6, <3>7 DEF StockIsAccounted
    <2>4. QED
      BY <2>2, <2>3
  <1>11. QED
    BY <1>2, <1>3, <1>7, <1>8, <1>10 DEF StockIInv

LEMMA FailIsAccounted ==
  ASSUME PlatformIInv, StockIInv, NEW c \in Slots, CallFails(c) PROVE StockIInv'
  <1>1. UNCHANGED <<stock, moved>> /\ CallBecomes(c, Nothing)
    BY DEF CallFails, EndCall
  <1>2. CASE ~AtStep(c, "record")
    <2>1. torn \subseteq torn'
      BY DEF CallFails
    <2>2. QED
      BY <1>1, <1>2, <2>1, StockKeptFree
  <1>3. CASE AtStep(c, "record")
    <2>1. torn' = torn \cup {<<"stock", running[c].item>>}
      BY <1>3 DEF CallFails, AtStep
    <2>2. /\ running'[c] = Nothing
          /\ \A d \in Slots \ {c} : running'[d] = running[d] /\ StockCallIsKnown(d)'
      BY <1>1, OtherCallsStay
    <2>3. StockCallIsKnown(c)'
      BY <2>2 DEF StockCallIsKnown, AtStep
    <2>4. ASSUME NEW j \in Items PROVE StockIsAccounted(j)'
      <3>1. StockIsAccounted(j) /\ OnHand(j)' = OnHand(j)
        BY <1>1 DEF StockIInv, OnHand
      <3>2. CASE j = running[c].item
        BY <1>1, <2>1, <3>1, <3>2 DEF StockIsAccounted
      <3>3. CASE j # running[c].item
        <4>1. Unrecorded(j)' = Unrecorded(j)
          BY <2>2, <3>3 DEF Unrecorded, AtStep
        <4>2. QED
          BY <1>1, <2>1, <3>1, <4>1 DEF StockIsAccounted
      <3>4. QED
        BY <3>2, <3>3
    <2>5. QED
      BY <1>1, <2>2, <2>3, <2>4 DEF StockIInv
  <1>4. QED
    BY <1>2, <1>3

LEMMA StepKeepsStock ==
  ASSUME PlatformIInv, StockIInv, QuietStep \/ LoudStep PROVE StockIInv'
  <1>1. ASSUME NEW c \in Slots, VoidStep(c) PROVE StockIInv'
    BY <1>1, VoidLineIsAccounted, SaleStepIsAccounted DEF VoidStep
  <1>2. ASSUME NEW c \in Slots, StockStep(c) PROVE StockIInv'
    <2>1. ASSUME NEW i \in Items, StockCall(c, i, "receive", 1) PROVE StockIInv'
      BY <2>1, StockCallIsAccounted
    <2>2. ASSUME NEW i \in Items, NEW q \in {-1, 1}, StockCall(c, i, "adjust", q) PROVE StockIInv'
      BY <2>2, StockCallIsAccounted
    <2>3. QED
      BY <1>2, <2>1, <2>2, ReceiveIsAccounted, RecordIsAccounted, AdjustIsAccounted DEF StockStep
  <1>3. QED
    BY <1>1, <1>2, QuietStepIsAccounted, CartStepIsAccounted, SaleStepIsAccounted, FailIsAccounted DEF LoudStep

\* What the stock is in, it is in for the alert as well: rows that are all above
\* the reorder point have a sum above it.
LEMMA StockFollowsMovements ==
  ASSUME StockIInv, RowsAreKnown PROVE StockIsItsMovements
  <1>1. SUFFICES ASSUME NEW i \in Items, Unrecorded(i) = {}, <<"stock", i>> \notin torn
                 PROVE  /\ OnHand(i) = moved[i]
                        /\ Found(i) /\ stock[i] # <<>> /\ rows[i].reorder > 0 /\ moved[i] <= rows[i].reorder
                             => Alerts(i) # {}
    BY DEF StockIsItsMovements
  <1>2. /\ stock[i] \in Seq(Int) /\ moved[i] \in Int
        /\ OnHand(i) = moved[i] + Cardinality(Unrecorded(i))
    BY <1>1 DEF StockIInv, StockIsAccounted
  <1>3. Cardinality(Unrecorded(i)) = 0
    BY <1>1, FS_EmptySet
  <1>4. OnHand(i) = moved[i]
    BY <1>2, <1>3
  <1>5. ASSUME Found(i), stock[i] # <<>>, rows[i].reorder > 0, moved[i] <= rows[i].reorder, Alerts(i) = {}
        PROVE  FALSE
    <2>1. rows[i].reorder \in Int
      BY <1>5 DEF RowsAreKnown, IsEntityRow, Found, There
    <2>2. PICK point \in Nat : point = rows[i].reorder
      BY <1>5, <2>1
    <2>3. \A n \in DOMAIN stock[i] : stock[i][n] > point
      BY <1>2, <1>5, <2>2 DEF Alerts
    <2>4. Summed(stock[i]) > point
      BY <1>2, <1>5, <2>3, SumIsAbove
    <2>5. QED
      BY <1>2, <1>4, <1>5, <2>2, <2>4 DEF OnHand
  <1>6. QED
    BY <1>4, <1>5

-----------------------------------------------------------------------------
(* Sales and their kitchen tickets. *)

\* The k-th line of a call that commits is passed, and is of entity i.
Passes(r, k, i) == r # Nothing /\ r.step = "commit" /\ k \in 1 .. r.n - 1 /\ r.lines[k].item = i

PassedLines(i) == {p \in Slots \X Nat : Passes(running[p[1]], p[2], i)}

CommitIsKnown(c) ==
  AtStep(c, "commit") =>
    /\ DOMAIN running[c] = {"step", "lines", "n"}
    /\ running[c].lines \in PricedLines(DOMAIN rows)
    /\ running[c].n \in 1 .. Len(running[c].lines) + 1

SalesAreKnown == sales \in Seq([lines : PricedLines(DOMAIN rows), voided : BOOLEAN])

\* An entity has a ticket for each line that is sold and each that is passed, and
\* no other unless a commit came to nothing; one that prints none has none.
TicketsAreOut(i) ==
  /\ tickets[i] \in Nat /\ IsFiniteSet(SoldLines(i)) /\ IsFiniteSet(PassedLines(i))
  /\ (There(i) => PrintsTicket(i)) => tickets[i] >= Cardinality(SoldLines(i)) + Cardinality(PassedLines(i))
  /\ <<"kitchen", i>> \notin torn => tickets[i] <= Cardinality(SoldLines(i)) + Cardinality(PassedLines(i))
  /\ tickets[i] > 0 => There(i) /\ PrintsTicket(i)

TicketIInv ==
  /\ DOMAIN tickets = Items
  /\ SalesAreKnown
  /\ \A c \in Slots : CommitIsKnown(c)
  /\ \A i \in Items : TicketsAreOut(i)

LEMMA InitIsTicketed ==
  ASSUME PlatformInit PROVE TicketIInv
  <1>1. DOMAIN tickets = Items /\ sales = <<>> /\ \A c \in Slots : running[c] = Nothing
    BY DEF PlatformInit
  <1>2. SalesAreKnown
    BY <1>1 DEF SalesAreKnown
  <1>3. \A c \in Slots : CommitIsKnown(c)
    BY <1>1 DEF CommitIsKnown, AtStep
  <1>4. ASSUME NEW i \in Items PROVE TicketsAreOut(i)
    <2>1. tickets[i] = 0
      BY DEF PlatformInit
    <2>2. SoldLines(i) = {}
      BY <1>1 DEF SoldLines
    <2>3. PassedLines(i) = {}
      BY <1>1 DEF PassedLines, Passes
    <2>4. QED
      BY <2>1, <2>2, <2>3, FS_EmptySet DEF TicketsAreOut
  <1>5. QED
    BY <1>1, <1>2, <1>3, <1>4 DEF TicketIInv

\* What an entity can do stays the same.
LEMMA CapabilitiesStay ==
  ASSUME RowsStay, UNCHANGED tenant, NEW i \in DOMAIN rows
  PROVE  There(i)' /\ (PrintsTicket(i)' <=> PrintsTicket(i))
  <1>1. There(i)'
    BY DEF RowsStay, There
  <1>2. Able(i)' = Able(i)
    BY DEF RowsStay, Able
  <1>3. QED
    BY <1>1, <1>2 DEF PrintsTicket

\* The lines that were sold stay, and so does what is known of them.
SalesStay ==
  /\ sales' \in Seq([lines : PricedLines(DOMAIN rows), voided : BOOLEAN])
  /\ DOMAIN sales' = DOMAIN sales
  /\ \A n \in DOMAIN sales : sales'[n].lines = sales[n].lines

LEMMA ItemsOfLines ==
  ASSUME NEW items, NEW lines \in PricedLines(items)
  PROVE  DOMAIN lines = 1 .. Len(lines) /\ Len(lines) \in Nat /\ \A k \in DOMAIN lines : lines[k].item \in items
  <1>1. PICK L : L = [item : items, quantity : Int, unitPrice : Int, tax : Int, inclusive : BOOLEAN, total : Int]
    OBVIOUS
  <1>2. lines \in Seq(L)
    BY <1>1 DEF PricedLines
  <1>3. DOMAIN lines = 1 .. Len(lines) /\ Len(lines) \in Nat /\ \A k \in DOMAIN lines : lines[k] \in L
    BY <1>2
  <1>4. QED
    BY <1>1, <1>3

LEMMA MoreSales ==
  ASSUME NEW S, NEW T, S \subseteq T
  PROVE  Seq([lines : S, voided : BOOLEAN]) \subseteq Seq([lines : T, voided : BOOLEAN])
  <1> DEFINE R(lines) == [lines : lines, voided : BOOLEAN]
  <1>1. R(S) \subseteq R(T)
    OBVIOUS
  <1> HIDE DEF R
  <1>2. Seq(R(S)) \subseteq Seq(R(T))
    BY <1>1
  <1>3. QED
    BY <1>2 DEF R

LEMMA SalesKept ==
  ASSUME TicketIInv, RowsStay, UNCHANGED tenant, SalesStay
  PROVE  SalesAreKnown' /\ \A i \in Items : SoldLines(i)' = SoldLines(i)
  <1>1. \A i \in Items : SoldLines(i)' = SoldLines(i)
    BY DEF SalesStay, SoldLines
  <1>2. PricedLines(DOMAIN rows) \subseteq PricedLines(DOMAIN rows')
    BY MoreLines DEF RowsStay
  <1>3. sales' \in Seq([lines : PricedLines(DOMAIN rows'), voided : BOOLEAN])
    BY <1>2, MoreSales DEF SalesStay
  <1>4. QED
    BY <1>1, <1>3 DEF SalesAreKnown

\* A commit that does not move keeps what it has passed and what is known of it.
LEMMA CommitKept ==
  ASSUME TicketIInv, RowsStay, UNCHANGED tenant, NEW c \in Slots, running'[c] = running[c]
  PROVE  CommitIsKnown(c)'
  <1>1. CommitIsKnown(c)
    BY DEF TicketIInv
  <1>2. PricedLines(DOMAIN rows) \subseteq PricedLines(DOMAIN rows')
    BY MoreLines DEF RowsStay
  <1>3. QED
    BY <1>1, <1>2 DEF CommitIsKnown, AtStep

\* A step by which nothing is sold or passed, and no ticket printed.
LEMMA TicketsKept ==
  ASSUME PlatformIInv, TicketIInv, RowsStay, UNCHANGED <<tenant, tickets>>, SalesStay,
         torn \subseteq torn', NEW c \in Slots, NEW r, CallBecomes(c, r), CommitIsKnown(c)',
         \A k, i : Passes(r, k, i) => Passes(running[c], k, i),
         \A i \in Items : \/ <<"kitchen", i>> \in torn' \/ tickets[i] = 0
                          \/ \A k : Passes(running[c], k, i) => Passes(r, k, i)
  PROVE  TicketIInv'
  <1>1. running'[c] = r /\ \A d \in Slots \ {c} : running'[d] = running[d]
    BY RunningEffect DEF PlatformIInv
  <1>2. SalesAreKnown' /\ \A i \in Items : SoldLines(i)' = SoldLines(i)
    BY SalesKept
  <1>3. \A d \in Slots : CommitIsKnown(d)'
    BY <1>1, CommitKept
  <1>4. ASSUME NEW i \in Items PROVE TicketsAreOut(i)'
    <2>1. TicketsAreOut(i)
      BY DEF TicketIInv
    <2>2. PassedLines(i)' \subseteq PassedLines(i)
      BY <1>1 DEF PassedLines
    <2>3. IsFiniteSet(PassedLines(i)') /\ Cardinality(PassedLines(i)') <= Cardinality(PassedLines(i))
      BY <2>1, <2>2, FS_Subset DEF TicketsAreOut
    <2>4. /\ Cardinality(PassedLines(i)') \in Nat /\ Cardinality(PassedLines(i)) \in Nat
          /\ Cardinality(SoldLines(i)) \in Nat
      BY <2>1, <2>3, FS_CardinalityType DEF TicketsAreOut
    <2>5. tickets'[i] > 0 => There(i)' /\ PrintsTicket(i)'
      BY <2>1, CapabilitiesStay DEF TicketsAreOut, There
    <2>6. ASSUME There(i)' => PrintsTicket(i)'
          PROVE  tickets'[i] >= Cardinality(SoldLines(i)) + Cardinality(PassedLines(i)')
      <3>1. There(i) => PrintsTicket(i)
        BY <2>6, CapabilitiesStay DEF There
      <3>2. tickets[i] >= Cardinality(SoldLines(i)) + Cardinality(PassedLines(i)) /\ tickets[i] \in Nat
        BY <2>1, <3>1 DEF TicketsAreOut
      <3>3. QED
        BY <2>3, <2>4, <3>2
    <2>7. ASSUME <<"kitchen", i>> \notin torn'
          PROVE  tickets'[i] <= Cardinality(SoldLines(i)) + Cardinality(PassedLines(i)')
      <3>1. CASE tickets[i] = 0
        BY <2>4, <3>1
      <3>2. CASE \A k : Passes(running[c], k, i) => Passes(r, k, i)
        <4>1. PassedLines(i)' = PassedLines(i)
          BY <1>1, <2>2, <3>2 DEF PassedLines
        <4>2. QED
          BY <2>1, <2>7, <4>1 DEF TicketsAreOut
      <3>3. QED
        BY <2>7, <3>1, <3>2
    <2>8. QED
      BY <1>2, <2>1, <2>3, <2>5, <2>6, <2>7 DEF TicketsAreOut
  <1>5. QED
    BY <1>2, <1>3, <1>4 DEF TicketIInv

\* A call that goes on to anything but a commit; if it was one, the tickets of
\* what it had passed are accounted for.
LEMMA TicketsKeptFree ==
  ASSUME PlatformIInv, TicketIInv, RowsStay, UNCHANGED <<tenant, tickets>>, SalesStay, torn \subseteq torn',
         NEW c \in Slots, NEW r, CallBecomes(c, r), r = Nothing \/ r.step # "commit",
         AtStep(c, "commit") => Orphans(c) \subseteq torn'
  PROVE  TicketIInv'
  <1>1. running'[c] = r
    BY RunningEffect DEF PlatformIInv
  <1>2. CommitIsKnown(c)'
    BY <1>1 DEF CommitIsKnown, AtStep
  <1>3. \A k, i : Passes(r, k, i) => Passes(running[c], k, i)
    BY DEF Passes
  <1>4. ASSUME NEW i \in Items, <<"kitchen", i>> \notin torn', NEW k, Passes(running[c], k, i)
        PROVE  tickets[i] = 0
    <2>1. AtStep(c, "commit") /\ i \in Passed(c)
      BY <1>4 DEF Passes, AtStep, Passed
    <2>2. ~PrintsTicket(i)
      BY <1>4, <2>1 DEF Orphans
    <2>3. tickets[i] \in Nat /\ ~(tickets[i] > 0)
      BY <2>2 DEF TicketIInv, TicketsAreOut
    <2>4. QED
      BY <2>3
  <1>5. QED
    BY <1>2, <1>3, <1>4, TicketsKept

LEMMA SameSales ==
  ASSUME TicketIInv, UNCHANGED sales PROVE SalesStay
  BY DEF TicketIInv, SalesAreKnown, SalesStay

LEMMA QuietStepIsTicketed ==
  ASSUME PlatformIInv, TicketIInv, RowsStay, UNCHANGED tenant, QuietStep PROVE TicketIInv'
  <1>1. SalesStay /\ UNCHANGED <<tickets, sales, torn>>
    BY SameSales DEF QuietStep
  <1>2. CASE UNCHANGED running
    <2>1. SalesAreKnown' /\ \A i \in Items : SoldLines(i)' = SoldLines(i)
      BY <1>1, SalesKept
    <2>2. \A d \in Slots : CommitIsKnown(d)'
      BY <1>2, CommitKept
    <2>3. ASSUME NEW i \in Items PROVE TicketsAreOut(i)'
      <3>1. PassedLines(i)' = PassedLines(i) /\ SoldLines(i)' = SoldLines(i) /\ tickets' = tickets
        BY <1>1, <1>2, <2>1 DEF PassedLines
      <3>2. TicketsAreOut(i)
        BY DEF TicketIInv
      <3>3. There(i) => There(i)' /\ (PrintsTicket(i)' <=> PrintsTicket(i))
        BY CapabilitiesStay DEF There
      <3>4. QED
        BY <1>1, <3>1, <3>2, <3>3 DEF TicketsAreOut
    <2>4. QED
      BY <1>1, <2>1, <2>2, <2>3 DEF TicketIInv
  <1>3. ASSUME NEW c \in Slots, NEW r, CallBecomes(c, r), Quiet(running[c]), Quiet(r) PROVE TicketIInv'
    <2>1. ~AtStep(c, "commit") /\ (r = Nothing \/ r.step # "commit") /\ torn \subseteq torn'
      BY <1>1, <1>3 DEF Quiet, AtStep
    <2>2. QED
      BY <1>1, <1>3, <2>1, TicketsKeptFree
  <1>4. QED
    BY <1>2, <1>3 DEF QuietStep

LEMMA CartStepIsTicketed ==
  ASSUME PlatformIInv, TicketIInv, RowsStay, UNCHANGED tenant, NEW c \in Slots, CartStep(c) PROVE TicketIInv'
  <1>1. SalesStay /\ UNCHANGED tickets /\ torn \subseteq torn'
    <2>1. UNCHANGED <<sales, tickets, torn>>
      BY DEF CartStep, BuildCart, Pricing, PriceHit, PriceMiss, PriceLoad, PriceStore, PriceBecomes, CartIsPriced, shop
    <2>2. QED
      BY <2>1, SameSales
  <1>2. ASSUME NEW lines \in Carts, BuildCart(c, lines) PROVE TicketIInv'
    <2>1. PICK r : r = [step |-> "cart", lines |-> lines, at |-> clock,
                        price |-> [n \in DOMAIN lines |-> [step |-> "get"]]]
      OBVIOUS
    <2>2. CallBecomes(c, r) /\ r.step = "cart" /\ ~AtStep(c, "commit")
      BY <1>2, <2>1 DEF BuildCart, StartCall, AtStep
    <2>3. QED
      BY <1>1, <2>2, TicketsKeptFree
  <1>3. CASE Pricing(c)
    <2>1. PICK n : PriceHit(c, n) \/ PriceMiss(c, n) \/ PriceLoad(c, n) \/ PriceStore(c, n)
      BY <1>3 DEF Pricing
    <2>2. AtStep(c, "cart") /\ n \in DOMAIN running[c].lines
      BY <2>1 DEF PriceHit, PriceMiss, PriceLoad, PriceStore, PriceIs
    <2>3. PICK r : PriceBecomes(c, n, r)
      BY <2>1 DEF PriceHit, PriceMiss, PriceLoad, PriceStore
    <2>4. PICK r2 : r2 = [running[c] EXCEPT !.price[n] = r]
      OBVIOUS
    <2>5. CallBecomes(c, r2)
      BY <2>3, <2>4 DEF PriceBecomes, CallBecomes
    <2>6. running'[c].step = "cart"
      BY <2>2, <2>3, PriceEffect
    <2>7. running'[c] = r2
      BY <2>5, RunningEffect DEF PlatformIInv
    <2>8. ~AtStep(c, "commit")
      BY <2>2 DEF AtStep
    <2>9. QED
      BY <1>1, <2>5, <2>6, <2>7, <2>8, TicketsKeptFree
  <1>4. CASE CartIsPriced(c)
    BY <1>1, <1>4, TicketsKeptFree DEF CartIsPriced, EndCall, AtStep
  <1>5. QED
    BY <1>2, <1>3, <1>4 DEF CartStep

LEMMA ShopStepIsTicketed ==
  ASSUME PlatformIInv, TicketIInv, RowsStay, UNCHANGED tenant, NEW c \in Slots,
         VoidLine(c) \/ StockStep(c) \/ CallFails(c)
  PROVE  TicketIInv'
  <1>1. UNCHANGED <<sales, tickets>> /\ torn \subseteq torn'
    BY DEF VoidLine, StockStep, StockCall, Receive, Record, Adjust, CallFails, shop
  <1>2. SalesStay
    BY <1>1, SameSales
  <1>3. StepIsKnown(c)
    BY DEF PlatformIInv, CallsAreDated
  <1>4. CASE VoidLine(c)
    <2>1. PICK r : r = [step |-> "adjust", item |-> Head(running[c].items), quantity |-> 1,
                        found |-> stock[Head(running[c].items)] # <<>>,
                        then |-> [running[c] EXCEPT !.items = Tail(@)]]
      OBVIOUS
    <2>2. CallBecomes(c, r) /\ r.step = "adjust" /\ ~AtStep(c, "commit")
      BY <1>4, <2>1 DEF VoidLine, AtStep
    <2>3. QED
      BY <1>1, <1>2, <2>2, TicketsKeptFree
  <1>5. ASSUME NEW i, NEW step \in {"receive", "adjust"}, NEW q, StockCall(c, i, step, q) PROVE TicketIInv'
    <2>1. PICK r : r = [step |-> step, item |-> i, quantity |-> q, found |-> stock[i] # <<>>, then |-> Nothing]
      OBVIOUS
    <2>2. CallBecomes(c, r) /\ r.step = step /\ ~AtStep(c, "commit")
      BY <1>5, <2>1 DEF StockCall, StartCall, AtStep
    <2>3. QED
      BY <1>1, <1>2, <2>2, TicketsKeptFree
  <1>6. CASE Receive(c)
    <2>1. PICK r : r = [running[c] EXCEPT !.step = "record"]
      OBVIOUS
    <2>2. CallBecomes(c, r) /\ r.step = "record" /\ ~AtStep(c, "commit")
      BY <1>3, <1>6, <2>1 DEF Receive, AtStep, StepIsKnown
    <2>3. QED
      BY <1>1, <1>2, <2>2, TicketsKeptFree
  <1>7. CASE Adjust(c)
    <2>1. CallBecomes(c, running[c].then) /\ AtStep(c, "adjust")
      BY <1>7 DEF Adjust
    <2>2. (running[c].then = Nothing \/ running[c].then.step # "commit") /\ ~AtStep(c, "commit")
      BY <1>3, <2>1 DEF StepIsKnown, AtStep
    <2>3. QED
      BY <1>1, <1>2, <2>1, <2>2, TicketsKeptFree
  <1>8. CASE Record(c) \/ CallFails(c)
    <2>1. CallBecomes(c, Nothing) /\ (AtStep(c, "commit") => Orphans(c) \subseteq torn')
      BY <1>8 DEF Record, CallFails, EndCall, AtStep
    <2>2. QED
      BY <1>1, <1>2, <2>1, TicketsKeptFree
  <1>9. QED
    BY <1>4, <1>5, <1>6, <1>7, <1>8 DEF StockStep

LEMMA VoidMarkIsTicketed ==
  ASSUME PlatformIInv, TicketIInv, RowsStay, UNCHANGED tenant, NEW c \in Slots, VoidMark(c) PROVE TicketIInv'
  <1>1. /\ sales' = [sales EXCEPT ![running[c].sale].voided = TRUE] /\ UNCHANGED <<tickets, torn>>
        /\ CallBecomes(c, Nothing) /\ ~AtStep(c, "commit")
    BY DEF VoidMark, EndCall, AtStep
  <1>2. SalesStay
    <2>1. PICK R : R = [lines : PricedLines(DOMAIN rows), voided : BOOLEAN]
      OBVIOUS
    <2>2. sales \in Seq(R)
      BY <2>1 DEF TicketIInv, SalesAreKnown
    <2>3. ASSUME NEW sale \in R PROVE [sale EXCEPT !.voided = TRUE] \in R /\ [sale EXCEPT !.voided = TRUE].lines = sale.lines
      BY <2>1
    <2>4. PICK n : n = running[c].sale
      OBVIOUS
    <2>5. PICK marked : marked = [sales[n] EXCEPT !.voided = TRUE]
      OBVIOUS
    <2>6. sales' = [sales EXCEPT ![n] = marked]
      BY <1>1, <2>4, <2>5
    <2>7. n \in DOMAIN sales => marked \in R /\ marked.lines = sales[n].lines
      BY <2>2, <2>3, <2>5
    <2>8. sales' \in Seq(R) /\ DOMAIN sales' = DOMAIN sales
      <3>1. CASE n \in DOMAIN sales
        <4>1. PICK s : s = sales
          OBVIOUS
        <4>2. marked \in R
          BY <2>7, <3>1
        <4>3. [s EXCEPT ![n] = marked] \in Seq(R)
          BY <2>2, <3>1, <4>1, <4>2
        <4>4. QED
          BY <2>6, <4>1, <4>3
      <3>2. CASE n \notin DOMAIN sales
        <4>1. \A m \in DOMAIN sales : sales'[m] = sales[m]
          BY <2>6, <3>2
        <4>2. sales' = [m \in DOMAIN sales |-> IF m = n THEN marked ELSE sales[m]]
          BY <2>6
        <4>3. sales = [m \in DOMAIN sales |-> sales[m]]
          BY <2>2
        <4>4. \A m \in DOMAIN sales : (IF m = n THEN marked ELSE sales[m]) = sales[m]
          BY <3>2
        <4>5. sales' = sales
          BY <4>2, <4>3, <4>4
        <4>6. QED
          BY <2>2, <4>5
      <3>3. QED
        BY <3>1, <3>2
    <2>9. \A m \in DOMAIN sales : sales'[m].lines = sales[m].lines
      BY <2>6, <2>7
    <2>10. QED
      BY <2>1, <2>8, <2>9 DEF SalesStay
  <1>3. QED
    BY <1>1, <1>2, TicketsKeptFree

\* A sale that the stock has to be reduced for comes to nothing.
LEMMA DeductLineIsTicketed ==
  ASSUME PlatformIInv, TicketIInv, RowsStay, UNCHANGED tenant, NEW c \in Slots, DeductLine(c) PROVE TicketIInv'
  <1>1. /\ UNCHANGED <<sales, tickets>> /\ CallBecomes(c, Nothing)
        /\ torn \subseteq torn' /\ Orphans(c) \subseteq torn'
    BY DEF DeductLine, EndCall
  <1>2. SalesStay
    BY <1>1, SameSales
  <1>3. QED
    BY <1>1, <1>2, TicketsKeptFree

\* A cart is sold as it was built.
LEMMA CommitIsTicketed ==
  ASSUME PlatformIInv, CartIInv, TicketIInv, RowsStay, UNCHANGED <<tenant, rows>>, NEW c \in Slots, Commit(c)
  PROVE  TicketIInv'
  <1>1. PICK r : r = [step |-> "commit", lines |-> cart.lines, n |-> 1]
    OBVIOUS
  <1>2. CallBecomes(c, r) /\ running[c] = Nothing /\ cart # Nothing /\ UNCHANGED <<sales, tickets, torn>>
    BY <1>1 DEF Commit, StartCall, shop
  <1>3. SalesStay
    BY <1>2, SameSales
  <1>4. DOMAIN r = {"step", "lines", "n"} /\ r.step = "commit" /\ r.lines = cart.lines /\ r.n = 1
    BY <1>1
  <1>5. r.lines \in PricedLines(DOMAIN rows) /\ Len(r.lines) \in Nat
    BY <1>2, <1>4, ItemsOfLines DEF CartIInv, CartIsKnown
  <1>6. running'[c] = r
    BY <1>2, RunningEffect DEF PlatformIInv
  <1>7. CommitIsKnown(c)'
    BY <1>4, <1>5, <1>6 DEF CommitIsKnown
  <1>8. \A k, i : Passes(r, k, i) => Passes(running[c], k, i)
    BY <1>4 DEF Passes
  <1>9. \A k, i : ~Passes(running[c], k, i)
    BY <1>2 DEF Passes
  <1>10. QED
    BY <1>2, <1>3, <1>7, <1>8, <1>9, TicketsKept

\* The ticket of a line is out before the line is passed.
LEMMA CommitLineIsTicketed ==
  ASSUME PlatformIInv, TicketIInv, RowsAreKnown, RowsStay, UNCHANGED <<tenant, rows>>, NEW c \in Slots, CommitLine(c)
  PROVE  TicketIInv'
  <1>1. PICK item, n : item = LineOf(c).item /\ n = running[c].n
    OBVIOUS
  <1>2. PICK r : r = [running[c] EXCEPT !.n = @ + 1]
    OBVIOUS
  <1>3. /\ AtStep(c, "commit") /\ n <= Len(running[c].lines)
        /\ tickets' = [tickets EXCEPT ![item] = @ + IF PrintsTicket(item) THEN 1 ELSE 0]
        /\ CallBecomes(c, r) /\ UNCHANGED <<sales, torn>>
    BY <1>1, <1>2 DEF CommitLine
  <1>4. /\ DOMAIN running[c] = {"step", "lines", "n"}
        /\ running[c].lines \in PricedLines(DOMAIN rows)
        /\ n \in 1 .. Len(running[c].lines) + 1
    BY <1>1, <1>3 DEF TicketIInv, CommitIsKnown
  <1>5. /\ DOMAIN r = {"step", "lines", "n"} /\ r.step = "commit" /\ r.lines = running[c].lines /\ r.n = n + 1
    BY <1>1, <1>2, <1>3, <1>4 DEF AtStep
  <1>6. Len(running[c].lines) \in Nat /\ n \in DOMAIN running[c].lines /\ item = running[c].lines[n].item
        /\ item \in DOMAIN rows
    BY <1>1, <1>3, <1>4, ItemsOfLines DEF LineOf
  <1>7. running'[c] = r /\ \A d \in Slots \ {c} : running'[d] = running[d]
    BY <1>3, RunningEffect DEF PlatformIInv
  <1>9. \A i : (PrintsTicket(i)' <=> PrintsTicket(i)) /\ (There(i)' <=> There(i))
    BY DEF PrintsTicket, Able, There
  <1>10. CommitIsKnown(c)'
    <2>1. r.n \in 1 .. Len(r.lines) + 1
      BY <1>3, <1>4, <1>5, <1>6
    <2>2. QED
      BY <1>4, <1>5, <1>7, <2>1 DEF CommitIsKnown
  <1>11. \A d \in Slots : CommitIsKnown(d)'
    BY <1>7, <1>10, CommitKept
  <1>12. SalesAreKnown' /\ \A i \in Items : SoldLines(i)' = SoldLines(i)
    BY <1>3, SameSales, SalesKept
  <1>13. ASSUME NEW i \in Items PROVE TicketsAreOut(i)'
    <2>1. TicketsAreOut(i)
      BY DEF TicketIInv
    <2>2. \A k : Passes(r, k, i) => \/ Passes(running[c], k, i)
                                    \/ k = n /\ i = item
      BY <1>1, <1>3, <1>4, <1>5, <1>6 DEF Passes, AtStep
    <2>3. PassedLines(i)' \subseteq PassedLines(i) \cup {<<c, n>>}
      BY <1>7, <2>2 DEF PassedLines
    <2>4. i # item => PassedLines(i)' \subseteq PassedLines(i)
      BY <1>7, <2>2 DEF PassedLines
    <2>5. /\ IsFiniteSet(PassedLines(i) \cup {<<c, n>>})
          /\ Cardinality(PassedLines(i) \cup {<<c, n>>}) <= Cardinality(PassedLines(i)) + 1
          /\ Cardinality(PassedLines(i)) \in Nat /\ Cardinality(SoldLines(i)) \in Nat
      <3>1. IsFiniteSet(PassedLines(i)) /\ IsFiniteSet(SoldLines(i))
        BY <2>1 DEF TicketsAreOut
      <3>2. Cardinality(PassedLines(i)) \in Nat /\ Cardinality(SoldLines(i)) \in Nat
        BY <3>1, FS_CardinalityType
      <3>3. PICK S, x : S = PassedLines(i) /\ x = <<c, n>>
        OBVIOUS
      <3>4. /\ IsFiniteSet(S \cup {x})
            /\ Cardinality(S \cup {x}) = IF x \in S THEN Cardinality(S) ELSE Cardinality(S) + 1
        BY <3>1, <3>3, FS_AddElement
      <3>5. Cardinality(S) \in Nat
        BY <3>2, <3>3
      <3>6. Cardinality(S \cup {x}) <= Cardinality(S) + 1
        BY <3>4, <3>5
      <3>7. QED
        BY <3>2, <3>3, <3>4, <3>6
    <2>6. /\ IsFiniteSet(PassedLines(i)')
          /\ Cardinality(PassedLines(i)') \in Nat
          /\ Cardinality(PassedLines(i)') <= Cardinality(PassedLines(i)) + 1
          /\ i # item => Cardinality(PassedLines(i)') <= Cardinality(PassedLines(i))
      <3>1. IsFiniteSet(PassedLines(i)')
        BY <2>3, <2>5, FS_Subset
      <3>2. Cardinality(PassedLines(i)') \in Nat
        BY <3>1, FS_CardinalityType
      <3>3. Cardinality(PassedLines(i)') <= Cardinality(PassedLines(i) \cup {<<c, n>>})
        BY <2>3, <2>5, FS_Subset
      <3>4. Cardinality(PassedLines(i) \cup {<<c, n>>}) \in Nat
        BY <2>5, FS_CardinalityType
      <3>5. i # item => Cardinality(PassedLines(i)') <= Cardinality(PassedLines(i))
        BY <2>1, <2>4, FS_Subset DEF TicketsAreOut
      <3>6. QED
        BY <2>5, <3>1, <3>2, <3>3, <3>4, <3>5
    <2>7. tickets[i] \in Nat /\ tickets'[i] = IF i = item /\ PrintsTicket(i) THEN tickets[i] + 1 ELSE tickets[i]
      BY <1>3, <2>1 DEF TicketIInv, TicketsAreOut
    <2>8. tickets'[i] \in Nat
      BY <2>7
    <2>9. tickets'[i] > 0 => There(i) /\ PrintsTicket(i)
      BY <1>6, <2>1, <2>7 DEF TicketsAreOut, There
    <2>10. ASSUME There(i) => PrintsTicket(i)
           PROVE  tickets'[i] >= Cardinality(SoldLines(i)) + Cardinality(PassedLines(i)')
      <3>1. tickets[i] >= Cardinality(SoldLines(i)) + Cardinality(PassedLines(i))
        BY <2>1, <2>10 DEF TicketsAreOut
      <3>2. i = item => PrintsTicket(i)
        BY <1>6, <2>10 DEF There
      <3>3. QED
        BY <2>5, <2>6, <2>7, <3>1, <3>2
    <2>11. ASSUME <<"kitchen", i>> \notin torn
           PROVE  tickets'[i] <= Cardinality(SoldLines(i)) + Cardinality(PassedLines(i)')
      <3>1. tickets[i] <= Cardinality(SoldLines(i)) + Cardinality(PassedLines(i))
        BY <2>1, <2>11 DEF TicketsAreOut
      <3>2. Cardinality(PassedLines(i)') = Cardinality(PassedLines(i)) + IF i = item THEN 1 ELSE 0
        <4>0. r # Nothing /\ r.n - 1 = n /\ 1 .. n - 1 \subseteq 1 .. n /\ n \in 1 .. n
          <5>1. PICK L : L = PricedLines(Items)
            OBVIOUS
          <5>2. running[c].lines \in L
            BY <1>4, <5>1, MoreLines DEF RowsAreKnown
          <5>3. n \in Nat /\ n + 1 \in Nat /\ n + 1 - 1 = n /\ 1 .. n - 1 \subseteq 1 .. n /\ n \in 1 .. n
            BY <1>4, <1>6
          <5>4. r = [x \in {"step", "lines", "n"} |-> r[x]]
            BY <1>2, <1>4
          <5>5. r \in [step : {"commit"}, lines : L, n : Nat]
            BY <1>5, <5>2, <5>3, <5>4
          <5>6. QED
            BY <1>5, <5>1, <5>3, <5>5, PlatformAssumption
        <4>1. \A k : Passes(running[c], k, i) => Passes(r, k, i)
          BY <1>1, <1>5, <4>0 DEF Passes
        <4>2. i = item => Passes(r, n, i)
          BY <1>5, <1>6, <4>0 DEF Passes
        <4>3. n \in Nat /\ n + 1 - 1 = n
          BY <1>4, <1>6
        <4>4. ~Passes(running[c], n, i)
          BY <1>1, <4>3 DEF Passes
        <4>5. PassedLines(i)' = PassedLines(i) \cup IF i = item THEN {<<c, n>>} ELSE {}
          BY <1>7, <2>2, <4>1, <4>2, <4>3 DEF PassedLines
        <4>6. <<c, n>> \notin PassedLines(i)
          BY <4>4 DEF PassedLines
        <4>7. PICK S, x : S = PassedLines(i) /\ x = <<c, n>>
          OBVIOUS
        <4>8. IsFiniteSet(S) /\ Cardinality(S \cup {x}) = Cardinality(S) + 1
          BY <2>1, <4>6, <4>7, FS_AddElement DEF TicketsAreOut
        <4>9. QED
          BY <2>5, <4>5, <4>7, <4>8
      <3>3. QED
        BY <2>5, <2>7, <3>1, <3>2
    <2>12. QED
      BY <1>3, <1>9, <1>12, <2>1, <2>6, <2>8, <2>9, <2>10, <2>11 DEF TicketsAreOut
  <1>14. DOMAIN tickets' = Items
    BY <1>3 DEF TicketIInv
  <1>15. QED
    BY <1>11, <1>12, <1>13, <1>14 DEF TicketIInv

\* The lines that a call has passed are sold at once, one for one.
LEMMA CreateSaleIsTicketed ==
  ASSUME PlatformIInv, TicketIInv, RowsStay, UNCHANGED <<tenant, rows>>, NEW c \in Slots, CreateSale(c)
  PROVE  TicketIInv'
  <1>1. PICK lines, n : lines = running[c].lines /\ n = running[c].n
    OBVIOUS
  <1>2. PICK sale : sale = [lines |-> lines, voided |-> FALSE]
    OBVIOUS
  <1>3. /\ AtStep(c, "commit") /\ n > Len(lines)
        /\ sales' = Append(sales, sale) /\ CallBecomes(c, Nothing) /\ UNCHANGED <<tickets, torn>>
    BY <1>1, <1>2 DEF CreateSale, EndCall
  <1>4. /\ lines \in PricedLines(DOMAIN rows)
        /\ n \in 1 .. Len(lines) + 1
    BY <1>1, <1>3 DEF TicketIInv, CommitIsKnown
  <1>5. Len(lines) \in Nat /\ DOMAIN lines = 1 .. Len(lines) /\ n = Len(lines) + 1
    BY <1>3, <1>4, ItemsOfLines
  <1>6. running'[c] = Nothing /\ \A d \in Slots \ {c} : running'[d] = running[d]
    BY <1>3, RunningEffect DEF PlatformIInv
  <1>7. CommitIsKnown(c)'
    BY <1>6 DEF CommitIsKnown, AtStep
  <1>8. \A d \in Slots : CommitIsKnown(d)'
    BY <1>6, <1>7, CommitKept
  <1>9. PICK last : last = Len(sales) + 1
    OBVIOUS
  <1>10. /\ sales' \in Seq([lines : PricedLines(DOMAIN rows), voided : BOOLEAN])
         /\ DOMAIN sales' = DOMAIN sales \cup {last} /\ last \notin DOMAIN sales /\ sales'[last].lines = lines
         /\ \A m \in DOMAIN sales : sales'[m] = sales[m]
    <2>1. PICK R : R = [lines : PricedLines(DOMAIN rows), voided : BOOLEAN]
      OBVIOUS
    <2>2. sales \in Seq(R)
      BY <2>1 DEF TicketIInv, SalesAreKnown
    <2>3. sale \in R /\ sale.lines = lines
      BY <1>2, <1>4, <2>1
    <2>4. /\ sales' \in Seq(R) /\ DOMAIN sales' = DOMAIN sales \cup {last} /\ last \notin DOMAIN sales
          /\ sales'[last] = sale /\ \A m \in DOMAIN sales : sales'[m] = sales[m]
      BY <1>3, <1>9, <2>2, <2>3
    <2>5. QED
      BY <2>1, <2>3, <2>4
  <1>12. SalesAreKnown'
    BY <1>10 DEF SalesAreKnown
  <1>13. ASSUME NEW i \in Items PROVE TicketsAreOut(i)'
    <2>1. TicketsAreOut(i)
      BY DEF TicketIInv
    <2> DEFINE ks   == {k \in 1 .. Len(lines) : lines[k].item = i}
               sold == {<<last, k>> : k \in ks}
               done == {<<c, k>> : k \in ks}
    <2>2. SoldLines(i)' = SoldLines(i) \cup sold
      BY <1>5, <1>10 DEF SoldLines
    <2>3. PassedLines(i)' = PassedLines(i) \ done /\ done \subseteq PassedLines(i)
      <3>1. \A k : Passes(running[c], k, i) <=> k \in ks
        BY <1>1, <1>3, <1>5 DEF Passes, AtStep
      <3>2. \A k : ~Passes(running'[c], k, i)
        BY <1>6 DEF Passes
      <3>3. ks \subseteq Nat
        BY <1>5
      <3>4. QED
        BY <1>6, <3>1, <3>2, <3>3 DEF PassedLines
    <2> HIDE DEF sold, done, ks
    <2>4. IsFiniteSet(PassedLines(i)) /\ IsFiniteSet(SoldLines(i)) /\ IsFiniteSet(done)
      BY <2>1, <2>3, FS_Subset DEF TicketsAreOut
    <2>5. IsFiniteSet(sold) /\ Cardinality(sold) = Cardinality(done)
      <3>1. PICK f : f = [p \in done |-> <<last, p[2]>>]
        OBVIOUS
      <3>2. f \in [done -> sold]
        BY <3>1 DEF sold, done
      <3>3. ASSUME NEW s \in sold PROVE \E p \in done : f[p] = s
        <4>1. PICK k \in ks : s = <<last, k>>
          BY <3>3 DEF sold
        <4>2. PICK p : p = <<c, k>>
          OBVIOUS
        <4>3. p \in done /\ p[2] = k
          BY <4>1, <4>2 DEF done
        <4>4. QED
          BY <3>1, <4>1, <4>3
      <3>4. f \in Surjection(done, sold)
        BY <3>2, <3>3 DEF Surjection
      <3>5. ASSUME NEW p \in done, NEW q \in done, f[p] = f[q] PROVE p = q
        BY <3>1, <3>5 DEF done
      <3>6. f \in Injection(done, sold)
        BY <3>2, <3>5 DEF Injection, IsInjective
      <3>7. IsFiniteSet(sold) /\ Cardinality(sold) <= Cardinality(done)
        BY <2>4, <3>4, FS_Surjection
      <3>8. Cardinality(done) <= Cardinality(sold)
        BY <3>6, <3>7, FS_Injection
      <3>9. Cardinality(done) \in Nat /\ Cardinality(sold) \in Nat
        BY <2>4, <3>7, FS_CardinalityType
      <3>10. QED
        BY <3>7, <3>8, <3>9
    <2>6. /\ IsFiniteSet(PassedLines(i)') /\ IsFiniteSet(SoldLines(i)')
          /\ Cardinality(SoldLines(i)') + Cardinality(PassedLines(i)')
               = Cardinality(SoldLines(i)) + Cardinality(PassedLines(i))
      <3>1. /\ IsFiniteSet(PassedLines(i) \ done)
            /\ Cardinality(PassedLines(i) \ done) = Cardinality(PassedLines(i)) - Cardinality(PassedLines(i) \cap done)
        BY <2>4, FS_Difference
      <3>2. PassedLines(i) \cap done = done
        BY <2>3
      <3>3. /\ IsFiniteSet(SoldLines(i) \cup sold)
            /\ Cardinality(SoldLines(i) \cup sold) =
                 Cardinality(SoldLines(i)) + Cardinality(sold) - Cardinality(SoldLines(i) \cap sold)
        BY <2>4, <2>5, FS_Union
      <3>4. SoldLines(i) \cap sold = {} /\ Cardinality(SoldLines(i) \cap sold) = 0
        <4>1. \A p \in SoldLines(i) : p[1] \in DOMAIN sales
          BY DEF SoldLines
        <4>2. \A p \in sold : p[1] = last
          BY DEF sold
        <4>3. SoldLines(i) \cap sold = {}
          BY <1>10, <4>1, <4>2
        <4>4. QED
          BY <4>3, FS_EmptySet
      <3>5. /\ Cardinality(SoldLines(i)) \in Nat /\ Cardinality(sold) \in Nat /\ Cardinality(done) \in Nat
            /\ Cardinality(PassedLines(i)) \in Nat
        BY <2>4, <2>5, FS_CardinalityType
      <3>6. QED
        BY <2>2, <2>3, <2>5, <3>1, <3>2, <3>3, <3>4, <3>5
    <2>7. /\ Cardinality(SoldLines(i)') \in Nat /\ Cardinality(PassedLines(i)') \in Nat
          /\ Cardinality(SoldLines(i)) \in Nat /\ Cardinality(PassedLines(i)) \in Nat
      BY <2>4, <2>6, FS_CardinalityType
    <2>8. (PrintsTicket(i)' <=> PrintsTicket(i)) /\ (There(i)' <=> There(i))
      BY DEF PrintsTicket, Able, There
    <2>9. tickets'[i] = tickets[i] /\ tickets[i] \in Nat
      BY <1>3, <2>1 DEF TicketsAreOut
    <2>10. (There(i)' => PrintsTicket(i)') => tickets'[i] >= Cardinality(SoldLines(i)') + Cardinality(PassedLines(i)')
      BY <2>1, <2>6, <2>7, <2>8, <2>9 DEF TicketsAreOut
    <2>11. <<"kitchen", i>> \notin torn' => tickets'[i] <= Cardinality(SoldLines(i)') + Cardinality(PassedLines(i)')
      BY <1>3, <2>1, <2>6, <2>7, <2>9 DEF TicketsAreOut
    <2>12. QED
      BY <2>1, <2>6, <2>8, <2>9, <2>10, <2>11 DEF TicketsAreOut
  <1>14. QED
    BY <1>3, <1>8, <1>12, <1>13 DEF TicketIInv

LEMMA StepKeepsTickets ==
  ASSUME PlatformIInv, CartIInv, TicketIInv, [PlatformNext]_platformVars PROVE TicketIInv'
  <1>1. RowsStay /\ UNCHANGED tenant /\ (QuietStep \/ LoudStep)
    BY StepKinds, VerticalStays DEF CartIInv
  <1>2. ASSUME NEW c \in Slots, SaleStep(c) PROVE TicketIInv'
    <2>1. UNCHANGED rows
      BY <1>2 DEF SaleStep, Commit, CommitLine, DeductLine, CreateSale
    <2>2. QED
      BY <1>1, <1>2, <2>1, CommitIsTicketed, CommitLineIsTicketed, DeductLineIsTicketed, CreateSaleIsTicketed DEF SaleStep, CartIInv
  <1>3. ASSUME NEW c \in Slots, CartStep(c) PROVE TicketIInv'
    BY <1>1, <1>3, CartStepIsTicketed
  <1>4. ASSUME NEW c \in Slots, VoidStep(c) \/ StockStep(c) \/ CallFails(c) PROVE TicketIInv'
    BY <1>1, <1>4, VoidMarkIsTicketed, ShopStepIsTicketed DEF VoidStep
  <1>5. QED
    BY <1>1, <1>2, <1>3, <1>4, QuietStepIsTicketed DEF LoudStep

\* What the tickets that are out say of the sales.
LEMMA SalesFollowTickets ==
  ASSUME TicketIInv, VerticalIsKnown PROVE SalesAreTicketed
  <1>1. SUFFICES ASSUME NEW i \in Items, There(i)
                 PROVE  /\ PrintsTicket(i) => tickets[i] >= Sold(i)
                        /\ tickets[i] > Sold(i) => <<"kitchen", i>> \in torn \/ Committing(i) # {}
                        /\ tickets[i] > 0 => \/ "kitchen" \in ForTenant(tenant).engines
                                             \/ "CAN_GENERATE_KITCHEN_TICKET" \in rows[i].on
    BY DEF SalesAreTicketed
  <1>2. TicketsAreOut(i)
    BY DEF TicketIInv
  <1>3. PrintsTicket(i) => tickets[i] >= Sold(i)
    <2>1. Cardinality(SoldLines(i)) \in Nat /\ Cardinality(PassedLines(i)) \in Nat
      BY <1>2, FS_CardinalityType DEF TicketsAreOut
    <2>2. QED
      BY <1>2, <2>1 DEF TicketsAreOut, Sold
  <1>4. ASSUME tickets[i] > Sold(i), <<"kitchen", i>> \notin torn PROVE Committing(i) # {}
    <2>1. /\ tickets[i] \in Nat /\ IsFiniteSet(PassedLines(i)) /\ IsFiniteSet(SoldLines(i))
          /\ tickets[i] <= Cardinality(SoldLines(i)) + Cardinality(PassedLines(i))
      BY <1>2, <1>4 DEF TicketsAreOut
    <2>2. Cardinality(SoldLines(i)) \in Nat /\ Cardinality(PassedLines(i)) \in Nat
      BY <2>1, FS_CardinalityType
    <2>3. Cardinality(PassedLines(i)) # 0
      BY <1>4, <2>1, <2>2 DEF Sold
    <2>4. PICK p \in PassedLines(i) : TRUE
      BY <2>3, FS_EmptySet
    <2>5. p[1] \in Slots /\ Passes(running[p[1]], p[2], i)
      BY DEF PassedLines
    <2>6. p[1] \in Committing(i)
      BY <2>5 DEF Passes, Committing, AtStep, Passed
    <2>7. QED
      BY <2>6
  <1>5. ASSUME tickets[i] > 0
        PROVE  "kitchen" \in ForTenant(tenant).engines \/ "CAN_GENERATE_KITCHEN_TICKET" \in rows[i].on
    <2> DEFINE blueprint == ForTenant(tenant)
    <2>1. "CAN_GENERATE_KITCHEN_TICKET" \in Entry(blueprint.capabilities, rows[i].type, {}) \cup rows[i].on
      BY <1>2, <1>5 DEF TicketsAreOut, PrintsTicket, Able, CapabilitiesOf
    <2>2. ASSUME "CAN_GENERATE_KITCHEN_TICKET" \in Entry(blueprint.capabilities, rows[i].type, {})
          PROVE  "kitchen" \in blueprint.engines
      <3>1. PICK type : type = rows[i].type
        OBVIOUS
      <3>2. type \in DOMAIN blueprint.capabilities /\ "CAN_GENERATE_KITCHEN_TICKET" \in blueprint.capabilities[type]
        BY <2>2, <3>1 DEF Entry
      <3>3. TypeIsCoherent(blueprint, type)
        BY <3>2, OverridesAreCoherent DEF VerticalIsKnown, ForTenant
      <3>4. QED
        BY <3>2, <3>3 DEF TypeIsCoherent
    <2>3. QED
      BY <2>1, <2>2
  <1>6. QED
    BY <1>3, <1>4, <1>5

\* ShopInv: the stock of an entity is the sum of its movements and raises the
\* alert they call for, whatever fails in between and whoever else writes; and
\* every line that is sold has its ticket, a ticket without one is of a commit
\* that is at work or came to nothing, and only tenants with a kitchen print.
THEOREM ShopIsAccounted ==
  PlatformSpec => []ShopInv
  <1> DEFINE I == PlatformIInv /\ CartIInv /\ StockIInv /\ TicketIInv /\ VerticalIsKnown
  <1>1. PlatformInit => I
    BY InitIsDated, InitIsKnown, InitIsAccounted, InitIsTicketed, PlatformAssumption DEF PlatformInit, VerticalIsKnown
  <1>2. I /\ [PlatformNext]_platformVars => I'
    <2>1. SUFFICES ASSUME I, [PlatformNext]_platformVars PROVE I'
      OBVIOUS
    <2>2. PlatformIInv' /\ CartIInv' /\ TicketIInv'
      BY <2>1, PlatformStepKeepsDates, StepKeepsCarts, StepKeepsTickets
    <2>3. StockIInv'
      BY <2>1, StepKinds, StepKeepsStock DEF CartIInv
    <2>4. VerticalIsKnown'
      BY <2>1, VerticalStays DEF VerticalIsKnown
    <2>5. QED
      BY <2>2, <2>3, <2>4
  <1>3. I => ShopInv
    BY StockFollowsMovements, SalesFollowTickets DEF CartIInv, ShopInv
  <1>4. QED
    BY <1>1, <1>2, <1>3, PTL DEF PlatformSpec
=================================================================================
