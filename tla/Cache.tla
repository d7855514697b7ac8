-------------------------------- MODULE Cache --------------------------------
(***************************************************************************)
(* CacheService between the handlers and the database: one row, cached     *)
(* under one raw key of one namespace.  A namespace is invalidated by      *)
(* counting its version up, which leaves the entries of older versions     *)
(* behind to expire; a read composes its key from the version it saw,      *)
(* looks the key up, and on a miss loads the row and stores it.  Each of   *)
(* these is an await, and other calls run in between.                      *)
(*                                                                         *)
(* Rows are numbered by the write that made them, so a larger row is newer.*)
(***************************************************************************)
EXTENDS Integers

CONSTANTS
  Calls,      \* slots for HTTP requests in flight
  NoRead,     \* the lower bound of a call that is not reading
  MaxWrites,  \* bound: how often the row is written
  Backends,   \* where the entries may live: the Map, or Redis in one of three states
  Versioned   \* the call site composes its key (the entities list does not)

ASSUME CacheAssumption ==
  /\ NoRead \notin Nat
  /\ MaxWrites \in Nat
  /\ Backends \subseteq {"memory", "warm", "cold", "failing"}
  /\ Versioned \in BOOLEAN

VARIABLES
  backend,  \* memory when REDIS_URL is not set; a Redis that answers has the
            \* namespace's version key (warm) or not yet (cold), or may fail
  row,      \* the row in the database
  version,  \* the namespace's version, 0 while there is none
  entries,  \* the entries that have not expired
  settled,  \* history: the newest write whose invalidation has run, while the
            \* backend keeps its versions (Reliable)
  since,    \* history: what had settled when each read began
  reply,    \* history: the row each call returned last
  call      \* the program counter and local variables of each call

cache   == <<version, entries>>
history == <<settled, since, reply>>
vars    == <<backend, row, cache, history, call>>

Call == [step  : {"idle", "compose", "seed", "lookup", "load", "store", "invalidate"},
         key   : Nat,
         value : Nat]

Slot(step, key, value) == [step |-> step, key |-> key, value |-> value]
Idle == Slot("idle", 0, 0)

TypeOK ==
  /\ backend \in {"memory", "warm", "cold", "failing"}
  /\ row \in Nat
  /\ version \in Nat
  /\ entries \in SUBSET [key : Nat, value : Nat]
  /\ settled \in Nat
  /\ since \in [Calls -> Nat \cup {NoRead}]
  /\ reply \in [Calls -> Nat]
  /\ call \in [Calls -> Call]

Init ==
  /\ backend \in Backends
  /\ row = 0
  /\ version = IF backend = "warm" THEN 1 ELSE 0
  /\ entries = {}
  /\ settled = 0
  /\ since = [c \in Calls |-> NoRead]
  /\ reply = [c \in Calls |-> 0]
  /\ call = [c \in Calls |-> Idle]

At(c, step)    == call[c].step = step
Become(c, r)   == call' = [call EXCEPT ![c] = r]
Redis          == backend # "memory"
Fails          == backend = "failing"

\* A version that is there is only ever counted up.
Reliable == backend \in {"memory", "warm"}

\* The handler returns row n to its caller.
Answer(c, n) ==
  /\ reply' = [reply EXCEPT ![c] = n]
  /\ since' = [since EXCEPT ![c] = NoRead]
  /\ Become(c, Idle)
  /\ UNCHANGED settled

-----------------------------------------------------------------------------
(* A read: composeKey, get, the query, set. *)

\* A call site that does not compose its key uses the raw one, key 0.
Read(c) ==
  /\ At(c, "idle")
  /\ since' = [since EXCEPT ![c] = settled]
  /\ Become(c, Slot(IF Versioned THEN "compose" ELSE "lookup", 0, 0))
  /\ UNCHANGED <<backend, row, cache, settled, reply>>

\* The version is there: the key is composed from it.
Compose(c) ==
  /\ At(c, "compose")
  /\ version # 0
  /\ Become(c, Slot("lookup", version, 0))
  /\ UNCHANGED <<backend, row, cache, history>>

\* The version is not there, or Redis did not answer.  The Map is given its 1
\* at once, Redis in another round trip.
ComposeUnversioned(c) ==
  /\ At(c, "compose")
  /\ version = 0 \/ Fails
  /\ IF Redis
     THEN Become(c, Slot("seed", 0, 0)) /\ UNCHANGED version
     ELSE Become(c, Slot("lookup", 1, 0)) /\ version' = 1
  /\ UNCHANGED <<backend, row, entries, history>>

\* SET the version to 1, whatever has happened to it meanwhile.
Seed(c) ==
  /\ At(c, "seed")
  /\ version' = 1 \/ (Fails /\ UNCHANGED version)
  /\ Become(c, Slot("lookup", 1, 0))
  /\ UNCHANGED <<backend, row, entries, history>>

Hit(c) ==
  /\ At(c, "lookup")
  /\ \E e \in entries : e.key = call[c].key /\ Answer(c, e.value)
  /\ UNCHANGED <<backend, row, cache>>

Miss(c) ==
  /\ At(c, "lookup")
  /\ call[c].key \notin {e.key : e \in entries} \/ Fails
  /\ Become(c, Slot("load", call[c].key, 0))
  /\ UNCHANGED <<backend, row, cache, history>>

Query(c) ==
  /\ At(c, "load")
  /\ Become(c, Slot("store", call[c].key, row))
  /\ UNCHANGED <<backend, row, cache, history>>

\* Mutant: the row is stored under the version of now, not the key composed.
StoreUnderNewest(c) ==
  /\ At(c, "store")
  /\ entries' = {e \in entries : e.key # version} \cup {[key |-> version, value |-> call[c].value]}
  /\ Answer(c, call[c].value)
  /\ UNCHANGED <<backend, row, version>>

\* The entry takes the place of the one before; a failed SET is swallowed.
Store(c) ==
  /\ At(c, "store")
  /\ \/ entries' = {e \in entries : e.key # call[c].key} \cup
                   {[key |-> call[c].key, value |-> call[c].value]}
     \/ (Fails /\ UNCHANGED entries)
  /\ Answer(c, call[c].value)
  /\ UNCHANGED <<backend, row, version>>

-----------------------------------------------------------------------------
(* A write: the statement, and later invalidateNamespace. *)

Write(c) ==
  /\ At(c, "idle") /\ row < MaxWrites
  /\ row' = row + 1
  /\ Become(c, Slot("invalidate", 0, row + 1))
  /\ UNCHANGED <<backend, cache, history>>

\* Mutant: the namespace goes back to its first version.
NextVersionReset == 1

\* INCR starts from 0 when the key is not there, the Map from 1.
NextVersion == (IF backend = "memory" /\ version = 0 THEN 1 ELSE version) + 1

\* The caller goes on as if INCR had run, though its failure is swallowed.
Invalidate(c) ==
  /\ At(c, "invalidate")
  /\ version' = NextVersion \/ (Fails /\ UNCHANGED version)
  /\ settled' = IF Reliable /\ call[c].value > settled THEN call[c].value ELSE settled
  /\ Become(c, Idle)
  /\ UNCHANGED <<backend, row, entries, since, reply>>

\* A query throws, or what a writer awaits before it invalidates: the call
\* ends, and the write that it has made stays.
Throw(c) ==
  /\ call[c].step \in {"load", "invalidate"}
  /\ since' = [since EXCEPT ![c] = NoRead]
  /\ Become(c, Idle)
  /\ UNCHANGED <<backend, row, cache, settled, reply>>

-----------------------------------------------------------------------------
(* Time. *)

\* Mutant: only the entries of older versions expire.
ExpireSuperseded(e) ==
  /\ e.key # version
  /\ entries' = entries \ {e}
  /\ UNCHANGED <<backend, row, version, history, call>>

Expire(e) ==
  /\ entries' = entries \ {e}
  /\ UNCHANGED <<backend, row, version, history, call>>

-----------------------------------------------------------------------------
Reading(c) ==
  Compose(c) \/ ComposeUnversioned(c) \/ Seed(c) \/ Hit(c) \/ Miss(c) \/ Query(c) \/ Store(c)

Next ==
  \/ \E c \in Calls : Read(c) \/ Reading(c) \/ Write(c) \/ Invalidate(c) \/ Throw(c)
  \/ \E e \in entries : Expire(e)

Spec == Init /\ [][Next]_vars

Keys == 0 .. MaxWrites + 2

\* A call in flight goes on, and what is stored expires; nobody need call.
Fairness ==
  /\ \A c \in Calls : WF_vars(Reading(c) \/ Invalidate(c) \/ Throw(c))
  /\ \A k \in Keys : WF_vars(\E e \in entries : e.key = k /\ Expire(e))

FairSpec == Spec /\ Fairness

-----------------------------------------------------------------------------
(* What the callers get. *)

\* The key a read that begins now will look up.
CurrentKey == IF Versioned THEN IF version = 0 THEN 1 ELSE version ELSE 0

\* Once a write has been invalidated, no entry that a new read can find is
\* older than that write, whatever was loaded before and stored after.
FreshAfterInvalidation ==
  \A e \in entries : e.key = CurrentKey => e.value >= settled

\* Through the cache a reader sees what SettledRead promises: never a row older
\* than the last write invalidated before the read began.
Promised == INSTANCE SettledRead WITH row <- row, settled <- settled, since <- since, reply <- reply
ReadsAreSettled == Promised!Spec

\* An invalidation that never ran costs the callers no more than a TTL: once
\* the row is left alone, what the cache would answer becomes the row.
StaleReadsEnd ==
  <>[](\A e \in entries : e.key = CurrentKey => e.value = row)
===============================================================================
