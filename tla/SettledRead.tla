---------------------------- MODULE SettledRead ----------------------------
(***************************************************************************)
(* What the cache promises its callers, with no cache in sight.  A row is  *)
(* written over and over; a write settles when the call that made it has   *)
(* invalidated the row's namespace.  A read may return an old row, but     *)
(* never one older than the last write settled before the read began.      *)
(***************************************************************************)
EXTENDS Naturals

CONSTANTS
  Calls,    \* slots for HTTP requests in flight
  NoRead    \* the lower bound of a call that is not reading, not a number

VARIABLES
  row,      \* how many times the row has been written
  settled,  \* the newest write that has settled
  since,    \* what had settled when each call's read began
  reply     \* the row each call returned last

vars == <<row, settled, since, reply>>

Init ==
  /\ row = 0
  /\ settled = 0
  /\ since = [c \in Calls |-> NoRead]
  /\ reply = [c \in Calls |-> 0]

Write ==
  /\ row' = row + 1
  /\ UNCHANGED <<settled, since, reply>>

Settle(n) ==
  /\ n \in settled .. row
  /\ settled' = n
  /\ UNCHANGED <<row, since, reply>>

BeginRead(c) ==
  /\ since[c] = NoRead
  /\ since' = [since EXCEPT ![c] = settled]
  /\ UNCHANGED <<row, settled, reply>>

EndRead(c, n) ==
  /\ since[c] # NoRead
  /\ n \in since[c] .. row
  /\ reply' = [reply EXCEPT ![c] = n]
  /\ since' = [since EXCEPT ![c] = NoRead]
  /\ UNCHANGED <<row, settled>>

\* A read that throws returns nothing.
FailRead(c) ==
  /\ since' = [since EXCEPT ![c] = NoRead]
  /\ UNCHANGED <<row, settled, reply>>

Next ==
  \/ Write
  \/ \E n \in 0 .. row : Settle(n)
  \/ \E c \in Calls : BeginRead(c) \/ FailRead(c) \/ \E n \in 0 .. row : EndRead(c, n)

Spec == Init /\ [][Next]_vars
============================================================================
