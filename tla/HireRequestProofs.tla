-------------------------- MODULE HireRequestProofs --------------------------
(***************************************************************************)
(* HInv is inductive for every number of overlapping calls, whatever they  *)
(* carry: nobody is hired without both parties, though no call looks at    *)
(* the row it overwrites.  So is the invariant that what a call has        *)
(* checked still holds unless it was overtaken: closed deals stay closed   *)
(* and milestones fit the budget but for such calls.  The pages only make  *)
(* such calls, so the same holds behind them; and PagesInv, which dates    *)
(* every copy of the row by the writes it includes, is inductive for them. *)
(***************************************************************************)
EXTENDS HirePages, HireRequestInvariant, FiniteSetTheorems, WellFoundedInduction, TLAPS

\* More hands never take the backing of a status away.
LEMMA BackedGrows ==
  ASSUME NEW s, NEW H, NEW J, H \subseteq J, Backed(s, H)
  PROVE  Backed(s, J)
  BY DEF Backed

\* What the checks let an actor ask for is backed once that actor has written.
LEMMA AllowedIsBacked ==
  ASSUME Backed(status, hands), NEW actor \in Actors, NEW to \in Status, Allowed(actor, to)
  PROVE  Backed(to, hands \cup {actor})
  <1>1. CASE actor = "admin"
    BY <1>1 DEF Backed
  <1>2. CASE status = to
    BY <1>2, BackedGrows
  <1>3. CASE actor = "client" /\ <<status, to>> \in ClientTransitions
    BY <1>3 DEF ClientTransitions, Backed
  <1>4. CASE actor = "developer" /\ <<status, to>> \in DeveloperTransitions
    BY <1>4 DEF DeveloperTransitions, Backed
  <1>5. QED
    BY <1>1, <1>2, <1>3, <1>4 DEF Allowed

\* A call slot that begins or returns is typed, and the others stay as they are.
LEMMA SlotEffect ==
  ASSUME call \in [Calls -> Call], NEW c \in Calls, NEW r \in Call,
         call' = [call EXCEPT ![c] = r]
  PROVE  /\ call' \in [Calls -> Call]
         /\ call'[c] = r
         /\ \A other \in Calls \ {c} : call'[other] = call[other]
  OBVIOUS

\* A step that replaces one slot keeps the invariant if the new slot is backed
\* and the row only gained hands.
LEMMA StepKeepsWrites ==
  ASSUME HInv, NEW c \in Calls, NEW r \in Call, call' = [call EXCEPT ![c] = r],
         hands \subseteq hands',
         r.step = "write_status" => Backed(r.to, hands' \cup {r.actor}),
         r.step = "write_proposal" => r.actor \in {"developer", "admin"}
  PROVE  call' \in [Calls -> Call] /\ WritesAreBacked'
  <1>1. /\ call' \in [Calls -> Call]
        /\ call'[c] = r
        /\ \A other \in Calls \ {c} : call'[other] = call[other]
    BY SlotEffect DEF HInv, TypeOK
  <1>2. ASSUME NEW other \in Calls \ {c}
        PROVE  /\ call[other].step = "write_status"
                    => Backed(call[other].to, hands' \cup {call[other].actor})
               /\ call[other].step = "write_proposal"
                    => call[other].actor \in {"developer", "admin"}
    <2>1. hands \cup {call[other].actor} \subseteq hands' \cup {call[other].actor}
      OBVIOUS
    <2>2. call[other].step = "write_status" => Backed(call[other].to, hands \cup {call[other].actor})
      BY DEF HInv, WritesAreBacked, At
    <2>3. QED
      BY <2>1, <2>2 DEF HInv, WritesAreBacked, At, Backed
  <1>3. QED
    BY <1>1, <1>2 DEF WritesAreBacked, At

\* Idle is a record like any other.
LEMMA IdleIsCall == Idle \in Call
  BY DEF Idle, Call, Actors, Status

-----------------------------------------------------------------------------
\* A new request is backed by nobody, and needs nobody.
LEMMA InitEstablishesHInv == Init => HInv
  <1> SUFFICES ASSUME Init  PROVE HInv
    OBVIOUS
  <1>1. TypeOK
    BY IdleIsCall DEF Init, TypeOK, Status
  <1>2. Backed(status, hands) /\ WritesAreBacked
    BY DEF Init, Backed, WritesAreBacked, At, Idle
  <1>3. QED
    BY <1>1, <1>2 DEF HInv

\* Only calls are overtaken.
LEMMA OvertakenAreCalls ==
  ASSUME TypeOK, [Next]_vars PROVE overtaken' \in SUBSET Calls
  BY DEF TypeOK, Next, UpdateStatus, SubmitProposal, CreateMilestone, WriteStatus, WriteProposal,
         Sum, Insert, Refund, Begin, Overtakes, vars

\* Every step of every call keeps the invariant.
LEMMA StepKeepsHInv == HInv /\ [Next]_vars => HInv'
  <1> SUFFICES ASSUME HInv, [Next]_vars  PROVE HInv'
    OBVIOUS
  <1>0. /\ TypeOK /\ Backed(status, hands) /\ call \in [Calls -> Call]
        /\ overtaken' \in SUBSET Calls
    BY OvertakenAreCalls DEF HInv, TypeOK
  <1>1. ASSUME NEW c \in Calls, NEW a \in Actors, NEW to \in Status, UpdateStatus(c, a, to)
        PROVE  HInv'
    <2> DEFINE r == [Idle EXCEPT !.step = "write_status", !.actor = a, !.to = to]
    <2>1. r \in Call /\ r.step = "write_status" /\ r.actor = a /\ r.to = to
      BY IdleIsCall DEF Idle, Call
    <2>2. call' = [call EXCEPT ![c] = r] /\ UNCHANGED <<request, rows>>
      BY <1>1 DEF UpdateStatus, Begin
    <2> HIDE DEF r
    <2>3. Backed(to, hands \cup {a})
      BY <1>0, <1>1, AllowedIsBacked DEF UpdateStatus
    <2>4. call' \in [Calls -> Call] /\ WritesAreBacked'
      BY <2>1, <2>2, <2>3, StepKeepsWrites DEF request
    <2>5. QED
      BY <1>0, <2>2, <2>4 DEF HInv, TypeOK, request, rows
  <1>2. ASSUME NEW c \in Calls, NEW a \in Actors, NEW n \in Amounts \cup {NoAmount},
               NEW z \in BOOLEAN, SubmitProposal(c, a, n, z)
        PROVE  HInv'
    <2> DEFINE r == [Idle EXCEPT !.step = "write_proposal", !.actor = a, !.amount = n,
                                 !.isNull = z]
    <2>1. r \in Call /\ r.step = "write_proposal" /\ r.actor = a
      BY IdleIsCall DEF Idle, Call
    <2>2. call' = [call EXCEPT ![c] = r] /\ UNCHANGED <<request, rows>> /\ a # "client"
      BY <1>2 DEF SubmitProposal, Begin
    <2> HIDE DEF r
    <2>3. call' \in [Calls -> Call] /\ WritesAreBacked'
      BY <2>1, <2>2, StepKeepsWrites DEF request, Actors
    <2>4. QED
      BY <1>0, <2>2, <2>3 DEF HInv, TypeOK, request, rows
  <1>3. ASSUME NEW c \in Calls, NEW a \in Actors, NEW m \in Milestones, NEW n \in Amounts,
               CreateMilestone(c, a, m, n)
        PROVE  HInv'
    <2> DEFINE s == IF Cap = NoAmount THEN "insert" ELSE "sum"
               r == [Idle EXCEPT !.step = s, !.actor = a, !.milestone = m, !.amount = n,
                                 !.cap = Cap]
    <2>1. Cap \in Amounts \cup {NoAmount} /\ s \in {"insert", "sum"}
      BY <1>0 DEF Cap, TypeOK
    <2> HIDE DEF s
    <2>2. r \in Call /\ r.step = s
      BY <2>1, IdleIsCall DEF Idle, Call
    <2>3. call' = [call EXCEPT ![c] = r] /\ UNCHANGED <<request, rows>>
      BY <1>3 DEF CreateMilestone, Begin, s
    <2> HIDE DEF r
    <2>4. call' \in [Calls -> Call] /\ WritesAreBacked'
      BY <2>1, <2>2, <2>3, StepKeepsWrites DEF request
    <2>5. QED
      BY <1>0, <2>3, <2>4 DEF HInv, TypeOK, request, rows
  <1>4. ASSUME NEW c \in Calls, WriteStatus(c)  PROVE HInv'
    <2>1. /\ status' = call[c].to /\ hands' = hands \cup {call[c].actor}
          /\ call' = [call EXCEPT ![c] = Idle] /\ UNCHANGED <<budget, proposal, rows>>
      BY <1>4 DEF WriteStatus, Return
    <2>2. call[c].to \in Status /\ call[c].actor \in Actors
      BY <1>0 DEF Call
    <2>3. Backed(status', hands')
      BY <1>4, <2>1 DEF WriteStatus, HInv, WritesAreBacked
    <2>4. call' \in [Calls -> Call] /\ WritesAreBacked'
      BY <2>1, IdleIsCall, StepKeepsWrites DEF Idle
    <2>5. QED
      BY <1>0, <2>1, <2>2, <2>3, <2>4 DEF HInv, TypeOK, rows, Backed
  <1>5. ASSUME NEW c \in Calls, WriteProposal(c)  PROVE HInv'
    <2>1. /\ status' = "PROPOSAL_SENT" /\ hands' = hands \cup {call[c].actor}
          /\ proposal' \in {NoAmount, proposal, call[c].amount}
          /\ call' = [call EXCEPT ![c] = Idle] /\ UNCHANGED <<budget, rows>>
      BY <1>5 DEF WriteProposal, Proposed, Return
    <2>2. call[c].amount \in Amounts \cup {NoAmount} /\ call[c].actor \in Actors
      BY <1>0 DEF Call
    <2>3. Backed(status', hands')
      BY <1>5, <2>1 DEF WriteProposal, HInv, WritesAreBacked, Backed
    <2>4. call' \in [Calls -> Call] /\ WritesAreBacked'
      BY <2>1, IdleIsCall, StepKeepsWrites DEF Idle
    <2>5. QED
      BY <1>0, <2>1, <2>2, <2>3, <2>4 DEF HInv, TypeOK, rows, Backed, Status
  <1>6. ASSUME NEW c \in Calls, Sum(c)  PROVE HInv'
    <2>1. UNCHANGED <<request, rows>>
      BY <1>6 DEF Sum
    <2>2. PICK r \in Call : r.step \in {"idle", "insert"} /\ call' = [call EXCEPT ![c] = r]
      <3>1. CASE Return(c)
        BY <3>1, IdleIsCall DEF Return, Idle
      <3>2. CASE call' = [call EXCEPT ![c].step = "insert"]
        <4> DEFINE r == [call[c] EXCEPT !.step = "insert"]
        <4>1. r \in Call /\ r.step = "insert" /\ call' = [call EXCEPT ![c] = r]
          BY <1>0, <3>2 DEF Call
        <4>2. QED
          BY <4>1
      <3>3. QED
        BY <1>6, <3>1, <3>2 DEF Sum
    <2>3. call' \in [Calls -> Call] /\ WritesAreBacked'
      BY <2>1, <2>2, StepKeepsWrites DEF request
    <2>4. QED
      BY <1>0, <2>1, <2>3 DEF HInv, TypeOK, request, rows
  <1>7. ASSUME NEW c \in Calls, Insert(c)  PROVE HInv'
    <2>1. /\ amount' = [amount EXCEPT ![call[c].milestone] = call[c].amount]
          /\ call' = [call EXCEPT ![c] = Idle] /\ UNCHANGED <<request, refunded>>
      BY <1>7 DEF Insert, Return
    <2>2. call[c].amount \in Amounts \cup {NoAmount}
      BY <1>0 DEF Call
    <2>3. call' \in [Calls -> Call] /\ WritesAreBacked'
      BY <2>1, IdleIsCall, StepKeepsWrites DEF Idle, request
    <2>4. QED
      BY <1>0, <2>1, <2>2, <2>3 DEF HInv, TypeOK, request
  <1>8. ASSUME NEW m \in Milestones, Refund(m)  PROVE HInv'
    BY <1>0, <1>8 DEF Refund, HInv, TypeOK, request, WritesAreBacked, At
  <1>9. CASE UNCHANGED vars
    BY <1>0, <1>9 DEF vars, request, rows, HInv, TypeOK, WritesAreBacked, At
  <1>10. QED
    BY <1>1, <1>2, <1>3, <1>4, <1>5, <1>6, <1>7, <1>8, <1>9 DEF Next

-----------------------------------------------------------------------------
\* HInv holds in every reachable state, for any number of overlapping calls.
THEOREM HireInvariantHolds == Spec => []HInv
  BY InitEstablishesHInv, StepKeepsHInv, PTL DEF Spec

\* Nobody is hired without the developer's and the client's (or an admin's) hand.
THEOREM HiringNeedsBothParties == Spec => []DealNeedsBothParties
  <1>1. HInv => DealNeedsBothParties
    BY DEF HInv, Backed, DealNeedsBothParties
  <1>2. QED
    BY HireInvariantHolds, <1>1, PTL

-----------------------------------------------------------------------------
\* Nothing that a call has checked is written before it writes, or it is overtaken.
LEMMA StepKeepsChecks ==
  ASSUME HInv, ChecksStillHold, [Next]_vars PROVE ChecksStillHold'
  <1>1. call \in [Calls -> Call]
    BY DEF HInv, TypeOK
  <1>2. ASSUME NEW c \in Calls, NEW r \in Call, call' = [call EXCEPT ![c] = r],
               r.step = "write_status" => Allowed(r.actor, r.to)',
               r.step = "write_proposal" => status' \notin Closed,
               \A d \in Calls \ {c} : d \notin overtaken' =>
                 /\ d \notin overtaken
                 /\ status' = status \/ call[d].step \notin {"write_status", "write_proposal"}
        PROVE  ChecksStillHold'
    <2>1. call'[c] = r /\ \A d \in Calls \ {c} : call'[d] = call[d]
      BY <1>1, <1>2
    <2>2. ASSUME NEW d \in Calls \ {c}, d \notin overtaken'
          PROVE  /\ call[d].step = "write_status" => Allowed(call[d].actor, call[d].to)'
                 /\ call[d].step = "write_proposal" => status' \notin Closed
      <3>1. /\ call[d].step = "write_status" => Allowed(call[d].actor, call[d].to)
            /\ call[d].step = "write_proposal" => status \notin Closed
        BY <1>2, <2>2 DEF ChecksStillHold, At
      <3>2. CASE status' = status
        <4>1. PICK a, t : a = call[d].actor /\ t = call[d].to
          OBVIOUS
        <4>2. Allowed(a, t) => Allowed(a, t)'
          BY <3>2 DEF Allowed
        <4>3. Allowed(call[d].actor, call[d].to)' <=> Allowed(a, t)'
          BY <2>1, <4>1, <3>2 DEF Allowed
        <4>4. QED
          BY <3>1, <3>2, <4>1, <4>2, <4>3 DEF Allowed
      <3>3. CASE status' # status
        BY <1>2, <2>2, <3>3
      <3>4. QED
        BY <3>2, <3>3
    <2>3. QED
      BY <1>2, <2>1, <2>2 DEF ChecksStillHold, At, Allowed
  <1>3. ASSUME NEW c \in Calls, NEW a \in Actors, NEW to \in Status, UpdateStatus(c, a, to)
        PROVE  ChecksStillHold'
    <2> DEFINE r == [Idle EXCEPT !.step = "write_status", !.actor = a, !.to = to]
    <2>1. r \in Call /\ r.step = "write_status" /\ r.actor = a /\ r.to = to
      BY IdleIsCall DEF Idle, Call
    <2>2. /\ call' = [call EXCEPT ![c] = r] /\ status' = status /\ Allowed(a, to)
          /\ overtaken' = overtaken
      BY <1>3 DEF UpdateStatus, Begin, request
    <2> HIDE DEF r
    <2>3. Allowed(r.actor, r.to)'
      BY <2>1, <2>2 DEF Allowed
    <2>4. QED
      BY <1>2, <2>1, <2>2, <2>3
  <1>4. ASSUME NEW c \in Calls, NEW a \in Actors, NEW n \in Amounts \cup {NoAmount},
               NEW z \in BOOLEAN, SubmitProposal(c, a, n, z)
        PROVE  ChecksStillHold'
    <2> DEFINE r == [Idle EXCEPT !.step = "write_proposal", !.actor = a, !.amount = n,
                                 !.isNull = z]
    <2>1. r \in Call /\ r.step = "write_proposal"
      BY IdleIsCall DEF Idle, Call
    <2>2. /\ call' = [call EXCEPT ![c] = r] /\ status' = status /\ status \notin Closed
          /\ overtaken' = overtaken
      BY <1>4 DEF SubmitProposal, Begin, request
    <2> HIDE DEF r
    <2>3. QED
      BY <1>2, <2>1, <2>2
  <1>5. ASSUME NEW c \in Calls, NEW a \in Actors, NEW m \in Milestones, NEW n \in Amounts,
               CreateMilestone(c, a, m, n)
        PROVE  ChecksStillHold'
    <2>1. /\ call'[c].step \in {"insert", "sum"} /\ \A d \in Calls \ {c} : call'[d] = call[d]
          /\ UNCHANGED <<status, overtaken>>
      BY <1>1, <1>5 DEF CreateMilestone, Begin, Idle, request
    <2>2. QED
      BY <2>1 DEF ChecksStillHold, At, Allowed
  <1>6. ASSUME NEW c \in Calls, WriteStatus(c) \/ WriteProposal(c) \/ Insert(c)
        PROVE  ChecksStillHold'
    <2>1. call' = [call EXCEPT ![c] = Idle]
      BY <1>6 DEF WriteStatus, WriteProposal, Insert, Return
    <2>2. \A d \in Calls \ {c} : d \notin overtaken' =>
            /\ d \notin overtaken
            /\ status' = status \/ call[d].step \notin {"write_status", "write_proposal"}
      BY <1>6 DEF WriteStatus, WriteProposal, Insert, Overtakes, request
    <2>3. QED
      BY <1>2, <2>1, <2>2, IdleIsCall DEF Idle
  <1>7. ASSUME NEW c \in Calls, Sum(c) PROVE ChecksStillHold'
    <2>1. /\ call'[c].step \in {"idle", "insert"} /\ \A d \in Calls \ {c} : call'[d] = call[d]
          /\ status' = status
      BY <1>1, <1>7 DEF Sum, Return, Idle, Call, request
    <2>2. \A d \in Calls \ {c} : d \notin overtaken' => d \notin overtaken
      BY <1>7 DEF Sum, Overtakes
    <2>3. QED
      BY <2>1, <2>2 DEF ChecksStillHold, At, Allowed
  <1>8. CASE (\E m \in Milestones : Refund(m)) \/ UNCHANGED vars
    <2>1. UNCHANGED <<status, call, overtaken>>
      BY <1>8 DEF Refund, vars, request
    <2>2. QED
      BY <2>1 DEF ChecksStillHold, At, Allowed
  <1>9. QED
    BY <1>3, <1>4, <1>5, <1>6, <1>7, <1>8 DEF Next

\* No transition leaves a closed status, so a step that does is an admin's or was
\* overtaken.
LEMMA StepKeepsDeal ==
  ASSUME HInv, ChecksStillHold, [Next]_vars, status \in Closed, ~UNCHANGED <<status, proposal>>
  PROVE  \E c \in Calls : Writes(c) /\ (call[c].actor = "admin" \/ c \in overtaken)
  <1>1. PICK c \in Calls : WriteStatus(c) \/ WriteProposal(c)
    <2>1. /\ \A c \in Calls, a \in Actors, to \in Status : ~UpdateStatus(c, a, to)
          /\ \A c \in Calls, a \in Actors, n \in Amounts \cup {NoAmount}, z \in BOOLEAN :
               ~SubmitProposal(c, a, n, z)
          /\ \A c \in Calls, a \in Actors, m \in Milestones, n \in Amounts : ~CreateMilestone(c, a, m, n)
          /\ \A c \in Calls : ~Sum(c) /\ ~Insert(c)
          /\ \A m \in Milestones : ~Refund(m)
          /\ ~UNCHANGED vars
      BY DEF UpdateStatus, SubmitProposal, CreateMilestone, Sum, Insert, Refund, vars, request
    <2>2. QED
      BY <2>1 DEF Next
  <1>2. Writes(c)
    BY <1>1 DEF Writes, WriteStatus, WriteProposal, At
  <1>3. CASE c \in overtaken
    BY <1>2, <1>3
  <1>4. CASE c \notin overtaken
    <2>1. WriteStatus(c)
      BY <1>1, <1>4 DEF ChecksStillHold, WriteProposal, At
    <2>2. /\ Allowed(call[c].actor, call[c].to) /\ call[c].step = "write_status"
          /\ status' = call[c].to /\ proposal' = proposal
      BY <1>4, <2>1 DEF ChecksStillHold, WriteStatus, At
    <2>3. /\ call[c].to # status
          /\ <<status, call[c].to>> \notin ClientTransitions
          /\ <<status, call[c].to>> \notin DeveloperTransitions
      BY <2>2 DEF Closed, ClientTransitions, DeveloperTransitions
    <2>4. call[c].actor = "admin"
      BY <2>2, <2>3 DEF Allowed
    <2>5. QED
      BY <1>2, <2>4
  <1>5. QED
    BY <1>3, <1>4

\* What was closed stays as it is until an admin steps in, or a call writes that was let
\* through before another wrote; for any amounts, any number of calls and any overlap.
THEOREM ClosedDealStaysClosed == Spec => ClosedDealIsFrozen
  <1>1. Init => CheckedHInv
    BY InitEstablishesHInv DEF CheckedHInv, Init, ChecksStillHold, At, Idle
  <1>2. CheckedHInv /\ [Next]_vars => CheckedHInv'
    BY StepKeepsHInv, StepKeepsChecks DEF CheckedHInv
  <1>3. CheckedHInv /\ [Next]_vars =>
          [(status \in Closed) =>
             \/ UNCHANGED <<status, proposal>>
             \/ \E c \in Calls : Writes(c) /\ (call[c].actor = "admin" \/ c \in overtaken)]_vars
    BY StepKeepsDeal DEF CheckedHInv
  <1>4. QED
    BY <1>1, <1>2, <1>3, PTL DEF Spec, ClosedDealIsFrozen

-----------------------------------------------------------------------------
(* Sums over a set: a fold takes the elements in an order of its own. *)

\* Without a counterexample below it there is none at all.
LEMMA LeastIs ==
  ASSUME NEW T, T \subseteq Nat, T # {} PROVE \E n \in T : \A m \in T : n <= m
  <1>1. PICK n \in T : \A m \in T : ~ (<<m, n>> \in OpToRel(<, Nat))
    BY NatLessThanWellFounded, WFMin
  <1>2. \A m \in T : ~(m < n)
    BY <1>1 DEF OpToRel
  <1>3. QED BY <1>2

\* A set of naturals that has 0 and all successors has all.
LEMMA Induction ==
  ASSUME NEW S, 0 \in S, \A n \in Nat : n \in S => n + 1 \in S
  PROVE  \A n \in Nat : n \in S
  <1> DEFINE T == {n \in Nat : n \notin S}
  <1>1. SUFFICES ASSUME T # {} PROVE FALSE
    OBVIOUS
  <1>2. PICK n \in T : \A m \in T : n <= m
    BY <1>1, LeastIs
  <1>3. CASE n = 0
    BY <1>2, <1>3
  <1>4. CASE n # 0
    <2>1. n - 1 \in Nat /\ n - 1 \notin T
      BY <1>2, <1>4
    <2>2. QED
      BY <2>1, <1>2
  <1>5. QED
    BY <1>3, <1>4

\* A finite set that is not empty has one element more than without one of them.
LEMMA OneLess ==
  ASSUME NEW S, IsFiniteSet(S), NEW x \in S
  PROVE  /\ IsFiniteSet(S \ {x}) /\ Cardinality(S) \in Nat \ {0}
         /\ Cardinality(S \ {x}) = Cardinality(S) - 1
  <1>1. IsFiniteSet(S \ {x}) /\ Cardinality(S \ {x}) = Cardinality(S) - 1
    BY FS_RemoveElement
  <1>2. Cardinality(S \ {x}) \in Nat /\ Cardinality(S) \in Nat
    BY <1>1, FS_CardinalityType
  <1>3. QED
    BY <1>1, <1>2

\* The element that a fold takes next.
Taken(s) == CHOOSE x \in s : TRUE

\* The subsets of S with at most k elements.
Small(S, k) == {s \in SUBSET S : Cardinality(s) <= k}

\* The sums of a over subsets, as a fold takes them.
FoldsTo(f, a, domain) ==
  f = [s \in domain |-> IF s = {} THEN 0 ELSE a[Taken(s)] + f[s \ {Taken(s)}]]

LEMMA FoldsExist ==
  ASSUME NEW a, NEW S, IsFiniteSet(S) PROVE \E f : FoldsTo(f, a, SUBSET S)
  <1> DEFINE K == {n \in Nat : \E f : FoldsTo(f, a, Small(S, n))}
  <1>1. ASSUME NEW s \in SUBSET S, s # {}
        PROVE  /\ Taken(s) \in s /\ s \ {Taken(s)} \in SUBSET S
               /\ Cardinality(s) \in Nat \ {0}
               /\ Cardinality(s \ {Taken(s)}) = Cardinality(s) - 1
    <2>1. Taken(s) \in s
      BY <1>1 DEF Taken
    <2>2. IsFiniteSet(s)
      BY FS_Subset
    <2>3. QED
      BY <2>1, <2>2, OneLess
  <1>2. Cardinality({}) = 0
    BY FS_EmptySet
  <1>3. 0 \in K
    <2>1. FoldsTo([s \in Small(S, 0) |-> 0], a, Small(S, 0))
      <3>1. ASSUME NEW s \in Small(S, 0), s # {} PROVE FALSE
        <4>1. s \in SUBSET S /\ Cardinality(s) <= 0
          BY DEF Small
        <4>2. Cardinality(s) \in Nat \ {0}
          BY <1>1, <3>1, <4>1
        <4>3. QED
          BY <4>1, <4>2
      <3>2. QED
        BY <3>1 DEF FoldsTo
    <2>2. QED
      BY <2>1
  <1>4. ASSUME NEW n \in Nat, n \in K PROVE n + 1 \in K
    <2>1. PICK f : FoldsTo(f, a, Small(S, n))
      BY <1>4
    <2>2. PICK g : g = [s \in Small(S, n + 1) |->
                          IF s \in Small(S, n) THEN f[s] ELSE a[Taken(s)] + f[s \ {Taken(s)}]]
      OBVIOUS
    <2>3. {} \in Small(S, n) /\ {} \in Small(S, n + 1)
      BY <1>2 DEF Small
    <2>4. ASSUME NEW s \in Small(S, n + 1), s # {}
          PROVE  /\ g[s] = a[Taken(s)] + f[s \ {Taken(s)}]
                 /\ g[s \ {Taken(s)}] = f[s \ {Taken(s)}]
      <3>1. s \in SUBSET S /\ Cardinality(s) <= n + 1
        BY DEF Small
      <3>2. s \ {Taken(s)} \in Small(S, n) /\ s \ {Taken(s)} \in Small(S, n + 1)
        BY <1>1, <2>4, <3>1 DEF Small
      <3>3. g[s \ {Taken(s)}] = f[s \ {Taken(s)}]
        BY <2>2, <3>2
      <3>4. s \in Small(S, n) => f[s] = a[Taken(s)] + f[s \ {Taken(s)}]
        BY <2>1, <2>4 DEF FoldsTo
      <3>5. QED
        BY <2>2, <3>3, <3>4
    <2>5. g[{}] = 0
      BY <2>1, <2>2, <2>3 DEF FoldsTo
    <2>6. DOMAIN g = Small(S, n + 1) /\ g = [s \in Small(S, n + 1) |-> g[s]]
      BY <2>2
    <2>7. \A s \in Small(S, n + 1) : g[s] = IF s = {} THEN 0 ELSE a[Taken(s)] + g[s \ {Taken(s)}]
      BY <2>4, <2>5
    <2>8. FoldsTo(g, a, Small(S, n + 1))
      BY <2>6, <2>7 DEF FoldsTo
    <2>9. QED
      BY <2>8
  <1>5. Cardinality(S) \in Nat
    BY FS_CardinalityType
  <1>6. SUBSET S = Small(S, Cardinality(S))
    <2>1. ASSUME NEW s \in SUBSET S PROVE Cardinality(s) <= Cardinality(S)
      BY FS_Subset
    <2>2. QED
      BY <2>1 DEF Small
  <1> HIDE DEF K
  <1>7. Cardinality(S) \in K
    BY <1>3, <1>4, <1>5, Induction
  <1>8. QED
    BY <1>6, <1>7 DEF K

\* The sums of a over the subsets of S: whichever element is taken out.
SetSums(f, a, S) ==
  /\ f \in [SUBSET S -> Int] /\ f[{}] = 0
  /\ \A s \in SUBSET S : \A x \in s : f[s] = a[x] + f[s \ {x}]

\* It does not matter in which order a fold takes its elements.
LEMMA OrderIsFree ==
  ASSUME NEW a, NEW S, IsFiniteSet(S), \A x \in S : a[x] \in Int, NEW f, FoldsTo(f, a, SUBSET S)
  PROVE  SetSums(f, a, S)
  <1> DEFINE P(s) == f[s] \in Int /\ \A x \in s : f[s] = a[x] + f[s \ {x}]
             K == {n \in Nat : \A s \in SUBSET S : Cardinality(s) <= n => P(s)}
  <1>1. ASSUME NEW s \in SUBSET S, NEW x \in s
        PROVE  /\ s \ {x} \in SUBSET S /\ a[x] \in Int
               /\ Cardinality(s) \in Nat \ {0}
               /\ Cardinality(s \ {x}) = Cardinality(s) - 1
    <2>1. IsFiniteSet(s)
      BY FS_Subset
    <2>2. QED
      BY <2>1, OneLess
  <1>2. f[{}] = 0
    BY DEF FoldsTo
  <1>3. ASSUME NEW s \in SUBSET S, s # {}
        PROVE  Taken(s) \in s /\ f[s] = a[Taken(s)] + f[s \ {Taken(s)}]
    BY <1>3 DEF FoldsTo, Taken
  <1>4. P({})
    BY <1>2
  <1>5. 0 \in K
    <2>1. ASSUME NEW s \in SUBSET S, Cardinality(s) <= 0, NEW x \in s PROVE FALSE
      <3>1. Cardinality(s) \in Nat \ {0}
        BY <1>1
      <3>2. QED
        BY <2>1, <3>1
    <2>2. QED
      BY <1>4, <2>1
  <1>6. ASSUME NEW n \in Nat, n \in K PROVE n + 1 \in K
    <2>1. SUFFICES ASSUME NEW s \in SUBSET S, Cardinality(s) <= n + 1 PROVE P(s)
      OBVIOUS
    <2>2. SUFFICES ASSUME s # {} PROVE P(s)
      BY <1>4
    <2>3. PICK c \in s : f[s] = a[c] + f[s \ {c}]
      BY <1>3, <2>2
    <2>4. ASSUME NEW x \in s PROVE a[x] \in Int /\ P(s \ {x})
      BY <1>1, <1>6, <2>1
    <2>5. ASSUME NEW x \in s, NEW y \in s, x # y PROVE P((s \ {x}) \ {y})
      <3>1. PICK t : t = s \ {x}
        OBVIOUS
      <3>2. t \in SUBSET S /\ y \in t /\ Cardinality(t) <= n /\ Cardinality(t) \in Nat
        BY <1>1, <2>1, <2>5, <3>1
      <3>3. t \ {y} \in SUBSET S /\ Cardinality(t \ {y}) <= n
        BY <1>1, <3>2
      <3>4. QED
        BY <1>6, <3>1, <3>3
    <2>6. ASSUME NEW x \in s PROVE f[s] = a[x] + f[s \ {x}]
      <3>1. CASE x = c
        BY <2>3, <3>1
      <3>2. CASE x # c
        <4>1. (s \ {x}) \ {c} = (s \ {c}) \ {x}
          OBVIOUS
        <4>2. f[s \ {c}] = a[x] + f[(s \ {c}) \ {x}]
          BY <2>4, <3>2
        <4>3. f[s \ {x}] = a[c] + f[(s \ {x}) \ {c}]
          BY <2>4, <3>2
        <4>4. a[x] \in Int /\ a[c] \in Int /\ f[(s \ {x}) \ {c}] \in Int
          BY <2>4, <2>5, <3>2
        <4>5. PICK v : v = f[(s \ {x}) \ {c}]
          OBVIOUS
        <4>6. v \in Int /\ f[s \ {c}] = a[x] + v /\ f[s \ {x}] = a[c] + v
          BY <4>1, <4>2, <4>3, <4>4, <4>5
        <4>7. f[s] = a[c] + (a[x] + v) /\ a[x] + f[s \ {x}] = a[x] + (a[c] + v)
          BY <2>3, <4>6
        <4>8. QED
          BY <4>4, <4>6, <4>7
      <3>3. QED
        BY <3>1, <3>2
    <2>7. f[s] \in Int
      BY <2>3, <2>4
    <2>8. QED
      BY <2>6, <2>7
  <1>7. Cardinality(S) \in Nat /\ \A s \in SUBSET S : Cardinality(s) <= Cardinality(S)
    BY FS_CardinalityType, FS_Subset
  <1>8. Cardinality(S) \in K
    <2> HIDE DEF K
    <2>1. QED
      BY <1>5, <1>6, <1>7, Induction
  <1>9. \A s \in SUBSET S : P(s)
    BY <1>7, <1>8
  <1>10. f = [s \in SUBSET S |-> f[s]]
    BY DEF FoldsTo
  <1>11. f \in [SUBSET S -> Int]
    <2> HIDE DEF P
    <2>1. \A s \in SUBSET S : f[s] \in Int
      BY <1>9 DEF P
    <2>2. QED
      BY <1>10, <2>1
  <1>12. QED
    BY <1>2, <1>9, <1>11 DEF SetSums

\* The sum over a set, and those over its parts.
SumOver(a, S) == MapThenSumSet(LAMBDA x : a[x], S)

LEMMA SumOverIs ==
  ASSUME NEW a, NEW S, IsFiniteSet(S), \A x \in S : a[x] \in Int
  PROVE  \E f : SetSums(f, a, S) /\ SumOver(a, S) = f[S]
  <1> DEFINE f == CHOOSE g : FoldsTo(g, a, SUBSET S)
  <1>1. FoldsTo(f, a, SUBSET S)
    BY FoldsExist
  <1>2. SumOver(a, S) = f[S]
    BY DEF SumOver, MapThenSumSet, MapThenFoldSet, FoldsTo, Taken
  <1>3. SetSums(f, a, S)
    BY <1>1, OrderIsFree
  <1>4. QED
    BY <1>2, <1>3

\* Where two functions agree, so do their sums, within whatever sets.
LEMMA SumsAgree ==
  ASSUME NEW S, NEW T, IsFiniteSet(S), T \subseteq S, NEW a, NEW b, \A x \in T : a[x] = b[x],
         NEW f, SetSums(f, a, S), NEW g, SetSums(g, b, T)
  PROVE  f[T] = g[T]
  <1> DEFINE K == {n \in Nat : \A s \in SUBSET T : Cardinality(s) <= n => f[s] = g[s]}
  <1>1. ASSUME NEW s \in SUBSET T, NEW x \in s
        PROVE  /\ s \ {x} \in SUBSET T
               /\ Cardinality(s) \in Nat \ {0}
               /\ Cardinality(s \ {x}) = Cardinality(s) - 1
    <2>1. IsFiniteSet(s)
      BY FS_Subset
    <2>2. QED
      BY <2>1, OneLess
  <1>2. f[{}] = g[{}]
    BY DEF SetSums
  <1>3. 0 \in K
    <2>1. ASSUME NEW s \in SUBSET T, Cardinality(s) <= 0, NEW x \in s PROVE FALSE
      <3>1. Cardinality(s) \in Nat \ {0}
        BY <1>1
      <3>2. QED
        BY <2>1, <3>1
    <2>2. QED
      BY <1>2, <2>1
  <1>4. ASSUME NEW n \in Nat, n \in K PROVE n + 1 \in K
    <2>1. SUFFICES ASSUME NEW s \in SUBSET T, Cardinality(s) <= n + 1 PROVE f[s] = g[s]
      OBVIOUS
    <2>2. SUFFICES ASSUME NEW x \in s PROVE f[s] = g[s]
      BY <1>2
    <2>3. f[s \ {x}] = g[s \ {x}]
      BY <1>1, <1>4, <2>1
    <2>4. f[s] = a[x] + f[s \ {x}] /\ g[s] = b[x] + g[s \ {x}]
      BY DEF SetSums
    <2>5. QED
      BY <2>3, <2>4
  <1>5. IsFiniteSet(T)
    BY FS_Subset
  <1>6. Cardinality(T) \in Nat
    BY <1>5, FS_CardinalityType
  <1> HIDE DEF K
  <1>7. Cardinality(T) \in K
    BY <1>3, <1>4, <1>6, Induction
  <1>8. QED
    BY <1>6, <1>7 DEF K

\* Functions that agree on a set have the same sum over it.
LEMMA SumIsTheSame ==
  ASSUME NEW S, IsFiniteSet(S), NEW a, \A y \in S : a[y] \in Int, NEW b, \A y \in S : b[y] = a[y]
  PROVE  SumOver(b, S) = SumOver(a, S)
  <1>1. PICK f : SetSums(f, a, S) /\ SumOver(a, S) = f[S]
    BY SumOverIs
  <1>2. \A y \in S : b[y] \in Int
    OBVIOUS
  <1>3. PICK g : SetSums(g, b, S) /\ SumOver(b, S) = g[S]
    BY <1>2, SumOverIs
  <1>4. f[S] = g[S]
    BY <1>1, <1>3, SumsAgree
  <1>5. QED
    BY <1>1, <1>3, <1>4

\* An element more adds what it counts for.
LEMMA SumOfMore ==
  ASSUME NEW a, NEW S, IsFiniteSet(S), NEW x, x \notin S, \A y \in S \cup {x} : a[y] \in Int
  PROVE  SumOver(a, S \cup {x}) = SumOver(a, S) + a[x]
  <1>1. PICK T : T = S \cup {x}
    OBVIOUS
  <1>2. IsFiniteSet(T) /\ S \subseteq T /\ x \in T /\ T \ {x} = S /\ \A y \in T : a[y] \in Int
    BY <1>1, FS_AddElement
  <1>3. PICK f : SetSums(f, a, T) /\ SumOver(a, T) = f[T]
    BY <1>2, SumOverIs
  <1>4. PICK g : SetSums(g, a, S) /\ SumOver(a, S) = g[S]
    BY SumOverIs
  <1>5. f[T] = a[x] + f[S]
    BY <1>2, <1>3 DEF SetSums
  <1>6. f[S] = g[S]
    BY <1>2, <1>3, <1>4, SumsAgree
  <1>7. f[S] \in Int
    BY <1>2, <1>3 DEF SetSums
  <1>8. QED
    BY <1>1, <1>2, <1>3, <1>4, <1>5, <1>6, <1>7

LEMMA SumIsANumber ==
  ASSUME NEW a, NEW S, IsFiniteSet(S), \A x \in S : a[x] \in Int
  PROVE  SumOver(a, S) \in Int
  <1>1. PICK f : SetSums(f, a, S) /\ SumOver(a, S) = f[S]
    BY SumOverIs
  <1>2. f[S] \in Int
    BY <1>1 DEF SetSums
  <1>3. QED
    BY <1>1, <1>2

-----------------------------------------------------------------------------
(* The budget, one call at a time. *)

\* What Committed sums up, and that it is a number.
LEMMA CommittedIs ==
  ASSUME TypeOK, IsFiniteSet(Existing)
  PROVE  /\ Committed = SumOver(amount, Standing)
         /\ IsFiniteSet(Standing) /\ Standing \subseteq Existing
         /\ \A m \in Existing : amount[m] \in Nat
         /\ Committed \in Int
  <1>1. Committed = SumOver(amount, Standing)
    BY DEF Committed, SumOver, MapThenSumSet, MapThenFoldSet
  <1>2. Standing \subseteq Existing
    BY DEF Standing, Existing
  <1>3. IsFiniteSet(Standing)
    BY <1>2, FS_Subset
  <1>4. \A m \in Existing : amount[m] \in Nat
    BY AmountAssumption DEF Existing, TypeOK
  <1>5. \A m \in Standing : amount[m] \in Int
    BY <1>2, <1>4
  <1>6. Committed \in Int
    BY <1>1, <1>3, <1>5, SumIsANumber
  <1>7. QED
    BY <1>1, <1>2, <1>3, <1>4, <1>6

\* A refund takes at most something away.
LEMMA RefundFreesBudget ==
  ASSUME TypeOK, IsFiniteSet(Existing), NEW m \in Milestones, Refund(m)
  PROVE  Committed' <= Committed
  <1>1. amount' = amount /\ refunded' = refunded \cup {m}
    BY DEF Refund
  <1>2. Standing' = Standing \ {m}
    BY <1>1 DEF Standing
  <1>3. Committed' = SumOver(amount, Standing \ {m})
    <2>1. Committed' = SumOver(amount', Standing')
      BY DEF Committed, SumOver, MapThenSumSet, MapThenFoldSet
    <2>2. QED
      BY <1>1, <1>2, <2>1
  <1>4. CASE m \notin Standing
    <2>1. Standing \ {m} = Standing
      BY <1>4
    <2>2. QED
      BY <1>3, <2>1, CommittedIs
  <1>5. CASE m \in Standing
    <2>1. PICK S : S = Standing \ {m}
      OBVIOUS
    <2>2. IsFiniteSet(S) /\ m \notin S /\ S \cup {m} = Standing
      BY <1>5, <2>1, CommittedIs, FS_Subset
    <2>3. amount[m] \in Nat /\ \A x \in S \cup {m} : amount[x] \in Int
      BY <1>5, <2>1, CommittedIs
    <2>4. SumOver(amount, S \cup {m}) = SumOver(amount, S) + amount[m]
      BY <2>2, <2>3, SumOfMore
    <2>5. SumOver(amount, S) \in Int
      BY <2>2, <2>3, SumIsANumber
    <2>6. Committed = SumOver(amount, S \cup {m}) /\ Committed' = SumOver(amount, S)
      BY <1>3, <2>1, <2>2, CommittedIs
    <2>7. QED
      BY <2>3, <2>4, <2>5, <2>6
  <1>6. QED
    BY <1>4, <1>5

\* An insert adds its amount.
LEMMA InsertCommits ==
  ASSUME TypeOK, BudgetInv, NEW c \in Calls, Insert(c)
  PROVE  /\ Committed' = Committed + call[c].amount
         /\ Existing' = Existing \cup {call[c].milestone}
         /\ IsFiniteSet(Existing')
  <1>1. PICK m, n : m = call[c].milestone /\ n = call[c].amount
    OBVIOUS
  <1>2. amount' = [amount EXCEPT ![m] = n] /\ refunded' = refunded
    BY <1>1 DEF Insert
  <1>3. m \in Milestones \ Existing /\ n \in Amounts /\ n \in Nat /\ n # NoAmount
    BY <1>1, AmountAssumption DEF Insert, BudgetInv, InsertsAreNew, Inserting
  <1>4. DOMAIN amount = Milestones /\ m \notin refunded
    BY <1>3 DEF TypeOK, BudgetInv
  <1>5. amount'[m] = n /\ \A x \in Milestones \ {m} : amount'[x] = amount[x]
    BY <1>2, <1>3, <1>4
  <1>6. Existing' = Existing \cup {m}
    BY <1>3, <1>5 DEF Existing
  <1>7. Standing' = Standing \cup {m} /\ m \notin Standing
    BY <1>2, <1>3, <1>4, <1>5 DEF Standing, Existing
  <1>8. IsFiniteSet(Existing)
    BY DEF BudgetInv
  <1>9. \A x \in Standing : amount[x] = amount'[x] /\ amount[x] \in Int
    BY <1>3, <1>5, <1>8, CommittedIs DEF Existing
  <1>10. PICK a, b, S : a = amount /\ b = amount' /\ S = Standing
    OBVIOUS
  <1>11. SumOver(b, S \cup {m}) = SumOver(a, S) + b[m]
    <2>1. IsFiniteSet(S) /\ m \notin S /\ b[m] \in Int
      BY <1>3, <1>5, <1>7, <1>8, <1>10, CommittedIs
    <2>2. \A y \in S : a[y] = b[y] /\ a[y] \in Int
      BY <1>9, <1>10
    <2>3. \A y \in S : b[y] = a[y]
      BY <2>2
    <2>4. \A y \in S : a[y] \in Int
      BY <2>2
    <2>5. SumOver(b, S) = SumOver(a, S)
      BY <2>1, <2>3, <2>4, SumIsTheSame
    <2>6. \A y \in S \cup {m} : b[y] \in Int
      BY <2>1, <2>3, <2>4
    <2>7. SumOver(b, S \cup {m}) = SumOver(b, S) + b[m]
      BY <2>1, <2>6, SumOfMore
    <2>8. QED
      BY <2>5, <2>7
  <1>12. Committed' = SumOver(b, S \cup {m})
    <2>1. Committed' = SumOver(amount', Standing')
      BY DEF Committed, SumOver, MapThenSumSet, MapThenFoldSet
    <2>2. QED
      BY <1>7, <1>10, <2>1
  <1>13. Committed = SumOver(a, S)
    BY <1>8, <1>10, CommittedIs
  <1>14. Committed' = Committed + n
    BY <1>5, <1>10, <1>11, <1>12, <1>13
  <1>15. IsFiniteSet(Existing')
    BY <1>6, <1>8, FS_AddElement
  <1>16. QED
    BY <1>1, <1>6, <1>14, <1>15

\* Rows that stay as they are, whatever the one call does.
LEMMA SameRows ==
  ASSUME BudgetInv, UNCHANGED rows
  PROVE  /\ IsFiniteSet(Existing') /\ refunded' \subseteq Existing'
         /\ Existing' = Existing /\ Committed' = Committed
  <1>1. Existing' = Existing
    BY DEF rows, Existing
  <1>2. Committed' = Committed
    BY DEF rows, Committed, Standing, MapThenSumSet, MapThenFoldSet
  <1>3. QED
    BY <1>1, <1>2 DEF rows, BudgetInv

\* A step of c leaves the milestones on their way new and apart, its own as well.
LEMMA InsertsStayNew ==
  ASSUME TypeOK, InsertsAreNew, NEW c \in Calls, NEW r, call' = [call EXCEPT ![c] = r],
         \A d \in Calls \ {c} : Inserting(d) => call[d].milestone \notin Existing',
         r.milestone = NoAmount \/ \A d \in Calls \ {c} : call[d].milestone # r.milestone,
         r.step \in {"sum", "insert"} =>
           r.milestone \in Milestones \ (Existing' \cup {NoAmount}) /\ r.amount \in Amounts
  PROVE  InsertsAreNew'
  <1>1. call'[c] = r /\ \A d \in Calls \ {c} : call'[d] = call[d]
    BY DEF TypeOK
  <1>2. ASSUME NEW d \in Calls, Inserting(d)'
        PROVE  call'[d].milestone \in Milestones \ (Existing' \cup {NoAmount}) /\ call'[d].amount \in Amounts
    BY <1>1, <1>2 DEF InsertsAreNew, Inserting, At
  <1>3. ASSUME NEW d \in Calls, Inserting(d)', NEW e \in Calls \ {d}
        PROVE  call'[e].milestone # call'[d].milestone
    <2>1. CASE d = c
      BY <1>1, <1>2, <1>3, <2>1
    <2>2. CASE d # c
      <3>1. Inserting(d) /\ call'[d] = call[d]
        BY <1>1, <1>3, <2>2 DEF Inserting, At
      <3>2. call[d].milestone # NoAmount /\ \A x \in Calls \ {d} : call[x].milestone # call[d].milestone
        BY <3>1 DEF InsertsAreNew
      <3>3. QED
        BY <1>1, <2>2, <3>1, <3>2
    <2>3. QED
      BY <2>1, <2>2
  <1>4. QED
    BY <1>2, <1>3 DEF InsertsAreNew

\* It leaves what fits fitting, unless it overtakes it.
LEMMA InsertsStayFit ==
  ASSUME TypeOK, InsertsAreNew, InsertsFit, NEW c \in Calls, NEW r, call' = [call EXCEPT ![c] = r],
         Committed \in Int, Committed' \in Int,
         \A d \in Calls \ {c} : d \notin overtaken' =>
           /\ d \notin overtaken
           /\ Cap' = Cap \/ ~Inserting(d)
           /\ Committed' <= Committed \/ ~At(d, "insert"),
         c \notin overtaken' /\ r.step \in {"sum", "insert"} =>
           /\ r.cap = Cap'
           /\ r.step = "insert" /\ Cap' # NoAmount => Committed' + r.amount <= Cap'
  PROVE  InsertsFit'
  <1>1. call'[c] = r /\ \A d \in Calls \ {c} : call'[d] = call[d]
    BY DEF TypeOK
  <1>2. ASSUME NEW d \in Calls \ {c}, d \notin overtaken', Inserting(d)
        PROVE  /\ call[d].cap = Cap'
               /\ At(d, "insert") /\ Cap' # NoAmount => Committed' + call[d].amount <= Cap'
    <2>1. d \notin overtaken /\ Cap' = Cap /\ call[d].cap = Cap
      BY <1>2 DEF InsertsFit
    <2>2. ASSUME At(d, "insert"), Cap # NoAmount PROVE Committed' + call[d].amount <= Cap
      <3>1. Committed + call[d].amount <= Cap /\ call[d].amount \in Nat /\ Committed' <= Committed
        BY <1>2, <2>1, <2>2, AmountAssumption DEF InsertsFit, InsertsAreNew
      <3>2. Cap \in Nat
        BY <2>2, AmountAssumption DEF Cap, TypeOK
      <3>3. QED
        BY <3>1, <3>2
    <2>3. QED
      BY <2>1, <2>2
  <1>3. QED
    BY <1>1, <1>2 DEF InsertsFit, Inserting, At

LEMMA StepKeepsBudget ==
  ASSUME TypeOK, BudgetInv, [Next]_vars PROVE BudgetInv'
  <1>0. InsertsAreNew /\ InsertsFit /\ IsFiniteSet(Existing) /\ Committed \in Int
    BY CommittedIs DEF BudgetInv
  <1>1. call \in [Calls -> Call] /\ DOMAIN call = Calls
    BY DEF TypeOK
  <1>2. ASSUME NEW c \in Calls, NEW r, call' = [call EXCEPT ![c] = r], UNCHANGED rows,
               r.milestone = NoAmount, r.step \notin {"sum", "insert"},
               \A d \in Calls \ {c} : d \notin overtaken' =>
                 d \notin overtaken /\ (Cap' = Cap \/ ~Inserting(d))
        PROVE  BudgetInv'
    <2>1. Existing' = Existing /\ Committed' = Committed
      BY <1>2, SameRows
    <2>2. InsertsAreNew'
      <3>1. \A d \in Calls \ {c} : Inserting(d) => call[d].milestone \notin Existing'
        BY <1>0, <2>1 DEF InsertsAreNew
      <3>2. QED
        BY <1>0, <1>2, <3>1, InsertsStayNew
    <2>3. InsertsFit'
      <3>1. Committed' \in Int /\ Committed' <= Committed
        BY <1>0, <2>1
      <3>2. \A d \in Calls \ {c} : d \notin overtaken' =>
              /\ d \notin overtaken /\ (Cap' = Cap \/ ~Inserting(d))
              /\ Committed' <= Committed \/ ~At(d, "insert")
        BY <1>2, <3>1
      <3>3. QED
        BY <1>0, <1>2, <3>1, <3>2, InsertsStayFit
    <2>4. QED
      BY <1>2, <2>2, <2>3, SameRows DEF BudgetInv
  <1>3. ASSUME NEW c \in Calls, NEW a \in Actors, NEW to \in Status, UpdateStatus(c, a, to)
        PROVE  BudgetInv'
    <2>1. PICK r : r = [Idle EXCEPT !.step = "write_status", !.actor = a, !.to = to]
      OBVIOUS
    <2>2. call' = [call EXCEPT ![c] = r] /\ UNCHANGED rows /\ Cap' = Cap /\ overtaken' = overtaken
      BY <1>3, <2>1 DEF UpdateStatus, Begin, request, Cap
    <2>3. r.step = "write_status" /\ r.milestone = NoAmount
      BY <2>1 DEF Idle
    <2>4. QED
      BY <1>2, <2>2, <2>3
  <1>4. ASSUME NEW c \in Calls, NEW a \in Actors, NEW n \in Amounts \cup {NoAmount},
               NEW z \in BOOLEAN, SubmitProposal(c, a, n, z)
        PROVE  BudgetInv'
    <2>1. PICK r : r = [Idle EXCEPT !.step = "write_proposal", !.actor = a, !.amount = n,
                                    !.isNull = z]
      OBVIOUS
    <2>2. call' = [call EXCEPT ![c] = r] /\ UNCHANGED rows /\ Cap' = Cap /\ overtaken' = overtaken
      BY <1>4, <2>1 DEF SubmitProposal, Begin, request, Cap
    <2>3. r.step = "write_proposal" /\ r.milestone = NoAmount
      BY <2>1 DEF Idle
    <2>4. QED
      BY <1>2, <2>2, <2>3
  <1>5. ASSUME NEW c \in Calls, NEW a \in Actors, NEW m \in Milestones, NEW n \in Amounts,
               CreateMilestone(c, a, m, n)
        PROVE  BudgetInv'
    <2>1. UNCHANGED rows /\ UNCHANGED request /\ amount[m] = NoAmount /\ overtaken' = overtaken
      BY <1>5 DEF CreateMilestone, Begin
    <2>2. Cap' = Cap /\ Existing' = Existing /\ Committed' = Committed
      BY <2>1, SameRows DEF Cap, request
    <2>3. PICK r : r = [Idle EXCEPT !.step = IF Cap = NoAmount THEN "insert" ELSE "sum",
                                    !.actor = a, !.milestone = m, !.amount = n, !.cap = Cap]
      OBVIOUS
    <2>4. call' = [call EXCEPT ![c] = r]
      BY <1>5, <2>3 DEF CreateMilestone, Begin
    <2>5. /\ r.step = IF Cap = NoAmount THEN "insert" ELSE "sum"
          /\ r.milestone = m /\ r.amount = n /\ r.cap = Cap
      BY <2>3 DEF Idle
    <2>6. m \in Milestones \ (Existing' \cup {NoAmount})
      <3>1. call[c] = Idle /\ call[c].milestone # m
        BY <1>5 DEF CreateMilestone, Begin
      <3>2. QED
        BY <2>1, <2>2, <3>1 DEF Existing, Idle
    <2>7. \A d \in Calls \ {c} : call[d].milestone # r.milestone
      BY <1>5, <2>5 DEF CreateMilestone
    <2>8. InsertsAreNew'
      <3>1. \A d \in Calls \ {c} : Inserting(d) => call[d].milestone \notin Existing'
        BY <1>0, <2>2 DEF InsertsAreNew
      <3>2. QED
        BY <1>0, <2>4, <2>5, <2>6, <2>7, <3>1, InsertsStayNew
    <2>9. InsertsFit'
      <3>1. Committed' \in Int /\ Committed' <= Committed
        BY <1>0, <2>2
      <3>2. \A d \in Calls \ {c} : d \notin overtaken' =>
              /\ d \notin overtaken /\ (Cap' = Cap \/ ~Inserting(d))
              /\ Committed' <= Committed \/ ~At(d, "insert")
        BY <2>1, <2>2, <3>1
      <3>3. r.cap = Cap' /\ (r.step = "insert" => Cap' = NoAmount)
        BY <2>2, <2>5
      <3>4. QED
        BY <1>0, <2>4, <3>1, <3>2, <3>3, InsertsStayFit
    <2>10. QED
      BY <2>1, <2>8, <2>9, SameRows DEF BudgetInv
  <1>6. ASSUME NEW c \in Calls, WriteStatus(c) \/ WriteProposal(c) PROVE BudgetInv'
    <2>1. UNCHANGED rows /\ call' = [call EXCEPT ![c] = Idle]
      BY <1>6 DEF WriteStatus, WriteProposal, Return
    <2>2. \A d \in Calls \ {c} : d \notin overtaken' =>
            d \notin overtaken /\ (Cap' = Cap \/ ~Inserting(d))
      <3>1. CASE WriteStatus(c)
        BY <3>1 DEF WriteStatus, Overtakes, Cap
      <3>2. CASE WriteProposal(c)
        BY <3>2 DEF WriteProposal, Overtakes, Inserting, At
      <3>3. QED
        BY <1>6, <3>1, <3>2
    <2>3. Idle.milestone = NoAmount /\ Idle.step = "idle"
      BY DEF Idle
    <2>4. QED
      BY <1>2, <2>1, <2>2, <2>3
  <1>7. ASSUME NEW c \in Calls, Sum(c) PROVE BudgetInv'
    <2>1. UNCHANGED rows /\ UNCHANGED request /\ Cap' = Cap
      BY <1>7 DEF Sum, Cap, request
    <2>2. CASE Committed + call[c].amount > call[c].cap
      <3>1. /\ call' = [call EXCEPT ![c] = Idle] /\ Idle.step = "idle" /\ Idle.milestone = NoAmount
            /\ \A d \in Calls \ {c} : d \notin overtaken' => d \notin overtaken
        BY <1>7, <2>2 DEF Sum, Return, Idle, Overtakes
      <3>2. QED
        BY <1>2, <2>1, <3>1
    <2>3. CASE ~(Committed + call[c].amount > call[c].cap)
      <3>1. /\ call[c].milestone \in Milestones \ (Existing \cup {NoAmount})
            /\ call[c].amount \in Amounts /\ (c \notin overtaken => call[c].cap = Cap)
            /\ \A d \in Calls \ {c} : call[d].milestone # call[c].milestone
        BY <1>0, <1>7 DEF Sum, InsertsAreNew, InsertsFit, Inserting
      <3>2. Cap # NoAmount => Cap \in Nat
        BY AmountAssumption DEF Cap, TypeOK
      <3>3. call[c].amount \in Nat
        BY <3>1, AmountAssumption
      <3>4. c \notin overtaken /\ Cap # NoAmount => Committed + call[c].amount <= Cap
        BY <1>0, <2>3, <3>1, <3>2, <3>3
      <3>5. PICK r : r = [call[c] EXCEPT !.step = "insert"]
        OBVIOUS
      <3>6. call' = [call EXCEPT ![c] = r] /\ overtaken' = overtaken
        BY <1>1, <1>7, <2>3, <3>5 DEF Sum
      <3>7. /\ r.step = "insert" /\ r.milestone = call[c].milestone
            /\ r.amount = call[c].amount /\ r.cap = call[c].cap
        BY <1>1, <3>5 DEF Call
      <3>8. Existing' = Existing /\ Committed' = Committed
        BY <2>1, SameRows
      <3>9. InsertsAreNew'
        <4>1. \A d \in Calls \ {c} : Inserting(d) => call[d].milestone \notin Existing'
          BY <1>0, <3>8 DEF InsertsAreNew
        <4>2. QED
          BY <1>0, <3>1, <3>6, <3>7, <3>8, <4>1, InsertsStayNew
      <3>10. InsertsFit'
        <4>1. Committed' \in Int /\ Committed' <= Committed
          BY <1>0, <3>8
        <4>2. \A d \in Calls \ {c} : d \notin overtaken' =>
                /\ d \notin overtaken /\ (Cap' = Cap \/ ~Inserting(d))
                /\ Committed' <= Committed \/ ~At(d, "insert")
          BY <2>1, <3>6, <4>1
        <4>3. c \notin overtaken' =>
                r.cap = Cap' /\ (Cap' # NoAmount => Committed' + r.amount <= Cap')
          BY <2>1, <3>1, <3>4, <3>6, <3>7, <3>8
        <4>4. QED
          BY <1>0, <3>6, <4>1, <4>2, <4>3, InsertsStayFit
      <3>11. QED
        BY <2>1, <3>9, <3>10, SameRows DEF BudgetInv
    <2>4. QED
      BY <2>2, <2>3
  <1>8. ASSUME NEW c \in Calls, Insert(c) PROVE BudgetInv'
    <2>1. /\ call' = [call EXCEPT ![c] = Idle] /\ Idle.step = "idle" /\ Idle.milestone = NoAmount
          /\ refunded' = refunded /\ Cap' = Cap /\ Inserting(c)
          /\ \A d \in Calls \ {c} : d \notin overtaken' => d \notin overtaken /\ ~At(d, "insert")
      BY <1>8 DEF Insert, Return, Idle, Overtakes, At, Inserting, Cap, request
    <2>2. Existing' = Existing \cup {call[c].milestone} /\ Committed' = Committed + call[c].amount
      BY <1>8, InsertCommits
    <2>3. InsertsAreNew'
      <3>1. \A d \in Calls \ {c} : Inserting(d) => call[d].milestone \notin Existing'
        BY <1>0, <2>1, <2>2 DEF InsertsAreNew
      <3>2. QED
        BY <1>0, <2>1, <3>1, InsertsStayNew
    <2>4. InsertsFit'
      <3>1. Committed' \in Int
        BY <1>0, <2>1, <2>2, AmountAssumption DEF InsertsAreNew
      <3>2. QED
        BY <1>0, <2>1, <3>1, InsertsStayFit
    <2>5. QED
      BY <1>8, <2>1, <2>3, <2>4, InsertCommits DEF BudgetInv
  <1>9. ASSUME NEW m \in Milestones, Refund(m) PROVE BudgetInv'
    <2>1. /\ UNCHANGED request /\ amount' = amount /\ call' = call /\ overtaken' = overtaken
          /\ refunded' = refunded \cup {m} /\ m \in Existing
      BY <1>9 DEF Refund, Existing
    <2>2. Existing' = Existing /\ Cap' = Cap
      BY <2>1 DEF Existing, Cap, request
    <2>3. Committed' <= Committed
      BY <1>0, <1>9, RefundFreesBudget
    <2>4. Committed' \in Int
      <3>1. PICK a, S : a = amount' /\ S = Standing'
        OBVIOUS
      <3>2. Committed' = SumOver(a, S)
        BY <3>1 DEF Committed, SumOver, MapThenSumSet, MapThenFoldSet
      <3>3. S \subseteq Existing /\ a = amount
        BY <2>1, <3>1 DEF Standing, Existing
      <3>4. IsFiniteSet(S) /\ \A x \in S : a[x] \in Int
        BY <1>0, <3>3, FS_Subset, CommittedIs
      <3>5. QED
        BY <3>2, <3>4, SumIsANumber
    <2>5. ASSUME NEW d \in Calls \ overtaken, At(d, "insert"), Cap # NoAmount
          PROVE  Committed' + call[d].amount <= Cap
      <3>1. Committed + call[d].amount <= Cap /\ call[d].amount \in Nat
        BY <1>0, <2>5, AmountAssumption DEF InsertsAreNew, InsertsFit, Inserting
      <3>2. Cap \in Nat
        BY <2>5, AmountAssumption DEF Cap, TypeOK
      <3>3. QED
        BY <1>0, <2>3, <2>4, <3>1, <3>2
    <2>6. InsertsFit'
      BY <1>0, <2>1, <2>2, <2>5 DEF InsertsFit, Inserting, At
    <2>7. InsertsAreNew'
      BY <1>0, <2>1, <2>2 DEF InsertsAreNew, Inserting, At
    <2>8. QED
      BY <2>1, <2>2, <2>6, <2>7 DEF BudgetInv
  <1>10. CASE UNCHANGED vars
    <2>1. UNCHANGED rows /\ call' = call /\ Cap' = Cap /\ overtaken' = overtaken
      BY <1>10 DEF vars, Cap, request
    <2>2. Existing' = Existing /\ Committed' = Committed
      BY <2>1, SameRows
    <2>3. InsertsFit' /\ InsertsAreNew'
      BY <1>0, <2>1, <2>2 DEF InsertsFit, InsertsAreNew, Inserting, At
    <2>4. QED
      BY <2>1, <2>3, SameRows DEF BudgetInv
  <1>11. QED
    BY <1>3, <1>4, <1>5, <1>6, <1>7, <1>8, <1>9, <1>10 DEF Next

\* Only an insert writes an amount, and what it writes was summed.
LEMMA StepFits ==
  ASSUME TypeOK, BudgetInv, [Next]_vars, amount' # amount, Cap' # NoAmount
  PROVE  Committed' <= Cap' \/ \E c \in overtaken : Writes(c)
  <1>1. PICK c \in Calls : Insert(c)
    BY DEF Next, UpdateStatus, SubmitProposal, CreateMilestone, WriteStatus, WriteProposal, Sum,
           Refund, vars, rows
  <1>2. Cap' = Cap
    BY <1>1 DEF Insert, Cap, request
  <1>3. CASE c \in overtaken
    BY <1>1, <1>3 DEF Insert, Writes, At
  <1>4. CASE c \notin overtaken
    <2>1. Committed + call[c].amount <= Cap
      BY <1>1, <1>2, <1>4 DEF Insert, BudgetInv, InsertsFit, Inserting
    <2>2. Committed' = Committed + call[c].amount
      BY <1>1, InsertCommits
    <2>3. QED
      BY <1>2, <2>1, <2>2
  <1>5. QED
    BY <1>3, <1>4

\* MilestoneFitsBudget: however the calls overlap, no milestone is added that takes the
\* sum of those that stand over what was agreed, unless its call was overtaken after it
\* had read the cap or the sum; for any amounts and any number of calls and milestones,
\* refunded ones freeing their share.
THEOREM MilestonesFitBudget == Spec => MilestoneFitsBudget
  <1>1. Init => BudgetInv
    <2> SUFFICES ASSUME Init PROVE BudgetInv
      OBVIOUS
    <2>1. Existing = {} /\ refunded = {}
      BY DEF Init, Existing
    <2>2. InsertsAreNew /\ InsertsFit
      BY DEF Init, InsertsAreNew, InsertsFit, Inserting, At, Idle
    <2>3. QED
      BY <2>1, <2>2, FS_EmptySet DEF BudgetInv
  <1>2. HInv /\ BudgetInv /\ [Next]_vars => BudgetInv'
    BY StepKeepsBudget DEF HInv
  <1>3. HInv /\ BudgetInv /\ [Next]_vars =>
          [amount' # amount /\ Cap' # NoAmount =>
             Committed' <= Cap' \/ \E c \in overtaken : Writes(c)]_vars
    BY StepFits DEF HInv
  <1>4. QED
    BY <1>1, <1>2, <1>3, HireInvariantHolds, PTL DEF Spec, MilestoneFitsBudget

-----------------------------------------------------------------------------
(* The pages: what they hold. *)

\* The handlers that send a call about a request.
Sending == {"status", "proposal", "milestone"}

Carries(w) ==
  /\ w.kind # "free" => viewer # None
  /\ w.kind = "milestone" => w.amount \in Amounts
  /\ w.step = "reply" => w.row # None
  /\ w.kind = "free" => w = Free

\* A call serves the one handler that waits for it.
ServesItsCall ==
  \A c \in Calls : serves[c] # 0 =>
    /\ call[c] # Idle
    /\ wire[serves[c]].step = "in"
    /\ wire[serves[c]].kind \in Sending
    /\ wire[serves[c]].kind = "milestone" <=> call[c].step \in {"sum", "insert"}
    /\ \A d \in Calls : serves[d] = serves[c] => c = d

\* A milestone is created with its amount, and stays.
CallsCarry ==
  \A c \in Calls : call[c].step \in {"sum", "insert"} =>
    call[c].amount \in Amounts /\ call[c].milestone \in Milestones

MineIsThere == \A m \in mine : amount[m] # NoAmount

NobodyLooks == viewer = None => place = "list" /\ ~going /\ copy = None

PagesTyped ==
  /\ HInv /\ PageTypeOK
  /\ \A i \in 1 .. MaxWork : Carries(wire[i])
  /\ ServesItsCall /\ CallsCarry /\ MineIsThere /\ NobodyLooks

\* A copy that no write came after is true, and what was offered on it is not refused.
Dated(w) ==
  /\ w.seen <= rev
  /\ w.step = "reply" /\ w.seen = rev => w.row.status = status
  /\ w.step = "out" /\ w.seen = rev =>
       /\ w.kind = "status" => Allowed(viewer, w.to)
       /\ w.kind = "milestone" => status \in Eligible

CopiesAreDated ==
  /\ copyRev <= rev /\ ownRev <= rev
  /\ copy # None /\ copyRev = rev => copy.status = status
  /\ \A i \in 1 .. MaxWork : Dated(wire[i])

\* A page loads before anything else runs on it, the list has no handler of the
\* panel, and the panel has one at a time.
Running(w) == w.kind # "free" /\ w.mounted

TakesTurns ==
  /\ \A i \in 1 .. MaxWork : Running(wire[i]) =>
       /\ wire[i].kind = "load" => copy = None
       /\ place = "form" => wire[i].kind = "ask"
       /\ place = "list" => wire[i].kind # "milestone"
       /\ place = "detail" => wire[i].kind = "load" \/ (wire[i].kind = "milestone" /\ busy = "submitting")
  /\ \A i, j \in 1 .. MaxWork :
       Running(wire[i]) /\ Running(wire[j]) /\ i # j => place # "detail" /\ wire[i].kind # "load"

\* The list will be told of the page's last write, or that it cannot rely on it.
Tells(w) == w.kind \in Sending /\ (w.mounted /\ w.step = "reply" => w.seen >= ownRev)
Told     == copyRev >= ownRev \/ behind \/ failed \/ \E i \in 1 .. MaxWork : Tells(wire[i])

ListIsTold ==
  place = "list" =>
    /\ copy # None => Told
    /\ \A i \in 1 .. MaxWork :
         wire[i].mounted /\ wire[i].step = "reply" => wire[i].seen >= ownRev \/ Told

\* The same of the panel and the milestones that it has created.
Lists(w) == w.kind \in Sending /\ (w.mounted /\ w.step = "reply" => mine \subseteq w.listed)
ToldMine == behind \/ failed \/ \E i \in 1 .. MaxWork : Lists(wire[i])

PanelIsTold ==
  place = "detail" =>
    /\ copy # None => mine \subseteq shown \/ ToldMine
    /\ \A i \in 1 .. MaxWork :
         wire[i].mounted /\ wire[i].step = "reply" => mine \subseteq wire[i].listed \/ ToldMine

PagesInv ==
  /\ PagesTyped /\ CopiesAreDated /\ ~surprised
  /\ TakesTurns /\ ListIsTold /\ PanelIsTold

-----------------------------------------------------------------------------
(* What the pages do to the wire. *)

LEMMA WorkFields ==
  ASSUME PageTypeOK, NEW i \in 1 .. MaxWork
  PROVE  wire[i] \in Work
  BY DEF PageTypeOK

LEMMA BecomeEffect ==
  ASSUME PageTypeOK, NEW i \in 1 .. MaxWork, NEW w, Become(i, w)
  PROVE  wire'[i] = w /\ \A j \in 1 .. MaxWork : j # i => wire'[j] = wire[j]
  BY DEF PageTypeOK, Become

LEMMA BecomeTyped ==
  ASSUME PageTypeOK, NEW i \in 1 .. MaxWork, NEW w \in Work, Become(i, w)
  PROVE  wire' \in [1 .. MaxWork -> Work]
  BY DEF PageTypeOK, Become

LEMMA FreeIsWork == Free \in Work
  BY DEF Free, Work, Kinds, Row, Status

LEMMA StartFields ==
  ASSUME NEW kind, NEW step
  PROVE  /\ Start(kind, step).kind = kind /\ Start(kind, step).step = step
         /\ Start(kind, step).mounted /\ Start(kind, step).seen = copyRev
         /\ copyRev \in Nat /\ kind \in Kinds
            /\ step \in {"inquire", "thread", "create", "out", "in", "done", "lost", "again", "reply"}
            => Start(kind, step) \in Work
  BY FreeIsWork DEF Start, Free, Work

\* A handler that moves on is otherwise what it was.
SameAs(v, w) ==
  /\ w.kind = v.kind /\ w.to = v.to /\ w.amount = v.amount /\ w.isNull = v.isNull
  /\ w.row = v.row /\ w.listed = v.listed /\ w.seen = v.seen

Moved(v, w, s) == SameAs(v, w) /\ w.mounted = v.mounted /\ w.step = s

LEMMA StepMoves ==
  ASSUME NEW v \in Work, NEW s \in {"inquire", "thread", "create", "out", "in", "done", "lost", "again", "reply"}
  PROVE  [v EXCEPT !.step = s] \in Work /\ Moved(v, [v EXCEPT !.step = s], s)
  BY DEF Work, Moved, SameAs

LEMMA ToStepMoves ==
  ASSUME PageTypeOK, NEW i \in 1 .. MaxWork,
         NEW s \in {"inquire", "thread", "create", "out", "in", "done", "lost", "again", "reply"}, ToStep(i, s)
  PROVE  /\ wire' \in [1 .. MaxWork -> Work] /\ Moved(wire[i], wire'[i], s)
         /\ \A j \in 1 .. MaxWork : j # i => wire'[j] = wire[j]
  <1> DEFINE w == [wire[i] EXCEPT !.step = s]
  <1>1. w \in Work /\ Moved(wire[i], w, s)
    BY WorkFields, StepMoves
  <1>2. Become(i, w)
    BY DEF ToStep
  <1> HIDE DEF w
  <1>3. QED
    BY <1>1, <1>2, BecomeEffect, BecomeTyped

\* The answer to a call moves the handler that the call serves, if any.
LEMMA SettleMoves ==
  ASSUME PageTypeOK, NEW c \in Calls, NEW s \in {"done", "lost"}, Settle(c, s)
  PROVE  /\ wire' \in [1 .. MaxWork -> Work]
         /\ serves' \in [Calls -> 0 .. MaxWork] /\ serves'[c] = 0
         /\ \A d \in Calls : d # c => serves'[d] = serves[d]
         /\ \A j \in 1 .. MaxWork :
              IF serves[c] = j THEN Moved(wire[j], wire'[j], s) ELSE wire'[j] = wire[j]
  <1>1. serves \in [Calls -> 0 .. MaxWork] /\ MaxWork \in Nat
    BY HirePagesAssumption DEF PageTypeOK
  <1>2. /\ serves' \in [Calls -> 0 .. MaxWork] /\ serves'[c] = 0
        /\ \A d \in Calls : d # c => serves'[d] = serves[d]
    BY <1>1 DEF Settle
  <1>3. CASE serves[c] = 0
    BY <1>2, <1>3 DEF Settle, PageTypeOK
  <1>4. CASE serves[c] # 0
    <2> DEFINE w == [wire[serves[c]] EXCEPT !.step = s]
    <2>1. serves[c] \in 1 .. MaxWork
      BY <1>1, <1>4
    <2>2. w \in Work /\ Moved(wire[serves[c]], w, s)
      BY <2>1, WorkFields, StepMoves
    <2>3. wire' = [wire EXCEPT ![serves[c]] = w]
      BY <1>4 DEF Settle
    <2> HIDE DEF w
    <2>4. QED
      BY <1>2, <2>1, <2>2, <2>3 DEF PageTypeOK
  <1>5. QED
    BY <1>3, <1>4

\* A handler starts in a slot that was free.
LEMMA HandlerStarts ==
  ASSUME PageTypeOK, NEW b \in Buttons, NEW w \in Work, Handler(b, w)
  PROVE  \E i \in 1 .. MaxWork :
           /\ wire[i] = Free /\ Become(i, w) /\ wire'[i] = w
           /\ \A j \in 1 .. MaxWork : j # i => wire'[j] = wire[j]
           /\ wire' \in [1 .. MaxWork -> Work]
  <1>1. PICK i \in 1 .. MaxWork : Lowest(i) /\ Become(i, w)
    BY DEF Handler
  <1>2. QED
    BY <1>1, BecomeEffect, BecomeTyped DEF Lowest

\* A page that is left has nothing mounted but the load of the next one.
LEMMA ShowMoves ==
  ASSUME PageTypeOK, NEW d, NEW p, Show(d, p)
  PROVE  /\ wire' \in [1 .. MaxWork -> Work]
         /\ \E i \in 1 .. MaxWork :
              /\ wire[i] = Free /\ wire'[i] = Start("load", "again")
              /\ \A j \in 1 .. MaxWork : j # i =>
                   /\ SameAs(wire[j], wire'[j]) /\ wire'[j].step = wire[j].step
                   /\ wire'[j].mounted => wire[j] = Free
                   /\ wire[j] = Free => wire'[j] = Free
  <1>0. copyRev \in Nat /\ Start("load", "again") \in Work
    BY StartFields DEF PageTypeOK, Kinds
  <1>1. PICK i \in 1 .. MaxWork :
          /\ Lowest(i)
          /\ wire' = [j \in 1 .. MaxWork |->
                        IF j = i THEN Start("load", "again")
                        ELSE [wire[j] EXCEPT !.mounted = wire[j] = Free]]
    BY Zenon DEF Show
  <1>2. ASSUME NEW j \in 1 .. MaxWork, j # i
        PROVE  /\ wire'[j] \in Work
               /\ SameAs(wire[j], wire'[j]) /\ wire'[j].step = wire[j].step
               /\ wire'[j].mounted => wire[j] = Free
               /\ wire[j] = Free => wire'[j] = Free
    <2> DEFINE b == (wire[j] = Free)
               w == [wire[j] EXCEPT !.mounted = b]
    <2>1. wire'[j] = w
      BY <1>1, <1>2
    <2>2. w \in Work /\ w.mounted = b /\ w.step = wire[j].step /\ SameAs(wire[j], w)
      BY WorkFields DEF Work, SameAs
    <2>3. wire[j] = Free => w = Free
      <3>1. [Free EXCEPT !.mounted = TRUE] = Free
        <4>1. [Free EXCEPT !.mounted = Free.mounted] = Free /\ Free.mounted = TRUE
          BY DEF Free
        <4>2. QED
          BY <4>1
      <3>2. wire[j] = Free => b = TRUE
        OBVIOUS
      <3>3. QED
        BY <3>1, <3>2
    <2>4. QED
      BY <2>1, <2>2, <2>3
  <1>3. wire[i] = Free /\ wire'[i] = Start("load", "again")
    BY <1>1 DEF Lowest
  <1>4. wire' \in [1 .. MaxWork -> Work]
    <2>1. \A j \in 1 .. MaxWork : wire'[j] \in Work
      BY <1>0, <1>2, <1>3
    <2>2. QED
      BY <1>1, <2>1
  <1>5. QED
    BY <1>2, <1>3, <1>4

-----------------------------------------------------------------------------
(* The pages make the calls that anybody may make. *)

\* A call that is passed on is one that HireRequest lets whoever has the page
\* open make.
LEMMA AcceptCalls ==
  ASSUME PagesTyped, NEW i \in 1 .. MaxWork, NEW c \in Calls, Accept(i, c)
  PROVE  /\ Next
         /\ wire[i].kind \in Sending /\ wire[i].step = "out" /\ call[c] = Idle
         /\ \E r \in Call :
              /\ call' = [call EXCEPT ![c] = r] /\ r # Idle
              /\ wire[i].kind = "milestone" <=> r.step \in {"sum", "insert"}
         /\ UNCHANGED <<request, rows>>
  <1>0. /\ wire[i] \in Work /\ wire[i].to \in Status /\ wire[i].amount \in Amounts \cup {NoAmount}
        /\ wire[i].isNull \in BOOLEAN
        /\ wire[i].kind = "milestone" => wire[i].amount \in Amounts
        /\ wire[i].kind # "free" => viewer \in Actors
    BY WorkFields DEF PagesTyped, Carries, PageTypeOK, Work, Actors
  <1>1. CASE wire[i].kind = "status" /\ UpdateStatus(c, viewer, wire[i].to)
    <2> DEFINE r == [Idle EXCEPT !.step = "write_status", !.actor = viewer, !.to = wire[i].to]
    <2>1. r \in Call /\ r.step = "write_status" /\ Idle.step = "idle"
      BY <1>0, <1>1, IdleIsCall DEF Idle, Call
    <2>2. call' = [call EXCEPT ![c] = r] /\ call[c] = Idle /\ UNCHANGED <<request, rows>>
      BY <1>1 DEF UpdateStatus, Begin
    <2> HIDE DEF r
    <2>3. Next
      BY <1>0, <1>1 DEF Next
    <2>4. r # Idle
      BY <2>1
    <2>5. QED
      BY <1>1, <2>1, <2>2, <2>3, <2>4 DEF Accept, Sending
  <1>2. CASE wire[i].kind = "proposal" /\ SubmitProposal(c, viewer, wire[i].amount, wire[i].isNull)
    <2> DEFINE r == [Idle EXCEPT !.step = "write_proposal", !.actor = viewer, !.amount = wire[i].amount,
                                 !.isNull = wire[i].isNull]
    <2>1. r \in Call /\ r.step = "write_proposal" /\ Idle.step = "idle"
      BY <1>0, <1>2, IdleIsCall DEF Idle, Call
    <2>2. call' = [call EXCEPT ![c] = r] /\ call[c] = Idle /\ UNCHANGED <<request, rows>>
      BY <1>2 DEF SubmitProposal, Begin
    <2> HIDE DEF r
    <2>3. Next
      BY <1>0, <1>2 DEF Next
    <2>4. r # Idle
      BY <2>1
    <2>5. QED
      BY <1>2, <2>1, <2>2, <2>3, <2>4 DEF Accept, Sending
  <1>3. ASSUME NEW m \in Milestones, wire[i].kind = "milestone", CreateMilestone(c, viewer, m, wire[i].amount)
        PROVE  /\ Next /\ call[c] = Idle /\ UNCHANGED <<request, rows>>
               /\ \E r \in Call :
                    /\ call' = [call EXCEPT ![c] = r] /\ r # Idle
                    /\ r.step \in {"sum", "insert"}
    <2> DEFINE s == IF Cap = NoAmount THEN "insert" ELSE "sum"
               r == [Idle EXCEPT !.step = s, !.actor = viewer, !.milestone = m,
                                 !.amount = wire[i].amount, !.cap = Cap]
    <2>1. Cap \in Amounts \cup {NoAmount} /\ s \in {"insert", "sum"}
      BY DEF Cap, PagesTyped, HInv, TypeOK
    <2> HIDE DEF s
    <2>2. r \in Call /\ r.step = s /\ Idle.step = "idle"
      BY <1>0, <1>3, <2>1, IdleIsCall DEF Idle, Call
    <2>3. call' = [call EXCEPT ![c] = r] /\ call[c] = Idle /\ UNCHANGED <<request, rows>>
      BY <1>3 DEF CreateMilestone, Begin, s
    <2> HIDE DEF r
    <2>4. Next
      BY <1>0, <1>3 DEF Next
    <2>5. r # Idle
      BY <2>1, <2>2
    <2>6. QED
      BY <1>0, <1>3, <2>1, <2>2, <2>3, <2>4, <2>5
  <1>4. CASE wire[i].kind = "milestone" /\ \E m \in Milestones : CreateMilestone(c, viewer, m, wire[i].amount)
    BY <1>3, <1>4 DEF Accept, Sending
  <1>5. QED
    BY <1>1, <1>2, <1>4 DEF Accept

LEMMA PagesStepIsHireStep ==
  ASSUME PagesTyped, [PagesNext]_all
  PROVE  [Next]_vars
  <1>1. CASE Submit \/ Arrive \/ OpenRequest \/ BackToList \/ ToggleForm
    <2>1. UNCHANGED vars
      BY Zenon, <1>1 DEF Submit, Arrive, OpenRequest, BackToList, ToggleForm, Handler, Show
    <2>2. QED
      BY <2>1
  <1>2. CASE \/ \E to \in Status : MutateStatus(to)
             \/ \E n \in Amounts \cup {NoAmount}, z \in BOOLEAN : SubmitForm(n, z)
             \/ \E n \in Amounts : CreateForm(n)
    <2>1. UNCHANGED vars
      BY Zenon, <1>2 DEF MutateStatus, SubmitForm, CreateForm, Handler
    <2>2. QED
      BY <2>1
  <1>3. ASSUME NEW i \in 1 .. MaxWork,
               Ask(i) \/ Announce(i) \/ Refuse(i) \/ Answer(i) \/ Done(i) \/ TakeReply(i) \/ Lose(i) \/ Catch(i)
        PROVE  UNCHANGED vars
    BY <1>3 DEF Ask, Announce, Refuse, Answer, Done, TakeReply, Lose, Catch
  <1>4. ASSUME NEW i \in 1 .. MaxWork, NEW c \in Calls, Accept(i, c)
        PROVE  Next
    BY <1>4, AcceptCalls
  <1>5. ASSUME NEW c \in Calls, Direct(c) \/ WriteRow(c) \/ SumUp(c) \/ InsertRow(c)
        PROVE  Next
    BY <1>5 DEF Direct, WriteRow, SumUp, InsertRow, Next
  <1>6. ASSUME NEW m \in Milestones, Refunded(m)
        PROVE  Next
    BY <1>6 DEF Refunded, Next
  <1>7. CASE UNCHANGED all
    BY <1>7 DEF all
  <1>8. QED
    BY <1>1, <1>2, <1>3, <1>4, <1>5, <1>6, <1>7 DEF PagesNext

-----------------------------------------------------------------------------
(* What each step keeps of the types, and of the calls. *)

LEMMA StepKeepsCallsCarry ==
  ASSUME TypeOK, CallsCarry, [Next]_vars
  PROVE  CallsCarry'
  <1>0. call \in [Calls -> Call]
    BY DEF TypeOK
  <1>1. ASSUME NEW c \in Calls, NEW r, call' = [call EXCEPT ![c] = r],
               r.step \in {"sum", "insert"} => r.amount \in Amounts /\ r.milestone \in Milestones
        PROVE  CallsCarry'
    BY <1>0, <1>1 DEF CallsCarry
  <1>2. ASSUME NEW c \in Calls, NEW a \in Actors, NEW to \in Status, UpdateStatus(c, a, to)
        PROVE  CallsCarry'
    <2> DEFINE r == [Idle EXCEPT !.step = "write_status", !.actor = a, !.to = to]
    <2>1. r.step = "write_status" /\ call' = [call EXCEPT ![c] = r]
      BY <1>2 DEF UpdateStatus, Begin, Idle
    <2> HIDE DEF r
    <2>2. QED
      BY <1>1, <2>1
  <1>3. ASSUME NEW c \in Calls, NEW a \in Actors, NEW n \in Amounts \cup {NoAmount},
               NEW z \in BOOLEAN, SubmitProposal(c, a, n, z)
        PROVE  CallsCarry'
    <2> DEFINE r == [Idle EXCEPT !.step = "write_proposal", !.actor = a, !.amount = n, !.isNull = z]
    <2>1. r.step = "write_proposal" /\ call' = [call EXCEPT ![c] = r]
      BY <1>3 DEF SubmitProposal, Begin, Idle
    <2> HIDE DEF r
    <2>2. QED
      BY <1>1, <2>1
  <1>4. ASSUME NEW c \in Calls, NEW a \in Actors, NEW m \in Milestones, NEW n \in Amounts,
               CreateMilestone(c, a, m, n)
        PROVE  CallsCarry'
    <2> DEFINE r == [Idle EXCEPT !.step = IF Cap = NoAmount THEN "insert" ELSE "sum",
                                 !.actor = a, !.milestone = m, !.amount = n, !.cap = Cap]
    <2>1. r.amount = n /\ r.milestone = m /\ call' = [call EXCEPT ![c] = r]
      BY <1>4 DEF CreateMilestone, Begin, Idle
    <2> HIDE DEF r
    <2>2. QED
      BY <1>1, <2>1
  <1>5. ASSUME NEW c \in Calls, WriteStatus(c) \/ WriteProposal(c) \/ Insert(c) \/ Return(c)
        PROVE  CallsCarry'
    <2>1. call' = [call EXCEPT ![c] = Idle] /\ Idle.step = "idle"
      BY <1>5 DEF WriteStatus, WriteProposal, Insert, Return, Idle
    <2>2. QED
      BY <1>1, <2>1
  <1>6. ASSUME NEW c \in Calls, Sum(c)  PROVE CallsCarry'
    <2>1. CASE call' = [call EXCEPT ![c].step = "insert"]
      <3> DEFINE r == [call[c] EXCEPT !.step = "insert"]
      <3>1. r.amount = call[c].amount /\ r.milestone = call[c].milestone /\ call' = [call EXCEPT ![c] = r]
        BY <1>0, <2>1 DEF Call
      <3>2. call[c].amount \in Amounts /\ call[c].milestone \in Milestones
        BY <1>6 DEF Sum, At, CallsCarry
      <3> HIDE DEF r
      <3>3. QED
        BY <1>1, <3>1, <3>2
    <2>2. QED
      BY <1>5, <1>6, <2>1 DEF Sum
  <1>7. CASE (\E m \in Milestones : Refund(m)) \/ UNCHANGED vars
    BY <1>7 DEF Refund, vars, CallsCarry
  <1>8. QED
    BY <1>2, <1>3, <1>4, <1>5, <1>6, <1>7 DEF Next

\* The buttons start a handler of their page, on the copy that it shows.
Pressed(w) ==
  /\ w \in Work /\ w.mounted /\ w.seen = copyRev /\ viewer # None
  /\ w.kind \in {"ask", "status", "proposal", "milestone"} /\ w.step \in {"inquire", "out"}
  /\ w.kind # "ask" => copy # None /\ w.step = "out"
  /\ place = "form" => w.kind = "ask"
  /\ place = "list" => w.kind \in {"status", "proposal"}
  /\ place = "detail" => w.kind = "milestone" /\ busy = None
  /\ w.kind = "status" => w.to \in Offers
  /\ w.kind = "milestone" => w.amount \in Amounts /\ copy.status \in Eligible

Press ==
  \/ Submit
  \/ \E to \in Status : MutateStatus(to)
  \/ \E n \in Amounts \cup {NoAmount}, z \in BOOLEAN : (z => n = NoAmount) /\ SubmitForm(n, z)
  \/ \E n \in Amounts : CreateForm(n)

LEMMA PressStarts ==
  ASSUME PagesTyped, Press
  PROVE  \E b \in Buttons, w \in Work :
           Handler(b, w) /\ Pressed(w) /\ (place = "detail" => b = "submitting")
  <1>0. copyRev \in Nat /\ Kinds = {"free", "ask", "load", "status", "proposal", "milestone"}
    BY DEF PagesTyped, PageTypeOK, Kinds
  <1>1. CASE Submit
    <2>1. Start("ask", "inquire") \in Work
      BY <1>0, StartFields
    <2>2. viewer # None
      BY <1>1 DEF Submit, PagesTyped, NobodyLooks
    <2>3. QED
      BY <1>1, <2>1, <2>2, StartFields DEF Submit, Pressed, Buttons
  <1>2. ASSUME NEW to \in Status, MutateStatus(to)
        PROVE  \E b \in Buttons, w \in Work :
                 Handler(b, w) /\ Pressed(w) /\ (place = "detail" => b = "submitting")
    <2> DEFINE v == Start("status", "out")
               w == [v EXCEPT !.to = to]
    <2>1. v \in Work /\ v.kind = "status" /\ v.step = "out" /\ v.mounted /\ v.seen = copyRev
      BY <1>0, StartFields
    <2> HIDE DEF v
    <2>2. w \in Work /\ w.kind = "status" /\ w.step = "out" /\ w.mounted /\ w.seen = copyRev /\ w.to = to
      BY <2>1 DEF Work
    <2>3. Handler(to, w) /\ place = "list" /\ copy # None /\ to \in Offers
      BY <1>2 DEF MutateStatus, v
    <2> HIDE DEF w
    <2>4. viewer # None
      BY <2>3 DEF PagesTyped, NobodyLooks
    <2>5. Pressed(w) /\ to \in Buttons
      BY <2>2, <2>3, <2>4 DEF Pressed, Buttons
    <2>6. QED
      BY <2>2, <2>3, <2>5
  <1>3. ASSUME NEW n \in Amounts \cup {NoAmount}, NEW z \in BOOLEAN, SubmitForm(n, z)
        PROVE  \E b \in Buttons, w \in Work :
                 Handler(b, w) /\ Pressed(w) /\ (place = "detail" => b = "submitting")
    <2> DEFINE v == Start("proposal", "out")
               w == [v EXCEPT !.amount = n, !.isNull = z]
    <2>1. v \in Work /\ v.kind = "proposal" /\ v.step = "out" /\ v.mounted /\ v.seen = copyRev
      BY <1>0, StartFields
    <2> HIDE DEF v
    <2>2. w \in Work /\ w.kind = "proposal" /\ w.step = "out" /\ w.mounted /\ w.seen = copyRev
      BY <2>1 DEF Work
    <2>3. Handler("PROPOSAL", w) /\ place = "list" /\ copy # None
      BY <1>3 DEF SubmitForm, v
    <2> HIDE DEF w
    <2>4. viewer # None
      BY <2>3 DEF PagesTyped, NobodyLooks
    <2>5. Pressed(w) /\ "PROPOSAL" \in Buttons
      BY <2>2, <2>3, <2>4 DEF Pressed, Buttons
    <2>6. QED
      BY <2>2, <2>3, <2>5
  <1>4. ASSUME NEW n \in Amounts, CreateForm(n)
        PROVE  \E b \in Buttons, w \in Work :
                 Handler(b, w) /\ Pressed(w) /\ (place = "detail" => b = "submitting")
    <2> DEFINE v == Start("milestone", "out")
               w == [v EXCEPT !.amount = n]
    <2>1. v \in Work /\ v.kind = "milestone" /\ v.step = "out" /\ v.mounted /\ v.seen = copyRev
      BY <1>0, StartFields
    <2> HIDE DEF v
    <2>2. w \in Work /\ w.kind = "milestone" /\ w.step = "out" /\ w.mounted /\ w.seen = copyRev /\ w.amount = n
      BY <2>1 DEF Work
    <2>3. Handler("submitting", w) /\ place = "detail" /\ copy # None /\ copy.status \in Eligible /\ busy = None
      BY <1>4 DEF CreateForm, v
    <2> HIDE DEF w
    <2>4. viewer # None
      BY <2>3 DEF PagesTyped, NobodyLooks
    <2>5. Pressed(w) /\ "submitting" \in Buttons
      BY <2>2, <2>3, <2>4 DEF Pressed, Buttons
    <2>6. QED
      BY <2>2, <2>3, <2>5
  <1>5. QED
    BY <1>1, <1>2, <1>3, <1>4 DEF Press

-----------------------------------------------------------------------------
(* The types, and what handlers and calls carry. *)

LEMMA ServesOn ==
  ASSUME PagesTyped, UNCHANGED serves, \A c \in Calls : serves[c] # 0 => call'[c] = call[c],
         \A j \in 1 .. MaxWork : wire[j].step = "in" => wire'[j].step = "in" /\ wire'[j].kind = wire[j].kind
  PROVE  ServesItsCall'
  <1>1. \A c \in Calls : serves[c] # 0 => serves[c] \in 1 .. MaxWork
    BY HirePagesAssumption DEF PagesTyped, PageTypeOK
  <1>2. QED
    BY <1>1 DEF PagesTyped, ServesItsCall

\* A step of the pages that leaves the request alone.
LEMMA QuietTyped ==
  ASSUME PagesTyped, UNCHANGED vars, UNCHANGED <<viewer, serves, mine>>, PageTypeOK',
         \A j \in 1 .. MaxWork :
           \/ wire'[j] = wire[j]
           \/ wire[j].step # "in" /\ Carries(wire'[j]),
         going' => viewer # None, place' # "list" => viewer # None, copy' # None => viewer # None
  PROVE  PagesTyped'
  <1>1. HInv' /\ CallsCarry' /\ MineIsThere' /\ NobodyLooks'
    <2>1. HInv' /\ CallsCarry'
      BY StepKeepsHInv, StepKeepsCallsCarry DEF PagesTyped, HInv
    <2>2. MineIsThere'
      BY DEF PagesTyped, MineIsThere, vars, rows
    <2>3. NobodyLooks'
      BY DEF PageTypeOK, NobodyLooks
    <2>4. QED
      BY <2>1, <2>2, <2>3
  <1>2. ServesItsCall'
    BY ServesOn DEF vars
  <1>3. (\A j \in 1 .. MaxWork : Carries(wire[j]))'
    BY DEF PagesTyped, Carries
  <1>4. QED
    BY <1>1, <1>2, <1>3 DEF PagesTyped

LEMMA PressTyped ==
  ASSUME PagesTyped, Press
  PROVE  PagesTyped'
  <1>1. PICK b \in Buttons, w \in Work : Handler(b, w) /\ Pressed(w)
    BY PressStarts
  <1>2. PICK i \in 1 .. MaxWork :
          /\ wire[i] = Free /\ wire'[i] = w
          /\ \A j \in 1 .. MaxWork : j # i => wire'[j] = wire[j]
          /\ wire' \in [1 .. MaxWork -> Work]
    BY <1>1, HandlerStarts DEF PagesTyped
  <1>3. UNCHANGED vars /\ UNCHANGED <<viewer, place, going, asked, copy, shown, open, serves>>
        /\ UNCHANGED <<rev, copyRev, ownRev, mine, behind, surprised>>
    BY <1>1 DEF Handler, history
  <1>4. moves' \in 0 .. MaxMoves /\ faults' = faults /\ busy' = b /\ failed' = FALSE
    BY <1>1, HirePagesAssumption DEF Handler, Click, PagesTyped, PageTypeOK
  <1>5. PageTypeOK'
    BY <1>2, <1>3, <1>4 DEF PagesTyped, PageTypeOK
  <1>6. Carries(w) /\ wire[i].step # "in"
    BY <1>1, <1>2 DEF Pressed, Carries, Free
  <1>7. QED
    BY <1>2, <1>3, <1>5, <1>6, QuietTyped DEF PagesTyped, NobodyLooks

LEMMA LeaveTyped ==
  ASSUME PagesTyped, Arrive \/ OpenRequest \/ BackToList
  PROVE  PagesTyped'
  <1>1. PICK d \in {"list", "detail"}, p \in BOOLEAN :
          Show(d, p) /\ UNCHANGED counts /\ (p => going) /\ viewer # None
    <2>1. going \in BOOLEAN
      BY DEF PagesTyped, PageTypeOK
    <2>2. QED
      BY <2>1, Zenon DEF Arrive, OpenRequest, BackToList, PagesTyped, NobodyLooks
  <1>2. /\ UNCHANGED vars /\ UNCHANGED <<viewer, asked, serves, rev, copyRev, ownRev, mine, behind, surprised>>
        /\ place' = d /\ going' = p /\ copy' = None /\ shown' = {} /\ open' = FALSE /\ busy' = None /\ failed' = FALSE
    BY <1>1, Zenon DEF Show, history
  <1>3. PICK i \in 1 .. MaxWork :
          /\ wire[i] = Free /\ wire'[i] = Start("load", "again")
          /\ \A j \in 1 .. MaxWork : j # i =>
               /\ SameAs(wire[j], wire'[j]) /\ wire'[j].step = wire[j].step
               /\ wire'[j].mounted => wire[j] = Free
               /\ wire[j] = Free => wire'[j] = Free
    BY <1>1, ShowMoves DEF PagesTyped
  <1>4. wire' \in [1 .. MaxWork -> Work]
    BY <1>1, ShowMoves DEF PagesTyped
  <1>5. PageTypeOK'
    BY <1>1, <1>2, <1>4 DEF PagesTyped, PageTypeOK, counts, Places, Buttons
  <1>6. Carries(Start("load", "again")) /\ Start("load", "again").step # "in" /\ wire[i].step # "in"
    BY <1>1, <1>3, StartFields DEF Carries, Free
  <1>7. (\A j \in 1 .. MaxWork : Carries(wire[j]))'
    BY <1>2, <1>3, <1>6 DEF PagesTyped, Carries, SameAs
  <1>8. HInv' /\ CallsCarry' /\ MineIsThere' /\ NobodyLooks'
    <2>1. HInv' /\ CallsCarry'
      BY <1>2, StepKeepsHInv, StepKeepsCallsCarry DEF PagesTyped, HInv
    <2>2. MineIsThere' /\ NobodyLooks'
      BY <1>1, <1>2 DEF PagesTyped, MineIsThere, NobodyLooks, vars, rows
    <2>3. QED
      BY <2>1, <2>2
  <1>9. ServesItsCall'
    BY <1>2, <1>3, <1>6, ServesOn DEF SameAs, vars
  <1>10. QED
    BY <1>5, <1>7, <1>8, <1>9 DEF PagesTyped

LEMMA MovedCarries ==
  ASSUME NEW v, NEW w, NEW s, Moved(v, w, s), Carries(v), v.kind # "free", s # "reply"
  PROVE  Carries(w)
  BY DEF Moved, SameAs, Carries

\* The steps of a handler that is not waiting for its call.
Own(i) == Ask(i) \/ Announce(i) \/ Refuse(i) \/ Answer(i) \/ Done(i) \/ TakeReply(i) \/ Lose(i) \/ Catch(i)

LEMMA OwnTyped ==
  ASSUME PagesTyped, NEW i \in 1 .. MaxWork, Own(i)
  PROVE  PagesTyped'
  <1>0. /\ wire[i] \in Work /\ Carries(wire[i]) /\ Carries(Free) /\ Free \in Work
        /\ wire[i].kind # "free" => viewer # None
    BY WorkFields, FreeIsWork DEF PagesTyped, Carries, Free
  <1>1. ASSUME NEW s \in {"thread", "create", "done", "lost", "again"}, ToStep(i, s),
               wire[i].kind # "free", wire[i].step # "in", UNCHANGED vars, UNCHANGED <<viewer, serves, mine, going, place, copy>>,
               asked' \in Asked, shown' = shown, open' \in BOOLEAN, busy' = busy, failed' = failed,
               moves' = moves, faults' \in 0 .. MaxFaults, UNCHANGED <<rev, copyRev, ownRev, behind>>, surprised' \in BOOLEAN
        PROVE  PagesTyped'
    <2>1. /\ wire' \in [1 .. MaxWork -> Work] /\ Carries(wire'[i])
          /\ \A j \in 1 .. MaxWork : j # i => wire'[j] = wire[j]
      BY <1>0, <1>1, ToStepMoves, MovedCarries DEF PagesTyped
    <2>2. PageTypeOK'
      BY <1>1, <2>1 DEF PagesTyped, PageTypeOK
    <2>3. QED
      BY <1>1, <2>1, <2>2, QuietTyped DEF PagesTyped, NobodyLooks
  <1>2. CASE Ask(i)
    <2>1. asked' \in Asked
      BY <1>2 DEF Ask, Asked, Leaves, PagesTyped, PageTypeOK
    <2>2. PICK s \in {"thread", "create", "done"} : ToStep(i, s)
      BY <1>2 DEF Ask, NextStep
    <2>3. QED
      BY <1>1, <1>2, <2>1, <2>2 DEF Ask, counts, history, PagesTyped, PageTypeOK
  <1>3. CASE Refuse(i)
    BY <1>1, <1>3 DEF Refuse, Refusal, IsAt, page, counts, PagesTyped, PageTypeOK
  <1>4. CASE Done(i)
    BY <1>1, <1>4 DEF Done, IsAt, counts, history, PagesTyped, PageTypeOK
  <1>5. CASE Lose(i)
    <2>1. wire[i].kind # "free"
      BY <1>0, <1>5 DEF Lose, Carries
    <2>2. QED
      BY <1>1, <1>5, <2>1, HirePagesAssumption DEF Lose, page, history, PagesTyped, PageTypeOK
  <1>6. CASE Answer(i)
    <2> DEFINE w == [wire[i] EXCEPT !.step = "reply", !.row = [status |-> status, proposal |-> proposal],
                                    !.listed = {m \in Milestones : amount[m] # NoAmount}, !.seen = rev]
    <2>1. [status |-> status, proposal |-> proposal] \in Row \cup {None} /\ rev \in Nat
      BY DEF PagesTyped, PageTypeOK, HInv, TypeOK, Row
    <2>2. /\ w \in Work /\ w.kind = wire[i].kind /\ w.amount = wire[i].amount
          /\ w.row = [status |-> status, proposal |-> proposal]
      BY <1>0, <2>1 DEF Work
    <2>3. [status |-> status, proposal |-> proposal] # None
      BY HirePagesAssumption DEF PagesTyped, HInv, TypeOK
    <2>4. Become(i, w) /\ wire[i].step = "again" /\ UNCHANGED <<vars, page, serves, counts, history>>
      BY <1>6 DEF Answer
    <2> HIDE DEF w
    <2>5. wire[i].kind # "free"
      BY <1>0, <2>4 DEF Carries, Free
    <2>6. Carries(w)
      BY <1>0, <2>2, <2>3, <2>5 DEF Carries
    <2>7. wire'[i] = w /\ (\A j \in 1 .. MaxWork : j # i => wire'[j] = wire[j]) /\ wire' \in [1 .. MaxWork -> Work]
      BY <2>2, <2>4, BecomeEffect, BecomeTyped DEF PagesTyped
    <2>8. PageTypeOK'
      BY <2>4, <2>7 DEF PagesTyped, PageTypeOK, page, counts, history
    <2>9. QED
      BY <2>4, <2>6, <2>7, <2>8, QuietTyped DEF PagesTyped, NobodyLooks, page, history
  <1>7. ASSUME Become(i, Free), UNCHANGED vars, UNCHANGED <<viewer, serves, mine, place, asked, moves, faults, rev, ownRev>>,
               wire[i].step # "in", going' => viewer # None, copy' # None => viewer # None, going' \in BOOLEAN,
               copy' \in Row \cup {None}, shown' \in SUBSET Milestones, open' \in BOOLEAN, busy' \in Buttons,
               failed' \in BOOLEAN, copyRev' \in Nat, behind' \in BOOLEAN, surprised' \in BOOLEAN
        PROVE  PagesTyped'
    <2>1. /\ wire' \in [1 .. MaxWork -> Work] /\ wire'[i] = Free
          /\ \A j \in 1 .. MaxWork : j # i => wire'[j] = wire[j]
      BY <1>0, <1>7, BecomeEffect, BecomeTyped DEF PagesTyped
    <2>2. PageTypeOK'
      BY <1>7, <2>1 DEF PagesTyped, PageTypeOK
    <2>3. QED
      BY <1>0, <1>7, <2>1, <2>2, QuietTyped DEF PagesTyped, NobodyLooks
  <1>8. CASE Announce(i)
    <2>1. wire[i].step = "done" /\ viewer # None /\ None \in Buttons
      BY <1>0, <1>8 DEF Announce, IsAt, Buttons
    <2>2. QED
      BY <1>7, <1>8, <2>1 DEF Announce, counts, history, PagesTyped, PageTypeOK
  <1>9. CASE TakeReply(i)
    <2>1. wire[i].step = "reply" /\ viewer # None /\ None \in Buttons
      BY <1>0, <1>9 DEF TakeReply, Carries, Free, Buttons
    <2>2. /\ copy' \in Row \cup {None} /\ shown' \in SUBSET Milestones /\ open' \in BOOLEAN
          /\ busy' \in Buttons /\ copyRev' \in Nat /\ behind' \in BOOLEAN
      BY <1>0, <1>9, <2>1 DEF TakeReply, PagesTyped, PageTypeOK, Work
    <2>3. QED
      BY <1>7, <1>9, <2>1, <2>2 DEF TakeReply, counts, PagesTyped, PageTypeOK
  <1>10. CASE Catch(i)
    <2>1. wire[i].step = "lost" /\ viewer # None /\ None \in Buttons
      BY <1>0, <1>10 DEF Catch, Carries, Free, Buttons
    <2>2. busy' \in Buttons /\ failed' \in BOOLEAN /\ behind' \in BOOLEAN
      BY <1>10, <2>1 DEF Catch, PagesTyped, PageTypeOK
    <2>3. QED
      BY <1>7, <1>10, <2>1, <2>2 DEF Catch, counts, PagesTyped, PageTypeOK
  <1>11. QED
    BY <1>2, <1>3, <1>4, <1>5, <1>6, <1>8, <1>9, <1>10 DEF Own

\* An answered call serves nobody any more.
LEMMA SettleServes ==
  ASSUME PagesTyped, NEW c \in Calls, NEW s \in {"done", "lost"}, Settle(c, s),
         call' = [call EXCEPT ![c] = Idle]
  PROVE  /\ ServesItsCall'
         /\ wire' \in [1 .. MaxWork -> Work] /\ serves' \in [Calls -> 0 .. MaxWork]
         /\ UNCHANGED viewer => (\A j \in 1 .. MaxWork : Carries(wire[j]))'
  <1>0. /\ serves \in [Calls -> 0 .. MaxWork] /\ MaxWork \in Nat
        /\ call \in [Calls -> Call]
    BY HirePagesAssumption DEF PagesTyped, PageTypeOK, HInv, TypeOK
  <1>1. /\ wire' \in [1 .. MaxWork -> Work] /\ serves' \in [Calls -> 0 .. MaxWork] /\ serves'[c] = 0
        /\ \A d \in Calls : d # c => serves'[d] = serves[d]
        /\ \A j \in 1 .. MaxWork : serves[c] = j => Moved(wire[j], wire'[j], s)
        /\ \A j \in 1 .. MaxWork : serves[c] # j => wire'[j] = wire[j]
    BY SettleMoves DEF PagesTyped
  <1>2. ASSUME NEW d \in Calls, serves'[d] # 0
        PROVE  /\ call'[d] # Idle
               /\ wire'[serves'[d]].step = "in"
               /\ wire'[serves'[d]].kind \in Sending
               /\ wire'[serves'[d]].kind = "milestone" <=> call'[d].step \in {"sum", "insert"}
               /\ \A e \in Calls : serves'[e] = serves'[d] => d = e
    <2>1. d # c /\ serves[d] # 0 /\ serves'[d] = serves[d] /\ call'[d] = call[d]
      BY <1>0, <1>1, <1>2
    <2>2. serves[d] \in 1 .. MaxWork /\ serves[c] # serves[d]
      BY <1>0, <2>1 DEF PagesTyped, ServesItsCall
    <2>3. wire'[serves[d]] = wire[serves[d]]
      BY <1>1, <2>2
    <2>4. \A e \in Calls : serves'[e] = serves'[d] => serves[e] = serves[d]
      BY <1>1, <1>2, <2>1
    <2>5. QED
      BY <2>1, <2>3, <2>4 DEF PagesTyped, ServesItsCall
  <1>3. ASSUME UNCHANGED viewer, NEW j \in 1 .. MaxWork
        PROVE  Carries(wire[j])'
    <2>1. Carries(wire[j]) /\ wire[j] \in Work
      BY WorkFields DEF PagesTyped
    <2>2. CASE serves[c] = j
      <3>1. wire[j].kind # "free" /\ Moved(wire[j], wire'[j], s)
        BY <1>1, <2>2, HirePagesAssumption DEF PagesTyped, ServesItsCall, Sending
      <3>2. QED
        BY <1>3, <2>1, <3>1 DEF Moved, SameAs, Carries
    <2>3. CASE serves[c] # j
      BY <1>1, <1>3, <2>1, <2>3 DEF Carries
    <2>4. QED
      BY <2>2, <2>3
  <1>4. QED
    BY <1>1, <1>2, <1>3 DEF ServesItsCall

LEMMA ServerTyped ==
  ASSUME PagesTyped,
         \/ \E i \in 1 .. MaxWork, c \in Calls : Accept(i, c)
         \/ \E c \in Calls : Direct(c) \/ WriteRow(c) \/ SumUp(c) \/ InsertRow(c)
         \/ \E m \in Milestones : Refunded(m)
  PROVE  PagesTyped'
  <1>0. /\ HInv' /\ CallsCarry' /\ viewer' = viewer
        /\ call \in [Calls -> Call] /\ serves \in [Calls -> 0 .. MaxWork]
        /\ amount \in [Milestones -> Amounts \cup {NoAmount}]
    <2>1. [Next]_vars
      BY PagesStepIsHireStep DEF PagesNext
    <2>2. viewer' = viewer
      BY DEF Accept, Direct, WriteRow, SumUp, InsertRow, Refunded, page
    <2>3. QED
      BY <2>1, <2>2, StepKeepsHInv, StepKeepsCallsCarry DEF PagesTyped, HInv, TypeOK, PageTypeOK
  <1>1. ASSUME NEW i \in 1 .. MaxWork, NEW c \in Calls, Accept(i, c)
        PROVE  PagesTyped'
    <2>1. PICK r \in Call :
            /\ call' = [call EXCEPT ![c] = r] /\ r # Idle
            /\ wire[i].kind = "milestone" <=> r.step \in {"sum", "insert"}
            /\ wire[i].kind \in Sending /\ wire[i].step = "out" /\ call[c] = Idle
            /\ UNCHANGED <<request, rows>>
      BY <1>1, AcceptCalls
    <2>2. /\ serves' = [serves EXCEPT ![c] = i] /\ ToStep(i, "in") /\ UNCHANGED <<page, counts, history>>
      BY <1>1 DEF Accept
    <2>3. /\ wire' \in [1 .. MaxWork -> Work] /\ Moved(wire[i], wire'[i], "in")
          /\ \A j \in 1 .. MaxWork : j # i => wire'[j] = wire[j]
      BY <2>2, ToStepMoves DEF PagesTyped
    <2>4. (\A j \in 1 .. MaxWork : Carries(wire[j]))'
      <3>1. Carries(wire'[i])
        BY <2>1, <2>3, MovedCarries DEF PagesTyped, Sending
      <3>2. QED
        BY <1>0, <2>3, <3>1 DEF PagesTyped, Carries
    <2>5. PageTypeOK'
      <3>1. serves' \in [Calls -> 0 .. MaxWork]
        BY <1>0, <2>2, HirePagesAssumption
      <3>2. QED
        BY <2>2, <2>3, <3>1 DEF PagesTyped, PageTypeOK, page, counts, history
    <2>6. ServesItsCall'
      <3>1. \A d \in Calls : serves[d] # 0 => serves[d] # i /\ d # c /\ serves[d] \in 1 .. MaxWork
        BY <1>0, <2>1, HirePagesAssumption DEF PagesTyped, ServesItsCall
      <3>2. \A d \in Calls : d # c => serves'[d] = serves[d] /\ call'[d] = call[d]
        BY <1>0, <2>1, <2>2
      <3>3. serves'[c] = i /\ call'[c] = r /\ i # 0
        BY <1>0, <2>1, <2>2
      <3>4. wire'[i].step = "in" /\ wire'[i].kind = wire[i].kind
        BY <2>3 DEF Moved, SameAs
      <3>5. ASSUME NEW d \in Calls, serves'[d] # 0
            PROVE  /\ call'[d] # Idle
                   /\ wire'[serves'[d]].step = "in"
                   /\ wire'[serves'[d]].kind \in Sending
                   /\ wire'[serves'[d]].kind = "milestone" <=> call'[d].step \in {"sum", "insert"}
                   /\ \A e \in Calls : serves'[e] = serves'[d] => d = e
        <4>1. CASE d = c
          BY <2>1, <3>1, <3>2, <3>3, <3>4, <4>1
        <4>2. CASE d # c
          <5>1. serves'[d] = serves[d] /\ serves[d] # 0 /\ serves[d] # i /\ serves[d] \in 1 .. MaxWork
            BY <3>1, <3>2, <3>5, <4>2
          <5>2. wire'[serves[d]] = wire[serves[d]] /\ call'[d] = call[d]
            BY <2>3, <3>2, <4>2, <5>1
          <5>3. \A e \in Calls : serves'[e] = serves'[d] => serves[e] = serves[d]
            BY <3>2, <3>3, <5>1
          <5>4. QED
            BY <5>1, <5>2, <5>3 DEF PagesTyped, ServesItsCall
        <4>3. QED
          BY <4>1, <4>2
      <3>6. QED
        BY <3>5 DEF ServesItsCall
    <2>7. MineIsThere' /\ NobodyLooks'
      BY <2>1, <2>2 DEF PagesTyped, MineIsThere, NobodyLooks, rows, page, history
    <2>8. QED
      BY <1>0, <2>4, <2>5, <2>6, <2>7 DEF PagesTyped
  <1>2. ASSUME NEW c \in Calls, Direct(c)  PROVE PagesTyped'
    <2>1. /\ \A d \in Calls : d # c => call'[d] = call[d]
          /\ call[c] = Idle /\ UNCHANGED <<request, rows>>
      BY <1>0, <1>2 DEF Direct, UpdateStatus, SubmitProposal, CreateMilestone, Begin
    <2>2. UNCHANGED <<page, wire, serves, history>> /\ moves' \in 0 .. MaxMoves /\ faults' = faults
      BY <1>2, HirePagesAssumption DEF Direct, Click, PagesTyped, PageTypeOK
    <2>3. ServesItsCall'
      BY <1>0, <2>1, <2>2, ServesOn DEF PagesTyped, ServesItsCall
    <2>4. PageTypeOK' /\ MineIsThere' /\ NobodyLooks' /\ (\A j \in 1 .. MaxWork : Carries(wire[j]))'
      BY <2>1, <2>2 DEF PagesTyped, PageTypeOK, MineIsThere, NobodyLooks, Carries, rows, page, history
    <2>5. QED
      BY <1>0, <2>3, <2>4 DEF PagesTyped
  <1>3. ASSUME NEW m \in Milestones, Refunded(m)  PROVE PagesTyped'
    <2>1. UNCHANGED <<page, wire, serves, history, amount, call>> /\ moves' \in 0 .. MaxMoves /\ faults' = faults
      BY <1>3, HirePagesAssumption DEF Refunded, Refund, Click, PagesTyped, PageTypeOK
    <2>2. ServesItsCall'
      BY <2>1, ServesOn
    <2>3. PageTypeOK' /\ MineIsThere' /\ NobodyLooks' /\ (\A j \in 1 .. MaxWork : Carries(wire[j]))'
      BY <2>1 DEF PagesTyped, PageTypeOK, MineIsThere, NobodyLooks, Carries, page, history
    <2>4. QED
      BY <1>0, <2>2, <2>3 DEF PagesTyped
  <1>4. ASSUME NEW c \in Calls, WriteRow(c)  PROVE PagesTyped'
    <2>1. /\ call' = [call EXCEPT ![c] = Idle] /\ Settle(c, "done") /\ UNCHANGED amount
          /\ UNCHANGED <<page, counts, copyRev, mine, behind, surprised>>
      BY <1>4 DEF WriteRow, WriteStatus, WriteProposal, Return, rows
    <2>2. rev' \in Nat /\ ownRev' \in Nat
      BY <1>4 DEF WriteRow, PagesTyped, PageTypeOK
    <2>3. /\ ServesItsCall' /\ wire' \in [1 .. MaxWork -> Work] /\ serves' \in [Calls -> 0 .. MaxWork]
          /\ (\A j \in 1 .. MaxWork : Carries(wire[j]))'
      BY <1>0, <2>1, SettleServes
    <2>4. PageTypeOK' /\ MineIsThere' /\ NobodyLooks'
      BY <2>1, <2>2, <2>3 DEF PagesTyped, PageTypeOK, MineIsThere, NobodyLooks, page, counts
    <2>5. QED
      BY <1>0, <2>3, <2>4 DEF PagesTyped
  <1>5. ASSUME NEW c \in Calls, InsertRow(c)  PROVE PagesTyped'
    <2>1. /\ call' = [call EXCEPT ![c] = Idle] /\ Settle(c, "done")
          /\ amount' = [amount EXCEPT ![call[c].milestone] = call[c].amount]
          /\ UNCHANGED <<page, counts, rev, copyRev, ownRev, behind, surprised>>
          /\ call[c].amount \in Amounts /\ call[c].milestone \in Milestones
      BY <1>5 DEF InsertRow, Insert, Return, At, PagesTyped, CallsCarry
    <2>2. mine' \in SUBSET Milestones /\ mine' \subseteq mine \cup {call[c].milestone}
      BY <1>5, <2>1 DEF InsertRow, PagesTyped, PageTypeOK
    <2>3. /\ ServesItsCall' /\ wire' \in [1 .. MaxWork -> Work] /\ serves' \in [Calls -> 0 .. MaxWork]
          /\ (\A j \in 1 .. MaxWork : Carries(wire[j]))'
      BY <1>0, <2>1, SettleServes
    <2>4. MineIsThere'
      BY <1>0, <2>1, <2>2, AmountAssumption DEF PagesTyped, PageTypeOK, MineIsThere
    <2>5. PageTypeOK' /\ NobodyLooks'
      BY <2>1, <2>2, <2>3 DEF PagesTyped, PageTypeOK, NobodyLooks, page, counts
    <2>6. QED
      BY <1>0, <2>3, <2>4, <2>5 DEF PagesTyped
  <1>6. ASSUME NEW c \in Calls, SumUp(c)  PROVE PagesTyped'
    <2>1. UNCHANGED <<page, counts, history, amount>>
      BY <1>6 DEF SumUp, Sum, rows
    <2>2. CASE call'[c] = Idle
      <3>1. call' = [call EXCEPT ![c] = Idle] /\ Settle(c, "lost")
        <4>1. [call[c] EXCEPT !.step = "insert"] # Idle
          <5>1. [call[c] EXCEPT !.step = "insert"].step = "insert" /\ Idle.step = "idle"
            BY <1>0 DEF Call, Idle
          <5>2. QED
            BY <5>1
        <4>2. QED
          BY <1>0, <1>6, <2>2, <4>1 DEF SumUp, Sum, Return
      <3>2. /\ ServesItsCall' /\ wire' \in [1 .. MaxWork -> Work] /\ serves' \in [Calls -> 0 .. MaxWork]
            /\ (\A j \in 1 .. MaxWork : Carries(wire[j]))'
        BY <1>0, <3>1, SettleServes
      <3>3. PageTypeOK' /\ MineIsThere' /\ NobodyLooks'
        BY <2>1, <3>2 DEF PagesTyped, PageTypeOK, MineIsThere, NobodyLooks, page, counts, history
      <3>4. QED
        BY <1>0, <3>2, <3>3 DEF PagesTyped
    <2>3. CASE call'[c] # Idle
      <3>1. UNCHANGED <<wire, serves>> /\ call[c].step = "sum" /\ call' = [call EXCEPT ![c].step = "insert"]
        BY <1>0, <1>6, <2>3 DEF SumUp, Sum, Return, At
      <3>2. call'[c].step = "insert" /\ \A d \in Calls : d # c => call'[d] = call[d]
        BY <1>0, <3>1 DEF Call
      <3>3. ServesItsCall'
        BY <2>3, <3>1, <3>2 DEF PagesTyped, ServesItsCall
      <3>4. PageTypeOK' /\ MineIsThere' /\ NobodyLooks' /\ (\A j \in 1 .. MaxWork : Carries(wire[j]))'
        BY <2>1, <3>1 DEF PagesTyped, PageTypeOK, MineIsThere, NobodyLooks, Carries, page, counts, history
      <3>5. QED
        BY <1>0, <3>3, <3>4 DEF PagesTyped
    <2>4. QED
      BY <2>2, <2>3
  <1>7. QED
    BY <1>1, <1>2, <1>3, <1>4, <1>5, <1>6

-----------------------------------------------------------------------------
(* What the page shows and what it will be told. *)

PageIsTold == CopiesAreDated /\ TakesTurns /\ ListIsTold /\ PanelIsTold

\* A handler that goes on, without a new answer, tells the page what it would
\* have told it.
Onward(v, w) ==
  \/ w = v
  \/ SameAs(v, w) /\ w.mounted = v.mounted /\ w.step \notin {"reply", "out"}
  \/ v.kind \notin Sending /\ w = Free

LEMMA OnwardKeeps ==
  ASSUME PagesInv,
         UNCHANGED <<viewer, place, copy, copyRev, shown, mine, rev, ownRev, status, failed, behind>>,
         place = "detail" => busy' = busy,
         \A j \in 1 .. MaxWork : Onward(wire[j], wire'[j])
  PROVE  PageIsTold'
  <1>0. /\ Free.kind = "free" /\ Free.seen = 0 /\ Free.step = "out" /\ Free.mounted
        /\ rev \in Nat /\ \A j \in 1 .. MaxWork : wire[j].seen \in Nat
    BY WorkFields DEF Free, PagesInv, PagesTyped, PageTypeOK, Work
  <1>1. CopiesAreDated'
    <2>1. ASSUME NEW j \in 1 .. MaxWork  PROVE Dated(wire[j])'
      <3>1. Dated(wire[j])
        BY DEF PagesInv, CopiesAreDated
      <3>2. QED
        BY <1>0, <3>1 DEF Onward, SameAs, Dated, Allowed
    <2>2. QED
      BY <2>1 DEF PagesInv, CopiesAreDated
  <1>2. \A j \in 1 .. MaxWork : Running(wire'[j]) => Running(wire[j]) /\ wire'[j].kind = wire[j].kind
    BY <1>0 DEF Onward, SameAs, Running
  <1>3. TakesTurns'
    BY <1>2 DEF PagesInv, TakesTurns, Running
  <1>4. \A j \in 1 .. MaxWork : Tells(wire[j]) => Tells(wire[j])'
    BY DEF Onward, SameAs, Tells
  <1>5. \A j \in 1 .. MaxWork : Lists(wire[j]) => Lists(wire[j])'
    BY DEF Onward, SameAs, Lists
  <1>6. \A j \in 1 .. MaxWork : wire'[j].step = "reply" => wire'[j] = wire[j]
    BY <1>0 DEF Onward
  <1>7. ListIsTold'
    <2>1. Told => Told'
      BY <1>4 DEF Told
    <2>2. QED
      BY <1>6, <2>1 DEF PagesInv, ListIsTold
  <1>8. PanelIsTold'
    <2>1. ToldMine => ToldMine'
      BY <1>5 DEF ToldMine
    <2>2. QED
      BY <1>6, <2>1 DEF PagesInv, PanelIsTold
  <1>9. QED
    BY <1>1, <1>3, <1>7, <1>8 DEF PageIsTold

LEMMA OffersAreAllowed ==
  ASSUME PagesTyped, viewer # None, copy # None, copy.status = status, NEW to \in Offers
  PROVE  Allowed(viewer, to)
  BY DEF PagesTyped, PageTypeOK, Offers, ClientOffers, DeveloperOffers, Allowed, ClientTransitions,
         DeveloperTransitions, HInv, TypeOK, Status, Closed

LEMMA PressKeeps ==
  ASSUME PagesInv, Press
  PROVE  PageIsTold' /\ ~surprised'
  <1>1. PICK b \in Buttons, w \in Work :
          Handler(b, w) /\ Pressed(w) /\ (place = "detail" => b = "submitting")
    BY PressStarts DEF PagesInv
  <1>2. PICK i \in 1 .. MaxWork :
          /\ wire[i] = Free /\ wire'[i] = w
          /\ \A j \in 1 .. MaxWork : j # i => wire'[j] = wire[j]
    BY <1>1, HandlerStarts DEF PagesInv, PagesTyped
  <1>3. /\ UNCHANGED vars /\ UNCHANGED <<viewer, place, copy, shown, rev, copyRev, ownRev, mine, behind, surprised>>
        /\ busy' = b /\ failed' = FALSE
    BY <1>1 DEF Handler, history
  <1>4. CopiesAreDated'
    <2>1. copyRev <= rev /\ (copy # None /\ copyRev = rev => copy.status = status)
      BY DEF PagesInv, CopiesAreDated
    <2>2. Dated(w)
      BY <1>1, <2>1, OffersAreAllowed DEF Pressed, Dated, PagesInv
    <2>3. ASSUME NEW j \in 1 .. MaxWork  PROVE Dated(wire[j])'
      <3>1. Dated(wire'[j])
        BY <1>2, <2>2 DEF PagesInv, CopiesAreDated
      <3>2. QED
        BY <1>3, <3>1 DEF Dated, Allowed, vars, request
    <2>4. QED
      BY <1>3, <2>1, <2>3 DEF PagesInv, CopiesAreDated, vars, request
  <1>5. TakesTurns'
    <2>1. w.kind # "load" /\ (place = "list" => w.kind # "milestone") /\ (place = "detail" => w.kind = "milestone" /\ b = "submitting")
      BY <1>1 DEF Pressed
    <2>2. \A j \in 1 .. MaxWork : Running(wire[j]) => wire[j].kind # "load"
      <3>1. place = "form" \/ copy # None
        BY <1>1 DEF Pressed, PagesInv, PagesTyped, PageTypeOK, Places
      <3>2. QED
        BY <3>1 DEF PagesInv, TakesTurns
    <2>3. place = "detail" => \A j \in 1 .. MaxWork : ~Running(wire[j])
      <3>1. place = "detail" => copy # None /\ busy = None /\ None # "submitting"
        BY <1>1, HirePagesAssumption DEF Pressed
      <3>2. QED
        BY <3>1 DEF PagesInv, TakesTurns
    <2>4. \A j \in 1 .. MaxWork : Running(wire'[j]) => j = i \/ (Running(wire[j]) /\ wire'[j] = wire[j])
      BY <1>2
    <2>5. place = "form" => w.kind = "ask"
      BY <1>1 DEF Pressed
    <2>6. \A j \in 1 .. MaxWork : Running(wire'[j]) =>
            /\ wire'[j].kind # "load"
            /\ place = "form" => wire'[j].kind = "ask"
            /\ place = "list" => wire'[j].kind # "milestone"
            /\ place = "detail" => wire'[j].kind = "milestone" /\ b = "submitting" /\ j = i
      BY <1>2, <2>1, <2>2, <2>3, <2>4, <2>5 DEF PagesInv, TakesTurns
    <2>7. QED
      BY <1>3, <2>6 DEF TakesTurns, Running
  <1>6. ListIsTold' /\ PanelIsTold'
    <2>1. /\ place = "list" => Tells(w)'
          /\ place = "detail" => Lists(w)'
      BY <1>1 DEF Pressed, Tells, Lists, Sending
    <2>2. (place = "list" => Told') /\ (place = "detail" => ToldMine')
      BY <1>2, <2>1 DEF Told, ToldMine, Tells, Lists
    <2>3. QED
      BY <1>3, <2>2 DEF ListIsTold, PanelIsTold
  <1>7. QED
    BY <1>3, <1>4, <1>5, <1>6 DEF PageIsTold, PagesInv

LEMMA LeaveKeeps ==
  ASSUME PagesInv, Arrive \/ OpenRequest \/ BackToList
  PROVE  PageIsTold' /\ ~surprised'
  <1>1. PICK d \in {"list", "detail"}, p \in BOOLEAN : Show(d, p)
    <2>1. going \in BOOLEAN
      BY DEF PagesInv, PagesTyped, PageTypeOK
    <2>2. QED
      BY <2>1, Zenon DEF Arrive, OpenRequest, BackToList
  <1>2. /\ UNCHANGED vars /\ UNCHANGED <<viewer, rev, copyRev, ownRev, mine, behind, surprised>>
        /\ place' = d /\ copy' = None
    BY <1>1, Zenon DEF Show, history
  <1>3. PICK i \in 1 .. MaxWork :
          /\ wire[i] = Free /\ wire'[i] = Start("load", "again")
          /\ \A j \in 1 .. MaxWork : j # i =>
               /\ SameAs(wire[j], wire'[j]) /\ wire'[j].step = wire[j].step
               /\ wire'[j].mounted => wire[j] = Free
               /\ wire[j] = Free => wire'[j] = Free
    BY <1>1, ShowMoves DEF PagesInv, PagesTyped
  <1>4. /\ wire'[i].kind = "load" /\ wire'[i].step = "again" /\ wire'[i].seen = copyRev
        /\ Free.kind = "free" /\ Free.step = "out"
    BY <1>3, StartFields DEF Free
  <1>5. \A j \in 1 .. MaxWork : wire'[j].mounted => wire'[j].step # "reply" /\ (wire'[j].kind # "free" => j = i)
    BY <1>3, <1>4
  <1>6. CopiesAreDated'
    <2>1. ASSUME NEW j \in 1 .. MaxWork  PROVE Dated(wire[j])'
      <3>1. Dated(wire[j]) /\ copyRev <= rev
        BY DEF PagesInv, CopiesAreDated
      <3>2. QED
        BY <1>2, <1>3, <1>4, <3>1 DEF Dated, SameAs, Allowed, vars, request
    <2>2. QED
      BY <1>2, <2>1 DEF PagesInv, CopiesAreDated
  <1>7. TakesTurns'
    BY <1>1, <1>2, <1>4, <1>5 DEF TakesTurns, Running
  <1>8. ListIsTold' /\ PanelIsTold'
    BY <1>2, <1>5 DEF ListIsTold, PanelIsTold
  <1>9. QED
    BY <1>2, <1>6, <1>7, <1>8 DEF PageIsTold, PagesInv

LEMMA AnswerKeeps ==
  ASSUME PagesInv, NEW i \in 1 .. MaxWork, Answer(i)
  PROVE  PageIsTold' /\ ~surprised'
  <1> DEFINE row == [status |-> status, proposal |-> proposal]
             listed == {m \in Milestones : amount[m] # NoAmount}
             w == [wire[i] EXCEPT !.step = "reply", !.row = row, !.listed = listed, !.seen = rev]
  <1>0. rev \in Nat /\ ownRev \in Nat /\ ownRev <= rev /\ mine \subseteq listed
    BY DEF PagesInv, PagesTyped, PageTypeOK, CopiesAreDated, MineIsThere
  <1>1. /\ w.kind = wire[i].kind /\ w.mounted = wire[i].mounted /\ w.step = "reply"
        /\ w.seen = rev /\ w.row.status = status /\ w.listed = listed
    BY WorkFields DEF Work, PagesInv, PagesTyped
  <1>2. Become(i, w) /\ UNCHANGED <<vars, page, serves, counts, history>>
    BY DEF Answer
  <1> HIDE DEF w, row
  <1>3. wire'[i] = w /\ \A j \in 1 .. MaxWork : j # i => wire'[j] = wire[j]
    BY <1>2, BecomeEffect DEF PagesInv, PagesTyped
  <1>4. CopiesAreDated'
    <2>1. ASSUME NEW j \in 1 .. MaxWork  PROVE Dated(wire[j])'
      BY <1>0, <1>1, <1>2, <1>3 DEF PagesInv, CopiesAreDated, Dated, Allowed, vars, request, page, history
    <2>2. QED
      BY <1>2, <2>1 DEF PagesInv, CopiesAreDated, vars, request, page, history
  <1>5. TakesTurns'
    <2>1. \A j \in 1 .. MaxWork : Running(wire'[j]) => Running(wire[j]) /\ wire'[j].kind = wire[j].kind
      BY <1>1, <1>3 DEF Running
    <2>2. QED
      BY <1>2, <2>1 DEF PagesInv, TakesTurns, Running, page
  <1>6. ListIsTold'
    <2>1. \A j \in 1 .. MaxWork : Tells(wire[j]) => Tells(wire[j])'
      BY <1>0, <1>1, <1>2, <1>3 DEF Tells, history
    <2>2. Told => Told'
      BY <1>2, <2>1 DEF Told, page, history
    <2>3. QED
      BY <1>0, <1>1, <1>2, <1>3, <2>2 DEF PagesInv, ListIsTold, page, history
  <1>7. PanelIsTold'
    <2>1. \A j \in 1 .. MaxWork : Lists(wire[j]) => Lists(wire[j])'
      BY <1>0, <1>1, <1>2, <1>3 DEF Lists, history
    <2>2. ToldMine => ToldMine'
      BY <1>2, <2>1 DEF ToldMine, page, history
    <2>3. QED
      BY <1>0, <1>1, <1>2, <1>3, <2>2 DEF PagesInv, PanelIsTold, page, history
  <1>8. QED
    BY <1>2, <1>4, <1>5, <1>6, <1>7 DEF PageIsTold, PagesInv, history

LEMMA CatchKeeps ==
  ASSUME PagesInv, NEW i \in 1 .. MaxWork, Catch(i)
  PROVE  PageIsTold' /\ ~surprised'
  <1>1. /\ Become(i, Free) /\ wire[i].step = "lost"
        /\ UNCHANGED vars /\ UNCHANGED <<viewer, place, copy, shown, rev, copyRev, ownRev, mine, surprised>>
    BY DEF Catch
  <1>2. wire'[i] = Free /\ (\A j \in 1 .. MaxWork : j # i => wire'[j] = wire[j])
        /\ Free.kind = "free" /\ Free.seen = 0 /\ Free.step = "out" /\ rev \in Nat
    BY <1>1, BecomeEffect DEF PagesInv, PagesTyped, PageTypeOK, Free
  <1>3. CopiesAreDated'
    <2>1. ASSUME NEW j \in 1 .. MaxWork  PROVE Dated(wire[j])'
      BY <1>1, <1>2 DEF PagesInv, CopiesAreDated, Dated, Allowed, vars, request
    <2>2. QED
      BY <1>1, <2>1 DEF PagesInv, CopiesAreDated, vars, request
  <1>4. TakesTurns'
    <2>1. \A j \in 1 .. MaxWork : Running(wire'[j]) => j # i /\ Running(wire[j]) /\ wire'[j] = wire[j]
      BY <1>2 DEF Running
    <2>2. busy' = busy \/ ~(place = "detail" /\ \E j \in 1 .. MaxWork : j # i /\ Running(wire[j]))
      <3>1. busy' = busy \/ (wire[i].mounted /\ wire[i].kind # "load")
        BY DEF Catch
      <3>2. wire[i].kind # "free"
        BY <1>1, <1>2 DEF PagesInv, PagesTyped, Carries
      <3>3. QED
        BY <3>1, <3>2 DEF PagesInv, TakesTurns, Running
    <2>3. QED
      BY <1>1, <2>1, <2>2 DEF PagesInv, TakesTurns, Running
  <1>5. CASE failed' \/ behind'
    <2>1. Told' /\ ToldMine'
      BY <1>5 DEF Told, ToldMine
    <2>2. QED
      BY <1>1, <1>3, <1>4, <2>1 DEF PageIsTold, PagesInv, ListIsTold, PanelIsTold
  <1>6. CASE ~failed' /\ ~behind'
    <2>1. wire[i].kind \notin Sending /\ failed' = failed /\ behind' = behind /\ busy' = busy
      BY <1>6 DEF Catch, Sending, PagesInv, PagesTyped, PageTypeOK
    <2>2. \A j \in 1 .. MaxWork : Onward(wire[j], wire'[j])
      BY <1>2, <2>1 DEF Onward
    <2>3. QED
      BY <1>1, <2>1, <2>2, OnwardKeeps DEF PagesInv, vars, request
  <1>7. QED
    BY <1>1, <1>5, <1>6 DEF PagesInv

\* An answer that is shown has the page's last write, or is behind another one,
\* or a handler that tells more is still to come.
LEMMA TakeReplyKeeps ==
  ASSUME PagesInv, NEW i \in 1 .. MaxWork, TakeReply(i)
  PROVE  PageIsTold' /\ ~surprised'
  <1>1. /\ Become(i, Free) /\ wire[i].step = "reply" /\ failed' = failed
        /\ UNCHANGED vars /\ UNCHANGED <<viewer, place, rev, ownRev, mine, surprised>>
    BY DEF TakeReply
  <1>2. /\ wire'[i] = Free /\ (\A j \in 1 .. MaxWork : j # i => wire'[j] = wire[j])
        /\ Free.kind = "free" /\ Free.seen = 0 /\ Free.step = "out"
        /\ rev \in Nat /\ ownRev \in Nat /\ copyRev \in Nat /\ wire[i].seen \in Nat
    BY <1>1, BecomeEffect, WorkFields DEF PagesInv, PagesTyped, PageTypeOK, Free, Work
  <1>3. wire[i].kind # "free" /\ wire[i].row # None /\ Dated(wire[i])
    BY <1>1, <1>2 DEF PagesInv, PagesTyped, Carries, CopiesAreDated
  <1>4. /\ ~wire[i].mounted => UNCHANGED <<copy, copyRev, shown, busy>> /\ behind' = (behind \/ wire[i].kind # "load")
        /\ wire[i].mounted =>
             /\ wire[i].kind = "milestone" => UNCHANGED <<copy, copyRev>>
             /\ wire[i].kind # "milestone" => copy' = wire[i].row /\ copyRev' = wire[i].seen
             /\ behind' = (behind \/ wire[i].seen < copyRev)
             /\ place = "detail" => shown' = wire[i].listed
    BY DEF TakeReply
  <1>5. CopiesAreDated'
    <2>1. ASSUME NEW j \in 1 .. MaxWork  PROVE Dated(wire[j])'
      BY <1>1, <1>2 DEF PagesInv, CopiesAreDated, Dated, Allowed, vars, request
    <2>2. copyRev' <= rev /\ (copy' # None /\ copyRev' = rev => copy'.status = status)
      BY <1>1, <1>3, <1>4 DEF PagesInv, CopiesAreDated, Dated
    <2>3. QED
      BY <1>1, <2>1, <2>2 DEF PagesInv, CopiesAreDated, vars, request
  <1>6. TakesTurns'
    <2>1. \A j \in 1 .. MaxWork : Running(wire'[j]) => j # i /\ Running(wire[j]) /\ wire'[j] = wire[j]
      BY <1>2 DEF Running
    <2>2. Running(wire[i]) \/ UNCHANGED <<copy, busy>>
      BY <1>3, <1>4 DEF Running
    <2>3. ASSUME Running(wire[i]), NEW j \in 1 .. MaxWork, j # i, Running(wire[j])
          PROVE  place # "detail" /\ wire[j].kind # "load"
      BY <2>3 DEF PagesInv, TakesTurns
    <2>4. QED
      BY <1>1, <2>1, <2>2, <2>3 DEF PagesInv, TakesTurns
  <1>7. CASE ~wire[i].mounted /\ wire[i].kind # "load"
    <2>1. Told' /\ ToldMine'
      BY <1>4, <1>7 DEF Told, ToldMine
    <2>2. QED
      BY <1>1, <1>5, <1>6, <2>1 DEF PageIsTold, PagesInv, ListIsTold, PanelIsTold
  <1>8. CASE ~wire[i].mounted /\ wire[i].kind = "load"
    <2>1. \A j \in 1 .. MaxWork : Onward(wire[j], wire'[j])
      BY <1>2, <1>8 DEF Onward, Sending
    <2>2. behind' = behind
      BY <1>4, <1>8 DEF PagesInv, PagesTyped, PageTypeOK
    <2>3. PageIsTold'
      BY <1>1, <1>4, <1>8, <2>1, <2>2, OnwardKeeps DEF vars, request
    <2>4. QED
      BY <1>1, <2>3 DEF PagesInv
  <1>9. CASE wire[i].mounted
    <2>1. ListIsTold'
      <3> SUFFICES ASSUME place = "list"  PROVE Told'
        BY <1>1 DEF ListIsTold
      <3>1. wire[i].kind # "milestone"
        BY <1>3, <1>9 DEF PagesInv, TakesTurns, Running
      <3>2. CASE wire[i].seen >= ownRev
        BY <1>1, <1>4, <1>9, <3>1, <3>2 DEF Told
      <3>3. CASE wire[i].seen < ownRev
        <4>1. Told
          BY <1>1, <1>2, <1>9, <3>3 DEF PagesInv, ListIsTold
        <4>2. CASE copyRev >= ownRev
          <5>1. wire[i].seen < copyRev
            BY <1>2, <3>3, <4>2
          <5>2. QED
            BY <1>4, <1>9, <5>1 DEF Told
        <4>3. CASE behind \/ failed
          BY <1>1, <1>4, <1>9, <4>3 DEF Told
        <4>4. ASSUME NEW j \in 1 .. MaxWork, Tells(wire[j])  PROVE Told'
          <5>1. j # i
            BY <1>1, <1>2, <1>9, <3>3, <4>4 DEF Tells
          <5>2. Tells(wire[j])'
            BY <1>1, <1>2, <4>4, <5>1 DEF Tells
          <5>3. QED
            BY <5>2 DEF Told
        <4>5. QED
          BY <4>1, <4>2, <4>3, <4>4 DEF Told
      <3>4. QED
        BY <1>2, <3>2, <3>3
    <2>2. PanelIsTold'
      <3> SUFFICES ASSUME place = "detail"
                   PROVE  /\ mine \subseteq shown' \/ ToldMine'
                          /\ \A j \in 1 .. MaxWork : ~(wire'[j].mounted /\ wire'[j].step = "reply")
        BY <1>1 DEF PanelIsTold
      <3>1. \A j \in 1 .. MaxWork : ~(wire'[j].mounted /\ wire'[j].step = "reply")
        <4>1. ASSUME NEW j \in 1 .. MaxWork, j # i, wire[j].mounted, wire[j].step = "reply"
              PROVE  FALSE
          <5>1. wire[j].kind # "free"
            BY <1>2, <4>1 DEF PagesInv, PagesTyped, Carries
          <5>2. QED
            BY <1>3, <1>9, <4>1, <5>1 DEF PagesInv, TakesTurns, Running
        <4>2. QED
          BY <1>2, <4>1
      <3>2. CASE mine \subseteq wire[i].listed
        BY <1>4, <1>9, <3>1, <3>2
      <3>3. CASE ~(mine \subseteq wire[i].listed)
        <4>1. ToldMine
          BY <1>1, <1>9, <3>3 DEF PagesInv, PanelIsTold
        <4>2. CASE behind \/ failed
          BY <1>1, <1>4, <1>9, <3>1, <4>2 DEF ToldMine
        <4>3. ASSUME NEW j \in 1 .. MaxWork, Lists(wire[j])  PROVE ToldMine'
          <5>1. j # i
            BY <1>1, <1>9, <3>3, <4>3 DEF Lists
          <5>2. Lists(wire[j])'
            BY <1>1, <1>2, <4>3, <5>1 DEF Lists
          <5>3. QED
            BY <5>2 DEF ToldMine
        <4>4. QED
          BY <3>1, <4>1, <4>2, <4>3 DEF ToldMine
      <3>4. QED
        BY <3>2, <3>3
    <2>3. QED
      BY <1>1, <1>5, <1>6, <2>1, <2>2 DEF PageIsTold, PagesInv
  <1>10. QED
    BY <1>7, <1>8, <1>9

\* A write of the row, or a new milestone: its handler will tell.
LEMMA AnsweredKeeps ==
  ASSUME PagesInv, NEW c \in Calls, WriteRow(c) \/ InsertRow(c)
  PROVE  PageIsTold' /\ ~surprised'
  <1>1. /\ Settle(c, "done") /\ (serves[c] # 0 => wire[serves[c]].kind \in Sending)
        /\ UNCHANGED <<page, copyRev, behind, surprised>>
    BY DEF WriteRow, InsertRow, PagesInv, PagesTyped, ServesItsCall
  <1>2. \A j \in 1 .. MaxWork :
          IF serves[c] = j THEN Moved(wire[j], wire'[j], "done") ELSE wire'[j] = wire[j]
    BY <1>1, SettleMoves DEF PagesInv, PagesTyped
  <1>3. /\ rev \in Nat /\ ownRev \in Nat /\ ownRev <= rev /\ copyRev <= rev
        /\ serves[c] \in 0 .. MaxWork /\ MaxWork \in Nat
    BY HirePagesAssumption DEF PagesInv, PagesTyped, PageTypeOK, CopiesAreDated
  <1>4. \A j \in 1 .. MaxWork :
          /\ wire'[j].kind = wire[j].kind /\ wire'[j].mounted = wire[j].mounted /\ wire'[j].seen = wire[j].seen
          /\ wire'[j].step \in {"reply", "out"} => wire'[j] = wire[j]
    BY <1>2 DEF Moved, SameAs
  <1>5. /\ serves[c] = 0 => ownRev' = ownRev /\ mine' = mine
        /\ rev' \in {rev, rev + 1} /\ ownRev' <= rev'
        /\ rev' = rev => status' = status \/ viewer = None
    BY <1>3 DEF WriteRow, InsertRow, Insert, request
  <1>6. CopiesAreDated'
    <2>1. ASSUME NEW j \in 1 .. MaxWork  PROVE Dated(wire[j])'
      <3>1. Dated(wire[j]) /\ (viewer = None => wire[j] = Free) /\ wire[j].seen \in Nat
        BY WorkFields DEF PagesInv, PagesTyped, CopiesAreDated, Carries, Work
      <3>2. viewer' = viewer /\ Free.step = "out" /\ Free.kind = "free"
        BY <1>1 DEF page, Free
      <3>3. QED
        BY <1>3, <1>4, <1>5, <3>1, <3>2 DEF Dated, Allowed
    <2>2. viewer = None => copy = None
      BY DEF PagesInv, PagesTyped, NobodyLooks
    <2>3. copy' # None /\ copyRev' = rev' => copy'.status = status'
      <3>1. UNCHANGED <<copy, copyRev>>
        BY <1>1 DEF page
      <3>2. rev' = rev + 1 => copyRev # rev'
        BY <1>3 DEF PagesInv, PagesTyped, PageTypeOK
      <3>3. QED
        BY <1>5, <2>2, <3>1, <3>2 DEF PagesInv, CopiesAreDated
    <2>4. copyRev' <= rev'
      BY <1>1, <1>3, <1>5 DEF PagesInv, PagesTyped, PageTypeOK
    <2>5. QED
      BY <1>5, <2>1, <2>3, <2>4 DEF CopiesAreDated
  <1>7. TakesTurns'
    BY <1>1, <1>4 DEF PagesInv, TakesTurns, Running, page
  <1>8. /\ ListIsTold'
        /\ PanelIsTold'
    <2>1. CASE serves[c] = 0
      <3>1. \A j \in 1 .. MaxWork : wire'[j] = wire[j]
        BY <1>2, <2>1
      <3>2. (Told => Told') /\ (ToldMine => ToldMine')
        BY <1>1, <1>5, <2>1, <3>1 DEF Told, ToldMine, Tells, Lists, page
      <3>3. QED
        BY <1>1, <1>5, <2>1, <3>1, <3>2 DEF PagesInv, ListIsTold, PanelIsTold, page
    <2>2. CASE serves[c] # 0
      <3>1. wire'[serves[c]].step = "done" /\ wire'[serves[c]].kind \in Sending /\ serves[c] \in 1 .. MaxWork
        BY <1>1, <1>2, <1>3, <2>2 DEF Moved, SameAs
      <3>2. \E j \in 1 .. MaxWork : j = serves[c] /\ Tells(wire[j])' /\ Lists(wire[j])'
        BY <3>1 DEF Tells, Lists
      <3>3. Told' /\ ToldMine'
        BY <3>1, <3>2 DEF Told, ToldMine
      <3>4. QED
        BY <3>3 DEF ListIsTold, PanelIsTold
    <2>3. QED
      BY <2>1, <2>2
  <1>9. QED
    BY <1>1, <1>6, <1>7, <1>8 DEF PageIsTold, PagesInv

LEMMA ToStepGoesOn ==
  ASSUME PagesTyped, NEW i \in 1 .. MaxWork, NEW s \in {"thread", "create", "in", "done", "lost", "again"}, ToStep(i, s)
  PROVE  \A j \in 1 .. MaxWork : Onward(wire[j], wire'[j])
  BY ToStepMoves DEF Onward, Moved, PagesTyped

\* The steps that bring no new answer.
LEMMA OtherStepsKeep ==
  ASSUME PagesInv,
         \/ ToggleForm
         \/ \E i \in 1 .. MaxWork : Ask(i) \/ Announce(i) \/ Refuse(i) \/ Done(i) \/ Lose(i)
         \/ \E i \in 1 .. MaxWork, c \in Calls : Accept(i, c)
         \/ \E c \in Calls : Direct(c) \/ SumUp(c)
         \/ \E m \in Milestones : Refunded(m)
  PROVE  PageIsTold' /\ ~surprised'
  <1>1. CASE ToggleForm
    <2>1. UNCHANGED <<viewer, place, copy, copyRev, shown, mine, rev, ownRev, status, failed, behind, busy, wire, surprised>>
      BY <1>1 DEF ToggleForm, vars, request, history
    <2>2. QED
      BY <2>1, OnwardKeeps DEF Onward, PagesInv
  <1>2. ASSUME NEW i \in 1 .. MaxWork, Ask(i)  PROVE PageIsTold' /\ ~surprised'
    <2>1. PICK s \in {"thread", "create", "done"} : ToStep(i, s)
      BY <1>2 DEF Ask, NextStep
    <2>2. UNCHANGED <<viewer, place, copy, copyRev, shown, mine, rev, ownRev, status, failed, behind, busy, surprised>>
      BY <1>2 DEF Ask, vars, request, history
    <2>3. QED
      BY <2>1, <2>2, ToStepGoesOn, OnwardKeeps DEF PagesInv
  <1>3. ASSUME NEW i \in 1 .. MaxWork, Announce(i)  PROVE PageIsTold' /\ ~surprised'
    <2>1. \A j \in 1 .. MaxWork : Onward(wire[j], wire'[j])
      BY <1>3, BecomeEffect DEF Announce, IsAt, Onward, Sending, PagesInv, PagesTyped
    <2>2. UNCHANGED <<viewer, place, copy, copyRev, shown, mine, rev, ownRev, status, failed, behind, surprised>>
      BY <1>3 DEF Announce, vars, request, history
    <2>3. place = "detail" => busy' = busy
      BY <1>3 DEF Announce, IsAt, PagesInv, TakesTurns, Running
    <2>4. QED
      BY <2>1, <2>2, <2>3, OnwardKeeps DEF PagesInv
  <1>4. ASSUME NEW i \in 1 .. MaxWork, Refuse(i)  PROVE PageIsTold' /\ ~surprised'
    <2>1. UNCHANGED <<viewer, place, copy, copyRev, shown, mine, rev, ownRev, status, failed, behind, busy>>
      BY <1>4 DEF Refuse, vars, request, page
    <2>2. ~surprised'
      <3>1. wire[i].kind = "proposal" \/ wire[i].seen # rev
        BY <1>4 DEF Refuse, Refusal, IsAt, PagesInv, CopiesAreDated, Dated
      <3>2. QED
        BY <1>4, <3>1 DEF Refuse, PagesInv
    <2>3. QED
      BY <1>4, <2>1, <2>2, ToStepGoesOn, OnwardKeeps DEF Refuse, PagesInv
  <1>5. ASSUME NEW i \in 1 .. MaxWork, Done(i)  PROVE PageIsTold' /\ ~surprised'
    <2>1. UNCHANGED <<viewer, place, copy, copyRev, shown, mine, rev, ownRev, status, failed, behind, busy, surprised>>
      BY <1>5 DEF Done, vars, request, history
    <2>2. QED
      BY <1>5, <2>1, ToStepGoesOn, OnwardKeeps DEF Done, PagesInv
  <1>6. ASSUME NEW i \in 1 .. MaxWork, Lose(i)  PROVE PageIsTold' /\ ~surprised'
    <2>1. UNCHANGED <<viewer, place, copy, copyRev, shown, mine, rev, ownRev, status, failed, behind, busy, surprised>>
      BY <1>6 DEF Lose, vars, request, page, history
    <2>2. QED
      BY <1>6, <2>1, ToStepGoesOn, OnwardKeeps DEF Lose, PagesInv
  <1>7. ASSUME NEW i \in 1 .. MaxWork, NEW c \in Calls, Accept(i, c)  PROVE PageIsTold' /\ ~surprised'
    <2>1. UNCHANGED <<request, page, counts, history>> /\ ToStep(i, "in")
      BY <1>7, AcceptCalls DEF Accept, PagesInv
    <2>2. UNCHANGED <<viewer, place, copy, copyRev, shown, mine, rev, ownRev, status, failed, behind, busy, surprised>>
      BY <2>1 DEF request, page, history
    <2>3. QED
      BY <2>1, <2>2, ToStepGoesOn, OnwardKeeps DEF PagesInv
  <1>8. ASSUME NEW c \in Calls, Direct(c)  PROVE PageIsTold' /\ ~surprised'
    <2>1. UNCHANGED <<viewer, place, copy, copyRev, shown, mine, rev, ownRev, status, failed, behind, busy, wire, surprised>>
      BY <1>8 DEF Direct, UpdateStatus, SubmitProposal, CreateMilestone, request, page, history
    <2>2. QED
      BY <2>1, OnwardKeeps DEF Onward, PagesInv
  <1>9. ASSUME NEW c \in Calls, SumUp(c)  PROVE PageIsTold' /\ ~surprised'
    <2>1. UNCHANGED <<viewer, place, copy, copyRev, shown, mine, rev, ownRev, status, failed, behind, busy, surprised>>
      BY <1>9 DEF SumUp, Sum, request, page, history
    <2>2. \A j \in 1 .. MaxWork : Onward(wire[j], wire'[j])
      <3>1. CASE Settle(c, "lost")
        BY <3>1, SettleMoves DEF Onward, Moved, PagesInv, PagesTyped
      <3>2. CASE UNCHANGED wire
        BY <3>2 DEF Onward
      <3>3. QED
        BY <1>9, <3>1, <3>2 DEF SumUp
    <2>3. QED
      BY <2>1, <2>2, OnwardKeeps DEF PagesInv
  <1>10. ASSUME NEW m \in Milestones, Refunded(m)  PROVE PageIsTold' /\ ~surprised'
    <2>1. UNCHANGED <<viewer, place, copy, copyRev, shown, mine, rev, ownRev, status, failed, behind, busy, wire, surprised>>
      BY <1>10 DEF Refunded, Refund, request, page, history
    <2>2. QED
      BY <2>1, OnwardKeeps DEF Onward, PagesInv
  <1>11. QED
    BY <1>1, <1>2, <1>3, <1>4, <1>5, <1>6, <1>7, <1>8, <1>9, <1>10

LEMMA StepKeepsPagesInv == PagesInv /\ [PagesNext]_all => PagesInv'
  <1> SUFFICES ASSUME PagesInv, [PagesNext]_all  PROVE PagesInv'
    OBVIOUS
  <1>1. CASE Press
    BY <1>1, PressTyped, PressKeeps DEF PagesInv, PageIsTold
  <1>2. CASE Arrive \/ OpenRequest \/ BackToList
    BY <1>2, LeaveTyped, LeaveKeeps DEF PagesInv, PageIsTold
  <1>3. CASE ToggleForm
    <2>1. PagesTyped'
      <3>1. /\ UNCHANGED vars /\ UNCHANGED <<viewer, place, going, asked, copy, shown, busy, failed, wire, serves>>
            /\ UNCHANGED <<moves, faults, rev, copyRev, ownRev, mine, behind, surprised>> /\ open' \in BOOLEAN
        BY <1>3 DEF ToggleForm, counts, history
      <3>2. PageTypeOK'
        BY <3>1 DEF PagesInv, PagesTyped, PageTypeOK
      <3>3. QED
        BY <3>1, <3>2, QuietTyped DEF PagesInv, PagesTyped, NobodyLooks
    <2>2. QED
      BY <1>3, <2>1, OtherStepsKeep DEF PagesInv, PageIsTold
  <1>4. ASSUME NEW i \in 1 .. MaxWork, Own(i)  PROVE PagesInv'
    <2>1. PagesTyped'
      BY <1>4, OwnTyped DEF PagesInv
    <2>2. PageIsTold' /\ ~surprised'
      BY <1>4, OtherStepsKeep, AnswerKeeps, TakeReplyKeeps, CatchKeeps DEF Own
    <2>3. QED
      BY <2>1, <2>2 DEF PagesInv, PageIsTold
  <1>5. CASE \/ \E i \in 1 .. MaxWork, c \in Calls : Accept(i, c)
             \/ \E c \in Calls : Direct(c) \/ WriteRow(c) \/ SumUp(c) \/ InsertRow(c)
             \/ \E m \in Milestones : Refunded(m)
    <2>1. PagesTyped'
      BY <1>5, ServerTyped DEF PagesInv
    <2>2. PageIsTold' /\ ~surprised'
      BY <1>5, OtherStepsKeep, AnsweredKeeps
    <2>3. QED
      BY <2>1, <2>2 DEF PagesInv, PageIsTold
  <1>6. CASE UNCHANGED all
    <2>1. UNCHANGED vars /\ UNCHANGED <<viewer, place, going, asked, copy, shown, open, busy, failed, wire, serves>>
          /\ UNCHANGED <<moves, faults, rev, copyRev, ownRev, mine, behind, surprised>>
      BY <1>6 DEF all, page, counts, history
    <2>2. PagesTyped'
      <3>1. PageTypeOK'
        BY <2>1 DEF PagesInv, PagesTyped, PageTypeOK
      <3>2. QED
        BY <2>1, <3>1, QuietTyped DEF PagesInv, PagesTyped, NobodyLooks
    <2>3. PageIsTold' /\ ~surprised'
      BY <2>1, OnwardKeeps DEF Onward, PagesInv, vars, request
    <2>4. QED
      BY <2>2, <2>3 DEF PagesInv, PageIsTold
  <1>7. QED
    BY <1>1, <1>2, <1>3, <1>4, <1>5, <1>6 DEF PagesNext, Press, Own

LEMMA InitEstablishesPagesInv == PagesInit => PagesInv
  <1> SUFFICES ASSUME PagesInit  PROVE PagesInv
    OBVIOUS
  <1>1. HInv /\ CallsCarry /\ amount = [m \in Milestones |-> NoAmount]
    BY InitEstablishesHInv DEF PagesInit, CallsCarry, Init, Idle
  <1>2. /\ Free \in Work /\ Free.kind = "free" /\ Free.step = "out" /\ Free.seen = 0 /\ Free.mounted
        /\ Start("load", "again") \in Work /\ Start("load", "again").kind = "load"
        /\ Start("load", "again").step = "again" /\ Start("load", "again").seen = 0 /\ Start("load", "again").mounted
    BY FreeIsWork, StartFields DEF Free, PagesInit, Kinds
  <1>3. \A j \in 1 .. MaxWork :
          \/ wire[j] = Free
          \/ wire[j] = Start("load", "again") /\ j = 1 /\ place = "list" /\ viewer # None
    BY DEF PagesInit
  <1>4. PageTypeOK
    <2>1. wire \in [1 .. MaxWork -> Work]
      BY <1>2 DEF PagesInit
    <2>2. asked \in Asked
      BY DEF PagesInit, Asked
    <2>3. place \in Places /\ None \in Buttons
      BY DEF PagesInit, Places, Buttons
    <2>4. serves \in [Calls -> 0 .. MaxWork] /\ moves \in 0 .. MaxMoves /\ faults \in 0 .. MaxFaults
      BY HirePagesAssumption DEF PagesInit
    <2>5. QED
      BY <2>1, <2>2, <2>3, <2>4 DEF PagesInit, PageTypeOK
  <1>5. PagesTyped
    <2>1. \A j \in 1 .. MaxWork : Carries(wire[j])
      BY <1>2, <1>3 DEF Carries
    <2>2. ServesItsCall /\ MineIsThere /\ NobodyLooks
      BY HirePagesAssumption DEF PagesInit, ServesItsCall, MineIsThere, NobodyLooks, Actors
    <2>3. QED
      BY <1>1, <1>4, <2>1, <2>2 DEF PagesTyped
  <1>6. CopiesAreDated /\ ~surprised
    BY <1>2, <1>3 DEF PagesInit, CopiesAreDated, Dated
  <1>7. TakesTurns
    BY <1>2, <1>3 DEF PagesInit, TakesTurns, Running
  <1>8. ListIsTold /\ PanelIsTold
    BY <1>2, <1>3 DEF PagesInit, ListIsTold, PanelIsTold
  <1>9. QED
    BY <1>5, <1>6, <1>7, <1>8 DEF PagesInv

LEMMA PagesInvIsRelied == PagesInv => PagesCanBeRelied
  <1> SUFFICES ASSUME PagesInv  PROVE PagesCanBeRelied
    OBVIOUS
  <1>1. ASSUME \A i \in 1 .. MaxWork : wire[i] = Free, copy # None, ~failed, ~behind
        PROVE  (place = "list" => copyRev >= ownRev) /\ (place = "detail" => mine \subseteq shown)
    <2>1. \A i \in 1 .. MaxWork : ~Tells(wire[i]) /\ ~Lists(wire[i])
      BY <1>1 DEF Tells, Lists, Free, Sending
    <2>2. QED
      BY <1>1, <2>1 DEF PagesInv, ListIsTold, PanelIsTold, Told, ToldMine
  <1>2. QED
    BY <1>1 DEF PagesInv, PagesCanBeRelied, OfferedIsAllowed, OwnWritesAreShown

-----------------------------------------------------------------------------
(* The theorems about the pages. *)

LEMMA PagesKeepPagesInv == PagesSpec => []PagesInv
  BY InitEstablishesPagesInv, StepKeepsPagesInv, PTL DEF PagesSpec

\* Whatever is pressed, lost or overtaken, the pages do to the request only
\* what HireRequest lets a caller of the API do.
THEOREM PagesTakeHireSteps == PagesSpec => Spec
  <1>1. PagesInit => Init
    BY DEF PagesInit
  <1>2. PagesInv /\ [PagesNext]_all => [Next]_vars
    BY PagesStepIsHireStep DEF PagesInv
  <1>3. QED
    BY <1>1, <1>2, PagesKeepPagesInv, PTL DEF PagesSpec, Spec

\* So nobody is hired from a page, or beside one, without both parties.
THEOREM PagesNeedBothParties == PagesSpec => []DealNeedsBothParties
  BY PagesTakeHireSteps, HiringNeedsBothParties, PTL

\* A list that still offers to reject or accept does not reopen a closed deal.
THEOREM PagesLeaveDealsClosed == PagesSpec => ClosedDealIsFrozen
  BY PagesTakeHireSteps, ClosedDealStaysClosed, PTL

\* What was agreed caps what is committed behind the pages as well.
THEOREM PagesFitBudget == PagesSpec => MilestoneFitsBudget
  BY PagesTakeHireSteps, MilestonesFitBudget, PTL

\* A handler started on a copy that is still true is not refused, and a page at
\* rest shows its own writes; for any number of handlers, calls and losses.
THEOREM PagesCanBeReliedOn == PagesSpec => []PagesCanBeRelied
  BY PagesKeepPagesInv, PagesInvIsRelied, PTL
==============================================================================
