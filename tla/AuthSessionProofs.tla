-------------------------- MODULE AuthSessionProofs --------------------------
(***************************************************************************)
(* AInv is inductive for every number of calls, links, seconds and         *)
(* revocations.  What makes it go through is that a call which is signing  *)
(* in counts as in flight for every revocation until its upsert: it cannot *)
(* miss one that did not race with it.                                     *)
(*                                                                         *)
(* The pages only make such calls.  What they and the admin are told is    *)
(* true because of where the call of each form is: what a handler writes   *)
(* second rests on what it wrote first (PagesInv), and whoever has set a   *)
(* password and not said so yet is alone, or is known not to be            *)
(* (PasswordInv).                                                          *)
(***************************************************************************)
EXTENDS AccountPages, AuthSessionInvariant, TLAPS

\* What the invariant says of the calls, as opposed to the rows.
CallsOK ==
  /\ call \in [Calls -> Call]
  /\ \A c \in Calls : call[c].step \in Vouching => vouched
  /\ SignInsMissOnlyRaced

\* And what it says of the rows.
RowsOK ==
  /\ account \in {"none", "unverified", "verified"}
  /\ session \in [state : {"none", "live", "revoked"}, token : Nat, proof : Nat]
  /\ link \in [Links -> {"none", "active", "expired", "consumed", "deleted"}]
  /\ held \in SUBSET Nat
  /\ clock \in Nat /\ era \in Nat /\ raced \in SUBSET Nat /\ vouched \in BOOLEAN
  /\ account = "verified" => vouched
  /\ held # {} => vouched
  /\ SignedInMeansVouched
  /\ RevocationMissesOnlySignIns

\* The two together are the invariant.
LEMMA TwoHalves == (AInv <=> CallsOK /\ RowsOK) /\ (AInv' <=> CallsOK' /\ RowsOK')
  BY DEF AInv, CallsOK, RowsOK, TypeOK, VouchedCalls

-----------------------------------------------------------------------------
(* The slot of a call. *)

\* Idle is a record like any other.
LEMMA IdleIsCall == Idle \in Call
  BY DEF Idle, Call, Steps

\* A step that replaces one slot, and no revocation, keeps what is known of
\* the calls if it holds of the new slot.
LEMMA SlotKeepsCalls ==
  ASSUME CallsOK, NEW c \in Calls, NEW r \in Call, call' = [call EXCEPT ![c] = r],
         UNCHANGED <<era, raced>>, vouched => vouched',
         r.step \in Vouching => vouched',
         r.step \in SigningIn => MissedOnlyRaced(r.proof)
  PROVE  CallsOK'
  <1>1. /\ call' \in [Calls -> Call]
        /\ call'[c] = r
        /\ \A other \in Calls \ {c} : call'[other] = call[other]
    BY DEF CallsOK
  <1>2. \A d \in Calls : call'[d].step \in Vouching => vouched'
    BY <1>1 DEF CallsOK
  <1>3. SignInsMissOnlyRaced'
    BY <1>1 DEF CallsOK, SignInsMissOnlyRaced, MissedOnlyRaced
  <1>4. QED
    BY <1>1, <1>2, <1>3 DEF CallsOK

\* A call moves on to its next await.
LEMMA GotoKeepsCalls ==
  ASSUME CallsOK, NEW c \in Calls, NEW s \in Steps, Goto(c, s),
         UNCHANGED <<era, raced>>, vouched => vouched',
         s \in Vouching => vouched',
         s \in SigningIn => call[c].step \in SigningIn
  PROVE  CallsOK'
  <1> DEFINE r == [call[c] EXCEPT !.step = s]
  <1>1. /\ r \in Call /\ r.step = s /\ r.proof = call[c].proof
        /\ call' = [call EXCEPT ![c] = r]
    BY DEF CallsOK, Call, Goto
  <1> HIDE DEF r
  <1>2. r.step \in SigningIn => MissedOnlyRaced(r.proof)
    BY <1>1 DEF CallsOK, SignInsMissOnlyRaced
  <1>3. QED
    BY <1>1, <1>2, SlotKeepsCalls

\* A call ends.
LEMMA ReturnKeepsCalls ==
  ASSUME CallsOK, NEW c \in Calls, Return(c), UNCHANGED <<era, raced>>, vouched => vouched'
  PROVE  CallsOK'
  <1>1. Idle.step \notin Vouching /\ Idle.step \notin SigningIn
    BY DEF Idle, Vouching, SigningIn
  <1>2. QED
    BY <1>1, IdleIsCall, SlotKeepsCalls DEF Return

\* A call begins.
LEMMA BeginKeepsCalls ==
  ASSUME CallsOK, NEW c \in Calls, NEW s \in Steps,
         NEW o \in {"none", "sign_in", "reset_password", "refresh"},
         NEW l \in Links \cup {NoLink}, NEW k \in {VerifyLinks, ResetLinks}, NEW p \in Nat,
         Begin(c, s, o, l, k, p), UNCHANGED <<era, raced, vouched>>,
         s \in Vouching => vouched, s \in SigningIn => MissedOnlyRaced(p)
  PROVE  CallsOK'
  <1> DEFINE r == [step |-> s, proof |-> p, link |-> l, op |-> o, kind |-> k, token |-> 0]
  <1>1. r \in Call /\ r.step = s /\ r.proof = p /\ call' = [call EXCEPT ![c] = r]
    BY DEF Begin, Call
  <1> HIDE DEF r
  <1>2. QED
    BY <1>1, SlotKeepsCalls

-----------------------------------------------------------------------------
(* Revocations. *)

\* Nothing has been missed by who proves himself now.
LEMMA NowMissesNothing ==
  ASSUME era \in Nat PROVE MissedOnlyRaced(era)
  BY DEF MissedOnlyRaced

\* The calls that a revocation leaves alone stay as they should be.
LEMMA RevocationKeepsCall ==
  ASSUME CallsOK, era \in Nat, NEW others \in SUBSET Calls, Revocation(others),
         NEW c \in others, call'[c] = call[c]
  PROVE  call'[c].step \in SigningIn => \A e \in call'[c].proof + 1 .. era' : e \in raced'
  <1> SUFFICES ASSUME call[c].step \in SigningIn
               PROVE  \A e \in call[c].proof + 1 .. era' : e \in raced'
    OBVIOUS
  <1> DEFINE p == call[c].proof
  <1>1. p \in Nat /\ MissedOnlyRaced(p)
    BY DEF CallsOK, SignInsMissOnlyRaced, Call
  <1>2. era' = era + 1 /\ raced' = raced \cup {era + 1}
    BY DEF Revocation
  <1> HIDE DEF p
  <1>3. ASSUME NEW e \in p + 1 .. era + 1 PROVE e \in raced'
    <2>1. e = era + 1 \/ e \in p + 1 .. era
      BY <1>1
    <2>2. QED
      BY <1>1, <1>2, <2>1 DEF MissedOnlyRaced
  <1>4. QED
    BY <1>2, <1>3 DEF p

\* A revocation that no call of its own is behind keeps what is known of them.
LEMMA RevocationKeepsCalls ==
  ASSUME CallsOK, era \in Nat, Revocation(Calls), UNCHANGED call
  PROVE  CallsOK'
  <1>1. \A c \in Calls : call'[c].step \in SigningIn =>
                          \A e \in call'[c].proof + 1 .. era' : e \in raced'
    BY RevocationKeepsCall
  <1>2. SignInsMissOnlyRaced'
    BY <1>1 DEF SignInsMissOnlyRaced, MissedOnlyRaced
  <1>3. QED
    BY <1>2 DEF CallsOK, Revocation

\* Nor does one that a call makes, if its own slot is as it should be after.
LEMMA OwnRevocationKeepsCalls ==
  ASSUME CallsOK, era \in Nat, NEW c \in Calls, Revocation(Calls \ {c}),
         NEW r \in Call, call' = [call EXCEPT ![c] = r],
         r.step \in Vouching => vouched,
         r.step \in SigningIn => r.proof = era + 1
  PROVE  CallsOK'
  <1>1. /\ call' \in [Calls -> Call]
        /\ call'[c] = r
        /\ \A other \in Calls \ {c} : call'[other] = call[other]
    BY DEF CallsOK
  <1>2. era' = era + 1 /\ vouched' = vouched
    BY DEF Revocation
  <1>3. \A other \in Calls \ {c} : call'[other].step \in SigningIn =>
                          \A e \in call'[other].proof + 1 .. era' : e \in raced'
    BY <1>1, RevocationKeepsCall
  <1>4. r.step \in SigningIn => \A e \in r.proof + 1 .. era' : e \in raced'
    BY <1>2
  <1>5. SignInsMissOnlyRaced'
    BY <1>1, <1>3, <1>4 DEF SignInsMissOnlyRaced, MissedOnlyRaced
  <1>6. QED
    BY <1>1, <1>2, <1>5 DEF CallsOK

-----------------------------------------------------------------------------
(* Each group of actions keeps the invariant. *)

\* A step that leaves the rows and the history alone keeps the rows right.
LEMMA QuietKeepsRows ==
  ASSUME RowsOK, UNCHANGED <<account, session, held, era, raced, vouched>>,
         link' \in [Links -> {"none", "active", "expired", "consumed", "deleted"}],
         clock' \in Nat
  PROVE  RowsOK'
  BY DEF RowsOK, SignedInMeansVouched, RevocationMissesOnlySignIns, Live

\* The rows stay right when the account changes and is vouched for.
LEMMA AccountKeepsRows ==
  ASSUME RowsOK, UNCHANGED <<session, link, held, clock, era, raced>>,
         account' \in {"none", "unverified", "verified"}, vouched' \in BOOLEAN,
         vouched => vouched', account' = "verified" => vouched'
  PROVE  RowsOK'
  BY DEF RowsOK, SignedInMeansVouched, RevocationMissesOnlySignIns, Live

\* The rows stay right when no session is live any more.
LEMMA RevocationKeepsRows ==
  ASSUME RowsOK, NEW others, Revocation(others), UNCHANGED <<account, link, held, clock>>,
         session' \in [state : {"none", "live", "revoked"}, token : Nat, proof : Nat],
         session'.state # "live",
         session'.state # "none" => session.state # "none"
  PROVE  RowsOK'
  BY DEF RowsOK, Revocation, SignedInMeansVouched, RevocationMissesOnlySignIns, Live

\* Requests prove who the caller is, or ask for nothing that needs it.
LEMMA RequestKeepsAInv ==
  ASSUME AInv, NEW c \in Calls, Request(c) PROVE AInv'
  <1>0. CallsOK /\ RowsOK /\ era \in Nat /\ MissedOnlyRaced(era)
    BY TwoHalves, NowMissesNothing DEF RowsOK
  <1>1. UNCHANGED <<account, session, link, held, clock, era, raced, vouched>>
    BY DEF Request, Register, ResendVerification, ForgotPassword, Login, ChangePassword,
       OAuthSession, VerifyEmail, ResetPassword, Refresh, Logout, rows, history
  <1>2. RowsOK'
    BY <1>0, <1>1, QuietKeepsRows DEF RowsOK
  <1> SUFFICES CallsOK'
    BY <1>2, TwoHalves
  <1>3. \A s \in {"create_user", "delete_links", "logout_write"} :
          s \in Steps /\ s \notin Vouching /\ s \notin SigningIn
    BY DEF Steps, Vouching, SigningIn
  <1>4. \A s \in {"read_user", "consume", "read_oauth"} : s \in Steps /\ s \notin Vouching
    BY DEF Steps, Vouching, SigningIn
  <1>5. "revoke" \in Steps /\ "sign" \in Steps
    BY DEF Steps, SigningIn
  <1>6. CASE Register(c) \/ ResendVerification(c) \/ ForgotPassword(c)
    BY <1>0, <1>1, <1>3, <1>6, BeginKeepsCalls DEF Register, ResendVerification, ForgotPassword
  <1>7. CASE Login(c) \/ OAuthSession(c)
    BY <1>0, <1>1, <1>4, <1>7, BeginKeepsCalls DEF Login, OAuthSession, SignIn
  <1>8. CASE ChangePassword(c)
    BY <1>0, <1>1, <1>5, <1>8, BeginKeepsCalls DEF ChangePassword, SignIn, RowsOK
  <1>9. ASSUME NEW l \in Links, VerifyEmail(c, l) \/ ResetPassword(c, l) PROVE CallsOK'
    BY <1>0, <1>1, <1>4, <1>9, BeginKeepsCalls DEF VerifyEmail, ResetPassword, SignIn
  <1>10. ASSUME NEW t \in held, Refresh(c, t) PROVE CallsOK'
    <2>1. /\ session.state = "live"
          /\ Begin(c, "sign", "refresh", NoLink, VerifyLinks, session.proof)
      BY <1>10 DEF Refresh
    <2>2. session.proof \in Nat /\ MissedOnlyRaced(session.proof) /\ vouched
      BY <1>0, <2>1 DEF RowsOK, RevocationMissesOnlySignIns, Live, MissedOnlyRaced,
         SignedInMeansVouched
    <2>3. QED
      BY <1>0, <1>1, <1>5, <2>1, <2>2, BeginKeepsCalls
  <1>11. ASSUME NEW t \in held, Logout(c, t) PROVE CallsOK'
    BY <1>0, <1>1, <1>3, <1>11, BeginKeepsCalls DEF Logout
  <1>12. QED
    BY <1>6, <1>7, <1>8, <1>9, <1>10, <1>11 DEF Request, Links

\* The links: what happens to them is nobody's proof until it is consumed.
LEMMA LinkStepKeepsAInv ==
  ASSUME AInv, NEW c \in Calls, DeleteLinks(c) \/ CreateLink(c) \/ Consume(c) PROVE AInv'
  <1>0. CallsOK /\ RowsOK
    BY TwoHalves
  <1>1. UNCHANGED <<account, session, held, clock, era, raced, vouched>>
    BY DEF DeleteLinks, CreateLink, Consume, history
  <1>2. link' \in [Links -> {"none", "active", "expired", "consumed", "deleted"}]
    <2>1. CASE DeleteLinks(c)
      BY <1>0, <2>1 DEF DeleteLinks, RowsOK
    <2>2. CASE CreateLink(c)
      BY <1>0, <2>2 DEF CreateLink, RowsOK
    <2>3. CASE Consume(c)
      BY <1>0, <2>3 DEF Consume, RowsOK
    <2>4. QED
      BY <2>1, <2>2, <2>3
  <1>3. RowsOK'
    BY <1>0, <1>1, <1>2, QuietKeepsRows DEF RowsOK
  <1>4. CallsOK'
    <2>1. CASE Return(c)
      BY <1>0, <1>1, <2>1, ReturnKeepsCalls
    <2>2. CASE DeleteLinks(c)
      <3>1. "create_link" \in Steps /\ "create_link" \notin Vouching /\ "create_link" \notin SigningIn
        BY DEF Steps, Vouching, SigningIn
      <3>2. QED
        BY <1>0, <1>1, <2>2, <3>1, GotoKeepsCalls DEF DeleteLinks
    <2>3. CASE Consume(c) /\ ~Return(c)
      <3>1. call[c].step \in SigningIn
        BY <2>3 DEF Consume, At, SigningIn
      <3>2. PICK s \in {"revoke", "verify"} : Goto(c, s) /\ (s = "revoke" => account = "verified")
        BY <2>3 DEF Consume
      <3>3. s \in Steps /\ (s \in Vouching => vouched)
        BY <1>0, <3>2 DEF Steps, SigningIn, Vouching, RowsOK
      <3>4. QED
        BY <1>0, <1>1, <3>1, <3>2, <3>3, GotoKeepsCalls
    <2>4. QED
      BY <2>1, <2>2, <2>3 DEF CreateLink
  <1>5. QED
    BY <1>3, <1>4, TwoHalves

\* The account: whoever is let through to sign has been vouched for.
LEMMA AccountStepKeepsAInv ==
  ASSUME AInv, NEW c \in Calls,
         CreateUser(c) \/ SetVerified(c) \/ CreateOAuthUser(c)
  PROVE  AInv'
  <1>0. CallsOK /\ RowsOK
    BY TwoHalves
  <1>1. UNCHANGED <<session, link, held, clock, era, raced>>
    BY DEF CreateUser, SetVerified, CreateOAuthUser, history
  <1>2. /\ account' \in {"none", "unverified", "verified"}
        /\ vouched' \in BOOLEAN
        /\ vouched => vouched'
        /\ account' = "verified" => vouched'
    BY <1>0 DEF CreateUser, SetVerified, CreateOAuthUser, history, RowsOK
  <1>3. RowsOK'
    BY <1>0, <1>1, <1>2, AccountKeepsRows
  <1>4. CallsOK'
    <2>1. CASE Return(c)
      BY <1>0, <1>1, <1>2, <2>1, ReturnKeepsCalls
    <2>2. CASE CreateUser(c) /\ ~Return(c)
      <3>1. /\ "delete_links" \in Steps
            /\ "delete_links" \notin Vouching /\ "delete_links" \notin SigningIn
        BY DEF Steps, Vouching, SigningIn
      <3>2. QED
        BY <1>0, <1>1, <1>2, <2>2, <3>1, GotoKeepsCalls DEF CreateUser
    <2>3. CASE (SetVerified(c) \/ CreateOAuthUser(c)) /\ ~Return(c)
      <3>1. call[c].step \in SigningIn /\ vouched'
        BY <2>3 DEF SetVerified, CreateOAuthUser, At, SigningIn
      <3>2. PICK s \in {"revoke", "sign"} : Goto(c, s)
        BY <2>3 DEF SetVerified, CreateOAuthUser
      <3>3. s \in Steps
        BY DEF Steps, SigningIn
      <3>4. QED
        BY <1>0, <1>1, <1>2, <3>1, <3>2, <3>3, GotoKeepsCalls
    <2>4. QED
      BY <2>1, <2>2, <2>3
  <1>5. QED
    BY <1>3, <1>4, TwoHalves

\* The checks before a sign-in, and signing itself, touch no row.
LEMMA CheckKeepsAInv ==
  ASSUME AInv, NEW c \in Calls, ReadUser(c) \/ ReadOAuthUser(c) \/ Sign(c) \/ Fail(c)
  PROVE  AInv'
  <1>0. CallsOK /\ RowsOK
    BY TwoHalves
  <1>1. UNCHANGED <<account, session, link, held, clock, era, raced, vouched>>
    BY DEF ReadUser, ReadOAuthUser, Sign, Fail, rows, history
  <1>2. RowsOK'
    BY <1>0, <1>1, QuietKeepsRows DEF RowsOK
  <1>3. CallsOK'
    <2>1. CASE Return(c)
      BY <1>0, <1>1, <2>1, ReturnKeepsCalls
    <2>2. CASE (ReadUser(c) \/ ReadOAuthUser(c)) /\ ~Return(c)
      <3>1. call[c].step \in SigningIn
        BY <2>2 DEF ReadUser, ReadOAuthUser, At, SigningIn
      <3>2. PICK s \in {"create_oauth", "verify", "sign"} :
              Goto(c, s) /\ (s = "sign" => account \notin {"none", "unverified"})
        BY <2>2 DEF ReadUser, ReadOAuthUser
      <3>3. s \in Steps /\ (s \in Vouching => vouched)
        BY <1>0, <3>2 DEF Steps, SigningIn, Vouching, RowsOK
      <3>4. QED
        BY <1>0, <1>1, <3>1, <3>2, <3>3, GotoKeepsCalls
    <2>3. CASE Sign(c)
      <3> DEFINE r == [call[c] EXCEPT !.step = "upsert", !.token = clock]
      <3>0. call[c] \in Call /\ clock \in Nat /\ "upsert" \in Steps
        BY <1>0 DEF CallsOK, RowsOK, Steps, SigningIn
      <3>1. r \in Call /\ r.step = "upsert" /\ r.proof = call[c].proof
        BY <3>0 DEF Call
      <3>5. call' = [call EXCEPT ![c] = r]
        BY <2>3 DEF Sign
      <3> HIDE DEF r
      <3>2. call[c].step = "sign"
        BY <2>3 DEF Sign, At
      <3>3. vouched /\ MissedOnlyRaced(r.proof)
        BY <1>0, <3>1, <3>2 DEF CallsOK, Vouching, SigningIn, SignInsMissOnlyRaced
      <3>6. QED
        BY <1>0, <1>1, <3>1, <3>5, <3>3, SlotKeepsCalls
    <2>4. QED
      BY <2>1, <2>2, <2>3 DEF Fail
  <1>4. QED
    BY <1>2, <1>3, TwoHalves

\* The row becomes what the call that wrote it was entitled to.
LEMMA UpsertKeepsAInv ==
  ASSUME AInv, NEW c \in Calls, Upsert(c) PROVE AInv'
  <1>0. CallsOK /\ RowsOK
    BY TwoHalves
  <1>1. /\ UNCHANGED <<account, link, held, clock, era, raced, vouched>>
        /\ session' = Session(call[c].token, call[c].proof)
        /\ call[c].step = "upsert" /\ Goto(c, "reply")
    BY DEF Upsert, At, history
  <1>2. vouched /\ MissedOnlyRaced(call[c].proof)
    BY <1>0, <1>1 DEF CallsOK, Vouching, SigningIn, SignInsMissOnlyRaced
  <1>3. call[c].token \in Nat /\ call[c].proof \in Nat
    BY <1>0 DEF CallsOK, Call
  <1>4. RowsOK'
    BY <1>0, <1>1, <1>2, <1>3
    DEF RowsOK, Session, SignedInMeansVouched, RevocationMissesOnlySignIns, MissedOnlyRaced, Live
  <1>5. "reply" \in Steps /\ "reply" \notin SigningIn
    BY DEF Steps, SigningIn
  <1>6. CallsOK'
    BY <1>0, <1>1, <1>2, <1>5, GotoKeepsCalls
  <1>7. QED
    BY <1>4, <1>6, TwoHalves

\* Whoever holds a token has been vouched for.
LEMMA ReplyKeepsAInv ==
  ASSUME AInv, NEW c \in Calls, Reply(c) PROVE AInv'
  <1>0. CallsOK /\ RowsOK
    BY TwoHalves
  <1>1. /\ UNCHANGED <<account, session, link, clock, era, raced, vouched>>
        /\ held' = held \cup {call[c].token}
        /\ call[c].step = "reply" /\ Return(c)
    BY DEF Reply, At, rows, history
  <1>2. vouched /\ call[c].token \in Nat
    BY <1>0, <1>1 DEF CallsOK, Vouching, Call
  <1>3. RowsOK'
    BY <1>0, <1>1, <1>2 DEF RowsOK, SignedInMeansVouched, RevocationMissesOnlySignIns, Live
  <1>4. CallsOK'
    BY <1>0, <1>1, ReturnKeepsCalls
  <1>5. QED
    BY <1>3, <1>4, TwoHalves

\* A call that revokes proves itself anew or ends.
LEMMA RevokeKeepsAInv ==
  ASSUME AInv, NEW c \in Calls, Revoke(c) PROVE AInv'
  <1>0. CallsOK /\ RowsOK /\ era \in Nat
    BY TwoHalves DEF RowsOK
  <1>1. /\ Revocation(Calls \ {c}) /\ RevokeSessions /\ call[c].step = "revoke"
        /\ call' = [call EXCEPT ![c] = [@ EXCEPT !.step = "sign", !.proof = era + 1]]
        /\ UNCHANGED <<account, link, held, clock>>
    BY DEF Revoke, At
  <1>2. RowsOK'
    BY <1>0, <1>1, RevocationKeepsRows DEF RowsOK, RevokeSessions
  <1>3. CallsOK'
    <2> DEFINE r == [call[c] EXCEPT !.step = "sign", !.proof = era + 1]
    <2>0. call[c] \in Call /\ era + 1 \in Nat /\ "sign" \in Steps
      BY <1>0 DEF CallsOK, Steps, SigningIn
    <2>1. r \in Call /\ r.step = "sign" /\ r.proof = era + 1
      BY <2>0 DEF Call
    <2>4. call' = [call EXCEPT ![c] = r]
      BY <1>1
    <2> HIDE DEF r
    <2>2. vouched
      BY <1>0, <1>1 DEF CallsOK, Vouching
    <2>5. QED
      BY <1>0, <1>1, <2>1, <2>4, <2>2, OwnRevocationKeepsCalls
  <1>4. QED
    BY <1>2, <1>3, TwoHalves

\* And logout, which revokes whatever the row has become.
LEMMA LogoutWriteKeepsAInv ==
  ASSUME AInv, NEW c \in Calls, LogoutWrite(c) PROVE AInv'
  <1>0. CallsOK /\ RowsOK /\ era \in Nat
    BY TwoHalves DEF RowsOK
  <1>1. call' = [call EXCEPT ![c] = Idle] /\ UNCHANGED <<account, link, held, clock>>
    BY DEF LogoutWrite, Return
  <1>2. CASE UNCHANGED <<session, history>>
    <2>1. RowsOK'
      BY <1>0, <1>1, <1>2, QuietKeepsRows DEF RowsOK, history
    <2>2. CallsOK'
      BY <1>0, <1>1, <1>2, ReturnKeepsCalls DEF Return, history
    <2>3. QED
      BY <2>1, <2>2, TwoHalves
  <1>3. CASE /\ session.state # "none" /\ Revocation(Calls \ {c})
             /\ session' = [session EXCEPT !.state = "revoked"]
    <2>1. RowsOK'
      BY <1>0, <1>1, <1>3, RevocationKeepsRows DEF RowsOK
    <2>2. Idle \in Call /\ Idle.step \notin Vouching /\ Idle.step \notin SigningIn
      BY IdleIsCall DEF Idle, Vouching, SigningIn
    <2>3. CallsOK'
      BY <1>0, <1>1, <1>3, <2>2, OwnRevocationKeepsCalls
    <2>4. QED
      BY <2>1, <2>3, TwoHalves
  <1>4. QED
    BY <1>2, <1>3 DEF LogoutWrite

\* Revocations and writes that do not belong to a call, and time.
LEMMA OutsideKeepsAInv ==
  ASSUME AInv,
         \/ LogoutAll \/ AdminDropsSession \/ Tick
         \/ \E v \in {"unverified", "verified"} : AdminSetsVerification(v)
         \/ \E l \in Links : LinkExpires(l)
  PROVE  AInv'
  <1>0. CallsOK /\ RowsOK /\ era \in Nat
    BY TwoHalves DEF RowsOK
  <1>1. CASE LogoutAll \/ AdminDropsSession
    <2>1. /\ Revocation(Calls) /\ UNCHANGED <<account, link, held, clock, call>>
          /\ session' \in [state : {"none", "live", "revoked"}, token : Nat, proof : Nat]
          /\ session'.state # "live"
          /\ session'.state # "none" => session.state # "none"
      BY <1>0, <1>1 DEF LogoutAll, AdminDropsSession, RevokeSessions, RowsOK
    <2>2. RowsOK'
      BY <1>0, <2>1, RevocationKeepsRows
    <2>3. CallsOK'
      BY <1>0, <2>1, RevocationKeepsCalls
    <2>4. QED
      BY <2>2, <2>3, TwoHalves
  <1>2. CASE \E v \in {"unverified", "verified"} : AdminSetsVerification(v)
    <2>1. /\ UNCHANGED <<session, link, held, clock, era, raced, call>>
          /\ account' \in {"none", "unverified", "verified"} /\ vouched' \in BOOLEAN
          /\ vouched => vouched'
          /\ account' = "verified" => vouched'
      BY <1>0, <1>2 DEF AdminSetsVerification, RowsOK
    <2>2. RowsOK'
      BY <1>0, <2>1, AccountKeepsRows
    <2>3. CallsOK'
      BY <1>0, <2>1 DEF CallsOK, SignInsMissOnlyRaced, MissedOnlyRaced
    <2>4. QED
      BY <2>2, <2>3, TwoHalves
  <1>3. CASE Tick \/ \E l \in Links : LinkExpires(l)
    <2>1. /\ UNCHANGED <<account, session, held, era, raced, vouched, call>>
          /\ clock' \in Nat
          /\ link' \in [Links -> {"none", "active", "expired", "consumed", "deleted"}]
      BY <1>0, <1>3 DEF Tick, LinkExpires, rows, history, RowsOK
    <2>2. RowsOK'
      BY <1>0, <2>1, QuietKeepsRows
    <2>3. CallsOK'
      BY <1>0, <2>1 DEF CallsOK, SignInsMissOnlyRaced, MissedOnlyRaced
    <2>4. QED
      BY <2>2, <2>3, TwoHalves
  <1>4. QED
    BY <1>1, <1>2, <1>3

-----------------------------------------------------------------------------
\* Nobody has asked for anything yet.
LEMMA InitEstablishesAInv == Init => AInv
  <1> SUFFICES ASSUME Init PROVE AInv
    OBVIOUS
  <1>1. TypeOK
    BY IdleIsCall DEF Init, TypeOK
  <1>2. SignedInMeansVouched /\ RevocationMissesOnlySignIns
    BY DEF Init, SignedInMeansVouched, RevocationMissesOnlySignIns, Live
  <1>3. VouchedCalls /\ SignInsMissOnlyRaced
    BY DEF Init, VouchedCalls, SignInsMissOnlyRaced, Idle, Vouching, SigningIn
  <1>4. QED
    BY <1>1, <1>2, <1>3 DEF AInv

\* Every step of every call keeps the invariant.
LEMMA StepKeepsAInv == AInv /\ [Next]_vars => AInv'
  <1> SUFFICES ASSUME AInv, [Next]_vars PROVE AInv'
    OBVIOUS
  <1>1. ASSUME NEW c \in Calls, Continue(c) PROVE AInv'
    BY <1>1, LinkStepKeepsAInv, AccountStepKeepsAInv, CheckKeepsAInv, UpsertKeepsAInv,
       ReplyKeepsAInv, RevokeKeepsAInv, LogoutWriteKeepsAInv DEF Continue
  <1>2. CASE UNCHANGED vars
    BY <1>2 DEF vars, rows, history, AInv, TypeOK, VouchedCalls, SignedInMeansVouched,
       SignInsMissOnlyRaced, MissedOnlyRaced, RevocationMissesOnlySignIns, Live
  <1>3. QED
    BY <1>1, <1>2, RequestKeepsAInv, CheckKeepsAInv, OutsideKeepsAInv DEF Next

\* AInv holds in every reachable state, for any number of overlapping calls.
THEOREM AuthInvariantHolds == Spec => []AInv
  BY InitEstablishesAInv, StepKeepsAInv, PTL DEF Spec

\* Nobody is signed in to an account that nobody has vouched for.
THEOREM SessionsAreVouchedFor == Spec => []SignedInMeansVouched
  <1>1. AInv => SignedInMeansVouched
    BY DEF AInv
  <1>2. QED
    BY AuthInvariantHolds, <1>1, PTL

\* Only a sign-in that a revocation raced with outlives the revocation.
THEOREM RevocationsAreHonoured == Spec => []RevocationMissesOnlySignIns
  <1>1. AInv => RevocationMissesOnlySignIns
    BY DEF AInv
  <1>2. QED
    BY AuthInvariantHolds, <1>1, PTL

-----------------------------------------------------------------------------
(* The pages of the account.  What they know of Supabase and of the rows   *)
(* follows from where the call of each form is.                            *)

AForm == [at : Forms, current : Passwords \cup {None}, typed : Passwords \cup {None},
          link : Links \cup {NoLink}]
Shown == [verified : BOOLEAN, role : Roles \cup {None}, disabled : BOOLEAN]

PagesTyped ==
  /\ TypeOK
  /\ supa \in [there : BOOLEAN, banned : BOOLEAN, password : Passwords \cup {None},
               role : Roles \cup {None}]
  /\ role \in Roles \cup {None}
  /\ known \in Passwords \cup {None}
  /\ form \in [Calls -> AForm \cup {None}]
  /\ stage \in [Calls -> {"none", "create", "check", "set"}]
  /\ admin \in [step : {"shut", "open", "row", "supabase", "drop", "read"},
                op : Buttons \cup {"none"}, typed : Passwords \cup Roles \cup {None},
                shown : Shown \cup {None}]
  /\ admin.op = "password" => admin.typed \in Passwords
  /\ admin.op = "role" => admin.typed \in Roles
  /\ amiss \subseteq {"rows", "role", "ban", "password", "link"}
  /\ mix.direct => \A c \in Calls : form[c] = None /\ stage[c] = "none"

\* The steps of a call at which there need not be a row yet.
Rowless == {"idle", "create_user", "read_oauth", "create_oauth"}

\* Where the call of a form that waits may be, and what it waits for.
IsAt(at, asked, c) ==
  LET step == call[c].step IN
  \/ /\ at = "register" /\ asked = "create" /\ step = "create_user"
  \/ /\ at = "register" /\ asked = "none" /\ supa.there
     /\ step \in {"create_user", "delete_links", "create_link"}
  \/ at = "login" /\ asked = "check" /\ step = "idle"
  \/ at = "login" /\ asked = "none" /\ step \in {"read_user", "sign", "upsert", "reply"}
  \/ at \in {"resend", "forgot"} /\ asked = "none" /\ step \in {"delete_links", "create_link"}
  \/ /\ at = "verify" /\ asked = "none" /\ call[c].op = "sign_in"
     /\ step \in {"consume", "verify", "sign", "upsert", "reply"}
  \/ /\ at = "reset" /\ asked = "set" /\ call[c].op = "reset_password"
     /\ step \in {"consume", "verify", "revoke"}
  \/ at = "reset" /\ asked = "none" /\ step \in {"revoke", "sign", "upsert", "reply"}
  \/ at = "change" /\ asked \in {"check", "set"} /\ step = "idle"
  \/ at = "change" /\ asked = "none" /\ step \in {"revoke", "sign", "upsert", "reply"}
  \/ /\ at = "callback" /\ asked = "none" /\ supa.there /\ call[c].op = "sign_in"
     /\ step \in {"read_oauth", "create_oauth", "verify", "sign", "upsert", "reply"}

\* A form without a call waits for the answer to a question, and every call is a form's.
FormInStep(c) ==
  /\ form[c] = None => stage[c] = "none" /\ call[c].step = "idle"
  /\ form[c] # None =>
       /\ IsAt(form[c].at, stage[c], c)
       /\ form[c].link # NoLink <=> form[c].at \in {"verify", "reset"}
       /\ form[c].at \in {"register", "reset", "change"} => form[c].typed \in Passwords
  /\ call[c].step = "consume" => call[c].link = form[c].link
  /\ call[c].step \notin Rowless => account # "none"
FormsInStep == \A c \in Calls : FormInStep(c)

\* Whatever there is of an account rests on its row, and the row on Supabase.
Founded ==
  /\ account # "none" => supa.there
  /\ role = None <=> account = "none"
  /\ \A l \in Links : link[l] # "none" => account # "none"
  /\ held # {} \/ admin.step # "shut" => account # "none"
  /\ known # None => supa.there

\* Somebody who is on his way to a row.
SigningUp(c) == call[c].step \in {"create_user", "read_oauth", "create_oauth"} /\ stage[c] = "none"
RowsFollow == supa.there /\ account = "none" /\ "rows" \notin amiss => \E c \in Calls : SigningUp(c)

\* The admin's change of a role, at each of its steps.
RoleGoesThrough ==
  "role" \notin amiss =>
    /\ admin.op # "role" \/ admin.step \in {"row"} => role = None \/ supa.role \in {None, role}
    /\ admin.op = "role" /\ admin.step # "row" => role = admin.typed
    /\ admin.op = "role" /\ admin.step \in {"drop", "read"} => supa.role = role

\* At which steps he asks for what.
RoleSteps == admin.op = "role" => admin.step \in {"row", "supabase", "drop", "read"}
SupabaseOps == admin.step = "supabase" => admin.op \in {"password", "role", "disable", "enable"}

\* What the admin has been shown of the ban, until he lifts or sets it.
BanIsShown ==
  /\ admin.step = "shut" => admin.shown = None
  /\ "ban" \notin amiss =>
       /\ admin.step \in {"open", "row", "supabase"} => admin.shown.disabled = supa.banned
       /\ admin.op \notin {"disable", "enable"} =>
            admin.shown = None \/ admin.shown.disabled = supa.banned

PagesInv ==
  /\ PagesTyped
  /\ ~mix.direct => /\ FormsInStep /\ Founded /\ RowsFollow /\ LinksArePaidFor
                    /\ RoleGoesThrough /\ RoleSteps /\ SupabaseOps /\ BanIsShown

\* Two who have set a password, and have not been told, have overlapped.
OneSets ==
  "password" \notin amiss =>
    /\ \A c, d \in Calls : HasSet(c) /\ HasSet(d) => c = d
    /\ AdminHasSet => \A c \in Calls : ~HasSet(c)

\* Whoever has set it alone will be told the truth.
SetIsTrue ==
  "password" \notin amiss =>
    /\ AdminHasSet => supa.password = admin.typed
    /\ \A c \in Calls : HasSet(c) => /\ supa.password = form[c].typed
                                     /\ form[c].at = "register" => known = None

\* Setting a password is the admin's only step for it before the session is dropped.
PasswordSteps == admin.op = "password" => admin.step \in {"supabase", "drop", "read"}

PasswordInv == OneSets /\ SetIsTrue /\ PasswordSteps /\ PasswordIsKnown

-----------------------------------------------------------------------------
(* What the pages do is done by the calls. *)

\* The session of a member is that of his registration, which nothing has revoked.
LEMMA AccountInitEstablishesAInv == AccountInit => AInv
  <1> SUFFICES ASSUME AccountInit PROVE AInv
    OBVIOUS
  <1>1. CASE Init
    BY <1>1, InitEstablishesAInv
  <1>2. CASE /\ account = "verified" /\ vouched = TRUE
             /\ session = Session(0, 0) /\ held = {0}
             /\ link = [l \in Links |-> "none"]
             /\ clock = 0 /\ era = 0 /\ raced = {} /\ call = [c \in Calls |-> Idle]
    <2>1. TypeOK
      BY <1>2, IdleIsCall DEF TypeOK, Session
    <2>2. SignedInMeansVouched /\ RevocationMissesOnlySignIns
      BY <1>2 DEF SignedInMeansVouched, RevocationMissesOnlySignIns, Session
    <2>3. VouchedCalls /\ SignInsMissOnlyRaced
      BY <1>2 DEF VouchedCalls, SignInsMissOnlyRaced, Idle, Vouching, SigningIn
    <2>4. QED
      BY <2>1, <2>2, <2>3 DEF AInv
  <1>3. QED
    BY <1>1, <1>2 DEF AccountInit

\* A form is sent, or Supabase is asked, with a request of the account's API or none.
LEMMA FormIsAuthStep ==
  ASSUME NEW c \in Calls,
         \/ \E p \in Passwords : SendRegister(c, p) \/ SendLogin(c, p)
         \/ SendResend(c) \/ SendForgot(c) \/ ComeBack(c)
         \/ \E l \in VerifyLinks : OpenVerifyLink(c, l)
         \/ \E l \in ResetLinks, p \in Passwords : SendReset(c, l, p)
         \/ \E old, p \in Passwords : SendChange(c, old, p)
  PROVE  [Next]_vars
  <1>1. Request(c) \/ UNCHANGED vars
    BY DEF SendRegister, SendLogin, SendResend, SendForgot, ComeBack, OpenVerifyLink, SendReset,
       SendChange, Request
  <1>2. QED
    BY <1>1 DEF Next

\* A handler takes the next step of its call, or fails.
LEMMA HandlerIsAuthStep ==
  ASSUME NEW c \in Calls, SupabaseDoes(c) \/ SupabaseRefuses(c) \/ GoOn(c) \/ GiveUp(c)
  PROVE  [Next]_vars
  <1>1. Request(c) \/ Continue(c) \/ Fail(c) \/ UNCHANGED vars
    BY DEF SupabaseDoes, SupabaseRefuses, GoOn, GiveUp, Request
  <1>2. QED
    BY <1>1 DEF Next

\* The admin writes the rows through his own endpoints.
LEMMA AdminIsAuthStep ==
  ASSUME AdminNext PROVE [Next]_vars
  <1>1. \/ AdminDropsSession \/ UNCHANGED vars
        \/ \E v \in {"unverified", "verified"} : AdminSetsVerification(v)
    BY DEF AdminNext, OpenUser, Press, AdminWritesRow, AdminAsksSupabase, AdminDrops,
       AdminIsShown, AdminFails
  <1>2. QED
    BY <1>1 DEF Next

\* Every step of the pages is a step of the account's rows and calls, or none.
LEMMA AccountStepIsAuthStep ==
  ASSUME [AccountNext]_allVars PROVE [Next]_vars
  <1>1. CASE Direct
    BY <1>1 DEF Direct, Next
  <1>2. CASE UserNext
    BY <1>2, FormIsAuthStep, HandlerIsAuthStep DEF UserNext, Next
  <1>3. CASE AdminNext
    BY <1>3, AdminIsAuthStep
  <1>4. QED
    BY <1>1, <1>2, <1>3 DEF AccountNext, allVars

\* Behind the pages, and for who is a member already, the rows keep their invariant.
LEMMA PagesKeepAInv == AccountSpec => []AInv
  <1>1. AInv /\ [AccountNext]_allVars => AInv'
    BY AccountStepIsAuthStep, StepKeepsAInv
  <1>2. QED
    BY AccountInitEstablishesAInv, <1>1, PTL DEF AccountSpec

\* The pages do to an account only what its API allows.
THEOREM PagesTakeAuthSteps == AccountSpec => [][Next]_vars
  BY AccountStepIsAuthStep, PTL DEF AccountSpec

\* Nobody is signed in to an account that nobody has vouched for, by the pages either.
THEOREM PagesAreVouchedFor == AccountSpec => []SignedInMeansVouched
  <1>1. AInv => SignedInMeansVouched
    BY DEF AInv
  <1>2. QED
    BY PagesKeepAInv, <1>1, PTL

\* Nor do the pages or the admin's let a session outlive a revocation it did not race with.
THEOREM PagesHonourRevocations == AccountSpec => []RevocationMissesOnlySignIns
  <1>1. AInv => RevocationMissesOnlySignIns
    BY DEF AInv
  <1>2. QED
    BY PagesKeepAInv, <1>1, PTL

-----------------------------------------------------------------------------
(* What the steps do to one tab. *)

\* A form is one, and is not none.
LEMMA FormIsForm ==
  ASSUME NEW at \in Forms, NEW cur \in Passwords \cup {None}, NEW typed \in Passwords \cup {None},
         NEW l \in Links \cup {NoLink}
  PROVE  /\ Form(at, cur, typed, l) \in AForm /\ Form(at, cur, typed, l) # None
         /\ Form(at, cur, typed, l).at = at /\ Form(at, cur, typed, l).typed = typed
         /\ Form(at, cur, typed, l).link = l
  BY AccountAssumption DEF Form, AForm

\* The tab whose slot is replaced, and the others.
LEMMA TabChanges ==
  ASSUME PagesTyped, NEW c \in Calls, NEW f \in AForm \cup {None},
         NEW q \in {"none", "create", "check", "set"},
         form' = [form EXCEPT ![c] = f], stage' = [stage EXCEPT ![c] = q]
  PROVE  /\ form' \in [Calls -> AForm \cup {None}]
         /\ stage' \in [Calls -> {"none", "create", "check", "set"}]
         /\ form'[c] = f /\ stage'[c] = q
         /\ \A d \in Calls \ {c} : form'[d] = form[d] /\ stage'[d] = stage[d]
  BY DEF PagesTyped

\* A call that begins, in its slot.
LEMMA CallBegins ==
  ASSUME TypeOK, NEW c \in Calls, NEW s, NEW o, NEW l, NEW k, NEW p, Begin(c, s, o, l, k, p)
  PROVE  /\ call[c].step = "idle" /\ call'[c].step = s /\ call'[c].op = o /\ call'[c].link = l
         /\ \A d \in Calls \ {c} : call'[d] = call[d]
  BY DEF Begin, TypeOK, At

\* A call that ends, in its slot.
LEMMA CallReturns ==
  ASSUME TypeOK, NEW c \in Calls, Return(c)
  PROVE  call'[c].step = "idle" /\ \A d \in Calls \ {c} : call'[d] = call[d]
  BY DEF Return, TypeOK, Idle

\* A call that moves to its next await, in its slot.
LEMMA CallMoves ==
  ASSUME TypeOK, NEW c \in Calls, NEW s, Goto(c, s)
  PROVE  /\ call'[c].step = s /\ call'[c].op = call[c].op /\ call'[c].link = call[c].link
         /\ \A d \in Calls \ {c} : call'[d] = call[d]
  BY DEF Goto, TypeOK, Call

\* Where a call goes on to, and what it has seen or done there.
Onward(c, next) ==
  LET step == call[c].step IN
  \/ step \in {"create_user", "create_oauth"} /\ account # "none" /\ next = "idle"
  \/ /\ step \in {"create_user", "create_oauth"} /\ account = "none" /\ account' # "none"
     /\ next = IF step = "create_user" THEN "delete_links" ELSE "sign"
  \/ step = "delete_links" /\ next = "create_link"
  \/ step \in {"create_link", "reply", "logout_write"} /\ next = "idle"
  \/ step = "read_user" /\ next = "idle"
  \/ step = "read_user" /\ account # "none" /\ next = "sign"
  \/ step = "consume" /\ link[call[c].link] = "deleted" /\ UNCHANGED link /\ next = "idle"
  \/ step = "consume" /\ next = "verify"
  \/ step = "consume" /\ call[c].op = "reset_password" /\ next = "revoke"
  \/ step = "verify" /\ account' # "none" /\ next = IF call[c].op = "reset_password" THEN "revoke" ELSE "sign"
  \/ step = "read_oauth" /\ next = "create_oauth"
  \/ step = "read_oauth" /\ account # "none" /\ next \in {"verify", "sign"}
  \/ step = "revoke" /\ next = "sign"
  \/ step = "sign" /\ next = "upsert"
  \/ step = "upsert" /\ next = "reply"

\* Every step of a call that goes on is one of these.
LEMMA ContinueMoves ==
  ASSUME TypeOK, NEW c \in Calls, Continue(c)
  PROVE  /\ Onward(c, call'[c].step)
         /\ \A d \in Calls \ {c} : call'[d] = call[d]
         /\ call'[c].step # "idle" => call'[c].op = call[c].op /\ call'[c].link = call[c].link
  <1>1. CASE CreateUser(c)
    BY <1>1, CallReturns, CallMoves DEF CreateUser, Onward, At
  <1>2. CASE DeleteLinks(c)
    BY <1>2, CallMoves DEF DeleteLinks, Onward, At
  <1>3. CASE CreateLink(c) \/ Reply(c) \/ LogoutWrite(c)
    BY <1>3, CallReturns DEF CreateLink, Reply, LogoutWrite, Onward, At
  <1>4. CASE ReadUser(c)
    BY <1>4, CallReturns, CallMoves DEF ReadUser, Onward, At
  <1>5. CASE Consume(c)
    BY <1>5, CallReturns, CallMoves DEF Consume, Onward, At
  <1>6. CASE SetVerified(c)
    BY <1>6, CallMoves DEF SetVerified, Onward, At
  <1>7. CASE ReadOAuthUser(c)
    BY <1>7, CallMoves DEF ReadOAuthUser, Onward, At
  <1>8. CASE CreateOAuthUser(c)
    BY <1>8, CallReturns, CallMoves DEF CreateOAuthUser, Onward, At
  <1>9. CASE Sign(c)
    <2>1. call' = [call EXCEPT ![c] = [call[c] EXCEPT !.step = "upsert", !.token = clock]]
      BY <1>9 DEF Sign
    <2>2. QED
      BY <1>9, <2>1 DEF Sign, Onward, At, TypeOK, Call
  <1>10. CASE Upsert(c)
    BY <1>10, CallMoves DEF Upsert, Onward, At
  <1>11. CASE Revoke(c)
    <2>1. call' = [call EXCEPT ![c] = [call[c] EXCEPT !.step = "sign", !.proof = era + 1]]
      BY <1>11 DEF Revoke
    <2>2. QED
      BY <1>11, <2>1 DEF Revoke, Onward, At, TypeOK, Call
  <1>12. QED
    BY <1>1, <1>2, <1>3, <1>4, <1>5, <1>6, <1>7, <1>8, <1>9, <1>10, <1>11 DEF Continue

\* What it does to the rows.
LEMMA ContinueWrites ==
  ASSUME TypeOK, NEW c \in Calls, Continue(c)
  PROVE  /\ account # "none" => account' # "none"
         /\ \A l \in Links : link'[l] # "none" =>
              link[l] # "none" \/ call[c].step \in {"create_link", "consume"}
         /\ \A l \in Links : link'[l] = "consumed" =>
              link[l] = "consumed" \/ (call[c].step = "consume" /\ l = call[c].link /\ call'[c].step # "idle")
         /\ held' # {} => held # {} \/ call[c].step = "reply"
  <1>1. CASE Consume(c) /\ ~Return(c)
    <2>1. call'[c].step # "idle" /\ link' = [link EXCEPT ![call[c].link] = "consumed"]
          /\ call[c].step = "consume" /\ UNCHANGED <<account, held>>
      BY <1>1, CallMoves DEF Consume, At
    <2>2. QED
      BY <2>1 DEF TypeOK
  <1>2. CASE CreateLink(c)
    BY <1>2 DEF CreateLink, At, TypeOK
  <1>3. CASE DeleteLinks(c)
    BY <1>3 DEF DeleteLinks, TypeOK
  <1>4. CASE CreateUser(c) \/ (Consume(c) /\ Return(c))
    BY <1>4, CallReturns, CallMoves DEF CreateUser, Consume, At
  <1>5. CASE SetVerified(c) \/ CreateOAuthUser(c)
    BY <1>5 DEF SetVerified, CreateOAuthUser
  <1>6. CASE ReadUser(c) \/ ReadOAuthUser(c) \/ Sign(c)
    BY <1>6 DEF ReadUser, ReadOAuthUser, Sign, rows
  <1>7. CASE Upsert(c) \/ Revoke(c) \/ LogoutWrite(c)
    BY <1>7 DEF Upsert, Revoke, LogoutWrite
  <1>8. CASE Reply(c)
    BY <1>8 DEF Reply, At, rows
  <1>9. QED
    BY <1>1, <1>2, <1>3, <1>4, <1>5, <1>6, <1>7, <1>8 DEF Continue

-----------------------------------------------------------------------------
(* The invariant of the pages, part by part. *)

AdminInStep == RoleGoesThrough /\ RoleSteps /\ SupabaseOps /\ BanIsShown

\* The other tabs stay in step, as nothing of an account is ever taken away.
LEMMA OthersInStep ==
  ASSUME FormsInStep, NEW c \in Calls,
         \A d \in Calls \ {c} : form'[d] = form[d] /\ stage'[d] = stage[d] /\ call'[d] = call[d],
         supa.there => supa'.there, account # "none" => account' # "none", FormInStep(c)'
  PROVE  FormsInStep'
  <1>1. ASSUME NEW d \in Calls \ {c} PROVE FormInStep(d)'
    BY <1>1 DEF FormsInStep, FormInStep, IsAt
  <1>2. QED
    BY <1>1 DEF FormsInStep

\* A tab that waits for nothing is in step.
LEMMA SettledInStep ==
  ASSUME NEW c \in Calls, form'[c] = None, stage'[c] = "none", call'[c].step = "idle"
  PROVE  FormInStep(c)'
  BY DEF FormInStep, Rowless

\* The user's steps leave the admin's page behind the times only in what it does not rely on.
LEMMA UserKeepsAdminInStep ==
  ASSUME PagesTyped, AdminInStep, Founded, UNCHANGED admin, amiss \subseteq amiss',
         supa'.banned = supa.banned,
         \/ role' = role /\ supa'.role = supa.role
         \/ role = None /\ (role' = None \/ supa'.role \in {None, role'})
  PROVE  AdminInStep'
  <1>1. BanIsShown'
    BY DEF AdminInStep, BanIsShown
  <1>2. RoleSteps' /\ SupabaseOps'
    BY DEF AdminInStep, RoleSteps, SupabaseOps
  <1>3. RoleGoesThrough'
    <2>1. CASE role' = role /\ supa'.role = supa.role
      BY <2>1 DEF AdminInStep, RoleGoesThrough
    <2>2. CASE role = None /\ (role' = None \/ supa'.role \in {None, role'})
      <3>1. admin.op # "role"
        BY <2>2 DEF AdminInStep, RoleSteps, Founded
      <3>2. QED
        BY <2>2, <3>1 DEF RoleGoesThrough
    <2>3. QED
      BY <2>1, <2>2
  <1>4. QED
    BY <1>1, <1>2, <1>3 DEF AdminInStep

\* A step that leaves the account and what Supabase has of it.
LEMMA QuietKeepsFounded ==
  ASSUME Founded, UNCHANGED <<account, role, link, held, admin>>,
         supa.there => supa'.there, known' # None => supa'.there
  PROVE  Founded'
  BY DEF Founded

\* A link is spent on a form that waits, or somebody has heard of it.
LEMMA TabKeepsLinks ==
  ASSUME LinksArePaidFor, NEW c \in Calls,
         \A d \in Calls \ {c} : form'[d] = form[d],
         paid \subseteq paid', amiss \subseteq amiss',
         \A l \in Links : link'[l] = "consumed" =>
             link[l] = "consumed" \/ (form'[c] # None /\ form'[c].link = l),
         \A l \in Links : form[c] # None /\ form[c].link = l /\ link'[l] = "consumed" =>
           (form'[c] # None /\ form'[c].link = l) \/ l \in paid' \/ "link" \in amiss'
  PROVE  LinksArePaidFor'
  <1> SUFFICES ASSUME NEW l \in Links, link'[l] = "consumed"
               PROVE  \/ l \in paid' \/ "link" \in amiss'
                      \/ \E d \in Calls : form'[d] # None /\ form'[d].link = l
    BY DEF LinksArePaidFor
  <1>1. CASE link[l] # "consumed"
    BY <1>1
  <1>2. CASE link[l] = "consumed"
    <2>1. \/ l \in paid \/ "link" \in amiss
          \/ \E d \in Calls : form[d] # None /\ form[d].link = l
      BY <1>2 DEF LinksArePaidFor
    <2>2. QED
      BY <2>1
  <1>3. QED
    BY <1>1, <1>2

\* Somebody is signing up still.
LEMMA TabKeepsRowsFollow ==
  ASSUME RowsFollow, NEW c \in Calls,
         \A d \in Calls \ {c} : stage'[d] = stage[d] /\ call'[d] = call[d],
         account' = "none" => account = "none", amiss \subseteq amiss',
         supa'.there => supa.there \/ SigningUp(c)',
         SigningUp(c) => SigningUp(c)' \/ account' # "none" \/ "rows" \in amiss'
  PROVE  RowsFollow'
  <1> SUFFICES ASSUME supa'.there, account' = "none", "rows" \notin amiss'
               PROVE  \E d \in Calls : SigningUp(d)'
    BY DEF RowsFollow
  <1>1. CASE SigningUp(c)'
    BY <1>1
  <1>2. CASE ~SigningUp(c)'
    <2>1. PICK d \in Calls : SigningUp(d)
      BY <1>2 DEF RowsFollow
    <2>2. d # c
      BY <1>2, <2>1
    <2>3. SigningUp(d)'
      BY <2>1, <2>2 DEF SigningUp
    <2>4. QED
      BY <2>3
  <1>3. QED
    BY <1>1, <1>2

-----------------------------------------------------------------------------
(* A form is sent. *)

\* What sending has in common: the tab is new, and nothing else is but Supabase's user.
FormGoesOut(c, f, q) ==
  /\ form[c] = None /\ call[c].step = "idle"
  /\ form' = [form EXCEPT ![c] = f] /\ stage' = [stage EXCEPT ![c] = q]
  /\ supa' \in {supa, [supa EXCEPT !.there = TRUE]}
  /\ UNCHANGED <<mix, role, admin, known, paid, amiss, account, link, held>>
  /\ \A d \in Calls \ {c} : call'[d] = call[d]
  /\ FormInStep(c)'
  /\ supa'.there => supa.there \/ SigningUp(c)'

\* A tab that joins the others disturbs none of them.
LEMMA GoingOutKeepsPagesInv ==
  ASSUME PagesInv, TypeOK', ~mix.direct, NEW c \in Calls, NEW f \in AForm,
         NEW q \in {"none", "create", "check", "set"}, FormGoesOut(c, f, q)
  PROVE  PagesInv'
  <1>0. /\ PagesTyped /\ FormsInStep /\ Founded /\ RowsFollow /\ LinksArePaidFor /\ AdminInStep
        /\ mix' = mix
    BY DEF PagesInv, AdminInStep, FormGoesOut
  <1>1. /\ form' \in [Calls -> AForm \cup {None}]
        /\ stage' \in [Calls -> {"none", "create", "check", "set"}]
        /\ form'[c] = f /\ stage'[c] = q
        /\ \A d \in Calls \ {c} : form'[d] = form[d] /\ stage'[d] = stage[d]
    BY <1>0, TabChanges DEF FormGoesOut
  <1>2. /\ supa' \in [there : BOOLEAN, banned : BOOLEAN, password : Passwords \cup {None},
                      role : Roles \cup {None}]
        /\ supa.there => supa'.there
        /\ supa'.banned = supa.banned /\ supa'.role = supa.role
    BY <1>0 DEF FormGoesOut, PagesTyped
  <1>3. PagesTyped'
    BY <1>0, <1>1, <1>2 DEF PagesTyped, FormGoesOut
  <1>4. FormsInStep'
    BY <1>0, <1>1, <1>2, OthersInStep DEF FormGoesOut
  <1>5. Founded'
    BY <1>0, <1>2, QuietKeepsFounded DEF FormGoesOut, Founded
  <1>6. LinksArePaidFor'
    BY <1>0, <1>1, TabKeepsLinks DEF FormGoesOut
  <1>7. RowsFollow'
    BY <1>0, <1>1, TabKeepsRowsFollow DEF FormGoesOut, SigningUp
  <1>8. AdminInStep'
    BY <1>0, <1>2, UserKeepsAdminInStep DEF FormGoesOut
  <1>9. QED
    BY <1>3, <1>4, <1>5, <1>6, <1>7, <1>8 DEF PagesInv, AdminInStep

\* Each of the forms goes out like that.
LEMMA SendKeepsPagesInv ==
  ASSUME PagesInv, TypeOK', NEW c \in Calls,
         \/ \E p \in Passwords : SendRegister(c, p) \/ SendLogin(c, p)
         \/ SendResend(c) \/ SendForgot(c) \/ ComeBack(c)
         \/ \E l \in VerifyLinks : OpenVerifyLink(c, l)
         \/ \E l \in ResetLinks, p \in Passwords : SendReset(c, l, p)
         \/ \E old, p \in Passwords : SendChange(c, old, p)
  PROVE  PagesInv'
  <1>0. /\ ~mix.direct /\ TypeOK /\ PagesTyped /\ Founded /\ form[c] = None
        /\ UNCHANGED <<mix, role, admin, known, paid, amiss>>
    BY DEF PagesInv, PagesTyped, SendRegister, SendLogin, SendResend, SendForgot, ComeBack,
           OpenVerifyLink, SendReset, SendChange, Send, marks
  <1>1. /\ UNCHANGED <<account, link, held>> /\ call[c].step = "idle"
    BY DEF SendRegister, SendLogin, SendResend, SendForgot, ComeBack,
           OpenVerifyLink, SendReset, SendChange, Send, Register, ResendVerification, ForgotPassword,
           VerifyEmail, ResetPassword, OAuthSession, vars, rows, At
  <1>a. /\ "verify" \in Forms /\ "reset" \in Forms /\ "callback" \in Forms
        /\ None \in Passwords \cup {None} /\ NoLink \in Links \cup {NoLink}
    BY DEF Forms
  <1>b. \A l \in VerifyLinks \cup ResetLinks : l \in Links /\ l # NoLink
    BY AuthAssumption DEF Links
  <1>2. ASSUME NEW p \in Passwords, SendRegister(c, p) PROVE PagesInv'
    <2> DEFINE f == Form("register", None, p, NoLink)
    <2>1. f \in AForm /\ f # None /\ f.at = "register" /\ f.typed = p /\ f.link = NoLink
      BY FormIsForm DEF Forms
    <2> HIDE DEF f
    <2>2. form' = [form EXCEPT ![c] = f] /\ stage' = [stage EXCEPT ![c] = "create"] /\ supa' = supa
      BY <1>2 DEF SendRegister, Send, f
    <2>3. call'[c].step = "create_user" /\ \A d \in Calls \ {c} : call'[d] = call[d]
      BY <1>0, <1>2, CallBegins DEF SendRegister, Register
    <2>4. FormInStep(c)'
      BY <1>0, <2>1, <2>2, <2>3, TabChanges DEF FormInStep, IsAt, Rowless
    <2>5. FormGoesOut(c, f, "create")
      BY <1>0, <1>1, <2>2, <2>3, <2>4 DEF FormGoesOut
    <2>6. QED
      BY <1>0, <2>1, <2>5, GoingOutKeepsPagesInv
  <1>3. ASSUME NEW p \in Passwords, SendLogin(c, p) PROVE PagesInv'
    <2> DEFINE f == Form("login", p, None, NoLink)
    <2>1. f \in AForm /\ f # None /\ f.at = "login" /\ f.link = NoLink
      BY FormIsForm DEF Forms
    <2> HIDE DEF f
    <2>2. form' = [form EXCEPT ![c] = f] /\ stage' = [stage EXCEPT ![c] = "check"] /\ supa' = supa
          /\ call' = call
      BY <1>3 DEF SendLogin, Send, f, vars
    <2>4. FormInStep(c)'
      BY <1>0, <1>1, <2>1, <2>2, TabChanges DEF FormInStep, IsAt, Rowless
    <2>5. FormGoesOut(c, f, "check")
      BY <1>0, <1>1, <2>2, <2>4 DEF FormGoesOut
    <2>6. QED
      BY <1>0, <2>1, <2>5, GoingOutKeepsPagesInv
  <1>4. ASSUME NEW at \in {"resend", "forgot"},
               Send(c, Form(at, None, None, NoLink), "none"), NEW k, 
               Begin(c, "delete_links", "none", NoLink, k, 0), account # "none"
        PROVE  PagesInv'
    <2> DEFINE f == Form(at, None, None, NoLink)
    <2>1. f \in AForm /\ f # None /\ f.at = at /\ f.link = NoLink
      BY FormIsForm DEF Forms
    <2> HIDE DEF f
    <2>2. form' = [form EXCEPT ![c] = f] /\ stage' = [stage EXCEPT ![c] = "none"] /\ supa' = supa
      BY <1>4 DEF Send, f
    <2>3. call'[c].step = "delete_links" /\ \A d \in Calls \ {c} : call'[d] = call[d]
      BY <1>0, <1>4, CallBegins
    <2>4. FormInStep(c)'
      BY <1>0, <1>1, <1>4, <2>1, <2>2, <2>3, TabChanges DEF FormInStep, IsAt, Rowless
    <2>5. FormGoesOut(c, f, "none")
      BY <1>0, <1>1, <2>2, <2>3, <2>4 DEF FormGoesOut
    <2>6. QED
      BY <1>0, <2>1, <2>5, GoingOutKeepsPagesInv
  <1>5. ASSUME NEW l \in VerifyLinks, OpenVerifyLink(c, l) PROVE PagesInv'
    <2>0. l \in Links /\ l \in Links \cup {NoLink} /\ l # NoLink
      BY <1>b
    <2> DEFINE f == Form("verify", None, None, l)
    <2>1. f \in AForm /\ f # None /\ f.at = "verify" /\ f.link = l /\ l # NoLink /\ l \in Links
      BY <1>a, <2>0, FormIsForm
    <2> HIDE DEF f
    <2>2. form' = [form EXCEPT ![c] = f] /\ stage' = [stage EXCEPT ![c] = "none"] /\ supa' = supa
      BY <1>5 DEF OpenVerifyLink, Send, f
    <2>3. /\ call'[c].step = "consume" /\ call'[c].op = "sign_in" /\ call'[c].link = l
          /\ \A d \in Calls \ {c} : call'[d] = call[d]
      BY <1>0, <1>5, CallBegins DEF OpenVerifyLink, VerifyEmail, SignIn
    <2>7. account # "none"
      BY <1>0, <1>5, <2>1 DEF OpenVerifyLink, VerifyEmail, Founded
    <2>4. FormInStep(c)'
      BY <1>0, <1>1, <2>1, <2>2, <2>3, <2>7, TabChanges DEF FormInStep, IsAt, Rowless
    <2>5. FormGoesOut(c, f, "none")
      BY <1>0, <1>1, <2>2, <2>3, <2>4 DEF FormGoesOut
    <2>6. QED
      BY <1>0, <2>1, <2>5, GoingOutKeepsPagesInv
  <1>6. ASSUME NEW l \in ResetLinks, NEW p \in Passwords, SendReset(c, l, p) PROVE PagesInv'
    <2>0. l \in Links /\ l \in Links \cup {NoLink} /\ l # NoLink
      BY <1>b
    <2> DEFINE f == Form("reset", None, p, l)
    <2>1. /\ f \in AForm /\ f # None /\ f.at = "reset" /\ f.link = l /\ l # NoLink /\ l \in Links
          /\ f.typed = p
      BY <1>a, <2>0, FormIsForm
    <2> HIDE DEF f
    <2>2. form' = [form EXCEPT ![c] = f] /\ stage' = [stage EXCEPT ![c] = "set"] /\ supa' = supa
      BY <1>6 DEF SendReset, Send, f
    <2>3. /\ call'[c].step = "consume" /\ call'[c].op = "reset_password" /\ call'[c].link = l
          /\ \A d \in Calls \ {c} : call'[d] = call[d]
      BY <1>0, <1>6, CallBegins DEF SendReset, ResetPassword, SignIn
    <2>7. account # "none"
      BY <1>0, <1>6, <2>1 DEF SendReset, ResetPassword, Founded
    <2>4. FormInStep(c)'
      BY <1>0, <1>1, <2>1, <2>2, <2>3, <2>7, TabChanges DEF FormInStep, IsAt, Rowless
    <2>5. FormGoesOut(c, f, "set")
      BY <1>0, <1>1, <2>2, <2>3, <2>4 DEF FormGoesOut
    <2>6. QED
      BY <1>0, <2>1, <2>5, GoingOutKeepsPagesInv
  <1>7. ASSUME NEW old \in Passwords, NEW p \in Passwords, SendChange(c, old, p) PROVE PagesInv'
    <2> DEFINE f == Form("change", old, p, NoLink)
    <2>1. f \in AForm /\ f # None /\ f.at = "change" /\ f.link = NoLink /\ f.typed = p
      BY FormIsForm DEF Forms
    <2> HIDE DEF f
    <2>2. form' = [form EXCEPT ![c] = f] /\ stage' = [stage EXCEPT ![c] = "check"] /\ supa' = supa
          /\ call' = call
      BY <1>7 DEF SendChange, Send, f, vars
    <2>4. FormInStep(c)'
      BY <1>0, <1>1, <2>1, <2>2, TabChanges DEF FormInStep, IsAt, Rowless
    <2>5. FormGoesOut(c, f, "check")
      BY <1>0, <1>1, <2>2, <2>4 DEF FormGoesOut
    <2>6. QED
      BY <1>0, <2>1, <2>5, GoingOutKeepsPagesInv
  <1>8. CASE ComeBack(c)
    <2> DEFINE f == Form("callback", None, None, NoLink)
    <2>1. f \in AForm /\ f # None /\ f.at = "callback" /\ f.link = NoLink
      BY <1>a, FormIsForm
    <2> HIDE DEF f
    <2>2. /\ form' = [form EXCEPT ![c] = f] /\ stage' = stage /\ stage[c] = "none"
          /\ supa' = [supa EXCEPT !.there = TRUE]
      BY <1>0, <1>8 DEF ComeBack, f, PagesInv, FormsInStep, FormInStep
    <2>8. stage' = [stage EXCEPT ![c] = "none"] /\ supa'.there
      BY <1>0, <2>2 DEF PagesTyped
    <2>3. /\ call'[c].step = "read_oauth" /\ call'[c].op = "sign_in"
          /\ \A d \in Calls \ {c} : call'[d] = call[d]
      BY <1>0, <1>8, CallBegins DEF ComeBack, OAuthSession, SignIn
    <2>4. FormInStep(c)'
      BY <1>0, <1>1, <2>1, <2>2, <2>8, <2>3, TabChanges DEF FormInStep, IsAt, Rowless
    <2>9. SigningUp(c)'
      BY <2>2, <2>3 DEF SigningUp
    <2>5. FormGoesOut(c, f, "none")
      BY <1>0, <1>1, <2>2, <2>8, <2>3, <2>4, <2>9 DEF FormGoesOut
    <2>6. QED
      BY <1>0, <2>1, <2>5, GoingOutKeepsPagesInv
  <1>9. CASE SendResend(c)
    BY <1>4, <1>9 DEF SendResend, ResendVerification
  <1>10. CASE SendForgot(c)
    BY <1>4, <1>10 DEF SendForgot, ForgotPassword
  <1>11. QED
    BY <1>2, <1>3, <1>5, <1>6, <1>7, <1>8, <1>9, <1>10

-----------------------------------------------------------------------------
(* Supabase answers. *)

\* What is asked of Supabase changes what it is asked to, once.
LEMMA AskedOf ==
  ASSUME PagesInv, NEW c \in Calls, Due(c)
  PROVE  /\ ~mix.direct /\ form[c] # None /\ form[c] \in AForm /\ stage[c] # "none"
         /\ Asked(c) \in [there : BOOLEAN, banned : BOOLEAN, password : Passwords \cup {None},
                          role : Roles \cup {None}]
         /\ Asked(c).banned = supa.banned
         /\ supa.there => Asked(c).there
         /\ stage[c] = "create" => call[c].step = "create_user"
         /\ stage[c] = "create" /\ ~supa.there => Asked(c).there
         /\ Asked(c) # supa => \/ /\ stage[c] = "create" /\ ~supa.there /\ Asked(c).there
                                  /\ call[c].step = "create_user"
                               \/ /\ stage[c] = "set" /\ Asked(c).role = supa.role
                                  /\ Asked(c).there = supa.there /\ Asked(c).password = form[c].typed
         /\ stage[c] = "set" => /\ Asked(c).password = form[c].typed
                                /\ form[c].at = "reset" => call[c].step = "revoke"
  <1>1. PagesTyped /\ stage[c] # "none"
    BY DEF PagesInv, Due
  <1>2. ~mix.direct
    BY <1>1 DEF PagesTyped
  <1>3. form[c] # None /\ form[c] \in AForm
    BY <1>1, <1>2 DEF PagesInv, PagesTyped, FormsInStep, FormInStep
  <1>4. CASE stage[c] = "create"
    <2>1. call[c].step = "create_user"
      BY <1>4 DEF Due, At
    <2>2. CASE supa.there
      <3>1. Asked(c) = supa
        BY <1>4, <2>2 DEF Asked
      <3>2. QED
        BY <1>1, <1>2, <1>3, <1>4, <2>1, <2>2, <3>1 DEF PagesTyped
    <2>3. CASE ~supa.there
      <3>1. Asked(c) = [supa EXCEPT !.there = TRUE, !.password = form[c].typed, !.role = "DEVELOPER"]
        BY <1>4, <2>3 DEF Asked
      <3>2. form[c].typed \in Passwords \cup {None}
        BY <1>3 DEF AForm
      <3>3. QED
        BY <1>1, <1>2, <1>3, <1>4, <2>1, <2>3, <3>1, <3>2 DEF PagesTyped, Roles
    <2>4. QED
      BY <2>2, <2>3
  <1>5. CASE stage[c] = "set"
    <2>1. Asked(c) = [supa EXCEPT !.password = form[c].typed]
      BY <1>5 DEF Asked
    <2>2. form[c].typed \in Passwords \cup {None}
      BY <1>3 DEF AForm
    <2>3. form[c].at = "reset" => call[c].step = "revoke"
      BY <1>5 DEF Due, At
    <2>4. QED
      BY <1>1, <1>2, <1>3, <1>5, <2>1, <2>2, <2>3 DEF PagesTyped
  <1>6. CASE stage[c] = "check"
    <2>1. Asked(c) = supa
      BY <1>6 DEF Asked
    <2>2. QED
      BY <1>1, <1>2, <1>3, <1>6, <2>1 DEF PagesTyped
  <1>7. QED
    BY <1>1, <1>4, <1>5, <1>6 DEF PagesTyped

\* What an answer has in common with an error: the tab goes on or is settled, and only
\* Supabase's user may have changed, by what was asked.
Answered(c, f, q) ==
  /\ form' = [form EXCEPT ![c] = f] /\ stage' = [stage EXCEPT ![c] = q]
  /\ supa' \in {supa, Asked(c)}
  /\ UNCHANGED <<mix, role, admin, known, paid, account, link, held>>
  /\ amiss \subseteq amiss' /\ amiss' \subseteq {"rows", "role", "ban", "password", "link"}
  /\ \A d \in Calls \ {c} : call'[d] = call[d]
  /\ FormInStep(c)'
  /\ stage[c] = "create" /\ supa' # supa => SigningUp(c)' \/ "rows" \in amiss'
  /\ form[c].link = NoLink \/ f = form[c] \/ "link" \in amiss'

\* The other tabs do not notice what Supabase answers one.
LEMMA AnswerKeepsPagesInv ==
  ASSUME PagesInv, TypeOK', NEW c \in Calls, Due(c), NEW f \in AForm \cup {None},
         NEW q \in {"none", "create", "check", "set"}, Answered(c, f, q)
  PROVE  PagesInv'
  <1>0. /\ PagesTyped /\ FormsInStep /\ Founded /\ RowsFollow /\ LinksArePaidFor /\ AdminInStep
        /\ mix' = mix /\ ~mix.direct /\ form[c] # None /\ stage[c] # "none"
    BY AskedOf DEF PagesInv, AdminInStep, Answered
  <1>1. /\ form' \in [Calls -> AForm \cup {None}]
        /\ stage' \in [Calls -> {"none", "create", "check", "set"}]
        /\ form'[c] = f /\ stage'[c] = q
        /\ \A d \in Calls \ {c} : form'[d] = form[d] /\ stage'[d] = stage[d]
    BY <1>0, TabChanges DEF Answered
  <1>2. /\ supa' \in [there : BOOLEAN, banned : BOOLEAN, password : Passwords \cup {None},
                      role : Roles \cup {None}]
        /\ supa.there => supa'.there
        /\ supa'.banned = supa.banned
        /\ supa'.role = supa.role \/ (role = None /\ role' = None)
        /\ supa'.there => supa.there \/ (stage[c] = "create" /\ supa' # supa)
    <2>1. CASE supa' = supa
      BY <1>0, <2>1 DEF PagesTyped
    <2>2. CASE supa' = Asked(c) /\ supa' # supa
      BY <1>0, <2>2, AskedOf DEF Answered, Founded
    <2>3. QED
      BY <2>1, <2>2 DEF Answered
  <1>3. PagesTyped'
    BY <1>0, <1>1, <1>2 DEF PagesTyped, Answered
  <1>4. FormsInStep'
    BY <1>0, <1>1, <1>2, OthersInStep DEF Answered
  <1>5. Founded'
    BY <1>0, <1>2, QuietKeepsFounded DEF Answered, Founded
  <1>6. LinksArePaidFor'
    BY <1>0, <1>1, TabKeepsLinks, AuthAssumption DEF Answered
  <1>7. RowsFollow'
    <2>1. ~SigningUp(c)
      BY <1>0 DEF SigningUp
    <2>2. CASE SigningUp(c)' \/ (supa'.there => supa.there)
      BY <1>0, <1>1, <2>1, <2>2, TabKeepsRowsFollow DEF Answered
    <2>3. CASE "rows" \in amiss'
      BY <2>3 DEF RowsFollow
    <2>4. QED
      BY <1>2, <2>2, <2>3 DEF Answered
  <1>8. AdminInStep'
    BY <1>0, <1>2, UserKeepsAdminInStep DEF Answered
  <1>9. QED
    BY <1>3, <1>4, <1>5, <1>6, <1>7, <1>8 DEF PagesInv, AdminInStep

\* The tab is settled.
LEMMA SettledTab ==
  ASSUME PagesTyped, NEW c \in Calls, Settled(c), call'[c].step = "idle"
  PROVE  form'[c] = None /\ stage'[c] = "none" /\ FormInStep(c)'
  <1>1. form'[c] = None /\ stage'[c] = "none"
    BY DEF Settled, PagesTyped
  <1>2. QED
    BY <1>1, SettledInStep

\* An error, or an answer that is lost, settles the tab.
LEMMA RefusalKeepsPagesInv ==
  ASSUME PagesInv, TypeOK', NEW c \in Calls, SupabaseRefuses(c) PROVE PagesInv'
  <1>0. /\ PagesTyped /\ TypeOK /\ Due(c) /\ Settled(c)
        /\ UNCHANGED <<mix, role, admin, known, paid>>
        /\ supa' \in {supa, Asked(c)}
        /\ amiss' = amiss \cup
             ((IF supa' # supa THEN {IF stage[c] = "create" THEN "rows" ELSE "password"} ELSE {})
              \cup (IF form[c].link # NoLink THEN {"link"} ELSE {}))
    BY DEF SupabaseRefuses, PagesInv, PagesTyped, bounds, TellError
  <1>1. /\ UNCHANGED <<account, link, held>>
        /\ call'[c].step = "idle" /\ \A d \in Calls \ {c} : call'[d] = call[d]
    <2>1. CASE At(c, "idle")
      BY <2>1 DEF SupabaseRefuses, vars, rows, At
    <2>2. CASE ~At(c, "idle")
      BY <1>0, <2>2, CallReturns DEF SupabaseRefuses, Fail, rows
    <2>3. QED
      BY <2>1, <2>2
  <1>2. FormInStep(c)'
    BY <1>0, <1>1, SettledTab
  <1>3. Answered(c, None, "none")
    <2>1. amiss \subseteq amiss' /\ amiss' \subseteq {"rows", "role", "ban", "password", "link"}
      BY <1>0 DEF PagesTyped
    <2>2. stage[c] = "create" /\ supa' # supa => "rows" \in amiss'
      BY <1>0
    <2>3. form[c].link = NoLink \/ "link" \in amiss'
      BY <1>0
    <2>4. QED
      BY <1>0, <1>1, <1>2, <2>1, <2>2, <2>3 DEF Answered, Settled
  <1>4. QED
    BY <1>0, <1>3, AnswerKeepsPagesInv

\* Supabase has done as it was asked, and the call goes on to its next await.
LEMMA SupabaseKeepsPagesInv ==
  ASSUME PagesInv, TypeOK', NEW c \in Calls, SupabaseDoes(c) PROVE PagesInv'
  <1>0. /\ PagesTyped /\ TypeOK /\ Due(c) /\ Agrees(c) /\ ~mix.direct
        /\ form[c] # None /\ form[c] \in AForm /\ stage[c] # "none" /\ FormInStep(c) /\ Founded
        /\ UNCHANGED <<mix, role, admin, known, paid>>
        /\ supa' = Asked(c) /\ supa' \in {supa, Asked(c)}
        /\ amiss \subseteq amiss' /\ amiss' \subseteq {"rows", "role", "ban", "password", "link"}
    BY AskedOf DEF SupabaseDoes, PagesInv, PagesTyped, bounds, FormsInStep
  <1>4. form = [form EXCEPT ![c] = form[c]]
    BY <1>0 DEF PagesTyped
  <1>1. CASE stage[c] = "check" /\ form[c].at = "change"
    <2>1. UNCHANGED <<vars, form>> /\ stage' = [stage EXCEPT ![c] = "set"]
      BY <1>1 DEF SupabaseDoes
    <2>2. UNCHANGED <<account, link, held, call>>
      BY <2>1 DEF vars, rows
    <2>3. stage'[c] = "set"
      BY <1>0, <2>1 DEF PagesTyped
    <2>4. FormInStep(c)'
      BY <1>0, <1>1, <2>1, <2>2, <2>3 DEF FormInStep, IsAt
    <2>5. Answered(c, form[c], "set")
      BY <1>0, <1>1, <1>4, <2>1, <2>2, <2>4 DEF Answered
    <2>6. QED
      BY <1>0, <2>5, AnswerKeepsPagesInv
  <1>2. CASE stage[c] = "check" /\ form[c].at = "login"
    <2>0. call[c].step = "idle" /\ form[c].link = NoLink
      BY <1>0, <1>2 DEF FormInStep, IsAt
    <2>1. CASE account = "none"
      <3>1. Settled(c) /\ UNCHANGED <<account, link, held, call>>
        BY <1>2, <2>1 DEF SupabaseDoes, vars, rows
      <3>2. FormInStep(c)'
        BY <1>0, <2>0, <3>1, SettledTab
      <3>3. Answered(c, None, "none")
        BY <1>0, <1>2, <2>0, <3>1, <3>2 DEF Answered, Settled
      <3>4. QED
        BY <1>0, <3>3, AnswerKeepsPagesInv
    <2>2. CASE account # "none"
      <3>1. stage' = [stage EXCEPT ![c] = "none"] /\ Login(c) /\ UNCHANGED form
        BY <1>2, <2>2 DEF SupabaseDoes
      <3>2. UNCHANGED <<account, link, held>>
        BY <3>1 DEF Login, rows
      <3>3. call'[c].step = "read_user" /\ \A d \in Calls \ {c} : call'[d] = call[d]
        BY <1>0, <3>1, CallBegins DEF Login, SignIn
      <3>4. stage'[c] = "none"
        BY <1>0, <3>1 DEF PagesTyped
      <3>5. FormInStep(c)'
        BY <1>0, <1>2, <2>2, <3>1, <3>2, <3>3, <3>4 DEF FormInStep, IsAt
      <3>6. Answered(c, form[c], "none")
        BY <1>0, <1>2, <1>4, <3>1, <3>2, <3>3, <3>5 DEF Answered
      <3>7. QED
        BY <1>0, <3>6, AnswerKeepsPagesInv
    <2>3. QED
      BY <2>1, <2>2
  <1>3. CASE stage[c] # "check"
    <2>1. stage' = [stage EXCEPT ![c] = "none"] /\ UNCHANGED form /\ stage'[c] = "none"
      BY <1>0, <1>3 DEF SupabaseDoes, PagesTyped
    <2>2. CASE form[c].at = "change"
      <3>1. ChangePassword(c)
        BY <1>3, <2>2 DEF SupabaseDoes
      <3>2. UNCHANGED <<account, link, held>> /\ account # "none"
        BY <1>0, <3>1 DEF ChangePassword, rows, Founded
      <3>3. call'[c].step = "revoke" /\ \A d \in Calls \ {c} : call'[d] = call[d]
        BY <1>0, <3>1, CallBegins DEF ChangePassword, SignIn
      <3>4. FormInStep(c)' /\ stage[c] # "create"
        BY <1>0, <2>2, <2>1, <3>2, <3>3 DEF FormInStep, IsAt
      <3>5. Answered(c, form[c], "none")
        BY <1>0, <1>3, <1>4, <2>1, <3>2, <3>3, <3>4 DEF Answered
      <3>6. QED
        BY <1>0, <3>5, AnswerKeepsPagesInv
    <2>3. CASE form[c].at # "change"
      <3>1. UNCHANGED <<account, link, held, call>>
        BY <1>3, <2>3 DEF SupabaseDoes, vars, rows
      <3>2. /\ stage[c] = "create" => SigningUp(c)' /\ supa'.there
            /\ form[c].at = "reset" => call[c].step = "revoke"
        <4>1. CASE stage[c] = "create"
          <5>1. ~supa.there /\ call[c].step = "create_user" /\ Asked(c).there
            BY <1>0, <4>1, AskedOf DEF Agrees
          <5>2. form[c].at = "register"
            BY <1>0, <4>1 DEF FormInStep, IsAt
          <5>3. QED
            BY <1>0, <2>1, <3>1, <5>1, <5>2 DEF SigningUp
        <4>2. CASE stage[c] = "set"
          BY <1>0, <4>2, AskedOf
        <4>3. QED
          BY <1>0, <1>3, <4>1, <4>2 DEF PagesTyped
      <3>3. FormInStep(c)'
        BY <1>0, <1>3, <2>1, <2>3, <3>1, <3>2 DEF FormInStep, IsAt
      <3>4. Answered(c, form[c], "none")
        BY <1>0, <1>4, <2>1, <3>1, <3>2, <3>3 DEF Answered
      <3>5. QED
        BY <1>0, <3>4, AnswerKeepsPagesInv
    <2>4. QED
      BY <2>2, <2>3
  <1>5. QED
    BY <1>1, <1>2, <1>3 DEF SupabaseDoes

-----------------------------------------------------------------------------
(* A call goes on, or gives up. *)

\* A call that fails half-way leaves behind what it says it does.
LEMMA GivingUpKeepsPagesInv ==
  ASSUME PagesInv, TypeOK', NEW c \in Calls, GiveUp(c) PROVE PagesInv'
  <1>0. /\ PagesTyped /\ TypeOK /\ FormsInStep /\ Founded /\ RowsFollow /\ LinksArePaidFor /\ AdminInStep
        /\ ~mix.direct /\ Settled(c)
        /\ UNCHANGED <<mix, supa, role, admin, known, paid, account, link, held>>
        /\ amiss' = amiss \cup Undone(c)
    BY DEF GiveUp, PagesInv, PagesTyped, AdminInStep, bounds, TellError, Fail, rows
  <1>1. call'[c].step = "idle" /\ \A d \in Calls \ {c} : call'[d] = call[d]
    BY <1>0, CallReturns DEF GiveUp, Fail
  <1>2. /\ form' \in [Calls -> AForm \cup {None}]
        /\ stage' \in [Calls -> {"none", "create", "check", "set"}]
        /\ form'[c] = None /\ stage'[c] = "none"
        /\ \A d \in Calls \ {c} : form'[d] = form[d] /\ stage'[d] = stage[d]
    BY <1>0, TabChanges DEF Settled
  <1>3. PagesTyped'
    <2>1. amiss' \subseteq {"rows", "role", "ban", "password", "link"}
      BY <1>0 DEF Undone, PagesTyped
    <2>2. QED
      BY <1>0, <1>2, <2>1 DEF PagesTyped
  <1>4. FormsInStep'
    BY <1>0, <1>1, <1>2, SettledInStep, OthersInStep
  <1>5. Founded'
    BY <1>0, QuietKeepsFounded DEF Founded
  <1>6. LinksArePaidFor'
    <2>1. form[c].link # NoLink => "link" \in amiss'
      BY <1>0 DEF Undone
    <2>2. QED
      BY <1>0, <1>2, <2>1, TabKeepsLinks, AuthAssumption
  <1>7. RowsFollow'
    <2>1. SigningUp(c) => "rows" \in amiss'
      BY <1>0 DEF Undone, SigningUp
    <2>2. QED
      BY <1>0, <1>1, <1>2, <2>1, TabKeepsRowsFollow
  <1>8. AdminInStep'
    BY <1>0, UserKeepsAdminInStep
  <1>9. QED
    BY <1>0, <1>3, <1>4, <1>5, <1>6, <1>7, <1>8 DEF PagesInv, AdminInStep

\* A row is founded by a registration or a first visit; the other calls have one.
LEMMA ContinueFounds ==
  ASSUME TypeOK, NEW c \in Calls, Continue(c), FormInStep(c), account = "none", account' # "none"
  PROVE  call[c].step \in {"create_user", "create_oauth"}
  <1>1. call[c].step \in Rowless
    BY DEF FormInStep
  <1>2. Onward(c, call'[c].step)
    BY ContinueMoves
  <1>3. call[c].step # "read_oauth"
    BY DEF Continue, CreateUser, DeleteLinks, CreateLink, ReadUser, Consume, SetVerified,
           ReadOAuthUser, CreateOAuthUser, Sign, Upsert, Reply, Revoke, LogoutWrite, At, rows
  <1>4. QED
    BY <1>1, <1>2, <1>3 DEF Rowless, Onward

\* The row that is created has a role that Supabase does not contradict.
LEMMA RowHasRole ==
  ASSUME PagesTyped, Founded, UNCHANGED supa, RoleOfRow, account # "none" => account' # "none"
  PROVE  /\ role' \in Roles \cup {None}
         /\ role' = None <=> account' = "none"
         /\ role' = role \/ (role = None /\ supa.role \in {None, role'})
  BY AccountAssumption DEF PagesTyped, Founded, RoleOfRow, Roles

\* A handler that goes on founds the row, spends the link, or tells its tab.
LEMMA GoingOnKeepsPagesInv ==
  ASSUME PagesInv, TypeOK', NEW c \in Calls, GoOn(c) PROVE PagesInv'
  <1>0. /\ PagesTyped /\ TypeOK /\ FormsInStep /\ Founded /\ RowsFollow /\ LinksArePaidFor /\ AdminInStep
        /\ form[c] # None /\ form[c] \in AForm /\ FormInStep(c) /\ ~mix.direct
        /\ Continue(c) /\ RoleOfRow
        /\ UNCHANGED <<mix, supa, admin>>
        /\ IsAt(form[c].at, stage[c], c)
    BY DEF GoOn, PagesInv, PagesTyped, AdminInStep, bounds, FormsInStep, FormInStep
  <1>1. /\ Onward(c, call'[c].step)
        /\ \A d \in Calls \ {c} : call'[d] = call[d]
        /\ call'[c].step # "idle" => call'[c].op = call[c].op /\ call'[c].link = call[c].link
    BY <1>0, ContinueMoves
  <1>2. /\ account # "none" => account' # "none"
        /\ \A l \in Links : link'[l] # "none" =>
             link[l] # "none" \/ call[c].step \in {"create_link", "consume"}
        /\ \A l \in Links : link'[l] = "consumed" =>
             link[l] = "consumed" \/ (call[c].step = "consume" /\ l = call[c].link /\ call'[c].step # "idle")
        /\ held' # {} => held # {} \/ call[c].step = "reply"
    BY <1>0, ContinueWrites
  <1>3. /\ role' \in Roles \cup {None}
        /\ role' = None <=> account' = "none"
        /\ role' = role \/ (role = None /\ supa.role \in {None, role'})
    BY <1>0, <1>2, RowHasRole
  <1>4. /\ form' \in [Calls -> AForm \cup {None}]
        /\ stage' \in [Calls -> {"none", "create", "check", "set"}]
        /\ \A d \in Calls \ {c} : form'[d] = form[d] /\ stage'[d] = stage[d]
        /\ call'[c].step # "idle" => form'[c] = form[c] /\ stage'[c] = stage[c]
        /\ call'[c].step = "idle" => form'[c] = None /\ stage'[c] = "none"
    <2>1. CASE call'[c].step # "idle"
      BY <1>0, <2>1 DEF GoOn, PagesTyped
    <2>2. CASE call'[c].step = "idle"
      <3>1. Settled(c)
        BY <2>2 DEF GoOn
      <3>2. QED
        BY <1>0, <2>2, <3>1, TabChanges DEF Settled
    <2>3. QED
      BY <2>1, <2>2
  <1>5. /\ \/ known' = known
           \/ /\ known' = form[c].typed /\ form[c].at \in {"register", "reset", "change"}
              /\ call[c].step \in {"reply", "create_link"}
        /\ paid \subseteq paid' /\ amiss' = amiss
        /\ call'[c].step = "idle" /\ call[c].step = "reply" => form[c].link \in paid' \cup {NoLink}
    <2>1. CASE call'[c].step # "idle"
      BY <2>1 DEF GoOn, marks
    <2>2. CASE call'[c].step = "idle" /\ TellOk(c) /\ call[c].step \in {"reply", "create_link"}
      BY <2>2 DEF TellOk
    <2>3. CASE call'[c].step = "idle" /\ TellError({}) /\ call[c].step # "reply"
      BY <2>3 DEF TellError
    <2>4. QED
      BY <2>1, <2>2, <2>3 DEF GoOn
  <1>6. PagesTyped'
    BY <1>0, <1>3, <1>4, <1>5 DEF PagesTyped, AForm
  <1>7. FormInStep(c)'
    <2>1. CASE call'[c].step = "idle"
      BY <1>4, <2>1, SettledInStep
    <2>2. CASE call'[c].step # "idle"
      <3>1. call'[c].step \notin Rowless => account' # "none"
        BY <1>0, <1>1, <1>2 DEF Onward, FormInStep, Rowless
      <3>2. call'[c].step # "consume"
        BY <1>1 DEF Onward
      <3>3. MayGoOn(c)
        BY DEF GoOn
      <3>4. IsAt(form[c].at, stage[c], c)'
        BY <1>0, <1>1, <1>4, <2>2, <3>3 DEF Onward, IsAt, MayGoOn
      <3>5. QED
        BY <1>0, <1>4, <2>2, <3>1, <3>2, <3>4 DEF FormInStep
    <2>3. QED
      BY <2>1, <2>2
  <1>8. FormsInStep'
    BY <1>0, <1>1, <1>2, <1>4, <1>7, OthersInStep
  <1>9. account' # "none" => supa.there
    <2>1. MayGoOn(c)
      BY DEF GoOn
    <2>2. CASE account # "none"
      BY <1>0, <2>2 DEF Founded
    <2>3. CASE account = "none" /\ account' # "none"
      <3>1. call[c].step \in {"create_user", "create_oauth"}
        BY <1>0, <1>1, <2>3, ContinueFounds
      <3>2. QED
        BY <1>0, <2>1, <3>1 DEF IsAt, MayGoOn
    <2>4. QED
      BY <2>2, <2>3
  <1>10. Founded'
    <2>1. call[c].step \notin Rowless => account' # "none"
      BY <1>0, <1>2 DEF FormInStep
    <2>2. known' # None => supa.there
      BY <1>0, <1>2, <1>5, <1>9, <2>1 DEF Founded, Rowless
    <2>3. QED
      BY <1>0, <1>2, <1>3, <1>9, <2>1, <2>2 DEF Founded, Rowless
  <1>11. LinksArePaidFor'
    <2>1. \A l \in Links : link'[l] = "consumed" =>
             link[l] = "consumed" \/ (form'[c] # None /\ form'[c].link = l)
      BY <1>0, <1>2, <1>4 DEF FormInStep
    <2>2. ASSUME NEW l \in Links, form[c].link = l, link'[l] = "consumed", call'[c].step = "idle"
          PROVE  l \in paid'
      <3>1. form[c].link # NoLink /\ form[c].at \in {"verify", "reset"}
        BY <1>0, <2>2, AuthAssumption DEF FormInStep
      <3>2. call[c].step # "consume"
        BY <1>0, <1>1, <2>2 DEF Onward, FormInStep
      <3>3. call[c].step = "reply"
        BY <1>0, <1>1, <2>2, <3>1, <3>2 DEF Onward, IsAt
      <3>4. QED
        BY <1>5, <2>2, <3>1, <3>3
    <2>3. QED
      BY <1>0, <1>4, <1>5, <2>1, <2>2, TabKeepsLinks
  <1>12. RowsFollow'
    <2>1. SigningUp(c) => SigningUp(c)' \/ account' # "none"
      BY <1>0, <1>1, <1>2, <1>4 DEF SigningUp, Onward, IsAt
    <2>2. QED
      BY <1>0, <1>1, <1>2, <1>4, <1>5, <2>1, TabKeepsRowsFollow
  <1>13. AdminInStep'
    BY <1>0, <1>3, <1>5, UserKeepsAdminInStep
  <1>14. QED
    BY <1>0, <1>6, <1>8, <1>10, <1>11, <1>12, <1>13 DEF PagesInv, AdminInStep

-----------------------------------------------------------------------------
(* The admin. *)

\* His copy of the account is one.
LEMMA DeskIsDesk ==
  ASSUME NEW s \in {"shut", "open", "row", "supabase", "drop", "read"},
         NEW op \in Buttons \cup {"none"}, NEW typed \in Passwords \cup Roles \cup {None},
         NEW shown \in Shown \cup {None}
  PROVE  /\ Desk(s, op, typed, shown) \in
              [step : {"shut", "open", "row", "supabase", "drop", "read"}, op : Buttons \cup {"none"},
               typed : Passwords \cup Roles \cup {None}, shown : Shown \cup {None}]
         /\ Desk(s, op, typed, shown).step = s /\ Desk(s, op, typed, shown).op = op
         /\ Desk(s, op, typed, shown).typed = typed /\ Desk(s, op, typed, shown).shown = shown
  BY DEF Desk

\* What he has asked for goes from one step to the next.
LEMMA DeskMoves ==
  ASSUME PagesTyped, NEW s \in {"shut", "open", "row", "supabase", "drop", "read"},
         admin' = [admin EXCEPT !.step = s]
  PROVE  /\ admin' \in [step : {"shut", "open", "row", "supabase", "drop", "read"},
                        op : Buttons \cup {"none"}, typed : Passwords \cup Roles \cup {None},
                        shown : Shown \cup {None}]
         /\ admin'.step = s /\ admin'.op = admin.op /\ admin'.typed = admin.typed
         /\ admin'.shown = admin.shown
  BY DEF PagesTyped

\* The admin asks for one thing at a time.
LEMMA RequestedOf ==
  ASSUME PagesTyped, admin.step = "supabase", RoleSteps \/ mix.direct
  PROVE  /\ Requested \in [there : BOOLEAN, banned : BOOLEAN, password : Passwords \cup {None},
                           role : Roles \cup {None}]
         /\ Requested.there = supa.there
         /\ Requested.password = IF admin.op = "password" THEN admin.typed ELSE supa.password
         /\ Requested.role = IF admin.op = "role" THEN admin.typed ELSE supa.role
         /\ Requested.banned = IF admin.op \in {"password", "role"} THEN supa.banned
                               ELSE admin.op = "disable"
  <1>1. CASE admin.op = "password"
    BY <1>1 DEF Requested, PagesTyped
  <1>2. CASE admin.op = "role"
    BY <1>2 DEF Requested, PagesTyped
  <1>3. CASE admin.op \notin {"password", "role"}
    <2>1. Requested = [supa EXCEPT !.banned = (admin.op = "disable")]
      BY <1>3 DEF Requested
    <2>2. (admin.op = "disable") \in BOOLEAN
      OBVIOUS
    <2>3. QED
      BY <1>3, <2>1, <2>2 DEF PagesTyped
  <1>4. QED
    BY <1>1, <1>2, <1>3

\* What an admin's step leaves alone, and what it says of the account.
AdminSteps ==
  /\ UNCHANGED <<mix, form, stage, paid, link, held, call>>
  /\ account # "none" <=> account' # "none"
  /\ amiss \subseteq amiss'
  /\ supa'.there = supa.there
  /\ known' # known => admin.step = "read"

\* Every step of his keeps the types, whatever else holds.
AdminTyped ==
  /\ supa' \in [there : BOOLEAN, banned : BOOLEAN, password : Passwords \cup {None},
                role : Roles \cup {None}]
  /\ role' \in Roles \cup {None}
  /\ known' \in Passwords \cup {None}
  /\ admin' \in [step : {"shut", "open", "row", "supabase", "drop", "read"},
                 op : Buttons \cup {"none"}, typed : Passwords \cup Roles \cup {None},
                 shown : Shown \cup {None}]
  /\ admin'.op = "password" => admin'.typed \in Passwords
  /\ admin'.op = "role" => admin'.typed \in Roles
  /\ amiss' \subseteq {"rows", "role", "ban", "password", "link"}

\* Every step of the admin is one of these.
LEMMA AdminStepIsTyped ==
  ASSUME PagesInv, AdminNext PROVE AdminSteps /\ AdminTyped
  <1>0. PagesTyped /\ TypeOK /\ (RoleSteps \/ mix.direct)
    BY DEF PagesInv, PagesTyped
  <1>1. CASE OpenUser
    <2>1. admin' = [admin EXCEPT !.step = "read"]
      BY <1>1 DEF OpenUser, Become
    <2>2. UNCHANGED <<mix, form, stage, paid, account, link, held, call, supa, role, known, amiss>>
      BY <1>1 DEF OpenUser, NoTabs, vars, rows
    <2>3. QED
      BY <1>0, <2>1, <2>2, DeskMoves DEF AdminSteps, AdminTyped, PagesTyped
  <1>2. ASSUME NEW op \in Buttons,
               NEW typed \in (CASE op = "password" -> Passwords [] op = "role" -> Roles
                               [] OTHER -> {None}), Press(op, typed)
        PROVE  AdminSteps /\ AdminTyped
    <2>1. UNCHANGED <<mix, form, stage, paid, account, link, held, call, supa, role, known, amiss>>
      BY <1>2 DEF Press, NoTabs, vars, rows
    <2>2. PICK s \in {"row", "supabase"} : admin' = Desk(s, op, typed, admin.shown)
      BY <1>2 DEF Press, Become
    <2>3. /\ typed \in Passwords \cup Roles \cup {None} /\ admin.shown \in Shown \cup {None}
          /\ op = "password" => typed \in Passwords
          /\ op = "role" => typed \in Roles
      BY <1>0 DEF PagesTyped
    <2>4. /\ AdminTyped!4
          /\ admin'.op = op /\ admin'.typed = typed
      BY <2>2, <2>3, DeskIsDesk
    <2>5. QED
      BY <1>0, <2>1, <2>3, <2>4 DEF AdminSteps, AdminTyped, PagesTyped
  <1>3. CASE AdminWritesRow
    <2>1. /\ UNCHANGED <<mix, form, stage, paid, link, held, call, supa, known, amiss>>
          /\ account # "none" <=> account' # "none"
          /\ role' \in Roles \cup {None}
      BY <1>0, <1>3 DEF AdminWritesRow, NoTabs, vars, rows, AdminSetsVerification, PagesTyped
    <2>2. PICK s \in {"supabase", "read"} : admin' = [admin EXCEPT !.step = s]
      BY <1>3 DEF AdminWritesRow, Become
    <2>3. QED
      BY <1>0, <2>1, <2>2, DeskMoves DEF AdminSteps, AdminTyped, PagesTyped
  <1>4. CASE AdminAsksSupabase
    <2>1. /\ UNCHANGED <<mix, form, stage, paid, account, link, held, call, role, known>>
          /\ supa' = Requested /\ admin.step = "supabase"
          /\ amiss' \in {amiss, amiss \cup {"password"}}
      BY <1>4 DEF AdminAsksSupabase, NoTabs, vars, rows
    <2>2. PICK s \in {"drop", "read"} : admin' = [admin EXCEPT !.step = s]
      BY <1>4 DEF AdminAsksSupabase, Become
    <2>3. amiss \subseteq amiss' /\ amiss' \subseteq {"rows", "role", "ban", "password", "link"}
      BY <1>0, <2>1 DEF PagesTyped
    <2>4. QED
      BY <1>0, <2>1, <2>2, <2>3, DeskMoves, RequestedOf DEF AdminSteps, AdminTyped, PagesTyped
  <1>5. CASE AdminDrops
    <2>1. admin' = [admin EXCEPT !.step = "read"]
      BY <1>5 DEF AdminDrops, Become
    <2>2. UNCHANGED <<mix, form, stage, paid, account, link, held, call, supa, role, known, amiss>>
      BY <1>5 DEF AdminDrops, NoTabs, AdminDropsSession
    <2>3. QED
      BY <1>0, <2>1, <2>2, DeskMoves DEF AdminSteps, AdminTyped, PagesTyped
  <1>6. CASE AdminIsShown
    <2>1. /\ UNCHANGED <<mix, form, stage, paid, account, link, held, call, supa, role>>
          /\ admin.step = "read"
          /\ known' = IF admin.op = "password" THEN admin.typed ELSE known
          /\ amiss' \in {amiss, amiss \cup {"ban"}}
      BY <1>6 DEF AdminIsShown, NoTabs, vars, rows
    <2>2. PICK d \in {FALSE, supa.banned} : admin' = Desk("open", "none", None, [Account EXCEPT !.disabled = d])
      <3>1. Account = [Account EXCEPT !.disabled = supa.banned]
        BY DEF Account
      <3>2. QED
        BY <1>6, <3>1 DEF AdminIsShown, Become
    <2>3. [Account EXCEPT !.disabled = d] \in Shown
      BY <1>0 DEF Account, Shown, PagesTyped
    <2>4. AdminTyped!4 /\ admin'.op = "none"
      BY <2>2, <2>3, DeskIsDesk
    <2>5. amiss \subseteq amiss' /\ amiss' \subseteq {"rows", "role", "ban", "password", "link"}
      BY <1>0, <2>1 DEF PagesTyped
    <2>6. known' \in Passwords \cup {None}
      BY <1>0, <2>1 DEF PagesTyped
    <2>7. QED
      BY <1>0, <2>1, <2>4, <2>5, <2>6 DEF AdminSteps, AdminTyped, PagesTyped
  <1>7. CASE AdminFails
    <2>1. /\ UNCHANGED <<mix, form, stage, paid, account, link, held, call, role, known>>
          /\ supa' = supa \/ (supa' = Requested /\ admin.step = "supabase")
      BY <1>7 DEF AdminFails, NoTabs, vars, rows
    <2>2. PICK s \in {"shut", "open"} : admin' = Desk(s, "none", None, admin.shown)
      BY <1>7 DEF AdminFails, Become
    <2>3. admin.shown \in Shown \cup {None}
      BY <1>0 DEF PagesTyped
    <2>4. AdminTyped!4 /\ admin'.op = "none"
      BY <2>2, <2>3, DeskIsDesk
    <2>5. amiss \subseteq amiss' /\ amiss' \subseteq {"rows", "role", "ban", "password", "link"}
      BY <1>0, <1>7 DEF PagesTyped, AdminFails
    <2>6. AdminTyped!1 /\ supa'.there = supa.there
      BY <1>0, <2>1, RequestedOf DEF PagesTyped
    <2>7. QED
      BY <1>0, <2>1, <2>4, <2>5, <2>6 DEF AdminSteps, AdminTyped, PagesTyped
  <1>8. QED
    BY <1>1, <1>2, <1>3, <1>4, <1>5, <1>6, <1>7 DEF AdminNext

\* The role: the row first, then Supabase, and in between he is at it.
LEMMA AdminKeepsRole ==
  ASSUME PagesInv, ~mix.direct, AdminNext PROVE RoleGoesThrough' /\ RoleSteps' /\ SupabaseOps'
  <1>0. /\ PagesTyped /\ RoleGoesThrough /\ RoleSteps /\ SupabaseOps /\ Founded /\ amiss \subseteq amiss'
    BY AdminStepIsTyped DEF PagesInv, AdminSteps
  <1>1. CASE OpenUser
    <2>1. admin' = [admin EXCEPT !.step = "read"] /\ UNCHANGED <<supa, role>> /\ admin.step = "shut"
      BY <1>1 DEF OpenUser, Become
    <2>2. QED
      BY <1>0, <2>1, DeskMoves DEF RoleGoesThrough, RoleSteps, SupabaseOps
  <1>2. ASSUME NEW op \in Buttons,
               NEW typed \in (CASE op = "password" -> Passwords [] op = "role" -> Roles
                               [] OTHER -> {None}), Press(op, typed)
        PROVE  RoleGoesThrough' /\ RoleSteps' /\ SupabaseOps'
    <2>1. /\ UNCHANGED <<supa, role>> /\ admin.step = "open"
          /\ admin' = Desk(IF op \in {"role", "verify", "unverify"} THEN "row" ELSE "supabase",
                           op, typed, admin.shown)
      BY <1>2 DEF Press, Become
    <2>2. /\ admin'.op = op
          /\ admin'.step = IF op \in {"role", "verify", "unverify"} THEN "row" ELSE "supabase"
      BY <2>1 DEF Desk
    <2>3. QED
      BY <1>0, <2>1, <2>2 DEF RoleGoesThrough, RoleSteps, SupabaseOps, Buttons
  <1>3. CASE AdminWritesRow
    <2>1. CASE admin.op = "role"
      <3>1. /\ admin' = [admin EXCEPT !.step = "supabase"] /\ role' = admin.typed /\ supa' = supa
        BY <1>3, <2>1 DEF AdminWritesRow, Become
      <3>2. QED
        BY <1>0, <2>1, <3>1, DeskMoves DEF RoleGoesThrough, RoleSteps, SupabaseOps
    <2>2. CASE admin.op # "role"
      <3>1. /\ admin' = [admin EXCEPT !.step = "read"] /\ role' = role /\ supa' = supa
        BY <1>3, <2>2 DEF AdminWritesRow, Become
      <3>2. QED
        BY <1>0, <2>2, <3>1, DeskMoves DEF RoleGoesThrough, RoleSteps, SupabaseOps
    <2>3. QED
      BY <2>1, <2>2
  <1>4. CASE AdminAsksSupabase
    <2>1. supa' = Requested /\ role' = role /\ admin.step = "supabase"
      BY <1>4 DEF AdminAsksSupabase
    <2>2. PICK s \in {"drop", "read"} : admin' = [admin EXCEPT !.step = s]
      BY <1>4 DEF AdminAsksSupabase, Become
    <2>3. QED
      BY <1>0, <2>1, <2>2, DeskMoves, RequestedOf DEF RoleGoesThrough, RoleSteps, SupabaseOps
  <1>5. CASE AdminDrops
    <2>1. admin' = [admin EXCEPT !.step = "read"] /\ UNCHANGED <<supa, role>> /\ admin.step = "drop"
      BY <1>5 DEF AdminDrops, Become
    <2>2. QED
      BY <1>0, <2>1, DeskMoves DEF RoleGoesThrough, RoleSteps, SupabaseOps
  <1>6. CASE AdminIsShown
    <2>1. /\ UNCHANGED <<supa, role>> /\ admin.step = "read"
          /\ admin'.op = "none" /\ admin'.step = "open"
      BY <1>6 DEF AdminIsShown, Become, Desk
    <2>2. QED
      BY <1>0, <2>1 DEF RoleGoesThrough, RoleSteps, SupabaseOps
  <1>7. CASE AdminFails
    <2>1. /\ supa' = supa \/ (supa' = Requested /\ admin.step = "supabase")
          /\ role' = role /\ admin'.op = "none" /\ admin'.step \in {"open", "shut"}
          /\ admin.op = "role" /\ admin.step # "row" => "role" \in amiss'
      BY <1>7 DEF AdminFails, Become, Desk
    <2>2. QED
      BY <1>0, <2>1, RequestedOf DEF RoleGoesThrough, RoleSteps, SupabaseOps
  <1>8. QED
    BY <1>1, <1>2, <1>3, <1>4, <1>5, <1>6, <1>7 DEF AdminNext

\* The ban: what he has been shown is true until he changes it, and then he is shown again.
LEMMA AdminKeepsBan ==
  ASSUME PagesInv, ~mix.direct, AdminNext PROVE BanIsShown'
  <1>0. /\ PagesTyped /\ BanIsShown /\ RoleSteps /\ SupabaseOps /\ amiss \subseteq amiss'
    BY AdminStepIsTyped DEF PagesInv, AdminSteps
  <1>1. CASE OpenUser
    <2>1. admin' = [admin EXCEPT !.step = "read"] /\ UNCHANGED supa /\ admin.step = "shut"
      BY <1>1 DEF OpenUser, Become
    <2>2. QED
      BY <1>0, <2>1, DeskMoves DEF BanIsShown
  <1>2. ASSUME NEW op \in Buttons,
               NEW typed \in (CASE op = "password" -> Passwords [] op = "role" -> Roles
                               [] OTHER -> {None}), Press(op, typed)
        PROVE  BanIsShown'
    <2>1. /\ UNCHANGED supa /\ admin.step = "open"
          /\ admin' = Desk(IF op \in {"role", "verify", "unverify"} THEN "row" ELSE "supabase",
                           op, typed, admin.shown)
      BY <1>2 DEF Press, Become
    <2>2. admin'.shown = admin.shown /\ admin'.step \in {"row", "supabase"}
      BY <2>1 DEF Desk
    <2>3. QED
      BY <1>0, <2>1, <2>2 DEF BanIsShown
  <1>3. CASE AdminWritesRow
    <2>1. PICK s \in {"supabase", "read"} : admin' = [admin EXCEPT !.step = s]
      BY <1>3 DEF AdminWritesRow, Become
    <2>2. supa' = supa /\ admin.step = "row"
      BY <1>3 DEF AdminWritesRow
    <2>3. QED
      BY <1>0, <2>1, <2>2, DeskMoves DEF BanIsShown
  <1>4. CASE AdminAsksSupabase
    <2>1. supa' = Requested /\ admin.step = "supabase"
      BY <1>4 DEF AdminAsksSupabase
    <2>2. PICK s \in {"drop", "read"} : admin' = [admin EXCEPT !.step = s]
      BY <1>4 DEF AdminAsksSupabase, Become
    <2>3. admin.op \in {"password", "role", "disable", "enable"}
      BY <1>0, <2>1 DEF SupabaseOps, PagesTyped
    <2>4. QED
      BY <1>0, <2>1, <2>2, <2>3, DeskMoves, RequestedOf DEF BanIsShown
  <1>5. CASE AdminDrops
    <2>1. admin' = [admin EXCEPT !.step = "read"] /\ UNCHANGED supa /\ admin.step = "drop"
      BY <1>5 DEF AdminDrops, Become
    <2>2. QED
      BY <1>0, <2>1, DeskMoves DEF BanIsShown
  <1>6. CASE AdminIsShown
    <2>1. supa' = supa /\ admin'.step = "open"
          /\ (admin'.shown.disabled = supa.banned \/ "ban" \in amiss')
      BY <1>6 DEF AdminIsShown, Become, Desk, Account
    <2>2. QED
      BY <2>1 DEF BanIsShown
  <1>7. CASE AdminFails
    <2>1. /\ supa' = supa \/ (supa' = Requested /\ admin.step = "supabase")
          /\ admin'.step = (IF admin.shown = None THEN "shut" ELSE "open")
          /\ admin'.shown = admin.shown
          /\ admin.step \in {"row", "supabase", "drop", "read"}
          /\ admin.op \in {"disable", "enable"} /\ (supa' # supa \/ admin.step # "supabase") => "ban" \in amiss'
      BY <1>7 DEF AdminFails, Become, Desk
    <2>2. supa'.banned = supa.banned \/ "ban" \in amiss'
      <3>1. CASE supa' = supa
        BY <3>1
      <3>2. CASE supa' = Requested /\ supa' # supa /\ admin.step = "supabase"
        <4>1. admin.op \in {"password", "role", "disable", "enable"}
          BY <1>0, <3>2 DEF SupabaseOps, PagesTyped
        <4>2. QED
          BY <1>0, <2>1, <3>2, <4>1, RequestedOf
      <3>3. QED
        BY <2>1, <3>1, <3>2
    <2>3. QED
      BY <1>0, <2>1, <2>2 DEF BanIsShown
  <1>8. QED
    BY <1>1, <1>2, <1>3, <1>4, <1>5, <1>6, <1>7 DEF AdminNext

\* The users' side does not depend on what he does.
LEMMA AdminKeepsForms ==
  ASSUME PagesInv, ~mix.direct, AdminNext
  PROVE  FormsInStep' /\ Founded' /\ RowsFollow' /\ LinksArePaidFor'
  <1>0. /\ PagesTyped /\ FormsInStep /\ Founded /\ RowsFollow /\ LinksArePaidFor /\ RoleSteps
        /\ AdminSteps /\ AdminTyped
    BY AdminStepIsTyped DEF PagesInv
  <1>1. FormsInStep'
    <2>1. ASSUME NEW c \in Calls PROVE FormInStep(c)'
      BY <1>0 DEF FormsInStep, FormInStep, IsAt, AdminSteps
    <2>2. QED
      BY <2>1 DEF FormsInStep
  <1>2. Founded'
    <2>1. admin'.step # "shut" => account # "none"
      BY <1>0 DEF AdminNext, OpenUser, Press, AdminWritesRow, AdminAsksSupabase, AdminDrops,
                  AdminIsShown, AdminFails, Founded
    <2>2. role' = None <=> account' = "none"
      <3>1. CASE role' = role
        BY <1>0, <3>1 DEF Founded, AdminSteps
      <3>2. CASE role' # role
        <4>1. AdminWritesRow /\ role' = admin.typed /\ admin.op = "role" /\ admin.step = "row"
          BY <3>2 DEF AdminNext, OpenUser, Press, AdminWritesRow, AdminAsksSupabase, AdminDrops,
                  AdminIsShown, AdminFails
        <4>2. admin.typed # None
          BY <1>0, <4>1, AccountAssumption DEF PagesTyped
        <4>3. QED
          BY <1>0, <4>1, <4>2 DEF Founded, AdminSteps
      <3>3. QED
        BY <3>1, <3>2
    <2>3. QED
      BY <1>0, <2>1, <2>2 DEF Founded, AdminSteps
  <1>3. RowsFollow'
    BY <1>0 DEF RowsFollow, SigningUp, AdminSteps
  <1>4. LinksArePaidFor'
    BY <1>0 DEF LinksArePaidFor, AdminSteps
  <1>5. QED
    BY <1>1, <1>2, <1>3, <1>4

\* So the admin keeps the invariant of the pages,
LEMMA AdminKeepsPagesInv ==
  ASSUME PagesInv, TypeOK', AdminNext PROVE PagesInv'
  <1>1. PagesTyped'
    BY AdminStepIsTyped DEF PagesInv, PagesTyped, AdminSteps, AdminTyped
  <1>2. mix' = mix
    BY AdminStepIsTyped DEF AdminSteps
  <1>3. QED
    BY <1>1, <1>2, AdminKeepsRole, AdminKeepsBan, AdminKeepsForms DEF PagesInv

-----------------------------------------------------------------------------
(* The invariant of the pages holds. *)

\* and so do calls that no page is behind,
LEMMA DirectKeepsPagesInv ==
  ASSUME PagesInv, TypeOK', Direct PROVE PagesInv'
  BY DEF PagesInv, PagesTyped, Direct, marks

\* a link that runs out,
LEMMA ExpiryKeepsPagesInv ==
  ASSUME PagesInv, TypeOK', ~mix.direct, NEW l \in Links, LinkExpires(l), UNCHANGED pageVars
  PROVE  PagesInv'
  <1>0. /\ PagesTyped /\ TypeOK /\ FormsInStep /\ Founded /\ RowsFollow /\ LinksArePaidFor /\ AdminInStep
        /\ UNCHANGED <<mix, supa, role, form, stage, admin, known, paid, amiss, account, held, call>>
        /\ link[l] = "active" /\ link' = [link EXCEPT ![l] = "expired"]
    BY DEF PagesInv, PagesTyped, AdminInStep, LinkExpires, pageVars, bounds, marks
  <1>1. /\ \A k \in Links : link'[k] = "consumed" => link[k] = "consumed"
        /\ \A k \in Links : link'[k] # "none" => link[k] # "none"
    BY <1>0 DEF TypeOK
  <1>2. PagesTyped'
    BY <1>0 DEF PagesTyped
  <1>3. FormsInStep'
    BY <1>0 DEF FormsInStep, FormInStep, IsAt
  <1>4. Founded'
    BY <1>0, <1>1 DEF Founded
  <1>5. RowsFollow'
    BY <1>0 DEF RowsFollow, SigningUp
  <1>6. LinksArePaidFor'
    BY <1>0, <1>1 DEF LinksArePaidFor
  <1>7. AdminInStep'
    BY <1>0 DEF AdminInStep, RoleGoesThrough, RoleSteps, SupabaseOps, BanIsShown
  <1>8. QED
    BY <1>2, <1>3, <1>4, <1>5, <1>6, <1>7 DEF PagesInv, AdminInStep

\* and no step at all.
LEMMA StutterKeepsPagesInv ==
  ASSUME PagesInv, UNCHANGED allVars PROVE PagesInv'
  <1>0. UNCHANGED <<mix, supa, role, form, stage, admin, known, paid, amiss, account, session, link,
                    held, clock, era, raced, vouched, call>>
    BY DEF allVars, vars, rows, history, pageVars, bounds, marks
  <1>1. PagesTyped'
    BY <1>0 DEF PagesInv, PagesTyped, TypeOK
  <1>2. CASE mix.direct
    BY <1>0, <1>1, <1>2 DEF PagesInv
  <1>3. CASE ~mix.direct
    <2>1. FormsInStep'
      BY <1>0, <1>3 DEF PagesInv, FormsInStep, FormInStep, IsAt
    <2>2. Founded' /\ RowsFollow' /\ LinksArePaidFor'
      BY <1>0, <1>3 DEF PagesInv, Founded, RowsFollow, SigningUp, LinksArePaidFor
    <2>3. RoleGoesThrough' /\ RoleSteps' /\ SupabaseOps' /\ BanIsShown'
      BY <1>0, <1>3 DEF PagesInv, RoleGoesThrough, RoleSteps, SupabaseOps, BanIsShown
    <2>4. QED
      BY <1>0, <1>1, <2>1, <2>2, <2>3 DEF PagesInv
  <1>4. QED
    BY <1>2, <1>3

\* Every step keeps the invariant of the pages.
LEMMA StepKeepsPagesInv ==
  ASSUME PagesInv, TypeOK', [AccountNext]_allVars PROVE PagesInv'
  <1>1. CASE Direct
    BY <1>1, DirectKeepsPagesInv
  <1>2. CASE UserNext
    BY <1>2, SendKeepsPagesInv, SupabaseKeepsPagesInv, RefusalKeepsPagesInv, GoingOnKeepsPagesInv,
       GivingUpKeepsPagesInv, ExpiryKeepsPagesInv DEF UserNext
  <1>3. CASE AdminNext
    BY <1>3, AdminKeepsPagesInv
  <1>4. CASE UNCHANGED allVars
    BY <1>4, StutterKeepsPagesInv
  <1>5. QED
    BY <1>1, <1>2, <1>3, <1>4 DEF AccountNext

\* Nobody has sent anything, and the admin's page is shut.
LEMMA InitEstablishesPagesInv == AccountInit => PagesInv
  <1> SUFFICES ASSUME AccountInit PROVE PagesInv
    OBVIOUS
  <1>0. TypeOK
    BY AccountInitEstablishesAInv DEF AInv
  <1>1. /\ form = [c \in Calls |-> None] /\ stage = [c \in Calls |-> "none"]
        /\ admin = Desk("shut", "none", None, None) /\ paid = {} /\ amiss = {}
        /\ call = [c \in Calls |-> Idle] /\ link = [l \in Links |-> "none"]
    BY DEF AccountInit, Init
  <1>2. \/ /\ supa = [there |-> FALSE, banned |-> FALSE, password |-> None, role |-> None]
           /\ role = None /\ known = None /\ account = "none" /\ held = {}
        \/ /\ supa = [there |-> TRUE, banned |-> FALSE, password |-> known, role |-> "DEVELOPER"]
           /\ role = "DEVELOPER" /\ known \in Passwords /\ account = "verified"
    BY DEF AccountInit, Init
  <1>3. PagesTyped
    <2>1. /\ admin \in [step : {"shut", "open", "row", "supabase", "drop", "read"},
                         op : Buttons \cup {"none"}, typed : Passwords \cup Roles \cup {None},
                         shown : Shown \cup {None}]
          /\ admin.op = "none"
      BY <1>1, DeskIsDesk
    <2>2. /\ supa \in [there : BOOLEAN, banned : BOOLEAN, password : Passwords \cup {None},
                        role : Roles \cup {None}]
          /\ role \in Roles \cup {None} /\ known \in Passwords \cup {None}
      <3>1. "DEVELOPER" \in Roles
        BY DEF Roles
      <3>2. CASE /\ supa = [there |-> FALSE, banned |-> FALSE, password |-> None, role |-> None]
                 /\ role = None /\ known = None
        BY <3>2
      <3>3. CASE /\ supa = [there |-> TRUE, banned |-> FALSE, password |-> known, role |-> "DEVELOPER"]
                 /\ role = "DEVELOPER" /\ known \in Passwords
        BY <3>1, <3>3
      <3>4. QED
        BY <1>2, <3>2, <3>3
    <2>3. QED
      BY <1>0, <1>1, <2>1, <2>2 DEF PagesTyped
  <1>4. FormsInStep
    BY <1>1 DEF FormsInStep, FormInStep, Idle, Rowless
  <1>5. Founded /\ RowsFollow /\ LinksArePaidFor
    BY <1>1, <1>2, DeskIsDesk, AccountAssumption DEF Founded, RowsFollow, LinksArePaidFor, Roles
  <1>6. RoleGoesThrough /\ RoleSteps /\ SupabaseOps /\ BanIsShown
    BY <1>1, <1>2, DeskIsDesk DEF RoleGoesThrough, RoleSteps, SupabaseOps, BanIsShown
  <1>7. QED
    BY <1>3, <1>4, <1>5, <1>6 DEF PagesInv

\* And what it says is what the pages rely on.
LEMMA PagesInvIsAccountInv == PagesInv => AccountInv
  <1> SUFFICES ASSUME PagesInv PROVE AccountInv
    OBVIOUS
  <1>1. AccountTypeOK
    BY DEF PagesInv, PagesTyped, AccountTypeOK, AForm
  <1>2. ASSUME ~mix.direct PROVE RowsAreInStep /\ RolesAgree /\ LinksArePaidFor /\ AdminSeesBan
    <2>1. RowsAreInStep
      BY <1>2 DEF PagesInv, Founded, RowsFollow, SigningUp, RowsAreInStep
    <2>2. RolesAgree
      BY <1>2 DEF PagesInv, Founded, RoleGoesThrough, RolesAgree
    <2>3. AdminSeesBan
      BY <1>2 DEF PagesInv, BanIsShown, AdminSeesBan
    <2>4. QED
      BY <1>2, <2>1, <2>2, <2>3 DEF PagesInv
  <1>3. QED
    BY <1>1, <1>2 DEF AccountInv

\* The invariant of the pages holds in every reachable state.
LEMMA PagesKeepPagesInv == AccountSpec => []PagesInv
  <1>1. AInv' => TypeOK'
    BY DEF AInv
  <1>2. PagesInv /\ AInv' /\ [AccountNext]_allVars => PagesInv'
    BY <1>1, StepKeepsPagesInv
  <1>3. QED
    BY InitEstablishesPagesInv, PagesKeepAInv, <1>2, PTL DEF AccountSpec

\* There is a row only for somebody Supabase has, the two copies of the role agree,
\* a spent link has signed its visitor in, and the admin sees who is shut out; but
\* while a handler is between its two writes, or where one has failed there.
THEOREM AccountsAgree == AccountSpec => []AccountInv
  BY PagesKeepPagesInv, PagesInvIsAccountInv, PTL

-----------------------------------------------------------------------------
(* The password. *)

\* Supabase's password and what is said of it stay as they are.
LEMMA PasswordStays ==
  ASSUME PasswordInv, supa'.password = supa.password, known' = known, amiss \subseteq amiss',
         AdminHasSet' <=> AdminHasSet, AdminHasSet => admin'.typed = admin.typed,
         \A d \in Calls : HasSet(d)' <=> HasSet(d),
         \A d \in Calls : HasSet(d) => form'[d] = form[d]
  PROVE  OneSets' /\ SetIsTrue' /\ PasswordIsKnown'
  <1>1. OneSets'
    BY DEF PasswordInv, OneSets
  <1>2. SetIsTrue'
    BY DEF PasswordInv, SetIsTrue
  <1>3. PasswordIsKnown'
    BY DEF PasswordInv, PasswordIsKnown, Quiet
  <1>4. QED
    BY <1>1, <1>2, <1>3

\* Whoever sets one may have overlapped with another, and then nothing is promised.
LEMMA AmissPromisesNothing ==
  ASSUME "password" \in amiss' PROVE OneSets' /\ SetIsTrue' /\ PasswordIsKnown'
  BY DEF OneSets, SetIsTrue, PasswordIsKnown, Quiet

\* Nobody has set a password that Supabase does not have a user for.
LEMMA NobodyHasSet ==
  ASSUME PagesInv, ~mix.direct, ~supa.there
  PROVE  ~AdminHasSet /\ known = None /\ \A c \in Calls : ~HasSet(c)
  <1>1. Founded /\ FormsInStep /\ account = "none"
    BY DEF PagesInv, Founded
  <1>2. ~AdminHasSet /\ known = None
    BY <1>1 DEF Founded, AdminHasSet
  <1>3. ASSUME NEW c \in Calls PROVE ~HasSet(c)
    BY <1>1, <1>3 DEF FormsInStep, FormInStep, IsAt, HasSet, Rowless
  <1>4. QED
    BY <1>2, <1>3

\* Another tab has set a password or has not, whatever this one does.
LEMMA OthersHaveSet ==
  ASSUME NEW c \in Calls,
         \A d \in Calls \ {c} : form'[d] = form[d] /\ stage'[d] = stage[d] /\ call'[d] = call[d]
  PROVE  \A d \in Calls \ {c} : HasSet(d)' <=> HasSet(d)
  BY DEF HasSet

\* The admin has set what he had, as long as only the users do anything.
LEMMA AdminStaysAside ==
  ASSUME UNCHANGED admin, PasswordInv PROVE (AdminHasSet' <=> AdminHasSet) /\ PasswordSteps'
  BY DEF AdminHasSet, PasswordInv, PasswordSteps

\* No form sets a password when it is sent.
LEMMA SendKeepsPassword ==
  ASSUME PagesInv, PasswordInv, NEW c \in Calls,
         \/ \E p \in Passwords : SendRegister(c, p) \/ SendLogin(c, p)
         \/ SendResend(c) \/ SendForgot(c) \/ ComeBack(c)
         \/ \E l \in VerifyLinks : OpenVerifyLink(c, l)
         \/ \E l \in ResetLinks, p \in Passwords : SendReset(c, l, p)
         \/ \E old, p \in Passwords : SendChange(c, old, p)
  PROVE  PasswordInv'
  <1>0. /\ PagesTyped /\ TypeOK /\ form[c] = None
        /\ UNCHANGED <<admin, known, amiss>>
    BY DEF PagesInv, PagesTyped, SendRegister, SendLogin, SendResend, SendForgot, ComeBack,
           OpenVerifyLink, SendReset, SendChange, Send, marks
  <1>1. supa'.password = supa.password
    BY <1>0 DEF PagesTyped, SendRegister, SendLogin, SendResend, SendForgot, ComeBack,
           OpenVerifyLink, SendReset, SendChange, Send
  <1>2. \A d \in Calls \ {c} : form'[d] = form[d] /\ stage'[d] = stage[d]
    BY <1>0 DEF PagesTyped, SendRegister, SendLogin, SendResend, SendForgot, ComeBack,
           OpenVerifyLink, SendReset, SendChange, Send
  <1>3. \A d \in Calls \ {c} : call'[d] = call[d]
    <2>1. call' = call \/ \E s, o, l, k, p : Begin(c, s, o, l, k, p)
      BY DEF SendRegister, SendLogin, SendResend, SendForgot, ComeBack,
             OpenVerifyLink, SendReset, SendChange, Register, ResendVerification, ForgotPassword,
             VerifyEmail, ResetPassword, OAuthSession, SignIn, vars
    <2>2. QED
      BY <1>0, <2>1, CallBegins
  <1>4. ~HasSet(c)'
    <2>1. \/ stage'[c] # "none"
          \/ form'[c].at \in {"resend", "forgot", "verify", "callback"}
      BY <1>0 DEF PagesTyped, SendRegister, SendLogin, SendResend, SendForgot, ComeBack,
             OpenVerifyLink, SendReset, SendChange, Send, Form
    <2>2. QED
      BY <2>1 DEF HasSet
  <1>5. \A d \in Calls : (HasSet(d)' <=> HasSet(d)) /\ (HasSet(d) => form'[d] = form[d])
    BY <1>0, <1>2, <1>3, <1>4, OthersHaveSet DEF HasSet
  <1>6. QED
    BY <1>0, <1>1, <1>5, PasswordStays, AdminStaysAside DEF PasswordInv

\* Supabase sets it, and the tab that asked has then set it.
LEMMA SupabaseKeepsPassword ==
  ASSUME PagesInv, PagesInv', PasswordInv, NEW c \in Calls, SupabaseDoes(c) PROVE PasswordInv'
  <1>0. /\ PagesTyped /\ TypeOK /\ Due(c) /\ Agrees(c) /\ ~mix.direct
        /\ form[c] # None /\ form[c] \in AForm /\ stage[c] # "none" /\ FormInStep(c)
        /\ UNCHANGED <<mix, admin, known>> /\ supa' = Asked(c)
        /\ amiss' = IF stage[c] = "set" /\ Overlap(c) THEN amiss \cup {"password"} ELSE amiss
    BY AskedOf DEF SupabaseDoes, PagesInv, PagesTyped, bounds, FormsInStep
  <1>1. \A d \in Calls \ {c} : form'[d] = form[d] /\ stage'[d] = stage[d] /\ call'[d] = call[d]
    <2>1. \/ UNCHANGED form
          \/ form' = [form EXCEPT ![c] = None]
      BY DEF SupabaseDoes, Settled
    <2>2. \E q : stage' = [stage EXCEPT ![c] = q]
      BY DEF SupabaseDoes, Settled
    <2>3. call' = call \/ \E s, o, l, k, p : Begin(c, s, o, l, k, p)
      BY DEF SupabaseDoes, Login, ChangePassword, SignIn, vars
    <2>4. QED
      BY <1>0, <2>1, <2>2, <2>3, CallBegins DEF PagesTyped
  <1>2. ~HasSet(c)
    BY <1>0 DEF HasSet
  <1>3. \A d \in Calls \ {c} : HasSet(d)' <=> HasSet(d)
    BY <1>1, OthersHaveSet
  <1>4. (AdminHasSet' <=> AdminHasSet) /\ PasswordSteps'
    BY <1>0, AdminStaysAside
  <1>5. CASE stage[c] = "check"
    <2>1. supa' = supa /\ amiss' = amiss
      BY <1>0, <1>5 DEF Asked
    <2>2. ~HasSet(c)'
      <3>1. stage'[c] = "set" \/ form'[c] = None \/ form'[c].at = "login"
        BY <1>0, <1>5 DEF SupabaseDoes, Settled, PagesTyped
      <3>2. QED
        BY <3>1 DEF HasSet
    <2>3. \A d \in Calls : (HasSet(d)' <=> HasSet(d)) /\ (HasSet(d) => form'[d] = form[d])
      BY <1>1, <1>2, <1>3, <2>2
    <2>4. QED
      BY <1>0, <1>4, <2>1, <2>3, PasswordStays DEF PasswordInv
  <1>6. CASE stage[c] = "create"
    <2>1. ~supa.there
      BY <1>0, <1>6 DEF Agrees
    <2>2. ~AdminHasSet /\ known = None /\ \A d \in Calls : ~HasSet(d)
      BY <1>0, <2>1, NobodyHasSet
    <2>3. form' = form
      BY <1>6 DEF SupabaseDoes
    <2>4. supa'.password = form'[c].typed
      BY <1>0, <1>6, <2>1, <2>3 DEF Asked, PagesTyped
    <2>5. QED
      BY <1>0, <1>3, <1>4, <2>2, <2>4 DEF PasswordInv, OneSets, SetIsTrue, PasswordIsKnown
  <1>7. CASE stage[c] = "set"
    <2>1. CASE Overlap(c)
      BY <1>0, <1>4, <1>7, <2>1, AmissPromisesNothing DEF PasswordInv
    <2>2. CASE ~Overlap(c)
      <3>1. ~AdminHasSet /\ \A d \in Calls \ {c} : ~HasSet(d)
        BY <2>2 DEF Overlap
      <3>2. form' = form /\ stage'[c] = "none"
        BY <1>0, <1>7 DEF SupabaseDoes, PagesTyped
      <3>3. supa'.password = form'[c].typed
        BY <1>0, <1>7, <3>2, AskedOf
      <3>4. form'[c].at \in {"reset", "change"}
        BY <1>0, <1>7, <3>2 DEF FormInStep, IsAt
      <3>5. HasSet(c)'
        <4>1. FormInStep(c)' /\ form'[c] # None
          BY <1>0, <3>2 DEF PagesInv, FormsInStep
        <4>2. QED
          BY <3>2, <3>4, <4>1 DEF FormInStep, IsAt, HasSet
      <3>6. QED
        BY <1>0, <1>3, <1>4, <3>1, <3>3, <3>4, <3>5 DEF PasswordInv, OneSets, SetIsTrue, PasswordIsKnown, Quiet
    <2>3. QED
      BY <2>1, <2>2
  <1>8. QED
    BY <1>0, <1>5, <1>6, <1>7 DEF PagesTyped

\* It may have done as it was asked all the same; that is then known to be amiss.
LEMMA RefusalKeepsPassword ==
  ASSUME PagesInv, PasswordInv, NEW c \in Calls, SupabaseRefuses(c) PROVE PasswordInv'
  <1>0. /\ PagesTyped /\ TypeOK /\ Due(c) /\ Settled(c) /\ ~mix.direct /\ stage[c] # "none"
        /\ UNCHANGED <<admin, known>>
        /\ supa' \in {supa, Asked(c)} /\ amiss \subseteq amiss'
        /\ supa' # supa /\ stage[c] # "create" => "password" \in amiss'
    BY AskedOf DEF SupabaseRefuses, PagesInv, PagesTyped, TellError
  <1>1. /\ \A d \in Calls \ {c} : form'[d] = form[d] /\ stage'[d] = stage[d] /\ call'[d] = call[d]
        /\ form'[c] = None
    <2>1. CASE At(c, "idle")
      BY <1>0, <2>1 DEF SupabaseRefuses, vars, Settled, PagesTyped
    <2>2. CASE ~At(c, "idle")
      BY <1>0, <2>2, CallReturns DEF SupabaseRefuses, Fail, Settled, PagesTyped
    <2>3. QED
      BY <2>1, <2>2
  <1>2. \A d \in Calls : (HasSet(d)' <=> HasSet(d)) /\ (HasSet(d) => form'[d] = form[d])
    BY <1>0, <1>1, OthersHaveSet DEF HasSet
  <1>3. (AdminHasSet' <=> AdminHasSet) /\ PasswordSteps'
    BY <1>0, AdminStaysAside
  <1>4. CASE supa' = supa
    BY <1>0, <1>2, <1>3, <1>4, PasswordStays DEF PasswordInv
  <1>5. CASE supa' # supa /\ stage[c] # "create"
    BY <1>0, <1>3, <1>5, AmissPromisesNothing DEF PasswordInv
  <1>6. CASE supa' # supa /\ stage[c] = "create"
    <2>1. ~supa.there
      BY <1>0, <1>6, AskedOf
    <2>2. ~AdminHasSet /\ known = None /\ \A d \in Calls : ~HasSet(d)
      BY <1>0, <2>1, NobodyHasSet
    <2>3. QED
      BY <1>0, <1>2, <1>3, <2>2 DEF PasswordInv, OneSets, SetIsTrue, PasswordIsKnown
  <1>7. QED
    BY <1>4, <1>5, <1>6

\* Whoever is told so has set it; whoever fails after setting it says so.
LEMMA GivingUpKeepsPassword ==
  ASSUME PagesInv, PasswordInv, NEW c \in Calls, GiveUp(c) PROVE PasswordInv'
  <1>0. /\ PagesTyped /\ TypeOK /\ Settled(c) /\ UNCHANGED <<supa, admin, known>>
        /\ amiss \subseteq amiss'
        /\ HasSet(c) => "password" \in amiss'
    BY DEF GiveUp, PagesInv, PagesTyped, TellError, Undone
  <1>1. /\ \A d \in Calls \ {c} : form'[d] = form[d] /\ stage'[d] = stage[d] /\ call'[d] = call[d]
        /\ form'[c] = None
    BY <1>0, CallReturns DEF GiveUp, Fail, Settled, PagesTyped
  <1>2. (AdminHasSet' <=> AdminHasSet) /\ PasswordSteps'
    BY <1>0, AdminStaysAside
  <1>3. CASE HasSet(c)
    BY <1>0, <1>2, <1>3, AmissPromisesNothing DEF PasswordInv
  <1>4. CASE ~HasSet(c)
    <2>1. \A d \in Calls : (HasSet(d)' <=> HasSet(d)) /\ (HasSet(d) => form'[d] = form[d])
      BY <1>1, <1>4, OthersHaveSet DEF HasSet
    <2>2. QED
      BY <1>0, <1>2, <2>1, PasswordStays DEF PasswordInv
  <1>5. QED
    BY <1>3, <1>4

\* A tab that is told that its password is set has set it, alone.
LEMMA GoingOnKeepsPassword ==
  ASSUME PagesInv, PagesInv', PasswordInv, NEW c \in Calls, GoOn(c) PROVE PasswordInv'
  <1>0. /\ PagesTyped /\ TypeOK /\ form[c] # None /\ FormInStep(c) /\ ~mix.direct
        /\ Continue(c) /\ MayGoOn(c) /\ UNCHANGED <<supa, admin>>
        /\ IsAt(form[c].at, stage[c], c)
    BY DEF GoOn, PagesInv, PagesTyped, FormsInStep, FormInStep
  <1>1. /\ Onward(c, call'[c].step)
        /\ \A d \in Calls \ {c} : call'[d] = call[d]
    BY <1>0, ContinueMoves
  <1>2. (AdminHasSet' <=> AdminHasSet) /\ PasswordSteps'
    BY <1>0, AdminStaysAside
  <1>3. CASE call'[c].step # "idle"
    <2>1. UNCHANGED <<form, stage, known, amiss>>
      BY <1>3 DEF GoOn, marks
    <2>2. HasSet(c)' <=> HasSet(c)
      BY <1>0, <1>1, <1>3, <2>1 DEF HasSet, IsAt, Onward
    <2>3. \A d \in Calls : HasSet(d)' <=> HasSet(d)
      BY <1>1, <2>1, <2>2, OthersHaveSet
    <2>4. QED
      BY <1>0, <1>2, <2>1, <2>3, PasswordStays DEF PasswordInv
  <1>4. CASE call'[c].step = "idle"
    <2>1. Settled(c) /\ amiss' = amiss
      BY <1>4 DEF GoOn, TellOk, TellError
    <2>2. /\ form'[c] = None
          /\ \A d \in Calls \ {c} : form'[d] = form[d] /\ stage'[d] = stage[d] /\ call'[d] = call[d]
      BY <1>0, <1>1, <2>1 DEF Settled, PagesTyped
    <2>3. ~HasSet(c)' /\ \A d \in Calls \ {c} : HasSet(d)' <=> HasSet(d)
      BY <2>2, OthersHaveSet DEF HasSet
    <2>4. CASE ~HasSet(c)
      <3>1. known' = known
        BY <1>0, <1>4, <2>4 DEF GoOn, TellOk, TellError, HasSet, IsAt, MayGoOn
      <3>2. \A d \in Calls : (HasSet(d)' <=> HasSet(d)) /\ (HasSet(d) => form'[d] = form[d])
        BY <2>2, <2>3, <2>4
      <3>3. QED
        BY <1>0, <1>2, <2>1, <3>1, <3>2, PasswordStays DEF PasswordInv
    <2>5. CASE HasSet(c) /\ "password" \in amiss
      BY <1>2, <2>1, <2>5, AmissPromisesNothing DEF PasswordInv
    <2>6. CASE HasSet(c) /\ "password" \notin amiss
      <3>1. /\ ~AdminHasSet /\ \A d \in Calls \ {c} : ~HasSet(d)
            /\ supa.password = form[c].typed
            /\ form[c].at = "register" => known = None
        BY <2>6 DEF PasswordInv, OneSets, SetIsTrue
      <3>2. known' = form[c].typed \/ (known' = known /\ form[c].at = "register")
        <4>1. CASE TellOk(c)
          BY <2>6, <4>1 DEF TellOk, HasSet
        <4>2. CASE TellError({}) /\ call[c].step # "reply"
          BY <1>0, <1>1, <1>4, <2>6, <4>2 DEF TellError, HasSet, Onward
        <4>3. QED
          BY <1>4, <4>1, <4>2 DEF GoOn
      <3>3. QED
        BY <1>0, <1>2, <2>3, <3>1, <3>2 DEF PasswordInv, OneSets, SetIsTrue, PasswordIsKnown
    <2>7. QED
      BY <2>4, <2>5, <2>6
  <1>5. QED
    BY <1>3, <1>4

\* The admin is told when he has set one, or fails with a warning.
LEMMA AdminKeepsPassword ==
  ASSUME PagesInv, PasswordInv, AdminNext PROVE PasswordInv'
  <1>0. /\ PagesTyped /\ AdminSteps /\ PasswordSteps /\ (RoleSteps \/ mix.direct)
    BY AdminStepIsTyped DEF PagesInv, PasswordInv
  <1>1. \A d \in Calls : (HasSet(d)' <=> HasSet(d)) /\ (HasSet(d) => form'[d] = form[d])
    BY <1>0 DEF AdminSteps, HasSet
  <1> SUFFICES /\ PasswordSteps'
               /\ OneSets' /\ SetIsTrue' /\ PasswordIsKnown'
    BY DEF PasswordInv
  <1>2. CASE OpenUser \/ AdminDrops
    <2>1. /\ admin' = [admin EXCEPT !.step = "read"] /\ UNCHANGED <<supa, known>>
          /\ admin.step \in {"shut", "drop"}
      BY <1>2 DEF OpenUser, AdminDrops, Become
    <2>2. (AdminHasSet' <=> AdminHasSet) /\ admin'.typed = admin.typed /\ PasswordSteps'
      BY <1>0, <2>1, DeskMoves DEF AdminHasSet, PasswordSteps
    <2>3. QED
      BY <1>0, <1>1, <2>1, <2>2, PasswordStays DEF AdminSteps
  <1>3. ASSUME NEW op \in Buttons,
               NEW typed \in (CASE op = "password" -> Passwords [] op = "role" -> Roles
                               [] OTHER -> {None}), Press(op, typed)
        PROVE  PasswordSteps' /\ OneSets' /\ SetIsTrue' /\ PasswordIsKnown'
    <2>1. /\ UNCHANGED <<supa, known>> /\ admin.step = "open"
          /\ admin'.step = (IF op \in {"role", "verify", "unverify"} THEN "row" ELSE "supabase")
          /\ admin'.op = op
      BY <1>3 DEF Press, Become, Desk
    <2>2. (AdminHasSet' <=> AdminHasSet) /\ ~AdminHasSet /\ PasswordSteps'
      BY <2>1 DEF AdminHasSet, PasswordSteps
    <2>3. QED
      BY <1>0, <1>1, <2>1, <2>2, PasswordStays DEF AdminSteps
  <1>4. CASE AdminWritesRow
    <2>1. UNCHANGED <<supa, known>> /\ admin.step = "row"
      BY <1>4 DEF AdminWritesRow
    <2>2. PICK s \in {"supabase", "read"} : admin' = [admin EXCEPT !.step = s]
      BY <1>4 DEF AdminWritesRow, Become
    <2>3. (AdminHasSet' <=> AdminHasSet) /\ ~AdminHasSet /\ PasswordSteps'
      BY <1>0, <2>1, <2>2, DeskMoves DEF AdminHasSet, PasswordSteps
    <2>4. QED
      BY <1>0, <1>1, <2>1, <2>3, PasswordStays DEF AdminSteps
  <1>5. CASE AdminAsksSupabase
    <2>1. /\ supa' = Requested /\ known' = known /\ admin.step = "supabase"
          /\ amiss' = IF admin.op = "password" /\ \E c \in Calls : HasSet(c)
                      THEN amiss \cup {"password"} ELSE amiss
      BY <1>5 DEF AdminAsksSupabase
    <2>2. PICK s \in {"drop", "read"} : admin' = [admin EXCEPT !.step = s]
      BY <1>5 DEF AdminAsksSupabase, Become
    <2>3. /\ admin'.step = s /\ admin'.op = admin.op /\ admin'.typed = admin.typed
          /\ PasswordSteps' /\ ~AdminHasSet /\ (AdminHasSet' <=> admin.op = "password")
      BY <1>0, <2>1, <2>2, DeskMoves DEF AdminHasSet, PasswordSteps
    <2>4. supa'.password = IF admin.op = "password" THEN admin.typed ELSE supa.password
      BY <1>0, <2>1, RequestedOf
    <2>5. CASE admin.op # "password"
      BY <1>0, <1>1, <2>1, <2>3, <2>4, <2>5, PasswordStays DEF AdminSteps
    <2>6. CASE admin.op = "password" /\ \E c \in Calls : HasSet(c)
      BY <2>1, <2>3, <2>6, AmissPromisesNothing
    <2>7. CASE admin.op = "password" /\ \A c \in Calls : ~HasSet(c)
      <3>1. AdminHasSet' /\ supa'.password = admin'.typed /\ \A c \in Calls : ~HasSet(c)'
        BY <1>1, <2>3, <2>4, <2>7
      <3>2. OneSets' /\ SetIsTrue'
        BY <3>1 DEF OneSets, SetIsTrue
      <3>3. PasswordIsKnown'
        BY <3>1 DEF PasswordIsKnown, Quiet
      <3>4. QED
        BY <2>3, <3>2, <3>3
    <2>8. QED
      BY <2>5, <2>6, <2>7
  <1>6. CASE AdminIsShown
    <2>1. /\ supa' = supa /\ admin.step = "read"
          /\ known' = IF admin.op = "password" THEN admin.typed ELSE known
          /\ admin'.op = "none"
      BY <1>6 DEF AdminIsShown, Become, Desk
    <2>2. ~AdminHasSet' /\ PasswordSteps' /\ (AdminHasSet <=> admin.op = "password")
      BY <2>1 DEF AdminHasSet, PasswordSteps
    <2>3. CASE admin.op # "password"
      BY <1>0, <1>1, <2>1, <2>2, <2>3, PasswordStays DEF AdminSteps
    <2>4. CASE admin.op = "password" /\ "password" \in amiss
      BY <1>0, <2>2, <2>4, AmissPromisesNothing DEF AdminSteps
    <2>5. CASE admin.op = "password" /\ "password" \notin amiss
      <3>1. supa'.password = known' /\ \A c \in Calls : ~HasSet(c)'
        BY <1>1, <2>1, <2>2, <2>5 DEF PasswordInv, OneSets, SetIsTrue
      <3>2. OneSets' /\ SetIsTrue'
        BY <2>2, <3>1 DEF OneSets, SetIsTrue
      <3>3. PasswordIsKnown'
        BY <3>1 DEF PasswordIsKnown, Quiet
      <3>4. QED
        BY <2>2, <3>2, <3>3
    <2>6. QED
      BY <2>3, <2>4, <2>5
  <1>7. CASE AdminFails
    <2>1. /\ supa' = supa \/ (supa' = Requested /\ admin.step = "supabase")
          /\ known' = known /\ admin'.op = "none"
          /\ admin.op = "password" /\ (supa' # supa \/ AdminHasSet) => "password" \in amiss'
      BY <1>7 DEF AdminFails, Become, Desk
    <2>2. ~AdminHasSet' /\ PasswordSteps' /\ (AdminHasSet => admin.op = "password")
      BY <2>1 DEF AdminHasSet, PasswordSteps
    <2>3. CASE "password" \in amiss'
      BY <2>2, <2>3, AmissPromisesNothing
    <2>4. CASE "password" \notin amiss'
      <3>1. ~AdminHasSet /\ supa'.password = supa.password
        BY <1>0, <2>1, <2>2, <2>4, RequestedOf
      <3>2. QED
        BY <1>0, <1>1, <2>1, <2>2, <3>1, PasswordStays DEF AdminSteps
    <2>5. QED
      BY <2>3, <2>4
  <1>8. QED
    BY <1>2, <1>3, <1>4, <1>5, <1>6, <1>7 DEF AdminNext

\* A step of an account without pages, the expiry of a link, or none.
LEMMA AsideKeepsPassword ==
  ASSUME PagesInv, PasswordInv,
         \/ Direct
         \/ UNCHANGED pageVars /\ \E l \in Links : LinkExpires(l)
         \/ UNCHANGED allVars
  PROVE  PasswordInv'
  <1>1. UNCHANGED <<supa, form, stage, admin, known, amiss>>
    BY DEF Direct, pageVars, allVars, bounds, marks
  <1>2. \A d \in Calls : HasSet(d)' <=> HasSet(d)
    <2>1. CASE Direct
      BY <1>1, <2>1 DEF HasSet, Direct, PagesInv, PagesTyped
    <2>2. CASE UNCHANGED call
      BY <1>1, <2>2 DEF HasSet
    <2>3. QED
      BY <2>1, <2>2 DEF LinkExpires, allVars, vars
  <1>3. (AdminHasSet' <=> AdminHasSet) /\ PasswordSteps'
    BY <1>1, AdminStaysAside
  <1>4. QED
    BY <1>1, <1>2, <1>3, PasswordStays DEF PasswordInv

\* Every step keeps what is claimed of the password.
LEMMA StepKeepsPassword ==
  ASSUME PagesInv, PagesInv', PasswordInv, [AccountNext]_allVars PROVE PasswordInv'
  <1>1. CASE Direct \/ UNCHANGED allVars
    BY <1>1, AsideKeepsPassword
  <1>2. CASE UserNext
    BY <1>2, SendKeepsPassword, SupabaseKeepsPassword, RefusalKeepsPassword, GoingOnKeepsPassword,
       GivingUpKeepsPassword, AsideKeepsPassword DEF UserNext
  <1>3. CASE AdminNext
    BY <1>3, AdminKeepsPassword
  <1>4. QED
    BY <1>1, <1>2, <1>3 DEF AccountNext

\* A member's password is the one he has.
LEMMA InitEstablishesPassword == AccountInit => PasswordInv
  <1> SUFFICES ASSUME AccountInit PROVE PasswordInv
    OBVIOUS
  <1>1. /\ \A c \in Calls : ~HasSet(c)
        /\ admin.op = "none"
    BY DeskIsDesk DEF AccountInit, HasSet, Desk
  <1>2. known = None \/ supa.password = known
    BY DEF AccountInit
  <1>3. QED
    BY <1>1, <1>2 DEF PasswordInv, OneSets, SetIsTrue, PasswordSteps, PasswordIsKnown, AdminHasSet

\* The password that somebody was last told is set is the one Supabase has, unless
\* two were set at once or a call failed after setting one.
THEOREM AnnouncedPasswordIsSet == AccountSpec => []PasswordIsKnown
  <1>1. PagesInv /\ PagesInv' /\ PasswordInv /\ [AccountNext]_allVars => PasswordInv'
    BY StepKeepsPassword
  <1>2. PasswordInv => PasswordIsKnown
    BY DEF PasswordInv
  <1>3. QED
    BY InitEstablishesPassword, PagesKeepPagesInv, <1>1, <1>2, PTL DEF AccountSpec
==============================================================================
