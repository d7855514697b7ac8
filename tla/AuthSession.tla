----------------------------- MODULE AuthSession -----------------------------
(***************************************************************************)
(* The sessions of one account: AuthService (register, login, the emailed  *)
(* links, refresh, logout, password changes, OAuth) and the writes of      *)
(* AdminService to the same rows.                                          *)
(*                                                                         *)
(* An account has one RefreshSession row.  Whoever signs in or refreshes   *)
(* upserts it, which also clears revokedAt; whoever logs out sets          *)
(* revokedAt.  Between proving who he is and that upsert a caller awaits   *)
(* several times, and nothing he relied on is looked at again.             *)
(*                                                                         *)
(* A refresh token holds the user and the second it was signed in, and no  *)
(* nonce, so a token is that second: two of the same second are the same.  *)
(* A call the code refuses at once, and a token or session that has run    *)
(* out, change nothing and are not actions.                                *)
(***************************************************************************)
EXTENDS Naturals

CONSTANTS
  Calls,           \* slots for HTTP requests in flight
  VerifyLinks,     \* AuthActionToken rows of type EMAIL_VERIFICATION
  ResetLinks,      \* AuthActionToken rows of type PASSWORD_RESET
  NoLink,          \* no link
  MaxSecond,       \* bound: the last second of the clock
  MaxRevocations   \* bound: how often sessions are revoked

Links == VerifyLinks \cup ResetLinks

ASSUME AuthAssumption ==
  /\ MaxSecond \in Nat /\ MaxRevocations \in Nat
  /\ NoLink \notin Links

VARIABLES
  account,  \* the User row: none, and then isVerified
  session,  \* the RefreshSession row
  link,     \* the AuthActionToken rows
  held,     \* the refresh tokens that clients have been sent
  clock,    \* the current second
  era,      \* history: how many revocations there have been
  raced,    \* history: the revocations that ran while a call was signing in
  vouched,  \* history: somebody has vouched for the e-mail address
  call      \* the program counter and local variables of each call

rows    == <<account, session, link>>
history == <<era, raced, vouched>>
vars    == <<rows, held, clock, history, call>>

\* The awaits of a call that has proved who the caller is and is going to
\* issue tokens for him.
SigningIn == {"read_user", "consume", "verify", "revoke", "read_oauth", "create_oauth",
              "sign", "upsert"}
Steps == {"idle", "create_user", "delete_links", "create_link", "logout_write", "reply"}
         \cup SigningIn

\* proof: history, the revocations there had been when the caller proved
\* who he is, by password, link, OAuth or the session that he refreshes.
Call == [step  : Steps,
         op    : {"none", "sign_in", "reset_password", "refresh"},
         link  : Links \cup {NoLink},
         kind  : {VerifyLinks, ResetLinks},
         token : Nat,
         proof : Nat]

Idle == [step |-> "idle", proof |-> 0, link |-> NoLink, op |-> "none",
         kind |-> VerifyLinks, token |-> 0]

Session(token, proof) == [proof |-> proof, token |-> token, state |-> "live"]

TypeOK ==
  /\ account \in {"none", "unverified", "verified"}
  /\ session \in [state : {"none", "live", "revoked"}, token : Nat, proof : Nat]
  /\ link \in [Links -> {"none", "active", "expired", "consumed", "deleted"}]
  /\ held \in SUBSET Nat
  /\ clock \in Nat
  /\ era \in Nat
  /\ raced \in SUBSET Nat
  /\ vouched \in BOOLEAN
  /\ call \in [Calls -> Call]

Init ==
  /\ account = "none"
  /\ session = [proof |-> 0, token |-> 0, state |-> "none"]
  /\ link = [l \in Links |-> "none"]
  /\ held = {}
  /\ clock = 0
  /\ era = 0
  /\ raced = {}
  /\ vouched = FALSE
  /\ call = [c \in Calls |-> Idle]

-----------------------------------------------------------------------------
(* Control of a call. *)

At(c, step)   == call[c].step = step
Goto(c, step) == call' = [call EXCEPT ![c].step = step]
Return(c)     == call' = [call EXCEPT ![c] = Idle]

Begin(c, step, op, l, kind, proof) ==
  /\ At(c, "idle")
  /\ call' = [call EXCEPT ![c] = [step |-> step, proof |-> proof, link |-> l, op |-> op,
                                  kind |-> kind, token |-> 0]]

SignIn(c, step, op, l) == Begin(c, step, op, l, VerifyLinks, era)

-----------------------------------------------------------------------------
(* register, and the links that are sent by e-mail *)

Register(c) ==
  /\ account = "none"
  /\ Begin(c, "create_user", "none", NoLink, VerifyLinks, 0)
  /\ UNCHANGED <<rows, held, clock, history>>

\* user.create, after Supabase has created its user; the e-mail is unique.
CreateUser(c) ==
  /\ At(c, "create_user")
  /\ \/ account # "none" /\ Return(c) /\ UNCHANGED account
     \/ account = "none" /\ account' = "unverified" /\ Goto(c, "delete_links")
  /\ UNCHANGED <<session, link, held, clock, history>>

ResendVerification(c) ==
  /\ account = "unverified"
  /\ Begin(c, "delete_links", "none", NoLink, VerifyLinks, 0)
  /\ UNCHANGED <<rows, held, clock, history>>

ForgotPassword(c) ==
  /\ account # "none"
  /\ Begin(c, "delete_links", "none", NoLink, ResetLinks, 0)
  /\ UNCHANGED <<rows, held, clock, history>>

\* createAuthActionToken: the links of this kind that nobody has used go.
DeleteLinks(c) ==
  /\ At(c, "delete_links")
  /\ link' = [l \in Links |-> IF l \in call[c].kind /\ link[l] \in {"active", "expired"}
                              THEN "deleted" ELSE link[l]]
  /\ Goto(c, "create_link")
  /\ UNCHANGED <<account, session, held, clock, history>>

CreateLink(c) ==
  /\ At(c, "create_link")
  /\ \E l \in call[c].kind :
       link[l] = "none" /\ link' = [link EXCEPT ![l] = "active"]
  /\ Return(c)
  /\ UNCHANGED <<account, session, held, clock, history>>

-----------------------------------------------------------------------------
(* The ways to prove who one is. *)

\* login: Supabase has accepted the password.
Login(c) ==
  /\ account # "none"
  /\ SignIn(c, "read_user", "sign_in", NoLink)
  /\ UNCHANGED <<rows, held, clock, history>>

\* Mutant: an account that is not verified may sign in.
ReadUserUnchecked(c) ==
  /\ At(c, "read_user")
  /\ Goto(c, "sign")
  /\ UNCHANGED <<rows, held, clock, history>>

ReadUser(c) ==
  /\ At(c, "read_user")
  /\ IF account = "verified" THEN Goto(c, "sign") ELSE Return(c)
  /\ UNCHANGED <<rows, held, clock, history>>

\* findActiveAuthActionTokenRecord, on behalf of verifyEmail or resetPassword.
VerifyEmail(c, l) ==
  /\ link[l] = "active"
  /\ SignIn(c, "consume", "sign_in", l)
  /\ UNCHANGED <<rows, held, clock, history>>

ResetPassword(c, l) ==
  /\ link[l] = "active"
  /\ SignIn(c, "consume", "reset_password", l)
  /\ UNCHANGED <<rows, held, clock, history>>

\* $transaction [consumedAt, the user].  The row is updated by its id whatever
\* has happened to it since it was found; only a deleted row makes it throw.
Consume(c) ==
  LET l == call[c].link IN
  /\ At(c, "consume")
  /\ \/ link[l] = "deleted" /\ Return(c) /\ UNCHANGED link
     \/ /\ link[l] # "deleted"
        /\ link' = [link EXCEPT ![l] = "consumed"]
        /\ Goto(c, IF call[c].op = "reset_password" /\ account = "verified"
                   THEN "revoke" ELSE "verify")
  /\ UNCHANGED <<account, session, held, clock, history>>

\* isVerified: true, by verifyEmail, resetPassword or completeOAuthSession.
SetVerified(c) ==
  /\ At(c, "verify")
  /\ account' = "verified"
  /\ vouched' = TRUE
  /\ Goto(c, IF call[c].op = "reset_password" THEN "revoke" ELSE "sign")
  /\ UNCHANGED <<session, link, held, clock, era, raced>>

\* changePassword, signed in: Supabase has accepted the old password and set the new one.
ChangePassword(c) ==
  /\ held # {}
  /\ SignIn(c, "revoke", "sign_in", NoLink)
  /\ UNCHANGED <<rows, held, clock, history>>

\* completeOAuthSession: the provider vouches for the e-mail address.
OAuthSession(c) ==
  /\ SignIn(c, "read_oauth", "sign_in", NoLink)
  /\ UNCHANGED <<rows, held, clock, history>>

ReadOAuthUser(c) ==
  /\ At(c, "read_oauth")
  /\ Goto(c, IF account = "none" THEN "create_oauth"
             ELSE IF account = "unverified" THEN "verify" ELSE "sign")
  /\ UNCHANGED <<rows, held, clock, history>>

CreateOAuthUser(c) ==
  /\ At(c, "create_oauth")
  /\ \/ account # "none" /\ Return(c) /\ UNCHANGED <<account, vouched>>
     \/ account = "none" /\ account' = "verified" /\ vouched' = TRUE /\ Goto(c, "sign")
  /\ UNCHANGED <<session, link, held, clock, era, raced>>

\* Mutant: refresh does not look at revokedAt.
RefreshRevoked(c, t) ==
  /\ t \in held
  /\ session.state # "none" /\ session.token = t
  /\ Begin(c, "sign", "refresh", NoLink, VerifyLinks, session.proof)
  /\ UNCHANGED <<rows, held, clock, history>>

\* refresh: the token is that of the session, and nobody has revoked it.
Refresh(c, t) ==
  /\ t \in held
  /\ session.state = "live" /\ session.token = t
  /\ Begin(c, "sign", "refresh", NoLink, VerifyLinks, session.proof)
  /\ UNCHANGED <<rows, held, clock, history>>

-----------------------------------------------------------------------------
(* issueTokens, and the reply that sets the cookies *)

Sign(c) ==
  /\ At(c, "sign")
  /\ call' = [call EXCEPT ![c] = [@ EXCEPT !.step = "upsert", !.token = clock]]
  /\ UNCHANGED <<rows, held, clock, history>>

\* refreshSession.upsert: whatever the row said, it is live with this token.
Upsert(c) ==
  /\ At(c, "upsert")
  /\ session' = Session(call[c].token, call[c].proof)
  /\ Goto(c, "reply")
  /\ UNCHANGED <<account, link, held, clock, history>>

Reply(c) ==
  /\ At(c, "reply")
  /\ held' = held \cup {call[c].token}
  /\ Return(c)
  /\ UNCHANGED <<rows, clock, history>>

-----------------------------------------------------------------------------
(* Revocation *)

\* History: a revocation, and whether one of the others was signing in.
Revocation(others) ==
  /\ era < MaxRevocations
  /\ era' = era + 1
  /\ raced' = IF \E c \in others : call[c].step \in SigningIn
              THEN raced \cup {era + 1} ELSE raced
  /\ UNCHANGED vouched

\* revokeRefreshSessions: updateMany of the rows that are not revoked yet.
RevokeSessions ==
  session' = IF session.state = "live" THEN [session EXCEPT !.state = "revoked"] ELSE session

\* resetPassword and changePassword, once the new password is set.  The caller
\* stays: he has just proved who he is.
Revoke(c) ==
  /\ At(c, "revoke")
  /\ Revocation(Calls \ {c})
  /\ RevokeSessions
  /\ call' = [call EXCEPT ![c] = [@ EXCEPT !.step = "sign", !.proof = era + 1]]
  /\ UNCHANGED <<account, link, held, clock>>

LogoutAll ==
  /\ held # {}
  /\ Revocation(Calls)
  /\ RevokeSessions
  /\ UNCHANGED <<account, link, held, clock, call>>

\* logout: the token is still that of the session.
Logout(c, t) ==
  /\ t \in held
  /\ session.state # "none" /\ session.token = t
  /\ Begin(c, "logout_write", "none", NoLink, VerifyLinks, 0)
  /\ UNCHANGED <<rows, held, clock, history>>

\* revokedAt by userId; throws if the row was deleted meanwhile.
LogoutWrite(c) ==
  /\ At(c, "logout_write")
  /\ \/ session.state = "none" /\ UNCHANGED <<session, history>>
     \/ /\ session.state # "none" /\ Revocation(Calls \ {c})
        /\ session' = [session EXCEPT !.state = "revoked"]
  /\ Return(c)
  /\ UNCHANGED <<account, link, held, clock>>

\* setUserAccess, setUserPassword and setUserRole delete the row.
AdminDropsSession ==
  /\ account # "none"
  /\ Revocation(Calls)
  /\ session' = [session EXCEPT !.state = "none"]
  /\ UNCHANGED <<account, link, held, clock, call>>

AdminSetsVerification(v) ==
  /\ account # "none"
  /\ account' = v
  /\ vouched' = (vouched \/ v = "verified")
  /\ UNCHANGED <<session, link, held, clock, era, raced, call>>

-----------------------------------------------------------------------------
(* Time and failure *)

Tick ==
  /\ clock < MaxSecond
  /\ clock' = clock + 1
  /\ UNCHANGED <<rows, held, history, call>>

LinkExpires(l) ==
  /\ link[l] = "active"
  /\ link' = [link EXCEPT ![l] = "expired"]
  /\ UNCHANGED <<account, session, held, clock, history, call>>

\* An await throws, or the process dies: what was written stays.
Fail(c) ==
  /\ ~At(c, "idle")
  /\ Return(c)
  /\ UNCHANGED <<rows, held, clock, history>>

-----------------------------------------------------------------------------
Request(c) ==
  \/ Register(c) \/ ResendVerification(c) \/ ForgotPassword(c)
  \/ Login(c) \/ ChangePassword(c) \/ OAuthSession(c)
  \/ \E l \in VerifyLinks : VerifyEmail(c, l)
  \/ \E l \in ResetLinks : ResetPassword(c, l)
  \/ \E t \in held : Refresh(c, t) \/ Logout(c, t)

Continue(c) ==
  \/ CreateUser(c) \/ DeleteLinks(c) \/ CreateLink(c)
  \/ ReadUser(c) \/ Consume(c) \/ SetVerified(c)
  \/ ReadOAuthUser(c) \/ CreateOAuthUser(c)
  \/ Sign(c) \/ Upsert(c) \/ Reply(c)
  \/ Revoke(c) \/ LogoutWrite(c)

Next ==
  \/ \E c \in Calls : Request(c) \/ Continue(c) \/ Fail(c)
  \/ LogoutAll \/ AdminDropsSession
  \/ \E v \in {"unverified", "verified"} : AdminSetsVerification(v)
  \/ Tick \/ \E l \in Links : LinkExpires(l)

Spec == Init /\ [][Next]_vars

-----------------------------------------------------------------------------
(* What holds of every interleaving and every failure. *)

Live == session.state = "live"

\* Nobody is signed in to an account that nobody has vouched for: the only
\* way in leads through a link, a provider or an admin, and refresh, which
\* looks at no flag, only prolongs what began that way.
SignedInMeansVouched == session.state # "none" => vouched

\* A session that has outlived a revocation was being issued while that
\* revocation ran.  A caller who comes later with what he had before, a
\* refresh token or an unfinished sign-in, does not get around it.
RevocationMissesOnlySignIns == Live => \A e \in session.proof + 1 .. era : e \in raced
==============================================================================
