---------------------------- MODULE BrowserSession ----------------------------
(***************************************************************************)
(* One browser and its session: the cookies, which all its tabs share, and *)
(* each tab's requests, which on a 401 refresh the session and try once    *)
(* more.  A tab has one refresh in flight at a time; two tabs do not know  *)
(* of each other.  Of the server there is what AuthController and the      *)
(* guard do with the cookies; AuthSession has the account behind them.     *)
(*                                                                         *)
(* A request carries the cookies of the moment it is sent.  A GET or POST  *)
(* goes through requestJson; sendThreadAttachment ("upload") reads the     *)
(* CSRF cookie before it sends, and once; getThreadMessages and            *)
(* uploadMediaFile ("raw") do not try again.                               *)
(***************************************************************************)
EXTENDS Naturals, FiniteSets

CONSTANTS
  Tabs,       \* the tabs of the browser
  Users,      \* whom one can sign in as
  None,       \* nobody, no tab
  Calls,      \* slots for calls of lib/api.ts
  Kinds,      \* the calls that are made
  MaxCalls,   \* bound: how many calls are made
  MaxTokens   \* bound: how many refresh tokens are issued

ASSUME BrowserAssumption ==
  /\ None \notin Users /\ None \notin Tabs
  /\ MaxCalls \in Nat /\ MaxTokens \in Nat
  /\ Kinds \subseteq {"get", "post", "upload", "raw", "session", "login", "logout", "logout_all"}

VARIABLES
  jar,      \* the cookies
  row,      \* the refresh token each user's RefreshSession row takes, 0 if none
  issued,   \* how many tokens have been issued; with each goes a CSRF token
  call,     \* the calls
  refresh,  \* inFlightRefresh of each tab
  cached,   \* cachedSession of each tab
  made,     \* how many calls have been made
  excused,  \* history: something happened that may cost the browser its session
  mixed,    \* history: the tabs whose session changed unknown to them
  refused   \* history: the calls that were refused to a signed-in browser

server  == <<row, issued>>
history == <<excused, mixed, refused>>
vars    == <<jar, server, call, refresh, cached, made, history>>

\* csrf is the number of the CSRF cookie, issued with the token of that number.
Jar == [user : Users \cup {None}, access : BOOLEAN, token : Nat, csrf : Nat]
EmptyJar     == [user |-> None, access |-> FALSE, token |-> 0, csrf |-> 0]
Cookies(u, n) == [user |-> u, access |-> TRUE, token |-> n, csrf |-> n]

Call == [step    : {"idle", "sent", "served", "waiting"},
         kind    : Kinds \cup {"none"},
         tab     : Tabs \cup {None},
         as      : Users \cup {None},   \* whom a login is for
         sent    : Jar,                 \* the cookies it was sent with
         header  : Nat,                 \* x-csrf-token
         retried : BOOLEAN,
         status  : {"none", "ok", "401", "403"},
         set     : Jar]                 \* the cookies of the reply, if it sets any

Idle == [step |-> "idle", kind |-> "none", tab |-> None, as |-> None,
         sent |-> EmptyJar, header |-> 0, retried |-> FALSE, status |-> "none", set |-> EmptyJar]

Refresh == [step : {"none", "sent", "checked", "served"}, sent : Jar, status : {"none", "ok", "401"},
            set : Jar]
NoRefresh == [step |-> "none", sent |-> EmptyJar, status |-> "none", set |-> EmptyJar]

TypeOK ==
  /\ jar \in Jar
  /\ row \in [Users -> Nat] /\ issued \in 0 .. MaxTokens
  /\ call \in [Calls -> Call]
  /\ refresh \in [Tabs -> Refresh]
  /\ cached \in [Tabs -> Users \cup {None}]
  /\ made \in 0 .. MaxCalls
  /\ excused \in BOOLEAN /\ mixed \in SUBSET Tabs /\ refused \in SUBSET Kinds

Init ==
  /\ jar = EmptyJar
  /\ row = [u \in Users |-> 0] /\ issued = 0
  /\ call = [c \in Calls |-> Idle]
  /\ refresh = [t \in Tabs |-> NoRefresh]
  /\ cached = [t \in Tabs |-> None]
  /\ made = 0
  /\ excused = FALSE /\ mixed = {} /\ refused = {}

-----------------------------------------------------------------------------
At(c, step) == call[c].step = step
Signing     == {"login", "logout", "logout_all"}
Mutations   == {"post", "upload", "logout", "logout_all"}

\* The calls of tab t that are on their way; those of every tab.
InFlight(t, kinds) == {c \in Calls : call[c].step # "idle" /\ call[c].tab = t /\ call[c].kind \in kinds}
Anywhere(kinds)    == {c \in Calls : call[c].step # "idle" /\ call[c].kind \in kinds}
Refreshing         == {t \in Tabs : refresh[t].step # "none"}

\* Mutant: the CSRF cookie is read when the call begins.
SentWithOldHeader(r) ==
  [r EXCEPT !.step = "sent", !.sent = jar', !.header = IF r.retried THEN @ ELSE jar'.csrf]

\* The request goes out, the first time or again.
Sent(r) ==
  [r EXCEPT !.step = "sent", !.sent = jar',
            !.header = IF r.kind = "upload" /\ r.retried THEN @ ELSE jar'.csrf]

\* The cookies that a call or a refresh of tab t brought: other tabs do not notice.
Store(cookies, t, unknown) ==
  /\ jar' = cookies
  /\ mixed' = mixed \cup IF cookies.user = jar.user THEN {}
                         ELSE (Tabs \ {t}) \cup unknown

-----------------------------------------------------------------------------
(* lib/api.ts: a call begins. *)

\* Mutant: login keeps the session that is cached.
BeginKeepingCache(c, t, kind, u) ==
  /\ At(c, "idle") /\ made < MaxCalls /\ made' = made + 1
  /\ kind = "session" => cached[t] = None /\ InFlight(t, {"session"}) = {}
  /\ UNCHANGED <<jar, server, refresh, refused, cached>>
  /\ call' = [call EXCEPT ![c] = Sent([Idle EXCEPT !.kind = kind, !.tab = t, !.as = u])]
  /\ excused' = (excused \/ (kind \in Signing /\ (Refreshing # {} \/ Anywhere(Signing) # {})))
  /\ mixed' = mixed \cup IF \/ kind = "login" /\ InFlight(t, {"session"}) # {}
                            \/ kind = "session" /\ InFlight(t, {"login"}) # {}
                         THEN {t} ELSE {}

\* getAuthSession asks only if nothing is cached and nobody is asking; login
\* and its like forget what is cached before they ask.
Begin(c, t, kind, u) ==
  /\ At(c, "idle") /\ made < MaxCalls /\ made' = made + 1
  /\ kind = "session" => cached[t] = None /\ InFlight(t, {"session"}) = {}
  /\ UNCHANGED <<jar, server, refresh, refused>>
  /\ call' = [call EXCEPT ![c] = Sent([Idle EXCEPT !.kind = kind, !.tab = t, !.as = u])]
  /\ cached' = IF kind = "login" THEN [cached EXCEPT ![t] = None] ELSE cached
  /\ excused' = (excused \/ (kind \in Signing /\ (Refreshing # {} \/ Anywhere(Signing) # {})))
  /\ mixed' = mixed \cup IF \/ kind = "login" /\ InFlight(t, {"session"}) # {}
                            \/ kind = "session" /\ InFlight(t, {"login"}) # {}
                         THEN {t} ELSE {}

-----------------------------------------------------------------------------
(* AuthController, and the guard. *)

Answer(c, status, cookies) ==
  /\ call' = [call EXCEPT ![c].step = "served", ![c].status = status, ![c].set = cookies]
  /\ UNCHANGED <<jar, refresh, cached, made, history>>

\* login is public: the password is right, and the cookies are set, or it is not.
ServeLogin(c) ==
  /\ At(c, "sent") /\ call[c].kind = "login"
  /\ \/ /\ issued < MaxTokens /\ issued' = issued + 1
        /\ row' = [row EXCEPT ![call[c].as] = issued']
        /\ Answer(c, "ok", Cookies(call[c].as, issued'))
     \/ UNCHANGED server /\ Answer(c, "401", EmptyJar)

\* A mutation whose header is not its cookie is forbidden; then the access token
\* is looked at.
Forbidden(r)    == r.kind \in Mutations /\ (r.sent.csrf = 0 \/ r.header # r.sent.csrf)
Unauthorized(r) == ~Forbidden(r) /\ ~r.sent.access

ServeRefused(c) ==
  /\ At(c, "sent") /\ call[c].kind # "login"
  /\ \/ Forbidden(call[c]) /\ Answer(c, "403", EmptyJar)
     \/ Unauthorized(call[c]) /\ Answer(c, "401", EmptyJar)
  /\ UNCHANGED server

ServeGuarded(c) ==
  /\ At(c, "sent") /\ call[c].kind \notin Signing
  /\ ~Forbidden(call[c]) /\ call[c].sent.access
  /\ Answer(c, "ok", EmptyJar)
  /\ UNCHANGED server

\* logout revokes the row if it takes this token, logoutAll whatever it takes.
ServeLogout(c) ==
  LET r == call[c] IN
  /\ At(c, "sent") /\ r.kind \in {"logout", "logout_all"}
  /\ ~Forbidden(r) /\ r.sent.access
  /\ row' = IF r.kind = "logout_all" \/ row[r.sent.user] = r.sent.token
            THEN [row EXCEPT ![r.sent.user] = 0] ELSE row
  /\ UNCHANGED issued
  /\ Answer(c, "ok", EmptyJar)

\* refresh: the token is looked at ...
ServeRefreshCheck(t) ==
  LET sent == refresh[t].sent IN
  /\ refresh[t].step = "sent"
  /\ refresh' = [refresh EXCEPT ![t] =
       IF sent.token # 0 /\ row[sent.user] = sent.token THEN [@ EXCEPT !.step = "checked"]
       ELSE [@ EXCEPT !.step = "served", !.status = "401"]]
  /\ UNCHANGED <<jar, server, call, cached, made, history>>

\* ... and then rotated, whatever the row takes by now.
ServeRefreshRotate(t) ==
  LET u == refresh[t].sent.user IN
  /\ refresh[t].step = "checked"
  /\ issued < MaxTokens /\ issued' = issued + 1
  /\ row' = [row EXCEPT ![u] = issued']
  /\ refresh' = [refresh EXCEPT ![t] = [@ EXCEPT !.step = "served", !.status = "ok",
                                                 !.set = Cookies(u, issued')]]
  /\ UNCHANGED <<jar, call, cached, made, history>>

-----------------------------------------------------------------------------
(* lib/api.ts: a reply comes. *)

\* Mutant: cookies that are to be cleared stay.
ReceiveOkKeepingCookies(c) ==
  LET r == call[c]  t == r.tab IN
  /\ At(c, "served") /\ r.status = "ok"
  /\ call' = [call EXCEPT ![c] = Idle]
  /\ IF r.kind = "login" THEN Store(r.set, t, {}) ELSE UNCHANGED <<jar, mixed>>
  /\ cached' = [cached EXCEPT ![t] = IF r.kind = "session" THEN r.sent.user
                                     ELSE IF r.kind \in {"logout", "logout_all"} THEN None ELSE @]
  /\ UNCHANGED <<server, refresh, made, excused, refused>>

\* The cookies are stored; getAuthSession keeps what it is told, logout forgets it.
ReceiveOk(c) ==
  LET r == call[c]  t == r.tab IN
  /\ At(c, "served") /\ r.status = "ok"
  /\ call' = [call EXCEPT ![c] = Idle]
  /\ IF r.kind \in Signing
     THEN Store(r.set, t, IF InFlight(t, {"session"}) # {} THEN {t} ELSE {})
     ELSE UNCHANGED <<jar, mixed>>
  /\ cached' = [cached EXCEPT ![t] = IF r.kind = "session" THEN r.sent.user
                                     ELSE IF r.kind \in {"logout", "logout_all"} THEN None ELSE @]
  /\ UNCHANGED <<server, refresh, made, excused, refused>>

Retries(r) == r.status = "401" /\ r.kind # "raw" /\ ~r.retried

\* The call is refused for good.
Refused(r) ==
  refused' = refused \cup IF jar.token # 0 /\ r.sent.token # 0 /\ r.kind # "login" /\ ~excused
                          THEN {r.kind} ELSE {}

ReceiveRefused(c) ==
  LET r == call[c] IN
  /\ At(c, "served") /\ r.status # "ok" /\ ~Retries(r)
  /\ Refused(r)
  /\ call' = [call EXCEPT ![c] = Idle]
  /\ cached' = IF r.kind = "session" THEN [cached EXCEPT ![r.tab] = None] ELSE cached
  /\ UNCHANGED <<jar, server, refresh, made, excused, mixed>>

\* Mutant: the call refreshes the session though another one already does.
ReceiveUnauthorizedAlone(c) ==
  LET r == call[c]  t == r.tab IN
  /\ At(c, "served") /\ Retries(r)
  /\ call' = [call EXCEPT ![c].step = "waiting"]
  /\ refresh' = [refresh EXCEPT ![t] = [NoRefresh EXCEPT !.step = "sent", !.sent = jar]]
  /\ excused' = (excused \/ Refreshing \ {t} # {} \/ Anywhere(Signing) \ {c} # {})
  /\ UNCHANGED <<jar, server, cached, made, mixed, refused>>

\* refreshSession: the tab's refresh that is in flight, or a new one.
ReceiveUnauthorized(c) ==
  LET r == call[c]  t == r.tab IN
  /\ At(c, "served") /\ Retries(r)
  /\ call' = [call EXCEPT ![c].step = "waiting"]
  /\ IF refresh[t].step # "none" THEN UNCHANGED <<refresh, excused>>
     ELSE /\ refresh' = [refresh EXCEPT ![t] = [NoRefresh EXCEPT !.step = "sent", !.sent = jar]]
          /\ excused' = (excused \/ Refreshing # {} \/ Anywhere(Signing) \ {c} # {})
  /\ UNCHANGED <<jar, server, cached, made, mixed, refused>>

\* All the calls that waited go out again.
ReceiveRefreshed(t) ==
  /\ refresh[t].step = "served" /\ refresh[t].status = "ok"
  /\ Store(refresh[t].set, t, {t})
  /\ refresh' = [refresh EXCEPT ![t] = NoRefresh]
  /\ call' = [c \in Calls |-> IF At(c, "waiting") /\ call[c].tab = t
                              THEN Sent([call[c] EXCEPT !.retried = TRUE, !.status = "none"])
                              ELSE call[c]]
  /\ UNCHANGED <<server, cached, made, excused, refused>>

\* The calls that waited fail with the 401 they had.
GiveUp(t) ==
  LET waiting == {c \in InFlight(t, Kinds) : At(c, "waiting")} IN
  /\ refresh' = [refresh EXCEPT ![t] = NoRefresh]
  /\ call' = [c \in Calls |-> IF c \in waiting THEN Idle ELSE call[c]]
  /\ cached' = IF \E c \in waiting : call[c].kind = "session" THEN [cached EXCEPT ![t] = None] ELSE cached
  /\ refused' = refused \cup IF jar.token = 0 \/ excused' THEN {}
                             ELSE {call[c].kind : c \in {d \in waiting : /\ call[d].kind # "login"
                                                                        /\ call[d].sent.token # 0}}
  /\ UNCHANGED <<jar, server, made, mixed>>

ReceiveNotRefreshed(t) ==
  /\ refresh[t].step = "served" /\ refresh[t].status = "401"
  /\ UNCHANGED excused
  /\ GiveUp(t)

\* A reply is lost, and the cookies it was to set with it.
LoseReply(c) ==
  /\ At(c, "served")
  /\ call' = [call EXCEPT ![c] = Idle]
  /\ cached' = IF call[c].kind = "session" THEN [cached EXCEPT ![call[c].tab] = None] ELSE cached
  /\ excused' = (excused \/ (call[c].kind \in Signing /\ call[c].status = "ok"))
  /\ UNCHANGED <<jar, server, refresh, made, mixed, refused>>

LoseRefresh(t) ==
  /\ refresh[t].step = "served"
  /\ excused' = (excused \/ refresh[t].status = "ok")
  /\ GiveUp(t)

-----------------------------------------------------------------------------
(* Time, and another browser. *)

Expire ==
  /\ jar.access
  /\ jar' = [jar EXCEPT !.access = FALSE]
  /\ UNCHANGED <<server, call, refresh, cached, made, history>>

\* SESSION_CACHE_TTL_MS has passed.
ForgetCached(t) ==
  /\ cached[t] # None
  /\ cached' = [cached EXCEPT ![t] = None]
  /\ UNCHANGED <<jar, server, call, refresh, made, history>>

\* The user signs in somewhere else: one row has one token.
SignInElsewhere(u) ==
  /\ issued < MaxTokens /\ issued' = issued + 1
  /\ row' = [row EXCEPT ![u] = issued']
  /\ excused' = TRUE
  /\ UNCHANGED <<jar, call, refresh, cached, made, mixed, refused>>

Next ==
  \/ \E c \in Calls :
       \/ \E t \in Tabs, kind \in Kinds :
            IF kind = "login" THEN \E u \in Users : Begin(c, t, kind, u) ELSE Begin(c, t, kind, None)
       \/ ServeLogin(c) \/ ServeRefused(c) \/ ServeGuarded(c) \/ ServeLogout(c)
       \/ ReceiveOk(c) \/ ReceiveRefused(c) \/ ReceiveUnauthorized(c) \/ LoseReply(c)
  \/ \E t \in Tabs :
       \/ ServeRefreshCheck(t) \/ ServeRefreshRotate(t)
       \/ ReceiveRefreshed(t) \/ ReceiveNotRefreshed(t) \/ LoseRefresh(t)
       \/ ForgetCached(t)
  \/ Expire
  \/ \E u \in Users : SignInElsewhere(u)

Spec == Init /\ [][Next]_vars

-----------------------------------------------------------------------------
(* Properties *)

\* A browser that is signed in is refused nothing that goes through requestJson,
\* however its requests and refreshes interleave, unless two tabs refreshed at
\* once, it was signing in or out meanwhile, a reply with cookies was lost, or the
\* user signed in elsewhere.
RequestsAreServed == refused \subseteq {"raw", "upload"}

\* With the same exceptions the refresh token in the cookies is the one that the
\* server takes, whenever nothing that changes it is on its way.
CookieIsCurrent ==
  ~excused /\ Refreshing = {} /\ Anywhere(Signing) = {} /\ jar.token # 0
    => row[jar.user] = jar.token

\* The session that a tab has cached is that of the cookies, unless another tab
\* changed them or the tab asked for it while it was signing in or out.
CachedSessionHolds ==
  \A t \in Tabs : t \notin mixed => cached[t] \in {None, jar.user}

\* Types, and what the browser holds is in step with the server and with itself.
SessionInv == TypeOK /\ CookieIsCurrent /\ CachedSessionHolds
===============================================================================
