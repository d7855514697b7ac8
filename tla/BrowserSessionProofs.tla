------------------------ MODULE BrowserSessionProofs ------------------------
(***************************************************************************)
(* For any number of tabs, users and calls: the cookies, the server and    *)
(* what a tab has cached are in step, and a signed-in browser is served.   *)
(* As long as nothing has happened that excuses the browser, one refresh   *)
(* or one call that signs in or out is on its way, or such a call waits    *)
(* for the refresh that it has begun itself; so what a refresh was sent    *)
(* with is what the cookies still are, and the server takes it.            *)
(***************************************************************************)
EXTENDS BrowserSession, Browse, TLAPS

\* Cookies come and go together, but for the access token, which expires.
Whole(j) ==
  /\ j.user = None <=> j.token = 0
  /\ j.csrf = j.token
  /\ j.access => j.token # 0

JarsAreWhole ==
  /\ Whole(jar)
  /\ \A c \in Calls : Whole(call[c].sent) /\ Whole(call[c].set)
  /\ \A t \in Tabs : Whole(refresh[t].sent) /\ Whole(refresh[t].set)

\* What each call is: it has a tab, and a login has somebody to sign in.
CallsAreSomebodys ==
  \A c \in Calls : call[c].step # "idle" =>
    /\ call[c].tab \in Tabs /\ call[c].kind \in Kinds
    /\ call[c].kind = "login" => call[c].as \in Users

\* What a call and its reply carry: only an upload has a header of its own; who
\* tries again has fresh cookies; a 401 is for cookies without an access token;
\* and only a login sets cookies.
CarriesWhatItShould(r) ==
  /\ r.step # "idle" /\ r.kind # "upload" => r.header = r.sent.csrf
  /\ r.step \in {"sent", "served"} /\ r.retried => r.sent.access
  /\ r.step = "served" /\ r.status = "401" /\ r.kind # "login" => ~r.sent.access
  /\ r.step = "served" /\ r.status = "403" => Forbidden(r)
  /\ r.step = "served" /\ r.kind # "login" => r.set.token = 0
  /\ r.step = "served" => r.status # "none"
CallsCarryWhatTheyShould == \A c \in Calls : CarriesWhatItShould(call[c])

\* A refresh that was looked at has a token; its reply is an answer, with cookies
\* if it is a good one.
BringsWhatItShould(f) ==
  /\ f.step = "checked" => f.sent.token # 0
  /\ f.step = "served" => f.status # "none"
  /\ f.step = "served" /\ f.status = "ok" => f.set.access
RefreshesCarry == \A t \in Tabs : BringsWhatItShould(refresh[t])

-----------------------------------------------------------------------------
(* One at a time *)

SignsNow(c) == call[c].step # "idle" /\ call[c].kind \in Signing

\* Two of what changes cookies are not on their way at once, but a call and the
\* refresh it waits for.
OneAtATime ==
  /\ \A c, d \in Calls : SignsNow(c) /\ SignsNow(d) => c = d
  /\ \A t, u \in Tabs : refresh[t].step # "none" /\ refresh[u].step # "none" => t = u
  /\ \A c \in Calls, t \in Tabs :
       SignsNow(c) /\ refresh[t].step # "none" => call[c].step = "waiting" /\ call[c].tab = t

\* The server has answered with cookies, or without, that the browser has not yet.
SignedBehindIt(c)    == SignsNow(c) /\ call[c].step = "served" /\ call[c].status = "ok"
RefreshedBehindIt(t) == refresh[t].step = "served" /\ refresh[t].status = "ok"

\* What is on its way is what the server takes, and so is what the browser has.
ServerTakesIt ==
  /\ jar.token # 0 /\ (\A c \in Calls : ~SignedBehindIt(c)) /\ (\A t \in Tabs : ~RefreshedBehindIt(t))
       => row[jar.user] = jar.token
  /\ \A c \in Calls : SignedBehindIt(c) /\ call[c].kind = "login"
       => row[call[c].set.user] = call[c].set.token
  /\ \A t \in Tabs : RefreshedBehindIt(t) => row[refresh[t].set.user] = refresh[t].set.token

\* A refresh was sent with the cookies there are, and is refused only without.
RefreshedWithThese ==
  \A t \in Tabs : refresh[t].step # "none" =>
    /\ refresh[t].sent.token = jar.token /\ refresh[t].sent.user = jar.user
    /\ refresh[t].step = "served" /\ refresh[t].status = "401" => jar.token = 0

InStep == ~excused => OneAtATime /\ ServerTakesIt /\ RefreshedWithThese

-----------------------------------------------------------------------------
(* What tabs have cached *)

\* A tab whose session did not change unknown to it asks about the cookies there
\* are, and has cached nothing while it signs in.
TabsKnow ==
  \A c \in Calls : call[c].step # "idle" /\ call[c].tab \notin mixed =>
    /\ call[c].kind = "session" => call[c].sent.user = jar.user
    /\ call[c].kind = "login" => /\ cached[call[c].tab] = None
                                 /\ \A d \in Calls : ~(/\ call[d].step # "idle"
                                                       /\ call[d].kind = "session"
                                                       /\ call[d].tab = call[c].tab)

SInv ==
  /\ TypeOK
  /\ JarsAreWhole
  /\ CallsAreSomebodys
  /\ CallsCarryWhatTheyShould
  /\ RefreshesCarry
  /\ InStep
  /\ TabsKnow
  /\ CachedSessionHolds
  /\ RequestsAreServed

-----------------------------------------------------------------------------
(* Steps *)

\* The slot that a step replaces, and all the slots that it does not.
LEMMA NewCall ==
  ASSUME call \in [Calls -> Call], NEW c \in Calls, NEW r \in Call, call' = [call EXCEPT ![c] = r]
  PROVE  /\ call' \in [Calls -> Call] /\ call'[c] = r
         /\ \A d \in Calls : d # c => call'[d] = call[d]
  OBVIOUS

LEMMA NewRefresh ==
  ASSUME refresh \in [Tabs -> Refresh], NEW t \in Tabs, NEW r \in Refresh,
         refresh' = [refresh EXCEPT ![t] = r]
  PROVE  /\ refresh' \in [Tabs -> Refresh] /\ refresh'[t] = r
         /\ \A u \in Tabs : u # t => refresh'[u] = refresh[u]
  OBVIOUS

LEMMA NoJars ==
  /\ EmptyJar \in Jar /\ Whole(EmptyJar) /\ EmptyJar.token = 0 /\ EmptyJar.user = None
  /\ \A u \in Users, n \in Nat : /\ Cookies(u, n) \in Jar /\ Cookies(u, n).user = u
                                 /\ Cookies(u, n).token = n /\ Cookies(u, n).access
                                 /\ n # 0 => Whole(Cookies(u, n))
  <1>1. EmptyJar \in Jar /\ Whole(EmptyJar) /\ EmptyJar.token = 0 /\ EmptyJar.user = None
    BY DEF EmptyJar, Jar, Whole
  <1>2. ASSUME NEW u \in Users, NEW n \in Nat
        PROVE  /\ Cookies(u, n) \in Jar /\ Cookies(u, n).user = u
               /\ Cookies(u, n).token = n /\ Cookies(u, n).access
               /\ n # 0 => Whole(Cookies(u, n))
    BY BrowserAssumption DEF Cookies, Jar, Whole
  <1>3. QED
    BY <1>1, <1>2

LEMMA IdleIsACall ==
  Idle \in Call /\ Idle.step = "idle" /\ Idle.set = EmptyJar /\ Idle.sent = EmptyJar /\ ~Idle.retried
  <1>1. /\ Idle.step = "idle" /\ Idle.kind = "none" /\ Idle.tab = None /\ Idle.as = None
        /\ Idle.sent = EmptyJar /\ Idle.header = 0 /\ Idle.status = "none" /\ Idle.set = EmptyJar
    BY DEF Idle
  <1>2. Idle.retried \in BOOLEAN /\ ~Idle.retried
    BY DEF Idle
  <1>3. Idle = [step |-> Idle.step, kind |-> Idle.kind, tab |-> Idle.tab, as |-> Idle.as,
                sent |-> Idle.sent, header |-> Idle.header, retried |-> Idle.retried,
                status |-> Idle.status, set |-> Idle.set]
    BY DEF Idle
  <1>4. QED
    BY <1>1, <1>2, <1>3, NoJars DEF Call

\* A call begins.
LEMMA BeginKeepsSInv ==
  ASSUME SInv, NEW c \in Calls, NEW t \in Tabs, NEW kind \in Kinds, NEW u \in Users \cup {None},
         kind = "login" => u \in Users, Begin(c, t, kind, u)
  PROVE  SInv'
  <1> DEFINE r == Sent([Idle EXCEPT !.kind = kind, !.tab = t, !.as = u])
  <1>1. /\ call[c].step = "idle" /\ made < MaxCalls /\ made' = made + 1
        /\ kind = "session" => cached[t] = None /\ \A d \in Calls : ~(/\ call[d].step # "idle"
                                                       /\ call[d].kind = "session"
                                                       /\ call[d].tab = t)
        /\ UNCHANGED <<jar, row, issued, refresh, refused>>
        /\ call' = [call EXCEPT ![c] = r]
        /\ cached' = IF kind = "login" THEN [cached EXCEPT ![t] = None] ELSE cached
        /\ excused' = (excused \/ (kind \in Signing /\ (Refreshing # {} \/ Anywhere(Signing) # {})))
        /\ mixed' = mixed \cup IF \/ kind = "login" /\ InFlight(t, {"session"}) # {}
                                  \/ kind = "session" /\ InFlight(t, {"login"}) # {}
                               THEN {t} ELSE {}
    BY DEF Begin, At, server, InFlight
  <1>2. /\ jar \in Jar /\ Whole(jar) /\ call \in [Calls -> Call] /\ refresh \in [Tabs -> Refresh]
        /\ cached \in [Tabs -> Users \cup {None}] /\ mixed \subseteq Tabs
    BY DEF SInv, TypeOK, JarsAreWhole
  <1>3. /\ r \in Call /\ r.step = "sent" /\ r.kind = kind /\ r.tab = t /\ r.as = u /\ r.sent = jar
        /\ r.header = jar.csrf /\ ~r.retried /\ r.set = EmptyJar
    <2> DEFINE i == [Idle EXCEPT !.kind = kind, !.tab = t, !.as = u]
    <2>1. /\ i \in Call /\ i.kind = kind /\ i.tab = t /\ i.as = u /\ ~i.retried /\ i.set = EmptyJar
      BY IdleIsACall DEF Call
    <2>2. jar.csrf \in Nat
      BY <1>2 DEF Jar
    <2> HIDE DEF i
    <2>3. r = [i EXCEPT !.step = "sent", !.sent = jar, !.header = jar.csrf]
      BY <1>1, <2>1 DEF Sent, i
    <2>4. QED
      BY <1>2, <2>1, <2>2, <2>3 DEF Call
  <1> HIDE DEF r
  <1>5. /\ call' \in [Calls -> Call] /\ call'[c] = r
        /\ \A d \in Calls : d # c => call'[d] = call[d]
    BY <1>1, <1>2, <1>3, NewCall
  <1>6. TypeOK'
    <2>1. made' \in 0 .. MaxCalls
      BY <1>1, BrowserAssumption DEF SInv, TypeOK
    <2>2. cached' \in [Tabs -> Users \cup {None}] /\ mixed' \in SUBSET Tabs
      BY <1>1, <1>2
    <2>3. excused' \in BOOLEAN
      BY <1>1 DEF SInv, TypeOK
    <2>4. QED
      BY <1>1, <1>5, <2>1, <2>2, <2>3 DEF SInv, TypeOK
  <1>7. JarsAreWhole' /\ CallsAreSomebodys' /\ CallsCarryWhatTheyShould' /\ RefreshesCarry'
    <2>1. ASSUME NEW d \in Calls
          PROVE  /\ Whole(call'[d].sent) /\ Whole(call'[d].set) /\ CarriesWhatItShould(call'[d])
                 /\ call'[d].step # "idle" =>
                      /\ call'[d].tab \in Tabs /\ call'[d].kind \in Kinds
                      /\ call'[d].kind = "login" => call'[d].as \in Users
      BY <1>2, <1>3, <1>5, NoJars DEF SInv, JarsAreWhole, CallsAreSomebodys, CallsCarryWhatTheyShould,
                                 CarriesWhatItShould
    <2>2. QED
      BY <1>1, <2>1 DEF SInv, JarsAreWhole, CallsAreSomebodys, CallsCarryWhatTheyShould, RefreshesCarry
  <1>8. InStep'
    <2>1. SUFFICES ASSUME ~excused' PROVE OneAtATime' /\ ServerTakesIt' /\ RefreshedWithThese'
      BY DEF InStep
    <2>2. ~excused /\ OneAtATime /\ ServerTakesIt /\ RefreshedWithThese
      BY <1>1, <2>1 DEF SInv, InStep
    <2>3. kind \in Signing => /\ \A d \in Calls : ~SignsNow(d)
                              /\ \A o \in Tabs : refresh[o].step = "none"
      BY <1>1, <2>1 DEF Refreshing, Anywhere, SignsNow
    <2>4. \A d \in Calls : d # c => (SignsNow(d)' <=> SignsNow(d)) /\ (SignedBehindIt(d)' <=> SignedBehindIt(d))
      BY <1>5 DEF SignsNow, SignedBehindIt
    <2>5. (SignsNow(c)' <=> kind \in Signing) /\ ~SignedBehindIt(c)' /\ ~SignedBehindIt(c)
      BY <1>1, <1>3, <1>5 DEF SignsNow, SignedBehindIt
    <2>6. OneAtATime'
      BY <1>1, <1>5, <2>2, <2>3, <2>4, <2>5 DEF OneAtATime
    <2>7. ServerTakesIt'
      BY <1>1, <1>5, <2>2, <2>4, <2>5 DEF ServerTakesIt, RefreshedBehindIt
    <2>8. RefreshedWithThese'
      BY <1>1, <2>2 DEF RefreshedWithThese
    <2>9. QED
      BY <2>6, <2>7, <2>8
  <1>9. TabsKnow'
    <2>1. ASSUME NEW d \in Calls, call'[d].step # "idle", call'[d].tab \notin mixed'
          PROVE  /\ call'[d].kind = "session" => call'[d].sent.user = jar'.user
                 /\ call'[d].kind = "login" => /\ cached'[call'[d].tab] = None
                                 /\ \A e \in Calls : ~(/\ call'[e].step # "idle"
                                                       /\ call'[e].kind = "session"
                                                       /\ call'[e].tab = call'[d].tab)
      <3>1. call'[d].tab \in Tabs
        BY <1>7, <2>1 DEF CallsAreSomebodys
      <3>2. call'[d].kind = "session" => call'[d].sent.user = jar'.user
        BY <1>1, <1>3, <1>5, <2>1 DEF SInv, TabsKnow
      <3>3. call'[d].kind = "login" => cached'[call'[d].tab] = None
        BY <1>1, <1>2, <1>3, <1>5, <2>1, <3>1 DEF SInv, TabsKnow
      <3>4. ASSUME call'[d].kind = "login", NEW e \in Calls, call'[e].step # "idle",
                   call'[e].kind = "session", call'[e].tab = call'[d].tab
            PROVE  FALSE
        BY <1>1, <1>3, <1>5, <2>1, <3>4 DEF SInv, TabsKnow, InFlight
      <3>5. QED
        BY <3>2, <3>3, <3>4
    <2>2. QED
      BY <2>1 DEF TabsKnow
  <1>10. CachedSessionHolds' /\ RequestsAreServed'
    BY <1>1, <1>2 DEF SInv, CachedSessionHolds, RequestsAreServed
  <1>11. QED
    BY <1>6, <1>7, <1>8, <1>9, <1>10 DEF SInv

\* The server answers a call.  If it changes the row, the call was the only one to
\* change cookies, and is the one that has an answer now.
LEMMA AnswerKeepsSInv ==
  ASSUME SInv, NEW c \in Calls, call[c].step = "sent", NEW status \in {"ok", "401", "403"},
         NEW cookies \in Jar, Whole(cookies), Answer(c, status, cookies),
         row' \in [Users -> Nat], issued' \in 0 .. MaxTokens,
         status = "401" /\ call[c].kind # "login" => ~call[c].sent.access,
         status = "403" => Forbidden(call[c]),
         call[c].kind # "login" => cookies.token = 0,
         row' = row \/ (status = "ok" /\ call[c].kind \in Signing),
         status = "ok" /\ call[c].kind = "login" => row'[cookies.user] = cookies.token
  PROVE  SInv'
  <1> DEFINE r == [call[c] EXCEPT !.step = "served", !.status = status, !.set = cookies]
  <1>1. /\ call' = [call EXCEPT ![c] = r]
        /\ UNCHANGED <<jar, refresh, cached, made, excused, mixed, refused>>
    BY DEF Answer, history
  <1>2. /\ jar \in Jar /\ call \in [Calls -> Call] /\ refresh \in [Tabs -> Refresh] /\ call[c] \in Call
    BY DEF SInv, TypeOK
  <1>3. /\ r \in Call /\ r.step = "served" /\ r.kind = call[c].kind /\ r.tab = call[c].tab
        /\ r.as = call[c].as /\ r.sent = call[c].sent /\ r.header = call[c].header
        /\ r.retried = call[c].retried /\ r.status = status /\ r.set = cookies
    BY <1>2 DEF Call
  <1> HIDE DEF r
  <1>4. /\ call' \in [Calls -> Call] /\ call'[c] = r
        /\ \A d \in Calls : d # c => call'[d] = call[d]
    BY <1>1, <1>2, <1>3, NewCall
  <1>5. TypeOK'
    BY <1>1, <1>4 DEF SInv, TypeOK
  <1>6. JarsAreWhole' /\ CallsAreSomebodys' /\ CallsCarryWhatTheyShould' /\ RefreshesCarry'
    <2>1. CarriesWhatItShould(call[c])
      BY DEF SInv, CallsCarryWhatTheyShould
    <2>2. CarriesWhatItShould(call'[c])
      BY <1>3, <1>4, <2>1 DEF CarriesWhatItShould, Forbidden
    <2>3. ASSUME NEW d \in Calls
          PROVE  /\ Whole(call'[d].sent) /\ Whole(call'[d].set) /\ CarriesWhatItShould(call'[d])
                 /\ call'[d].step # "idle" =>
                      /\ call'[d].tab \in Tabs /\ call'[d].kind \in Kinds
                      /\ call'[d].kind = "login" => call'[d].as \in Users
      BY <1>3, <1>4, <2>2 DEF SInv, JarsAreWhole, CallsAreSomebodys, CallsCarryWhatTheyShould
    <2>4. QED
      BY <1>1, <2>3 DEF SInv, JarsAreWhole, CallsAreSomebodys, CallsCarryWhatTheyShould, RefreshesCarry
  <1>7. InStep'
    <2>1. SUFFICES ASSUME ~excused' PROVE OneAtATime' /\ ServerTakesIt' /\ RefreshedWithThese'
      BY DEF InStep
    <2>2. OneAtATime /\ ServerTakesIt /\ RefreshedWithThese
      BY <1>1, <2>1 DEF SInv, InStep
    <2>3. \A d \in Calls : SignsNow(d)' <=> SignsNow(d)
      BY <1>3, <1>4 DEF SignsNow
    <2>4. \A d \in Calls : d # c => (SignedBehindIt(d)' <=> SignedBehindIt(d))
      BY <1>4 DEF SignsNow, SignedBehindIt
    <2>5. /\ SignedBehindIt(c)' <=> call[c].kind \in Signing /\ status = "ok"
          /\ ~SignedBehindIt(c)
      BY <1>3, <1>4 DEF SignsNow, SignedBehindIt
    <2>6. OneAtATime'
      BY <1>1, <1>3, <1>4, <2>2, <2>3 DEF OneAtATime, SignsNow
    <2>7. CASE row' # row
      <3>1. /\ SignsNow(c) /\ \A d \in Calls : d # c => ~SignedBehindIt(d)
            /\ \A t \in Tabs : refresh[t].step = "none"
        BY <2>2, <2>7 DEF OneAtATime, SignsNow, SignedBehindIt
      <3>2. ServerTakesIt'
        BY <1>1, <1>3, <1>4, <2>4, <2>5, <2>7, <3>1 DEF ServerTakesIt, RefreshedBehindIt
      <3>3. RefreshedWithThese'
        BY <1>1, <2>2 DEF RefreshedWithThese
      <3>4. QED
        BY <2>6, <3>2, <3>3
    <2>8. CASE row' = row
      <3>1. ServerTakesIt'
        BY <1>1, <1>3, <1>4, <2>2, <2>4, <2>5, <2>8 DEF ServerTakesIt, RefreshedBehindIt
      <3>2. RefreshedWithThese'
        BY <1>1, <2>2 DEF RefreshedWithThese
      <3>3. QED
        BY <2>6, <3>1, <3>2
    <2>9. QED
      BY <2>7, <2>8
  <1>8. TabsKnow'
    BY <1>1, <1>3, <1>4 DEF SInv, TabsKnow
  <1>9. CachedSessionHolds' /\ RequestsAreServed'
    BY <1>1 DEF SInv, CachedSessionHolds, RequestsAreServed
  <1>10. QED
    BY <1>5, <1>6, <1>7, <1>8, <1>9 DEF SInv

\* What AuthController and the guard do is such an answer.
LEMMA ServeKeepsSInv ==
  ASSUME SInv, NEW c \in Calls, ServeLogin(c) \/ ServeRefused(c) \/ ServeGuarded(c) \/ ServeLogout(c)
  PROVE  SInv'
  <1>1. /\ row \in [Users -> Nat] /\ issued \in 0 .. MaxTokens /\ call[c] \in Call
    BY DEF SInv, TypeOK
  <1>2. ASSUME call[c].step # "idle", call[c].kind = "login" PROVE call[c].as \in Users
    BY <1>2 DEF SInv, CallsAreSomebodys
  <1>3. CASE ServeLogin(c)
    <2>1. call[c].step = "sent" /\ call[c].kind = "login"
      BY <1>3 DEF ServeLogin, At
    <2>2. CASE /\ issued < MaxTokens /\ issued' = issued + 1
               /\ row' = [row EXCEPT ![call[c].as] = issued']
               /\ Answer(c, "ok", Cookies(call[c].as, issued'))
      <3>1. issued' \in 0 .. MaxTokens /\ issued' \in Nat /\ issued' # 0
        BY <1>1, <2>2, BrowserAssumption
      <3>2. row' \in [Users -> Nat] /\ row'[call[c].as] = issued'
        BY <1>1, <1>2, <2>1, <2>2, <3>1
      <3> DEFINE j == Cookies(call[c].as, issued')
      <3>3. j \in Jar /\ Whole(j) /\ j.user = call[c].as /\ j.token = issued'
        BY <1>2, <2>1, <3>1, NoJars
      <3> HIDE DEF j
      <3>4. Answer(c, "ok", j) /\ row'[j.user] = j.token
        BY <2>2, <3>2, <3>3 DEF j
      <3>5. QED
        BY <2>1, <3>1, <3>2, <3>3, <3>4, AnswerKeepsSInv DEF Signing
    <2>3. CASE UNCHANGED server /\ Answer(c, "401", EmptyJar)
      BY <1>1, <2>1, <2>3, NoJars, AnswerKeepsSInv DEF server
    <2>4. QED
      BY <1>3, <2>2, <2>3 DEF ServeLogin
  <1>4. CASE ServeRefused(c)
    <2>1. call[c].step = "sent" /\ call[c].kind # "login" /\ UNCHANGED <<row, issued>>
      BY <1>4 DEF ServeRefused, At, server
    <2>2. CASE Forbidden(call[c]) /\ Answer(c, "403", EmptyJar)
      BY <1>1, <2>1, <2>2, NoJars, AnswerKeepsSInv
    <2>3. CASE Unauthorized(call[c]) /\ Answer(c, "401", EmptyJar)
      <3>1. ~call[c].sent.access
        BY <2>3 DEF Unauthorized
      <3>2. QED
        BY <1>1, <2>1, <2>3, <3>1, NoJars, AnswerKeepsSInv
    <2>4. QED
      BY <1>4, <2>2, <2>3 DEF ServeRefused
  <1>5. CASE ServeGuarded(c)
    <2>1. call[c].step = "sent" /\ call[c].kind # "login" /\ UNCHANGED <<row, issued>>
          /\ Answer(c, "ok", EmptyJar)
      BY <1>5 DEF ServeGuarded, At, server, Signing
    <2>2. QED
      BY <1>1, <2>1, NoJars, AnswerKeepsSInv
  <1>6. CASE ServeLogout(c)
    <2>1. call[c].step = "sent" /\ call[c].kind \in {"logout", "logout_all"} /\ issued' = issued
          /\ Answer(c, "ok", EmptyJar)
          /\ row' = IF \/ call[c].kind = "logout_all"
                       \/ row[call[c].sent.user] = call[c].sent.token
                    THEN [row EXCEPT ![call[c].sent.user] = 0] ELSE row
      BY <1>6 DEF ServeLogout, At
    <2>2. row' \in [Users -> Nat]
      BY <1>1, <2>1
    <2>3. QED
      BY <1>1, <2>1, <2>2, NoJars, AnswerKeepsSInv DEF Signing
  <1>7. QED
    BY <1>3, <1>4, <1>5, <1>6

\* What ends, is lost, expires or is forgotten takes nothing from what is left, if
\* a lost answer that had changed the row, or a row changed elsewhere, is excused.
LEMMA LosingKeepsSInv ==
  ASSUME SInv, call' \in [Calls -> Call], \A c \in Calls : call'[c] \in {call[c], Idle},
         refresh' \in [Tabs -> Refresh], \A t \in Tabs : refresh'[t] \in {refresh[t], NoRefresh},
         jar' \in Jar, Whole(jar'), jar'.user = jar.user, jar'.token = jar.token,
         cached' \in [Tabs -> Users \cup {None}], \A t \in Tabs : cached'[t] \in {cached[t], None},
         row' \in [Users -> Nat], issued' \in 0 .. MaxTokens, row' = row \/ excused',
         UNCHANGED <<made, mixed>>, excused' \in BOOLEAN, excused => excused',
         \A c \in Calls : SignedBehindIt(c) /\ call'[c] # call[c] => excused',
         \A t \in Tabs : RefreshedBehindIt(t) /\ refresh'[t] # refresh[t] => excused',
         refused' \in SUBSET Kinds, refused' \subseteq {"raw", "upload"}
  PROVE  SInv'
  <1>1. TypeOK'
    BY DEF SInv, TypeOK
  <1>2. /\ Idle.step = "idle" /\ Whole(Idle.sent) /\ Whole(Idle.set)
        /\ NoRefresh.step = "none" /\ Whole(NoRefresh.sent) /\ Whole(NoRefresh.set)
    BY IdleIsACall, NoJars DEF NoRefresh
  <1>3. ASSUME NEW c \in Calls
        PROVE  /\ Whole(call'[c].sent) /\ Whole(call'[c].set) /\ CarriesWhatItShould(call'[c])
               /\ call'[c].step # "idle" =>
                    /\ call'[c].tab \in Tabs /\ call'[c].kind \in Kinds
                    /\ call'[c].kind = "login" => call'[c].as \in Users
    <2>1. CASE call'[c] = call[c]
      BY <2>1 DEF SInv, JarsAreWhole, CallsAreSomebodys, CallsCarryWhatTheyShould
    <2>2. CASE call'[c] = Idle
      BY <1>2, <2>2 DEF CarriesWhatItShould
    <2>3. QED
      BY <2>1, <2>2
  <1>4. ASSUME NEW t \in Tabs
        PROVE  /\ Whole(refresh'[t].sent) /\ Whole(refresh'[t].set)
               /\ BringsWhatItShould(refresh'[t])
    BY <1>2 DEF SInv, JarsAreWhole, RefreshesCarry, BringsWhatItShould
  <1>5. JarsAreWhole' /\ CallsAreSomebodys' /\ CallsCarryWhatTheyShould' /\ RefreshesCarry'
    BY <1>3, <1>4 DEF JarsAreWhole, CallsAreSomebodys, CallsCarryWhatTheyShould, RefreshesCarry
  <1>6. InStep'
    <2>1. SUFFICES ASSUME ~excused' PROVE OneAtATime' /\ ServerTakesIt' /\ RefreshedWithThese'
      BY DEF InStep
    <2>2. OneAtATime /\ ServerTakesIt /\ RefreshedWithThese /\ row' = row
      BY <2>1 DEF SInv, InStep
    <2>3. \A c \in Calls : SignsNow(c)' => SignsNow(c) /\ call'[c] = call[c]
      BY <1>2 DEF SignsNow
    <2>4. \A c \in Calls : SignedBehindIt(c)' <=> SignedBehindIt(c)
      BY <1>2, <2>1 DEF SignsNow, SignedBehindIt
    <2>5. \A t \in Tabs : refresh'[t].step # "none" => refresh'[t] = refresh[t]
      BY <1>2
    <2>6. \A t \in Tabs : RefreshedBehindIt(t)' <=> RefreshedBehindIt(t)
      BY <1>2, <2>1 DEF RefreshedBehindIt
    <2>7. OneAtATime'
      BY <2>2, <2>3, <2>5 DEF OneAtATime
    <2>8. ServerTakesIt'
      <3>1. \A c \in Calls : SignedBehindIt(c)' => call'[c] = call[c]
        BY <2>3 DEF SignedBehindIt
      <3>2. \A t \in Tabs : RefreshedBehindIt(t)' => refresh'[t] = refresh[t]
        BY <2>5 DEF RefreshedBehindIt
      <3>3. QED
        BY <2>2, <2>4, <2>6, <3>1, <3>2 DEF ServerTakesIt
    <2>9. RefreshedWithThese'
      BY <2>2, <2>5 DEF RefreshedWithThese
    <2>10. QED
      BY <2>7, <2>8, <2>9
  <1>7. TabsKnow'
    <2>1. ASSUME NEW c \in Calls, call'[c].step # "idle", call'[c].tab \notin mixed'
          PROVE  /\ call'[c].kind = "session" => call'[c].sent.user = jar'.user
                 /\ call'[c].kind = "login" => /\ cached'[call'[c].tab] = None
                                 /\ \A d \in Calls : ~(/\ call'[d].step # "idle"
                                                       /\ call'[d].kind = "session"
                                                       /\ call'[d].tab = call'[c].tab)
      <3>1. call'[c] = call[c] /\ call[c].tab \in Tabs
        BY <1>2, <1>3, <2>1
      <3>2. \A d \in Calls : call'[d].step # "idle" => call'[d] = call[d]
        BY <1>2
      <3>3. QED
        BY <2>1, <3>1, <3>2 DEF SInv, TabsKnow
    <2>2. QED
      BY <2>1 DEF TabsKnow
  <1>8. CachedSessionHolds' /\ RequestsAreServed'
    BY DEF SInv, CachedSessionHolds, RequestsAreServed
  <1>9. QED
    BY <1>1, <1>5, <1>6, <1>7, <1>8 DEF SInv

LEMMA NoRefreshIsARefresh ==
  NoRefresh \in Refresh /\ NoRefresh.step = "none" /\ NoRefresh.sent = EmptyJar /\ NoRefresh.set = EmptyJar
  BY NoJars DEF NoRefresh, Refresh

\* A call that is refused for good is one of those that may be.
LEMMA RefusedKeepsSInv ==
  ASSUME SInv, NEW c \in Calls, ReceiveRefused(c) PROVE SInv'
  <1> DEFINE r == call[c]
  <1>1. /\ r.step = "served" /\ r.status # "ok" /\ ~Retries(r) /\ Refused(r)
        /\ call' = [call EXCEPT ![c] = Idle]
        /\ cached' = IF r.kind = "session" THEN [cached EXCEPT ![r.tab] = None] ELSE cached
        /\ UNCHANGED <<jar, row, issued, refresh, made, excused, mixed>>
    BY DEF ReceiveRefused, At, server
  <1>2. TypeOK /\ Whole(jar) /\ CarriesWhatItShould(r) /\ r \in Call /\ Whole(r.sent)
    BY DEF SInv, CallsCarryWhatTheyShould, TypeOK, JarsAreWhole
  <1>3. /\ call' \in [Calls -> Call] /\ \A d \in Calls : call'[d] \in {call[d], Idle}
    BY <1>1, <1>2, NewCall, IdleIsACall DEF TypeOK
  <1>4. r.tab \in Tabs /\ r.kind \in Kinds
    BY <1>1 DEF SInv, CallsAreSomebodys
  <1>5. /\ cached' \in [Tabs -> Users \cup {None}] /\ \A t \in Tabs : cached'[t] \in {cached[t], None}
    BY <1>1, <1>2 DEF TypeOK
  <1>6. r.status = "401" \/ r.status = "403"
    BY <1>1, <1>2 DEF Call, CarriesWhatItShould
  <1>7. r.sent.token # 0 /\ r.kind # "login" => r.kind \in {"raw", "upload"}
    <2>1. CASE r.status = "403"
      BY <1>1, <1>2, <2>1 DEF CarriesWhatItShould, Forbidden, Whole
    <2>2. CASE r.status = "401"
      BY <1>1, <1>2, <2>2 DEF CarriesWhatItShould, Retries
    <2>3. QED
      BY <1>6, <2>1, <2>2
  <1>8. refused' \in SUBSET Kinds /\ refused' \subseteq {"raw", "upload"}
    BY <1>1, <1>2, <1>4, <1>7 DEF Refused, SInv, RequestsAreServed, TypeOK
  <1>9. \A d \in Calls : SignedBehindIt(d) => call'[d] = call[d]
    BY <1>1, <1>2 DEF SignedBehindIt, TypeOK
  <1>10. QED
    BY <1>1, <1>2, <1>3, <1>5, <1>8, <1>9, LosingKeepsSInv DEF TypeOK

\* A lost reply that carried cookies is excused.
LEMMA LoseReplyKeepsSInv ==
  ASSUME SInv, NEW c \in Calls, LoseReply(c) PROVE SInv'
  <1> DEFINE r == call[c]
  <1>1. /\ r.step = "served"
        /\ call' = [call EXCEPT ![c] = Idle]
        /\ cached' = IF r.kind = "session" THEN [cached EXCEPT ![r.tab] = None] ELSE cached
        /\ excused' = (excused \/ (r.kind \in Signing /\ r.status = "ok"))
        /\ UNCHANGED <<jar, row, issued, refresh, made, mixed, refused>>
    BY DEF LoseReply, At, server
  <1>2. TypeOK /\ Whole(jar)
    BY DEF SInv, JarsAreWhole
  <1>3. /\ call' \in [Calls -> Call] /\ \A d \in Calls : call'[d] \in {call[d], Idle}
    BY <1>1, <1>2, NewCall, IdleIsACall DEF TypeOK
  <1>4. /\ cached' \in [Tabs -> Users \cup {None}] /\ \A t \in Tabs : cached'[t] \in {cached[t], None}
    BY <1>1, <1>2 DEF TypeOK
  <1>5. \A d \in Calls : SignedBehindIt(d) /\ call'[d] # call[d] => excused'
    BY <1>1, <1>2 DEF SignedBehindIt, SignsNow, TypeOK
  <1>6. refused' \in SUBSET Kinds /\ refused' \subseteq {"raw", "upload"}
    BY <1>1, <1>2 DEF SInv, RequestsAreServed, TypeOK
  <1>7. excused' \in BOOLEAN /\ (excused => excused')
    BY <1>1, <1>2 DEF TypeOK
  <1>8. QED
    BY <1>1, <1>2, <1>3, <1>4, <1>5, <1>6, <1>7, LosingKeepsSInv DEF TypeOK

\* The answer of a call is taken.
LEMMA ReceiveOkKeepsSInv ==
  ASSUME SInv, NEW c \in Calls, ReceiveOk(c) PROVE SInv'
  <1> DEFINE r == call[c]
             t == r.tab
  <1>1. /\ r.step = "served" /\ r.status = "ok"
        /\ call' = [call EXCEPT ![c] = Idle]
        /\ r.kind \in Signing => Store(r.set, t, IF InFlight(t, {"session"}) # {} THEN {t} ELSE {})
        /\ r.kind \notin Signing => UNCHANGED <<jar, mixed>>
        /\ cached' = [cached EXCEPT ![t] = IF r.kind = "session" THEN r.sent.user
                                     ELSE IF r.kind \in {"logout", "logout_all"} THEN None ELSE @]
        /\ UNCHANGED <<row, issued, refresh, made, excused, refused>>
    BY DEF ReceiveOk, At, server
  <1>2. /\ TypeOK /\ Whole(jar) /\ Whole(r.set) /\ CarriesWhatItShould(r) /\ r \in Call
        /\ t \in Tabs /\ r.kind \in Kinds
    BY <1>1 DEF SInv, JarsAreWhole, CallsCarryWhatTheyShould, TypeOK, CallsAreSomebodys
  <1>3. /\ call' \in [Calls -> Call] /\ call'[c] = Idle /\ Idle.step = "idle"
        /\ \A d \in Calls : d # c => call'[d] = call[d]
    BY <1>1, <1>2, NewCall, IdleIsACall DEF TypeOK
  <1>4. /\ jar' \in Jar /\ Whole(jar') /\ mixed' \in SUBSET Tabs /\ mixed \subseteq mixed'
    BY <1>1, <1>2 DEF TypeOK, Store, Call
  <1>5. /\ cached' \in [Tabs -> Users \cup {None}]
        /\ \A u \in Tabs : u # t => cached'[u] = cached[u]
        /\ cached'[t] = IF r.kind = "session" THEN r.sent.user
                        ELSE IF r.kind \in {"logout", "logout_all"} THEN None ELSE cached[t]
    BY <1>1, <1>2 DEF TypeOK, Call, Jar
  <1>6. TypeOK'
    BY <1>1, <1>2, <1>3, <1>4, <1>5 DEF TypeOK
  <1>7. JarsAreWhole' /\ CallsAreSomebodys' /\ CallsCarryWhatTheyShould' /\ RefreshesCarry'
    <2>1. ASSUME NEW d \in Calls
          PROVE  /\ Whole(call'[d].sent) /\ Whole(call'[d].set) /\ CarriesWhatItShould(call'[d])
                 /\ call'[d].step # "idle" =>
                      /\ call'[d].tab \in Tabs /\ call'[d].kind \in Kinds
                      /\ call'[d].kind = "login" => call'[d].as \in Users
      BY <1>3, IdleIsACall, NoJars DEF SInv, JarsAreWhole, CallsAreSomebodys, CallsCarryWhatTheyShould,
                                       CarriesWhatItShould
    <2>2. QED
      BY <1>1, <1>4, <2>1 DEF SInv, JarsAreWhole, CallsAreSomebodys, CallsCarryWhatTheyShould, RefreshesCarry
  <1>8. InStep'
    <2>1. SUFFICES ASSUME ~excused' PROVE OneAtATime' /\ ServerTakesIt' /\ RefreshedWithThese'
      BY DEF InStep
    <2>2. OneAtATime /\ ServerTakesIt /\ RefreshedWithThese
      BY <1>1, <2>1 DEF SInv, InStep
    <2>3. /\ ~SignsNow(c)' /\ \A d \in Calls : SignsNow(d)' => SignsNow(d) /\ call'[d] = call[d]
      BY <1>3 DEF SignsNow
    <2>4. OneAtATime'
      BY <1>1, <2>2, <2>3 DEF OneAtATime
    <2>5. CASE r.kind \in Signing
      <3>1. /\ SignedBehindIt(c) /\ \A d \in Calls : ~SignsNow(d)'
            /\ \A u \in Tabs : refresh[u].step = "none"
        BY <1>1, <2>2, <2>3, <2>5 DEF OneAtATime, SignsNow, SignedBehindIt
      <3>2. jar' = r.set
        BY <1>1, <2>5 DEF Store
      <3>3. r.kind # "login" => r.set.token = 0
        BY <1>1, <1>2 DEF CarriesWhatItShould
      <3>4. ServerTakesIt'
        BY <1>1, <2>2, <3>1, <3>2, <3>3 DEF ServerTakesIt, SignedBehindIt, RefreshedBehindIt
      <3>5. RefreshedWithThese'
        BY <1>1, <3>1 DEF RefreshedWithThese
      <3>6. QED
        BY <2>4, <3>4, <3>5
    <2>6. CASE r.kind \notin Signing
      <3>1. UNCHANGED jar /\ \A d \in Calls : SignedBehindIt(d)' <=> SignedBehindIt(d)
        BY <1>1, <1>3, <2>6 DEF SignedBehindIt, SignsNow
      <3>2. \A d \in Calls : SignedBehindIt(d)' => call'[d] = call[d]
        BY <2>3 DEF SignedBehindIt
      <3>3. ServerTakesIt' /\ RefreshedWithThese'
        BY <1>1, <2>2, <3>1, <3>2 DEF ServerTakesIt, RefreshedBehindIt, RefreshedWithThese
      <3>4. QED
        BY <2>4, <3>3
    <2>7. QED
      BY <2>5, <2>6
  <1>9. \A u \in Tabs : u # t /\ jar'.user # jar.user => u \in mixed'
    BY <1>1 DEF Store
  <1>10. \A d \in Calls : call[d].step # "idle" /\ call[d].kind = "session" /\ call[d].tab = t
                          /\ jar'.user # jar.user => t \in mixed'
    BY <1>1 DEF Store, InFlight
  <1>11. TabsKnow'
    <2>1. ASSUME NEW d \in Calls, call'[d].step # "idle", call'[d].tab \notin mixed'
          PROVE  /\ call'[d].kind = "session" => call'[d].sent.user = jar'.user
                 /\ call'[d].kind = "login" => /\ cached'[call'[d].tab] = None
                                 /\ \A e \in Calls : ~(/\ call'[e].step # "idle"
                                                       /\ call'[e].kind = "session"
                                                       /\ call'[e].tab = call'[d].tab)
      <3>1. d # c /\ call'[d] = call[d] /\ call[d].tab \in Tabs /\ call[d].tab \notin mixed
        BY <1>3, <1>4, <1>7, <2>1 DEF CallsAreSomebodys
      <3>2. call[d].kind = "session" => call[d].sent.user = jar'.user
        BY <1>9, <1>10, <2>1, <3>1 DEF SInv, TabsKnow
      <3>3. call[d].kind = "login" => cached'[call[d].tab] = None
        BY <1>1, <1>5, <2>1, <3>1 DEF SInv, TabsKnow
      <3>4. call[d].kind = "login" => \A e \in Calls : ~(/\ call'[e].step # "idle"
                                                       /\ call'[e].kind = "session"
                                                       /\ call'[e].tab = call[d].tab)
        BY <1>3, <2>1, <3>1 DEF SInv, TabsKnow
      <3>5. QED
        BY <3>1, <3>2, <3>3, <3>4
    <2>2. QED
      BY <2>1 DEF TabsKnow
  <1>12. CachedSessionHolds'
    <2>1. ASSUME NEW u \in Tabs, u \notin mixed' PROVE cached'[u] \in {None, jar'.user}
      <3>1. u \notin mixed
        BY <1>4, <2>1
      <3>2. CASE u # t
        BY <1>5, <1>9, <2>1, <3>1, <3>2 DEF SInv, CachedSessionHolds
      <3>3. CASE u = t /\ r.kind = "session"
        BY <1>1, <1>5, <3>1, <3>3 DEF SInv, TabsKnow, Signing
      <3>4. CASE u = t /\ r.kind = "login"
        BY <1>1, <1>5, <3>1, <3>4 DEF SInv, TabsKnow
      <3>5. CASE u = t /\ r.kind \in {"logout", "logout_all"}
        BY <1>5, <3>5
      <3>6. CASE u = t /\ r.kind \notin {"session", "login", "logout", "logout_all"}
        BY <1>1, <1>5, <3>1, <3>6 DEF SInv, CachedSessionHolds, Signing
      <3>7. QED
        BY <3>2, <3>3, <3>4, <3>5, <3>6
    <2>2. QED
      BY <2>1 DEF CachedSessionHolds
  <1>13. RequestsAreServed'
    BY <1>1 DEF SInv, RequestsAreServed
  <1>14. QED
    BY <1>6, <1>7, <1>8, <1>11, <1>12, <1>13 DEF SInv

\* A call that waits for a refresh keeps what it was sent with; a refresh that it
\* begins is sent with the cookies there are, alone or excused.
LEMMA UnauthorizedKeepsSInv ==
  ASSUME SInv, NEW c \in Calls, ReceiveUnauthorized(c) PROVE SInv'
  <1> DEFINE r == [call[c] EXCEPT !.step = "waiting"]
             t == call[c].tab
             n == [NoRefresh EXCEPT !.step = "sent", !.sent = jar]
  <1>1. /\ call[c].step = "served" /\ Retries(call[c])
        /\ call' = [call EXCEPT ![c] = r]
        /\ UNCHANGED <<jar, row, issued, cached, made, mixed, refused>>
        /\ IF refresh[t].step # "none" THEN UNCHANGED <<refresh, excused>>
           ELSE /\ refresh' = [refresh EXCEPT ![t] = n]
                /\ excused' = (excused \/ Refreshing # {} \/ Anywhere(Signing) \ {c} # {})
    BY DEF ReceiveUnauthorized, At, server
  <1>2. /\ TypeOK /\ Whole(jar) /\ call[c] \in Call /\ t \in Tabs
    BY <1>1 DEF SInv, JarsAreWhole, TypeOK, CallsAreSomebodys
  <1>3. /\ r \in Call /\ r.step = "waiting" /\ r.kind = call[c].kind /\ r.tab = t
        /\ r.as = call[c].as /\ r.sent = call[c].sent /\ r.header = call[c].header
        /\ r.retried = call[c].retried /\ r.set = call[c].set
    BY <1>2 DEF Call
  <1>4. /\ n \in Refresh /\ n.step = "sent" /\ n.sent = jar /\ n.set = EmptyJar
    BY <1>2, NoRefreshIsARefresh DEF Refresh, TypeOK
  <1> HIDE DEF r, n
  <1>5. /\ call' \in [Calls -> Call] /\ call'[c] = r
        /\ \A d \in Calls : d # c => call'[d] = call[d]
    BY <1>1, <1>2, <1>3, NewCall DEF TypeOK
  <1>6. \/ /\ refresh[t].step # "none" /\ UNCHANGED <<refresh, excused>>
        \/ /\ refresh[t].step = "none"
           /\ refresh' \in [Tabs -> Refresh] /\ refresh'[t] = n
           /\ \A u \in Tabs : u # t => refresh'[u] = refresh[u]
           /\ excused' = (excused \/ Refreshing # {} \/ Anywhere(Signing) \ {c} # {})
    BY <1>1, <1>2, <1>4, NewRefresh DEF TypeOK
  <1>7. TypeOK'
    BY <1>1, <1>2, <1>5, <1>6 DEF TypeOK
  <1>8. JarsAreWhole' /\ CallsAreSomebodys' /\ CallsCarryWhatTheyShould' /\ RefreshesCarry'
    <2>1. ASSUME NEW d \in Calls
          PROVE  /\ Whole(call'[d].sent) /\ Whole(call'[d].set) /\ CarriesWhatItShould(call'[d])
                 /\ call'[d].step # "idle" =>
                      /\ call'[d].tab \in Tabs /\ call'[d].kind \in Kinds
                      /\ call'[d].kind = "login" => call'[d].as \in Users
      BY <1>1, <1>3, <1>5 DEF SInv, JarsAreWhole, CallsAreSomebodys, CallsCarryWhatTheyShould, CarriesWhatItShould
    <2>2. ASSUME NEW u \in Tabs
          PROVE  /\ Whole(refresh'[u].sent) /\ Whole(refresh'[u].set)
                 /\ BringsWhatItShould(refresh'[u])
      BY <1>2, <1>4, <1>6, NoJars DEF SInv, JarsAreWhole, RefreshesCarry, BringsWhatItShould
    <2>3. QED
      BY <1>1, <1>2, <2>1, <2>2 DEF JarsAreWhole, CallsAreSomebodys, CallsCarryWhatTheyShould, RefreshesCarry
  <1>9. InStep'
    <2>1. SUFFICES ASSUME ~excused' PROVE OneAtATime' /\ ServerTakesIt' /\ RefreshedWithThese'
      BY DEF InStep
    <2>2. ~excused /\ OneAtATime /\ ServerTakesIt /\ RefreshedWithThese
      <3>1. CASE UNCHANGED excused
        BY <2>1, <3>1 DEF SInv, InStep
      <3>2. CASE excused' = (excused \/ Refreshing # {} \/ Anywhere(Signing) \ {c} # {})
        BY <2>1, <3>2 DEF SInv, InStep
      <3>3. QED
        BY <1>6, <3>1, <3>2
    <2>3. \A d \in Calls : (SignsNow(d)' <=> SignsNow(d)) /\ (SignedBehindIt(d)' <=> SignedBehindIt(d))
      BY <1>1, <1>3, <1>5 DEF SignsNow, SignedBehindIt, Retries
    <2>4. \A d \in Calls : SignedBehindIt(d)' => call'[d] = call[d]
      BY <1>3, <1>5 DEF SignedBehindIt
    <2>5. \A u \in Tabs : /\ RefreshedBehindIt(u)' <=> RefreshedBehindIt(u)
                          /\ RefreshedBehindIt(u)' => refresh'[u] = refresh[u]
      BY <1>4, <1>6 DEF RefreshedBehindIt
    <2>6. ServerTakesIt'
      BY <1>1, <2>2, <2>3, <2>4, <2>5 DEF ServerTakesIt
    <2>7. CASE UNCHANGED refresh
      <3>1. ~SignsNow(c) \/ \A u \in Tabs : refresh[u].step = "none"
        BY <1>1, <2>2 DEF OneAtATime
      <3>2. OneAtATime'
        BY <1>5, <2>2, <2>3, <2>7, <3>1 DEF OneAtATime
      <3>3. RefreshedWithThese'
        BY <1>1, <2>2, <2>7 DEF RefreshedWithThese
      <3>4. QED
        BY <2>6, <3>2, <3>3
    <2>8. CASE refresh[t].step = "none" /\ refresh' # refresh
      <3>1. Refreshing = {} /\ Anywhere(Signing) \ {c} = {}
        BY <1>6, <2>1, <2>8
      <3>2. \A u \in Tabs : refresh[u].step = "none"
        BY <3>1 DEF Refreshing
      <3>3. \A d \in Calls : SignsNow(d) => d = c
        BY <3>1 DEF Anywhere, SignsNow
      <3>4. OneAtATime'
        BY <1>3, <1>5, <1>6, <2>3, <2>8, <3>2, <3>3 DEF OneAtATime
      <3>5. RefreshedWithThese'
        BY <1>1, <1>4, <1>6, <2>8, <3>2 DEF RefreshedWithThese
      <3>6. QED
        BY <2>6, <3>4, <3>5
    <2>9. QED
      BY <1>6, <2>7, <2>8
  <1>10. TabsKnow'
    BY <1>1, <1>3, <1>5 DEF SInv, TabsKnow
  <1>11. CachedSessionHolds' /\ RequestsAreServed'
    BY <1>1 DEF SInv, CachedSessionHolds, RequestsAreServed
  <1>12. QED
    BY <1>7, <1>8, <1>9, <1>10, <1>11 DEF SInv

\* A refresh is looked at: as long as nothing is excused it carries what the server
\* takes, if there is anything to carry.
LEMMA CheckKeepsSInv ==
  ASSUME SInv, NEW t \in Tabs, ServeRefreshCheck(t) PROVE SInv'
  <1> DEFINE f == refresh[t]
             n == IF f.sent.token # 0 /\ row[f.sent.user] = f.sent.token
                  THEN [f EXCEPT !.step = "checked"]
                  ELSE [f EXCEPT !.step = "served", !.status = "401"]
  <1>1. /\ f.step = "sent" /\ refresh' = [refresh EXCEPT ![t] = n]
        /\ UNCHANGED <<jar, row, issued, call, cached, made, excused, mixed, refused>>
    BY DEF ServeRefreshCheck, server, history
  <1>2. TypeOK /\ f \in Refresh /\ Whole(jar) /\ Whole(f.sent) /\ Whole(f.set)
    BY DEF SInv, JarsAreWhole, TypeOK
  <1>3. /\ n \in Refresh /\ n.sent = f.sent /\ n.set = f.set
        /\ \/ n.step = "checked" /\ f.sent.token # 0
           \/ /\ n.step = "served" /\ n.status = "401"
              /\ f.sent.token = 0 \/ row[f.sent.user] # f.sent.token
    BY <1>2 DEF Refresh
  <1> HIDE DEF n
  <1>4. /\ refresh' \in [Tabs -> Refresh] /\ refresh'[t] = n
        /\ \A u \in Tabs : u # t => refresh'[u] = refresh[u]
    BY <1>1, <1>2, <1>3, NewRefresh DEF TypeOK
  <1>5. TypeOK'
    BY <1>1, <1>2, <1>4 DEF TypeOK
  <1>6. JarsAreWhole' /\ CallsAreSomebodys' /\ CallsCarryWhatTheyShould' /\ RefreshesCarry'
    <2>1. ASSUME NEW u \in Tabs
          PROVE  /\ Whole(refresh'[u].sent) /\ Whole(refresh'[u].set)
                 /\ BringsWhatItShould(refresh'[u])
      BY <1>2, <1>3, <1>4 DEF SInv, JarsAreWhole, RefreshesCarry, BringsWhatItShould
    <2>2. QED
      BY <1>1, <2>1 DEF SInv, JarsAreWhole, CallsAreSomebodys, CallsCarryWhatTheyShould, RefreshesCarry
  <1>7. InStep'
    <2>1. SUFFICES ASSUME ~excused' PROVE OneAtATime' /\ ServerTakesIt' /\ RefreshedWithThese'
      BY DEF InStep
    <2>2. OneAtATime /\ ServerTakesIt /\ RefreshedWithThese
      BY <1>1, <2>1 DEF SInv, InStep
    <2>3. \A c \in Calls : (SignsNow(c)' <=> SignsNow(c)) /\ (SignedBehindIt(c)' <=> SignedBehindIt(c))
      BY <1>1 DEF SignsNow, SignedBehindIt
    <2>4. \A u \in Tabs : /\ RefreshedBehindIt(u)' <=> RefreshedBehindIt(u)
                          /\ RefreshedBehindIt(u)' => refresh'[u] = refresh[u]
      BY <1>1, <1>3, <1>4 DEF RefreshedBehindIt
    <2>5. OneAtATime'
      BY <1>1, <1>4, <2>2, <2>3 DEF OneAtATime
    <2>6. ServerTakesIt'
      BY <1>1, <2>2, <2>3, <2>4 DEF ServerTakesIt
    <2>7. jar.token # 0 => n.step = "checked"
      <3>1. (\A c \in Calls : ~SignedBehindIt(c)) /\ (\A u \in Tabs : ~RefreshedBehindIt(u))
        BY <1>1, <2>2 DEF OneAtATime, SignedBehindIt, RefreshedBehindIt
      <3>2. f.sent.token = jar.token /\ f.sent.user = jar.user
        BY <1>1, <2>2 DEF RefreshedWithThese
      <3>3. QED
        BY <1>3, <2>2, <3>1, <3>2 DEF ServerTakesIt
    <2>8. RefreshedWithThese'
      BY <1>1, <1>3, <1>4, <2>2, <2>7 DEF RefreshedWithThese
    <2>9. QED
      BY <2>5, <2>6, <2>8
  <1>8. TabsKnow' /\ CachedSessionHolds' /\ RequestsAreServed'
    BY <1>1 DEF SInv, TabsKnow, CachedSessionHolds, RequestsAreServed
  <1>9. QED
    BY <1>5, <1>6, <1>7, <1>8 DEF SInv

\* The token is rotated: what the server takes is on its way to the browser.
LEMMA RotateKeepsSInv ==
  ASSUME SInv, NEW t \in Tabs, ServeRefreshRotate(t) PROVE SInv'
  <1> DEFINE f == refresh[t]
             j == Cookies(f.sent.user, issued')
             n == [f EXCEPT !.step = "served", !.status = "ok", !.set = j]
  <1>1. /\ f.step = "checked" /\ refresh' = [refresh EXCEPT ![t] = n]
        /\ issued < MaxTokens /\ issued' = issued + 1
        /\ row' = [row EXCEPT ![f.sent.user] = issued']
        /\ UNCHANGED <<jar, call, cached, made, excused, mixed, refused>>
    BY DEF ServeRefreshRotate, history
  <1>2. TypeOK /\ f \in Refresh /\ Whole(jar) /\ Whole(f.sent)
    BY DEF SInv, JarsAreWhole, TypeOK
  <1>3. f.sent.token # 0 /\ f.sent.user \in Users
    BY <1>1, <1>2 DEF SInv, RefreshesCarry, BringsWhatItShould, Whole, Refresh, Jar
  <1>4. issued' \in 0 .. MaxTokens /\ issued' \in Nat /\ issued' # 0
    BY <1>1, <1>2, BrowserAssumption DEF TypeOK
  <1>5. j \in Jar /\ Whole(j) /\ j.user = f.sent.user /\ j.token = issued'  /\ j.access
    BY <1>3, <1>4, NoJars
  <1> HIDE DEF j
  <1>6. n \in Refresh /\ n.sent = f.sent /\ n.set = j /\ n.step = "served" /\ n.status = "ok"
    BY <1>2, <1>5 DEF Refresh
  <1> HIDE DEF n
  <1>7. /\ refresh' \in [Tabs -> Refresh] /\ refresh'[t] = n
        /\ \A u \in Tabs : u # t => refresh'[u] = refresh[u]
    BY <1>1, <1>2, <1>6, NewRefresh DEF TypeOK
  <1>8. row' \in [Users -> Nat] /\ row'[j.user] = j.token
    BY <1>1, <1>2, <1>3, <1>4, <1>5 DEF TypeOK
  <1>9. TypeOK'
    BY <1>1, <1>2, <1>4, <1>7, <1>8 DEF TypeOK
  <1>10. JarsAreWhole' /\ CallsAreSomebodys' /\ CallsCarryWhatTheyShould' /\ RefreshesCarry'
    <2>1. ASSUME NEW u \in Tabs
          PROVE  /\ Whole(refresh'[u].sent) /\ Whole(refresh'[u].set)
                 /\ BringsWhatItShould(refresh'[u])
      BY <1>2, <1>5, <1>6, <1>7 DEF SInv, JarsAreWhole, RefreshesCarry, BringsWhatItShould
    <2>2. QED
      BY <1>1, <2>1 DEF SInv, JarsAreWhole, CallsAreSomebodys, CallsCarryWhatTheyShould, RefreshesCarry
  <1>11. InStep'
    <2>1. SUFFICES ASSUME ~excused' PROVE OneAtATime' /\ ServerTakesIt' /\ RefreshedWithThese'
      BY DEF InStep
    <2>2. OneAtATime /\ ServerTakesIt /\ RefreshedWithThese
      BY <1>1, <2>1 DEF SInv, InStep
    <2>3. \A c \in Calls : (SignsNow(c)' <=> SignsNow(c)) /\ ~SignedBehindIt(c)'
      BY <1>1, <2>2 DEF OneAtATime, SignsNow, SignedBehindIt
    <2>4. \A u \in Tabs : u # t => refresh'[u].step = "none" /\ ~RefreshedBehindIt(u)'
      BY <1>1, <1>7, <2>2 DEF OneAtATime, RefreshedBehindIt
    <2>5. RefreshedBehindIt(t)'
      BY <1>6, <1>7 DEF RefreshedBehindIt
    <2>6. OneAtATime'
      BY <1>1, <1>7, <2>2, <2>3, <2>4 DEF OneAtATime
    <2>7. ServerTakesIt'
      BY <1>1, <1>6, <1>7, <1>8, <2>3, <2>4, <2>5 DEF ServerTakesIt
    <2>8. RefreshedWithThese'
      BY <1>1, <1>6, <1>7, <2>2, <2>4 DEF RefreshedWithThese
    <2>9. QED
      BY <2>6, <2>7, <2>8
  <1>12. TabsKnow' /\ CachedSessionHolds' /\ RequestsAreServed'
    BY <1>1 DEF SInv, TabsKnow, CachedSessionHolds, RequestsAreServed
  <1>13. QED
    BY <1>9, <1>10, <1>11, <1>12 DEF SInv

\* The calls that waited go out again, with the cookies that the refresh brought.
LEMMA RefreshedKeepsSInv ==
  ASSUME SInv, NEW t \in Tabs, ReceiveRefreshed(t) PROVE SInv'
  <1> DEFINE f == refresh[t]
             again(c) == Sent([call[c] EXCEPT !.retried = TRUE, !.status = "none"])
  <1>1. /\ f.step = "served" /\ f.status = "ok" /\ Store(f.set, t, {t})
        /\ refresh' = [refresh EXCEPT ![t] = NoRefresh]
        /\ call' = [c \in Calls |-> IF call[c].step = "waiting" /\ call[c].tab = t
                                    THEN again(c) ELSE call[c]]
        /\ UNCHANGED <<row, issued, cached, made, excused, refused>>
    BY DEF ReceiveRefreshed, At, server
  <1>2. TypeOK /\ f \in Refresh /\ Whole(jar) /\ Whole(f.set)
    BY DEF SInv, JarsAreWhole, TypeOK
  <1>3. /\ jar' = f.set /\ jar' \in Jar /\ Whole(jar') /\ mixed' \in SUBSET Tabs /\ mixed \subseteq mixed'
        /\ \A u \in Tabs : jar'.user # jar.user => u \in mixed'
    BY <1>1, <1>2 DEF TypeOK, Store, Refresh
  <1>4. ASSUME NEW c \in Calls
        PROVE  /\ again(c) \in Call /\ again(c).step = "sent" /\ again(c).kind = call[c].kind
               /\ again(c).tab = call[c].tab /\ again(c).as = call[c].as /\ again(c).sent = jar'
               /\ call[c].kind # "upload" => again(c).header = jar'.csrf
               /\ again(c).set = call[c].set
    <2> DEFINE r == [call[c] EXCEPT !.retried = TRUE, !.status = "none"]
    <2>1. /\ r \in Call /\ r.kind = call[c].kind /\ r.tab = call[c].tab /\ r.as = call[c].as
          /\ r.set = call[c].set
      BY <1>2 DEF TypeOK, Call
    <2> HIDE DEF r
    <2> DEFINE h == IF r.kind = "upload" /\ r.retried THEN r.header ELSE jar'.csrf
    <2>2. Sent(r) = [r EXCEPT !.step = "sent", !.sent = jar', !.header = h]
      BY DEF Sent
    <2>3. h \in Nat /\ (call[c].kind # "upload" => h = jar'.csrf)
      BY <1>3, <2>1 DEF Call, Jar
    <2> HIDE DEF h
    <2>4. again(c) = [r EXCEPT !.step = "sent", !.sent = jar', !.header = h]
      BY <2>2 DEF r
    <2> HIDE DEF again
    <2>5. QED
      BY <1>3, <2>1, <2>3, <2>4 DEF Call
  <1> HIDE DEF again
  <1>5. /\ call' \in [Calls -> Call]
        /\ \A c \in Calls : call'[c] = IF call[c].step = "waiting" /\ call[c].tab = t
                                       THEN again(c) ELSE call[c]
    BY <1>1, <1>2, <1>4 DEF TypeOK
  <1>6. /\ refresh' \in [Tabs -> Refresh] /\ refresh'[t] = NoRefresh
        /\ \A u \in Tabs : u # t => refresh'[u] = refresh[u]
    BY <1>1, <1>2, NewRefresh, NoRefreshIsARefresh DEF TypeOK
  <1>7. TypeOK'
    BY <1>1, <1>2, <1>3, <1>5, <1>6 DEF TypeOK
  <1>8. \A c \in Calls : /\ call'[c].step # "idle" <=> call[c].step # "idle"
                         /\ call'[c].kind = call[c].kind /\ call'[c].tab = call[c].tab
                         /\ call'[c].step = "served" => call'[c] = call[c]
    BY <1>4, <1>5
  <1>9. jar'.access
    BY <1>1, <1>3 DEF SInv, RefreshesCarry, BringsWhatItShould
  <1>10. JarsAreWhole' /\ CallsAreSomebodys' /\ CallsCarryWhatTheyShould' /\ RefreshesCarry'
    <2>1. ASSUME NEW c \in Calls
          PROVE  /\ Whole(call'[c].sent) /\ Whole(call'[c].set) /\ CarriesWhatItShould(call'[c])
                 /\ call'[c].step # "idle" =>
                      /\ call'[c].tab \in Tabs /\ call'[c].kind \in Kinds
                      /\ call'[c].kind = "login" => call'[c].as \in Users
      BY <1>3, <1>4, <1>5, <1>9 DEF SInv, JarsAreWhole, CallsAreSomebodys, CallsCarryWhatTheyShould,
                                     CarriesWhatItShould
    <2>2. ASSUME NEW u \in Tabs
          PROVE  /\ Whole(refresh'[u].sent) /\ Whole(refresh'[u].set)
                 /\ BringsWhatItShould(refresh'[u])
      BY <1>6, NoRefreshIsARefresh, NoJars DEF SInv, JarsAreWhole, RefreshesCarry, BringsWhatItShould
    <2>3. QED
      BY <1>3, <2>1, <2>2 DEF JarsAreWhole, CallsAreSomebodys, CallsCarryWhatTheyShould, RefreshesCarry
  <1>11. InStep'
    <2>1. SUFFICES ASSUME ~excused' PROVE OneAtATime' /\ ServerTakesIt' /\ RefreshedWithThese'
      BY DEF InStep
    <2>2. OneAtATime /\ ServerTakesIt /\ RefreshedWithThese
      BY <1>1, <2>1 DEF SInv, InStep
    <2>3. \A u \in Tabs : refresh'[u].step = "none"
      BY <1>1, <1>6, <2>2, NoRefreshIsARefresh DEF OneAtATime
    <2>4. \A c \in Calls : (SignsNow(c)' <=> SignsNow(c)) /\ ~SignedBehindIt(c)'
      BY <1>1, <1>8, <2>2 DEF OneAtATime, SignsNow, SignedBehindIt
    <2>5. OneAtATime'
      BY <2>2, <2>3, <2>4 DEF OneAtATime
    <2>6. row'[jar'.user] = jar'.token
      BY <1>1, <1>3, <2>2 DEF ServerTakesIt, RefreshedBehindIt
    <2>7. ServerTakesIt' /\ RefreshedWithThese'
      BY <2>3, <2>4, <2>6 DEF ServerTakesIt, RefreshedBehindIt, RefreshedWithThese
    <2>8. QED
      BY <2>5, <2>7
  <1>12. TabsKnow'
    <2>1. ASSUME NEW c \in Calls, call'[c].step # "idle", call'[c].tab \notin mixed'
          PROVE  /\ call'[c].kind = "session" => call'[c].sent.user = jar'.user
                 /\ call'[c].kind = "login" => /\ cached'[call'[c].tab] = None
                                 /\ \A d \in Calls : ~(/\ call'[d].step # "idle"
                                                       /\ call'[d].kind = "session"
                                                       /\ call'[d].tab = call'[c].tab)
      <3>1. /\ call[c].step # "idle" /\ call[c].tab \notin mixed /\ call[c].tab \in Tabs
            /\ call'[c].tab = call[c].tab /\ call'[c].kind = call[c].kind
        BY <1>3, <1>8, <1>10, <2>1 DEF CallsAreSomebodys
      <3>2. jar'.user = jar.user
        BY <1>3, <2>1, <3>1
      <3>3. call'[c].kind = "session" => call'[c].sent.user = jar'.user
        BY <1>4, <1>5, <3>1, <3>2 DEF SInv, TabsKnow
      <3>4. QED
        BY <1>1, <1>8, <3>1, <3>3 DEF SInv, TabsKnow
    <2>2. QED
      BY <2>1 DEF TabsKnow
  <1>13. CachedSessionHolds' /\ RequestsAreServed'
    BY <1>1, <1>3 DEF SInv, CachedSessionHolds, RequestsAreServed
  <1>14. QED
    BY <1>7, <1>10, <1>11, <1>12, <1>13 DEF SInv

\* The refresh is refused, or its reply lost: whoever waited is refused only if there
\* was nothing to refresh, or it is excused.
LEMMA GiveUpKeepsSInv ==
  ASSUME SInv, NEW t \in Tabs, ReceiveNotRefreshed(t) \/ LoseRefresh(t) PROVE SInv'
  <1> DEFINE waiting == {c \in InFlight(t, Kinds) : At(c, "waiting")}
  <1>1. refresh[t].step = "served" /\ GiveUp(t)
    BY DEF ReceiveNotRefreshed, LoseRefresh
  <1>2. /\ refresh' = [refresh EXCEPT ![t] = NoRefresh]
        /\ call' = [c \in Calls |-> IF c \in waiting THEN Idle ELSE call[c]]
        /\ cached' = IF \E c \in waiting : call[c].kind = "session"
                     THEN [cached EXCEPT ![t] = None] ELSE cached
        /\ UNCHANGED <<jar, row, issued, made, mixed>>
    BY <1>1 DEF GiveUp, server
  <1>3. TypeOK /\ Whole(jar)
    BY DEF SInv, JarsAreWhole
  <1>4. /\ call' \in [Calls -> Call] /\ \A c \in Calls : call'[c] \in {call[c], Idle}
        /\ \A c \in Calls : call[c].step = "served" => call'[c] = call[c]
    BY <1>2, <1>3, IdleIsACall DEF TypeOK, At
  <1>5. /\ refresh' \in [Tabs -> Refresh] /\ \A u \in Tabs : refresh'[u] \in {refresh[u], NoRefresh}
        /\ \A u \in Tabs : u # t => refresh'[u] = refresh[u]
    BY <1>2, <1>3, NewRefresh, NoRefreshIsARefresh DEF TypeOK
  <1>6. /\ cached' \in [Tabs -> Users \cup {None}] /\ \A u \in Tabs : cached'[u] \in {cached[u], None}
    BY <1>2, <1>3 DEF TypeOK
  <1>7. /\ excused' \in BOOLEAN /\ (excused => excused')
        /\ refresh[t].status = "ok" => excused'
    <2>1. CASE ReceiveNotRefreshed(t)
      BY <1>3, <2>1 DEF ReceiveNotRefreshed, TypeOK
    <2>2. CASE LoseRefresh(t)
      <3>1. excused' = (excused \/ refresh[t].status = "ok")
        BY <2>2 DEF LoseRefresh
      <3>2. QED
        BY <1>3, <3>1 DEF TypeOK
    <2>3. QED
      BY <2>1, <2>2
  <1>8. jar.token = 0 \/ excused'
    <2>1. refresh[t].status \in {"ok", "401"}
      BY <1>1, <1>3 DEF SInv, RefreshesCarry, BringsWhatItShould, TypeOK, Refresh
    <2>2. QED
      BY <1>1, <1>7, <2>1 DEF SInv, InStep, RefreshedWithThese
  <1>9. refused' = refused
    BY <1>1, <1>8 DEF GiveUp
  <1>10. \A c \in Calls : SignedBehindIt(c) => call'[c] = call[c]
    BY <1>4 DEF SignedBehindIt
  <1>11. \A u \in Tabs : RefreshedBehindIt(u) /\ refresh'[u] # refresh[u] => excused'
    BY <1>5, <1>7 DEF RefreshedBehindIt
  <1>12. refused' \in SUBSET Kinds /\ refused' \subseteq {"raw", "upload"}
    BY <1>3, <1>9 DEF SInv, TypeOK, RequestsAreServed
  <1>13. QED
    BY <1>2, <1>3, <1>4, <1>5, <1>6, <1>7, <1>10, <1>11, <1>12, LosingKeepsSInv DEF TypeOK

\* Time passes, and somebody signs in elsewhere.
LEMMA ElsewhereKeepsSInv ==
  ASSUME SInv, \/ Expire \/ (\E t \in Tabs : ForgetCached(t)) \/ (\E u \in Users : SignInElsewhere(u))
  PROVE  SInv'
  <1>1. /\ TypeOK /\ Whole(jar) /\ refused \subseteq {"raw", "upload"}
        /\ \A c \in Calls : call[c] \in {call[c], Idle}
        /\ \A t \in Tabs : refresh[t] \in {refresh[t], NoRefresh} /\ cached[t] \in {cached[t], None}
    BY DEF SInv, JarsAreWhole, RequestsAreServed
  <1>2. CASE Expire
    <2> DEFINE j == [jar EXCEPT !.access = FALSE]
    <2>1. jar' = j /\ UNCHANGED <<row, issued, call, refresh, cached, made, excused, mixed, refused>>
      BY <1>2 DEF Expire, server, history
    <2>2. /\ j \in Jar /\ j.user = jar.user /\ j.token = jar.token /\ j.csrf = jar.csrf /\ ~j.access
      BY <1>1 DEF TypeOK, Jar
    <2> HIDE DEF j
    <2>3. jar' \in Jar /\ Whole(jar') /\ jar'.user = jar.user /\ jar'.token = jar.token
      BY <1>1, <2>1, <2>2 DEF Whole
    <2>4. QED
      BY <1>1, <2>1, <2>3, LosingKeepsSInv DEF TypeOK
  <1>3. CASE \E t \in Tabs : ForgetCached(t)
    <2>1. PICK t \in Tabs : ForgetCached(t)
      BY <1>3
    <2>2. /\ cached' = [cached EXCEPT ![t] = None]
          /\ UNCHANGED <<jar, row, issued, call, refresh, made, excused, mixed, refused>>
      BY <2>1 DEF ForgetCached, server, history
    <2>3. /\ cached' \in [Tabs -> Users \cup {None}] /\ \A u \in Tabs : cached'[u] \in {cached[u], None}
      BY <1>1, <2>2 DEF TypeOK
    <2>4. QED
      BY <1>1, <2>2, <2>3, LosingKeepsSInv DEF TypeOK
  <1>4. CASE \E u \in Users : SignInElsewhere(u)
    <2>1. PICK u \in Users : SignInElsewhere(u)
      BY <1>4
    <2>2. /\ issued < MaxTokens /\ issued' = issued + 1 /\ row' = [row EXCEPT ![u] = issued']
          /\ UNCHANGED <<jar, call, refresh, cached, made, mixed, refused>>
      BY <2>1 DEF SignInElsewhere
    <2>3. excused' /\ excused' \in BOOLEAN
      BY <2>1 DEF SignInElsewhere
    <2>4. issued' \in 0 .. MaxTokens /\ row' \in [Users -> Nat]
      BY <1>1, <2>2, BrowserAssumption DEF TypeOK
    <2>5. QED
      BY <1>1, <2>2, <2>3, <2>4, LosingKeepsSInv DEF TypeOK
  <1>5. QED
    BY <1>2, <1>3, <1>4

-----------------------------------------------------------------------------
(* The theorems *)

LEMMA InitHolds ==
  Init => SInv
  <1> SUFFICES ASSUME Init PROVE SInv
    OBVIOUS
  <1>1. /\ jar = EmptyJar /\ row = [u \in Users |-> 0] /\ issued = 0
        /\ call = [c \in Calls |-> Idle] /\ refresh = [t \in Tabs |-> NoRefresh]
        /\ cached = [t \in Tabs |-> None] /\ made = 0 /\ mixed = {} /\ refused = {}
        /\ excused \in BOOLEAN
    BY DEF Init
  <1>2. TypeOK
    BY <1>1, IdleIsACall, NoRefreshIsARefresh, NoJars, BrowserAssumption DEF TypeOK
  <1>3. /\ \A c \in Calls : call[c] = Idle
        /\ \A t \in Tabs : refresh[t] = NoRefresh /\ cached[t] = None
    BY <1>1
  <1>4. JarsAreWhole /\ CallsAreSomebodys /\ CallsCarryWhatTheyShould /\ RefreshesCarry
    BY <1>1, <1>3, IdleIsACall, NoRefreshIsARefresh, NoJars
       DEF JarsAreWhole, CallsAreSomebodys, CallsCarryWhatTheyShould, CarriesWhatItShould,
           RefreshesCarry, BringsWhatItShould
  <1>5. InStep /\ TabsKnow /\ CachedSessionHolds /\ RequestsAreServed
    BY <1>1, <1>3, IdleIsACall, NoRefreshIsARefresh, NoJars
       DEF InStep, OneAtATime, ServerTakesIt, RefreshedWithThese, SignsNow, SignedBehindIt,
           RefreshedBehindIt, TabsKnow, CachedSessionHolds, RequestsAreServed
  <1>6. QED
    BY <1>2, <1>4, <1>5 DEF SInv

LEMMA NextKeepsSInv ==
  ASSUME SInv, [Next]_vars PROVE SInv'
  <1>1. ASSUME NEW c \in Calls, NEW t \in Tabs, NEW kind \in Kinds,
               IF kind = "login" THEN \E u \in Users : Begin(c, t, kind, u) ELSE Begin(c, t, kind, None)
        PROVE  SInv'
    <2>1. PICK u \in Users \cup {None} : (kind = "login" => u \in Users) /\ Begin(c, t, kind, u)
      BY <1>1
    <2>2. QED
      BY <2>1, BeginKeepsSInv
  <1>2. ASSUME NEW c \in Calls, ServeLogin(c) \/ ServeRefused(c) \/ ServeGuarded(c) \/ ServeLogout(c)
        PROVE  SInv'
    BY <1>2, ServeKeepsSInv
  <1>3. ASSUME NEW c \in Calls,
               ReceiveOk(c) \/ ReceiveRefused(c) \/ ReceiveUnauthorized(c) \/ LoseReply(c)
        PROVE  SInv'
    BY <1>3, ReceiveOkKeepsSInv, RefusedKeepsSInv, UnauthorizedKeepsSInv, LoseReplyKeepsSInv
  <1>4. ASSUME NEW t \in Tabs, ServeRefreshCheck(t) \/ ServeRefreshRotate(t) PROVE SInv'
    BY <1>4, CheckKeepsSInv, RotateKeepsSInv
  <1>5. ASSUME NEW t \in Tabs, ReceiveRefreshed(t) \/ ReceiveNotRefreshed(t) \/ LoseRefresh(t)
        PROVE  SInv'
    BY <1>5, RefreshedKeepsSInv, GiveUpKeepsSInv
  <1>6. ASSUME \/ Expire \/ (\E t \in Tabs : ForgetCached(t)) \/ (\E u \in Users : SignInElsewhere(u))
        PROVE  SInv'
    BY <1>6, ElsewhereKeepsSInv
  <1>7. CASE UNCHANGED vars
    BY <1>7 DEF vars, server, history, SInv, TypeOK, JarsAreWhole, CallsAreSomebodys,
                CallsCarryWhatTheyShould, RefreshesCarry, InStep, OneAtATime, ServerTakesIt,
                RefreshedWithThese, SignsNow, SignedBehindIt, RefreshedBehindIt, TabsKnow,
                CachedSessionHolds, RequestsAreServed
  <1>8. QED
    BY <1>1, <1>2, <1>3, <1>4, <1>5, <1>6, <1>7 DEF Next

\* As long as nothing is excused, what is on its way to change the cookies is alone
\* and carries what the server takes.
THEOREM SInvHolds ==
  Spec => []SInv
  <1>1. Init => SInv
    BY InitHolds
  <1>2. SInv /\ [Next]_vars => SInv'
    BY NextKeepsSInv
  <1>3. QED
    BY <1>1, <1>2, PTL DEF Spec

\* What the browser holds is in step with the server and with itself: the token in
\* the cookies is the one the server takes whenever nothing changes it, and what a
\* tab has cached is the session of the cookies.
THEOREM SessionsAreInStep ==
  Spec => []SessionInv
  <1>1. SInv => SessionInv
    <2>1. SUFFICES ASSUME SInv PROVE SessionInv
      OBVIOUS
    <2>2. CookieIsCurrent
      <3>1. SUFFICES ASSUME ~excused, Refreshing = {}, Anywhere(Signing) = {}, jar.token # 0
                     PROVE  row[jar.user] = jar.token
        BY DEF CookieIsCurrent
      <3>2. (\A c \in Calls : ~SignedBehindIt(c)) /\ (\A t \in Tabs : ~RefreshedBehindIt(t))
        BY <3>1 DEF SignedBehindIt, SignsNow, RefreshedBehindIt, Refreshing, Anywhere
      <3>3. QED
        BY <2>1, <3>1, <3>2 DEF SInv, InStep, ServerTakesIt
    <2>3. QED
      BY <2>1, <2>2 DEF SInv, SessionInv
  <1>2. QED
    BY <1>1, SInvHolds, PTL

\* A signed-in browser is refused nothing that goes through requestJson, for any
\* number of tabs, users and calls, unless it is excused.
THEOREM SignedInIsServed ==
  Spec => []RequestsAreServed
  <1>1. SInv => RequestsAreServed
    BY DEF SInv
  <1>2. QED
    BY <1>1, SInvHolds, PTL

-----------------------------------------------------------------------------
\* The hearts.  Of a project that is not doubted, the page has been told the truth:
\* by the answer to its load, by what it shows when no answer to a press is on its
\* way to it, and by each such answer; on the page of likes that is that the like
\* is gone.
NoAnswer(p) ==
  \A i \in DOMAIN posts : posts[i].mounted /\ posts[i].project = p => posts[i].reply = "none"

LoadIsTrue ==
  load.step = "answered" =>
    \A p \in Projects \ doubted :
      (p \in load.liked => p \in liked) /\ (p \in listed \cap liked => p \in load.liked)

PageIsTrue ==
  load.step = "done" /\ ~failed =>
    \A p \in Projects \ doubted : NoAnswer(p) =>
      (p \in hearts => p \in liked) /\ (p \in listed \cap liked => p \in hearts)

AnswersAreTrue ==
  \A i \in DOMAIN posts : posts[i].mounted /\ posts[i].project \notin doubted =>
    /\ posts[i].reply = "liked" => posts[i].project \in liked
    /\ posts[i].reply = "unliked" => posts[i].project \notin liked
    /\ place = "likes" =>
         posts[i].reply # "liked" /\ (posts[i].reply = "none" => posts[i].project \in liked)

ButtonsAreDown ==
  place = "feed" => \A i \in DOMAIN posts : posts[i].mounted => posts[i].project \in pending

HeartsIInv ==
  HeartsTypeOK /\ LoadIsTrue /\ PageIsTrue /\ AnswersAreTrue /\ ButtonsAreDown /\ FeedPressesOnce

\* What the types say of the toggles in flight.
LEMMA PostFacts ==
  ASSUME HeartsTypeOK
  PROVE  /\ Len(posts) \in Nat /\ DOMAIN posts = 1 .. Len(posts) /\ posts \in Seq(Post)
         /\ \A i \in DOMAIN posts : posts[i] \in Post
  BY DEF HeartsTypeOK

\* The toggle that leaves: the others keep their order.
LEMMA WithoutEffect ==
  ASSUME HeartsTypeOK, NEW i \in DOMAIN posts, Without(i)
  PROVE  /\ posts' \in Seq(Post) /\ Len(posts') <= MaxPosts
         /\ DOMAIN posts' = 1 .. Len(posts) - 1
         /\ \A j \in DOMAIN posts' : posts'[j] = IF j < i THEN posts[j] ELSE posts[j + 1]
         /\ \A j \in DOMAIN posts' : \E k \in DOMAIN posts : posts'[j] = posts[k]
         /\ \A k \in DOMAIN posts \ {i} : \E j \in DOMAIN posts' : posts'[j] = posts[k]
  <1>1. Len(posts) \in Nat /\ i \in 1 .. Len(posts) /\ \A j \in 1 .. Len(posts) : posts[j] \in Post
    BY PostFacts
  <1>2. posts' = [j \in 1 .. Len(posts) - 1 |-> IF j < i THEN posts[j] ELSE posts[j + 1]]
    BY DEF Without
  <1>3. posts' \in [1 .. Len(posts) - 1 -> Post]
    BY <1>1, <1>2
  <1>4. posts' \in Seq(Post) /\ Len(posts') = Len(posts) - 1 /\ DOMAIN posts' = 1 .. Len(posts) - 1
    BY <1>1, <1>3
  <1>5. Len(posts') <= MaxPosts
    BY <1>1, <1>4, HeartsAssumption DEF HeartsTypeOK
  <1>6. \A j \in DOMAIN posts' : posts'[j] = IF j < i THEN posts[j] ELSE posts[j + 1]
    BY <1>2, <1>4
  <1>7. \A j \in DOMAIN posts' : \E k \in DOMAIN posts : posts'[j] = posts[k]
    <2>1. SUFFICES ASSUME NEW j \in DOMAIN posts'
                   PROVE  \E k \in DOMAIN posts : posts'[j] = posts[k]
      OBVIOUS
    <2>2. j \in DOMAIN posts /\ j + 1 \in DOMAIN posts
      BY <1>1, <1>4, PostFacts
    <2>3. QED
      BY <1>6, <2>2
  <1>8. \A k \in DOMAIN posts \ {i} : \E j \in DOMAIN posts' : posts'[j] = posts[k]
    <2>1. SUFFICES ASSUME NEW k \in DOMAIN posts \ {i}
                   PROVE  \E j \in DOMAIN posts' : posts'[j] = posts[k]
      OBVIOUS
    <2>2. k \in 1 .. Len(posts) /\ k # i
      BY PostFacts
    <2>3. CASE k < i
      BY <1>1, <1>4, <1>6, <2>2, <2>3
    <2>4. CASE ~ (k < i)
      <3>1. k - 1 \in DOMAIN posts' /\ ~ (k - 1 < i) /\ (k - 1) + 1 = k
        BY <1>1, <1>4, <2>2, <2>4
      <3>2. posts'[k - 1] = posts[k]
        BY <1>6, <3>1
      <3>3. QED
        BY <3>1, <3>2
    <2>5. QED
      BY <2>3, <2>4
  <1>9. QED
    BY <1>4, <1>5, <1>6, <1>7, <1>8

LEMMA HeartsInitHolds ==
  ASSUME HeartsInit \/ HeartsLoaded
  PROVE  HeartsIInv
  <1>1. posts = <<>> /\ doubted = {} /\ hearts = {} /\ pending = {}
    BY DEF HeartsInit, HeartsLoaded
  <1>2. DOMAIN posts = {} /\ posts \in Seq(Post) /\ Len(posts) = 0
    BY <1>1
  <1>3. load \in Load /\ load.liked = {} /\ load.step # "answered"
    BY DEF HeartsInit, HeartsLoaded, Load, Asked, Taken
  <1>4. HeartsTypeOK
    <2>1. place \in {"feed", "likes"} /\ listed = Projects /\ liked \subseteq Projects
      BY DEF HeartsInit, HeartsLoaded
    <2>2. failed \in BOOLEAN /\ presses = 0 /\ losses = 0
      BY DEF HeartsInit, HeartsLoaded
    <2>3. presses \in 0 .. MaxPresses /\ losses \in 0 .. MaxLosses /\ Len(posts) <= MaxPosts
      BY <1>2, <2>2, HeartsAssumption
    <2>4. QED
      BY <1>1, <1>2, <1>3, <2>1, <2>2, <2>3 DEF HeartsTypeOK
  <1>5. PageIsTrue
    <2>1. load.step = "done" => liked = {}
      BY DEF HeartsInit, HeartsLoaded, Asked
    <2>2. QED
      BY <1>1, <2>1 DEF PageIsTrue
  <1>6. QED
    BY <1>2, <1>3, <1>4, <1>5
    DEF HeartsIInv, LoadIsTrue, AnswersAreTrue, ButtonsAreDown, FeedPressesOnce

LEMMA ServeLikesStep ==
  ASSUME HeartsIInv, ServeLikes
  PROVE  HeartsIInv'
  <1>1. UNCHANGED <<place, listed, liked, hearts, pending, failed, posts, presses, losses, doubted>>
    BY DEF ServeLikes
  <1>2. load' = [step |-> "answered", liked |-> liked \cap listed]
    BY DEF ServeLikes
  <1>3. HeartsTypeOK'
    BY <1>1, <1>2 DEF HeartsIInv, HeartsTypeOK, Load
  <1>4. LoadIsTrue'
    BY <1>1, <1>2 DEF LoadIsTrue
  <1>5. PageIsTrue'
    BY <1>2 DEF PageIsTrue
  <1>6. QED
    BY <1>1, <1>3, <1>4, <1>5 DEF HeartsIInv, AnswersAreTrue, ButtonsAreDown, FeedPressesOnce

LEMMA TakeLikesStep ==
  ASSUME HeartsIInv, TakeLikes
  PROVE  HeartsIInv'
  <1>1. /\ UNCHANGED <<place, listed, liked, pending, failed, posts, presses, losses, doubted>>
        /\ load.step = "answered" /\ hearts' = load.liked /\ load' = Taken
    BY DEF TakeLikes
  <1>2. HeartsTypeOK'
    BY <1>1 DEF HeartsIInv, HeartsTypeOK, Load, Taken
  <1>3. LoadIsTrue'
    BY <1>1 DEF LoadIsTrue, Taken
  <1>4. PageIsTrue'
    BY <1>1 DEF HeartsIInv, LoadIsTrue, PageIsTrue
  <1>5. QED
    BY <1>1, <1>2, <1>3, <1>4 DEF HeartsIInv, AnswersAreTrue, ButtonsAreDown, FeedPressesOnce

LEMMA LoseLikesStep ==
  ASSUME HeartsIInv, LoseLikes
  PROVE  HeartsIInv'
  <1>1. /\ UNCHANGED <<place, listed, liked, pending, posts, presses>>
        /\ load' = Taken /\ hearts' = (IF place = "feed" THEN {} ELSE hearts)
        /\ failed' \in BOOLEAN /\ (place = "likes" => failed')
        /\ doubted' = doubted \cup liked \cup load.liked
        /\ losses' = losses + 1 /\ losses < MaxLosses
    <2>1. /\ UNCHANGED <<place, listed, liked, pending, posts, presses>>
          /\ load' = Taken /\ hearts' = (IF place = "feed" THEN {} ELSE hearts)
          /\ doubted' = doubted \cup liked \cup load.liked
      BY DEF LoseLikes
    <2>2. losses' = losses + 1 /\ losses < MaxLosses
      BY DEF LoseLikes, Lost
    <2>3. failed' \in BOOLEAN /\ (place = "likes" => failed')
      BY DEF LoseLikes
    <2>4. QED
      BY <2>1, <2>2, <2>3
  <1>2. load \in Load /\ place \in {"feed", "likes"} /\ losses \in Nat
    BY DEF HeartsIInv, HeartsTypeOK
  <1>3. losses' \in 0 .. MaxLosses
    BY <1>1, <1>2, HeartsAssumption
  <1>4. hearts' \subseteq Projects /\ doubted' \subseteq Projects /\ failed' \in BOOLEAN
    BY <1>1, <1>2 DEF HeartsIInv, HeartsTypeOK, Load
  <1>5. HeartsTypeOK'
    BY <1>1, <1>3, <1>4 DEF HeartsIInv, HeartsTypeOK, Load, Taken
  <1>6. LoadIsTrue'
    BY <1>1 DEF LoadIsTrue, Taken
  <1>7. PageIsTrue'
    <2>1. CASE place = "likes"
      BY <1>1, <2>1 DEF PageIsTrue
    <2>2. CASE place = "feed"
      BY <1>1, <2>2 DEF PageIsTrue
    <2>3. QED
      BY <1>2, <2>1, <2>2
  <1>8. AnswersAreTrue'
    BY <1>1 DEF HeartsIInv, AnswersAreTrue
  <1>9. QED
    BY <1>1, <1>5, <1>6, <1>7, <1>8 DEF HeartsIInv, ButtonsAreDown, FeedPressesOnce

LEMMA ArchiveProjectStep ==
  ASSUME HeartsIInv, NEW p \in Projects, ArchiveProject(p)
  PROVE  HeartsIInv'
  <1>1. /\ UNCHANGED <<place, liked, hearts, load, pending, failed, posts, presses, losses, doubted>>
        /\ listed' \subseteq listed
    BY DEF ArchiveProject
  <1>2. HeartsTypeOK'
    BY <1>1 DEF HeartsIInv, HeartsTypeOK
  <1>3. LoadIsTrue'
    BY <1>1 DEF HeartsIInv, LoadIsTrue
  <1>4. PageIsTrue'
    BY <1>1 DEF HeartsIInv, PageIsTrue, NoAnswer
  <1>5. QED
    BY <1>1, <1>2, <1>3, <1>4 DEF HeartsIInv, AnswersAreTrue, ButtonsAreDown, FeedPressesOnce

LEMMA PressHeartStep ==
  ASSUME HeartsIInv, NEW p \in Projects, PressHeart(p)
  PROVE  HeartsIInv'
  <1>1. UNCHANGED <<place, listed, liked, hearts, load, failed, losses>>
    BY DEF PressHeart
  <1>2. PICK m : m = [project |-> p, mounted |-> TRUE, reply |-> "none"]
    OBVIOUS
  <1>3. m \in Post /\ m.project = p /\ m.mounted /\ m.reply = "none"
    BY <1>2 DEF Post
  <1>4. posts' = Append(posts, m) /\ Len(posts) < MaxPosts
    BY <1>2 DEF PressHeart
  <1>5. Len(posts) \in Nat /\ DOMAIN posts = 1 .. Len(posts) /\ posts \in Seq(Post) /\ HeartsTypeOK
    BY PostFacts DEF HeartsIInv
  <1>6. /\ posts' \in Seq(Post) /\ Len(posts') = Len(posts) + 1
        /\ DOMAIN posts' = 1 .. Len(posts) + 1
        /\ \A i \in DOMAIN posts : posts'[i] = posts[i]
        /\ posts'[Len(posts) + 1] = m
    BY <1>3, <1>4, <1>5
  <1>7. \A i \in DOMAIN posts' : i \in DOMAIN posts \/ (i = Len(posts) + 1 /\ posts'[i] = m)
    BY <1>5, <1>6
  <1>8. p \in Pressable /\ p \notin pending /\ presses' = presses + 1 /\ presses < MaxPresses
    BY DEF PressHeart, Spend
  <1>9. doubted' = (IF \E i \in DOMAIN posts : posts[i].mounted /\ posts[i].project = p
                    THEN doubted \cup {p} ELSE doubted)
        /\ doubted \subseteq doubted'
    BY DEF PressHeart
  <1>10. pending' = IF place = "feed" THEN pending \cup {p} ELSE {p}
    BY DEF PressHeart
  <1>11. HeartsTypeOK'
    <2>1. presses' \in 0 .. MaxPresses
      BY <1>5, <1>8, HeartsAssumption DEF HeartsTypeOK
    <2>2. Len(posts') <= MaxPosts
      BY <1>4, <1>5, <1>6, HeartsAssumption
    <2>3. doubted' \subseteq Projects /\ pending' \subseteq Projects
      BY <1>5, <1>9, <1>10 DEF HeartsTypeOK
    <2>4. QED
      BY <1>1, <1>5, <1>6, <2>1, <2>2, <2>3 DEF HeartsTypeOK
  <1>12. LoadIsTrue'
    BY <1>1, <1>9 DEF HeartsIInv, LoadIsTrue
  <1>13. PageIsTrue'
    <2>1. ASSUME NEW q \in Projects, NoAnswer(q)' PROVE NoAnswer(q)
      BY <1>6, <1>5, <2>1 DEF NoAnswer
    <2>2. QED
      BY <1>1, <1>9, <2>1 DEF HeartsIInv, PageIsTrue
  <1>14. AnswersAreTrue'
    <2>1. SUFFICES ASSUME NEW i \in DOMAIN posts', posts'[i].mounted, posts'[i].project \notin doubted'
                   PROVE  /\ posts'[i].reply = "liked" => posts'[i].project \in liked
                          /\ posts'[i].reply = "unliked" => posts'[i].project \notin liked
                          /\ place = "likes" =>
                               posts'[i].reply # "liked" /\ (posts'[i].reply = "none" => posts'[i].project \in liked)
      BY <1>1 DEF AnswersAreTrue
    <2>2. CASE i \in DOMAIN posts
      BY <1>6, <1>9, <2>1, <2>2 DEF HeartsIInv, AnswersAreTrue
    <2>3. CASE posts'[i] = m
      <3>1. p \notin doubted /\ \A j \in DOMAIN posts : ~ (posts[j].mounted /\ posts[j].project = p)
        BY <1>3, <1>9, <2>1, <2>3
      <3>2. NoAnswer(p)
        BY <3>1 DEF NoAnswer
      <3>3. place = "likes" => load.step = "done" /\ ~failed /\ p \in hearts
        BY <1>8 DEF Pressable
      <3>4. place = "likes" => p \in liked
        BY <3>1, <3>2, <3>3 DEF HeartsIInv, PageIsTrue
      <3>5. QED
        BY <1>3, <2>3, <3>4
    <2>4. QED
      BY <1>7, <2>2, <2>3
  <1>15. ButtonsAreDown'
    BY <1>1, <1>3, <1>6, <1>7, <1>10 DEF HeartsIInv, ButtonsAreDown
  <1>16. FeedPressesOnce'
    <2>1. SUFFICES ASSUME place = "feed", NEW i \in DOMAIN posts', NEW j \in DOMAIN posts',
                          posts'[i].mounted, posts'[j].mounted, posts'[i].project = posts'[j].project
                   PROVE  i = j
      BY <1>1 DEF FeedPressesOnce
    <2>2. \A k \in DOMAIN posts : posts[k].mounted => posts[k].project # p
      BY <1>8, <2>1 DEF HeartsIInv, ButtonsAreDown
    <2>3. CASE i \in DOMAIN posts /\ j \in DOMAIN posts
      BY <1>6, <2>1, <2>3 DEF HeartsIInv, FeedPressesOnce
    <2>4. QED
      BY <1>3, <1>6, <1>7, <2>1, <2>2, <2>3
  <1>17. QED
    BY <1>11, <1>12, <1>13, <1>14, <1>15, <1>16 DEF HeartsIInv

LEMMA ServeToggleStep ==
  ASSUME HeartsIInv, NEW i \in DOMAIN posts, ServeToggle(i)
  PROVE  HeartsIInv'
  <1>1. UNCHANGED <<place, listed, hearts, load, pending, failed, presses, losses>>
    BY DEF ServeToggle
  <1>2. PICK p : p = posts[i].project
    OBVIOUS
  <1>3. HeartsTypeOK /\ Len(posts) \in Nat /\ DOMAIN posts = 1 .. Len(posts) /\ posts \in Seq(Post)
        /\ \A j \in DOMAIN posts : posts[j] \in Post
    BY PostFacts DEF HeartsIInv
  <1>4. p \in Projects /\ posts[i].reply = "none"
    BY <1>2, <1>3 DEF Post, ServeToggle
  <1>5. liked' = IF p \in liked THEN liked \ {p} ELSE liked \cup {p}
    BY <1>2 DEF ServeToggle
  <1>6. PICK reply : reply = IF p \in liked THEN "unliked" ELSE "liked"
    OBVIOUS
  <1>7. posts' = [posts EXCEPT ![i].reply = reply]
    BY <1>2, <1>6 DEF ServeToggle
  <1>8. PICK m : m = [posts[i] EXCEPT !.reply = reply]
    OBVIOUS
  <1>9. m \in Post /\ m.project = p /\ m.mounted = posts[i].mounted /\ m.reply = reply
    BY <1>2, <1>3, <1>6, <1>8 DEF Post
  <1>10. posts' = [posts EXCEPT ![i] = m]
    BY <1>7, <1>8
  <1>11. /\ posts' \in Seq(Post) /\ Len(posts') = Len(posts) /\ DOMAIN posts' = DOMAIN posts
         /\ posts'[i] = m
         /\ \A j \in DOMAIN posts \ {i} : posts'[j] = posts[j]
    BY <1>3, <1>9, <1>10
  <1>12. doubted' = IF \/ load.step = "answered"
                       \/ load.step = "done" /\ ~posts[i].mounted
                       \/ \E j \in DOMAIN posts \ {i} : posts[j].project = p
                    THEN doubted \cup {p} ELSE doubted
    BY <1>2 DEF ServeToggle
  <1>13. doubted \subseteq doubted'
    BY <1>12
  <1>14. \A q \in Projects \ {p} : q \in liked' <=> q \in liked
    BY <1>5
  <1>15. HeartsTypeOK'
    BY <1>1, <1>3, <1>4, <1>5, <1>11, <1>12 DEF HeartsTypeOK
  <1>16. LoadIsTrue'
    <2>1. SUFFICES ASSUME load.step = "answered", NEW q \in Projects \ doubted'
                   PROVE  (q \in load.liked => q \in liked') /\ (q \in listed \cap liked' => q \in load.liked)
      BY <1>1 DEF LoadIsTrue
    <2>2. q # p
      BY <1>12, <2>1
    <2>3. QED
      BY <1>13, <1>14, <2>1, <2>2 DEF HeartsIInv, LoadIsTrue
  <1>17. PageIsTrue'
    <2>1. SUFFICES ASSUME load.step = "done", ~failed, NEW q \in Projects \ doubted', NoAnswer(q)'
                   PROVE  (q \in hearts => q \in liked') /\ (q \in listed \cap liked' => q \in hearts)
      BY <1>1 DEF PageIsTrue
    <2>2. q # p
      <3>1. SUFFICES ASSUME q = p PROVE FALSE
        OBVIOUS
      <3>2. posts[i].mounted
        BY <1>12, <2>1, <3>1
      <3>3. m.reply = "none"
        BY <1>9, <1>11, <2>1, <3>1, <3>2 DEF NoAnswer
      <3>4. QED
        BY <1>6, <1>9, <3>3
    <2>3. NoAnswer(q)
      BY <1>2, <1>11, <2>1, <2>2 DEF NoAnswer
    <2>4. QED
      BY <1>13, <1>14, <2>1, <2>2, <2>3 DEF HeartsIInv, PageIsTrue
  <1>18. AnswersAreTrue'
    <2>1. SUFFICES ASSUME NEW j \in DOMAIN posts, posts'[j].mounted, posts'[j].project \notin doubted'
                   PROVE  /\ posts'[j].reply = "liked" => posts'[j].project \in liked'
                          /\ posts'[j].reply = "unliked" => posts'[j].project \notin liked'
                          /\ place = "likes" =>
                               posts'[j].reply # "liked" /\ (posts'[j].reply = "none" => posts'[j].project \in liked')
      BY <1>1, <1>11 DEF AnswersAreTrue
    <2>2. CASE j = i
      <3>1. p \notin doubted /\ posts[i].mounted
        BY <1>9, <1>11, <1>13, <2>1, <2>2
      <3>2. place = "likes" => p \in liked
        BY <1>2, <1>4, <3>1 DEF HeartsIInv, AnswersAreTrue
      <3>3. QED
        BY <1>4, <1>5, <1>6, <1>9, <1>11, <2>2, <3>2
    <2>3. CASE j # i
      <3>1. posts'[j] = posts[j] /\ posts[j] \in Post
        BY <1>3, <1>11, <2>3
      <3>2. posts[j].project # p
        BY <1>12, <2>1, <2>3, <3>1
      <3>3. posts[j].project \in Projects \ {p}
        BY <3>1, <3>2 DEF Post
      <3>4. posts[j].project \in liked' <=> posts[j].project \in liked
        BY <1>14, <3>3
      <3>5. QED
        BY <1>13, <2>1, <3>1, <3>4 DEF HeartsIInv, AnswersAreTrue
    <2>4. QED
      BY <2>2, <2>3
  <1>19. ButtonsAreDown'
    BY <1>1, <1>2, <1>9, <1>11 DEF HeartsIInv, ButtonsAreDown
  <1>20. FeedPressesOnce'
    BY <1>1, <1>2, <1>9, <1>11 DEF HeartsIInv, FeedPressesOnce
  <1>21. QED
    BY <1>15, <1>16, <1>17, <1>18, <1>19, <1>20 DEF HeartsIInv

\* A toggle that leaves takes nothing from what the others say.
LEMMA OthersStayTrue ==
  ASSUME HeartsIInv, NEW i \in DOMAIN posts, Without(i), UNCHANGED <<place, liked>>,
         doubted \subseteq doubted',
         place = "feed" =>
           \A q \in pending \ pending' : posts[i].mounted /\ posts[i].project = q
  PROVE  AnswersAreTrue' /\ ButtonsAreDown' /\ FeedPressesOnce'
  <1>1. HeartsTypeOK
    BY DEF HeartsIInv
  <1>2. /\ DOMAIN posts' = 1 .. Len(posts) - 1
        /\ \A j \in DOMAIN posts' : posts'[j] = IF j < i THEN posts[j] ELSE posts[j + 1]
        /\ \A j \in DOMAIN posts' : \E k \in DOMAIN posts : posts'[j] = posts[k]
    BY <1>1, WithoutEffect
  <1>3. Len(posts) \in Nat /\ DOMAIN posts = 1 .. Len(posts) /\ i \in Nat
    BY <1>1, PostFacts
  <1>4. AnswersAreTrue'
    BY <1>2 DEF HeartsIInv, AnswersAreTrue
  <1>5. \A j \in DOMAIN posts' : \E k \in DOMAIN posts \ {i} : posts'[j] = posts[k]
    <2>1. SUFFICES ASSUME NEW j \in DOMAIN posts'
                   PROVE  \E k \in DOMAIN posts \ {i} : posts'[j] = posts[k]
      OBVIOUS
    <2>2. CASE j < i
      BY <1>2, <1>3, <2>2
    <2>3. CASE ~ (j < i)
      <3>1. j + 1 \in DOMAIN posts \ {i}
        BY <1>2, <1>3, <2>3
      <3>2. QED
        BY <1>2, <2>3, <3>1
    <2>4. QED
      BY <2>2, <2>3
  <1>6. ButtonsAreDown'
    <2>1. SUFFICES ASSUME place = "feed", NEW j \in DOMAIN posts', posts'[j].mounted
                   PROVE  posts'[j].project \in pending'
      BY DEF ButtonsAreDown
    <2>2. PICK k \in DOMAIN posts \ {i} : posts'[j] = posts[k]
      BY <1>5
    <2>3. posts[k].project \in pending
      BY <2>1, <2>2 DEF HeartsIInv, ButtonsAreDown
    <2>4. posts[i].mounted => posts[i].project # posts[k].project
      BY <2>1, <2>2 DEF HeartsIInv, FeedPressesOnce
    <2>5. QED
      BY <2>1, <2>2, <2>3, <2>4
  <1>7. FeedPressesOnce'
    <2>1. SUFFICES ASSUME place = "feed", NEW j \in DOMAIN posts', NEW k \in DOMAIN posts',
                          posts'[j].mounted, posts'[k].mounted, posts'[j].project = posts'[k].project
                   PROVE  j = k
      BY DEF FeedPressesOnce
    <2>2. /\ j \in Nat /\ k \in Nat /\ j \in DOMAIN posts /\ k \in DOMAIN posts
          /\ j + 1 \in DOMAIN posts /\ k + 1 \in DOMAIN posts
      BY <1>2, <1>3
    <2>3. PICK a \in DOMAIN posts : a = IF j < i THEN j ELSE j + 1
      BY <2>2
    <2>4. PICK b \in DOMAIN posts : b = IF k < i THEN k ELSE k + 1
      BY <2>2
    <2>5. posts'[j] = posts[a] /\ posts'[k] = posts[b]
      BY <1>2, <2>3, <2>4
    <2>6. a = b
      BY <2>1, <2>5 DEF HeartsIInv, FeedPressesOnce
    <2>7. QED
      BY <1>3, <2>2, <2>3, <2>4, <2>6
  <1>8. QED
    BY <1>4, <1>6, <1>7

LEMMA TakeToggleStep ==
  ASSUME HeartsIInv, NEW i \in DOMAIN posts, TakeToggle(i)
  PROVE  HeartsIInv'
  <1>1. /\ UNCHANGED <<place, listed, liked, load, failed, presses, losses, doubted>>
        /\ Without(i) /\ posts[i].reply # "none"
    BY DEF TakeToggle
  <1>2. HeartsTypeOK /\ posts[i] \in Post /\ place \in {"feed", "likes"}
    BY PostFacts DEF HeartsIInv, HeartsTypeOK
  <1>3. PICK p \in Projects : p = posts[i].project
    BY <1>2 DEF Post
  <1>4. \/ posts[i].mounted /\ hearts' = Believed(i) /\ pending' = Released(p)
        \/ ~ posts[i].mounted /\ UNCHANGED <<hearts, pending>>
    BY <1>3 DEF TakeToggle
  <1>5. hearts' \subseteq Projects /\ pending' \subseteq Projects
    BY <1>2, <1>3, <1>4 DEF HeartsTypeOK, Believed, Released
  <1>6. /\ posts' \in Seq(Post) /\ Len(posts') <= MaxPosts
        /\ \A k \in DOMAIN posts \ {i} : \E j \in DOMAIN posts' : posts'[j] = posts[k]
    BY <1>1, <1>2, WithoutEffect
  <1>7. HeartsTypeOK'
    BY <1>1, <1>2, <1>5, <1>6 DEF HeartsTypeOK
  <1>8. LoadIsTrue'
    BY <1>1 DEF HeartsIInv, LoadIsTrue
  <1>9. PageIsTrue'
    <2>1. SUFFICES ASSUME load.step = "done", ~failed, NEW q \in Projects \ doubted, NoAnswer(q)'
                   PROVE  (q \in hearts' => q \in liked) /\ (q \in listed \cap liked => q \in hearts')
      BY <1>1 DEF PageIsTrue
    <2>2. CASE q = p /\ posts[i].mounted
      <3>1. /\ posts[i].reply = "liked" => p \in liked
            /\ posts[i].reply = "unliked" => p \notin liked
            /\ place = "likes" => posts[i].reply # "liked"
        BY <1>3, <2>1, <2>2 DEF HeartsIInv, AnswersAreTrue
      <3>2. posts[i].reply \in {"liked", "unliked"}
        BY <1>1, <1>2 DEF Post
      <3>3. QED
        BY <1>2, <1>3, <1>4, <2>2, <3>1, <3>2 DEF Believed
    <2>3. CASE ~ (q = p /\ posts[i].mounted)
      <3>1. NoAnswer(q)
        BY <1>3, <1>6, <2>1, <2>3 DEF NoAnswer
      <3>2. q \in hearts' <=> q \in hearts
        BY <1>3, <1>4, <2>3 DEF Believed
      <3>3. QED
        BY <2>1, <3>1, <3>2 DEF HeartsIInv, PageIsTrue
    <2>4. QED
      BY <2>2, <2>3
  <1>10. place = "feed" => \A q \in pending \ pending' : posts[i].mounted /\ posts[i].project = q
    BY <1>3, <1>4 DEF Released
  <1>11. AnswersAreTrue' /\ ButtonsAreDown' /\ FeedPressesOnce'
    BY <1>1, <1>10, OthersStayTrue
  <1>12. QED
    BY <1>7, <1>8, <1>9, <1>11 DEF HeartsIInv

LEMMA LoseToggleStep ==
  ASSUME HeartsIInv, NEW i \in DOMAIN posts, LoseToggle(i)
  PROVE  HeartsIInv'
  <1>1. /\ UNCHANGED <<place, listed, liked, hearts, load, presses>>
        /\ Without(i)
    BY DEF LoseToggle
  <1>2. HeartsTypeOK /\ posts[i] \in Post /\ place \in {"feed", "likes"}
    BY PostFacts DEF HeartsIInv, HeartsTypeOK
  <1>3. PICK p \in Projects : p = posts[i].project
    BY <1>2 DEF Post
  <1>4. \/ posts[i].mounted /\ pending' = Released(p)
        \/ ~ posts[i].mounted /\ UNCHANGED pending
    BY <1>3 DEF LoseToggle
  <1>5. failed' \in BOOLEAN /\ (failed => failed')
    <2>1. CASE posts[i].mounted
      BY <2>1 DEF LoseToggle
    <2>2. CASE ~ posts[i].mounted
      BY <1>2, <2>2 DEF LoseToggle, HeartsTypeOK
    <2>3. QED
      BY <2>1, <2>2
  <1>6. doubted' = IF posts[i].reply # "none" THEN doubted \cup {p} ELSE doubted
    BY <1>3 DEF LoseToggle
  <1>7. losses' \in 0 .. MaxLosses
    BY <1>2, HeartsAssumption DEF LoseToggle, Lost, HeartsTypeOK
  <1>8. /\ posts' \in Seq(Post) /\ Len(posts') <= MaxPosts
        /\ \A k \in DOMAIN posts \ {i} : \E j \in DOMAIN posts' : posts'[j] = posts[k]
    BY <1>1, <1>2, WithoutEffect
  <1>9. doubted' \subseteq Projects /\ pending' \subseteq Projects
    BY <1>2, <1>4, <1>6 DEF HeartsTypeOK, Released
  <1>10. HeartsTypeOK'
    BY <1>1, <1>2, <1>5, <1>7, <1>8, <1>9 DEF HeartsTypeOK
  <1>11. LoadIsTrue'
    BY <1>1, <1>6 DEF HeartsIInv, LoadIsTrue
  <1>12. PageIsTrue'
    <2>1. SUFFICES ASSUME load.step = "done", ~failed, NEW q \in Projects \ doubted', NoAnswer(q)'
                   PROVE  (q \in hearts => q \in liked) /\ (q \in listed \cap liked => q \in hearts)
      BY <1>1, <1>5 DEF PageIsTrue
    <2>2. q \in Projects \ doubted /\ (q = p => posts[i].reply = "none")
      BY <1>6, <2>1
    <2>3. NoAnswer(q)
      BY <1>3, <1>8, <2>1, <2>2 DEF NoAnswer
    <2>4. QED
      BY <2>1, <2>2, <2>3 DEF HeartsIInv, PageIsTrue
  <1>13. place = "feed" => \A q \in pending \ pending' : posts[i].mounted /\ posts[i].project = q
    BY <1>3, <1>4 DEF Released
  <1>14. AnswersAreTrue' /\ ButtonsAreDown' /\ FeedPressesOnce'
    BY <1>1, <1>6, <1>13, OthersStayTrue
  <1>15. QED
    BY <1>10, <1>11, <1>12, <1>14 DEF HeartsIInv

LEMMA VisitStep ==
  ASSUME HeartsIInv, NEW where \in {"feed", "likes"}, Visit(where)
  PROVE  HeartsIInv'
  <1>1. /\ place' = where /\ UNCHANGED <<listed, liked, losses>>
        /\ hearts' = {} /\ load' = Asked /\ pending' = {} /\ doubted' = {}
        /\ posts' = [i \in DOMAIN posts |-> [posts[i] EXCEPT !.mounted = FALSE]]
    BY DEF Visit
  <1>2. HeartsTypeOK /\ Len(posts) \in Nat /\ DOMAIN posts = 1 .. Len(posts)
        /\ \A i \in DOMAIN posts : posts[i] \in Post
    BY PostFacts DEF HeartsIInv
  <1>3. \A i \in DOMAIN posts : posts'[i] \in Post /\ ~ posts'[i].mounted
    BY <1>1, <1>2 DEF Post
  <1>4. posts' \in [1 .. Len(posts) -> Post]
    BY <1>1, <1>2, <1>3
  <1>5. posts' \in Seq(Post) /\ Len(posts') = Len(posts) /\ DOMAIN posts' = DOMAIN posts
    BY <1>2, <1>4
  <1>6. failed' \in BOOLEAN
    BY DEF Visit
  <1>7. presses' \in 0 .. MaxPresses
    BY <1>2, HeartsAssumption DEF Visit, Spend, HeartsTypeOK
  <1>8. HeartsTypeOK'
    BY <1>1, <1>2, <1>5, <1>6, <1>7 DEF HeartsTypeOK, Load, Asked
  <1>9. LoadIsTrue' /\ PageIsTrue'
    BY <1>1 DEF LoadIsTrue, PageIsTrue, Asked
  <1>10. AnswersAreTrue' /\ ButtonsAreDown' /\ FeedPressesOnce'
    BY <1>3, <1>5 DEF AnswersAreTrue, ButtonsAreDown, FeedPressesOnce
  <1>11. QED
    BY <1>8, <1>9, <1>10 DEF HeartsIInv

LEMMA HeartsNextHolds ==
  ASSUME HeartsIInv, HeartsNext \/ UNCHANGED heartVars
  PROVE  HeartsIInv'
  <1>1. CASE ServeLikes \/ TakeLikes \/ LoseLikes
    BY <1>1, ServeLikesStep, TakeLikesStep, LoseLikesStep
  <1>2. CASE \E p \in Projects : PressHeart(p) \/ ArchiveProject(p)
    BY <1>2, PressHeartStep, ArchiveProjectStep
  <1>3. CASE \E i \in DOMAIN posts : ServeToggle(i) \/ TakeToggle(i) \/ LoseToggle(i)
    BY <1>3, ServeToggleStep, TakeToggleStep, LoseToggleStep
  <1>4. CASE \E where \in {"feed", "likes"} : Visit(where)
    BY <1>4, VisitStep
  <1>5. CASE UNCHANGED heartVars
    <2>1. UNCHANGED <<place, listed, liked, hearts, load, pending, failed, posts, presses, losses, doubted>>
      BY <1>5 DEF heartVars
    <2>2. HeartsTypeOK' /\ LoadIsTrue' /\ PageIsTrue'
      BY <2>1 DEF HeartsIInv, HeartsTypeOK, LoadIsTrue, PageIsTrue, NoAnswer
    <2>3. AnswersAreTrue' /\ ButtonsAreDown' /\ FeedPressesOnce'
      BY <2>1 DEF HeartsIInv, AnswersAreTrue, ButtonsAreDown, FeedPressesOnce
    <2>4. QED
      BY <2>2, <2>3 DEF HeartsIInv
  <1>6. QED
    BY <1>1, <1>2, <1>3, <1>4, <1>5 DEF HeartsNext

LEMMA HeartsInvFollows ==
  ASSUME HeartsIInv
  PROVE  HeartsInv
  <1>1. HeartsAreTrue
    <2>1. SUFFICES ASSUME load.step = "done", ~failed, posts = <<>>
                   PROVE  (hearts \cap listed) \ doubted = (liked \cap listed) \ doubted
      BY DEF HeartsAreTrue
    <2>2. \A p : NoAnswer(p)
      BY <2>1 DEF NoAnswer
    <2>3. liked \subseteq Projects /\ listed \subseteq Projects
      BY DEF HeartsIInv, HeartsTypeOK
    <2>4. QED
      BY <2>1, <2>2, <2>3 DEF HeartsIInv, PageIsTrue
  <1>2. QED
    BY <1>1 DEF HeartsIInv, HeartsInv

-----------------------------------------------------------------------------
\* The list.  Unless there was an error or replies went astray, the youngest request
\* is out for what is wanted, or that is shown, or the URL is about to change.
AskedForWanted ==
  LET youngest == wire[Len(wire)] IN
  wire # <<>> /\ youngest.alive /\ ~youngest.late /\ youngest.list = Wanted

ListFollows ==
  ~error /\ ~astray => AskedForWanted \/ shown = Wanted \/ going \notin {Nothing, url}

\* On /projects only the youngest request is alive, and the page is loading; the
\* feed cancels none.
EffectsCancelled ==
  /\ ~feed => \A i \in DOMAIN wire : wire[i].alive => i = Len(wire) /\ loading
  /\ feed => \A i \in DOMAIN wire : wire[i].alive

\* A request that is late has only late ones before it, and the youngest, unless it
\* is late, is for what is wanted.
RepliesInOrder ==
  /\ \A i, j \in DOMAIN wire : i < j /\ wire[j].late => wire[i].late
  /\ wire # <<>> /\ wire[Len(wire)].alive /\ ~wire[Len(wire)].late => wire[Len(wire)].list = Wanted

ListIInv == BrowseTypeOK /\ ListFollows /\ EffectsCancelled /\ RepliesInOrder

\* What the types say of the requests in flight.
LEMMA WireFacts ==
  ASSUME BrowseTypeOK
  PROVE  /\ Len(wire) \in Nat /\ DOMAIN wire = 1 .. Len(wire) /\ wire \in Seq(Ask)
         /\ \A i \in DOMAIN wire : wire[i] \in Ask
  BY DEF BrowseTypeOK

\* A request that is made is in the domain.
LEMMA RequestTyped ==
  ASSUME NEW f \in Filters, NEW u \in Url
  PROVE  /\ Request(f, u) \in Ask /\ Request(f, u).alive /\ ~Request(f, u).late
         /\ Request(f, u).list = [filter |-> f, url |-> u]
  BY BrowseAssumption DEF Request, Ask, List

\* The effect runs: the youngest request is for what is wanted.
LEMMA AskEffect ==
  ASSUME ListIInv, NEW f \in Filters, NEW u \in Url, AskAgain(f, u),
         filter' = f, url' = u, UNCHANGED feed
  PROVE  /\ wire' \in Seq(Ask) /\ Len(wire') <= MaxWire
         /\ loading' \in BOOLEAN /\ error' \in BOOLEAN
         /\ EffectsCancelled' /\ RepliesInOrder' /\ AskedForWanted'
  <1>1. BrowseTypeOK /\ Len(wire) \in Nat /\ DOMAIN wire = 1 .. Len(wire)
        /\ \A i \in DOMAIN wire : wire[i] \in Ask
    BY WireFacts DEF ListIInv
  <1>2. PICK m : m = [i \in DOMAIN wire |-> [wire[i] EXCEPT !.alive = feed]]
    OBVIOUS
  <1>3. PICK r : r = Request(f, u)
    OBVIOUS
  <1>4. r \in Ask /\ r.alive /\ ~r.late /\ r.list = [filter |-> f, url |-> u]
    BY <1>3, RequestTyped
  <1>5. wire' = Append(m, r) /\ Len(wire) < MaxWire /\ loading' = TRUE /\ error' = FALSE
    BY <1>2, <1>3 DEF AskAgain
  <1>6. feed \in BOOLEAN
    BY <1>1 DEF BrowseTypeOK
  <1>7. \A i \in DOMAIN wire : m[i] \in Ask /\ m[i].late = wire[i].late /\ m[i].alive = feed
    BY <1>1, <1>2, <1>6 DEF Ask
  <1>8. m \in [1 .. Len(wire) -> Ask]
    BY <1>1, <1>2, <1>7
  <1>9. m \in Seq(Ask) /\ Len(m) = Len(wire)
    BY <1>1, <1>8
  <1>10. /\ wire' \in Seq(Ask) /\ Len(wire') = Len(wire) + 1 /\ DOMAIN wire' = 1 .. Len(wire) + 1
         /\ \A i \in DOMAIN wire : wire'[i] = m[i]
         /\ wire'[Len(wire) + 1] = r
    BY <1>1, <1>4, <1>5, <1>9
  <1>11. Len(wire') <= MaxWire
    BY <1>1, <1>5, <1>10, BrowseAssumption
  <1>12. \A i \in DOMAIN wire' : i \in DOMAIN wire \/ i = Len(wire) + 1
    BY <1>1, <1>10
  <1>13. wire' # <<>>
    BY <1>1, <1>10
  <1>14. r.list = Wanted'
    BY <1>4 DEF Wanted
  <1>15. EffectsCancelled'
    BY <1>4, <1>5, <1>7, <1>10, <1>12 DEF EffectsCancelled
  <1>16. RepliesInOrder'
    <2>1. ASSUME NEW i \in DOMAIN wire', NEW j \in DOMAIN wire', i < j, wire'[j].late
          PROVE  wire'[i].late
      <3>1. j \in DOMAIN wire
        BY <1>4, <1>10, <1>12, <2>1
      <3>2. i \in DOMAIN wire
        BY <1>1, <1>10, <2>1, <3>1
      <3>3. QED
        BY <1>7, <1>10, <2>1, <3>1, <3>2 DEF ListIInv, RepliesInOrder
    <2>2. QED
      BY <1>10, <1>14, <2>1 DEF RepliesInOrder
  <1>17. AskedForWanted'
    BY <1>4, <1>10, <1>13, <1>14 DEF AskedForWanted
  <1>18. QED
    BY <1>5, <1>10, <1>11, <1>15, <1>16, <1>17

\* A reply comes: the requests before it are late.
LEMMA AnsweredEffect ==
  ASSUME ListIInv, NEW i \in DOMAIN wire, Answered(i), UNCHANGED <<feed, filter, url>>,
         loading' = loading \/ wire[i].alive
  PROVE  /\ wire' \in Seq(Ask) /\ Len(wire') <= MaxWire /\ astray' \in BOOLEAN
         /\ EffectsCancelled' /\ RepliesInOrder'
         /\ i # Len(wire) => wire' # <<>> /\ wire'[Len(wire')] = wire[Len(wire)]
         /\ ~astray' => ~astray /\ ~(wire[i].alive /\ wire[i].late)
  <1>1. BrowseTypeOK /\ Len(wire) \in Nat /\ i \in 1 .. Len(wire) /\ DOMAIN wire = 1 .. Len(wire)
        /\ \A j \in DOMAIN wire : wire[j] \in Ask
    BY WireFacts DEF ListIInv
  <1>2. wire' = [j \in 1 .. Len(wire) - 1 |->
                   IF j < i THEN [wire[j] EXCEPT !.late = TRUE] ELSE wire[j + 1]]
    BY DEF Answered
  <1>3. \A j \in 1 .. Len(wire) - 1 :
          /\ j < i => wire'[j] \in Ask /\ wire'[j].late /\ wire'[j].alive = wire[j].alive
          /\ ~(j < i) => wire'[j] = wire[j + 1] /\ j + 1 \in DOMAIN wire
    <2>1. SUFFICES ASSUME NEW j \in 1 .. Len(wire) - 1
                   PROVE  /\ j < i => wire'[j] \in Ask /\ wire'[j].late /\ wire'[j].alive = wire[j].alive
                          /\ ~(j < i) => wire'[j] = wire[j + 1] /\ j + 1 \in DOMAIN wire
      OBVIOUS
    <2>2. j \in DOMAIN wire /\ j + 1 \in DOMAIN wire /\ wire[j] \in Ask
      BY <1>1, <2>1
    <2>3. PICK m : m = [wire[j] EXCEPT !.late = TRUE]
      OBVIOUS
    <2>4. m \in Ask /\ m.late /\ m.alive = wire[j].alive
      BY <2>2, <2>3 DEF Ask
    <2>5. wire'[j] = IF j < i THEN m ELSE wire[j + 1]
      BY <1>2, <2>1, <2>3
    <2>6. QED
      BY <2>2, <2>4, <2>5
  <1>4. wire' \in [1 .. Len(wire) - 1 -> Ask] /\ Len(wire) - 1 \in Nat
    BY <1>1, <1>2, <1>3
  <1>5. wire' \in Seq(Ask) /\ Len(wire') = Len(wire) - 1 /\ DOMAIN wire' = 1 .. Len(wire) - 1
    <2>1. PICK n \in Nat : n = Len(wire) - 1
      BY <1>4
    <2>2. PICK w \in [1 .. n -> Ask] : w = wire'
      BY <1>4, <2>1
    <2>3. w \in Seq(Ask) /\ Len(w) = n /\ DOMAIN w = 1 .. n
      OBVIOUS
    <2>4. QED
      BY <2>1, <2>2, <2>3
  <1>6. Len(wire') <= MaxWire
    BY <1>1, <1>5, BrowseAssumption DEF BrowseTypeOK
  <1>7. astray' \in BOOLEAN /\ (~astray' => ~astray /\ ~(wire[i].alive /\ wire[i].late))
    BY DEF Answered
  <1>8. EffectsCancelled'
    <2>1. CASE feed
      BY <1>1, <1>3, <1>5, <2>1 DEF ListIInv, EffectsCancelled
    <2>2. CASE ~feed
      <3>1. SUFFICES ASSUME NEW j \in DOMAIN wire', wire'[j].alive
                     PROVE  j = Len(wire') /\ loading'
        BY <2>2 DEF EffectsCancelled
      <3>2. ~(j < i)
        BY <1>1, <1>3, <1>5, <2>2, <3>1 DEF ListIInv, EffectsCancelled
      <3>3. j + 1 \in DOMAIN wire /\ wire[j + 1].alive
        BY <1>3, <1>5, <3>1, <3>2
      <3>4. j + 1 = Len(wire) /\ loading
        BY <2>2, <3>3 DEF ListIInv, EffectsCancelled
      <3>5. ~ wire[i].alive
        BY <1>1, <1>5, <2>2, <3>1, <3>2, <3>4 DEF ListIInv, EffectsCancelled
      <3>6. loading' = loading
        BY <3>5
      <3>7. j = Len(wire')
        BY <1>1, <1>5, <3>1, <3>4
      <3>8. QED
        BY <3>4, <3>6, <3>7
    <2>3. QED
      BY <2>1, <2>2
  <1>9. i # Len(wire) => wire' # <<>> /\ wire'[Len(wire')] = wire[Len(wire)]
    <2>1. SUFFICES ASSUME i # Len(wire) PROVE wire' # <<>> /\ wire'[Len(wire')] = wire[Len(wire)]
      OBVIOUS
    <2>2. Len(wire') \in 1 .. Len(wire) - 1 /\ ~ (Len(wire') < i) /\ Len(wire') + 1 = Len(wire)
      BY <1>1, <1>5, <2>1
    <2>3. QED
      BY <1>3, <2>2
  <1>10. RepliesInOrder'
    <2>1. ASSUME NEW j \in DOMAIN wire', NEW k \in DOMAIN wire', j < k, wire'[k].late
          PROVE  wire'[j].late
      <3>1. CASE j < i
        BY <1>3, <1>5, <3>1
      <3>2. CASE ~ (j < i)
        <4>1. wire'[j] = wire[j + 1] /\ wire'[k] = wire[k + 1]
              /\ j + 1 \in DOMAIN wire /\ k + 1 \in DOMAIN wire /\ j + 1 < k + 1
          BY <1>1, <1>3, <1>5, <2>1, <3>2
        <4>2. QED
          BY <2>1, <4>1 DEF ListIInv, RepliesInOrder
      <3>3. QED
        BY <3>1, <3>2
    <2>2. ASSUME wire' # <<>>, wire'[Len(wire')].alive, ~ wire'[Len(wire')].late
          PROVE  wire'[Len(wire')].list = Wanted'
      <3>1. Len(wire') \in 1 .. Len(wire) - 1
        BY <1>1, <1>5, <2>2
      <3>2. i # Len(wire)
        BY <1>1, <1>3, <1>5, <2>2, <3>1
      <3>3. wire'[Len(wire')] = wire[Len(wire)] /\ wire # <<>>
        BY <1>1, <1>9, <3>2
      <3>4. QED
        BY <2>2, <3>3 DEF ListIInv, RepliesInOrder, Wanted
    <2>3. QED
      BY <2>1, <2>2 DEF RepliesInOrder
  <1>11. QED
    BY <1>5, <1>6, <1>7, <1>8, <1>9, <1>10

LEMMA ListInitHolds ==
  ASSUME BrowseInit
  PROVE  ListIInv
  <1>1. going = Nothing /\ error = FALSE /\ moves = 0 /\ changes = 0 /\ faults = 0
        /\ astray = FALSE /\ deed \in Deeds
    BY DEF BrowseInit
  <1>2. moves \in 0 .. MaxMoves /\ changes \in 0 .. MaxChanges /\ faults \in 0 .. MaxFaults
    BY <1>1, BrowseAssumption
  <1>3. CASE ListInit
    <2>1. /\ feed \in BOOLEAN /\ pages \in [Filters \X Queries -> 1 .. MaxPage]
          /\ filter \in Filters /\ url \in Url
          /\ shown = NothingShown /\ loading = TRUE
      BY <1>3 DEF ListInit
    <2>2. PICK r : r = Request(filter, url)
      OBVIOUS
    <2>3. wire = <<r>>
      BY <1>3, <2>2 DEF ListInit
    <2>4. r \in Ask /\ r.alive /\ ~r.late /\ r.list = Wanted
      BY <2>1, <2>2, RequestTyped DEF Wanted
    <2>5. wire \in Seq(Ask) /\ Len(wire) = 1 /\ DOMAIN wire = {1} /\ wire[1] = r /\ wire # <<>>
      BY <2>3, <2>4
    <2>6. Len(wire) <= MaxWire
      BY <2>5, BrowseAssumption
    <2>7. BrowseTypeOK
      BY <1>1, <1>2, <2>1, <2>5, <2>6 DEF BrowseTypeOK
    <2>8. QED
      BY <2>1, <2>4, <2>5, <2>7
      DEF ListIInv, ListFollows, AskedForWanted, EffectsCancelled, RepliesInOrder
  <1>4. CASE ListLoaded
    <2>1. /\ feed = TRUE /\ pages = [l \in Filters \X Queries |-> 1]
          /\ wire = <<>> /\ shown = [filter |-> filter, url |-> url] /\ loading = FALSE
      BY <1>4 DEF ListLoaded
    <2>2. filter \in Filters
      BY <1>4, BrowseAssumption DEF ListLoaded
    <2>3. PICK q : q = CHOOSE x \in Queries : TRUE
      OBVIOUS
    <2>4. q \in Queries
      BY <2>3, BrowseAssumption
    <2>5. url = [query |-> q, page |-> 1]
      BY <1>4, <2>3 DEF ListLoaded
    <2>6. 1 \in 1 .. MaxPage
      BY BrowseAssumption
    <2>7. url \in Url
      BY <2>4, <2>5, <2>6 DEF Url
    <2>8. pages \in [Filters \X Queries -> 1 .. MaxPage]
      BY <2>1, <2>6
    <2>9. wire \in Seq(Ask) /\ Len(wire) = 0 /\ DOMAIN wire = {}
      BY <2>1
    <2>10. Len(wire) <= MaxWire
      BY <2>9, BrowseAssumption
    <2>11. shown \in List
      BY <2>1, <2>2, <2>7 DEF List
    <2>12. BrowseTypeOK
      BY <1>1, <1>2, <2>1, <2>2, <2>7, <2>8, <2>9, <2>10, <2>11 DEF BrowseTypeOK
    <2>13. QED
      BY <2>1, <2>9, <2>12 DEF ListIInv, ListFollows, Wanted, EffectsCancelled, RepliesInOrder
  <1>5. QED
    BY <1>3, <1>4 DEF BrowseInit

\* A page number that is put right is in another URL.
LEMMA PutRight ==
  ASSUME NEW u \in Url, NEW p \in 1 .. MaxPage, NEW w \in Url, w.page # p \/ w.query # u.query
  PROVE  [u EXCEPT !.page = p] \in Url /\ [u EXCEPT !.page = p] \notin {Nothing, w}
  <1>1. PICK v : v = [u EXCEPT !.page = p]
    OBVIOUS
  <1>2. v \in Url /\ v.page = p /\ v.query = u.query
    BY <1>1 DEF Url
  <1>3. Nothing \notin Url
    BY BrowseAssumption DEF Url
  <1>4. QED
    BY <1>1, <1>2, <1>3

LEMMA ChooseFilterStep ==
  ASSUME ListIInv, NEW f \in Filters, ChooseFilter(f)
  PROVE  ListIInv'
  <1>1. BrowseTypeOK /\ url \in Url
    BY DEF ListIInv, BrowseTypeOK
  <1>2. /\ filter' = f /\ AskAgain(f, url) /\ url' = url
        /\ UNCHANGED <<deed, feed, pages, shown, changes, faults, astray>>
    BY DEF ChooseFilter, fixed
  <1>3. /\ wire' \in Seq(Ask) /\ Len(wire') <= MaxWire
        /\ loading' \in BOOLEAN /\ error' \in BOOLEAN
        /\ EffectsCancelled' /\ RepliesInOrder' /\ AskedForWanted'
    BY <1>1, <1>2, AskEffect
  <1>4. going' \in Url
    BY <1>1, BrowseAssumption DEF ChooseFilter, Url
  <1>5. moves' \in 0 .. MaxMoves
    BY <1>1, BrowseAssumption DEF ChooseFilter, Move, BrowseTypeOK
  <1>6. BrowseTypeOK'
    BY <1>1, <1>2, <1>3, <1>4, <1>5 DEF BrowseTypeOK
  <1>7. QED
    BY <1>3, <1>6 DEF ListIInv, ListFollows

LEMMA NavigateStep ==
  ASSUME ListIInv, Navigate
  PROVE  ListIInv'
  <1>1. BrowseTypeOK /\ going \in Url /\ filter \in Filters
    BY DEF ListIInv, BrowseTypeOK, Navigate
  <1>2. /\ going' = Nothing /\ url' = going
        /\ UNCHANGED <<deed, feed, pages, filter, shown, moves, changes, faults, astray>>
    BY DEF Navigate, fixed, counts
  <1>3. CASE url' = url
    <2>1. UNCHANGED <<wire, loading, error, url>>
      BY <1>3 DEF Navigate
    <2>2. BrowseTypeOK'
      BY <1>1, <1>2, <2>1 DEF BrowseTypeOK
    <2>3. EffectsCancelled' /\ RepliesInOrder'
      BY <1>2, <2>1 DEF ListIInv, EffectsCancelled, RepliesInOrder, Wanted
    <2>4. ListFollows'
      BY <1>2, <2>1 DEF ListIInv, ListFollows, AskedForWanted, Wanted
    <2>5. QED
      BY <2>2, <2>3, <2>4 DEF ListIInv
  <1>4. CASE url' # url
    <2>1. PICK u \in Url : u = going
      BY <1>1
    <2>2. AskAgain(filter, u) /\ url' = u
      BY <1>2, <1>4, <2>1 DEF Navigate
    <2>3. /\ wire' \in Seq(Ask) /\ Len(wire') <= MaxWire
          /\ loading' \in BOOLEAN /\ error' \in BOOLEAN
          /\ EffectsCancelled' /\ RepliesInOrder' /\ AskedForWanted'
      BY <1>1, <1>2, <2>2, AskEffect
    <2>4. BrowseTypeOK'
      BY <1>1, <1>2, <2>2, <2>3 DEF BrowseTypeOK
    <2>5. QED
      BY <2>3, <2>4 DEF ListIInv, ListFollows
  <1>5. QED
    BY <1>3, <1>4

LEMMA SearchStep ==
  ASSUME ListIInv, NEW q \in Queries, Search(q)
  PROVE  ListIInv'
  <1>1. BrowseTypeOK /\ url \in Url
    BY DEF ListIInv, BrowseTypeOK
  <1>2. /\ UNCHANGED <<deed, feed, pages, filter, url, wire, shown, loading, error, changes, faults, astray>>
        /\ going' = [query |-> q, page |-> 1] /\ q # url.query
    BY DEF Search, fixed
  <1>3. going' \in Url
    BY <1>2, BrowseAssumption DEF Url
  <1>4. going' \notin {Nothing, url}
    BY <1>2, <1>3, BrowseAssumption DEF Url
  <1>5. moves' \in 0 .. MaxMoves
    BY <1>1, BrowseAssumption DEF Search, Move, BrowseTypeOK
  <1>6. BrowseTypeOK'
    BY <1>1, <1>2, <1>3, <1>5 DEF BrowseTypeOK
  <1>7. EffectsCancelled' /\ RepliesInOrder'
    BY <1>2 DEF ListIInv, EffectsCancelled, RepliesInOrder, Wanted
  <1>8. ListFollows'
    BY <1>2, <1>4 DEF ListFollows
  <1>9. QED
    BY <1>6, <1>7, <1>8 DEF ListIInv

LEMMA TurnStep ==
  ASSUME ListIInv, NEW p \in 1 .. MaxPage, Turn(p)
  PROVE  ListIInv'
  <1>1. BrowseTypeOK /\ url \in Url
    BY DEF ListIInv, BrowseTypeOK
  <1>2. /\ UNCHANGED <<deed, feed, pages, filter, url, wire, shown, loading, error, changes, faults>>
        /\ going' = [url EXCEPT !.page = p]
    BY DEF Turn, fixed
  <1>3. astray' \in BOOLEAN /\ (~astray' => ~astray /\ (p # url.page \/ going = Nothing))
    BY DEF Turn
  <1>4. going' \in Url
    BY <1>1, <1>2 DEF Url
  <1>5. moves' \in 0 .. MaxMoves
    BY <1>1, BrowseAssumption DEF Turn, Move, BrowseTypeOK
  <1>6. BrowseTypeOK'
    BY <1>1, <1>2, <1>3, <1>4, <1>5 DEF BrowseTypeOK
  <1>7. EffectsCancelled' /\ RepliesInOrder'
    BY <1>2 DEF ListIInv, EffectsCancelled, RepliesInOrder, Wanted
  <1>8. ListFollows'
    <2>1. CASE p # url.page
      <3>1. going' \notin {Nothing, url}
        BY <1>1, <1>2, <2>1, PutRight
      <3>2. QED
        BY <1>2, <3>1 DEF ListFollows
    <2>2. CASE p = url.page
      BY <1>2, <1>3, <2>2 DEF ListIInv, ListFollows, AskedForWanted, Wanted
    <2>3. QED
      BY <2>1, <2>2
  <1>9. QED
    BY <1>6, <1>7, <1>8 DEF ListIInv

LEMMA ProjectsChangeStep ==
  ASSUME ListIInv, NEW f \in Filters, NEW q \in Queries, NEW n \in 1 .. MaxPage, ProjectsChange(f, q, n)
  PROVE  ListIInv'
  <1>1. BrowseTypeOK
    BY DEF ListIInv
  <1>2. UNCHANGED <<deed, feed, filter, url, going, shown, loading, error, wire, moves, faults, astray>>
    BY DEF ProjectsChange, fixed, page
  <1>3. pages' \in [Filters \X Queries -> 1 .. MaxPage]
    BY <1>1 DEF ProjectsChange, BrowseTypeOK
  <1>4. changes' \in 0 .. MaxChanges
    BY <1>1, BrowseAssumption DEF ProjectsChange, BrowseTypeOK
  <1>5. BrowseTypeOK'
    BY <1>1, <1>2, <1>3, <1>4 DEF BrowseTypeOK
  <1>6. QED
    BY <1>2, <1>5
    DEF ListIInv, EffectsCancelled, RepliesInOrder, ListFollows, AskedForWanted, Wanted

LEMMA ServeStep ==
  ASSUME ListIInv, NEW i \in DOMAIN wire, Serve(i)
  PROVE  ListIInv'
  <1>1. BrowseTypeOK /\ Len(wire) \in Nat /\ DOMAIN wire = 1 .. Len(wire) /\ wire \in Seq(Ask)
        /\ \A j \in DOMAIN wire : wire[j] \in Ask
    BY WireFacts DEF ListIInv
  <1>2. UNCHANGED <<deed, feed, pages, filter, url, going, shown, loading, error, moves, changes, faults, astray>>
    BY DEF Serve, fixed, page, counts
  <1>3. PICK n : n = pages[<<wire[i].list.filter, wire[i].list.url.query>>]
    OBVIOUS
  <1>4. n \in 0 .. MaxPage
    <2>1. wire[i].list.filter \in Filters /\ wire[i].list.url.query \in Queries
      BY <1>1 DEF Ask, List, Url
    <2>2. n \in 1 .. MaxPage
      BY <1>1, <1>3, <2>1 DEF BrowseTypeOK
    <2>3. QED
      BY <2>2, BrowseAssumption
  <1>5. PICK m : m = [wire[i] EXCEPT !.pages = n]
    OBVIOUS
  <1>6. m \in Ask /\ m.alive = wire[i].alive /\ m.late = wire[i].late /\ m.list = wire[i].list
    BY <1>1, <1>4, <1>5 DEF Ask
  <1>7. wire' = [wire EXCEPT ![i] = m]
    BY <1>3, <1>5 DEF Serve
  <1>8. wire' \in Seq(Ask) /\ Len(wire') = Len(wire) /\ DOMAIN wire' = DOMAIN wire
    BY <1>1, <1>6, <1>7
  <1>9. \A j \in DOMAIN wire : /\ wire'[j].alive = wire[j].alive /\ wire'[j].late = wire[j].late
                               /\ wire'[j].list = wire[j].list
    BY <1>1, <1>6, <1>7
  <1>10. wire' # <<>> <=> wire # <<>>
    BY <1>1, <1>8
  <1>11. wire # <<>> => Len(wire) \in DOMAIN wire
    BY <1>1
  <1>12. BrowseTypeOK'
    BY <1>1, <1>2, <1>8 DEF BrowseTypeOK
  <1>13. EffectsCancelled'
    BY <1>2, <1>8, <1>9 DEF ListIInv, EffectsCancelled
  <1>14. RepliesInOrder'
    BY <1>2, <1>8, <1>9, <1>10, <1>11 DEF ListIInv, RepliesInOrder, Wanted
  <1>15. ListFollows'
    BY <1>2, <1>8, <1>9, <1>10, <1>11 DEF ListIInv, ListFollows, AskedForWanted, Wanted
  <1>16. QED
    BY <1>12, <1>13, <1>14, <1>15 DEF ListIInv

LEMMA ReceiveStep ==
  ASSUME ListIInv, NEW i \in DOMAIN wire, Receive(i)
  PROVE  ListIInv'
  <1>1. BrowseTypeOK /\ Len(wire) \in Nat /\ DOMAIN wire = 1 .. Len(wire) /\ wire[i] \in Ask
        /\ url \in Url
    BY WireFacts DEF ListIInv, BrowseTypeOK
  <1>2. /\ UNCHANGED <<deed, feed, pages, filter, url, error, moves, changes, faults>>
        /\ wire[i].alive /\ Answered(i) /\ loading' = FALSE /\ wire[i].pages # 0
    BY DEF Receive, fixed, counts
  <1>3. /\ wire' \in Seq(Ask) /\ Len(wire') <= MaxWire /\ astray' \in BOOLEAN
        /\ EffectsCancelled' /\ RepliesInOrder'
        /\ i # Len(wire) => wire' # <<>> /\ wire'[Len(wire')] = wire[Len(wire)]
        /\ ~astray' => ~astray /\ ~(wire[i].alive /\ wire[i].late)
    BY <1>2, AnsweredEffect
  <1>4. PICK list \in List : list = wire[i].list
    BY <1>1 DEF Ask
  <1>5. PICK n \in 1 .. MaxPage : n = wire[i].pages
    BY <1>1, <1>2 DEF Ask
  <1>6. list.url \in Url
    BY <1>4 DEF List
  <1>7. \/ list.url.page > n /\ going' = [list.url EXCEPT !.page = n] /\ shown' = shown
        \/ shown' = list /\ going' = going
    BY <1>4, <1>5 DEF Receive
  <1>8. going' \in Url \cup {Nothing} /\ shown' \in List \cup {NothingShown}
    BY <1>1, <1>6, <1>7 DEF BrowseTypeOK, Url
  <1>9. BrowseTypeOK'
    BY <1>1, <1>2, <1>3, <1>8 DEF BrowseTypeOK
  <1>10. ListFollows'
    <2>1. SUFFICES ASSUME ~error, ~astray'
                   PROVE  AskedForWanted' \/ shown' = Wanted' \/ going' \notin {Nothing, url}
      BY <1>2 DEF ListFollows
    <2>2. ~ wire[i].late /\ ~astray
      BY <1>2, <1>3, <2>1
    <2>3. wire # <<>> /\ Len(wire) \in DOMAIN wire
      BY <1>1
    <2>4. CASE i # Len(wire)
      <3>1. feed
        BY <1>2, <2>4 DEF ListIInv, EffectsCancelled
      <3>2. wire[Len(wire)].alive
        BY <2>3, <3>1 DEF ListIInv, EffectsCancelled
      <3>3. i < Len(wire)
        BY <1>1, <2>4
      <3>4. ~ wire[Len(wire)].late
        BY <2>2, <2>3, <3>3 DEF ListIInv, RepliesInOrder
      <3>5. wire[Len(wire)].list = Wanted
        BY <2>3, <3>2, <3>4 DEF ListIInv, RepliesInOrder
      <3>6. AskedForWanted'
        BY <1>2, <1>3, <2>4, <3>2, <3>4, <3>5 DEF AskedForWanted, Wanted
      <3>7. QED
        BY <3>6
    <2>5. CASE i = Len(wire)
      <3>1. list = Wanted
        BY <1>2, <1>4, <2>2, <2>3, <2>5 DEF ListIInv, RepliesInOrder
      <3>2. list.url = url
        BY <3>1 DEF Wanted
      <3>3. CASE shown' = list
        BY <1>2, <3>1, <3>3 DEF Wanted
      <3>4. CASE list.url.page > n /\ going' = [list.url EXCEPT !.page = n]
        <4>1. url.page # n
          BY <1>1, <3>2, <3>4 DEF Url
        <4>2. QED
          BY <1>1, <3>2, <3>4, <4>1, PutRight
      <3>5. QED
        BY <1>7, <3>3, <3>4
    <2>6. QED
      BY <2>4, <2>5
  <1>11. QED
    BY <1>3, <1>9, <1>10 DEF ListIInv

LEMMA IgnoreStep ==
  ASSUME ListIInv, NEW i \in DOMAIN wire, Ignore(i)
  PROVE  ListIInv'
  <1>1. BrowseTypeOK
    BY DEF ListIInv
  <1>2. /\ UNCHANGED <<deed, feed, pages, filter, url, going, shown, loading, error, moves, changes, faults>>
        /\ ~wire[i].alive /\ Answered(i)
    BY DEF Ignore, fixed, page, counts
  <1>3. /\ wire' \in Seq(Ask) /\ Len(wire') <= MaxWire /\ astray' \in BOOLEAN
        /\ EffectsCancelled' /\ RepliesInOrder'
        /\ i # Len(wire) => wire' # <<>> /\ wire'[Len(wire')] = wire[Len(wire)]
        /\ ~astray' => ~astray /\ ~(wire[i].alive /\ wire[i].late)
    BY <1>2, AnsweredEffect
  <1>4. BrowseTypeOK'
    BY <1>1, <1>2, <1>3 DEF BrowseTypeOK
  <1>5. AskedForWanted => AskedForWanted'
    BY <1>2, <1>3 DEF AskedForWanted, Wanted
  <1>6. ListFollows'
    BY <1>2, <1>3, <1>5 DEF ListIInv, ListFollows, Wanted
  <1>7. QED
    BY <1>3, <1>4, <1>6 DEF ListIInv

LEMMA FailStep ==
  ASSUME ListIInv, NEW i \in DOMAIN wire, Fail(i)
  PROVE  ListIInv'
  <1>1. BrowseTypeOK
    BY DEF ListIInv
  <1>2. /\ UNCHANGED <<deed, feed, pages, filter, url, going, shown, moves, changes>>
        /\ wire[i].alive /\ Answered(i) /\ loading' = FALSE /\ error' = TRUE
    BY DEF Fail, fixed
  <1>3. /\ wire' \in Seq(Ask) /\ Len(wire') <= MaxWire /\ astray' \in BOOLEAN
        /\ EffectsCancelled' /\ RepliesInOrder'
    BY <1>2, AnsweredEffect
  <1>4. faults' \in 0 .. MaxFaults
    BY <1>1, BrowseAssumption DEF Fail, BrowseTypeOK
  <1>5. BrowseTypeOK'
    BY <1>1, <1>2, <1>3, <1>4 DEF BrowseTypeOK
  <1>6. QED
    BY <1>2, <1>3, <1>5 DEF ListIInv, ListFollows

LEMMA ListNextHolds ==
  ASSUME ListIInv, ListNext \/ UNCHANGED lists
  PROVE  ListIInv'
  <1>1. CASE \E f \in Filters : ChooseFilter(f) \/ \E q \in Queries, n \in 1 .. MaxPage : ProjectsChange(f, q, n)
    BY <1>1, ChooseFilterStep, ProjectsChangeStep
  <1>2. CASE \E q \in Queries : Search(q)
    BY <1>2, SearchStep
  <1>3. CASE \E p \in 1 .. MaxPage : Turn(p)
    BY <1>3, TurnStep
  <1>4. CASE Navigate
    BY <1>4, NavigateStep
  <1>5. CASE \E i \in DOMAIN wire : Serve(i) \/ Receive(i) \/ Ignore(i) \/ Fail(i)
    BY <1>5, ServeStep, ReceiveStep, IgnoreStep, FailStep
  <1>6. CASE UNCHANGED lists
    <2>1. UNCHANGED <<deed, feed, pages, filter, url, going, shown, loading, error, wire,
                      moves, changes, faults, astray>>
      BY <1>6 DEF lists, fixed, page, counts
    <2>2. BrowseTypeOK'
      BY <2>1 DEF ListIInv, BrowseTypeOK
    <2>3. EffectsCancelled' /\ RepliesInOrder' /\ ListFollows'
      BY <2>1 DEF ListIInv, EffectsCancelled, RepliesInOrder, ListFollows, AskedForWanted, Wanted
    <2>4. QED
      BY <2>2, <2>3 DEF ListIInv
  <1>7. QED
    BY <1>1, <1>2, <1>3, <1>4, <1>5, <1>6 DEF ListNext

LEMMA ShownIsWantedFollows ==
  ASSUME ListIInv
  PROVE  ShownIsWanted
  <1>1. SUFFICES ASSUME ~loading, ~error, going = Nothing, ~astray, feed => wire = <<>>
                 PROVE  shown = Wanted
    BY DEF ShownIsWanted
  <1>2. ~ AskedForWanted
    <2>1. SUFFICES ASSUME AskedForWanted PROVE FALSE
      OBVIOUS
    <2>2. wire # <<>> /\ wire[Len(wire)].alive /\ ~feed
      BY <1>1, <2>1 DEF AskedForWanted
    <2>3. Len(wire) \in DOMAIN wire
      BY <2>2, WireFacts DEF ListIInv
    <2>4. QED
      BY <1>1, <2>2, <2>3 DEF ListIInv, EffectsCancelled
  <1>3. QED
    BY <1>1, <1>2 DEF ListIInv, ListFollows

-----------------------------------------------------------------------------
\* The fit panel.  Each part of a fit falls as the card costs more, takes longer or
\* matches less, and is 100 only if the need was said and is met.
LEMMA BudgetFitFalls ==
  ASSUME NEW b \in Nat, NEW p \in Nat, NEW q \in Nat, 0 < p, p <= q
  PROVE  /\ BudgetFit(b, p) \in 0 .. 100 /\ BudgetFit(b, q) <= BudgetFit(b, p)
  BY DEF BudgetFit

LEMMA BudgetFitMet ==
  ASSUME NEW b \in Nat, NEW p \in Nat
  PROVE  /\ BudgetFit(b, p) \in 0 .. 75 \cup {100}
         /\ BudgetFit(b, p) = 100 <=> 0 < p /\ p <= b
  BY DEF BudgetFit

LEMMA TimelineFitFalls ==
  ASSUME NEW d \in Nat, NEW v \in Nat, NEW w \in Nat, v <= w
  PROVE  TimelineFit(d, w) <= TimelineFit(d, v)
  BY DEF TimelineFit

LEMMA TimelineFitMet ==
  ASSUME NEW d \in Nat, NEW w \in Nat \ {0}
  PROVE  /\ TimelineFit(d, w) \in 0 .. 70 \cup {100}
         /\ TimelineFit(d, w) = 100 <=> w <= 7 * d
  BY DEF TimelineFit

LEMMA StackFitFalls ==
  ASSUME NEW r \in 0 .. 2, NEW m \in 0 .. r, NEW n \in 0 .. m
  PROVE  /\ StackFit(m, r) \in 0 .. 70 \cup {100} /\ StackFit(n, r) <= StackFit(m, r)
         /\ StackFit(m, r) = 100 <=> 0 < r /\ m = r
  <1>1. CASE r = 0
    BY <1>1 DEF StackFit
  <1>2. CASE r = 1
    BY <1>2 DEF StackFit
  <1>3. CASE r = 2
    BY <1>3 DEF StackFit
  <1>4. QED
    BY <1>1, <1>2, <1>3

\* What is listed as needs and cards.
LEMMA NeedTyped ==
  ASSUME NEW need \in Needs
  PROVE  need.budget \in Nat /\ need.deadline \in Nat /\ need.required \in 0 .. 2
  BY DEF Needs

LEMMA CardTyped ==
  ASSUME NEW card \in Cards
  PROVE  card.price \in Nat /\ card.matched \in 0 .. 2 /\ card.weeks \in Nat \ {0}
  <1>1. \A u \in {"day", "week", "month"} : Weeks(1, u) \in Nat \ {0} /\ Weeks(3, u) \in Nat \ {0}
    BY DEF Weeks
  <1>2. DefaultWeeks \subseteq Nat \ {0}
    BY DEF DefaultWeeks
  <1>3. PICK named : named = UNION {{Weeks(1, u), Weeks(3, u)} : u \in {"day", "week", "month"}}
    OBVIOUS
  <1>4. named \subseteq Nat \ {0}
    BY <1>1, <1>3
  <1>5. card \in [price : {0, 5, 10}, matched : 0 .. 2, weeks : DefaultWeeks \cup named]
    BY <1>3 DEF Cards
  <1>6. card.price \in {0, 5, 10} /\ card.matched \in 0 .. 2 /\ card.weeks \in DefaultWeeks \cup named
    BY <1>5, Zenon
  <1>7. card.weeks \in Nat \ {0}
    BY <1>2, <1>4, <1>6
  <1>8. QED
    BY <1>6, <1>7

\* Tenths.
LEMMA Tenths ==
  ASSUME NEW n \in Nat
  PROVE  n \div 10 \in Nat /\ 10 * (n \div 10) <= n /\ n < 10 * (n \div 10) + 10
  OBVIOUS

Weighted(a, b, c) == (4 * a + 3 * b + 3 * c + 5) \div 10

\* The weighted sum is 100 only if its parts are.
LEMMA WeightedMet ==
  ASSUME NEW a \in 0 .. 75 \cup {100}, NEW b \in 0 .. 70 \cup {100}, NEW c \in 0 .. 70 \cup {100}
  PROVE  Weighted(a, b, c) = 100 <=> a = 100 /\ b = 100 /\ c = 100
  <1>1. PICK n \in Nat : n = 4 * a + 3 * b + 3 * c + 5
    OBVIOUS
  <1>2. n \div 10 \in Nat /\ 10 * (n \div 10) <= n /\ n < 10 * (n \div 10) + 10
    BY Tenths
  <1>3. n \div 10 = 100 <=> 1000 <= n /\ n < 1010
    BY <1>2
  <1>4. 1000 <= n /\ n < 1010 <=> a = 100 /\ b = 100 /\ c = 100
    BY <1>1
  <1>5. QED
    BY <1>1, <1>3, <1>4 DEF Weighted

\* The order of the cards is fair.
LEMMA FitIsFairFollows == FitIsFair
  <1>1. SUFFICES ASSUME NEW need \in Needs
                 PROVE  LET apt == {card \in Cards : card.matched <= need.required} IN
                        /\ \A x, y \in apt :
                             /\ 0 < x.price /\ x.price <= y.price /\ x.weeks <= y.weeks /\ x.matched >= y.matched
                             => Fit(x, need) >= Fit(y, need)
                        /\ \A x \in apt :
                             Fit(x, need) = 100 <=> /\ 0 < x.price /\ x.price <= need.budget
                                                    /\ x.weeks <= 7 * need.deadline
                                                    /\ 0 < need.required /\ x.matched = need.required
    BY DEF FitIsFair
  <1>2. need.budget \in Nat /\ need.deadline \in Nat /\ need.required \in 0 .. 2
    BY NeedTyped
  <1>3. ASSUME NEW x \in Cards, x.matched <= need.required
        PROVE  /\ x.price \in Nat /\ x.matched \in 0 .. need.required /\ x.weeks \in Nat \ {0}
               /\ BudgetFit(need.budget, x.price) \in 0 .. 75 \cup {100}
               /\ TimelineFit(need.deadline, x.weeks) \in 0 .. 70 \cup {100}
               /\ StackFit(x.matched, need.required) \in 0 .. 70 \cup {100}
    <2>1. x.price \in Nat /\ x.matched \in 0 .. 2 /\ x.weeks \in Nat \ {0}
      BY <1>3, CardTyped
    <2>2. x.matched \in 0 .. need.required
      BY <1>2, <1>3, <2>1
    <2>3. BudgetFit(need.budget, x.price) \in 0 .. 75 \cup {100}
      BY <1>2, <2>1, BudgetFitMet
    <2>4. TimelineFit(need.deadline, x.weeks) \in 0 .. 70 \cup {100}
      BY <1>2, <2>1, TimelineFitMet
    <2>5. 0 \in 0 .. x.matched
      BY <1>2, <2>2
    <2>6. StackFit(x.matched, need.required) \in 0 .. 70 \cup {100}
      BY <1>2, <2>2, <2>5, StackFitFalls
    <2>7. QED
      BY <2>1, <2>2, <2>4, <2>3, <2>6
  <1>4. ASSUME NEW x \in Cards, x.matched <= need.required
        PROVE  Fit(x, need) = 100 <=> /\ 0 < x.price /\ x.price <= need.budget
                                      /\ x.weeks <= 7 * need.deadline
                                      /\ 0 < need.required /\ x.matched = need.required
    <2>1. PICK a \in 0 .. 75 \cup {100} : a = BudgetFit(need.budget, x.price)
      BY <1>3, <1>4
    <2>2. PICK b \in 0 .. 70 \cup {100} : b = TimelineFit(need.deadline, x.weeks)
      BY <1>3, <1>4
    <2>3. PICK c \in 0 .. 70 \cup {100} : c = StackFit(x.matched, need.required)
      BY <1>3, <1>4
    <2>4. Fit(x, need) = Weighted(a, b, c)
      BY <2>1, <2>2, <2>3 DEF Fit, Weighted
    <2>5. a = 100 <=> 0 < x.price /\ x.price <= need.budget
      BY <1>2, <1>3, <1>4, <2>1, BudgetFitMet
    <2>6. b = 100 <=> x.weeks <= 7 * need.deadline
      BY <1>2, <1>3, <1>4, <2>2, TimelineFitMet
    <2>7. c = 100 <=> 0 < need.required /\ x.matched = need.required
      <3>1. x.matched \in 0 .. need.required /\ 0 \in 0 .. x.matched
        BY <1>2, <1>3, <1>4
      <3>2. QED
        BY <1>2, <2>3, <3>1, StackFitFalls
    <2>8. Weighted(a, b, c) = 100 <=> a = 100 /\ b = 100 /\ c = 100
      <3>1. a \in 0 .. 75 \cup {100} /\ b \in 0 .. 70 \cup {100} /\ c \in 0 .. 70 \cup {100}
        BY <2>1, <2>2, <2>3
      <3>2. QED
        BY <3>1, WeightedMet
    <2>9. QED
      BY <2>4, <2>5, <2>6, <2>7, <2>8
  <1>5. ASSUME NEW x \in Cards, NEW y \in Cards, x.matched <= need.required, y.matched <= need.required,
               0 < x.price, x.price <= y.price, x.weeks <= y.weeks, x.matched >= y.matched
        PROVE  Fit(x, need) >= Fit(y, need)
    <2>1. PICK a \in 0 .. 75 \cup {100} : a = BudgetFit(need.budget, x.price)
      BY <1>3, <1>5
    <2>2. PICK b \in 0 .. 70 \cup {100} : b = TimelineFit(need.deadline, x.weeks)
      BY <1>3, <1>5
    <2>3. PICK c \in 0 .. 70 \cup {100} : c = StackFit(x.matched, need.required)
      BY <1>3, <1>5
    <2>4. PICK d \in 0 .. 75 \cup {100} : d = BudgetFit(need.budget, y.price)
      BY <1>3, <1>5
    <2>5. PICK e \in 0 .. 70 \cup {100} : e = TimelineFit(need.deadline, y.weeks)
      BY <1>3, <1>5
    <2>6. PICK f \in 0 .. 70 \cup {100} : f = StackFit(y.matched, need.required)
      BY <1>3, <1>5
    <2>7. d <= a
      BY <1>2, <1>3, <1>5, <2>1, <2>4, BudgetFitFalls
    <2>8. e <= b
      BY <1>2, <1>3, <1>5, <2>2, <2>5, TimelineFitFalls
    <2>9. f <= c
      <3>1. x.matched \in 0 .. need.required /\ y.matched \in 0 .. x.matched
        BY <1>2, <1>3, <1>5
      <3>2. QED
        BY <1>2, <3>1, <2>3, <2>6, StackFitFalls
    <2>10. Fit(x, need) = Weighted(a, b, c) /\ Fit(y, need) = Weighted(d, e, f)
      BY <2>1, <2>2, <2>3, <2>4, <2>5, <2>6 DEF Fit, Weighted
    <2>11. /\ a \in Nat /\ b \in Nat /\ c \in Nat /\ d \in Nat /\ e \in Nat /\ f \in Nat
           /\ d <= a /\ e <= b /\ f <= c
      BY <2>1, <2>2, <2>3, <2>4, <2>5, <2>6, <2>7, <2>8, <2>9
    <2>12. /\ Weighted(d, e, f) \in Nat /\ Weighted(a, b, c) \in Nat
           /\ Weighted(d, e, f) <= Weighted(a, b, c)
      <3>1. PICK n \in Nat : n = 4 * a + 3 * b + 3 * c + 5
        BY <2>11
      <3>2. PICK m \in Nat : m = 4 * d + 3 * e + 3 * f + 5
        BY <2>11
      <3>3. m <= n
        BY <2>11, <3>1, <3>2
      <3>4. n \div 10 \in Nat /\ n < 10 * (n \div 10) + 10
        BY <3>1, Tenths
      <3>5. m \div 10 \in Nat /\ 10 * (m \div 10) <= m
        BY <3>2, Tenths
      <3>6. m \div 10 <= n \div 10
        BY <3>1, <3>2, <3>3, <3>4, <3>5
      <3>7. QED
        BY <3>1, <3>2, <3>4, <3>5, <3>6 DEF Weighted
    <2>13. QED
      BY <2>10, <2>12
  <1>6. QED
    BY <1>4, <1>5

-----------------------------------------------------------------------------
\* The list, the hearts and the order of the cards, whatever the replies do.
THEOREM BrowseInvHolds == BrowseSpec => []BrowseInv
  <1>1. BrowseInit => ListIInv /\ HeartsIInv
    BY ListInitHolds, HeartsInitHolds DEF BrowseInit
  <1>2. ListIInv /\ HeartsIInv /\ [BrowseNext]_browseVars => ListIInv' /\ HeartsIInv'
    BY ListNextHolds, HeartsNextHolds DEF BrowseNext, browseVars
  <1>3. ListIInv /\ HeartsIInv => BrowseInv
    <2>1. ListIInv => BrowseTypeOK
      BY DEF ListIInv
    <2>2. QED
      BY <2>1, ShownIsWantedFollows, HeartsInvFollows, FitIsFairFollows DEF BrowseInv
  <1>4. QED
    BY <1>1, <1>2, <1>3, PTL DEF BrowseSpec
===============================================================================
