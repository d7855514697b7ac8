----------------------------- MODULE AccountPages -----------------------------
(***************************************************************************)
(* The pages of an account, and the admin's page on it, with what Supabase *)
(* keeps: the password, the ban, and a copy of the role.  AuthSession has  *)
(* the rows; a handler writes Supabase and the rows one after the other,   *)
(* and either write may fail, or succeed without an answer.  A tab has one *)
(* form, whose button is disabled while it waits, so that the tabs are the *)
(* slots of AuthSession's calls.                                           *)
(***************************************************************************)
EXTENDS AuthSession

CONSTANTS
  None,        \* no password, no role, no form, nothing loaded
  Passwords,   \* what may be typed as a password
  Weak,        \* those without a special character
  Mixes        \* bounds: the account there is, whether there are pages, the forms sent (or calls
               \* made), and the buttons pressed by the admin

VARIABLES
  mix,     \* the element of Mixes
  moves,   \* forms sent, or calls made
  presses, \* buttons pressed by the admin
  supa,    \* the Supabase user
  role,    \* User.role
  form,    \* the form that waits, in each tab
  stage,   \* the request to Supabase that the call of each tab has still to make
  admin,   \* the admin's page on the user
  known,   \* history: the password that was last announced as set
  paid,    \* history: the links whose visitor was told that he is signed in
  amiss    \* history: what has failed half-way, or overlapped

bounds   == <<mix, moves, presses>>
marks    == <<known, paid, amiss>>
pageVars == <<bounds, supa, role, form, stage, admin, marks>>
allVars  == <<vars, pageVars>>

Roles == {"DEVELOPER", "CLIENT"}
Forms == {"register", "login", "resend", "verify", "forgot", "reset", "change", "callback"}

Form(at, current, typed, l) == [at |-> at, current |-> current, typed |-> typed, link |-> l]

ASSUME AccountAssumption ==
  /\ Weak \subseteq Passwords /\ None \notin Passwords \cup Roles
  /\ None \notin [at : Forms, current : Passwords \cup {None}, typed : Passwords \cup {None},
                  link : Links \cup {NoLink}]

\* op is what the admin has pressed, and shown the copy of the account.
Buttons == {"disable", "enable", "password", "role", "verify", "unverify"}
Desk(step, op, typed, shown) == [step |-> step, op |-> op, typed |-> typed, shown |-> shown]

AccountTypeOK ==
  /\ TypeOK
  /\ supa \in [there : BOOLEAN, banned : BOOLEAN, password : Passwords \cup {None},
               role : Roles \cup {None}]
  /\ role \in Roles \cup {None}
  /\ \A c \in Calls :
       form[c] # None => form[c].at \in Forms /\ {form[c].current, form[c].typed} \subseteq Passwords \cup {None}
  /\ stage \in [Calls -> {"none", "create", "check", "set"}]
  /\ admin.step \in {"shut", "open", "row", "supabase", "drop", "read"}
  /\ amiss \subseteq {"rows", "role", "ban", "password", "link"}

\* Nobody yet, or a developer who has registered, opened his link and stayed.
AccountInit ==
  /\ mix \in Mixes /\ moves = 0 /\ presses = 0
  /\ \/ /\ mix.from = "nobody"
        /\ Init
        /\ supa = [there |-> FALSE, banned |-> FALSE, password |-> None, role |-> None]
        /\ role = None /\ known = None
     \/ /\ mix.from = "member"
        /\ account = "verified" /\ vouched = TRUE
        /\ session = Session(0, 0) /\ held = {0}
        /\ link = [l \in Links |-> "none"]
        /\ clock = 0 /\ era = 0 /\ raced = {} /\ call = [c \in Calls |-> Idle]
        /\ known \in Passwords \ Weak
        /\ supa = [there |-> TRUE, banned |-> FALSE, password |-> known, role |-> "DEVELOPER"]
        /\ role = "DEVELOPER"
  /\ form = [c \in Calls |-> None]
  /\ stage = [c \in Calls |-> "none"]
  /\ admin = Desk("shut", "none", None, None)
  /\ paid = {} /\ amiss = {}

-----------------------------------------------------------------------------
(* A form is sent *)

\* request is what the server asks of Supabase on the way.
Send(c, f, request) ==
  /\ ~mix.direct
  /\ form[c] = None /\ At(c, "idle")
  /\ moves < mix.moves /\ moves' = moves + 1
  /\ form' = [form EXCEPT ![c] = f]
  /\ stage' = [stage EXCEPT ![c] = request]
  /\ UNCHANGED <<mix, presses, supa, role, admin, marks>>

\* What the server asks of a password, from everybody but the admin.
Strong(p) == p \notin Weak

\* The form takes a weak password, the server does not.
SendRegister(c, p) ==
  /\ Strong(p)
  /\ Send(c, Form("register", None, p, NoLink), "create")
  /\ Register(c)

SendLogin(c, p) == Send(c, Form("login", p, None, NoLink), "check") /\ UNCHANGED vars

\* Offered by the login page and by the page that waits for the link.
SendResend(c) == Send(c, Form("resend", None, None, NoLink), "none") /\ ResendVerification(c)
SendForgot(c) == Send(c, Form("forgot", None, None, NoLink), "none") /\ ForgotPassword(c)

\* The page sends the token of its URL at once.
OpenVerifyLink(c, l) == Send(c, Form("verify", None, None, l), "none") /\ VerifyEmail(c, l)

\* The new password is looked at before the link is.
SendReset(c, l, p) ==
  /\ Strong(p)
  /\ Send(c, Form("reset", None, p, l), "set")
  /\ ResetPassword(c, l)

\* The page asks for the session first, so only somebody signed in gets through.
SendChange(c, old, p) ==
  /\ held # {}
  /\ Strong(p) /\ p # old
  /\ Send(c, Form("change", old, p, NoLink), "check")
  /\ UNCHANGED vars

\* The provider has brought the user back; Supabase has made its user of him,
\* or found the one with his address.
ComeBack(c) ==
  /\ ~mix.direct /\ ~supa.banned
  /\ form[c] = None /\ At(c, "idle")
  /\ moves < mix.moves /\ moves' = moves + 1
  /\ supa' = [supa EXCEPT !.there = TRUE]
  /\ form' = [form EXCEPT ![c] = Form("callback", None, None, NoLink)]
  /\ OAuthSession(c)
  /\ UNCHANGED <<mix, presses, role, stage, admin, marks>>

-----------------------------------------------------------------------------
(* What the form is told, and what is left when it is told of an error *)

\* A tab that has had a password set and has not been told so yet.
HasSet(c) ==
  /\ form[c] # None /\ stage[c] = "none"
  /\ \/ form[c].at \in {"reset", "change"} /\ call[c].step \in {"revoke", "sign", "upsert", "reply"}
     \/ form[c].at = "register"
AdminHasSet == admin.op = "password" /\ admin.step \in {"drop", "read"}

Settled(c) ==
  /\ form' = [form EXCEPT ![c] = None]
  /\ stage' = [stage EXCEPT ![c] = "none"]

TellOk(c) ==
  /\ known' = IF form[c].at \in {"register", "reset", "change"} THEN form[c].typed ELSE known
  /\ paid' = IF form[c].link # NoLink THEN paid \cup {form[c].link} ELSE paid
  /\ UNCHANGED amiss

\* heard is what the failure may have left behind.
TellError(heard) == amiss' = amiss \cup heard /\ UNCHANGED <<known, paid>>

\* What a call leaves undone that fails where it is.
Undone(c) ==
  (IF call[c].step \in {"create_user", "read_oauth", "create_oauth"} /\ stage[c] = "none"
   THEN {"rows"} ELSE {})
  \cup (IF HasSet(c) THEN {"password"} ELSE {})
  \cup (IF form[c].link # NoLink THEN {"link"} ELSE {})

-----------------------------------------------------------------------------
(* The server's handlers: Supabase ... *)

\* What Supabase answers when it has done what it was asked, and what it was asked.
Asked(c) ==
  LET f == form[c] IN
  CASE stage[c] = "create" /\ ~supa.there ->
         [supa EXCEPT !.there = TRUE, !.password = f.typed, !.role = "DEVELOPER"]
    [] stage[c] = "set" -> [supa EXCEPT !.password = f.typed]
    [] OTHER -> supa

\* The request of a call is due: a registration creates, a login and a change of
\* password check, a reset and then a change set the password.
Due(c) ==
  CASE stage[c] = "create" -> At(c, "create_user")
    [] stage[c] = "set" /\ form[c].at = "reset" -> At(c, "revoke")
    [] OTHER -> stage[c] # "none"

Agrees(c) ==
  CASE stage[c] = "create" -> ~supa.there
    [] stage[c] = "check" -> supa.there /\ ~supa.banned /\ supa.password = form[c].current
    [] OTHER -> TRUE

\* Another password is being set meanwhile.
Overlap(c) == AdminHasSet \/ \E d \in Calls \ {c} : HasSet(d)

\* Mutant: an error in the answer of Supabase is not looked at.
IgnoresError(c) ==
  /\ Due(c) /\ Agrees(c)
  /\ supa' \in {supa, Asked(c)}
  /\ stage' = [stage EXCEPT ![c] = "none"]
  /\ CASE form[c].at = "change" -> ChangePassword(c)
       [] form[c].at = "login" -> Login(c)
       [] OTHER -> UNCHANGED vars
  /\ UNCHANGED <<bounds, role, form, admin, marks>>

SupabaseDoes(c) ==
  /\ Due(c) /\ Agrees(c)
  /\ supa' = Asked(c)
  /\ amiss' = IF stage[c] = "set" /\ Overlap(c) THEN amiss \cup {"password"} ELSE amiss
  /\ \/ /\ stage[c] = "check" /\ form[c].at = "change"
        /\ stage' = [stage EXCEPT ![c] = "set"]
        /\ UNCHANGED <<vars, form>>
     \/ /\ stage[c] = "check" /\ form[c].at = "login"
        /\ IF account = "none" THEN Settled(c) /\ UNCHANGED vars
           ELSE stage' = [stage EXCEPT ![c] = "none"] /\ Login(c) /\ UNCHANGED form
     \/ /\ stage[c] # "check"
        /\ stage' = [stage EXCEPT ![c] = "none"]
        /\ IF form[c].at = "change" THEN ChangePassword(c) ELSE UNCHANGED vars
        /\ UNCHANGED form
  /\ UNCHANGED <<bounds, role, admin, known, paid>>

\* It refuses, or cannot be reached, or its answer is lost; the handler throws.
SupabaseRefuses(c) ==
  /\ Due(c)
  /\ supa' \in {supa} \cup (IF Agrees(c) THEN {Asked(c)} ELSE {})
  /\ Settled(c)
  /\ IF At(c, "idle") THEN UNCHANGED vars ELSE Fail(c)
  /\ TellError((IF supa' # supa THEN {IF stage[c] = "create" THEN "rows" ELSE "password"} ELSE {})
               \cup (IF form[c].link # NoLink THEN {"link"} ELSE {}))
  /\ UNCHANGED <<bounds, role, admin>>

(* ... and the rows *)

\* Mutant: the row is created first, and Supabase asked afterwards.
MayAlwaysGoOn(c) == TRUE

\* A call goes on where it does not wait for Supabase.
MayGoOn(c) == stage[c] = "none" \/ (stage[c] = "set" /\ call[c].step \in {"consume", "verify"})

\* The row that a registration or the first visit through a provider creates.
RoleOfRow == role' = IF account' # "none" /\ role = None
                     THEN (IF supa.role = None THEN "DEVELOPER" ELSE supa.role) ELSE role

\* The call ends well with a reply that has cookies, and with a mail, which may
\* not go out.
GoOn(c) ==
  /\ form[c] # None /\ MayGoOn(c)
  /\ Continue(c)
  /\ RoleOfRow
  /\ IF call'[c].step # "idle" THEN UNCHANGED <<form, stage, marks>>
     ELSE /\ Settled(c)
          /\ \/ call[c].step \in {"reply", "create_link"} /\ TellOk(c)
             \/ call[c].step # "reply" /\ TellError({})
  /\ UNCHANGED <<bounds, supa, admin>>

GiveUp(c) ==
  /\ form[c] # None
  /\ Settled(c)
  /\ Fail(c)
  /\ TellError(Undone(c))
  /\ UNCHANGED <<bounds, supa, role, admin>>

-----------------------------------------------------------------------------
(* The admin's page *)

Account == [verified |-> account = "verified", role |-> role, disabled |-> supa.banned]
Become(r) == admin' = r
NoTabs    == UNCHANGED <<mix, moves, form, stage, paid>>

OpenUser ==
  /\ admin.step = "shut" /\ account # "none" /\ presses < mix.presses
  /\ Become([admin EXCEPT !.step = "read"])
  /\ NoTabs /\ UNCHANGED <<vars, presses, supa, role, known, amiss>>

\* A button is offered by what the copy says.
Offered(op, r) ==
  CASE op = "disable"  -> ~admin.shown.disabled
    [] op = "enable"   -> admin.shown.disabled
    [] op = "role"     -> admin.shown.role # r
    [] op = "verify"   -> ~admin.shown.verified
    [] op = "unverify" -> admin.shown.verified
    [] OTHER -> TRUE

\* typed is a password, which may be weak here, or a role.
Press(op, typed) ==
  /\ admin.step = "open" /\ presses < mix.presses
  /\ Offered(op, typed)
  /\ presses' = presses + 1
  /\ Become(Desk(IF op \in {"role", "verify", "unverify"} THEN "row" ELSE "supabase", op, typed, admin.shown))
  /\ NoTabs /\ UNCHANGED <<vars, supa, role, known, amiss>>

\* setUserVerification writes the row only, setUserRole before it asks Supabase.
AdminWritesRow ==
  /\ admin.step = "row"
  /\ \/ /\ admin.op = "role" /\ role' = admin.typed
        /\ Become([admin EXCEPT !.step = "supabase"])
        /\ UNCHANGED vars
     \/ /\ admin.op \in {"verify", "unverify"}
        /\ AdminSetsVerification(IF admin.op = "verify" THEN "verified" ELSE "unverified")
        /\ Become([admin EXCEPT !.step = "read"])
        /\ UNCHANGED role
  /\ NoTabs /\ UNCHANGED <<presses, supa, known, amiss>>

Requested ==
  CASE admin.op = "password" -> [supa EXCEPT !.password = admin.typed]
    [] admin.op = "role"     -> [supa EXCEPT !.role = admin.typed]
    [] OTHER                 -> [supa EXCEPT !.banned = admin.op = "disable"]

AdminAsksSupabase ==
  /\ admin.step = "supabase"
  /\ supa' = Requested
  /\ Become([admin EXCEPT !.step = IF admin.op = "enable" THEN "read" ELSE "drop"])
  /\ amiss' = IF admin.op = "password" /\ \E c \in Calls : HasSet(c) THEN amiss \cup {"password"} ELSE amiss
  /\ NoTabs /\ UNCHANGED <<vars, presses, role, known>>

AdminDrops ==
  /\ admin.step = "drop"
  /\ AdminDropsSession
  /\ Become([admin EXCEPT !.step = "read"])
  /\ NoTabs /\ UNCHANGED <<presses, supa, role, known, amiss>>

\* userDetails: the row, and then the ban, which is taken for lifted when
\* Supabase does not answer.
AdminIsShown ==
  /\ admin.step = "read"
  /\ \/ Become(Desk("open", "none", None, Account)) /\ UNCHANGED amiss
     \/ Become(Desk("open", "none", None, [Account EXCEPT !.disabled = FALSE])) /\ amiss' = amiss \cup {"ban"}
  /\ known' = IF admin.op = "password" THEN admin.typed ELSE known
  /\ NoTabs /\ UNCHANGED <<vars, presses, supa, role>>

\* The page keeps its copy, and says that something went wrong.
AdminFails ==
  /\ admin.step \in {"row", "supabase", "drop", "read"}
  /\ supa' \in {supa} \cup (IF admin.step = "supabase" THEN {Requested} ELSE {})
  /\ Become(Desk(IF admin.shown = None THEN "shut" ELSE "open", "none", None, admin.shown))
  /\ amiss' = amiss \cup
       (CASE admin.op = "password" /\ (supa' # supa \/ AdminHasSet) -> {"password"}
          [] admin.op \in {"disable", "enable"} /\ (supa' # supa \/ admin.step # "supabase") -> {"ban"}
          [] admin.op = "role" /\ admin.step # "row" -> {"role"}
          [] OTHER -> {})
  /\ NoTabs /\ UNCHANGED <<vars, presses, role, known>>

-----------------------------------------------------------------------------
\* The same account with all its calls, and no page: whoever has a token calls.
Direct ==
  /\ mix.direct
  /\ \/ /\ moves < mix.moves /\ moves' = moves + 1
        /\ \E c \in Calls : Request(c)
     \/ /\ UNCHANGED moves
        /\ \/ \E c \in Calls : Continue(c) \/ Fail(c)
           \/ LogoutAll \/ AdminDropsSession
           \/ \E v \in {"unverified", "verified"} : AdminSetsVerification(v)
           \/ Tick \/ \E l \in Links : LinkExpires(l)
  /\ UNCHANGED <<mix, presses, supa, role, form, stage, admin, marks>>

UserNext ==
  \/ \E c \in Calls :
       \/ \E p \in Passwords : SendRegister(c, p) \/ SendLogin(c, p)
       \/ SendResend(c) \/ SendForgot(c) \/ ComeBack(c)
       \/ \E l \in VerifyLinks : OpenVerifyLink(c, l)
       \/ \E l \in ResetLinks, p \in Passwords : SendReset(c, l, p)
       \/ \E old, p \in Passwords : SendChange(c, old, p)
       \/ SupabaseDoes(c) \/ SupabaseRefuses(c) \/ GoOn(c) \/ GiveUp(c)
  \/ ~mix.direct /\ (\E l \in Links : LinkExpires(l)) /\ UNCHANGED pageVars

AdminNext ==
  \/ OpenUser
  \/ \E op \in Buttons : \E typed \in (CASE op = "password" -> Passwords [] op = "role" -> Roles
                                        [] OTHER -> {None}) : Press(op, typed)
  \/ AdminWritesRow \/ AdminAsksSupabase \/ AdminDrops \/ AdminIsShown \/ AdminFails

AccountNext == Direct \/ UserNext \/ AdminNext
AccountSpec == AccountInit /\ [][AccountNext]_allVars

-----------------------------------------------------------------------------
(* Properties *)

Quiet == "password" \notin amiss /\ ~AdminHasSet /\ \A c \in Calls : ~HasSet(c)

\* The password that somebody was last told is set, after a registration, a reset,
\* a change or by the admin, is the one Supabase has, and it is set before anybody
\* is told; unless two were set at once, or one was set by a call that then failed.
PasswordIsKnown == known # None /\ Quiet => supa.password = known

\* There is a row only for somebody Supabase has, and a Supabase user without a row
\* only while one is signing up, or since a call failed between the two.
RowsAreInStep ==
  /\ account # "none" => supa.there
  /\ supa.there /\ account = "none" /\ "rows" \notin amiss =>
       \E c \in Calls : call[c].step \in {"create_user", "read_oauth", "create_oauth"}

\* The two copies of the role agree, where Supabase has one, but while the admin is
\* changing them and when he has failed half-way.
RolesAgree ==
  /\ role = None <=> account = "none"
  /\ supa.role \in {None, role} \/ role = None \/ "role" \in amiss \/ admin.op = "role"

\* A link that is spent has signed its visitor in, or will, unless his call failed:
\* whatever can be refused is looked at before the link is.
LinksArePaidFor ==
  \A l \in Links : link[l] = "consumed" =>
    \/ l \in paid \/ "link" \in amiss
    \/ \E c \in Calls : form[c] # None /\ form[c].link = l

\* The admin's page, when nothing has failed, shows whether the user is shut out.
AdminSeesBan == admin.step = "open" /\ "ban" \notin amiss => admin.shown.disabled = supa.banned

AccountInv ==
  /\ AccountTypeOK
  /\ ~mix.direct => RowsAreInStep /\ RolesAgree /\ LinksArePaidFor /\ AdminSeesBan
===============================================================================
