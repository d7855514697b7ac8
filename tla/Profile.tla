------------------------------- MODULE Profile -------------------------------
(***************************************************************************)
(* A user's own row, and the settings pages that edit it.  A page reads    *)
(* the row once, fills its form with what it can show of it, and sends the *)
(* whole form with every save; an empty text is not sent at all.  updateMe *)
(* reads the GitHub URL, decides whether the verification still stands,    *)
(* and writes; verifyGithubOwnership asks Supabase which account is linked *)
(* and writes the URL with its verification.  Each may overtake the other, *)
(* in one tab or in two.                                                   *)
(***************************************************************************)
EXTENDS Naturals

CONSTANTS
  Tabs,      \* browser tabs with the user's settings page
  None,      \* an empty text; no identity; nothing
  Rows,      \* the rows there may be at the start, [role, user, verified]
  Accounts,  \* the URLs of the GitHub accounts the user may link
  Edits      \* what the user may enter: pairs of a field and a value

Fields == {"title", "bio", "location", "contact", "skills", "entries", "github"}

\* A row that carries a verification carries the URL that was verified; saying
\* nothing is not saying that a form was saved.
ASSUME ProfileAssumption ==
  /\ \A r \in Rows :
       /\ r.role \in {"developer", "client"}
       /\ DOMAIN r.user = Fields
       /\ r.verified \in Accounts \cup {None}
       /\ r.verified # None => r.user.github = r.verified
  /\ None # "saved"

VARIABLES
  role,      \* whose settings page it is: "developer" or "client"
  user,      \* the User row, its fields as the pages treat them
  verified,  \* githubUsername and githubVerifiedAt: the URL verified, or None
  identity,  \* the GitHub identity that Supabase has linked
  page,      \* the page in each tab
  save,      \* the updateProfile call each tab has in flight
  check,     \* the verifyGithubOwnership call each tab has in flight
  rev,       \* history: how often the row has been written
  crossed    \* history: a save has decided on a URL that was not there any more

rowVars  == <<user, verified, rev, crossed>>
profVars == <<role, rowVars, identity, page, save, check>>

-----------------------------------------------------------------------------
(* The form *)

Template == "template"  \* the first of BIO_TEMPLATES
Account  == "account"   \* the address the user signs in with
OfferedSkills    == {"React"}
OfferedLocations == {"Accra", "Remote"}

Texts == IF role = "developer" THEN {"title", "bio", "location", "contact", "github"}
                               ELSE {"title", "bio", "location", "github"}
Lists == IF role = "developer" THEN {"skills", "entries"} ELSE {"skills"}

\* The developer's page puts something in the place of what it cannot show.
Fill(row) ==
  [f \in Texts \cup Lists |->
     CASE role = "developer" /\ f = "bio" /\ row.bio = None -> Template
       [] role = "developer" /\ f = "location" /\ row.location \notin OfferedLocations -> "Remote"
       [] role = "developer" /\ f = "contact" /\ row.contact = None -> Account
       [] role = "developer" /\ f = "skills" -> row.skills \cap OfferedSkills
       [] OTHER -> row[f]]

\* What the form holds before anything is loaded, and when loading has failed.
Empty == [f \in Texts \cup Lists |-> IF f \in Lists THEN {} ELSE None]

\* Mutant: an empty list is taken for one that was not given.
WrittenUnlessEmpty(row, body) ==
  [f \in DOMAIN row |->
     IF (f \in Lists /\ body[f] # {}) \/ (f \in Texts /\ body[f] # None) THEN body[f] ELSE row[f]]

\* What the row becomes: an empty text was not sent, a list always is.
Written(row, body) ==
  [f \in DOMAIN row |->
     IF f \in Lists \/ (f \in Texts /\ body[f] # None) THEN body[f] ELSE row[f]]

\* The developer's page checks before it sends, the server whatever it is sent.
Refused(body) == body.github = "bad"

-----------------------------------------------------------------------------
NoSave  == [step |-> "none", body |-> Empty, changed |-> FALSE, seen |-> 0, orphan |-> FALSE]
NoCheck == [step |-> "none", url |-> None, seen |-> 0]

\* loaded says that the page has a copy of the profile, whose mark it shows.
\* history: seen is the write that the copy is of, dirty says that the form was
\* edited since it was sent, unsure that the badge is of no row: nothing was
\* loaded, the page has saved another URL, or not it alone has saved.
Page(at, form, badge, n) ==
  [at |-> at, form |-> form, badge |-> badge, told |-> None, dirty |-> FALSE, seen |-> n,
   unsure |-> FALSE, loaded |-> at = "answered"]

ProfileTypeOK ==
  /\ role \in {"developer", "client"}
  /\ verified \in Accounts \cup {None} /\ identity \in Accounts \cup {None}
  /\ \A t \in Tabs :
       /\ page[t].at \in {"closed", "asked", "answered", "open", "away"}
       /\ page[t].told \in {None, "saved", "verified", "error"}
       /\ save[t].step \in {"none", "sent", "checked", "done", "failed"}
       /\ check[t].step \in {"none", "sent", "asked", "done", "failed"}
  /\ rev \in Nat /\ crossed \in BOOLEAN

ProfileInit ==
  /\ \E r \in Rows : role = r.role /\ user = r.user /\ verified = r.verified /\ identity = r.verified
  /\ page = [t \in Tabs |-> Page("closed", Empty, None, 0)]
  /\ save = [t \in Tabs |-> NoSave]
  /\ check = [t \in Tabs |-> NoCheck]
  /\ rev = 0 /\ crossed = FALSE

Open(t) == page[t].at = "open"
Told(t, what) == page' = [page EXCEPT ![t].told = what]

-----------------------------------------------------------------------------
(* Loading the page *)

\* Whatever was in flight goes on without anybody waiting for it.
Leave(t, at) ==
  /\ page' = [page EXCEPT ![t] = Page(at, Empty, None, 0)]
  /\ save' = [save EXCEPT ![t].orphan = (save[t].step # "none")]
  /\ check[t].step = "none" /\ UNCHANGED check

OpenSettings(t) ==
  /\ page[t].at \in {"closed", "open"}
  /\ Leave(t, "asked")
  /\ UNCHANGED <<role, rowVars, identity>>

\* getMe reads the row.
ReadMe(t) ==
  /\ page[t].at = "asked"
  /\ page' = [page EXCEPT ![t] = Page("answered", Fill(user), verified, rev)]
  /\ UNCHANGED <<role, rowVars, identity, save, check>>

\* The answer fills the form; an error leaves it empty, and just as editable.
ShowMe(t) ==
  /\ page[t].at \in {"asked", "answered"}
  /\ \/ page[t].at = "answered" /\ page' = [page EXCEPT ![t].at = "open"]
     \/ page' = [page EXCEPT ![t] = [Page("open", Empty, None, 0) EXCEPT !.told = "error",
                                                                        !.unsure = TRUE]]
  /\ UNCHANGED <<role, rowVars, identity, save, check>>

\* The developer's page has the place and the skills picked from what it offers.
Offers(f, v) ==
  role = "developer" =>
    /\ f = "location" => v \in OfferedLocations
    /\ f = "skills" => v \subseteq OfferedSkills

Edit(t, f, v) ==
  /\ Open(t)
  /\ f \in Texts \cup Lists /\ page[t].form[f] # v /\ Offers(f, v)
  /\ page' = [page EXCEPT ![t].form[f] = v, ![t].dirty = TRUE]
  /\ UNCHANGED <<role, rowVars, identity, save, check>>

-----------------------------------------------------------------------------
(* Saving *)

\* A form that the developer's page finds wrong is not sent.
Submit(t) ==
  /\ Open(t) /\ save[t].step = "none"
  /\ IF role = "developer" /\ Refused(page[t].form)
     THEN Told(t, "error") /\ UNCHANGED save
     ELSE /\ page' = [page EXCEPT ![t].told = None, ![t].dirty = FALSE]
          /\ save' = [save EXCEPT ![t] = [NoSave EXCEPT !.step = "sent", !.body = page[t].form]]
  /\ UNCHANGED <<role, rowVars, identity, check>>

\* updateMe reads the URL there is and compares.
ReadUrl(t) ==
  LET body == save[t].body IN
  /\ save[t].step = "sent" /\ ~Refused(body)
  /\ save' = [save EXCEPT ![t].step = "checked", ![t].seen = rev,
                          ![t].changed = body.github # None /\ body.github # user.github]
  /\ UNCHANGED <<role, rowVars, identity, page, check>>

\* Mutant: the verification outlives its URL.
WriteProfileKeepingBadge(t) ==
  LET s == save[t] IN
  /\ s.step = "checked"
  /\ user' = Written(user, s.body)
  /\ rev' = rev + 1
  /\ crossed' = (s.seen # rev \/ crossed)
  /\ save' = [save EXCEPT ![t].step = "done", ![t].seen = rev + 1]
  /\ UNCHANGED <<role, verified, identity, page, check>>

\* The form is written, and a new URL starts unverified.
WriteProfile(t) ==
  LET s == save[t] IN
  /\ s.step = "checked"
  /\ user' = Written(user, s.body)
  /\ verified' = IF s.changed THEN None ELSE verified
  /\ rev' = rev + 1
  /\ crossed' = (~s.changed /\ (s.seen # rev \/ crossed))
  /\ save' = [save EXCEPT ![t].step = "done", ![t].seen = rev + 1]
  /\ UNCHANGED <<role, identity, page, check>>

\* The call is refused, or fails at any await, or its answer is lost.
SaveFails(t) ==
  /\ save[t].step \in {"sent", "checked", "done"}
  /\ save' = [save EXCEPT ![t].step = "failed"]
  /\ UNCHANGED <<role, rowVars, identity, page, check>>

\* The page says how it went, and does not touch its copy of the profile.
TakeSave(t) ==
  LET s == save[t] IN
  /\ s.step \in {"done", "failed"}
  /\ save' = [save EXCEPT ![t] = NoSave]
  /\ page' = IF s.orphan THEN page
             ELSE [page EXCEPT ![t].told = IF s.step = "done" THEN "saved" ELSE "error",
                               ![t].seen = IF s.step = "done" THEN s.seen ELSE @,
                               ![t].unsure = @ \/ s.changed \/ s.seen # page[t].seen + 1]
  /\ UNCHANGED <<role, rowVars, identity, check>>

-----------------------------------------------------------------------------
(* GitHub *)

\* The page goes to GitHub by way of Supabase, and comes back, with another
\* account linked or none.
ConnectGithub(t) ==
  /\ role = "developer"
  /\ Open(t) /\ check[t].step = "none"
  /\ Leave(t, "away")
  /\ UNCHANGED <<role, rowVars, identity>>

ComeBack(t) ==
  /\ page[t].at = "away"
  /\ identity' \in {identity} \cup Accounts
  /\ page' = [page EXCEPT ![t].at = "asked"]
  /\ UNCHANGED <<role, rowVars, save, check>>

VerifyGithub(t) ==
  /\ role = "developer"
  /\ Open(t) /\ check[t].step = "none"
  /\ Told(t, None)
  /\ check' = [check EXCEPT ![t] = [NoCheck EXCEPT !.step = "sent"]]
  /\ UNCHANGED <<role, rowVars, identity, save>>

\* Supabase is asked for the user's identities.
ReadIdentity(t) ==
  /\ check[t].step = "sent"
  /\ check' = [check EXCEPT ![t].step = IF identity = None THEN "failed" ELSE "asked",
                            ![t].url = identity]
  /\ UNCHANGED <<role, rowVars, identity, page, save>>

\* The URL and its verification are one UPDATE.  No cache is invalidated.
WriteVerified(t) ==
  /\ check[t].step = "asked"
  /\ user' = [user EXCEPT !.github = check[t].url]
  /\ verified' = check[t].url
  /\ rev' = rev + 1
  /\ crossed' = FALSE
  /\ check' = [check EXCEPT ![t].step = "done", ![t].seen = rev + 1]
  /\ UNCHANGED <<role, identity, page, save>>

CheckFails(t) ==
  /\ check[t].step \in {"sent", "asked", "done"}
  /\ check' = [check EXCEPT ![t].step = "failed"]
  /\ UNCHANGED <<role, rowVars, identity, page, save>>

\* The form's URL becomes the one verified, whatever was typed meanwhile, and so
\* does the mark of the copy, if there is one.
TakeCheck(t) ==
  LET c == check[t] IN
  /\ c.step \in {"done", "failed"}
  /\ check' = [check EXCEPT ![t] = NoCheck]
  /\ page' = IF c.step = "failed" THEN [page EXCEPT ![t].told = "error"]
             ELSE [page EXCEPT ![t].told = "verified", ![t].seen = c.seen, ![t].form.github = c.url,
                               ![t].badge = IF page[t].loaded THEN c.url ELSE @,
                               ![t].unsure = ~page[t].loaded,
                               ![t].dirty = @ \/ save[t].step # "none"]
  /\ UNCHANGED <<role, rowVars, identity, save>>

-----------------------------------------------------------------------------
(* Properties *)

\* A GitHub URL that carries a verification is the URL that was verified:
\* whoever saves another one loses the mark, in whatever order tabs save and
\* verify, but for a save that decided before the verification and wrote after.
VerifiedUrlIsTheirs == verified # None /\ ~crossed => user.github = verified

\* A settings page that was the last to write the row, and has nothing in flight,
\* is true.  What it has announced as saved and left unedited is stored, but for
\* texts that were emptied; and while nobody else has written since it was loaded,
\* its badge is the row's, unless the page itself has saved another URL.
SettingsAreTrue ==
  \A t \in Tabs :
    LET p == page[t] IN
    Open(t) /\ p.seen = rev /\ save[t].step = "none" /\ check[t].step = "none" =>
      /\ p.told = "saved" /\ ~p.dirty =>
           \A f \in DOMAIN p.form : p.form[f] # None => Fill(user)[f] = p.form[f]
      /\ ~p.unsure /\ ~crossed => p.badge = verified

\* Types, marks and pages together.
SettingsInv == ProfileTypeOK /\ VerifiedUrlIsTheirs /\ SettingsAreTrue
===============================================================================
