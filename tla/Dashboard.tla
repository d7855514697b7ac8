------------------------------ MODULE Dashboard ------------------------------
(***************************************************************************)
(* The developer's dashboard: one answer put together from the profile,    *)
(* its completeness, the developer's projects with their counters and the  *)
(* inbox, each by a query of its own, and cached as a whole for the        *)
(* developer.  Whoever likes or inquires about a project, writes to the    *)
(* developer or saves the settings invalidates it once the write is done;  *)
(* a view and a verified GitHub account do not.  The developer is the      *)
(* author of Engagement's project and the user of Profile's settings.      *)
(***************************************************************************)
EXTENDS Engagement, Profile

CONSTANTS
  Desks,   \* browser tabs with the developer's dashboard
  Mixes    \* bounds: how many requests there are of each kind, and on what

VARIABLES
  mix,      \* the element of Mixes
  moves,    \* how often the user has done something on the settings page
  asked,    \* how often a dashboard was opened
  writes,   \* history: how often the projects and the inbox were written
  due,      \* the handlers that have written and have not invalidated yet
  version,  \* the version of the developer's namespace
  entries,  \* the answers cached, by version
  settled,  \* history: the newest write of each part whose handler has invalidated
  desk      \* the dashboard in each tab

boardVars == <<mix, moves, asked, writes, due, version, entries, settled, desk>>
allVars   == <<vars, profVars, boardVars>>

Parts == {"profile", "completeness", "projects", "inbox"}

\* How often a part was written; completeness is computed from the profile.
Now(p) == IF p \in {"profile", "completeness"} THEN rev ELSE writes[p]

\* answer has the write each part was read at, None while it was not read and
\* where the fallback stands in for it; since is what had settled.
Nothing == [p \in Parts |-> None]
Desk(step, key, answer, unread, since) ==
  [step |-> step, key |-> key, answer |-> answer, unread |-> unread, since |-> since]
Shut == Desk("shut", 0, Nothing, {}, [p \in Parts |-> 0])

Answer == [Parts -> Nat \cup {None}]

BoardTypeOK ==
  /\ version \in Nat
  /\ writes \in [{"projects", "inbox"} -> Nat]
  /\ due \subseteq [part : Parts, write : Nat]
  /\ settled \in [Parts -> Nat]
  /\ entries \subseteq [key : Nat, answer : Answer]
  /\ desk \in [Desks -> [step   : {"shut", "compose", "lookup", "profile", "parts", "shown"},
                         key    : Nat,
                         answer : Answer,
                         unread : SUBSET Parts,
                         since  : [Parts -> Nat]]]

BoardInit ==
  /\ mix \in Mixes
  /\ Init /\ seed \in mix.seeds /\ (mix.calls = 0 => likes = {})
  /\ ProfileInit /\ \E r \in mix.rows : role = r.role /\ user = r.user
  /\ moves = 0 /\ asked = 0
  /\ writes = [p \in {"projects", "inbox"} |-> 0]
  /\ due = {}
  /\ version = 1
  /\ entries = {}
  /\ settled = [p \in Parts |-> 0]
  /\ desk = [d \in Desks |-> Shut]

-----------------------------------------------------------------------------
(* What the dashboard is about *)

\* A part is written; the handler has its invalidation to do, or has none.  Both
\* are left out of a mix in which no dashboard is opened.
Watched == mix.asks > 0
Writes(p) == writes' = IF Watched THEN [writes EXCEPT ![p] = @ + 1] ELSE writes
Owes(p, n) == due' = IF Watched THEN due \cup {[part |-> p, write |-> n]} ELSE due

\* Likes and inquiries, and the developer's own archiving.
ProjectChanges ==
  /\ \/ mix.calls > 0 /\ Archive
     \/ \E c \in Calls : CommitLike(c) \/ CommitUnlike(c) \/ CountInquiry(c)
  /\ Writes("projects") /\ Owes("projects", writes["projects"] + 1)
  /\ UNCHANGED <<profVars, mix, moves, asked, version, entries, settled, desk>>

\* getBySlug counts a view and invalidates nothing.
ProjectIsViewed ==
  /\ \E c \in Calls : CountView(c)
  /\ Writes("projects")
  /\ UNCHANGED <<profVars, mix, moves, asked, due, version, entries, settled, desk>>

\* The other steps of the calls of Engagement.
CallsGoOn ==
  /\ \E c \in Calls :
       \/ /\ made < mix.calls
          /\ \/ \E u \in Users : ToggleLike(c, u) \/ ToggleSave(c, u)
             \/ GetBySlug(c) \/ TrackInquiry(c)
       \/ ReadLike(c) \/ InsertLike(c) \/ DeleteLike(c)
       \/ ReadSave(c) \/ CreateSave(c) \/ DeleteSave(c)
       \/ Fail(c)
  /\ UNCHANGED <<profVars, boardVars>>

\* A message or a notification arrives, or is read.
InboxChanges ==
  /\ writes["inbox"] < mix.mail
  /\ Writes("inbox") /\ Owes("inbox", writes["inbox"] + 1)
  /\ UNCHANGED <<vars, profVars, mix, moves, asked, version, entries, settled, desk>>

\* updateMe has written the row.
ProfileIsSaved ==
  /\ \E t \in Tabs : WriteProfile(t)
  /\ Owes("profile", rev + 1)
  /\ UNCHANGED <<vars, mix, moves, asked, writes, version, entries, settled, desk>>

\* Everything else on the settings page, the GitHub verification included.
SettingsGoOn ==
  /\ \E t \in Tabs :
       \/ /\ moves < mix.moves /\ moves' = moves + 1
          /\ \/ OpenSettings(t) \/ Submit(t) \/ ConnectGithub(t) \/ VerifyGithub(t)
             \/ \E e \in Edits : Edit(t, e[1], e[2])
       \/ /\ UNCHANGED moves
          /\ \/ ReadMe(t) \/ ShowMe(t) \/ ComeBack(t)
             \/ ReadUrl(t) \/ SaveFails(t) \/ TakeSave(t)
             \/ ReadIdentity(t) \/ WriteVerified(t) \/ CheckFails(t) \/ TakeCheck(t)
  /\ UNCHANGED <<vars, mix, asked, writes, due, version, entries, settled, desk>>

\* Mutant: the handler invalidates the lists and forgets the dashboard.
InvalidateLists(w) ==
  /\ due' = due \ {w}
  /\ settled' = [settled EXCEPT ![w.part] = IF w.write > @ THEN w.write ELSE @]
  /\ UNCHANGED <<vars, profVars, mix, moves, asked, writes, version, entries, desk>>

\* A handler that has written invalidates the developer's namespace.
Invalidate(w) ==
  /\ version' = version + 1
  /\ due' = due \ {w}
  /\ settled' = [settled EXCEPT ![w.part] = IF w.write > @ THEN w.write ELSE @]
  /\ UNCHANGED <<vars, profVars, mix, moves, asked, writes, entries, desk>>

\* ... or dies before it does.
Forget(w) ==
  /\ due' = due \ {w}
  /\ UNCHANGED <<vars, profVars, mix, moves, asked, writes, version, entries, settled, desk>>

-----------------------------------------------------------------------------
(* getDeveloperDashboard, and the page that shows it *)

Put(d, r) == desk' = [desk EXCEPT ![d] = r]
OnlyDesks == UNCHANGED <<vars, profVars, mix, moves, writes, due, version, settled>>

\* What a dashboard that is asked for now may count on.
Floor == [settled EXCEPT !["completeness"] = settled["profile"]]

AskDashboard(d) ==
  /\ desk[d].step \in {"shut", "shown"}
  /\ asked < mix.asks /\ asked' = asked + 1
  /\ Put(d, Desk("compose", 0, Nothing, {}, Floor))
  /\ OnlyDesks /\ UNCHANGED entries

Compose(d) ==
  /\ desk[d].step = "compose"
  /\ Put(d, [desk[d] EXCEPT !.step = "lookup", !.key = version])
  /\ OnlyDesks /\ UNCHANGED <<asked, entries>>

Hit(d) ==
  /\ desk[d].step = "lookup"
  /\ \E e \in entries : e.key = desk[d].key /\ Put(d, [desk[d] EXCEPT !.step = "shown", !.answer = e.answer])
  /\ OnlyDesks /\ UNCHANGED <<asked, entries>>

Miss(d) ==
  /\ desk[d].step = "lookup"
  /\ \A e \in entries : e.key # desk[d].key
  /\ Put(d, [desk[d] EXCEPT !.step = "profile"])
  /\ OnlyDesks /\ UNCHANGED <<asked, entries>>

\* Where the database does not answer, a fallback takes the place of what was
\* asked for.
Answers(n) == {n} \cup (IF mix.fallbacks THEN {None} ELSE {})

\* The profile is read first.
ReadProfile(d) ==
  /\ desk[d].step = "profile"
  /\ \E n \in Answers(rev) :
       Put(d, [desk[d] EXCEPT !.step = "parts", !.unread = Parts \ {"profile"}, !.answer["profile"] = n])
  /\ OnlyDesks /\ UNCHANGED <<asked, entries>>

\* The other queries run side by side.
ReadPart(d, p) ==
  /\ desk[d].step = "parts"
  /\ p \in desk[d].unread
  /\ \E n \in Answers(Now(p)) : Put(d, [desk[d] EXCEPT !.unread = @ \ {p}, !.answer[p] = n])
  /\ OnlyDesks /\ UNCHANGED <<asked, entries>>

\* Mutant: the key is composed again when the answer is stored.
StoreUnderNewest(d) ==
  /\ desk[d].step = "parts" /\ desk[d].unread = {}
  /\ entries' = {e \in entries : e.key # version} \cup {[key |-> version, answer |-> desk[d].answer]}
  /\ Put(d, [desk[d] EXCEPT !.step = "shown"])
  /\ OnlyDesks /\ UNCHANGED asked

\* The answer is cached, with its fallbacks too, and sent.
Store(d) ==
  /\ desk[d].step = "parts" /\ desk[d].unread = {}
  /\ entries' = {e \in entries : e.key # desk[d].key}
                  \cup {[key |-> desk[d].key, answer |-> desk[d].answer]}
  /\ Put(d, [desk[d] EXCEPT !.step = "shown"])
  /\ OnlyDesks /\ UNCHANGED asked

\* Whatever goes wrong, the page takes it that nobody is signed in.
GoToLogin(d) ==
  /\ desk[d].step \notin {"shut", "shown"}
  /\ Put(d, Shut)
  /\ OnlyDesks /\ UNCHANGED <<asked, entries>>

\* After 30 seconds, or 5 with a fallback.
Expire(e) ==
  /\ entries' = entries \ {e}
  /\ OnlyDesks /\ UNCHANGED <<asked, desk>>

BoardNext ==
  \/ ProjectChanges \/ ProjectIsViewed \/ CallsGoOn \/ InboxChanges
  \/ ProfileIsSaved \/ SettingsGoOn
  \/ \E w \in due : Invalidate(w) \/ Forget(w)
  \/ \E d \in Desks :
       \/ AskDashboard(d) \/ Compose(d) \/ Hit(d) \/ Miss(d) \/ ReadProfile(d)
       \/ \E p \in Parts : ReadPart(d, p)
       \/ Store(d) \/ GoToLogin(d)
  \/ \E e \in entries : Expire(e)

BoardSpec == BoardInit /\ [][BoardNext]_allVars

-----------------------------------------------------------------------------
(* Properties *)

\* Each part that was read is as new as its bound.
Meets(answer, bound) == \A p \in Parts : answer[p] # None => answer[p] >= bound[p]

\* No part of a dashboard is older than what had been written and invalidated
\* when it was asked for, however its queries, the store and the handlers that
\* write fall between each other; a fallback stands for nothing.
DashboardIsRecent ==
  \A d \in Desks : desk[d].step = "shown" => Meets(desk[d].answer, desk[d].since)

\* Types, and dashboards that are recent.
BoardInv == BoardTypeOK /\ DashboardIsRecent
===============================================================================
