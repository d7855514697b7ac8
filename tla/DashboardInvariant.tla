-------------------------- MODULE DashboardInvariant --------------------------
(***************************************************************************)
(* Why a dashboard is as new as what had been invalidated when it was      *)
(* asked for: what is kept under a key satisfies everybody who has         *)
(* composed that key, and under the present key whoever will.  And why a   *)
(* settings page is true: copies, saves and checks are dated by the write  *)
(* they are of, and what is dated by the last write is of the row.         *)
(***************************************************************************)
EXTENDS Dashboard

Keyed(d) == desk[d].step \in {"lookup", "profile", "parts"}

\* Nothing settles before it is written.
SettledIsWritten ==
  /\ \A w \in due : w.write <= Now(w.part)
  /\ \A p \in Parts : settled[p] <= Now(p)

\* Nobody counts on more than has settled.
BoundsAreKept == \A d \in Desks, p \in Parts : desk[d].since[p] <= Floor[p]

KeysArePast ==
  /\ \A e \in entries : e.key <= version
  /\ \A d \in Desks : Keyed(d) => desk[d].key <= version

NothingReadYet == \A d \in Desks : desk[d].step = "compose" => desk[d].answer = Nothing

\* An answer, stored or being put together under a key, satisfies all who hold
\* that key, and all who may still come to hold it.
Serves(answer, key) ==
  /\ key = version => Meets(answer, Floor)
  /\ \A d \in Desks : Keyed(d) /\ desk[d].key = key => Meets(answer, desk[d].since)

KeysAreFresh ==
  /\ \A e \in entries : Serves(e.answer, e.key)
  /\ \A d \in Desks : Keyed(d) => Serves(desk[d].answer, desk[d].key)

BInv ==
  /\ BoardTypeOK /\ rev \in Nat
  /\ SettledIsWritten
  /\ BoundsAreKept
  /\ KeysArePast
  /\ NothingReadYet
  /\ KeysAreFresh
  /\ DashboardIsRecent

-----------------------------------------------------------------------------
(* The settings *)

\* A form that either page can hold: it has the page's fields, and on the
\* developer's page a place and skills among those offered.
Fillable(form) ==
  /\ DOMAIN form = Texts \cup Lists
  /\ role = "developer" => /\ form.location \in OfferedLocations \cup {None}
                           /\ form.skills \subseteq OfferedSkills

\* The row holds all of a form that was sent.
Stored(form) == \A f \in DOMAIN form : form[f] # None => Fill(user)[f] = form[f]

\* Of a page p, its save s and its check c: what each consists of.
HaveTheirParts(p, s, c) ==
  /\ DOMAIN p = {"at", "form", "badge", "told", "dirty", "seen", "unsure", "loaded"}
  /\ p.at \in {"closed", "asked", "answered", "open", "away"}
  /\ p.told \in {None, "saved", "verified", "error"}
  /\ Fillable(p.form) /\ p.seen \in Nat /\ p.seen <= rev
  /\ p.dirty \in BOOLEAN /\ p.unsure \in BOOLEAN /\ p.loaded \in BOOLEAN
  /\ DOMAIN s = {"step", "body", "changed", "seen", "orphan"}
  /\ s.step \in {"none", "sent", "checked", "done", "failed"}
  /\ Fillable(s.body) /\ s.seen \in Nat /\ s.seen <= rev
  /\ s.changed \in BOOLEAN /\ s.orphan \in BOOLEAN
  /\ DOMAIN c = {"step", "url", "seen"}
  /\ c.step \in {"none", "sent", "asked", "done", "failed"}
  /\ c.seen \in Nat /\ c.seen <= rev

\* Somebody waits for whatever is in flight, unless the page was left.
SomebodyWaits(p, s, c) ==
  (s.step # "none" /\ ~s.orphan) \/ c.step # "none" => p.at = "open"

\* What a page says is saved was sent as the form is, and written as it was sent.
SavedIsStored(p, s) ==
  /\ p.told = "saved" /\ ~p.dirty /\ p.seen = rev => Stored(p.form)
  /\ s.step # "none" /\ ~s.orphan /\ ~p.dirty => p.form = s.body
  /\ s.step = "done" /\ s.seen = rev => Stored(s.body)

\* A save has compared with the URL there is, until the next write.
DecidedOnTheRow(s) ==
  s.step = "checked" /\ s.seen = rev =>
    (s.changed <=> s.body.github # None /\ s.body.github # user.github)

\* A badge that is of the last write is the row's.  So will be that of a page whose
\* own save was the last write, if it kept the URL and was the next to what the
\* page shows, or is about to show.
Kept(s) == s.step = "done" /\ ~s.orphan /\ ~s.changed /\ ~crossed /\ s.seen = rev
BadgeIsTrue(p, s, c) ==
  /\ ~p.unsure /\ ~crossed /\ p.seen = rev /\ p.at \in {"answered", "open"} => p.badge = verified
  /\ Kept(s) /\ s.seen = p.seen + 1 /\ ~p.unsure => p.badge = verified
  /\ Kept(s) /\ s.seen = c.seen + 1 /\ c.step = "done" => c.url = verified
  /\ c.step = "done" /\ c.seen = rev => c.url = verified
  /\ c.step \in {"asked", "done"} => c.url \in Accounts

TabHolds(p, s, c) ==
  /\ HaveTheirParts(p, s, c)
  /\ SomebodyWaits(p, s, c)
  /\ SavedIsStored(p, s)
  /\ DecidedOnTheRow(s)
  /\ BadgeIsTrue(p, s, c)

RowHolds ==
  /\ role \in {"developer", "client"}
  /\ DOMAIN user = Fields
  /\ verified \in Accounts \cup {None} /\ identity \in Accounts \cup {None}
  /\ rev \in Nat /\ crossed \in BOOLEAN
  /\ VerifiedUrlIsTheirs

ProfInv ==
  /\ RowHolds
  /\ page = [t \in Tabs |-> page[t]] /\ save = [t \in Tabs |-> save[t]]
  /\ check = [t \in Tabs |-> check[t]]
  /\ \A t \in Tabs : TabHolds(page[t], save[t], check[t])
===============================================================================
