-------------------------- MODULE ProjectPageProofs --------------------------
(***************************************************************************)
(* For any number of handlers, projects, files and losses: what the page   *)
(* says is so, no button stays disabled, a page at rest shows what is      *)
(* stored, and no screenshot is lost but in the ways the page has of       *)
(* losing one.  A page may lag behind its project at any time; so copies   *)
(* and answers are dated by the number of writes they have seen, and who   *)
(* has written the project is who will read it again.                      *)
(***************************************************************************)
EXTENDS ProjectPage, TLAPS

-----------------------------------------------------------------------------
(* One handler *)

Rereads == Uploads \cup {"load", "save", "drop"}

\* At which steps a handler is, and whether it is about a project that is there:
\* a creation from its answer on; an upload of the form for a new project is about none.
KnowsItsProject(w) ==
  /\ w.kind = "load" => w.step \in {"again", "reply"}
  /\ w.kind \in {"status", "like"} => w.step \in {"out", "back"}
  /\ w.kind \in Uploads => w.step \in {"out", "again", "reply"}
  /\ w.kind \notin {"free", "create"} /\ ~(w.kind \in Uploads /\ w.step = "out") => w.slug # 0
  /\ w.kind = "create" /\ w.step # "out" => w.slug # 0
  /\ w.kind = "free" => w.slug = 0 /\ w.step = "out"
  /\ w.slug <= Len(projects)

\* Its answer is a project, read before now.
HasItsAnswer(w) ==
  /\ w.rev <= rev
  /\ \/ w.kind \in Rereads /\ w.step = "reply"
     \/ w.kind \in {"status", "like"} /\ w.step = "back"
     => w.row \in Row

\* Only an upload has files, and only the row of a video is written apart.
HasItsFiles(w) ==
  /\ DOMAIN w.files # {} <=> w.kind \in Uploads
  /\ w.step # "out" => \A u \in DOMAIN w.files : w.files[u] = "back"
  /\ w.slug = 0 \/ w.kind # "VIDEO" => \A u \in DOMAIN w.files : w.files[u] # "row"

\* Until its page goes away, it is about the project that the page shows.
IsOfThePage(w) ==
  /\ w.mounted /\ w.kind \notin {"free", "create"} => w.slug = at
  /\ w.kind = "create" => (w.mounted <=> at = 0)
  /\ ~w.mounted /\ w.kind \in {"save", "drop"} => w.slug # at
  /\ w.mounted /\ w.kind \in {"status", "like"} => copy \in Row
  /\ at = 0 => w.kind \in Uploads \cup {"free", "create"} /\ (w.kind \in Uploads => w.slug = 0)

\* A creation publishes the draft that it has made.
Publishes(w) ==
  w.kind = "create" =>
    /\ w.step \in {"back", "again"} => projects[w.slug].scalar["status"] = "DRAFT"
    /\ w.step = "reply" => projects[w.slug].scalar["status"] = "PUBLISHED"
    /\ w.step \in {"again", "reply"} => w.publish

\* What may run for a guest, and for an author.
SuitsTheViewer(w) ==
  /\ viewer = "guest" => /\ w.kind \in {"free", "load", "status", "like"}
                         /\ w.kind # "free" => w.slug = 1 /\ w.mounted
  /\ viewer = "author" => w.kind # "like"

HandlerHolds(w) ==
  /\ KnowsItsProject(w) /\ HasItsAnswer(w) /\ HasItsFiles(w)
  /\ IsOfThePage(w) /\ Publishes(w) /\ SuitsTheViewer(w)

-----------------------------------------------------------------------------
(* Handlers and flags *)

\* While one that runs alone is under way, its flag is set.
AloneUnderItsFlag ==
  \A i \in Slots : wire[i].mounted /\ wire[i].kind \in {"save", "create", "drop", "like"} =>
    /\ FlagOf(wire[i].kind) \in busy
    /\ \A j \in Slots \ {i} : ~(wire[j].mounted /\ wire[j].kind = wire[i].kind)

FlagsHaveOwners ==
  \A f \in busy : \E i \in Slots :
    /\ wire[i].mounted
    /\ wire[i].kind \notin {"free", "load", "status"}
    /\ FlagOf(wire[i].kind) = f

\* Nobody but its creation knows a project before a redirect is due to it.
Making(w) == w.kind = "create" /\ w.step # "out"
NewAreUnknown ==
  /\ timers \subseteq DOMAIN projects
  /\ \A n \in timers : n # at /\ \A i \in Slots : wire[i].slug # n
  /\ \A i \in Slots : Making(wire[i]) =>
       /\ wire[i].slug # at
       /\ told # None => told.slug # wire[i].slug
       /\ \A j \in Slots \ {i} : wire[j].slug # wire[i].slug

ToldIsThere ==
  told # None => at = 0 /\ told.slug \in DOMAIN projects

PageShape ==
  /\ at = 0 => copy = None /\ ~known
  /\ at # 0 /\ editing => copy \in Row
  /\ viewer = "guest" => at = 1 /\ timers = {} /\ ~editing /\ told = None
  /\ editing => at # 0

-----------------------------------------------------------------------------
(* What the page shows *)

\* At d the project of the page was last written: what was read since is as it is
\* stored, and a page that was read before will be read again.
Refreshes(w, d) == w.mounted /\ w.kind \in Rereads /\ (w.step = "reply" => w.rev >= d)
AuthorFresh(d) ==
  /\ copy # None /\ copyRev >= d => copy = projects[at]
  /\ \A i \in Slots : LET w == wire[i] IN
       w.mounted /\ w.kind \in Rereads /\ w.step = "reply" /\ w.rev >= d => w.row = projects[at]
  /\ "behind" \notin excused => copyRev >= d \/ \E i \in Slots : Refreshes(wire[i], d)

NobodyLikes(row) == row.likes = 0
AuthorReads ==
  viewer = "author" =>
    /\ \A n \in DOMAIN projects : NobodyLikes(projects[n])
    /\ copy # None => NobodyLikes(copy)
    /\ \A i \in Slots : wire[i].row # None => NobodyLikes(wire[i].row)
    /\ at # 0 => \E d \in 0 .. rev : AuthorFresh(d)

\* The guest's page differs from what is stored in the likes at most; at d they were
\* last changed.
OneOf(row) == row.media = projects[1].media /\ row.scalar = projects[1].scalar
Tells(w, d) == w.mounted /\ w.kind \in {"status", "like"} /\ (w.step = "back" => w.rev >= d)
GuestFresh(d) ==
  /\ \A i \in Slots : LET w == wire[i] IN
       w.kind \in {"status", "like"} /\ w.step = "back" /\ w.rev >= d =>
         w.row.likes = projects[1].likes /\ w.liked = liked
  /\ "unliked" \notin excused /\ known /\ copy # None =>
       \/ likeRev >= d /\ copy.likes = projects[1].likes /\ isLiked = liked
       \/ \E i \in Slots : Tells(wire[i], d)
GuestReads ==
  viewer = "guest" =>
    /\ projects[1].likes = (IF liked THEN 1 ELSE 0)
    /\ copy # None => OneOf(copy)
    /\ \A i \in Slots : wire[i].row # None => OneOf(wire[i].row)
    /\ \E d \in 0 .. rev : GuestFresh(d)

-----------------------------------------------------------------------------
(* Screenshots and videos *)

\* What was uploaded is in the form that will be sent, in what has been sent and
\* will be written, and in what is stored.
KeptAreInForms ==
  /\ at = 0 => kept \subseteq form.shots
  /\ "lost" \notin excused =>
       /\ editing => kept \subseteq form.shots
       /\ at # 0 => kept \subseteq Gallery(projects[at])
       /\ \A i \in Slots :
            /\ At(i, {"save", "create"}, "out") /\ wire[i].mounted => kept \subseteq wire[i].form.shots
            /\ at = 0 /\ Making(wire[i]) => kept \subseteq Gallery(projects[wire[i].slug])
            /\ At(i, {"SCREENSHOT"}, "out") /\ wire[i].mounted /\ at # 0 =>
                 \A u \in DOMAIN wire[i].files :
                   wire[i].files[u] = "back" => u \in Gallery(projects[at])
       /\ at = 0 => \A n \in timers : kept \subseteq Gallery(projects[n])

VideosAreKnown ==
  \A n \in DOMAIN projects :
    projects[n].scalar["video"] = None =>
      \/ \A m \in projects[n].media : m.type # "VIDEO"
      \/ n \in torn
      \/ \E i \in Slots : \E u \in DOMAIN wire[i].files : wire[i].slug = n /\ wire[i].files[u] = "row"

PInv ==
  /\ TypeOK
  /\ \A i \in Slots : HandlerHolds(wire[i])
  /\ AloneUnderItsFlag /\ FlagsHaveOwners
  /\ NewAreUnknown /\ ToldIsThere /\ AnnouncedAsStored /\ PageShape
  /\ AuthorReads /\ GuestReads
  /\ KeptAreInForms /\ VideosAreKnown

-----------------------------------------------------------------------------
(* The operators *)

Steps == {"out", "back", "again", "reply"}

LEMMA GalleryIs ==
  ASSUME NEW row, NEW u
  PROVE  u \in Gallery(row) <=> \E m \in row.media : m.type \in {"SCREENSHOT", "IMAGE"} /\ m.url = u
  BY DEF Gallery

LEMMA FilesAre ==
  ASSUME NEW f
  PROVE  f \in UNION {[S -> {"out", "row", "back"}] : S \in SUBSET Urls}
           <=> \E S \in SUBSET Urls : f \in [S -> {"out", "row", "back"}]
  OBVIOUS

LEMMA WorkFields ==
  ASSUME NEW w \in Work
  PROVE  /\ w.liked \in BOOLEAN /\ w.form \in Form /\ w.rev \in Nat /\ w.row \in Row \cup {None}
         /\ w.kind \in Kinds /\ w.step \in Steps /\ w.slug \in 0 .. MaxCreated
         /\ w.mounted \in BOOLEAN /\ w.publish \in BOOLEAN
         /\ w.files \in [DOMAIN w.files -> {"out", "row", "back"}] /\ DOMAIN w.files \subseteq Urls
  <1>1. w.files \in UNION {[S -> {"out", "row", "back"}] : S \in SUBSET Urls}
    BY DEF Work
  <1>2. PICK S \in SUBSET Urls : w.files \in [S -> {"out", "row", "back"}]
    BY <1>1, FilesAre
  <1>3. QED
    BY <1>2 DEF Work, Steps

\* A record with these fields is a handler.
LEMMA IsWork ==
  ASSUME NEW l \in BOOLEAN, NEW f \in Form, NEW r \in Nat, NEW row \in Row \cup {None}, NEW k \in Kinds,
         NEW s \in Steps, NEW n \in 0 .. MaxCreated, NEW m \in BOOLEAN, NEW p \in BOOLEAN,
         NEW fs, NEW S \in SUBSET Urls, fs \in [S -> {"out", "row", "back"}]
  PROVE  [liked |-> l, form |-> f, rev |-> r, row |-> row, kind |-> k, step |-> s, slug |-> n,
          mounted |-> m, publish |-> p, files |-> fs] \in Work
  <1>1. fs \in UNION {[T -> {"out", "row", "back"}] : T \in SUBSET Urls}
    BY FilesAre
  <1>2. QED
    BY <1>1 DEF Work, Steps

LEMMA BlankIsAForm ==
  Blank \in Form /\ Blank.shots = {}
  BY DEF Blank, Form, Value, Statuses, Scalars

LEMMA StartFields ==
  ASSUME NEW kind, NEW step
  PROVE  LET w == Start(kind, step) IN
         /\ ~w.liked /\ w.form = Blank /\ w.rev = 0 /\ w.row = None /\ w.kind = kind /\ w.step = step
         /\ w.slug = at /\ w.mounted /\ ~w.publish /\ w.files = NoFiles /\ DOMAIN w.files = {}
         /\ kind \in Kinds /\ step \in Steps /\ at \in 0 .. MaxCreated => w \in Work
  <1> DEFINE w == Start(kind, step)
  <1>1. /\ w.form = Blank /\ w.rev = 0 /\ w.row = None /\ w.kind = kind /\ w.step = step
        /\ w.slug = at /\ w.mounted /\ w.files = NoFiles
    BY DEF Start
  <1>2. w.liked \in BOOLEAN /\ ~w.liked /\ w.publish \in BOOLEAN /\ ~w.publish /\ w.mounted \in BOOLEAN
    BY DEF Start
  <1>3. w = [liked |-> w.liked, form |-> w.form, rev |-> w.rev, row |-> w.row, kind |-> w.kind,
             step |-> w.step, slug |-> w.slug, mounted |-> w.mounted, publish |-> w.publish,
             files |-> w.files]
    BY DEF Start
  <1>4. NoFiles \in [{} -> {"out", "row", "back"}] /\ {} \in SUBSET Urls /\ DOMAIN NoFiles = {}
    BY DEF NoFiles
  <1> HIDE DEF w
  <1>5. ASSUME kind \in Kinds, step \in Steps, at \in 0 .. MaxCreated
        PROVE  w \in Work
    <2>1. /\ w.form \in Form /\ w.rev \in Nat /\ w.row \in Row \cup {None} /\ w.kind \in Kinds
          /\ w.step \in Steps /\ w.slug \in 0 .. MaxCreated
      BY <1>1, <1>5, BlankIsAForm
    <2>2. w.files \in [{} -> {"out", "row", "back"}] /\ {} \in SUBSET Urls
      BY <1>1, <1>4
    <2>3. [liked |-> w.liked, form |-> w.form, rev |-> w.rev, row |-> w.row, kind |-> w.kind,
           step |-> w.step, slug |-> w.slug, mounted |-> w.mounted, publish |-> w.publish,
           files |-> w.files] \in Work
      BY <1>2, <2>1, <2>2, IsWork
    <2>4. QED
      BY <1>3, <2>3
  <1>6. QED
    BY <1>1, <1>2, <1>4, <1>5 DEF w

LEMMA FreeFields ==
  /\ Free \in Work /\ Free.kind = "free" /\ Free.step = "out" /\ Free.slug = 0 /\ Free.row = None
  /\ Free.rev = 0 /\ Free.mounted /\ DOMAIN Free.files = {}
  <1> DEFINE w == Free
  <1>1. /\ w.form = Blank /\ w.rev = 0 /\ w.row = None /\ w.kind = "free" /\ w.step = "out"
        /\ w.slug = 0 /\ w.files = NoFiles
    BY DEF Free, Start
  <1>2. w.liked \in BOOLEAN /\ w.publish \in BOOLEAN /\ w.mounted \in BOOLEAN /\ w.mounted
    BY DEF Free, Start
  <1>3. w = [liked |-> w.liked, form |-> w.form, rev |-> w.rev, row |-> w.row, kind |-> w.kind,
             step |-> w.step, slug |-> w.slug, mounted |-> w.mounted, publish |-> w.publish,
             files |-> w.files]
    <2> DEFINE s == Start("free", "out")
    <2>1. s = [liked |-> s.liked, form |-> s.form, rev |-> s.rev, row |-> s.row, kind |-> s.kind,
               step |-> s.step, slug |-> s.slug, mounted |-> s.mounted, publish |-> s.publish,
               files |-> s.files]
      BY DEF Start
    <2>2. w = [s EXCEPT !.slug = 0]
      BY DEF Free
    <2> HIDE DEF s, w
    <2>3. QED
      BY <2>1, <2>2
  <1>4. NoFiles \in [{} -> {"out", "row", "back"}] /\ {} \in SUBSET Urls /\ DOMAIN NoFiles = {}
    BY DEF NoFiles
  <1> HIDE DEF w
  <1>5. /\ w.form \in Form /\ w.rev \in Nat /\ w.row \in Row \cup {None} /\ w.kind \in Kinds
        /\ w.step \in Steps /\ w.slug \in 0 .. MaxCreated
    BY <1>1, BlankIsAForm, ProjectPageAssumption DEF Kinds, Steps
  <1>6. w.files \in [{} -> {"out", "row", "back"}] /\ {} \in SUBSET Urls
    BY <1>1, <1>4
  <1>7. [liked |-> w.liked, form |-> w.form, rev |-> w.rev, row |-> w.row, kind |-> w.kind,
         step |-> w.step, slug |-> w.slug, mounted |-> w.mounted, publish |-> w.publish,
         files |-> w.files] \in Work
    <2>1. w.liked \in BOOLEAN /\ w.mounted \in BOOLEAN /\ w.publish \in BOOLEAN
      BY <1>2
    <2>2. w.files \in UNION {[T -> {"out", "row", "back"}] : T \in SUBSET Urls}
      BY <1>6, FilesAre
    <2>3. QED
      BY <1>5, <2>1, <2>2 DEF Work, Steps
  <1>8. QED
    BY <1>1, <1>2, <1>3, <1>4, <1>7 DEF w

\* The slots that a step leaves as they are.
Others(i) == \A j \in Slots : j # i => wire'[j] = wire[j]

LEMMA WireIsThere ==
  ASSUME TypeOK
  PROVE  wire \in [Slots -> Work]
  BY DEF TypeOK, Slots

LEMMA Becomes ==
  ASSUME wire \in [Slots -> Work], NEW i \in Slots, NEW w \in Work, wire' = [wire EXCEPT ![i] = w]
  PROVE  wire' \in [Slots -> Work] /\ wire'[i] = w /\ Others(i)
  BY DEF Others

LEMMA PutTakesAFreeSlot ==
  ASSUME NEW w \in [Slots -> Work], Room(w), NEW r \in Work
  PROVE  \E i \in Slots : /\ w[i].kind = "free"
                          /\ Put(w, r) \in [Slots -> Work] /\ Put(w, r)[i] = r
                          /\ \A j \in Slots : j # i => Put(w, r)[j] = w[j]
  <1> DEFINE i == CHOOSE i \in FreeSlots(w) : TRUE
  <1>1. i \in FreeSlots(w)
    BY DEF Room
  <1>2. i \in Slots /\ w[i].kind = "free"
    BY <1>1 DEF FreeSlots
  <1>3. Put(w, r) = [w EXCEPT ![i] = r]
    BY DEF Put
  <1> HIDE DEF i
  <1>4. QED
    BY <1>2, <1>3

\* A handler that takes another step is otherwise as it was.
OnlyStep(v, w) ==
  /\ w.liked = v.liked /\ w.form = v.form /\ w.rev = v.rev /\ w.row = v.row /\ w.kind = v.kind
  /\ w.slug = v.slug /\ w.mounted = v.mounted /\ w.publish = v.publish /\ w.files = v.files

LEMMA StepMoves ==
  ASSUME wire \in [Slots -> Work], NEW i \in Slots, NEW s \in Steps, Step(i, s)
  PROVE  /\ wire' \in [Slots -> Work] /\ Others(i)
         /\ wire'[i].step = s /\ OnlyStep(wire[i], wire'[i])
  <1> DEFINE v == wire[i]
             w == [v EXCEPT !.step = s]
  <1>1. v \in Work
    OBVIOUS
  <1>2. w \in Work /\ w.step = s /\ OnlyStep(v, w)
    BY <1>1 DEF Work, Steps, OnlyStep
  <1>3. wire' = [wire EXCEPT ![i] = w]
    BY DEF Step
  <1> HIDE DEF v, w
  <1>4. QED
    BY <1>2, <1>3, Becomes DEF v

LEMMA DoneFrees ==
  ASSUME wire \in [Slots -> Work], NEW i \in Slots
  PROVE  /\ Done(i) \in [Slots -> Work] /\ Done(i)[i] = Free
         /\ \A j \in Slots : j # i => Done(i)[j] = wire[j]
  BY FreeFields DEF Done

\* What a form writes is a project, with its screenshots; and a video only where
\* it points.
LEMMA SavedIs ==
  ASSUME NEW row \in Row, NEW f \in Form
  PROVE  LET s == Saved(row, f) IN
         /\ s \in Row /\ s.likes = row.likes
         /\ s.scalar["video"] = f.scalar["video"]
         /\ f.shots \subseteq Gallery(s)
         /\ s.scalar["video"] = None => \A m \in s.media : m.type # "VIDEO"
  <1> DEFINE s == Saved(row, f)
  <1> DEFINE sc == [k \in Scalars |-> IF k = "role" /\ f.scalar[k] = None THEN row.scalar[k] ELSE f.scalar[k]]
             me == {m \in row.media : /\ m.type # "SCREENSHOT"
                                      /\ m.type = "VIDEO" => f.scalar["video"] # None}
                     \cup ScreenshotRows(f.shots)
  <1>1. s = [row EXCEPT !.scalar = sc, !.media = me]
    BY DEF Saved
  <1> HIDE DEF s
  <1>3. /\ row.likes \in 0 .. 1 /\ row.media \subseteq Media /\ row.scalar \in [Scalars -> Value]
        /\ f.scalar \in [Scalars -> Value] /\ f.shots \subseteq Urls
    BY DEF Row, Form
  <1>4. \A m \in ScreenshotRows(f.shots) : m \in Media /\ m.type = "SCREENSHOT"
    BY <1>3 DEF ScreenshotRows, Media
  <1>5. me \in SUBSET Media
    BY <1>3, <1>4
  <1>6. sc \in [Scalars -> Value] /\ sc["video"] = f.scalar["video"]
    BY <1>3 DEF Scalars
  <1>7. \A u \in f.shots : [type |-> "SCREENSHOT", url |-> u] \in me
    BY DEF ScreenshotRows
  <1>8. sc["video"] = None => \A m \in me : m.type # "VIDEO"
    BY <1>4, <1>6
  <1> HIDE DEF sc, me
  <1>9. s \in Row /\ s.likes = row.likes /\ s.scalar = sc /\ s.media = me
    BY <1>1, <1>5, <1>6 DEF Row
  <1>10. \A u \in f.shots : u \in Gallery(s)
    BY <1>7, <1>9, GalleryIs
  <1>11. QED
    BY <1>6, <1>8, <1>9, <1>10 DEF s

LEMMA DroppedIs ==
  ASSUME NEW row \in Row
  PROVE  LET s == Dropped(row) IN
         /\ s \in Row /\ s.likes = row.likes
         /\ Gallery(row) \subseteq Gallery(s)
         /\ \A m \in s.media : m.type # "VIDEO"
  <1> DEFINE s == Dropped(row)
  <1> DEFINE sc == [row.scalar EXCEPT !["video"] = None]
             me == {m \in row.media : m.type # "VIDEO"}
  <1>1. s = [row EXCEPT !.scalar = sc, !.media = me]
    BY DEF Dropped, Row
  <1> HIDE DEF s
  <1>2. sc \in [Scalars -> Value] /\ me \in SUBSET Media
    BY DEF Row, Value
  <1>3. \A m \in me : m \in row.media /\ m.type # "VIDEO"
    OBVIOUS
  <1>9. \A m \in row.media : m.type # "VIDEO" => m \in me
    OBVIOUS
  <1> HIDE DEF sc, me
  <1>4. s \in Row /\ s.likes = row.likes /\ s.scalar = sc /\ s.media = me
    BY <1>1, <1>2 DEF Row
  <1>5. Gallery(row) \subseteq Gallery(s)
    BY <1>4, <1>9, GalleryIs
  <1>6. QED
    BY <1>3, <1>4, <1>5 DEF s

-----------------------------------------------------------------------------
(* What a step leaves as it was, part by part *)

\* Of the handlers that are not concerned.
LEMMA OthersHold ==
  ASSUME TypeOK, TypeOK', NEW i \in Slots, HandlerHolds(wire[i]), wire'[i] = wire[i],
         viewer' = viewer, at' = at, rev <= rev', Len(projects) <= Len(projects'),
         copy \in Row => copy' \in Row,
         Making(wire[i]) => projects'[wire[i].slug].scalar["status"] = projects[wire[i].slug].scalar["status"]
  PROVE  HandlerHolds(wire[i])'
  <1> DEFINE w == wire[i]
  <1>1. w \in Work /\ w.rev \in Nat /\ w.slug \in Nat /\ rev \in Nat /\ rev' \in Nat
        /\ Len(projects) \in Nat /\ Len(projects') \in Nat
    <2>1. w \in Work
      BY WireIsThere
    <2>2. w.rev \in Nat /\ w.slug \in Nat
      BY <2>1, WorkFields
    <2>3. projects \in Seq(Row) /\ projects' \in Seq(Row) /\ rev \in Nat /\ rev' \in Nat
      BY DEF TypeOK
    <2>4. QED
      BY <2>1, <2>2, <2>3
  <1>2. KnowsItsProject(w)' /\ HasItsAnswer(w)' /\ HasItsFiles(w)' /\ IsOfThePage(w)' /\ SuitsTheViewer(w)'
    BY <1>1 DEF HandlerHolds, KnowsItsProject, HasItsAnswer, HasItsFiles, IsOfThePage, SuitsTheViewer
  <1>3. Publishes(w)'
    BY <1>1 DEF HandlerHolds, KnowsItsProject, Publishes, Making
  <1>4. QED
    BY <1>2, <1>3 DEF HandlerHolds

FlagsHold == AloneUnderItsFlag /\ FlagsHaveOwners

\* Handlers go on, and no flag changes.
LEMMA FlagsStay ==
  ASSUME FlagsHold, busy' = busy,
         \A j \in Slots : wire'[j].kind = wire[j].kind /\ wire'[j].mounted = wire[j].mounted
  PROVE  FlagsHold'
  BY DEF FlagsHold, AloneUnderItsFlag, FlagsHaveOwners

\* A handler ends, or is left by its page, and its flag is cleared.
LEMMA FlagsEnd ==
  ASSUME FlagsHold, NEW i \in Slots, Others(i),
         ~(wire'[i].mounted /\ wire'[i].kind # "free"),
         busy' = IF wire[i].mounted /\ wire[i].kind \notin {"load", "status"}
                 THEN busy \ {FlagOf(wire[i].kind)} ELSE busy,
         wire[i].kind # "free"
  PROVE  FlagsHold'
  <1>1. AloneUnderItsFlag'
    <2>1. SUFFICES ASSUME NEW j \in Slots, wire'[j].mounted, wire'[j].kind \in {"save", "create", "drop", "like"}
                   PROVE  /\ FlagOf(wire'[j].kind) \in busy'
                          /\ \A k \in Slots \ {j} : ~(wire'[k].mounted /\ wire'[k].kind = wire'[j].kind)
      BY DEF AloneUnderItsFlag
    <2>2. j # i /\ wire'[j] = wire[j]
      BY <2>1 DEF Others
    <2>3. /\ FlagOf(wire[j].kind) \in busy
          /\ \A k \in Slots \ {j} : ~(wire[k].mounted /\ wire[k].kind = wire[j].kind)
      BY <2>1, <2>2 DEF FlagsHold, AloneUnderItsFlag
    <2>4. wire[i].mounted => FlagOf(wire[i].kind) # FlagOf(wire[j].kind)
      BY <2>1, <2>2, <2>3 DEF FlagOf
    <2>5. QED
      BY <2>1, <2>2, <2>3, <2>4 DEF Others
  <1>2. FlagsHaveOwners'
    <2>1. SUFFICES ASSUME NEW f \in busy'
                   PROVE  \E j \in Slots : /\ wire'[j].mounted /\ wire'[j].kind \notin {"free", "load", "status"}
                                           /\ FlagOf(wire'[j].kind) = f
      BY DEF FlagsHaveOwners
    <2>2. PICK j \in Slots : /\ wire[j].mounted /\ wire[j].kind \notin {"free", "load", "status"}
                             /\ FlagOf(wire[j].kind) = f
      BY <2>1 DEF FlagsHold, FlagsHaveOwners
    <2>3. j # i
      BY <2>1, <2>2
    <2>4. QED
      BY <2>2, <2>3 DEF Others
  <1>3. QED
    BY <1>1, <1>2 DEF FlagsHold

\* A handler begins and sets its flag, if it has one.
LEMMA FlagsBegin ==
  ASSUME FlagsHold, NEW i \in Slots, Others(i), wire[i].kind = "free",
         wire'[i].mounted, wire'[i].kind # "free",
         busy' = IF wire'[i].kind \in {"load", "status"} THEN busy ELSE busy \cup {FlagOf(wire'[i].kind)},
         wire'[i].kind \in {"save", "create", "drop", "like"} => FlagOf(wire'[i].kind) \notin busy
  PROVE  FlagsHold'
  <1>1. AloneUnderItsFlag'
    <2>1. SUFFICES ASSUME NEW j \in Slots, wire'[j].mounted, wire'[j].kind \in {"save", "create", "drop", "like"}
                   PROVE  /\ FlagOf(wire'[j].kind) \in busy'
                          /\ \A k \in Slots \ {j} : ~(wire'[k].mounted /\ wire'[k].kind = wire'[j].kind)
      BY DEF AloneUnderItsFlag
    <2>2. CASE j = i
      <3>1. FlagOf(wire'[j].kind) \in busy'
        BY <2>1, <2>2
      <3>2. ASSUME NEW k \in Slots \ {j}, wire'[k].mounted, wire'[k].kind = wire'[j].kind PROVE FALSE
        <4>1. wire[k].mounted /\ wire[k].kind = wire'[i].kind
          BY <2>2, <3>2 DEF Others
        <4>2. FlagOf(wire[k].kind) \in busy
          BY <2>1, <2>2, <4>1 DEF FlagsHold, AloneUnderItsFlag
        <4>3. QED
          BY <2>1, <2>2, <4>1, <4>2
      <3>3. QED
        BY <3>1, <3>2
    <2>3. CASE j # i
      <3>1. wire'[j] = wire[j]
        BY <2>3 DEF Others
      <3>2. /\ FlagOf(wire[j].kind) \in busy
            /\ \A k \in Slots \ {j} : ~(wire[k].mounted /\ wire[k].kind = wire[j].kind)
        BY <2>1, <3>1 DEF FlagsHold, AloneUnderItsFlag
      <3>3. wire'[i].kind # wire[j].kind
        BY <2>1, <3>1, <3>2
      <3>4. QED
        BY <3>1, <3>2, <3>3 DEF Others
    <2>4. QED
      BY <2>2, <2>3
  <1>2. FlagsHaveOwners'
    <2>1. SUFFICES ASSUME NEW f \in busy'
                   PROVE  \E j \in Slots : /\ wire'[j].mounted /\ wire'[j].kind \notin {"free", "load", "status"}
                                           /\ FlagOf(wire'[j].kind) = f
      BY DEF FlagsHaveOwners
    <2>2. CASE f \in busy
      <3>1. PICK j \in Slots : /\ wire[j].mounted /\ wire[j].kind \notin {"free", "load", "status"}
                               /\ FlagOf(wire[j].kind) = f
        BY <2>2 DEF FlagsHold, FlagsHaveOwners
      <3>2. QED
        BY <3>1 DEF Others
    <2>3. CASE f \notin busy
      BY <2>1, <2>3
    <2>4. QED
      BY <2>2, <2>3
  <1>3. QED
    BY <1>1, <1>2 DEF FlagsHold

NewHold == NewAreUnknown /\ ToldIsThere /\ AnnouncedAsStored

LEMMA NewStay ==
  ASSUME TypeOK, TypeOK', NewHold, \A j \in Slots : KnowsItsProject(wire[j]),
         at' = at, timers' = timers, told' \in {told, None}, Len(projects) <= Len(projects'),
         \A j \in Slots :
           \/ wire'[j].slug = wire[j].slug /\ (Making(wire'[j]) => Making(wire[j]))
           \/ wire'[j].slug \in {0, at} /\ ~Making(wire'[j]),
         \A n \in DOMAIN projects :
           at = 0 /\ (\A j \in Slots : Making(wire[j]) => wire[j].slug # n) =>
             projects'[n].scalar["status"] = projects[n].scalar["status"]
  PROVE  NewHold'
  <1>1. /\ DOMAIN projects = 1 .. Len(projects) /\ DOMAIN projects' = 1 .. Len(projects')
        /\ Len(projects) \in Nat /\ Len(projects') \in Nat
    BY DEF TypeOK
  <1>2. NewAreUnknown'
    <2>1. ASSUME NEW n \in timers PROVE n # at /\ \A j \in Slots : wire'[j].slug # n
      BY <1>1 DEF NewHold, NewAreUnknown
    <2>2. ASSUME NEW j \in Slots, Making(wire'[j])
          PROVE  /\ wire'[j].slug # at
                 /\ told' # None => told'.slug # wire'[j].slug
                 /\ \A k \in Slots \ {j} : wire'[k].slug # wire'[j].slug
      <3>1. wire'[j].slug = wire[j].slug /\ Making(wire[j])
        BY <2>2
      <3>2. /\ wire[j].slug # at /\ wire[j].slug # 0
            /\ told # None => told.slug # wire[j].slug
            /\ \A k \in Slots \ {j} : wire[k].slug # wire[j].slug
        BY <3>1 DEF NewHold, NewAreUnknown, Making, KnowsItsProject
      <3>3. QED
        BY <3>1, <3>2
    <2>3. timers' \subseteq DOMAIN projects'
      BY <1>1 DEF NewHold, NewAreUnknown
    <2>4. QED
      BY <2>1, <2>2, <2>3 DEF NewAreUnknown, Making
  <1>3. ToldIsThere'
    BY <1>1 DEF NewHold, ToldIsThere
  <1>4. AnnouncedAsStored'
    <2>1. SUFFICES ASSUME at = 0, told # None, told' = told
                   PROVE  projects'[told.slug].scalar["status"] = (IF told.published THEN "PUBLISHED" ELSE "DRAFT")
      BY DEF AnnouncedAsStored
    <2>2. told.slug \in DOMAIN projects /\ \A j \in Slots : Making(wire[j]) => wire[j].slug # told.slug
      BY <2>1 DEF NewHold, ToldIsThere, NewAreUnknown
    <2>3. QED
      BY <2>1, <2>2 DEF NewHold, AnnouncedAsStored
  <1>5. QED
    BY <1>2, <1>3, <1>4 DEF NewHold

LEMMA VideosStay ==
  ASSUME VideosAreKnown, torn \subseteq torn',
         \A n \in DOMAIN projects' : projects'[n].scalar["video"] = None =>
           \/ \A m \in projects'[n].media : m.type # "VIDEO"
           \/ \E i \in Slots : \E u \in DOMAIN wire'[i].files : wire'[i].slug = n /\ wire'[i].files[u] = "row"
           \/ /\ n \in DOMAIN projects /\ projects[n].scalar["video"] = None
              /\ \A m \in projects'[n].media : m.type = "VIDEO" => m \in projects[n].media,
         \A i \in Slots : \A u \in DOMAIN wire[i].files : wire[i].files[u] = "row" =>
           \/ wire'[i].slug = wire[i].slug /\ u \in DOMAIN wire'[i].files /\ wire'[i].files[u] = "row"
           \/ wire[i].slug \in torn'
           \/ projects'[wire[i].slug].scalar["video"] # None
  PROVE  VideosAreKnown'
  <1>1. SUFFICES ASSUME NEW n \in DOMAIN projects', projects'[n].scalar["video"] = None,
                        n \notin torn', n \in DOMAIN projects, projects[n].scalar["video"] = None,
                        \A m \in projects'[n].media : m.type = "VIDEO" => m \in projects[n].media
                 PROVE  \/ \A m \in projects'[n].media : m.type # "VIDEO"
                        \/ \E i \in Slots : \E u \in DOMAIN wire'[i].files :
                             wire'[i].slug = n /\ wire'[i].files[u] = "row"
    BY DEF VideosAreKnown
  <1>2. CASE \A m \in projects[n].media : m.type # "VIDEO"
    BY <1>1, <1>2
  <1>3. CASE \E i \in Slots : \E u \in DOMAIN wire[i].files : wire[i].slug = n /\ wire[i].files[u] = "row"
    BY <1>1, <1>3
  <1>4. QED
    BY <1>1, <1>2, <1>3 DEF VideosAreKnown

\* A form that was sent and is not written yet.
Unwritten(w) == w.mounted /\ w.kind \in {"save", "create"} /\ w.step = "out"
Storing(w)   == w.mounted /\ w.kind = "SCREENSHOT" /\ w.step = "out"

LEMMA KeptStay ==
  ASSUME TypeOK, NewAreUnknown, \A j \in Slots : KnowsItsProject(wire[j]), KeptAreInForms,
         at' = at, timers' = timers, kept' \subseteq kept, editing' => editing,
         "lost" \in excused => "lost" \in excused',
         kept' \cap form.shots \subseteq form'.shots,
         \A n \in DOMAIN projects : Gallery(projects[n]) \subseteq Gallery(projects'[n]),
         \A j \in Slots :
           /\ Unwritten(wire'[j]) =>
                \/ Unwritten(wire[j]) /\ wire'[j].form = wire[j].form
                \/ wire'[j].form = form' /\ (editing' \/ at = 0)
           /\ Making(wire'[j]) => Making(wire[j]) /\ wire'[j].slug = wire[j].slug
           /\ Storing(wire'[j]) /\ at # 0 => \A u \in DOMAIN wire'[j].files : wire'[j].files[u] = "back" =>
                \/ u \in Gallery(projects'[at])
                \/ Storing(wire[j]) /\ u \in DOMAIN wire[j].files /\ wire[j].files[u] = "back"
  PROVE  KeptAreInForms'
  <1>1. DOMAIN projects = 1 .. Len(projects) /\ Len(projects) \in Nat /\ at \in 0 .. Len(projects)
    BY DEF TypeOK
  <1>2. at # 0 => at \in DOMAIN projects
    BY <1>1
  <1>3. timers \subseteq DOMAIN projects
    BY DEF NewAreUnknown
  <1>4. \A j \in Slots : Making(wire[j]) => wire[j].slug \in DOMAIN projects
    <2>1. \A j \in Slots : wire[j].slug \in Nat
      BY WireIsThere, WorkFields
    <2>2. QED
      BY <1>1, <2>1 DEF Making, KnowsItsProject
  <1>5. at = 0 => kept' \subseteq form'.shots
    BY DEF KeptAreInForms
  <1>6. ASSUME "lost" \notin excused'
        PROVE  /\ editing' => kept' \subseteq form'.shots
               /\ at # 0 => kept' \subseteq Gallery(projects'[at])
               /\ at = 0 => \A n \in timers : kept' \subseteq Gallery(projects'[n])
    BY <1>2, <1>3, <1>6 DEF KeptAreInForms
  <1>7. ASSUME "lost" \notin excused', NEW j \in Slots
        PROVE  /\ Unwritten(wire'[j]) => kept' \subseteq wire'[j].form.shots
               /\ at = 0 /\ Making(wire'[j]) => kept' \subseteq Gallery(projects'[wire'[j].slug])
               /\ Storing(wire'[j]) /\ at # 0 => \A u \in DOMAIN wire'[j].files :
                    wire'[j].files[u] = "back" => u \in Gallery(projects'[at])
    <2>1. /\ Unwritten(wire[j]) => kept \subseteq wire[j].form.shots
          /\ at = 0 /\ Making(wire[j]) => kept \subseteq Gallery(projects[wire[j].slug])
          /\ Storing(wire[j]) /\ at # 0 => \A u \in DOMAIN wire[j].files :
               wire[j].files[u] = "back" => u \in Gallery(projects[at])
      BY <1>7 DEF KeptAreInForms, Unwritten, Storing, At
    <2>2. Unwritten(wire'[j]) => kept' \subseteq wire'[j].form.shots
      BY <1>5, <1>6, <1>7, <2>1
    <2>3. QED
      BY <1>2, <1>4, <2>1, <2>2
  <1>8. QED
    BY <1>5, <1>6, <1>7 DEF KeptAreInForms, Unwritten, Storing, At, Making

\* What runs now and will read the page's project again, or has just read it.
WillReread(w) == w.mounted /\ w.kind \in Rereads
HasReread(w)  == WillReread(w) /\ w.step = "reply"

NoLikes ==
  /\ \A n \in DOMAIN projects : NobodyLikes(projects[n])
  /\ copy # None => NobodyLikes(copy)
  /\ \A i \in Slots : wire[i].row # None => NobodyLikes(wire[i].row)

LEMMA AuthorStays ==
  ASSUME TypeOK, TypeOK', AuthorReads, viewer' = viewer, at' = at, copy' = copy, copyRev' = copyRev,
         rev <= rev',
         viewer = "author" =>
           /\ NoLikes'
           /\ at # 0 => projects'[at] = projects[at]
           /\ "behind" \in excused => "behind" \in excused'
           /\ \A j \in Slots :
                /\ HasReread(wire'[j]) =>
                     \/ HasReread(wire[j]) /\ wire'[j].rev = wire[j].rev /\ wire'[j].row = wire[j].row
                     \/ wire'[j].row = projects[at]
                /\ "behind" \notin excused' /\ at # 0 /\ WillReread(wire[j]) =>
                     /\ WillReread(wire'[j])
                     /\ HasReread(wire'[j]) =>
                          wire'[j].rev = rev \/ (HasReread(wire[j]) /\ wire'[j].rev = wire[j].rev)
  PROVE  AuthorReads'
  <1>1. SUFFICES ASSUME viewer = "author", at # 0, NEW d \in 0 .. rev, AuthorFresh(d)
                 PROVE  d \in 0 .. rev' /\ AuthorFresh(d)'
    BY DEF AuthorReads, NoLikes
  <1>2. rev \in Nat /\ rev' \in Nat
    BY DEF TypeOK
  <1>3. copy # None /\ copyRev >= d => copy = projects'[at]
    BY <1>1 DEF AuthorFresh
  <1>4. ASSUME NEW j \in Slots, HasReread(wire'[j]), wire'[j].rev >= d
        PROVE  wire'[j].row = projects'[at]
    BY <1>1, <1>4 DEF AuthorFresh, HasReread, WillReread
  <1>5. ASSUME "behind" \notin excused'
        PROVE  copyRev >= d \/ \E j \in Slots : Refreshes(wire'[j], d)
    <2>1. CASE copyRev >= d
      BY <2>1
    <2>2. CASE ~(copyRev >= d)
      <3>1. PICK j \in Slots : Refreshes(wire[j], d)
        BY <1>1, <1>5, <2>2 DEF AuthorFresh
      <3>2. WillReread(wire'[j])
        BY <1>1, <1>5, <3>1 DEF Refreshes, WillReread
      <3>3. HasReread(wire'[j]) => wire'[j].rev >= d
        BY <1>1, <1>2, <1>5, <3>1 DEF Refreshes, WillReread, HasReread
      <3>4. QED
        BY <3>2, <3>3 DEF Refreshes, WillReread, HasReread
    <2>3. QED
      BY <2>1, <2>2
  <1>6. QED
    BY <1>1, <1>2, <1>3, <1>4, <1>5 DEF AuthorFresh, HasReread, WillReread, Refreshes

\* The project is written: whoever did will read it again, or the run is excused.
LEMMA AuthorWrites ==
  ASSUME TypeOK, TypeOK', viewer' = viewer, at' = at, copy' = copy, copyRev' = copyRev, rev' = rev + 1,
         viewer = "author" =>
           /\ NoLikes'
           /\ \A j \in Slots : HasReread(wire'[j]) => wire'[j].rev <= rev
           /\ "behind" \in excused' \/ \E j \in Slots : WillReread(wire'[j]) /\ ~HasReread(wire'[j])
  PROVE  AuthorReads'
  <1>1. rev \in Nat /\ rev' \in Nat /\ copyRev \in 0 .. rev
    BY DEF TypeOK
  <1>2. \A j \in Slots : wire'[j].rev \in Nat
    BY WireIsThere, WorkFields DEF TypeOK, Slots
  <1>3. SUFFICES ASSUME viewer = "author" PROVE NoLikes' /\ \E d \in 0 .. rev' : AuthorFresh(d)'
    BY DEF AuthorReads, NoLikes
  <1>4. ~(copyRev >= rev')
    BY <1>1
  <1>5. ASSUME NEW j \in Slots, HasReread(wire'[j]) PROVE ~(wire'[j].rev >= rev')
    BY <1>1, <1>2, <1>3, <1>5
  <1>6. "behind" \in excused' \/ \E j \in Slots : Refreshes(wire'[j], rev')
    BY <1>3 DEF Refreshes, WillReread, HasReread
  <1>7. ASSUME NEW d \in 0 .. rev', d = rev' PROVE AuthorFresh(d)'
    BY <1>4, <1>5, <1>6, <1>7 DEF AuthorFresh, HasReread, WillReread, Refreshes
  <1>8. rev' \in 0 .. rev'
    BY <1>1
  <1>9. QED
    BY <1>3, <1>7, <1>8

\* A handler shows the project that it has read.
LEMMA AuthorShown ==
  ASSUME TypeOK, TypeOK', AuthorReads, viewer' = viewer, at' = at, at # 0, rev' = rev, projects' = projects,
         NEW i \in Slots, HasReread(wire[i]), wire[i].row \in Row, wire[i].rev <= rev,
         Shown(wire[i].rev, wire[i].row),
         viewer = "author" =>
           \A j \in Slots :
             /\ wire'[j].row # None => wire'[j].row = wire[j].row
             /\ HasReread(wire'[j]) => wire'[j] = wire[j]
             /\ j # i /\ WillReread(wire[j]) => wire'[j] = wire[j]
  PROVE  AuthorReads'
  <1>1. SUFFICES ASSUME viewer = "author"
                 PROVE  NoLikes' /\ \E d \in 0 .. rev : AuthorFresh(d)'
    BY DEF AuthorReads, NoLikes
  <1>2. PICK d \in 0 .. rev : AuthorFresh(d)
    BY <1>1 DEF AuthorReads
  <1>3. rev \in Nat /\ copyRev \in 0 .. rev /\ wire[i].rev \in Nat
    BY WireIsThere, WorkFields DEF TypeOK
  <1>4. copy' = wire[i].row /\ copyRev' = wire[i].rev /\ Overtaken(wire[i].rev, copyRev, "behind")
    BY DEF Shown
  <1>5. NoLikes'
    BY <1>1, <1>4, ProjectPageAssumption DEF AuthorReads, NoLikes
  <1>6. copyRev' >= d => copy' = projects[at]
    BY <1>2, <1>4 DEF AuthorFresh, HasReread, WillReread
  <1>7. \A j \in Slots : HasReread(wire'[j]) /\ wire'[j].rev >= d => wire'[j].row = projects[at]
    BY <1>1, <1>2 DEF AuthorFresh, HasReread, WillReread
  <1>8. ASSUME "behind" \notin excused'
        PROVE  copyRev' >= d \/ \E j \in Slots : Refreshes(wire'[j], d)
    <2>1. CASE wire[i].rev = rev
      BY <1>2, <1>3, <1>4, <2>1
    <2>2. CASE wire[i].rev # rev
      <3>1. wire[i].rev >= copyRev /\ "behind" \notin excused
        BY <1>3, <1>4, <1>8, <2>2 DEF Overtaken
      <3>2. CASE copyRev >= d
        BY <1>2, <1>3, <1>4, <3>1, <3>2
      <3>3. CASE ~(copyRev >= d)
        <4>1. PICK j \in Slots : Refreshes(wire[j], d)
          BY <1>2, <3>1, <3>3 DEF AuthorFresh
        <4>2. CASE j = i
          BY <1>4, <4>1, <4>2 DEF Refreshes, HasReread
        <4>3. CASE j # i
          BY <1>1, <4>1, <4>3 DEF Refreshes, WillReread
        <4>4. QED
          BY <4>2, <4>3
      <3>4. QED
        BY <3>2, <3>3
    <2>3. QED
      BY <2>1, <2>2
  <1>9. AuthorFresh(d)'
    BY <1>6, <1>7, <1>8 DEF AuthorFresh, HasReread, WillReread, Refreshes
  <1>10. QED
    BY <1>2, <1>5, <1>9

\* What will tell the guest's page how many like the project.
Asks(w) == w.mounted /\ w.kind \in {"status", "like"}
Told(w) == w.kind \in {"status", "like"} /\ w.step = "back"

LEMMA GuestStays ==
  ASSUME TypeOK, TypeOK', GuestReads, viewer' = viewer,
         viewer = "guest" =>
           /\ projects'[1] = projects[1] /\ liked' = liked /\ rev <= rev'
           /\ copy' # None => OneOf(copy')
           /\ \A j \in Slots : wire'[j].row # None => OneOf(wire'[j].row)
           /\ \A j \in Slots : Told(wire'[j]) =>
                \/ /\ Told(wire[j]) /\ wire'[j].rev = wire[j].rev
                   /\ wire'[j].row = wire[j].row /\ wire'[j].liked = wire[j].liked
                \/ wire'[j].row.likes = projects[1].likes /\ wire'[j].liked = liked
           /\ "unliked" \notin excused' /\ known' /\ copy' # None =>
                \/ \E j \in Slots : Asks(wire'[j]) /\ ~Told(wire'[j])
                \/ /\ "unliked" \notin excused /\ known /\ copy # None
                   /\ likeRev' = likeRev /\ copy'.likes = copy.likes /\ isLiked' = isLiked
                   /\ \A j \in Slots : Asks(wire[j]) =>
                        /\ Asks(wire'[j])
                        /\ Told(wire'[j]) => wire'[j].rev = rev \/ (Told(wire[j]) /\ wire'[j].rev = wire[j].rev)
  PROVE  GuestReads'
  <1>1. SUFFICES ASSUME viewer = "guest", NEW d \in 0 .. rev, GuestFresh(d)
                 PROVE  /\ projects'[1].likes = (IF liked' THEN 1 ELSE 0)
                        /\ copy' # None => OneOf(copy)'
                        /\ \A j \in Slots : wire'[j].row # None => OneOf(wire[j].row)'
                        /\ d \in 0 .. rev' /\ GuestFresh(d)'
    BY DEF GuestReads
  <1>2. rev \in Nat /\ rev' \in Nat
    BY DEF TypeOK
  <1>3. /\ projects'[1].likes = (IF liked' THEN 1 ELSE 0)
        /\ copy' # None => OneOf(copy)'
        /\ \A j \in Slots : wire'[j].row # None => OneOf(wire[j].row)'
    BY <1>1 DEF GuestReads, OneOf
  <1>4. ASSUME NEW j \in Slots, Told(wire'[j]), wire'[j].rev >= d
        PROVE  wire'[j].row.likes = projects'[1].likes /\ wire'[j].liked = liked'
    BY <1>1, <1>4 DEF GuestFresh, Told
  <1>5. ASSUME "unliked" \notin excused', known', copy' # None
        PROVE  \/ likeRev' >= d /\ copy'.likes = projects'[1].likes /\ isLiked' = liked'
               \/ \E j \in Slots : Asks(wire'[j]) /\ (Told(wire'[j]) => wire'[j].rev >= d)
    <2>1. CASE \E j \in Slots : Asks(wire'[j]) /\ ~Told(wire'[j])
      BY <2>1
    <2>2. CASE ~(\E j \in Slots : Asks(wire'[j]) /\ ~Told(wire'[j]))
      <3>1. /\ "unliked" \notin excused /\ known /\ copy # None
            /\ likeRev' = likeRev /\ copy'.likes = copy.likes /\ isLiked' = isLiked
        BY <1>1, <1>5, <2>2
      <3>2. CASE likeRev >= d /\ copy.likes = projects[1].likes /\ isLiked = liked
        BY <1>1, <3>1, <3>2
      <3>3. CASE \E j \in Slots : Tells(wire[j], d)
        <4>1. PICK j \in Slots : Tells(wire[j], d)
          BY <3>3
        <4>2. /\ Asks(wire'[j])
              /\ Told(wire'[j]) => wire'[j].rev = rev \/ (Told(wire[j]) /\ wire'[j].rev = wire[j].rev)
          BY <1>1, <1>5, <2>2, <4>1 DEF Tells, Asks
        <4>3. Told(wire'[j]) => wire'[j].rev >= d
          BY <1>2, <4>1, <4>2 DEF Tells, Told
        <4>4. QED
          BY <4>2, <4>3
      <3>4. QED
        BY <1>1, <3>1, <3>2, <3>3 DEF GuestFresh
    <2>3. QED
      BY <2>1, <2>2
  <1>6. GuestFresh(d)'
    BY <1>4, <1>5 DEF GuestFresh, Told, Asks, Tells
  <1>7. QED
    BY <1>1, <1>2, <1>3, <1>6

LEMMA OnlyOneViewer ==
  ASSUME viewer' = viewer
  PROVE  /\ viewer = "author" => GuestReads'
         /\ viewer = "guest" => AuthorReads'
  BY DEF GuestReads, AuthorReads

-----------------------------------------------------------------------------
(* What the author does with the form *)

LEMMA MoveCounts ==
  ASSUME TypeOK, Move PROVE moves' \in 0 .. MaxMoves
  BY ProjectPageAssumption DEF TypeOK, Move

LEMMA FormOnly ==
  ASSUME PInv, viewer = "author", TypeOK', PageShape', KeptAreInForms',
         UNCHANGED <<server, viewer, at, known, copy, isLiked, busy, timers, told, wire,
                     rev, copyRev, likeRev, torn>>,
         excused' \in {excused, excused \cup {"lost"}}
  PROVE  PInv'
  <1>1. \A i \in Slots : HandlerHolds(wire[i])'
    BY DEF PInv, server, HandlerHolds, KnowsItsProject, HasItsAnswer, HasItsFiles, IsOfThePage,
           Publishes, SuitsTheViewer
  <1>2. AloneUnderItsFlag' /\ FlagsHaveOwners'
    BY DEF PInv, AloneUnderItsFlag, FlagsHaveOwners
  <1>3. NewAreUnknown' /\ ToldIsThere' /\ AnnouncedAsStored'
    BY DEF PInv, server, NewAreUnknown, Making, ToldIsThere, AnnouncedAsStored
  <1>4. AuthorReads'
    <2>1. \A d \in 0 .. rev : AuthorFresh(d) => AuthorFresh(d)'
      BY DEF server, AuthorFresh, Refreshes
    <2>2. QED
      BY <2>1 DEF PInv, server, AuthorReads
  <1>5. VideosAreKnown'
    BY DEF PInv, server, VideosAreKnown
  <1>6. QED
    BY <1>1, <1>2, <1>3, <1>4, <1>5, OnlyOneViewer DEF PInv

\* The form is filled from the page's project.
LEMMA FillKeeps ==
  ASSUME PInv, Author, Fill, editing' \in BOOLEAN,
         UNCHANGED <<server, viewer, at, copy, timers, wire, rev, copyRev, kept>>
  PROVE  /\ form' \in Form /\ at # 0 /\ viewer = "author" /\ copy \in Row
         /\ excused' \in {excused, excused \cup {"lost"}}
         /\ KeptAreInForms'
  <1>1. copy \in Row /\ at # 0 /\ viewer = "author" /\ rev \in Nat /\ copyRev \in 0 .. rev
    BY DEF PInv, TypeOK, Author, PageShape
  <1>2. form'.shots = Gallery(copy) /\ form' = FormOf(copy)
    BY DEF Fill, FormOf
  <1>3. form' \in Form
    <2>1. Gallery(copy) \subseteq Urls
      BY <1>1, GalleryIs DEF Row, Media
    <2>2. QED
      BY <1>1, <1>2, <2>1 DEF Form, FormOf, Row
  <1>4. excused' \in {excused, excused \cup {"lost"}}
    BY DEF Fill
  <1>5. ASSUME "lost" \notin excused' PROVE kept \subseteq form'.shots
    <2>1. copyRev = rev /\ "lost" \notin excused
      BY <1>5 DEF Fill
    <2>2. PICK d \in 0 .. rev : AuthorFresh(d)
      BY <1>1 DEF PInv, AuthorReads
    <2>3. copy = projects[at]
      BY <1>1, <2>1, <2>2 DEF AuthorFresh, Author
    <2>4. QED
      BY <1>1, <1>2, <2>1, <2>3 DEF PInv, KeptAreInForms
  <1>6. KeptAreInForms'
    BY <1>1, <1>4, <1>5 DEF PInv, KeptAreInForms, At, Making, server
  <1>7. QED
    BY <1>1, <1>3, <1>4, <1>6

LEMMA ToggleEditorStep == ASSUME PInv, ToggleEditor PROVE PInv'
  <1>1. CASE editing'
    <2>1. /\ form' \in Form /\ at # 0 /\ viewer = "author" /\ copy \in Row
          /\ excused' \in {excused, excused \cup {"lost"}} /\ KeptAreInForms'
      BY <1>1, FillKeeps DEF ToggleEditor, Move
    <2>2. TypeOK'
      BY <2>1, MoveCounts DEF PInv, TypeOK, ToggleEditor, server
    <2>3. PageShape'
      BY <2>1 DEF PInv, PageShape, ToggleEditor, Move, server
    <2>4. QED
      BY <2>1, <2>2, <2>3, FormOnly DEF ToggleEditor, Move
  <1>2. CASE ~editing'
    <2>1. UNCHANGED <<form, excused>> /\ editing' \in BOOLEAN
      BY <1>2 DEF ToggleEditor
    <2>2. TypeOK'
      BY <2>1, MoveCounts DEF PInv, TypeOK, ToggleEditor, server
    <2>3. PageShape'
      BY <1>2 DEF PInv, PageShape, ToggleEditor, Move, server
    <2>4. KeptAreInForms'
      BY <1>2, <2>1 DEF PInv, KeptAreInForms, At, Making, ToggleEditor, Move, server
    <2>5. QED
      BY <2>1, <2>2, <2>3, <2>4, FormOnly DEF ToggleEditor, Move, Author
  <1>3. QED
    BY <1>1, <1>2

LEMMA OpenLinkStep == ASSUME PInv, OpenLink PROVE PInv'
  <1>1. /\ form' \in Form /\ at # 0 /\ viewer = "author" /\ copy \in Row
        /\ excused' \in {excused, excused \cup {"lost"}} /\ KeptAreInForms'
    BY FillKeeps DEF OpenLink
  <1>2. TypeOK'
    BY <1>1 DEF PInv, TypeOK, OpenLink, counts, server
  <1>3. PageShape'
    BY <1>1 DEF PInv, PageShape, OpenLink, server
  <1>4. QED
    BY <1>1, <1>2, <1>3, FormOnly DEF OpenLink

LEMMA ResetStep == ASSUME PInv, Reset PROVE PInv'
  <1>1. /\ form' \in Form /\ at # 0 /\ viewer = "author" /\ copy \in Row
        /\ excused' \in {excused, excused \cup {"lost"}} /\ KeptAreInForms'
    BY FillKeeps DEF Reset, Move, PInv, TypeOK
  <1>2. TypeOK'
    BY <1>1, MoveCounts DEF PInv, TypeOK, Reset, server
  <1>3. PageShape'
    BY <1>1 DEF PInv, PageShape, Reset, Move, server
  <1>4. QED
    BY <1>1, <1>2, <1>3, FormOnly DEF Reset, Move

LEMMA CanTypeIsAuthor ==
  ASSUME PInv, CanType PROVE viewer = "author"
  BY DEF PInv, TypeOK, PageShape, CanType, Author

LEMMA TypeStep ==
  ASSUME PInv, NEW f \in Scalars, NEW v \in Value, Type(f, v) PROVE PInv'
  <1>1. form \in Form /\ viewer = "author"
    BY CanTypeIsAuthor DEF PInv, TypeOK, Type
  <1>2. form' \in Form /\ form'.shots = form.shots
    BY <1>1 DEF Type, Form
  <1>3. TypeOK'
    BY <1>2, MoveCounts DEF PInv, TypeOK, Type, server, history
  <1>4. PageShape'
    BY DEF PInv, PageShape, Type, Move, server, history
  <1>5. KeptAreInForms'
    BY <1>2 DEF PInv, KeptAreInForms, At, Making, Type, Move, server, history
  <1>6. QED
    BY <1>1, <1>3, <1>4, <1>5, FormOnly DEF Type, Move, history

LEMMA RemoveScreenshotStep ==
  ASSUME PInv, NEW u \in Urls, RemoveScreenshot(u) PROVE PInv'
  <1>1. form \in Form /\ viewer = "author"
    BY CanTypeIsAuthor DEF PInv, TypeOK, RemoveScreenshot
  <1>2. form' \in Form /\ form'.shots = form.shots \ {u}
    BY <1>1 DEF RemoveScreenshot, Form
  <1>3. TypeOK'
    BY <1>2, MoveCounts DEF PInv, TypeOK, RemoveScreenshot, server
  <1>4. PageShape'
    BY DEF PInv, PageShape, RemoveScreenshot, Move, server
  <1>5. KeptAreInForms'
    BY <1>2 DEF PInv, KeptAreInForms, At, Making, RemoveScreenshot, Move, server
  <1>6. QED
    BY <1>1, <1>3, <1>4, <1>5, FormOnly DEF RemoveScreenshot, Move

-----------------------------------------------------------------------------
(* A handler begins *)

\* What a handler is that begins on this page, and what it may be called with.
Fresh(w, kind) ==
  /\ w \in Work /\ w.kind = kind /\ w.step = "out" /\ w.slug = at /\ w.mounted
  /\ w.rev = 0 /\ w.row = None /\ ~w.publish

LEMMA SendsForm ==
  ASSUME NEW kind \in Kinds, at \in 0 .. MaxCreated, NEW f \in Form
  PROVE  LET w == [Start(kind, "out") EXCEPT !.form = f] IN
         Fresh(w, kind) /\ w.form = f /\ w.files = NoFiles
  <1> DEFINE s == Start(kind, "out")
  <1>1. /\ s \in Work /\ s.kind = kind /\ s.step = "out" /\ s.slug = at /\ s.mounted /\ s.rev = 0
        /\ s.row = None /\ ~s.publish /\ s.files = NoFiles
    BY StartFields DEF Steps
  <1> HIDE DEF s
  <1>2. QED
    BY <1>1 DEF s, Work, Fresh

LEMMA SendsFiles ==
  ASSUME NEW kind \in Kinds, at \in 0 .. MaxCreated, NEW urls \in SUBSET Urls
  PROVE  LET w == [Start(kind, "out") EXCEPT !.files = [u \in urls |-> "out"]] IN
         Fresh(w, kind) /\ w.files = [u \in urls |-> "out"]
  <1> DEFINE s == Start(kind, "out")
             fs == [u \in urls |-> "out"]
  <1>1. /\ s \in Work /\ s.kind = kind /\ s.step = "out" /\ s.slug = at /\ s.mounted /\ s.rev = 0
        /\ s.row = None /\ ~s.publish
    BY StartFields DEF Steps
  <1>2. fs \in UNION {[S -> {"out", "row", "back"}] : S \in SUBSET Urls}
    BY FilesAre
  <1> HIDE DEF s, fs
  <1>3. [s EXCEPT !.files = fs] \in Work
    BY <1>1, <1>2 DEF Work
  <1>4. QED
    BY <1>1, <1>3 DEF s, fs, Work, Fresh

\* The handlers that a step is not about, together.
LEMMA HandlersHold ==
  ASSUME PInv, TypeOK', NEW i \in Slots, Others(i), HandlerHolds(wire[i])',
         viewer' = viewer, at' = at, rev <= rev', Len(projects) <= Len(projects'),
         copy \in Row => copy' \in Row,
         \A j \in Slots : j # i /\ Making(wire[j]) =>
           projects'[wire[j].slug].scalar["status"] = projects[wire[j].slug].scalar["status"]
  PROVE  \A j \in Slots : HandlerHolds(wire[j])'
  BY OthersHold DEF PInv, Others

LEMMA Begins ==
  ASSUME PInv, TypeOK', NEW i \in Slots, wire[i].kind = "free", Others(i),
         UNCHANGED <<server, viewer, at, copy, isLiked, editing, form, timers, history>>,
         told' \in {told, None},
         known' # known => at # 0 /\ wire'[i].kind = "status",
         HandlerHolds(wire[i])',
         wire'[i].mounted, wire'[i].kind # "free", wire'[i].step = "out", wire'[i].row = None,
         wire'[i].slug = at, \A u \in DOMAIN wire'[i].files : wire'[i].files[u] = "out",
         busy' = IF wire'[i].kind \in {"load", "status"} THEN busy ELSE busy \cup {FlagOf(wire'[i].kind)},
         wire'[i].kind \in {"save", "create", "drop", "like"} => FlagOf(wire'[i].kind) \notin busy,
         wire'[i].kind \in {"save", "create"} => wire'[i].form = form /\ (editing \/ at = 0)
  PROVE  PInv'
  <1>0. /\ TypeOK /\ \A j \in Slots : KnowsItsProject(wire[j])
        /\ \A n \in DOMAIN projects : projects'[n] = projects[n]
        /\ projects' = projects /\ liked' = liked /\ rev' = rev /\ excused' = excused /\ torn' = torn
        /\ kept' = kept /\ copyRev' = copyRev /\ likeRev' = likeRev /\ rev \in Nat /\ Len(projects) \in Nat
    BY DEF PInv, HandlerHolds, server, history, TypeOK
  <1>1. \A j \in Slots : HandlerHolds(wire[j])'
    BY <1>0, HandlersHold
  <1>2. FlagsHold'
    BY FlagsBegin DEF PInv, FlagsHold
  <1>3. NewHold'
    <2>1. \A j \in Slots : \/ wire'[j].slug = wire[j].slug /\ (Making(wire'[j]) => Making(wire[j]))
                           \/ wire'[j].slug \in {0, at} /\ ~Making(wire'[j])
      BY DEF Others, Making
    <2>2. QED
      BY <1>0, <2>1, NewStay DEF PInv, NewHold
  <1>4. PageShape'
    BY <1>0 DEF PInv, PageShape, TypeOK
  <1>5. AuthorReads'
    <2>1. viewer = "author" => NoLikes'
      BY <1>0 DEF PInv, AuthorReads, NoLikes, Others
    <2>2. \A j \in Slots : WillReread(wire[j]) => wire'[j] = wire[j]
      BY DEF Others, WillReread, Rereads, Uploads
    <2>3. \A j \in Slots : HasReread(wire'[j]) => wire'[j] = wire[j]
      BY DEF Others, HasReread
    <2>4. QED
      BY <1>0, <2>1, <2>2, <2>3, AuthorStays DEF PInv, HasReread
  <1>6. GuestReads'
    <2>1. \A j \in Slots : Told(wire'[j]) => wire'[j] = wire[j]
      BY DEF Others, Told
    <2>2. \A j \in Slots : Asks(wire[j]) => wire'[j] = wire[j]
      BY DEF Others, Asks
    <2>3. known' # known => Asks(wire'[i]) /\ ~Told(wire'[i])
      BY DEF Asks, Told
    <2>4. viewer = "guest" => /\ copy' # None => OneOf(copy')
                              /\ \A j \in Slots : wire'[j].row # None => OneOf(wire'[j].row)
      BY DEF PInv, GuestReads, Others
    <2>5. known \in BOOLEAN /\ known' \in BOOLEAN
      BY DEF PInv, TypeOK
    <2>6. QED
      BY <1>0, <2>1, <2>2, <2>3, <2>4, <2>5, GuestStays DEF PInv
  <1>7. KeptAreInForms'
    <2>1. \A j \in Slots : Making(wire'[j]) => Making(wire[j]) /\ wire'[j].slug = wire[j].slug
      BY DEF Others, Making
    <2>2. \A j \in Slots : Unwritten(wire'[j]) =>
            \/ Unwritten(wire[j]) /\ wire'[j].form = wire[j].form
            \/ wire'[j].form = form' /\ (editing' \/ at = 0)
      BY DEF Others, Unwritten
    <2>3. \A j \in Slots : Storing(wire'[j]) =>
            \A u \in DOMAIN wire'[j].files : wire'[j].files[u] = "back" =>
              Storing(wire[j]) /\ u \in DOMAIN wire[j].files /\ wire[j].files[u] = "back"
      BY DEF Others, Storing
    <2>4. QED
      BY <1>0, <2>1, <2>2, <2>3, KeptStay DEF PInv
  <1>8. VideosAreKnown'
    <2>1. \A j \in Slots : \A u \in DOMAIN wire[j].files : wire[j].files[u] = "row" => wire'[j] = wire[j]
      <3>1. DOMAIN wire[i].files = {}
        BY DEF PInv, HandlerHolds, HasItsFiles, Uploads
      <3>2. QED
        BY <3>1 DEF Others
    <2>2. QED
      BY <1>0, <2>1, VideosStay DEF PInv
  <1>9. QED
    BY <1>1, <1>2, <1>3, <1>4, <1>5, <1>6, <1>7, <1>8 DEF PInv, FlagsHold, NewHold

LEMMA Sending ==
  ASSUME TypeOK, NEW r \in Work, Send(r)
  PROVE  /\ wire' \in [1 .. MaxWork -> Work]
         /\ \E i \in Slots : wire[i].kind = "free" /\ wire'[i] = r /\ Others(i)
  <1>1. wire \in [Slots -> Work] /\ Room(wire) /\ wire' = Put(wire, r)
    BY WireIsThere DEF Send
  <1>2. PICK i \in Slots : /\ wire[i].kind = "free"
                           /\ Put(wire, r) \in [Slots -> Work] /\ Put(wire, r)[i] = r
                           /\ \A j \in Slots : j # i => Put(wire, r)[j] = wire[j]
    BY <1>1, PutTakesAFreeSlot
  <1>3. QED
    BY <1>1, <1>2 DEF Others, Slots

LEMMA AtIs ==
  ASSUME TypeOK
  PROVE  /\ Len(projects) \in Nat /\ Len(projects) <= MaxCreated /\ at \in 0 .. Len(projects)
         /\ at \in 0 .. MaxCreated /\ DOMAIN projects = 1 .. Len(projects)
         /\ \A n \in DOMAIN projects : projects[n] \in Row
  BY ProjectPageAssumption DEF TypeOK

LEMMA FreshHolds ==
  ASSUME TypeOK', NEW i \in Slots, wire'[i].kind \in Kinds \ {"free", "load"}, wire'[i].step = "out",
         wire'[i].slug = at, wire'[i].mounted, wire'[i].rev = 0, at' = at,
         wire'[i].kind \in Uploads <=> DOMAIN wire'[i].files # {},
         \A u \in DOMAIN wire'[i].files : wire'[i].files[u] = "out",
         wire'[i].kind = "create" => at = 0,
         wire'[i].kind \notin Uploads \cup {"create"} => at # 0,
         wire'[i].kind \in {"status", "like"} => copy' \in Row,
         viewer' = "guest" => wire'[i].kind \in {"status", "like"} /\ at = 1,
         viewer' = "author" => wire'[i].kind # "like"
  PROVE  HandlerHolds(wire[i])'
  <1> DEFINE w == wire[i]
  <1>1. /\ at' \in 0 .. Len(projects') /\ rev' \in Nat /\ Len(projects') \in Nat
    BY DEF TypeOK
  <1>2. KnowsItsProject(w)'
    BY <1>1 DEF KnowsItsProject, Uploads
  <1>3. HasItsAnswer(w)' /\ HasItsFiles(w)'
    BY <1>1 DEF HasItsAnswer, HasItsFiles
  <1>4. IsOfThePage(w)' /\ Publishes(w)' /\ SuitsTheViewer(w)'
    BY DEF IsOfThePage, Publishes, SuitsTheViewer, Uploads
  <1>5. QED
    BY <1>2, <1>3, <1>4 DEF HandlerHolds

LEMMA NoFilesAre ==
  DOMAIN NoFiles = {}
  BY DEF NoFiles

LEMMA SaveStep == ASSUME PInv, Save PROVE PInv'
  <1> DEFINE r == [Start("save", "out") EXCEPT !.form = form]
  <1>1. TypeOK /\ form \in Form /\ at \in 0 .. MaxCreated /\ viewer = "author" /\ at # 0
    BY AtIs DEF PInv, TypeOK, PageShape, Save, Author
  <1>2. Fresh(r, "save") /\ r.form = form /\ DOMAIN r.files = {}
    BY <1>1, SendsForm, NoFilesAre DEF Kinds
  <1>3. Send(r) /\ moves' \in 0 .. MaxMoves
    BY <1>1, MoveCounts DEF Save
  <1> HIDE DEF r
  <1>4. PICK i \in Slots : wire[i].kind = "free" /\ wire'[i] = r /\ Others(i)
    BY <1>1, <1>2, <1>3, Sending DEF Fresh
  <1>5. TypeOK'
    <2>1. wire' \in [1 .. MaxWork -> Work]
      BY <1>1, <1>2, <1>3, Sending DEF Fresh
    <2>2. QED
      BY <1>1, <1>3, <2>1 DEF TypeOK, Save, Flag, Flags, server, history
  <1>6. HandlerHolds(wire[i])'
    BY <1>1, <1>2, <1>4, <1>5, FreshHolds DEF Save, Kinds, Uploads, Fresh
  <1>7. QED
    BY <1>1, <1>2, <1>4, <1>5, <1>6, Begins DEF Save, Flag, Fresh, FlagOf

LEMMA DeleteVideoStep == ASSUME PInv, DeleteVideo PROVE PInv'
  <1> DEFINE r == Start("drop", "out")
  <1>1. TypeOK /\ at \in 0 .. MaxCreated /\ viewer = "author" /\ at # 0
    BY AtIs DEF PInv, TypeOK, PageShape, DeleteVideo, Author
  <1>2. Fresh(r, "drop") /\ DOMAIN r.files = {}
    BY <1>1, StartFields DEF Kinds, Fresh, Steps
  <1>3. Send(r) /\ moves' \in 0 .. MaxMoves
    BY <1>1, MoveCounts DEF DeleteVideo
  <1> HIDE DEF r
  <1>4. PICK i \in Slots : wire[i].kind = "free" /\ wire'[i] = r /\ Others(i)
    BY <1>1, <1>2, <1>3, Sending DEF Fresh
  <1>5. TypeOK'
    <2>1. wire' \in [1 .. MaxWork -> Work]
      BY <1>1, <1>2, <1>3, Sending DEF Fresh
    <2>2. QED
      BY <1>1, <1>3, <2>1 DEF TypeOK, DeleteVideo, Flag, Flags, server, history
  <1>6. HandlerHolds(wire[i])'
    BY <1>1, <1>2, <1>4, <1>5, FreshHolds DEF DeleteVideo, Kinds, Uploads, Fresh
  <1>7. QED
    BY <1>1, <1>2, <1>4, <1>5, <1>6, Begins DEF DeleteVideo, Flag, Fresh, FlagOf

LEMMA ToggleLikeStep == ASSUME PInv, ToggleLike PROVE PInv'
  <1> DEFINE r == Start("like", "out")
  <1>1. TypeOK /\ at \in 0 .. MaxCreated /\ viewer = "guest" /\ at = 1 /\ copy \in Row
    BY AtIs DEF PInv, TypeOK, PageShape, ToggleLike
  <1>2. Fresh(r, "like") /\ DOMAIN r.files = {}
    BY <1>1, StartFields DEF Kinds, Fresh, Steps
  <1>3. Send(r) /\ moves' \in 0 .. MaxMoves
    BY <1>1, MoveCounts DEF ToggleLike
  <1> HIDE DEF r
  <1>4. PICK i \in Slots : wire[i].kind = "free" /\ wire'[i] = r /\ Others(i)
    BY <1>1, <1>2, <1>3, Sending DEF Fresh
  <1>5. TypeOK'
    <2>1. wire' \in [1 .. MaxWork -> Work]
      BY <1>1, <1>2, <1>3, Sending DEF Fresh
    <2>2. QED
      BY <1>1, <1>3, <2>1 DEF TypeOK, ToggleLike, Flag, Flags, server, history
  <1>6. HandlerHolds(wire[i])'
    BY <1>1, <1>2, <1>4, <1>5, FreshHolds DEF ToggleLike, Kinds, Uploads, Fresh
  <1>7. QED
    BY <1>1, <1>2, <1>4, <1>5, <1>6, Begins DEF ToggleLike, Flag, Fresh, FlagOf

LEMMA UploadStep ==
  ASSUME PInv, NEW kind \in Uploads, NEW urls \in SUBSET Urls, Upload(kind, urls)
  PROVE  PInv'
  <1> DEFINE r == [Start(kind, "out") EXCEPT !.files = [u \in urls |-> "out"]]
  <1>1. TypeOK /\ at \in 0 .. MaxCreated /\ viewer = "author"
    BY AtIs, CanTypeIsAuthor DEF PInv, TypeOK, Upload
  <1>2. Fresh(r, kind) /\ r.files = [u \in urls |-> "out"] /\ urls # {}
    BY <1>1, SendsFiles DEF Kinds, Upload
  <1>3. Send(r) /\ moves' \in 0 .. MaxMoves
    BY <1>1, MoveCounts DEF Upload
  <1> HIDE DEF r
  <1>4. PICK i \in Slots : wire[i].kind = "free" /\ wire'[i] = r /\ Others(i)
    BY <1>1, <1>2, <1>3, Sending DEF Fresh
  <1>5. TypeOK'
    <2>1. wire' \in [1 .. MaxWork -> Work]
      BY <1>1, <1>2, <1>3, Sending DEF Fresh
    <2>2. QED
      BY <1>1, <1>3, <2>1 DEF TypeOK, Upload, Flag, Flags, server, history
  <1>6. /\ wire'[i].kind = kind /\ wire'[i].step = "out" /\ wire'[i].slug = at /\ wire'[i].mounted
        /\ wire'[i].rev = 0 /\ wire'[i].row = None /\ DOMAIN wire'[i].files # {}
        /\ \A u \in DOMAIN wire'[i].files : wire'[i].files[u] = "out"
    BY <1>2, <1>4 DEF Fresh
  <1>7. at' = at /\ viewer' = viewer
    BY DEF Upload
  <1>8. HandlerHolds(wire[i])'
    <2>1. kind \in Kinds \ {"free", "load"} /\ kind \notin {"create", "status", "like"}
      BY DEF Kinds, Uploads
    <2>2. QED
      BY <1>1, <1>5, <1>6, <1>7, <2>1, FreshHolds
  <1>9. busy' = busy \cup {FlagOf(kind)}
    BY DEF Upload, Flag, FlagOf, Uploads
  <1>10. kind \notin {"free", "load", "status", "save", "create", "drop", "like"}
    BY DEF Uploads
  <1>11. QED
    BY <1>1, <1>4, <1>5, <1>6, <1>8, <1>9, <1>10, Begins DEF Upload

LEMMA SubmitStep ==
  ASSUME PInv, NEW publish \in BOOLEAN, Submit(publish) PROVE PInv'
  <1> DEFINE r == [Start("create", "out") EXCEPT !.form = form, !.publish = publish]
  <1>1. TypeOK /\ form \in Form /\ at \in 0 .. MaxCreated /\ at = 0 /\ viewer = "author"
    BY AtIs DEF PInv, TypeOK, PageShape, Submit
  <1>2. /\ r \in Work /\ r.kind = "create" /\ r.step = "out" /\ r.slug = at /\ r.mounted
        /\ r.rev = 0 /\ r.row = None /\ r.form = form /\ DOMAIN r.files = {}
    <2> DEFINE s == Start("create", "out")
    <2>1. /\ s \in Work /\ s.kind = "create" /\ s.step = "out" /\ s.slug = at /\ s.mounted /\ s.rev = 0
          /\ s.row = None /\ s.files = NoFiles
      BY <1>1, StartFields DEF Kinds, Steps
    <2> HIDE DEF s
    <2>2. QED
      BY <1>1, <2>1, NoFilesAre DEF s, Work
  <1>3. Send(r) /\ moves' \in 0 .. MaxMoves
    BY <1>1, MoveCounts DEF Submit
  <1> HIDE DEF r
  <1>4. PICK i \in Slots : wire[i].kind = "free" /\ wire'[i] = r /\ Others(i)
    BY <1>1, <1>2, <1>3, Sending
  <1>5. TypeOK'
    <2>1. wire' \in [1 .. MaxWork -> Work]
      BY <1>1, <1>2, <1>3, Sending
    <2>2. QED
      BY <1>1, <1>3, <2>1 DEF TypeOK, Submit, Flag, Flags, server, history
  <1>6. HandlerHolds(wire[i])'
    BY <1>1, <1>2, <1>4, <1>5, FreshHolds DEF Submit, Kinds, Uploads
  <1>7. QED
    BY <1>1, <1>2, <1>4, <1>5, <1>6, Begins DEF Submit, Flag, FlagOf

\* getAuthSession answers before the project: there is nothing to ask about yet.
LEMMA OnlyKnown ==
  ASSUME PInv, TypeOK', at # 0, copy = None, wire' = wire,
         UNCHANGED <<server, viewer, at, link, copy, isLiked, editing, form, busy, timers, told,
                     counts, history>>
  PROVE  PInv'
  <1>1. \A i \in Slots : HandlerHolds(wire[i])'
    BY DEF PInv, server, history, HandlerHolds, KnowsItsProject, HasItsAnswer, HasItsFiles,
           IsOfThePage, Publishes, SuitsTheViewer
  <1>2. AloneUnderItsFlag' /\ FlagsHaveOwners'
    BY DEF PInv, AloneUnderItsFlag, FlagsHaveOwners
  <1>3. NewAreUnknown' /\ ToldIsThere' /\ AnnouncedAsStored' /\ PageShape'
    BY DEF PInv, server, NewAreUnknown, Making, ToldIsThere, AnnouncedAsStored, PageShape
  <1>4. AuthorReads'
    <2>1. \A d \in 0 .. rev : AuthorFresh(d) => AuthorFresh(d)'
      BY DEF server, history, AuthorFresh, Refreshes
    <2>2. QED
      BY <2>1 DEF PInv, server, history, AuthorReads
  <1>5. GuestReads'
    <2>1. \A d \in 0 .. rev : GuestFresh(d) => GuestFresh(d)'
      BY DEF server, history, GuestFresh
    <2>2. QED
      BY <2>1 DEF PInv, server, history, GuestReads, OneOf
  <1>6. KeptAreInForms' /\ VideosAreKnown'
    BY DEF PInv, server, history, KeptAreInForms, At, Making, VideosAreKnown
  <1>7. QED
    BY <1>1, <1>2, <1>3, <1>4, <1>5, <1>6 DEF PInv

LEMMA ResolveStep == ASSUME PInv, Resolve PROVE PInv'
  <1>1. TypeOK /\ at \in 0 .. MaxCreated /\ at # 0 /\ known' = TRUE
    BY AtIs DEF PInv, TypeOK, Resolve
  <1>2. CASE copy = None
    <2>1. wire' = wire
      BY <1>2 DEF Resolve, AskStatus
    <2>2. TypeOK'
      BY <1>1, <2>1 DEF TypeOK, Resolve, counts, server, history
    <2>3. QED
      BY <1>1, <1>2, <2>1, <2>2, OnlyKnown DEF Resolve
  <1>3. CASE copy # None
    <2> DEFINE r == Start("status", "out")
    <2>1. Fresh(r, "status") /\ DOMAIN r.files = {}
      BY <1>1, StartFields DEF Kinds, Fresh, Steps
    <2>2. Send(r)
      BY <1>1, <1>3 DEF Resolve, AskStatus, Send
    <2> HIDE DEF r
    <2>3. PICK i \in Slots : wire[i].kind = "free" /\ wire'[i] = r /\ Others(i)
      BY <1>1, <2>1, <2>2, Sending DEF Fresh
    <2>4. TypeOK'
      <3>1. wire' \in [1 .. MaxWork -> Work]
        BY <1>1, <2>1, <2>2, Sending DEF Fresh
      <3>2. QED
        BY <1>1, <3>1 DEF TypeOK, Resolve, counts, server, history
    <2>5. /\ viewer' = viewer /\ copy' = copy /\ at' = at /\ copy \in Row
          /\ (viewer = "guest" => at = 1)
      BY <1>3 DEF PInv, TypeOK, PageShape, Resolve
    <2>6. HandlerHolds(wire[i])'
      BY <1>1, <2>1, <2>3, <2>4, <2>5, FreshHolds DEF Kinds, Uploads, Fresh
    <2>7. QED
      BY <1>1, <2>1, <2>3, <2>4, <2>6, Begins DEF Resolve, Fresh
  <1>4. QED
    BY <1>2, <1>3

LEMMA UserStep == ASSUME PInv, User PROVE PInv'
  <1>1. "title" \in Scalars /\ "role" \in Scalars /\ "video" \in Scalars /\ None \in Value /\ Titles \subseteq Value
    BY DEF Scalars, Value
  <1>2. TypeTitle \/ EmptyRole \/ EmptyVideo => PInv'
    BY <1>1, TypeStep DEF TypeTitle, EmptyRole, EmptyVideo
  <1>3. (\E u \in Urls : RemoveScreenshot(u)) => PInv'
    BY RemoveScreenshotStep
  <1>4. (\E kind \in Uploads, urls \in SUBSET Urls : Upload(kind, urls)) => PInv'
    BY UploadStep
  <1>5. (\E publish \in BOOLEAN : Submit(publish)) => PInv'
    BY SubmitStep
  <1>6. QED
    BY <1>2, <1>3, <1>4, <1>5, ToggleEditorStep, OpenLinkStep, ResetStep, SaveStep, DeleteVideoStep,
       ToggleLikeStep DEF User

-----------------------------------------------------------------------------
(* A project is written *)

LEMMA ScalarSet ==
  ASSUME NEW row \in Row, NEW f \in Scalars, NEW v \in Value
  PROVE  LET s == [row EXCEPT !.scalar[f] = v] IN
         /\ s \in Row /\ s.likes = row.likes /\ s.media = row.media
         /\ s.scalar[f] = v /\ \A g \in Scalars : g # f => s.scalar[g] = row.scalar[g]
  <1> DEFINE sc == [row.scalar EXCEPT ![f] = v]
  <1>1. row.scalar \in [Scalars -> Value]
    BY DEF Row
  <1>2. sc \in [Scalars -> Value] /\ sc[f] = v /\ \A g \in Scalars : g # f => sc[g] = row.scalar[g]
    BY <1>1
  <1>3. [row EXCEPT !.scalar[f] = v] = [row EXCEPT !.scalar = sc]
    OBVIOUS
  <1> HIDE DEF sc
  <1>4. QED
    BY <1>2, <1>3 DEF Row

LEMMA MediaAdded ==
  ASSUME NEW row \in Row, NEW m \in Media
  PROVE  LET s == [row EXCEPT !.media = @ \cup {m}] IN
         /\ s \in Row /\ s.likes = row.likes /\ s.media = row.media \cup {m} /\ s.scalar = row.scalar
  <1> DEFINE me == row.media \cup {m}
  <1>1. me \in SUBSET Media
    BY DEF Row
  <1>2. [row EXCEPT !.media = @ \cup {m}] = [row EXCEPT !.media = me]
    OBVIOUS
  <1> HIDE DEF me
  <1>3. [row EXCEPT !.media = me] \in Row /\ [row EXCEPT !.media = me].media = me
        /\ [row EXCEPT !.media = me].likes = row.likes /\ [row EXCEPT !.media = me].scalar = row.scalar
    BY <1>1 DEF Row
  <1>4. QED
    BY <1>2, <1>3 DEF me

LEMMA WrittenIs ==
  ASSUME TypeOK, NEW n \in DOMAIN projects, NEW row \in Row, Written(n, row)
  PROVE  /\ projects' \in Seq(Row) /\ Len(projects') = Len(projects) /\ DOMAIN projects' = DOMAIN projects
         /\ projects'[n] = row /\ \A m \in DOMAIN projects : m # n => projects'[m] = projects[m]
         /\ rev' = rev + 1 /\ rev \in Nat /\ rev' \in Nat
  BY DEF TypeOK, Written

LEMMA FileMoves ==
  ASSUME wire \in [Slots -> Work], NEW i \in Slots, NEW u \in DOMAIN wire[i].files,
         NEW x \in {"out", "row", "back"}, wire' = [wire EXCEPT ![i].files[u] = x]
  PROVE  /\ wire' \in [Slots -> Work] /\ Others(i)
         /\ wire'[i].files = [wire[i].files EXCEPT ![u] = x]
         /\ wire'[i].liked = wire[i].liked /\ wire'[i].form = wire[i].form /\ wire'[i].rev = wire[i].rev
         /\ wire'[i].row = wire[i].row /\ wire'[i].kind = wire[i].kind /\ wire'[i].slug = wire[i].slug
         /\ wire'[i].mounted = wire[i].mounted /\ wire'[i].publish = wire[i].publish
         /\ wire'[i].step = wire[i].step
  <1> DEFINE v == wire[i]
             fs == [v.files EXCEPT ![u] = x]
             w == [v EXCEPT !.files = fs]
  <1>1. v \in Work /\ v.files \in [DOMAIN v.files -> {"out", "row", "back"}] /\ DOMAIN v.files \in SUBSET Urls
    BY WorkFields
  <1>2. fs \in [DOMAIN v.files -> {"out", "row", "back"}]
    BY <1>1
  <1>3. fs \in UNION {[S -> {"out", "row", "back"}] : S \in SUBSET Urls}
    BY <1>1, <1>2, FilesAre
  <1>4. wire' = [wire EXCEPT ![i] = w]
    OBVIOUS
  <1> HIDE DEF v, fs
  <1>5. /\ w \in Work /\ w.files = fs /\ w.liked = v.liked /\ w.form = v.form /\ w.rev = v.rev
        /\ w.row = v.row /\ w.kind = v.kind /\ w.slug = v.slug /\ w.mounted = v.mounted
        /\ w.publish = v.publish /\ w.step = v.step
    BY <1>1, <1>3 DEF Work
  <1> HIDE DEF w
  <1>6. wire' \in [Slots -> Work] /\ wire'[i] = w /\ Others(i)
    BY <1>4, <1>5, Becomes
  <1>7. QED
    BY <1>5, <1>6 DEF v, fs

\* What a handler keeps when it writes.
GoesOn(v, w) ==
  /\ w.form = v.form /\ w.rev = v.rev /\ w.row = v.row /\ w.kind = v.kind
  /\ w.slug = v.slug /\ w.mounted = v.mounted /\ w.publish = v.publish

LEMMA Writes ==
  ASSUME PInv, viewer = "author", NEW i \in Slots, NEW row \in Row, NobodyLikes(row),
         wire[i].slug # 0, wire[i].kind \notin {"load", "status", "like"}, Written(wire[i].slug, row),
         at # 0 \/ Making(wire[i]),
         wire' \in [Slots -> Work], Others(i), GoesOn(wire[i], wire'[i]),
         Making(wire'[i]) => Making(wire[i]),
         wire'[i].kind \in Rereads => wire'[i].step # "reply",
         KnowsItsProject(wire[i])', HasItsFiles(wire[i])', Publishes(wire[i])',
         UNCHANGED <<liked, page, counts, copyRev, likeRev, kept, torn>>,
         excused' \in {excused, excused \cup {"lost"}, excused \cup {"behind"}},
         wire[i].slug = at => "behind" \in excused' \/ WillReread(wire[i]),
         KeptAreInForms', VideosAreKnown'
  PROVE  PInv'
  <1> DEFINE n == wire[i].slug
  <1>0. /\ TypeOK /\ NewAreUnknown /\ \A j \in Slots : KnowsItsProject(wire[j])
        /\ viewer' = viewer /\ at' = at /\ copy' = copy /\ known' = known /\ busy' = busy
        /\ timers' = timers /\ told' = told /\ editing' = editing /\ copyRev' = copyRev
    BY DEF PInv, HandlerHolds, page
  <1>1. n \in DOMAIN projects
    <2>1. n \in Nat
      BY <1>0, WireIsThere, WorkFields
    <2>2. QED
      BY <1>0, <2>1, AtIs DEF KnowsItsProject
  <1>2. /\ projects' \in Seq(Row) /\ Len(projects') = Len(projects) /\ DOMAIN projects' = DOMAIN projects
        /\ projects'[n] = row /\ \A m \in DOMAIN projects : m # n => projects'[m] = projects[m]
        /\ rev' = rev + 1 /\ rev \in Nat /\ rev' \in Nat /\ rev <= rev'
    <2>1. Written(n, row)
      OBVIOUS
    <2> HIDE DEF n
    <2>2. QED
      BY <1>0, <1>1, <2>1, WrittenIs
  <1>3. TypeOK'
    BY <1>0, <1>2 DEF TypeOK, page, counts, Slots
  <1>4. \A j \in Slots \ {i} : Making(wire[j]) =>
          wire[j].slug \in DOMAIN projects /\ projects'[wire[j].slug] = projects[wire[j].slug]
    <2>1. SUFFICES ASSUME NEW j \in Slots \ {i}, Making(wire[j])
                   PROVE  wire[j].slug \in DOMAIN projects /\ wire[j].slug # n
      BY <1>2
    <2>2. wire[j].slug \in Nat
      BY <1>0, WireIsThere, WorkFields
    <2>3. QED
      BY <1>0, <2>1, <2>2, AtIs DEF NewAreUnknown, KnowsItsProject, Making
  <1>5. \A j \in Slots : HandlerHolds(wire[j])'
    <2>1. HasItsAnswer(wire[i])'
      <3>1. wire[i].rev \in Nat /\ wire[i].rev <= rev
        BY <1>0, WireIsThere, WorkFields DEF PInv, HandlerHolds, HasItsAnswer
      <3>2. QED
        BY <1>2, <3>1 DEF HasItsAnswer, GoesOn
    <2>2. IsOfThePage(wire[i])' /\ SuitsTheViewer(wire[i])'
      BY <1>0 DEF PInv, HandlerHolds, IsOfThePage, SuitsTheViewer, GoesOn
    <2>3. HandlerHolds(wire[i])'
      BY <2>1, <2>2 DEF HandlerHolds
    <2>4. QED
      BY <1>0, <1>2, <1>3, <1>4, <2>3, HandlersHold
  <1>6. FlagsHold'
    BY <1>0, FlagsStay DEF PInv, FlagsHold, Others, GoesOn
  <1>7. NewHold'
    <2>1. \A j \in Slots : wire'[j].slug = wire[j].slug /\ (Making(wire'[j]) => Making(wire[j]))
      BY DEF Others, GoesOn
    <2>2. \A m \in DOMAIN projects : at = 0 /\ (\A j \in Slots : Making(wire[j]) => wire[j].slug # m) =>
            projects'[m].scalar["status"] = projects[m].scalar["status"]
      BY <1>2
    <2>3. Len(projects) <= Len(projects')
      BY <1>0, <1>2, AtIs
    <2>4. QED
      BY <1>0, <1>3, <2>1, <2>2, <2>3, NewStay DEF PInv, NewHold
  <1>8. PageShape'
    BY <1>0 DEF PInv, PageShape
  <1>9. NoLikes'
    BY <1>0, <1>1, <1>2 DEF PInv, AuthorReads, NoLikes, Others, GoesOn
  <1>10. AuthorReads'
    <2>1. CASE n = at
      <3>1. \A j \in Slots : HasReread(wire'[j]) => wire'[j].rev <= rev
        BY DEF PInv, HandlerHolds, HasItsAnswer, Others, GoesOn
      <3>2. "behind" \in excused' \/ \E j \in Slots : WillReread(wire'[j]) /\ ~HasReread(wire'[j])
        BY <2>1 DEF WillReread, HasReread, GoesOn
      <3>3. QED
        BY <1>0, <1>2, <1>3, <1>9, <3>1, <3>2, AuthorWrites
    <2>2. CASE n # at
      <3>1. at # 0 => projects'[at] = projects[at]
        BY <1>0, <1>2, <2>2, AtIs
      <3>2. \A j \in Slots : HasReread(wire'[j]) =>
              HasReread(wire[j]) /\ wire'[j].rev = wire[j].rev /\ wire'[j].row = wire[j].row
        BY DEF HasReread, WillReread, Others
      <3>3. \A j \in Slots : WillReread(wire[j]) => WillReread(wire'[j])
        BY DEF WillReread, Others, GoesOn
      <3>4. QED
        BY <1>0, <1>2, <1>3, <1>9, <3>1, <3>2, <3>3, AuthorStays DEF PInv
    <2>3. QED
      BY <2>1, <2>2
  <1>11. QED
    BY <1>0, <1>3, <1>5, <1>6, <1>7, <1>8, <1>10, OnlyOneViewer DEF PInv, FlagsHold, NewHold

\* What is known of a handler's project.
LEMMA ItsProject ==
  ASSUME PInv, NEW i \in Slots, wire[i].slug # 0
  PROVE  /\ wire[i].slug \in DOMAIN projects /\ projects[wire[i].slug] \in Row
         /\ viewer = "author" => NobodyLikes(projects[wire[i].slug])
         /\ wire[i].form \in Form /\ wire \in [Slots -> Work] /\ TypeOK
  <1>1. TypeOK /\ wire \in [Slots -> Work] /\ wire[i].form \in Form /\ wire[i].slug \in Nat
    BY WireIsThere, WorkFields DEF PInv
  <1>2. wire[i].slug \in DOMAIN projects
    BY <1>1, AtIs DEF PInv, HandlerHolds, KnowsItsProject
  <1>3. QED
    BY <1>1, <1>2, AtIs DEF PInv, AuthorReads

LEMMA UpdateStep ==
  ASSUME PInv, NEW i \in Slots, Update(i) PROVE PInv'
  <1> DEFINE n == wire[i].slug
             row == IF wire[i].kind = "save" THEN Saved(projects[n], wire[i].form) ELSE Dropped(projects[n])
  <1>1. /\ wire[i].kind \in {"save", "drop"} /\ wire[i].step = "out" /\ n # 0 /\ at # 0
        /\ viewer = "author" /\ n \notin timers
    BY DEF PInv, TypeOK, Update, At, HandlerHolds, KnowsItsProject, IsOfThePage, SuitsTheViewer, Uploads,
           NewAreUnknown
  <1>2. /\ n \in DOMAIN projects /\ projects[n] \in Row /\ NobodyLikes(projects[n])
        /\ wire[i].form \in Form /\ wire \in [Slots -> Work] /\ TypeOK
    BY <1>1, ItsProject
  <1>3. /\ wire' \in [Slots -> Work] /\ Others(i) /\ wire'[i].step = "back" /\ OnlyStep(wire[i], wire'[i])
    <2>1. Step(i, "back")
      BY DEF Update
    <2>2. QED
      BY <1>2, <2>1, StepMoves DEF Steps
  <1>4. /\ row \in Row /\ NobodyLikes(row)
        /\ wire[i].kind = "save" => wire[i].form.shots \subseteq Gallery(row)
        /\ wire[i].kind = "drop" => Gallery(projects[n]) \subseteq Gallery(row)
        /\ row.scalar["video"] = None => \A m \in row.media : m.type # "VIDEO"
    <2>1. CASE wire[i].kind = "save"
      BY <1>2, <2>1, SavedIs DEF NobodyLikes
    <2>2. CASE wire[i].kind = "drop"
      BY <1>2, <2>2, DroppedIs DEF NobodyLikes
    <2>3. QED
      BY <1>1, <2>1, <2>2
  <1>5. Written(n, row)
    BY DEF Update
  <1> HIDE DEF row
  <1>6. /\ at' = at /\ viewer' = viewer /\ timers' = timers /\ kept' = kept /\ editing' = editing /\ form' = form
        /\ torn' = torn /\ copy' = copy
    BY DEF Update, page
  <1>7. /\ DOMAIN projects' = DOMAIN projects /\ Len(projects') = Len(projects)
        /\ projects'[n] = row /\ \A m \in DOMAIN projects : m # n => projects'[m] = projects[m]
    BY <1>2, <1>4, <1>5, WrittenIs
  <1>8. excused' \in {excused, excused \cup {"lost"}}
    BY DEF Update
  <1>9. KeptAreInForms'
    <2>1. CASE wire[i].kind = "drop"
      <3>1. \A m \in DOMAIN projects : Gallery(projects[m]) \subseteq Gallery(projects'[m])
        BY <1>4, <1>7, <2>1
      <3>2. \A j \in Slots : Making(wire'[j]) => Making(wire[j]) /\ wire'[j].slug = wire[j].slug
        BY <1>1, <1>3 DEF Making, Others, OnlyStep
      <3>3. \A j \in Slots : Unwritten(wire'[j]) => Unwritten(wire[j]) /\ wire'[j].form = wire[j].form
        BY <1>1, <1>3 DEF Unwritten, Others, OnlyStep
      <3>4. \A j \in Slots : Storing(wire'[j]) => Storing(wire[j]) /\ wire'[j].files = wire[j].files
        BY <1>1, <1>3 DEF Storing, Others, OnlyStep
      <3>5. QED
        BY <1>2, <1>6, <1>8, <3>1, <3>2, <3>3, <3>4, KeptStay DEF PInv, HandlerHolds
    <2>2. CASE wire[i].kind = "save"
      <3>1. ASSUME "lost" \notin excused'
            PROVE  /\ "lost" \notin excused
                   /\ \A j \in Slots : ~At(j, {"SCREENSHOT"}, "out")
        BY <2>2, <3>1 DEF Update
      <3>2. ASSUME "lost" \notin excused'
            PROVE  kept \subseteq Gallery(projects'[at])
        <4>1. CASE wire[i].mounted
          <5>1. n = at /\ kept \subseteq wire[i].form.shots
            BY <1>1, <2>2, <3>1, <3>2, <4>1 DEF PInv, HandlerHolds, IsOfThePage, KeptAreInForms, At
          <5>2. QED
            BY <1>4, <1>7, <2>2, <5>1
        <4>2. CASE ~wire[i].mounted
          <5>1. n # at
            BY <2>2, <4>2 DEF PInv, HandlerHolds, IsOfThePage
          <5>2. QED
            BY <1>1, <1>2, <1>7, <3>1, <3>2, <5>1, AtIs DEF PInv, KeptAreInForms
        <4>3. wire[i].mounted \in BOOLEAN
          BY <1>2, WorkFields
        <4>4. QED
          BY <4>1, <4>2
      <3>3. ASSUME "lost" \notin excused', NEW j \in Slots
            PROVE  /\ At(j, {"save", "create"}, "out")' /\ wire'[j].mounted => kept \subseteq wire'[j].form.shots
                   /\ ~At(j, {"SCREENSHOT"}, "out")'
        BY <1>3, <2>2, <3>1, <3>3 DEF PInv, KeptAreInForms, At, Others, OnlyStep
      <3>4. QED
        BY <1>1, <1>6, <3>1, <3>2, <3>3 DEF PInv, KeptAreInForms
    <2>3. QED
      BY <1>1, <2>1, <2>2
  <1>10. VideosAreKnown'
    <2>1. \A j \in Slots : wire'[j].slug = wire[j].slug /\ wire'[j].files = wire[j].files
      BY <1>3 DEF Others, OnlyStep
    <2>2. QED
      BY <1>4, <1>6, <1>7, <2>1, VideosStay DEF PInv
  <1>11. KnowsItsProject(wire[i])' /\ HasItsFiles(wire[i])' /\ Publishes(wire[i])'
    <2>1. KnowsItsProject(wire[i]) /\ HasItsFiles(wire[i])
      BY DEF PInv, HandlerHolds
    <2>2. QED
      BY <1>1, <1>3, <1>7, <2>1 DEF KnowsItsProject, HasItsFiles, Publishes, OnlyStep, Uploads
  <1>12. wire[i].slug = at => WillReread(wire[i])
    BY <1>1, <1>2, WorkFields DEF PInv, HandlerHolds, IsOfThePage, WillReread, Rereads
  <1>13. GoesOn(wire[i], wire'[i]) /\ ~Making(wire'[i]) /\ wire'[i].step # "reply"
         /\ wire[i].kind \notin {"load", "status", "like"}
    BY <1>1, <1>3 DEF GoesOn, OnlyStep, Making
  <1>14. UNCHANGED <<liked, page, counts, copyRev, likeRev, kept, torn>>
    BY DEF Update
  <1>15. QED
    BY <1>1, <1>3, <1>4, <1>5, <1>8, <1>9, <1>10, <1>11, <1>12, <1>13, <1>14, Writes

LEMMA PublishStep ==
  ASSUME PInv, NEW i \in Slots, Publish(i) PROVE PInv'
  <1> DEFINE n == wire[i].slug
             row == [projects[n] EXCEPT !.scalar["status"] = "PUBLISHED"]
  <1>1. /\ wire[i].kind = "create" /\ wire[i].step = "again" /\ n # 0 /\ Making(wire[i])
        /\ viewer = "author" /\ n # at /\ wire[i].publish
    BY DEF PInv, TypeOK, Publish, At, HandlerHolds, KnowsItsProject, SuitsTheViewer, Publishes,
           NewAreUnknown, Making
  <1>2. /\ n \in DOMAIN projects /\ projects[n] \in Row /\ NobodyLikes(projects[n])
        /\ wire \in [Slots -> Work] /\ TypeOK
    BY <1>1, ItsProject
  <1>3. /\ wire' \in [Slots -> Work] /\ Others(i) /\ wire'[i].step = "reply" /\ OnlyStep(wire[i], wire'[i])
    <2>1. Step(i, "reply")
      BY DEF Publish
    <2>2. QED
      BY <1>2, <2>1, StepMoves DEF Steps
  <1>4. /\ row \in Row /\ NobodyLikes(row) /\ row.media = projects[n].media
        /\ row.scalar["video"] = projects[n].scalar["video"] /\ row.scalar["status"] = "PUBLISHED"
    <2>1. "status" \in Scalars /\ "video" \in Scalars /\ "PUBLISHED" \in Value
      BY DEF Scalars, Value, Statuses
    <2>2. QED
      BY <1>2, <2>1, ScalarSet DEF NobodyLikes
  <1>5. Written(n, row)
    BY DEF Publish
  <1> HIDE DEF row
  <1>6. /\ at' = at /\ viewer' = viewer /\ timers' = timers /\ kept' = kept /\ editing' = editing /\ form' = form
        /\ torn' = torn /\ copy' = copy /\ excused' = excused
    BY DEF Publish, page
  <1>7. /\ DOMAIN projects' = DOMAIN projects /\ Len(projects') = Len(projects)
        /\ projects'[n] = row /\ \A m \in DOMAIN projects : m # n => projects'[m] = projects[m]
    BY <1>2, <1>4, <1>5, WrittenIs
  <1>8. KeptAreInForms'
    <2>1. \A m \in DOMAIN projects : Gallery(projects[m]) \subseteq Gallery(projects'[m])
      BY <1>4, <1>7 DEF Gallery
    <2>2. \A j \in Slots : Making(wire'[j]) => Making(wire[j]) /\ wire'[j].slug = wire[j].slug
      BY <1>1, <1>3 DEF Making, Others, OnlyStep
    <2>3. \A j \in Slots : Unwritten(wire'[j]) => Unwritten(wire[j]) /\ wire'[j].form = wire[j].form
      BY <1>1, <1>3 DEF Unwritten, Others, OnlyStep
    <2>4. \A j \in Slots : Storing(wire'[j]) => Storing(wire[j]) /\ wire'[j].files = wire[j].files
      BY <1>1, <1>3 DEF Storing, Others, OnlyStep
    <2>5. QED
      BY <1>2, <1>6, <2>1, <2>2, <2>3, <2>4, KeptStay DEF PInv, HandlerHolds
  <1>9. VideosAreKnown'
    <2>1. \A j \in Slots : wire'[j].slug = wire[j].slug /\ wire'[j].files = wire[j].files
      BY <1>3 DEF Others, OnlyStep
    <2>2. QED
      BY <1>4, <1>6, <1>7, <2>1, VideosStay DEF PInv
  <1>10. KnowsItsProject(wire[i])' /\ HasItsFiles(wire[i])' /\ Publishes(wire[i])'
    <2>1. KnowsItsProject(wire[i]) /\ HasItsFiles(wire[i])
      BY DEF PInv, HandlerHolds
    <2>2. QED
      BY <1>1, <1>3, <1>4, <1>7, <2>1 DEF KnowsItsProject, HasItsFiles, Publishes, OnlyStep, Uploads
  <1>11. GoesOn(wire[i], wire'[i]) /\ wire'[i].kind \notin Rereads
         /\ wire[i].kind \notin {"load", "status", "like"}
    BY <1>1, <1>3 DEF GoesOn, OnlyStep, Rereads, Uploads
  <1>12. UNCHANGED <<liked, page, counts, copyRev, likeRev, kept, torn>>
    BY DEF Publish
  <1>13. QED
    BY <1>1, <1>3, <1>4, <1>5, <1>6, <1>8, <1>9, <1>10, <1>11, <1>12, Writes

LEMMA StoreFileStep ==
  ASSUME PInv, NEW i \in Slots, NEW u \in Urls, StoreFile(i, u), wire[i].slug # 0 PROVE PInv'
  <1> DEFINE n == wire[i].slug
             kind == wire[i].kind
             m == [type |-> kind, url |-> u]
             row == IF kind = "THUMBNAIL" THEN [projects[n] EXCEPT !.scalar["thumbnail"] = u]
                    ELSE [projects[n] EXCEPT !.media = @ \cup {m}]
             x == IF kind = "VIDEO" THEN "row" ELSE "back"
  <1>1. /\ kind \in Uploads /\ wire[i].step = "out" /\ u \in DOMAIN wire[i].files /\ wire[i].files[u] = "out"
        /\ viewer = "author" /\ n \notin timers /\ at # 0
    BY DEF PInv, TypeOK, StoreFile, At, HandlerHolds, SuitsTheViewer, IsOfThePage, NewAreUnknown, Uploads
  <1>2. /\ n \in DOMAIN projects /\ projects[n] \in Row /\ NobodyLikes(projects[n])
        /\ wire \in [Slots -> Work] /\ TypeOK
    BY ItsProject, <1>1
  <1>3. /\ wire' \in [Slots -> Work] /\ Others(i)
        /\ wire'[i].files = [wire[i].files EXCEPT ![u] = x]
        /\ GoesOn(wire[i], wire'[i]) /\ wire'[i].step = "out"
    <2>1. wire' = [wire EXCEPT ![i].files[u] = x]
      BY DEF StoreFile
    <2>2. x \in {"out", "row", "back"}
      OBVIOUS
    <2> HIDE DEF x
    <2>3. QED
      BY <1>1, <1>2, <2>1, <2>2, FileMoves DEF GoesOn
  <1>4. /\ row \in Row /\ NobodyLikes(row)
        /\ row.scalar["video"] = projects[n].scalar["video"]
        /\ row.scalar["status"] = projects[n].scalar["status"]
        /\ projects[n].media \subseteq row.media
        /\ \A mm \in row.media : mm.type = "VIDEO" => mm \in projects[n].media \/ kind = "VIDEO"
        /\ kind = "SCREENSHOT" => m \in row.media
    <2>1. {"status", "video", "thumbnail"} \subseteq Scalars /\ u \in Value
      BY DEF Scalars, Value
    <2>2. CASE kind = "THUMBNAIL"
      <3>1. row = [projects[n] EXCEPT !.scalar["thumbnail"] = u]
        BY <2>2
      <3> HIDE DEF row, kind
      <3>2. QED
        BY <1>2, <2>1, <2>2, <3>1, ScalarSet DEF NobodyLikes
    <2>3. CASE kind # "THUMBNAIL"
      <3>1. m \in Media /\ m.type = kind
        BY <1>1, <2>3 DEF Media, Uploads
      <3>2. row = [projects[n] EXCEPT !.media = @ \cup {m}]
        BY <2>3
      <3> HIDE DEF row, kind, m
      <3>3. QED
        BY <1>2, <2>1, <2>3, <3>1, <3>2, MediaAdded DEF NobodyLikes
    <2>4. QED
      BY <2>2, <2>3
  <1>5. Written(n, row)
    BY <1>1 DEF StoreFile
  <1>6. kind = "SCREENSHOT" => u \in Gallery(row)
    <2>1. m.type = kind /\ m.url = u
      OBVIOUS
    <2> HIDE DEF m, row
    <2>2. QED
      BY <1>4, <2>1, GalleryIs
  <1> HIDE DEF row, m
  <1>7. /\ at' = at /\ viewer' = viewer /\ timers' = timers /\ kept' = kept /\ editing' = editing /\ form' = form
        /\ torn' = torn /\ copy' = copy
        /\ excused' = IF wire[i].mounted THEN excused ELSE excused \cup {"behind"}
    BY DEF StoreFile, Unnoticed, page
  <1>8. /\ DOMAIN projects' = DOMAIN projects /\ Len(projects') = Len(projects)
        /\ projects'[n] = row /\ \A k \in DOMAIN projects : k # n => projects'[k] = projects[k]
    BY <1>2, <1>4, <1>5, WrittenIs
  <1>9. KeptAreInForms'
    <2>1. \A k \in DOMAIN projects : Gallery(projects[k]) \subseteq Gallery(projects'[k])
      BY <1>4, <1>8 DEF Gallery
    <2>2. \A j \in Slots : Making(wire'[j]) => Making(wire[j]) /\ wire'[j].slug = wire[j].slug
      BY <1>1, <1>3 DEF Making, Others, GoesOn
    <2>3. \A j \in Slots : Unwritten(wire'[j]) => Unwritten(wire[j]) /\ wire'[j].form = wire[j].form
      BY <1>1, <1>3 DEF Unwritten, Others, GoesOn, Uploads
    <2>4. ASSUME NEW j \in Slots, Storing(wire'[j]), NEW v \in DOMAIN wire'[j].files, wire'[j].files[v] = "back"
          PROVE  \/ v \in Gallery(projects'[at])
                 \/ Storing(wire[j]) /\ v \in DOMAIN wire[j].files /\ wire[j].files[v] = "back"
      <3>1. CASE j # i
        BY <1>3, <2>4, <3>1 DEF Others
      <3>2. CASE j = i
        <4>1. Storing(wire[i]) /\ n = at /\ v \in DOMAIN wire[i].files
          BY <1>1, <1>3, <2>4, <3>2 DEF Storing, GoesOn, PInv, HandlerHolds, IsOfThePage
        <4>2. CASE v = u
          BY <1>3, <1>6, <1>8, <2>4, <3>2, <4>1, <4>2 DEF Storing, GoesOn
        <4>3. CASE v # u
          BY <1>3, <2>4, <3>2, <4>1, <4>3
        <4>4. QED
          BY <4>2, <4>3
      <3>3. QED
        BY <3>1, <3>2
    <2>5. QED
      BY <1>2, <1>7, <2>1, <2>2, <2>3, <2>4, KeptStay DEF PInv, HandlerHolds
  <1>10. VideosAreKnown'
    <2>1. \A j \in Slots : wire'[j].slug = wire[j].slug
      BY <1>3 DEF Others, GoesOn
    <2>2. \A j \in Slots : \A v \in DOMAIN wire[j].files : wire[j].files[v] = "row" =>
            v \in DOMAIN wire'[j].files /\ wire'[j].files[v] = "row"
      BY <1>1, <1>3 DEF Others
    <2>3. kind = "VIDEO" => u \in DOMAIN wire'[i].files /\ wire'[i].files[u] = "row"
      BY <1>1, <1>3
    <2>4. \A k \in DOMAIN projects' : projects'[k].scalar["video"] = None =>
            \/ \E j \in Slots : \E v \in DOMAIN wire'[j].files : wire'[j].slug = k /\ wire'[j].files[v] = "row"
            \/ /\ k \in DOMAIN projects /\ projects[k].scalar["video"] = None
               /\ \A mm \in projects'[k].media : mm.type = "VIDEO" => mm \in projects[k].media
      BY <1>4, <1>8, <2>1, <2>3
    <2>5. QED
      BY <1>7, <2>1, <2>2, <2>4, VideosStay DEF PInv
  <1>11. KnowsItsProject(wire[i])' /\ HasItsFiles(wire[i])' /\ Publishes(wire[i])'
    <2>1. KnowsItsProject(wire[i]) /\ HasItsFiles(wire[i])
      BY DEF PInv, HandlerHolds
    <2>2. KnowsItsProject(wire[i])' /\ Publishes(wire[i])'
      BY <1>1, <1>3, <1>8, <2>1 DEF KnowsItsProject, Publishes, GoesOn, Uploads
    <2>3. HasItsFiles(wire[i])'
      BY <1>1, <1>3, <2>1 DEF HasItsFiles, GoesOn
    <2>4. QED
      BY <2>2, <2>3
  <1>12. wire[i].slug = at => "behind" \in excused' \/ WillReread(wire[i])
    BY <1>1, <1>2, <1>7, WorkFields DEF WillReread, Rereads
  <1>13. /\ ~Making(wire'[i]) /\ wire[i].kind \notin {"load", "status", "like"}
         /\ excused' \in {excused, excused \cup {"behind"}}
    BY <1>1, <1>3, <1>7 DEF GoesOn, Making, Uploads
  <1>14. UNCHANGED <<liked, page, counts, copyRev, likeRev, kept, torn>>
    BY DEF StoreFile
  <1>15. QED
    BY <1>1, <1>3, <1>4, <1>5, <1>9, <1>10, <1>11, <1>12, <1>13, <1>14, Writes

LEMMA PointToVideoStep ==
  ASSUME PInv, NEW i \in Slots, NEW u \in Urls, PointToVideo(i, u) PROVE PInv'
  <1> DEFINE n == wire[i].slug
             row == [projects[n] EXCEPT !.scalar["video"] = u]
  <1>1. /\ wire[i].kind = "VIDEO" /\ wire[i].step = "out" /\ u \in DOMAIN wire[i].files /\ wire[i].files[u] = "row"
        /\ viewer = "author" /\ n # 0 /\ n \notin timers /\ at # 0
    BY DEF PInv, TypeOK, PointToVideo, At, HandlerHolds, HasItsFiles, SuitsTheViewer, IsOfThePage,
           NewAreUnknown, Uploads
  <1>2. /\ n \in DOMAIN projects /\ projects[n] \in Row /\ NobodyLikes(projects[n])
        /\ wire \in [Slots -> Work] /\ TypeOK
    BY ItsProject, <1>1
  <1>3. /\ wire' \in [Slots -> Work] /\ Others(i)
        /\ wire'[i].files = [wire[i].files EXCEPT ![u] = "back"]
        /\ GoesOn(wire[i], wire'[i]) /\ wire'[i].step = "out"
    BY <1>1, <1>2, FileMoves DEF PointToVideo, GoesOn
  <1>4. /\ row \in Row /\ NobodyLikes(row) /\ row.media = projects[n].media
        /\ row.scalar["video"] = u /\ row.scalar["status"] = projects[n].scalar["status"] /\ u # None
    <2>1. {"status", "video"} \subseteq Scalars /\ u \in Value /\ u # None
      BY ProjectPageAssumption DEF Scalars, Value
    <2>2. QED
      BY <1>2, <2>1, ScalarSet DEF NobodyLikes
  <1>5. Written(n, row)
    BY DEF PointToVideo
  <1> HIDE DEF row
  <1>7. /\ at' = at /\ viewer' = viewer /\ timers' = timers /\ kept' = kept /\ editing' = editing /\ form' = form
        /\ torn' = torn /\ copy' = copy
        /\ excused' = IF wire[i].mounted THEN excused ELSE excused \cup {"behind"}
    BY DEF PointToVideo, Unnoticed, page
  <1>8. /\ DOMAIN projects' = DOMAIN projects /\ Len(projects') = Len(projects)
        /\ projects'[n] = row /\ \A k \in DOMAIN projects : k # n => projects'[k] = projects[k]
    BY <1>2, <1>4, <1>5, WrittenIs
  <1>9. KeptAreInForms'
    <2>1. \A k \in DOMAIN projects : Gallery(projects[k]) \subseteq Gallery(projects'[k])
      BY <1>4, <1>8 DEF Gallery
    <2>2. \A j \in Slots : Making(wire'[j]) => Making(wire[j]) /\ wire'[j].slug = wire[j].slug
      BY <1>1, <1>3 DEF Making, Others, GoesOn
    <2>3. \A j \in Slots : Unwritten(wire'[j]) => Unwritten(wire[j]) /\ wire'[j].form = wire[j].form
      BY <1>1, <1>3 DEF Unwritten, Others, GoesOn
    <2>4. \A j \in Slots : Storing(wire'[j]) => Storing(wire[j]) /\ wire'[j].files = wire[j].files
      BY <1>1, <1>3 DEF Storing, Others, GoesOn
    <2>5. QED
      BY <1>2, <1>7, <2>1, <2>2, <2>3, <2>4, KeptStay DEF PInv, HandlerHolds
  <1>10. VideosAreKnown'
    <2>1. \A j \in Slots : wire'[j].slug = wire[j].slug
      BY <1>3 DEF Others, GoesOn
    <2>2. \A j \in Slots : \A v \in DOMAIN wire[j].files : wire[j].files[v] = "row" =>
            \/ v \in DOMAIN wire'[j].files /\ wire'[j].files[v] = "row"
            \/ projects'[wire[j].slug].scalar["video"] # None
      BY <1>3, <1>4, <1>8 DEF Others
    <2>3. \A k \in DOMAIN projects' : projects'[k].scalar["video"] = None =>
            /\ k \in DOMAIN projects /\ projects[k].scalar["video"] = None
            /\ \A mm \in projects'[k].media : mm.type = "VIDEO" => mm \in projects[k].media
      BY <1>4, <1>8
    <2>4. QED
      BY <1>7, <2>1, <2>2, <2>3, VideosStay DEF PInv
  <1>11. KnowsItsProject(wire[i])' /\ HasItsFiles(wire[i])' /\ Publishes(wire[i])'
    <2>1. KnowsItsProject(wire[i]) /\ HasItsFiles(wire[i])
      BY DEF PInv, HandlerHolds
    <2>2. KnowsItsProject(wire[i])' /\ Publishes(wire[i])'
      BY <1>1, <1>3, <1>8, <2>1 DEF KnowsItsProject, Publishes, GoesOn, Uploads
    <2>3. HasItsFiles(wire[i])'
      BY <1>1, <1>3, <2>1 DEF HasItsFiles, GoesOn
    <2>4. QED
      BY <2>2, <2>3
  <1>12. wire[i].slug = at => "behind" \in excused' \/ WillReread(wire[i])
    BY <1>1, <1>2, <1>7, WorkFields DEF WillReread, Rereads, Uploads
  <1>13. /\ ~Making(wire'[i]) /\ wire[i].kind \notin {"load", "status", "like"}
         /\ excused' \in {excused, excused \cup {"behind"}}
    BY <1>1, <1>3, <1>7 DEF GoesOn, Making
  <1>14. UNCHANGED <<liked, page, counts, copyRev, likeRev, kept, torn>>
    BY DEF PointToVideo
  <1>15. QED
    BY <1>1, <1>3, <1>4, <1>5, <1>9, <1>10, <1>11, <1>12, <1>13, <1>14, Writes

-----------------------------------------------------------------------------
(* A handler goes on, and nothing is written or shown *)

LEMMA GoesOnUnseen ==
  ASSUME PInv, NEW i \in Slots, wire[i].kind # "free",
         wire' \in [Slots -> Work], Others(i),
         wire'[i].form = wire[i].form, wire'[i].kind = wire[i].kind, wire'[i].slug = wire[i].slug,
         wire'[i].mounted = wire[i].mounted,
         UNCHANGED <<server, page, counts, rev, copyRev, likeRev, kept, torn>>,
         excused' \in {excused, excused \cup {"behind"}},
         KnowsItsProject(wire[i])', HasItsFiles(wire[i])', Publishes(wire[i])',
         \/ /\ wire'[i].row = wire[i].row /\ wire'[i].rev = wire[i].rev /\ wire'[i].liked = wire[i].liked
            /\ wire'[i].step \in {"reply", "back"} => wire[i].step = wire'[i].step \/ wire[i].kind = "create"
         \/ /\ wire'[i].row = projects[wire[i].slug] /\ wire'[i].rev = rev /\ wire[i].slug # 0
            /\ viewer = "guest" /\ Told(wire'[i]) => wire'[i].liked = liked,
         Making(wire'[i]) => Making(wire[i]),
         wire'[i].step = "out" => wire[i].step = "out",
         Storing(wire'[i]) /\ at # 0 => wire'[i].files = wire[i].files,
         \A u \in DOMAIN wire[i].files : wire[i].files[u] = "row" =>
           u \in DOMAIN wire'[i].files /\ wire'[i].files[u] = "row"
  PROVE  PInv'
  <1>0. /\ TypeOK /\ NewAreUnknown /\ \A j \in Slots : KnowsItsProject(wire[j])
        /\ viewer' = viewer /\ at' = at /\ copy' = copy /\ known' = known /\ busy' = busy
        /\ timers' = timers /\ told' = told /\ editing' = editing /\ form' = form /\ isLiked' = isLiked
        /\ projects' = projects /\ liked' = liked /\ rev' = rev /\ rev \in Nat /\ Len(projects) \in Nat
    BY DEF PInv, HandlerHolds, page, server, TypeOK
  <1>1. TypeOK'
    BY <1>0 DEF TypeOK, server, page, counts, Slots
  <1>2. /\ wire[i].rev \in Nat /\ wire[i].rev <= rev
        /\ wire[i].slug # 0 => /\ wire[i].slug \in DOMAIN projects /\ projects[wire[i].slug] \in Row
                               /\ viewer = "author" => NobodyLikes(projects[wire[i].slug])
        /\ viewer = "guest" => wire[i].slug = 1
        /\ wire[i].mounted /\ wire[i].kind # "create" => wire[i].slug = at
    BY <1>0, ItsProject, WireIsThere, WorkFields DEF PInv, HandlerHolds, HasItsAnswer, SuitsTheViewer, IsOfThePage
  <1>3. HandlerHolds(wire[i])'
    <2>1. HasItsAnswer(wire[i])'
      <3>1. HasItsAnswer(wire[i])
        BY DEF PInv, HandlerHolds
      <3>2. wire'[i].rev <= rev'
        BY <1>0, <1>2
      <3>3. CASE wire'[i].row = projects[wire[i].slug] /\ wire[i].slug # 0
        BY <1>2, <3>2, <3>3 DEF HasItsAnswer
      <3>4. CASE /\ wire'[i].row = wire[i].row
                 /\ wire'[i].step \in {"reply", "back"} => wire[i].step = wire'[i].step \/ wire[i].kind = "create"
        BY <3>1, <3>2, <3>4 DEF HasItsAnswer, Rereads, Uploads
      <3>5. QED
        BY <3>3, <3>4
    <2>2. IsOfThePage(wire[i])' /\ SuitsTheViewer(wire[i])'
      BY <1>0 DEF PInv, HandlerHolds, IsOfThePage, SuitsTheViewer
    <2>3. QED
      BY <2>1, <2>2 DEF HandlerHolds
  <1>4. \A j \in Slots : HandlerHolds(wire[j])'
    BY <1>0, <1>1, <1>3, HandlersHold
  <1>5. FlagsHold'
    BY <1>0, FlagsStay DEF PInv, FlagsHold, Others
  <1>6. NewHold'
    <2>1. \A j \in Slots : wire'[j].slug = wire[j].slug /\ (Making(wire'[j]) => Making(wire[j]))
      BY DEF Others
    <2>2. QED
      BY <1>0, <1>1, <2>1, NewStay DEF PInv, NewHold
  <1>7. PageShape'
    BY <1>0 DEF PInv, PageShape
  <1>8. AuthorReads'
    <2>1. viewer = "author" => NoLikes'
      BY <1>0, <1>2, ProjectPageAssumption DEF PInv, AuthorReads, NoLikes, Others
    <2>2. \A j \in Slots : WillReread(wire[j]) => WillReread(wire'[j])
      BY DEF Others, WillReread
    <2>3. ASSUME NEW j \in Slots, HasReread(wire'[j])
          PROVE  \/ HasReread(wire[j]) /\ wire'[j].rev = wire[j].rev /\ wire'[j].row = wire[j].row
                 \/ wire'[j].row = projects[at] /\ wire'[j].rev = rev
      <3>1. CASE j # i
        BY <2>3, <3>1 DEF Others
      <3>2. CASE j = i
        <4>1. wire[i].mounted /\ wire[i].kind \in Rereads /\ wire'[i].step = "reply" /\ wire[i].kind # "create"
          BY <2>3, <3>2 DEF HasReread, WillReread, Rereads, Uploads
        <4>2. QED
          BY <1>2, <3>2, <4>1 DEF HasReread, WillReread
      <3>3. QED
        BY <3>1, <3>2
    <2>4. QED
      BY <1>0, <1>1, <2>1, <2>2, <2>3, AuthorStays DEF PInv
  <1>9. GuestReads'
    <2>1. viewer = "guest" => /\ copy' # None => OneOf(copy')
                              /\ \A j \in Slots : wire'[j].row # None => OneOf(wire'[j].row)
      BY <1>0, <1>2 DEF PInv, GuestReads, Others, OneOf
    <2>2. \A j \in Slots : Asks(wire[j]) => Asks(wire'[j])
      BY DEF Others, Asks
    <2>3. ASSUME NEW j \in Slots, Told(wire'[j]), viewer = "guest"
          PROVE  \/ /\ Told(wire[j]) /\ wire'[j].rev = wire[j].rev
                    /\ wire'[j].row = wire[j].row /\ wire'[j].liked = wire[j].liked
                 \/ wire'[j].row.likes = projects[1].likes /\ wire'[j].liked = liked /\ wire'[j].rev = rev
      <3>1. CASE j # i
        BY <2>3, <3>1 DEF Others
      <3>2. CASE j = i
        BY <1>2, <2>3, <3>2 DEF Told
      <3>3. QED
        BY <3>1, <3>2
    <2>4. "unliked" \in excused <=> "unliked" \in excused'
      OBVIOUS
    <2>5. QED
      BY <1>0, <1>1, <2>1, <2>2, <2>3, <2>4, GuestStays DEF PInv
  <1>10. KeptAreInForms'
    <2>1. \A j \in Slots : Making(wire'[j]) => Making(wire[j]) /\ wire'[j].slug = wire[j].slug
      BY DEF Others
    <2>2. \A j \in Slots : Unwritten(wire'[j]) => Unwritten(wire[j]) /\ wire'[j].form = wire[j].form
      BY DEF Unwritten, Others
    <2>3. \A j \in Slots : Storing(wire'[j]) /\ at # 0 => Storing(wire[j]) /\ wire'[j].files = wire[j].files
      BY DEF Storing, Others
    <2>4. QED
      BY <1>0, <2>1, <2>2, <2>3, KeptStay DEF PInv
  <1>11. VideosAreKnown'
    <2>1. \A j \in Slots : \A u \in DOMAIN wire[j].files : wire[j].files[u] = "row" =>
            wire'[j].slug = wire[j].slug /\ u \in DOMAIN wire'[j].files /\ wire'[j].files[u] = "row"
      BY DEF Others
    <2>2. QED
      BY <1>0, <2>1, VideosStay DEF PInv
  <1>12. QED
    BY <1>1, <1>4, <1>5, <1>6, <1>7, <1>8, <1>9, <1>10, <1>11 DEF PInv, FlagsHold, NewHold

LEMMA AnswerComes ==
  ASSUME wire \in [Slots -> Work], NEW i \in Slots, NEW s \in Steps, NEW row \in Row, NEW r \in Nat,
         wire' = [wire EXCEPT ![i].step = s, ![i].row = row, ![i].rev = r]
  PROVE  /\ wire' \in [Slots -> Work] /\ Others(i)
         /\ wire'[i].step = s /\ wire'[i].row = row /\ wire'[i].rev = r
         /\ wire'[i].form = wire[i].form /\ wire'[i].kind = wire[i].kind /\ wire'[i].slug = wire[i].slug
         /\ wire'[i].mounted = wire[i].mounted /\ wire'[i].publish = wire[i].publish
         /\ wire'[i].files = wire[i].files
  <1> DEFINE v == wire[i]
             w == [v EXCEPT !.step = s, !.row = row, !.rev = r]
  <1>1. v \in Work
    OBVIOUS
  <1>2. wire' = [wire EXCEPT ![i] = w]
    OBVIOUS
  <1> HIDE DEF v
  <1>3. /\ w \in Work /\ w.step = s /\ w.row = row /\ w.rev = r /\ w.form = v.form /\ w.kind = v.kind
        /\ w.slug = v.slug /\ w.mounted = v.mounted /\ w.publish = v.publish /\ w.files = v.files
    BY <1>1 DEF Work, Steps
  <1> HIDE DEF w
  <1>4. wire' \in [Slots -> Work] /\ wire'[i] = w /\ Others(i)
    BY <1>2, <1>3, Becomes
  <1>5. QED
    BY <1>3, <1>4 DEF v

LEMMA ReadStep ==
  ASSUME PInv, NEW i \in Slots, Read(i) PROVE PInv'
  <1>1. KnowsItsProject(wire[i]) /\ HasItsFiles(wire[i])
    BY DEF PInv, HandlerHolds
  <1>2. wire[i].kind \in Rereads /\ wire[i].step = "again" /\ wire[i].slug # 0
    BY <1>1 DEF Read, At, KnowsItsProject, Rereads, Kinds, Uploads
  <1>3. TypeOK /\ wire \in [Slots -> Work] /\ projects[wire[i].slug] \in Row /\ rev \in Nat
    BY <1>2, ItsProject DEF TypeOK
  <1>4. /\ wire' \in [Slots -> Work] /\ Others(i)
        /\ wire'[i].step = "reply" /\ wire'[i].row = projects[wire[i].slug] /\ wire'[i].rev = rev
        /\ wire'[i].form = wire[i].form /\ wire'[i].kind = wire[i].kind /\ wire'[i].slug = wire[i].slug
        /\ wire'[i].mounted = wire[i].mounted /\ wire'[i].publish = wire[i].publish
        /\ wire'[i].files = wire[i].files
    BY <1>3, AnswerComes DEF Read, Steps
  <1>5. /\ UNCHANGED <<server, page, counts, rev, copyRev, likeRev, kept, torn>> /\ excused' = excused
        /\ projects' = projects
    BY DEF Read, history, server
  <1>6. KnowsItsProject(wire[i])' /\ HasItsFiles(wire[i])' /\ Publishes(wire[i])'
    BY <1>1, <1>2, <1>4, <1>5 DEF KnowsItsProject, HasItsFiles, Publishes, Rereads, Uploads
  <1>7. /\ wire[i].kind # "free" /\ ~Told(wire'[i]) /\ ~Making(wire'[i]) /\ ~Storing(wire'[i])
    BY <1>2, <1>4 DEF Told, Making, Storing, Rereads, Uploads
  <1>8. QED
    BY <1>2, <1>4, <1>5, <1>6, <1>7, GoesOnUnseen

LEMMA ReadStatusStep ==
  ASSUME PInv, NEW i \in Slots, ReadStatus(i) PROVE PInv'
  <1>1. KnowsItsProject(wire[i]) /\ HasItsFiles(wire[i])
    BY DEF PInv, HandlerHolds
  <1>2. wire[i].kind = "status" /\ wire[i].step = "out" /\ wire[i].slug # 0
    BY <1>1 DEF ReadStatus, At, KnowsItsProject, Uploads
  <1>3. TypeOK /\ wire \in [Slots -> Work] /\ projects[wire[i].slug] \in Row /\ rev \in Nat
    BY <1>2, ItsProject DEF TypeOK
  <1>4. /\ wire' \in [Slots -> Work] /\ Others(i)
        /\ wire'[i].step = "back" /\ wire'[i].row = projects[wire[i].slug] /\ wire'[i].rev = rev
        /\ wire'[i].liked = (viewer = "guest" /\ liked)
        /\ wire'[i].form = wire[i].form /\ wire'[i].kind = wire[i].kind /\ wire'[i].slug = wire[i].slug
        /\ wire'[i].mounted = wire[i].mounted /\ wire'[i].publish = wire[i].publish
        /\ wire'[i].files = wire[i].files
    <2> DEFINE l == (viewer = "guest" /\ liked)
    <2>1. l \in BOOLEAN
      OBVIOUS
    <2>2. wire' = [wire EXCEPT ![i].step = "back", ![i].row = projects[wire[i].slug], ![i].rev = rev,
                               ![i].liked = l]
      BY DEF ReadStatus
    <2> HIDE DEF l
    <2> DEFINE v == wire[i]
               w == [v EXCEPT !.step = "back", !.row = projects[v.slug], !.rev = rev, !.liked = l]
    <2>3. v \in Work /\ projects[v.slug] \in Row
      BY <1>3
    <2>4. wire' = [wire EXCEPT ![i] = w]
      BY <2>2
    <2> HIDE DEF v
    <2>5. /\ w \in Work /\ w.step = "back" /\ w.row = projects[v.slug] /\ w.rev = rev /\ w.liked = l
          /\ w.form = v.form /\ w.kind = v.kind /\ w.slug = v.slug /\ w.mounted = v.mounted
          /\ w.publish = v.publish /\ w.files = v.files
      BY <1>3, <2>1, <2>3 DEF Work, Steps
    <2> HIDE DEF w
    <2>6. wire' \in [Slots -> Work] /\ wire'[i] = w /\ Others(i)
      BY <1>3, <2>4, <2>5, Becomes
    <2>7. QED
      BY <2>5, <2>6 DEF v, l
  <1>5. /\ UNCHANGED <<server, page, counts, rev, copyRev, likeRev, kept, torn>> /\ excused' = excused
        /\ projects' = projects /\ liked \in BOOLEAN
    BY <1>3 DEF ReadStatus, history, server, TypeOK
  <1>6. KnowsItsProject(wire[i])' /\ HasItsFiles(wire[i])' /\ Publishes(wire[i])'
    BY <1>1, <1>2, <1>4, <1>5 DEF KnowsItsProject, HasItsFiles, Publishes, Uploads
  <1>7. /\ ~Making(wire'[i]) /\ ~Storing(wire'[i]) /\ (viewer = "guest" => wire'[i].liked = liked)
    BY <1>2, <1>4, <1>5 DEF Making, Storing
  <1>8. QED
    BY <1>2, <1>4, <1>5, <1>6, <1>7, GoesOnUnseen

\* A handler that only takes a step.
LEMMA StepsUnseen ==
  ASSUME PInv, NEW i \in Slots, NEW s \in {"again"}, Step(i, s),
         UNCHANGED <<server, page, counts, history>>,
         wire[i].kind \in {"save", "drop", "create"}, wire[i].step = "back",
         wire[i].kind = "create" => wire[i].publish
  PROVE  PInv'
  <1>1. KnowsItsProject(wire[i]) /\ HasItsFiles(wire[i]) /\ Publishes(wire[i])
    BY DEF PInv, HandlerHolds
  <1>2. TypeOK /\ wire \in [Slots -> Work]
    BY WireIsThere DEF PInv
  <1>3. wire' \in [Slots -> Work] /\ Others(i) /\ wire'[i].step = s /\ OnlyStep(wire[i], wire'[i])
    BY <1>2, StepMoves DEF Steps
  <1>4. /\ UNCHANGED <<server, page, counts, rev, copyRev, likeRev, kept, torn>> /\ excused' = excused
        /\ projects' = projects
    BY DEF history, server
  <1>5. KnowsItsProject(wire[i])' /\ HasItsFiles(wire[i])' /\ Publishes(wire[i])'
    BY <1>1, <1>3, <1>4 DEF KnowsItsProject, HasItsFiles, Publishes, Uploads, OnlyStep
  <1>6. (Making(wire'[i]) => Making(wire[i])) /\ ~Storing(wire'[i])
    BY <1>3 DEF Making, Storing, OnlyStep
  <1>7. QED
    BY <1>3, <1>4, <1>5, <1>6, GoesOnUnseen DEF OnlyStep

LEMMA CreatedStep ==
  ASSUME PInv, NEW i \in Slots, Created(i) PROVE PInv'
  BY StepsUnseen DEF Created, At

\* Without a project, a file is stored and nothing else.
LEMMA StoreLooseFileStep ==
  ASSUME PInv, NEW i \in Slots, NEW u \in Urls, StoreFile(i, u), wire[i].slug = 0 PROVE PInv'
  <1>1. KnowsItsProject(wire[i]) /\ HasItsFiles(wire[i]) /\ IsOfThePage(wire[i])
    BY DEF PInv, HandlerHolds
  <1>2. /\ wire[i].kind \in Uploads /\ wire[i].step = "out" /\ u \in DOMAIN wire[i].files
        /\ wire[i].files[u] = "out"
    BY DEF StoreFile, At
  <1>3. TypeOK /\ wire \in [Slots -> Work]
    BY WireIsThere DEF PInv
  <1>4. /\ wire' \in [Slots -> Work] /\ Others(i)
        /\ wire'[i].files = [wire[i].files EXCEPT ![u] = "back"]
        /\ wire'[i].liked = wire[i].liked /\ wire'[i].form = wire[i].form /\ wire'[i].rev = wire[i].rev
        /\ wire'[i].row = wire[i].row /\ wire'[i].kind = wire[i].kind /\ wire'[i].slug = wire[i].slug
        /\ wire'[i].mounted = wire[i].mounted /\ wire'[i].publish = wire[i].publish
        /\ wire'[i].step = wire[i].step
    <2>1. wire' = [wire EXCEPT ![i].files[u] = "back"]
      BY DEF StoreFile
    <2>2. QED
      BY <1>2, <1>3, <2>1, FileMoves
  <1>5. /\ UNCHANGED <<server, page, counts, rev, copyRev, likeRev, kept, torn>>
        /\ excused' \in {excused, excused \cup {"behind"}} /\ projects' = projects
    BY DEF StoreFile, Unnoticed, server
  <1>6. KnowsItsProject(wire[i])' /\ HasItsFiles(wire[i])' /\ Publishes(wire[i])'
    <2>1. KnowsItsProject(wire[i])' /\ Publishes(wire[i])'
      BY <1>1, <1>2, <1>4, <1>5 DEF KnowsItsProject, Publishes, Uploads
    <2>2. HasItsFiles(wire[i])'
      BY <1>1, <1>2, <1>4 DEF HasItsFiles
    <2>3. QED
      BY <2>1, <2>2
  <1>7. /\ wire[i].kind \notin {"free", "create"} /\ ~Making(wire'[i]) /\ ~(Storing(wire'[i]) /\ at # 0)
    BY <1>1, <1>2, <1>4 DEF Making, Storing, Uploads, IsOfThePage
  <1>8. \A v \in DOMAIN wire[i].files : wire[i].files[v] = "row" =>
           v \in DOMAIN wire'[i].files /\ wire'[i].files[v] = "row"
    BY <1>2, <1>4
  <1>9. QED
    BY <1>2, <1>4, <1>5, <1>6, <1>7, <1>8, GoesOnUnseen

-----------------------------------------------------------------------------
(* A handler ends *)

LEMMA FreeHolds ==
  ASSUME TypeOK', NEW i \in Slots, wire'[i] = Free
  PROVE  HandlerHolds(wire[i])'
  <1> DEFINE w == wire[i]
  <1>1. /\ wire'[i].kind = "free" /\ wire'[i].slug = 0 /\ wire'[i].rev = 0 /\ DOMAIN wire'[i].files = {}
        /\ wire'[i].step = "out" /\ wire'[i].mounted
    BY FreeFields
  <1>2. rev' \in Nat /\ Len(projects') \in Nat
    BY DEF TypeOK
  <1>3. KnowsItsProject(w)' /\ HasItsAnswer(w)' /\ HasItsFiles(w)'
    BY <1>1, <1>2 DEF KnowsItsProject, HasItsAnswer, HasItsFiles, Rereads, Uploads
  <1>4. IsOfThePage(w)' /\ Publishes(w)' /\ SuitsTheViewer(w)'
    BY <1>1 DEF IsOfThePage, Publishes, SuitsTheViewer
  <1>5. QED
    BY <1>3, <1>4 DEF HandlerHolds

LEMMA FreeIsIdle ==
  /\ ~Making(Free) /\ ~Unwritten(Free) /\ ~Storing(Free) /\ ~WillReread(Free) /\ ~HasReread(Free)
  /\ ~Asks(Free) /\ ~Told(Free)
  BY FreeFields DEF Making, Unwritten, Storing, WillReread, HasReread, Asks, Told, Rereads, Uploads

LEMMA Ends ==
  ASSUME PInv, NEW i \in Slots, wire[i].kind # "free",
         wire' \in [Slots -> Work], Others(i), wire'[i] = Free,
         TypeOK', NewHold', PageShape', KeptAreInForms',
         UNCHANGED <<server, viewer, at, known, copy, rev, copyRev, likeRev>>,
         busy' = IF wire[i].mounted /\ wire[i].kind \notin {"load", "status"}
                 THEN busy \ {FlagOf(wire[i].kind)} ELSE busy,
         excused \subseteq excused', torn \subseteq torn',
         viewer = "author" /\ at # 0 /\ WillReread(wire[i]) => "behind" \in excused',
         viewer = "guest" => "unliked" \in excused' \/ (isLiked' = isLiked /\ ~Asks(wire[i])),
         \A u \in DOMAIN wire[i].files : wire[i].files[u] = "row" => wire[i].slug \in torn'
  PROVE  PInv'
  <1>0. /\ TypeOK /\ projects' = projects /\ liked' = liked /\ rev' = rev /\ rev \in Nat /\ Len(projects) \in Nat
    BY DEF PInv, server, TypeOK
  <1>1. \A j \in Slots : HandlerHolds(wire[j])'
    BY <1>0, FreeHolds, HandlersHold
  <1>2. FlagsHold'
    <2>1. ~(wire'[i].mounted /\ wire'[i].kind # "free")
      BY FreeFields
    <2>2. QED
      BY <2>1, FlagsEnd DEF PInv, FlagsHold
  <1>3. AuthorReads'
    <2>1. viewer = "author" => NoLikes'
      BY <1>0, FreeFields DEF PInv, AuthorReads, NoLikes, Others
    <2>2. \A j \in Slots : HasReread(wire'[j]) => HasReread(wire[j]) /\ wire'[j] = wire[j]
      BY FreeIsIdle DEF Others
    <2>3. \A j \in Slots : "behind" \notin excused' /\ viewer = "author" /\ at # 0 /\ WillReread(wire[j]) =>
            wire'[j] = wire[j]
      BY DEF Others
    <2>4. QED
      BY <1>0, <2>1, <2>2, <2>3, AuthorStays DEF PInv
  <1>4. GuestReads'
    <2>1. viewer = "guest" => /\ copy' # None => OneOf(copy')
                              /\ \A j \in Slots : wire'[j].row # None => OneOf(wire'[j].row)
      BY <1>0, FreeFields DEF PInv, GuestReads, Others
    <2>2. \A j \in Slots : Told(wire'[j]) => Told(wire[j]) /\ wire'[j] = wire[j]
      BY FreeIsIdle DEF Others
    <2>3. \A j \in Slots : "unliked" \notin excused' /\ viewer = "guest" /\ Asks(wire[j]) => wire'[j] = wire[j]
      BY DEF Others
    <2>4. QED
      BY <1>0, <2>1, <2>2, <2>3, GuestStays DEF PInv
  <1>5. VideosAreKnown'
    <2>1. \A j \in Slots : \A u \in DOMAIN wire[j].files : wire[j].files[u] = "row" =>
            wire'[j] = wire[j] \/ wire[j].slug \in torn'
      BY DEF Others
    <2>2. QED
      BY <1>0, <2>1, VideosStay DEF PInv
  <1>6. QED
    BY <1>1, <1>2, <1>3, <1>4, <1>5 DEF PInv, FlagsHold, NewHold

LEMMA Ending ==
  ASSUME TypeOK, NEW i \in Slots, wire' = Done(i)
  PROVE  wire' \in [Slots -> Work] /\ wire' \in [1 .. MaxWork -> Work] /\ Others(i) /\ wire'[i] = Free
  BY WireIsThere, DoneFrees DEF Others, Slots

\* What stays with the projects that are being made, and with the screenshots,
\* when a handler ends and neither the projects nor the timers change.
LEMMA EndsAlone ==
  ASSUME PInv, TypeOK', NEW i \in Slots, Others(i), wire'[i] = Free,
         UNCHANGED <<server, viewer, at, known, copy, timers, kept>>, told' = told,
         editing' => editing, "lost" \in excused => "lost" \in excused',
         form'.shots = form.shots
  PROVE  NewHold' /\ KeptAreInForms' /\ PageShape'
  <1>0. /\ TypeOK /\ NewAreUnknown /\ \A j \in Slots : KnowsItsProject(wire[j])
        /\ projects' = projects /\ Len(projects) \in Nat
    BY DEF PInv, HandlerHolds, server, TypeOK
  <1>1. NewHold'
    <2>1. \A j \in Slots : \/ wire'[j].slug = wire[j].slug /\ (Making(wire'[j]) => Making(wire[j]))
                           \/ wire'[j].slug \in {0, at} /\ ~Making(wire'[j])
      BY FreeFields, FreeIsIdle DEF Others
    <2>2. QED
      BY <1>0, <2>1, NewStay DEF PInv, NewHold
  <1>2. KeptAreInForms'
    <2>1. \A j \in Slots : Making(wire'[j]) => Making(wire[j]) /\ wire'[j].slug = wire[j].slug
      BY FreeIsIdle DEF Others
    <2>2. \A j \in Slots : Unwritten(wire'[j]) => Unwritten(wire[j]) /\ wire'[j].form = wire[j].form
      BY FreeIsIdle DEF Others
    <2>3. \A j \in Slots : Storing(wire'[j]) => Storing(wire[j]) /\ wire'[j].files = wire[j].files
      BY FreeIsIdle DEF Others
    <2>4. QED
      BY <1>0, <2>1, <2>2, <2>3, KeptStay DEF PInv
  <1>3. PageShape'
    BY <1>0 DEF PInv, PageShape
  <1>4. QED
    BY <1>1, <1>2, <1>3

LEMMA AnsweredStep ==
  ASSUME PInv, NEW i \in Slots, Answered(i) PROVE PInv'
  <1>1. wire[i].kind \in {"save", "drop"} /\ wire[i].step = "back"
    BY DEF Answered, At
  <1>2. CASE wire[i].mounted
    BY <1>1, <1>2, StepsUnseen DEF Answered
  <1>3. CASE ~wire[i].mounted
    <2>1. TypeOK /\ wire' = Done(i)
      BY <1>3 DEF PInv, Answered
    <2>2. wire' \in [Slots -> Work] /\ wire' \in [1 .. MaxWork -> Work] /\ Others(i) /\ wire'[i] = Free
      BY <2>1, Ending
    <2>3. TypeOK'
      BY <2>1, <2>2 DEF Answered, TypeOK, server, page, counts, history
    <2>4. NewHold' /\ KeptAreInForms' /\ PageShape'
      BY <2>2, <2>3, EndsAlone DEF Answered, server, page, history
    <2>5. ~WillReread(wire[i]) /\ ~Asks(wire[i])
      BY <1>3 DEF WillReread, Asks
    <2>6. \A u \in DOMAIN wire[i].files : wire[i].files[u] # "row"
      BY <1>1 DEF PInv, HandlerHolds, HasItsFiles
    <2>7. QED
      BY <1>1, <1>3, <2>2, <2>3, <2>4, <2>5, <2>6, Ends DEF Answered, page, history
  <1>4. QED
    BY <1>2, <1>3

LEMMA AnnounceStep ==
  ASSUME PInv, NEW i \in Slots, Announce(i) PROVE PInv'
  <1> DEFINE n == wire[i].slug
  <1>1. /\ wire[i].kind = "create" /\ Making(wire[i]) /\ n # 0 /\ viewer = "author"
        /\ projects[n].scalar["status"] = (IF wire[i].publish THEN "PUBLISHED" ELSE "DRAFT")
        /\ wire[i].mounted => at = 0
    BY DEF PInv, TypeOK, Announce, At, Making, HandlerHolds, KnowsItsProject, Publishes, SuitsTheViewer,
           IsOfThePage, Uploads
  <1>2. TypeOK /\ wire' = Done(i) /\ n \in DOMAIN projects /\ wire[i].publish \in BOOLEAN
    BY <1>1, ItsProject, WorkFields DEF Announce
  <1>3. wire' \in [Slots -> Work] /\ wire' \in [1 .. MaxWork -> Work] /\ Others(i) /\ wire'[i] = Free
    BY <1>2, Ending
  <1>4. /\ at' = at /\ projects' = projects /\ timers' = timers \cup {n} /\ viewer' = viewer /\ known' = known
        /\ copy' = copy /\ editing' = editing /\ form' = form /\ kept' = kept /\ excused' = excused
        /\ torn' = torn /\ isLiked' = isLiked
        /\ told' = IF wire[i].mounted THEN [slug |-> n, published |-> wire[i].publish] ELSE told
        /\ busy' = IF wire[i].mounted THEN busy \ {"pending"} ELSE busy
    BY DEF Announce, server, history
  <1>5. TypeOK'
    <2>1. n \in 1 .. MaxCreated
      BY <1>2, AtIs, ProjectPageAssumption
    <2>2. told' = None \/ told' \in [slug : 1 .. MaxCreated, published : BOOLEAN]
      BY <1>2, <1>4, <2>1 DEF TypeOK
    <2>3. QED
      BY <1>2, <1>3, <1>4, <2>1, <2>2 DEF Announce, TypeOK, server, counts, history
  <1>6. NewHold'
    <2>1. NewAreUnknown /\ ToldIsThere /\ AnnouncedAsStored
      BY DEF PInv
    <2>2. \A m \in timers' : m # at /\ \A j \in Slots : wire'[j].slug # m
      <3>1. ASSUME NEW m \in timers' PROVE m # 0 /\ m # at /\ \A j \in Slots \ {i} : wire[j].slug # m
        <4>1. CASE m \in timers
          BY <1>2, <2>1, <4>1, AtIs DEF NewAreUnknown
        <4>2. CASE m = n
          BY <1>1, <2>1, <4>2 DEF NewAreUnknown
        <4>3. QED
          BY <1>4, <3>1, <4>1, <4>2
      <3>2. QED
        BY <1>3, <3>1, FreeFields DEF Others
    <2>3. ASSUME NEW j \in Slots, Making(wire'[j])
          PROVE  /\ wire'[j].slug # at
                 /\ told' # None => told'.slug # wire'[j].slug
                 /\ \A k \in Slots \ {j} : wire'[k].slug # wire'[j].slug
      <3>1. j # i /\ wire'[j] = wire[j]
        BY <1>3, <2>3, FreeIsIdle DEF Others
      <3>2. /\ wire[j].slug # at /\ wire[j].slug # 0
            /\ told # None => told.slug # wire[j].slug
            /\ \A k \in Slots \ {j} : wire[k].slug # wire[j].slug
        BY <2>1, <2>3, <3>1 DEF NewAreUnknown, Making, PInv, HandlerHolds, KnowsItsProject
      <3>3. QED
        BY <1>3, <1>4, <3>1, <3>2, FreeFields DEF Others
    <2>4. timers' \subseteq DOMAIN projects'
      BY <1>2, <1>4, <2>1 DEF NewAreUnknown
    <2>5. NewAreUnknown'
      BY <1>4, <2>2, <2>3, <2>4 DEF NewAreUnknown, Making
    <2>6. ToldIsThere'
      BY <1>1, <1>2, <1>4, <2>1 DEF ToldIsThere
    <2>7. AnnouncedAsStored'
      BY <1>1, <1>2, <1>4, <2>1 DEF AnnouncedAsStored
    <2>8. QED
      BY <2>5, <2>6, <2>7 DEF NewHold
  <1>7. PageShape'
    BY <1>1, <1>4 DEF PInv, PageShape
  <1>8. KeptAreInForms'
    <2>1. KeptAreInForms
      BY DEF PInv
    <2>2. "lost" \notin excused' /\ at = 0 => \A m \in timers' : kept \subseteq Gallery(projects[m])
      BY <1>1, <1>4, <2>1 DEF KeptAreInForms
    <2>3. \A j \in Slots : wire'[j] = wire[j] \/ wire'[j] = Free
      BY <1>3 DEF Others
    <2>4. \A j \in Slots : \/ /\ ~At(j, {"save", "create"}, "out")' /\ ~At(j, {"SCREENSHOT"}, "out")'
                              /\ ~Making(wire'[j])
                           \/ wire'[j] = wire[j]
      BY <2>3, FreeFields DEF At, Making
    <2>5. QED
      BY <1>4, <2>1, <2>2, <2>4 DEF KeptAreInForms, At, Making
  <1>9. /\ busy' = IF wire[i].mounted /\ wire[i].kind \notin {"load", "status"}
                   THEN busy \ {FlagOf(wire[i].kind)} ELSE busy
        /\ ~WillReread(wire[i])
    BY <1>1, <1>4 DEF FlagOf, WillReread, Rereads, Uploads
  <1>10. \A u \in DOMAIN wire[i].files : wire[i].files[u] # "row"
    BY <1>1 DEF PInv, HandlerHolds, HasItsFiles
  <1>11. UNCHANGED <<server, viewer, at, known, copy, rev, copyRev, likeRev>>
    BY DEF Announce, history
  <1>12. QED
    BY <1>1, <1>3, <1>4, <1>5, <1>6, <1>7, <1>8, <1>9, <1>10, <1>11, Ends

-----------------------------------------------------------------------------
(* Failures *)

LEMMA FaultCounts ==
  ASSUME TypeOK, Fault PROVE faults' \in 0 .. MaxFaults
  BY ProjectPageAssumption DEF TypeOK, Fault

LEMMA FailStep ==
  ASSUME PInv, NEW i \in Slots, Fail(i) PROVE PInv'
  <1>1. wire[i].kind # "free" /\ ~At(i, Uploads, "out") /\ Caught(i) /\ Fault
    BY DEF Fail
  <1>2. TypeOK /\ wire' = Done(i)
    BY DEF PInv, Fail
  <1>3. wire' \in [Slots -> Work] /\ wire' \in [1 .. MaxWork -> Work] /\ Others(i) /\ wire'[i] = Free
    BY <1>2, Ending
  <1>4. TypeOK'
    <2>1. faults' \in 0 .. MaxFaults /\ isLiked' \in BOOLEAN
      BY <1>1, <1>2, FaultCounts DEF Caught
    <2>2. busy' \in SUBSET Flags /\ excused' \in SUBSET {"behind", "unliked", "lost"}
      BY <1>1, <1>2 DEF Caught, TypeOK
    <2>3. QED
      BY <1>2, <1>3, <2>1, <2>2 DEF Fail, Caught, TypeOK, server
  <1>5. NewHold' /\ KeptAreInForms' /\ PageShape'
    BY <1>3, <1>4, EndsAlone DEF Fail, Caught, server
  <1>6. \A u \in DOMAIN wire[i].files : wire[i].files[u] # "row"
    BY <1>1 DEF PInv, HandlerHolds, HasItsFiles, At
  <1>7. "behind" \in excused' /\ "unliked" \in excused' /\ excused \subseteq excused' /\ torn' = torn
    BY DEF Fail, Caught
  <1>8. busy' = IF wire[i].mounted /\ wire[i].kind \notin {"load", "status"}
                THEN busy \ {FlagOf(wire[i].kind)} ELSE busy
    BY DEF Fail, Caught
  <1>9. QED
    BY <1>1, <1>3, <1>4, <1>5, <1>6, <1>7, <1>8, Ends DEF Fail, Caught

LEMMA FailFileStep ==
  ASSUME PInv, NEW i \in Slots, NEW u \in Urls, FailFile(i, u) PROVE PInv'
  <1> DEFINE rest == DOMAIN wire[i].files \ {u}
             fs == [v \in rest |-> wire[i].files[v]]
  <1>1. /\ wire[i].kind \in Uploads /\ wire[i].step = "out" /\ u \in DOMAIN wire[i].files
        /\ Caught(i) /\ Fault /\ viewer = "author"
    BY DEF PInv, TypeOK, FailFile, At, HandlerHolds, SuitsTheViewer, Uploads
  <1>2. /\ TypeOK /\ wire \in [Slots -> Work] /\ wire[i] \in Work /\ wire[i].slug \in Nat
        /\ wire[i].files \in [DOMAIN wire[i].files -> {"out", "row", "back"}] /\ DOMAIN wire[i].files \subseteq Urls
    BY WireIsThere, WorkFields DEF PInv
  <1>3. /\ "behind" \in excused' /\ "unliked" \in excused' /\ excused \subseteq excused' /\ torn \subseteq torn'
        /\ wire[i].files[u] = "row" => wire[i].slug \in torn'
        /\ busy' = IF wire[i].mounted /\ wire[i].kind \notin {"load", "status"}
                   THEN busy \ {FlagOf(wire[i].kind)} ELSE busy
        /\ UNCHANGED <<server, viewer, at, link, known, copy, editing, form, timers, told,
                       moves, used, rev, copyRev, likeRev, kept>>
    BY DEF FailFile, Caught
  <1>4. ASSUME wire' \in [1 .. MaxWork -> Work] PROVE TypeOK'
    <2>1. faults' \in 0 .. MaxFaults /\ isLiked' \in BOOLEAN
      BY <1>1, <1>2, FaultCounts DEF Caught
    <2>2. /\ busy' \in SUBSET Flags /\ excused' \in SUBSET {"behind", "unliked", "lost"}
      BY <1>1, <1>2 DEF Caught, TypeOK
    <2>3. torn' \in SUBSET (1 .. MaxCreated)
      <3>1. wire[i].files[u] = "row" => wire[i].slug # 0
        BY <1>1 DEF PInv, HandlerHolds, HasItsFiles
      <3>2. wire[i].slug \in 0 .. MaxCreated
        BY <1>2, WorkFields
      <3>3. QED
        BY <1>2, <3>1, <3>2, ProjectPageAssumption DEF FailFile, TypeOK
    <2>4. QED
      BY <1>2, <1>3, <1>4, <2>1, <2>2, <2>3 DEF TypeOK, server
  <1>5. CASE rest = {}
    <2>1. wire' = Done(i)
      BY <1>5 DEF FailFile
    <2>2. wire' \in [Slots -> Work] /\ wire' \in [1 .. MaxWork -> Work] /\ Others(i) /\ wire'[i] = Free
      BY <1>2, <2>1, Ending
    <2>3. TypeOK'
      BY <1>4, <2>2
    <2>4. NewHold' /\ KeptAreInForms' /\ PageShape'
      BY <1>3, <2>2, <2>3, EndsAlone
    <2>5. \A v \in DOMAIN wire[i].files : wire[i].files[v] = "row" => wire[i].slug \in torn'
      BY <1>3, <1>5
    <2>6. wire[i].kind # "free"
      BY <1>1 DEF Uploads
    <2>7. QED
      BY <1>1, <1>3, <2>2, <2>3, <2>4, <2>5, <2>6, Ends
  <1>6. CASE rest # {}
    <2> DEFINE w == [wire[i] EXCEPT !.mounted = FALSE, !.files = fs]
    <2>1. wire' = [wire EXCEPT ![i] = w]
      BY <1>6 DEF FailFile
    <2>2. fs \in UNION {[S -> {"out", "row", "back"}] : S \in SUBSET Urls}
      <3>1. rest \in SUBSET Urls /\ fs \in [rest -> {"out", "row", "back"}]
        BY <1>2
      <3> HIDE DEF rest, fs
      <3>2. QED
        BY <3>1, FilesAre
    <2>3. DOMAIN fs = rest /\ \A v \in rest : fs[v] = wire[i].files[v]
      OBVIOUS
    <2> HIDE DEF fs
    <2>4. /\ w \in Work /\ ~w.mounted /\ w.files = fs /\ w.kind = wire[i].kind /\ w.step = wire[i].step
          /\ w.slug = wire[i].slug /\ w.rev = wire[i].rev /\ w.row = wire[i].row /\ w.form = wire[i].form
          /\ w.publish = wire[i].publish
      BY <1>2, <2>2 DEF Work
    <2> HIDE DEF w
    <2>5. wire' \in [Slots -> Work] /\ wire'[i] = w /\ Others(i)
      BY <1>2, <2>1, <2>4, Becomes
    <2>6. TypeOK'
      BY <1>4, <2>5 DEF Slots
    <2>7. /\ projects' = projects /\ rev' = rev /\ rev \in Nat /\ Len(projects) \in Nat /\ NewAreUnknown
          /\ \A j \in Slots : KnowsItsProject(wire[j])
      BY <1>2, <1>3 DEF server, TypeOK, PInv, HandlerHolds
    <2>8. HandlerHolds(wire[i])'
      <3>1. HandlerHolds(wire[i])
        BY DEF PInv
      <3>2. KnowsItsProject(wire[i])' /\ HasItsAnswer(wire[i])' /\ Publishes(wire[i])'
        BY <1>1, <2>4, <2>5, <2>7, <3>1 DEF HandlerHolds, KnowsItsProject, HasItsAnswer, Publishes, Uploads
      <3>3. HasItsFiles(wire[i])'
        BY <1>1, <1>6, <2>3, <2>4, <2>5, <3>1 DEF HandlerHolds, HasItsFiles
      <3>4. IsOfThePage(wire[i])' /\ SuitsTheViewer(wire[i])'
        BY <1>1, <1>3, <2>4, <2>5, <3>1 DEF HandlerHolds, IsOfThePage, SuitsTheViewer, Uploads
      <3>5. QED
        BY <3>2, <3>3, <3>4 DEF HandlerHolds
    <2>9. \A j \in Slots : HandlerHolds(wire[j])'
      BY <1>3, <2>5, <2>6, <2>7, <2>8, HandlersHold
    <2>10. FlagsHold'
      BY <1>1, <1>3, <2>4, <2>5, FlagsEnd DEF PInv, FlagsHold, Uploads
    <2>11. NewHold' /\ PageShape'
      <3>1. \A j \in Slots : wire'[j].slug = wire[j].slug /\ (Making(wire'[j]) => Making(wire[j]))
        BY <2>4, <2>5 DEF Others, Making
      <3>2. NewHold'
        BY <1>2, <1>3, <2>6, <2>7, <3>1, NewStay DEF PInv, NewHold
      <3>3. QED
        BY <1>3, <3>2 DEF PInv, PageShape
    <2>12. AuthorReads'
      <3>1. NoLikes'
        BY <1>1, <1>3, <2>4, <2>5, <2>7 DEF PInv, AuthorReads, NoLikes, Others
      <3>2. \A j \in Slots : HasReread(wire'[j]) => HasReread(wire[j]) /\ wire'[j] = wire[j]
        BY <2>4, <2>5 DEF Others, HasReread, WillReread
      <3>3. QED
        BY <1>1, <1>2, <1>3, <2>6, <2>7, <3>1, <3>2, AuthorStays DEF PInv
    <2>13. KeptAreInForms'
      <3>1. \A j \in Slots : Making(wire'[j]) => Making(wire[j]) /\ wire'[j].slug = wire[j].slug
        BY <2>4, <2>5 DEF Others, Making
      <3>2. \A j \in Slots : Unwritten(wire'[j]) => Unwritten(wire[j]) /\ wire'[j].form = wire[j].form
        BY <2>4, <2>5 DEF Others, Unwritten
      <3>3. \A j \in Slots : Storing(wire'[j]) => Storing(wire[j]) /\ wire'[j].files = wire[j].files
        BY <2>4, <2>5 DEF Others, Storing
      <3>4. QED
        BY <1>2, <1>3, <2>7, <3>1, <3>2, <3>3, KeptStay DEF PInv
    <2>14. VideosAreKnown'
      <3>1. \A j \in Slots : \A v \in DOMAIN wire[j].files : wire[j].files[v] = "row" =>
              \/ wire'[j].slug = wire[j].slug /\ v \in DOMAIN wire'[j].files /\ wire'[j].files[v] = "row"
              \/ wire[j].slug \in torn'
        BY <1>3, <2>3, <2>4, <2>5 DEF Others
      <3>2. QED
        BY <1>3, <2>7, <3>1, VideosStay DEF PInv
    <2>15. QED
      BY <1>1, <1>3, <2>6, <2>9, <2>10, <2>11, <2>12, <2>13, <2>14, OnlyOneViewer DEF PInv, FlagsHold, NewHold
  <1>7. QED
    BY <1>5, <1>6

-----------------------------------------------------------------------------
(* An upload is answered *)

LEMMA FilledIs ==
  ASSUME NEW f \in Form, NEW kind \in Uploads, NEW urls \in SUBSET Urls, urls # {}
  PROVE  /\ Filled(f, kind, urls) \in Form
         /\ kind = "SCREENSHOT" => Filled(f, kind, urls).shots = f.shots \cup urls
         /\ kind # "SCREENSHOT" => Filled(f, kind, urls).shots = f.shots
  <1>1. CASE kind = "SCREENSHOT"
    <2>1. Filled(f, kind, urls) = [f EXCEPT !.shots = @ \cup urls]
      BY <1>1 DEF Filled
    <2>2. QED
      BY <1>1, <2>1 DEF Form
  <1>2. CASE kind # "SCREENSHOT"
    <2> DEFINE u == CHOOSE u \in urls : TRUE
               k == CASE kind = "IMAGE" -> "background" [] kind = "VIDEO" -> "video" [] OTHER -> "thumbnail"
    <2>1. u \in Value
      BY DEF Value
    <2>2. k \in Scalars
      BY DEF Scalars
    <2>3. Filled(f, kind, urls) = [f EXCEPT !.scalar[k] = u]
      BY <1>2 DEF Filled
    <2> HIDE DEF u, k
    <2>4. QED
      BY <1>2, <2>1, <2>2, <2>3 DEF Form
  <1>3. QED
    BY <1>1, <1>2

LEMMA UploadedStep ==
  ASSUME PInv, NEW i \in Slots, Uploaded(i) PROVE PInv'
  <1> DEFINE urls == DOMAIN wire[i].files
  <1>1. /\ wire[i].kind \in Uploads /\ wire[i].step = "out" /\ viewer = "author"
        /\ \A u \in urls : wire[i].files[u] = "back"
        /\ HandlerHolds(wire[i]) /\ wire[i].kind # "free"
    BY DEF PInv, TypeOK, Uploaded, At, HandlerHolds, SuitsTheViewer, Uploads
  <1>2. /\ TypeOK /\ wire \in [Slots -> Work] /\ urls \in SUBSET Urls /\ form \in Form /\ urls # {}
        /\ wire[i].mounted \in BOOLEAN
    BY <1>1, WireIsThere, WorkFields DEF PInv, TypeOK, HandlerHolds, HasItsFiles
  <1>3. /\ Filled(form, wire[i].kind, urls) \in Form
        /\ wire[i].kind = "SCREENSHOT" => Filled(form, wire[i].kind, urls).shots = form.shots \cup urls
        /\ wire[i].kind # "SCREENSHOT" => Filled(form, wire[i].kind, urls).shots = form.shots
    BY <1>1, <1>2, FilledIs
  <1>4. /\ UNCHANGED <<server, viewer, at, link, known, copy, isLiked, editing, timers, told,
                       counts, rev, copyRev, likeRev, torn>>
        /\ projects' = projects /\ liked' = liked
    BY DEF Uploaded, server
  <1>5. CASE ~wire[i].mounted
    <2>1. wire' = Done(i) /\ form' = form /\ kept' = kept /\ excused' = excused /\ busy' = busy
      BY <1>5 DEF Uploaded
    <2>2. wire' \in [Slots -> Work] /\ wire' \in [1 .. MaxWork -> Work] /\ Others(i) /\ wire'[i] = Free
      BY <1>2, <2>1, Ending
    <2>3. TypeOK'
      BY <1>2, <1>4, <2>1, <2>2 DEF TypeOK, server, counts
    <2>4. NewHold' /\ KeptAreInForms' /\ PageShape'
      BY <1>4, <2>1, <2>2, <2>3, EndsAlone
    <2>5. ~WillReread(wire[i])
      BY <1>5 DEF WillReread
    <2>6. QED
      BY <1>1, <1>4, <1>5, <2>1, <2>2, <2>3, <2>4, <2>5, Ends
  <1>6. ASSUME wire[i].mounted
        PROVE  /\ form' = Filled(form, wire[i].kind, urls)
               /\ kept' = IF wire[i].kind = "SCREENSHOT" THEN kept \cup urls ELSE kept
               /\ excused' = IF busy \cap {"pending", "saving"} # {} \/ timers # {} THEN excused \cup {"lost"} ELSE excused
               /\ busy' = IF at = 0 THEN busy \ {"mediaUploading"} ELSE busy
               /\ kept \cup urls \subseteq Urls
    BY <1>2, <1>6 DEF Uploaded, TypeOK
  <1>7. ASSUME wire[i].mounted, "lost" \notin excused', NEW j \in Slots, wire[j].mounted
        PROVE  wire[j].kind \notin {"save", "create"} /\ timers = {} /\ "lost" \notin excused
    BY <1>6, <1>7 DEF PInv, AloneUnderItsFlag, FlagOf
  <1>8. CASE wire[i].mounted /\ at = 0
    <2>1. wire' = Done(i)
      BY <1>8 DEF Uploaded
    <2>2. wire' \in [Slots -> Work] /\ wire' \in [1 .. MaxWork -> Work] /\ Others(i) /\ wire'[i] = Free
      BY <1>2, <2>1, Ending
    <2>3. TypeOK'
      BY <1>2, <1>3, <1>4, <1>6, <1>8, <2>2 DEF TypeOK, server, counts
    <2>4. NewHold' /\ PageShape'
      <3>1. \A j \in Slots : \/ wire'[j].slug = wire[j].slug /\ (Making(wire'[j]) => Making(wire[j]))
                             \/ wire'[j].slug \in {0, at} /\ ~Making(wire'[j])
        BY <2>2, FreeFields, FreeIsIdle DEF Others
      <3>2. NewHold'
        BY <1>2, <1>4, <2>3, <3>1, AtIs, NewStay DEF PInv, NewHold, HandlerHolds
      <3>3. QED
        BY <1>4, <3>2 DEF PInv, PageShape
    <2>5. KeptAreInForms'
      <3>1. kept' \subseteq form'.shots
        BY <1>3, <1>6, <1>8 DEF PInv, KeptAreInForms
      <3>2. ASSUME "lost" \notin excused' PROVE timers = {}
        BY <1>6, <1>8, <3>2
      <3>3. ASSUME "lost" \notin excused', NEW j \in Slots
            PROVE  ~(At(j, {"save", "create"}, "out")' /\ wire'[j].mounted) /\ ~Making(wire'[j])
        <4>1. CASE j = i
          BY <2>2, <4>1, FreeFields, FreeIsIdle DEF At
        <4>2. CASE j # i
          <5>1. wire'[j] = wire[j]
            BY <2>2, <4>2 DEF Others
          <5>2. wire[j].kind = "create" => wire[j].mounted
            BY <1>8 DEF PInv, HandlerHolds, IsOfThePage
          <5>3. QED
            BY <1>7, <1>8, <3>3, <5>1, <5>2 DEF At, Making
        <4>3. QED
          BY <4>1, <4>2
      <3>4. QED
        BY <1>4, <1>8, <3>1, <3>2, <3>3 DEF KeptAreInForms
    <2>6. busy' = busy \ {FlagOf(wire[i].kind)} /\ wire[i].kind \notin {"load", "status"}
      BY <1>1, <1>6, <1>8 DEF FlagOf, Uploads
    <2>7. excused \subseteq excused'
      BY <1>6, <1>8
    <2>8. QED
      BY <1>1, <1>4, <1>8, <2>2, <2>3, <2>4, <2>5, <2>6, <2>7, Ends
  <1>9. CASE wire[i].mounted /\ at # 0
    <2>0. wire[i].slug = at
      BY <1>1, <1>9 DEF HandlerHolds, IsOfThePage, Uploads
    <2>1. Step(i, "again")
      BY <1>9 DEF Uploaded
    <2>2. wire' \in [Slots -> Work] /\ Others(i) /\ wire'[i].step = "again" /\ OnlyStep(wire[i], wire'[i])
      BY <1>2, <2>1, StepMoves DEF Steps
    <2>3. TypeOK'
      BY <1>2, <1>3, <1>4, <1>6, <1>9, <2>2 DEF TypeOK, server, counts, Slots
    <2>4. /\ rev' = rev /\ rev \in Nat /\ Len(projects) \in Nat /\ NewAreUnknown
          /\ \A j \in Slots : KnowsItsProject(wire[j])
      BY <1>2, <1>4 DEF TypeOK, PInv, HandlerHolds
    <2>5. HandlerHolds(wire[i])'
      <3>1. KnowsItsProject(wire[i])' /\ HasItsAnswer(wire[i])' /\ Publishes(wire[i])'
        BY <1>1, <1>4, <1>9, <2>0, <2>2, <2>4
        DEF HandlerHolds, KnowsItsProject, HasItsAnswer, Publishes, Uploads, OnlyStep
      <3>2. HasItsFiles(wire[i])'
        BY <1>1, <2>2 DEF HandlerHolds, HasItsFiles, OnlyStep
      <3>3. IsOfThePage(wire[i])' /\ SuitsTheViewer(wire[i])'
        BY <1>1, <1>4, <2>2 DEF HandlerHolds, IsOfThePage, SuitsTheViewer, Uploads, OnlyStep
      <3>4. QED
        BY <3>1, <3>2, <3>3 DEF HandlerHolds
    <2>6. \A j \in Slots : HandlerHolds(wire[j])'
      BY <1>4, <2>2, <2>3, <2>4, <2>5, HandlersHold
    <2>7. FlagsHold'
      BY <1>6, <1>9, <2>2, FlagsStay DEF PInv, FlagsHold, Others, OnlyStep
    <2>8. NewHold' /\ PageShape'
      <3>1. \A j \in Slots : wire'[j].slug = wire[j].slug /\ (Making(wire'[j]) => Making(wire[j]))
        BY <1>1, <2>2 DEF Others, OnlyStep, Making, Uploads
      <3>2. NewHold'
        BY <1>2, <1>4, <2>3, <2>4, <3>1, NewStay DEF PInv, NewHold
      <3>3. QED
        BY <1>4, <3>2 DEF PInv, PageShape
    <2>9. AuthorReads'
      <3>1. NoLikes'
        BY <1>1, <1>4, <2>2, <2>4 DEF PInv, AuthorReads, NoLikes, Others, OnlyStep
      <3>2. \A j \in Slots : HasReread(wire'[j]) => HasReread(wire[j]) /\ wire'[j] = wire[j]
        BY <2>2 DEF Others, HasReread
      <3>3. \A j \in Slots : WillReread(wire[j]) => WillReread(wire'[j])
        BY <2>2 DEF Others, OnlyStep, WillReread
      <3>4. QED
        BY <1>2, <1>4, <1>6, <1>9, <2>3, <2>4, <3>1, <3>2, <3>3, AuthorStays DEF PInv
    <2>10. KeptAreInForms'
      <3>1. ASSUME "lost" \notin excused'
            PROVE  /\ editing' => kept' \subseteq form'.shots
                   /\ kept' \subseteq Gallery(projects[at])
        <4>1. "lost" \notin excused
          BY <1>7, <1>9, <3>1
        <4>2. /\ editing => kept \subseteq form.shots
              /\ kept \subseteq Gallery(projects[at])
              /\ wire[i].kind = "SCREENSHOT" => urls \subseteq Gallery(projects[at])
          BY <1>1, <1>9, <4>1 DEF PInv, KeptAreInForms, At
        <4>3. QED
          BY <1>3, <1>4, <1>6, <1>9, <4>2
      <3>2. ASSUME "lost" \notin excused', NEW j \in Slots
            PROVE  /\ ~(At(j, {"save", "create"}, "out")' /\ wire'[j].mounted)
                   /\ At(j, {"SCREENSHOT"}, "out")' /\ wire'[j].mounted =>
                        \A u \in DOMAIN wire'[j].files : wire'[j].files[u] = "back" => u \in Gallery(projects[at])
        <4>1. CASE j = i
          BY <2>2, <4>1 DEF At
        <4>2. CASE j # i
          <5>1. wire'[j] = wire[j]
            BY <2>2, <4>2 DEF Others
          <5>2. QED
            BY <1>7, <1>9, <3>2, <5>1 DEF At, PInv, KeptAreInForms
        <4>3. QED
          BY <4>1, <4>2
      <3>3. QED
        BY <1>4, <1>9, <3>1, <3>2 DEF KeptAreInForms
    <2>11. VideosAreKnown'
      <3>1. \A j \in Slots : wire'[j].slug = wire[j].slug /\ wire'[j].files = wire[j].files
        BY <2>2 DEF Others, OnlyStep
      <3>2. QED
        BY <1>4, <3>1, VideosStay DEF PInv
    <2>12. QED
      BY <1>1, <1>4, <2>3, <2>6, <2>7, <2>8, <2>9, <2>10, <2>11, OnlyOneViewer DEF PInv, FlagsHold, NewHold
  <1>10. QED
    BY <1>2, <1>5, <1>8, <1>9

-----------------------------------------------------------------------------
(* What was read is shown *)

\* An answer that is shown dates the page's copy.
LEMMA ShownIsTyped ==
  ASSUME TypeOK, NEW r \in Nat, r <= rev, NEW row \in Row, Shown(r, row)
  PROVE  /\ copy' = row /\ copy' # None /\ copyRev' = r /\ copyRev' \in 0 .. rev
         /\ excused' \in SUBSET {"behind", "unliked", "lost"}
         /\ "lost" \in excused <=> "lost" \in excused'
         /\ "unliked" \in excused <=> "unliked" \in excused'
  BY ProjectPageAssumption DEF TypeOK, Shown, Overtaken

\* A handler with an answer to show, on the page that it is for.
LEMMA HasAnAnswer ==
  ASSUME PInv, NEW i \in Slots, wire[i].kind \in Rereads, wire[i].step = "reply"
  PROVE  /\ wire[i].rev \in Nat /\ wire[i].rev <= rev /\ wire[i].row \in Row
         /\ wire[i].mounted => HasReread(wire[i]) /\ at # 0 /\ wire[i].slug = at
         /\ wire[i].kind # "free" /\ wire[i].mounted \in BOOLEAN
         /\ \A u \in DOMAIN wire[i].files : wire[i].files[u] # "row"
  <1>1. HandlerHolds(wire[i]) /\ TypeOK
    BY DEF PInv
  <1>2. wire[i].rev \in Nat /\ wire[i].mounted \in BOOLEAN
    BY <1>1, WireIsThere, WorkFields
  <1>3. wire[i].kind \notin {"free", "create"}
    BY DEF Rereads, Uploads
  <1>4. wire[i].slug # 0
    BY <1>1, <1>3 DEF HandlerHolds, KnowsItsProject
  <1>5. QED
    BY <1>1, <1>2, <1>3, <1>4 DEF HandlerHolds, HasItsAnswer, HasItsFiles, IsOfThePage, HasReread, WillReread

LEMMA RefreshedStep ==
  ASSUME PInv, NEW i \in Slots, Refreshed(i) PROVE PInv'
  <1>1. /\ wire[i].kind \in Uploads \cup {"save", "drop"} /\ wire[i].kind \in Rereads /\ wire[i].step = "reply"
        /\ wire[i].kind \notin {"load", "status"} /\ viewer = "author"
    BY DEF PInv, TypeOK, Refreshed, At, Rereads, HandlerHolds, SuitsTheViewer, Uploads
  <1>2. /\ wire[i].rev \in Nat /\ wire[i].rev <= rev /\ wire[i].row \in Row
        /\ wire[i].mounted => HasReread(wire[i]) /\ at # 0 /\ wire[i].slug = at
        /\ wire[i].kind # "free" /\ wire[i].mounted \in BOOLEAN
        /\ \A u \in DOMAIN wire[i].files : wire[i].files[u] # "row"
    BY <1>1, HasAnAnswer
  <1>3. TypeOK /\ wire' = Done(i)
    BY DEF PInv, Refreshed
  <1>4. wire' \in [Slots -> Work] /\ wire' \in [1 .. MaxWork -> Work] /\ Others(i) /\ wire'[i] = Free
    BY <1>3, Ending
  <1>5. /\ UNCHANGED <<server, viewer, at, link, known, isLiked, timers, told, counts, rev, likeRev, kept, torn>>
        /\ projects' = projects /\ rev \in Nat /\ Len(projects) \in Nat
    BY <1>3 DEF Refreshed, server, TypeOK
  <1>6. CASE ~wire[i].mounted
    <2>1. UNCHANGED <<copy, editing, form, busy, copyRev, excused>>
      BY <1>6 DEF Refreshed
    <2>2. TypeOK'
      BY <1>3, <1>4, <1>5, <2>1 DEF TypeOK, server, counts
    <2>3. NewHold' /\ KeptAreInForms' /\ PageShape'
      BY <1>4, <1>5, <2>1, <2>2, EndsAlone
    <2>4. ~WillReread(wire[i])
      BY <1>6 DEF WillReread
    <2>5. QED
      BY <1>1, <1>2, <1>4, <1>5, <1>6, <2>1, <2>2, <2>3, <2>4, Ends
  <1>7. CASE wire[i].mounted
    <2>1. /\ Shown(wire[i].rev, wire[i].row)
          /\ editing' = (wire[i].kind # "save" /\ editing)
          /\ form' = IF wire[i].kind = "drop" THEN [form EXCEPT !.scalar["video"] = None] ELSE form
          /\ busy' = busy \ {FlagOf(wire[i].kind)}
      <3>1. FlagOf(wire[i].kind) = CASE wire[i].kind = "save" -> "saving" [] wire[i].kind = "drop" -> "videoDeleting"
                                     [] OTHER -> "mediaUploading"
        BY <1>1 DEF FlagOf, Uploads
      <3>2. QED
        BY <1>7, <3>1 DEF Refreshed
    <2>2. form' \in Form /\ form'.shots = form.shots
      <3>1. form \in Form /\ None \in Value
        BY <1>3 DEF TypeOK, Value
      <3>2. QED
        BY <2>1, <3>1 DEF Form
    <2>3. /\ copy' = wire[i].row /\ copy' # None /\ copyRev' \in 0 .. rev
          /\ excused' \in SUBSET {"behind", "unliked", "lost"}
          /\ "lost" \in excused <=> "lost" \in excused'
      BY <1>2, <1>3, <2>1, ShownIsTyped
    <2>4. TypeOK'
      BY <1>2, <1>3, <1>4, <1>5, <2>1, <2>2, <2>3 DEF TypeOK, server, counts
    <2>5. \A j \in Slots : HandlerHolds(wire[j])'
      <3>1. HandlerHolds(wire[i])'
        BY <1>4, <2>4, FreeHolds
      <3>2. copy' \in Row
        BY <1>2, <2>3
      <3>3. QED
        BY <1>4, <1>5, <2>4, <3>1, <3>2, HandlersHold
    <2>6. FlagsHold'
      <3>1. ~(wire'[i].mounted /\ wire'[i].kind # "free")
        BY <1>4, FreeFields
      <3>2. QED
        BY <1>1, <1>2, <1>4, <1>7, <2>1, <3>1, FlagsEnd DEF PInv, FlagsHold
    <2>7. \A j \in Slots : KnowsItsProject(wire[j])
      BY DEF PInv, HandlerHolds
    <2>8. NewHold'
      <3>1. \A j \in Slots : \/ wire'[j].slug = wire[j].slug /\ (Making(wire'[j]) => Making(wire[j]))
                             \/ wire'[j].slug \in {0, at} /\ ~Making(wire'[j])
        BY <1>4, FreeFields, FreeIsIdle DEF Others
      <3>2. QED
        BY <1>3, <1>5, <2>4, <2>7, <3>1, NewStay DEF PInv, NewHold
    <2>9. PageShape'
      BY <1>1, <1>2, <1>5, <1>7, <2>3 DEF PInv, PageShape
    <2>10. AuthorReads'
      <3>1. \A j \in Slots : /\ wire'[j].row # None => wire'[j].row = wire[j].row
                             /\ HasReread(wire'[j]) => wire'[j] = wire[j]
                             /\ j # i => wire'[j] = wire[j]
        BY <1>4, FreeFields, FreeIsIdle DEF Others
      <3>2. QED
        BY <1>2, <1>3, <1>5, <1>7, <2>1, <2>4, <3>1, AuthorShown DEF PInv
    <2>11. KeptAreInForms'
      <3>1. \A j \in Slots : Making(wire'[j]) => Making(wire[j]) /\ wire'[j].slug = wire[j].slug
        BY <1>4, FreeIsIdle DEF Others
      <3>2. \A j \in Slots : Unwritten(wire'[j]) => Unwritten(wire[j]) /\ wire'[j].form = wire[j].form
        BY <1>4, FreeIsIdle DEF Others
      <3>3. \A j \in Slots : Storing(wire'[j]) => Storing(wire[j]) /\ wire'[j].files = wire[j].files
        BY <1>4, FreeIsIdle DEF Others
      <3>4. QED
        BY <1>3, <1>5, <2>1, <2>2, <2>3, <2>7, <3>1, <3>2, <3>3, KeptStay DEF PInv
    <2>12. VideosAreKnown'
      <3>1. \A j \in Slots : \A u \in DOMAIN wire[j].files : wire[j].files[u] = "row" => wire'[j] = wire[j]
        BY <1>2, <1>4 DEF Others
      <3>2. QED
        BY <1>5, <3>1, VideosStay DEF PInv
    <2>13. QED
      BY <1>1, <1>5, <2>4, <2>5, <2>6, <2>8, <2>9, <2>10, <2>11, <2>12, OnlyOneViewer DEF PInv, FlagsHold, NewHold
  <1>8. QED
    BY <1>2, <1>6, <1>7

\* Handlers come and go that have no flag.
LEMMA FlagsAside ==
  ASSUME FlagsHold, busy' = busy,
         \A j \in Slots : \/ wire'[j] = wire[j]
                          \/ {wire[j].kind, wire'[j].kind} \subseteq {"free", "load", "status"}
  PROVE  FlagsHold'
  <1>1. \A j \in Slots : wire[j].kind \notin {"free", "load", "status"} => wire'[j] = wire[j]
    OBVIOUS
  <1>2. \A j \in Slots : wire'[j].kind \notin {"free", "load", "status"} => wire'[j] = wire[j]
    OBVIOUS
  <1>3. AloneUnderItsFlag'
    BY <1>2 DEF FlagsHold, AloneUnderItsFlag
  <1>4. FlagsHaveOwners'
    BY <1>1 DEF FlagsHold, FlagsHaveOwners
  <1>5. QED
    BY <1>3, <1>4 DEF FlagsHold

LEMMA LoadedStep ==
  ASSUME PInv, NEW i \in Slots, Loaded(i) PROVE PInv'
  <1>1. wire[i].kind = "load" /\ wire[i].kind \in Rereads /\ wire[i].step = "reply"
    BY DEF Loaded, At, Rereads
  <1>2. /\ wire[i].rev \in Nat /\ wire[i].rev <= rev /\ wire[i].row \in Row
        /\ wire[i].mounted => HasReread(wire[i]) /\ at # 0 /\ wire[i].slug = at
        /\ wire[i].mounted \in BOOLEAN
        /\ \A u \in DOMAIN wire[i].files : wire[i].files[u] # "row"
    BY <1>1, HasAnAnswer
  <1>3. TypeOK /\ wire \in [Slots -> Work]
    BY WireIsThere DEF PInv
  <1>4. /\ UNCHANGED <<server, viewer, at, link, known, isLiked, editing, form, busy, timers, told,
                       counts, rev, likeRev, kept, torn>>
        /\ projects' = projects /\ liked' = liked /\ rev \in Nat /\ Len(projects) \in Nat
    BY <1>3 DEF Loaded, server, TypeOK
  <1>5. CASE ~wire[i].mounted
    <2>1. wire' = Done(i) /\ UNCHANGED <<copy, copyRev, excused>>
      BY <1>5 DEF Loaded
    <2>2. wire' \in [Slots -> Work] /\ wire' \in [1 .. MaxWork -> Work] /\ Others(i) /\ wire'[i] = Free
      BY <1>3, <2>1, Ending
    <2>3. TypeOK'
      BY <1>3, <1>4, <2>1, <2>2 DEF TypeOK, server, counts
    <2>4. NewHold' /\ KeptAreInForms' /\ PageShape'
      BY <1>4, <2>1, <2>2, <2>3, EndsAlone
    <2>5. ~WillReread(wire[i]) /\ ~Asks(wire[i])
      BY <1>5 DEF WillReread, Asks
    <2>6. QED
      BY <1>1, <1>2, <1>4, <1>5, <2>1, <2>2, <2>3, <2>4, <2>5, Ends
  <1>6. CASE wire[i].mounted
    <2> DEFINE r == Start("status", "out")
    <2>1. /\ Shown(wire[i].rev, wire[i].row)
          /\ copy' = wire[i].row /\ copy' # None /\ copy' \in Row /\ copyRev' \in 0 .. rev
          /\ excused' \in SUBSET {"behind", "unliked", "lost"}
          /\ "lost" \in excused <=> "lost" \in excused'
          /\ "unliked" \in excused <=> "unliked" \in excused'
      <3>1. Shown(wire[i].rev, wire[i].row)
        BY <1>6 DEF Loaded
      <3>2. QED
        BY <1>2, <1>3, <3>1, ShownIsTyped
    <2>2. Fresh(r, "status") /\ DOMAIN r.files = {}
      BY <1>3, AtIs, StartFields DEF Kinds, Fresh, Steps
    <2>3. /\ wire' \in [Slots -> Work]
          /\ \A j \in Slots : \/ wire'[j] = wire[j] /\ j # i
                              \/ wire'[j] = Free /\ j = i
                              \/ wire'[j] = r /\ (j = i \/ wire[j].kind = "free")
          /\ known => \E j \in Slots : wire'[j] = r
      <3>1. AskStatus(Done(i), copy', known)
        BY <1>6 DEF Loaded
      <3> HIDE DEF r
      <3>2. /\ Done(i) \in [Slots -> Work] /\ Done(i)[i] = Free
            /\ \A j \in Slots : j # i => Done(i)[j] = wire[j]
        BY <1>3, DoneFrees
      <3>3. CASE ~known
        <4>1. wire' = Done(i)
          BY <3>1, <3>3 DEF AskStatus
        <4>2. QED
          BY <3>2, <3>3, <4>1
      <3>4. CASE known
        <4>1. Room(Done(i)) /\ wire' = Put(Done(i), r)
          BY <2>1, <3>1, <3>4 DEF AskStatus, r
        <4>2. r \in Work
          BY <2>2 DEF Fresh
        <4>3. PICK k \in Slots : /\ Done(i)[k].kind = "free"
                                 /\ Put(Done(i), r) \in [Slots -> Work] /\ Put(Done(i), r)[k] = r
                                 /\ \A j \in Slots : j # k => Put(Done(i), r)[j] = Done(i)[j]
          BY <3>2, <4>1, <4>2, PutTakesAFreeSlot
        <4>4. QED
          BY <3>2, <4>1, <4>3
      <3>5. QED
        BY <3>3, <3>4
    <2>4. TypeOK'
      BY <1>3, <1>4, <2>1, <2>3 DEF TypeOK, server, counts, Slots
    <2>5. /\ r.kind = "status" /\ r.step = "out" /\ r.slug = at /\ r.mounted /\ r.rev = 0 /\ r.row = None
          /\ DOMAIN r.files = {}
      BY <2>2 DEF Fresh
    <2> HIDE DEF r
    <2>6. /\ ~Making(r) /\ ~Unwritten(r) /\ ~Storing(r) /\ ~WillReread(r) /\ ~HasReread(r) /\ ~Told(r) /\ Asks(r)
      BY <2>5 DEF Making, Unwritten, Storing, WillReread, HasReread, Told, Asks, Rereads, Uploads
    <2>7. ASSUME NEW j \in Slots PROVE HandlerHolds(wire[j])'
      <3>1. CASE wire'[j] = wire[j]
        BY <1>3, <1>4, <2>1, <2>4, <3>1, OthersHold DEF PInv
      <3>2. CASE wire'[j] = Free
        BY <2>4, <3>2, FreeHolds
      <3>3. CASE wire'[j] = r
        <4>1. viewer' = viewer /\ at' = at /\ (viewer = "guest" => at = 1)
          BY <1>4 DEF PInv, PageShape
        <4>2. QED
          BY <1>2, <1>6, <2>1, <2>4, <2>5, <3>3, <4>1, FreshHolds DEF Kinds, Uploads
      <3>4. QED
        BY <2>3, <3>1, <3>2, <3>3
    <2>8. FlagsHold'
      <3>1. \A j \in Slots : wire'[j] = wire[j] \/ {wire[j].kind, wire'[j].kind} \subseteq {"free", "load", "status"}
        BY <1>1, <2>3, <2>5, FreeFields
      <3>2. QED
        BY <1>4, <3>1, FlagsAside DEF PInv, FlagsHold
    <2>9. \A j \in Slots : KnowsItsProject(wire[j]) /\ HasItsFiles(wire[j])
      BY DEF PInv, HandlerHolds
    <2>10. NewHold'
      <3>1. \A j \in Slots : \/ wire'[j].slug = wire[j].slug /\ (Making(wire'[j]) => Making(wire[j]))
                             \/ wire'[j].slug \in {0, at} /\ ~Making(wire'[j])
        BY <2>3, <2>5, <2>6, FreeFields, FreeIsIdle
      <3>2. QED
        BY <1>3, <1>4, <2>4, <2>9, <3>1, NewStay DEF PInv, NewHold
    <2>11. PageShape'
      BY <1>2, <1>4, <1>6, <2>1 DEF PInv, PageShape
    <2>12. AuthorReads'
      <3>1. \A j \in Slots : /\ wire'[j].row # None => wire'[j].row = wire[j].row
                             /\ HasReread(wire'[j]) => wire'[j] = wire[j]
                             /\ j # i /\ WillReread(wire[j]) => wire'[j] = wire[j]
        <4>1. \A j \in Slots : wire[j].kind = "free" => ~WillReread(wire[j])
          BY DEF WillReread, Rereads, Uploads
        <4>2. QED
          BY <2>3, <2>5, <2>6, <4>1, FreeFields, FreeIsIdle
      <3>2. QED
        BY <1>2, <1>3, <1>4, <1>6, <2>1, <2>4, <3>1, AuthorShown DEF PInv
    <2>13. GuestReads'
      <3>1. viewer = "guest" => /\ copy' # None => OneOf(copy')
                                /\ \A j \in Slots : wire'[j].row # None => OneOf(wire'[j].row)
        <4>1. viewer = "guest" => \A j \in Slots : wire[j].row # None => OneOf(wire[j].row)
          BY DEF PInv, GuestReads
        <4>2. \A j \in Slots : wire'[j].row # None => wire'[j].row = wire[j].row
          BY <2>3, <2>5, FreeFields
        <4>3. QED
          BY <2>1, <4>1, <4>2
      <3>2. \A j \in Slots : Told(wire'[j]) => wire'[j] = wire[j] /\ Told(wire[j])
        BY <2>3, <2>6, FreeIsIdle
      <3>3. known' => \E j \in Slots : Asks(wire'[j]) /\ ~Told(wire'[j])
        BY <1>4, <2>3, <2>6
      <3>4. QED
        BY <1>3, <1>4, <2>4, <3>1, <3>2, <3>3, GuestStays DEF PInv
    <2>14. KeptAreInForms'
      <3>1. \A j \in Slots : Making(wire'[j]) => Making(wire[j]) /\ wire'[j].slug = wire[j].slug
        BY <2>3, <2>6, FreeIsIdle
      <3>2. \A j \in Slots : Unwritten(wire'[j]) => Unwritten(wire[j]) /\ wire'[j].form = wire[j].form
        BY <2>3, <2>6, FreeIsIdle
      <3>3. \A j \in Slots : Storing(wire'[j]) => Storing(wire[j]) /\ wire'[j].files = wire[j].files
        BY <2>3, <2>6, FreeIsIdle
      <3>4. QED
        BY <1>3, <1>4, <2>1, <2>9, <3>1, <3>2, <3>3, KeptStay DEF PInv
    <2>15. VideosAreKnown'
      <3>1. \A j \in Slots : \A u \in DOMAIN wire[j].files : wire[j].files[u] = "row" => wire'[j] = wire[j]
        <4>1. \A j \in Slots : wire[j].kind = "free" => DOMAIN wire[j].files = {}
          BY <2>9 DEF HasItsFiles, Uploads
        <4>2. QED
          BY <1>2, <2>3, <4>1
      <3>2. QED
        BY <1>4, <3>1, VideosStay DEF PInv
    <2>16. QED
      BY <2>4, <2>7, <2>8, <2>10, <2>11, <2>12, <2>13, <2>14, <2>15 DEF PInv, FlagsHold, NewHold
  <1>7. QED
    BY <1>2, <1>5, <1>6

-----------------------------------------------------------------------------
(* The guest's like *)

\* The page takes over a like that was answered.
LEMMA GuestShown ==
  ASSUME TypeOK, TypeOK', GuestReads, viewer' = viewer, rev' = rev, projects' = projects, liked' = liked,
         NEW i \in Slots, Told(wire[i]), Others(i), wire'[i] = Free,
         copy \in Row, wire[i].rev \in Nat, wire[i].rev <= rev, wire[i].row \in Row,
         copy' = [copy EXCEPT !.likes = wire[i].row.likes], isLiked' = wire[i].liked,
         likeRev' = wire[i].rev, Overtaken(wire[i].rev, likeRev, "unliked"), known' = known
  PROVE  GuestReads'
  <1>1. SUFFICES ASSUME viewer = "guest", NEW d \in 0 .. rev, GuestFresh(d)
                 PROVE  /\ projects'[1].likes = (IF liked' THEN 1 ELSE 0)
                        /\ copy' # None => OneOf(copy)'
                        /\ \A j \in Slots : wire'[j].row # None => OneOf(wire[j].row)'
                        /\ d \in 0 .. rev' /\ GuestFresh(d)'
    BY DEF GuestReads
  <1>2. copy'.likes = wire[i].row.likes /\ copy'.media = copy.media /\ copy'.scalar = copy.scalar
    BY DEF Row
  <1>3. rev \in Nat /\ likeRev \in 0 .. rev /\ copy # None
    BY ProjectPageAssumption DEF TypeOK
  <1>4. projects'[1].likes = (IF liked' THEN 1 ELSE 0) /\ (copy' # None => OneOf(copy)')
    BY <1>1, <1>2, <1>3 DEF GuestReads, OneOf
  <1>5. \A j \in Slots : wire'[j].row # None => OneOf(wire[j].row)'
    BY <1>1, FreeFields DEF GuestReads, OneOf, Others
  <1>6. ASSUME NEW j \in Slots, Told(wire'[j]), wire'[j].rev >= d
        PROVE  wire'[j].row.likes = projects[1].likes /\ wire'[j].liked = liked
    BY <1>1, <1>6, FreeIsIdle DEF GuestFresh, Told, Others
  <1>7. ASSUME "unliked" \notin excused', known
        PROVE  \/ likeRev' >= d /\ copy'.likes = projects[1].likes /\ isLiked' = liked
               \/ \E j \in Slots : Asks(wire'[j]) /\ (Told(wire'[j]) => wire'[j].rev >= d)
    <2>1. CASE wire[i].rev >= d
      BY <1>1, <1>2, <2>1 DEF GuestFresh, Told
    <2>2. CASE ~(wire[i].rev >= d)
      <3>1. "unliked" \notin excused /\ wire[i].rev >= likeRev
        BY <1>3, <1>7, <2>2 DEF Overtaken
      <3>2. ~(likeRev >= d)
        BY <1>3, <2>2, <3>1
      <3>3. PICK j \in Slots : Tells(wire[j], d)
        BY <1>1, <1>3, <1>7, <3>1, <3>2 DEF GuestFresh
      <3>4. j # i
        BY <2>2, <3>3 DEF Tells, Told
      <3>5. QED
        BY <3>3, <3>4 DEF Tells, Told, Asks, Others
    <2>3. QED
      BY <2>1, <2>2
  <1>8. GuestFresh(d)'
    BY <1>6, <1>7 DEF GuestFresh, Tells, Asks, Told
  <1>9. QED
    BY <1>1, <1>4, <1>5, <1>8

LEMMA LikeShownStep ==
  ASSUME PInv, NEW i \in Slots, LikeShown(i) PROVE PInv'
  <1>1. /\ wire[i].kind \in {"status", "like"} /\ wire[i].step = "back" /\ Told(wire[i])
        /\ wire[i].kind \notin Rereads /\ wire[i].kind # "free"
    BY DEF LikeShown, At, Told, Rereads, Uploads
  <1>2. TypeOK /\ wire \in [Slots -> Work] /\ wire' = Done(i) /\ HandlerHolds(wire[i])
    BY WireIsThere DEF PInv, LikeShown
  <1>3. /\ wire[i].rev \in Nat /\ wire[i].rev <= rev /\ wire[i].row \in Row /\ wire[i].liked \in BOOLEAN
        /\ \A u \in DOMAIN wire[i].files : wire[i].files[u] # "row"
        /\ wire[i].slug # 0
        /\ wire[i].mounted => wire[i].slug = at /\ copy \in Row
        /\ viewer = "guest" => wire[i].mounted
    <2>1. wire[i].rev \in Nat /\ wire[i].liked \in BOOLEAN
      BY <1>2, WorkFields
    <2>2. KnowsItsProject(wire[i]) /\ HasItsAnswer(wire[i]) /\ HasItsFiles(wire[i]) /\ IsOfThePage(wire[i])
          /\ SuitsTheViewer(wire[i])
      BY <1>2 DEF HandlerHolds
    <2>3. QED
      BY <1>1, <2>1, <2>2 DEF KnowsItsProject, HasItsAnswer, HasItsFiles, IsOfThePage, SuitsTheViewer, Uploads
  <1>4. wire' \in [Slots -> Work] /\ wire' \in [1 .. MaxWork -> Work] /\ Others(i) /\ wire'[i] = Free
    BY <1>2, Ending
  <1>5. /\ UNCHANGED <<server, viewer, at, link, known, editing, form, timers, told, counts, rev, copyRev, kept, torn>>
        /\ projects' = projects /\ liked' = liked /\ rev \in Nat /\ Len(projects) \in Nat
    BY <1>2 DEF LikeShown, server, TypeOK
  <1>6. ~WillReread(wire[i])
    BY <1>1 DEF WillReread
  <1>7. CASE ~wire[i].mounted
    <2>1. UNCHANGED <<isLiked, copy, busy, likeRev, excused>>
      BY <1>7 DEF LikeShown
    <2>2. TypeOK'
      BY <1>2, <1>4, <1>5, <2>1 DEF TypeOK, server, counts
    <2>3. NewHold' /\ KeptAreInForms' /\ PageShape'
      BY <1>4, <1>5, <2>1, <2>2, EndsAlone
    <2>4. QED
      BY <1>1, <1>3, <1>4, <1>5, <1>6, <1>7, <2>1, <2>2, <2>3, Ends
  <1>8. CASE wire[i].mounted
    <2>1. /\ isLiked' = wire[i].liked /\ copy' = [copy EXCEPT !.likes = wire[i].row.likes]
          /\ likeRev' = wire[i].rev /\ Overtaken(wire[i].rev, likeRev, "unliked")
          /\ busy' = IF wire[i].kind = "like" THEN busy \ {"likeLoading"} ELSE busy
      BY <1>8 DEF LikeShown
    <2>2. copy' \in Row /\ copy' # None /\ copy # None
      <3>1. wire[i].row.likes \in 0 .. 1
        BY <1>3 DEF Row
      <3>2. copy' \in Row
        BY <1>3, <1>8, <2>1, <3>1 DEF Row
      <3>3. QED
        BY <1>3, <1>8, <3>2, ProjectPageAssumption
    <2>3. /\ excused' \in SUBSET {"behind", "unliked", "lost"}
          /\ "lost" \in excused <=> "lost" \in excused'
          /\ "behind" \in excused <=> "behind" \in excused'
      BY <1>2, <2>1 DEF Overtaken, TypeOK
    <2>4. TypeOK'
      BY <1>2, <1>3, <1>4, <1>5, <2>1, <2>2, <2>3 DEF TypeOK, server, counts
    <2>5. \A j \in Slots : HandlerHolds(wire[j])'
      <3>1. HandlerHolds(wire[i])'
        BY <1>4, <2>4, FreeHolds
      <3>2. QED
        BY <1>4, <1>5, <2>2, <2>4, <3>1, HandlersHold
    <2>6. FlagsHold'
      <3>1. ~(wire'[i].mounted /\ wire'[i].kind # "free")
        BY <1>4, FreeFields
      <3>2. busy' = IF wire[i].mounted /\ wire[i].kind \notin {"load", "status"}
                    THEN busy \ {FlagOf(wire[i].kind)} ELSE busy
        BY <1>1, <1>8, <2>1 DEF FlagOf
      <3>3. QED
        BY <1>1, <1>4, <3>1, <3>2, FlagsEnd DEF PInv, FlagsHold
    <2>7. \A j \in Slots : KnowsItsProject(wire[j])
      BY DEF PInv, HandlerHolds
    <2>8. NewHold'
      <3>1. \A j \in Slots : \/ wire'[j].slug = wire[j].slug /\ (Making(wire'[j]) => Making(wire[j]))
                             \/ wire'[j].slug \in {0, at} /\ ~Making(wire'[j])
        BY <1>4, FreeFields, FreeIsIdle DEF Others
      <3>2. QED
        BY <1>2, <1>5, <2>4, <2>7, <3>1, NewStay DEF PInv, NewHold
    <2>9. PageShape'
      BY <1>3, <1>5, <1>8, <2>2 DEF PInv, PageShape
    <2>10. AuthorReads'
      <3>1. CASE viewer = "author"
        <4>1. NobodyLikes(wire[i].row) /\ NobodyLikes(copy)
          BY <1>3, <2>2, <3>1, ProjectPageAssumption DEF PInv, AuthorReads
        <4>2. copy' = copy
          BY <1>3, <1>8, <2>1, <4>1 DEF NobodyLikes, Row
        <4>3. NoLikes'
          BY <1>4, <1>5, <3>1, <4>2, FreeFields DEF PInv, AuthorReads, NoLikes, Others
        <4>4. \A j \in Slots : HasReread(wire'[j]) => HasReread(wire[j]) /\ wire'[j] = wire[j]
          BY <1>4, FreeIsIdle DEF Others
        <4>5. \A j \in Slots : WillReread(wire[j]) => wire'[j] = wire[j]
          BY <1>4, <1>6 DEF Others
        <4>6. QED
          BY <1>2, <1>5, <2>3, <2>4, <4>2, <4>3, <4>4, <4>5, AuthorStays DEF PInv, HasReread
      <3>2. QED
        BY <1>5, <3>1, OnlyOneViewer DEF AuthorReads
    <2>11. GuestReads'
      BY <1>1, <1>2, <1>3, <1>4, <1>5, <1>8, <2>1, <2>4, GuestShown DEF PInv
    <2>12. KeptAreInForms'
      <3>1. \A j \in Slots : Making(wire'[j]) => Making(wire[j]) /\ wire'[j].slug = wire[j].slug
        BY <1>4, FreeIsIdle DEF Others
      <3>2. \A j \in Slots : Unwritten(wire'[j]) => Unwritten(wire[j]) /\ wire'[j].form = wire[j].form
        BY <1>4, FreeIsIdle DEF Others
      <3>3. \A j \in Slots : Storing(wire'[j]) => Storing(wire[j]) /\ wire'[j].files = wire[j].files
        BY <1>4, FreeIsIdle DEF Others
      <3>4. QED
        BY <1>2, <1>5, <2>3, <2>7, <3>1, <3>2, <3>3, KeptStay DEF PInv
    <2>13. VideosAreKnown'
      <3>1. \A j \in Slots : \A u \in DOMAIN wire[j].files : wire[j].files[u] = "row" => wire'[j] = wire[j]
        BY <1>3, <1>4 DEF Others
      <3>2. QED
        BY <1>5, <3>1, VideosStay DEF PInv
    <2>14. QED
      BY <2>4, <2>5, <2>6, <2>8, <2>9, <2>10, <2>11, <2>12, <2>13 DEF PInv, FlagsHold, NewHold
  <1>9. wire[i].mounted \in BOOLEAN
    BY <1>2, WorkFields
  <1>10. QED
    BY <1>7, <1>8, <1>9

LEMMA LikesSet ==
  ASSUME NEW row \in Row, NEW x \in 0 .. 1
  PROVE  LET s == [row EXCEPT !.likes = x] IN
         s \in Row /\ s.likes = x /\ s.media = row.media /\ s.scalar = row.scalar
  BY DEF Row

LEMMA LikeStep ==
  ASSUME PInv, NEW i \in Slots, Like(i) PROVE PInv'
  <1> DEFINE l == ~liked
             x == IF liked THEN projects[1].likes - 1 ELSE projects[1].likes + 1
             row == [projects[1] EXCEPT !.likes = x]
  <1>1. /\ wire[i].kind = "like" /\ wire[i].step = "out" /\ HandlerHolds(wire[i]) /\ TypeOK
        /\ wire \in [Slots -> Work]
    BY WireIsThere DEF PInv, Like, At
  <1>2. viewer = "guest" /\ wire[i].slug = 1 /\ wire[i].mounted /\ at = 1 /\ copy \in Row
    BY <1>1 DEF TypeOK, HandlerHolds, SuitsTheViewer, IsOfThePage
  <1>3. 1 \in DOMAIN projects /\ projects[1] \in Row /\ projects[1].likes = (IF liked THEN 1 ELSE 0)
        /\ l \in BOOLEAN /\ liked \in BOOLEAN /\ rev \in Nat
    BY <1>1, <1>2, ItsProject DEF PInv, GuestReads, TypeOK
  <1>4. x \in 0 .. 1 /\ x = (IF l THEN 1 ELSE 0)
    BY <1>3
  <1>5. /\ liked' = l /\ Written(1, row)
        /\ wire' = [wire EXCEPT ![i].step = "back", ![i].row = projects'[1], ![i].rev = rev', ![i].liked = l]
        /\ UNCHANGED <<page, counts, copyRev, likeRev, kept, excused, torn>>
    <2>1. row = [projects[1] EXCEPT !.likes = IF liked THEN @ - 1 ELSE @ + 1]
      BY <1>3
    <2> HIDE DEF row
    <2>2. QED
      BY <1>2, <2>1 DEF Like
  <1>6. row \in Row /\ row.likes = x /\ row.media = projects[1].media /\ row.scalar = projects[1].scalar
    BY <1>3, <1>4, LikesSet
  <1> HIDE DEF row, x, l
  <1>7. /\ projects' \in Seq(Row) /\ Len(projects') = Len(projects) /\ DOMAIN projects' = DOMAIN projects
        /\ projects'[1] = row /\ \A m \in DOMAIN projects : m # 1 => projects'[m] = projects[m]
        /\ rev' = rev + 1 /\ rev' \in Nat /\ rev <= rev'
    BY <1>1, <1>3, <1>5, <1>6, WrittenIs
  <1>8. /\ wire' \in [Slots -> Work] /\ Others(i)
        /\ wire'[i].step = "back" /\ wire'[i].row = row /\ wire'[i].rev = rev' /\ wire'[i].liked = l
        /\ wire'[i].form = wire[i].form /\ wire'[i].kind = wire[i].kind /\ wire'[i].slug = wire[i].slug
        /\ wire'[i].mounted = wire[i].mounted /\ wire'[i].publish = wire[i].publish
        /\ wire'[i].files = wire[i].files
    <2> DEFINE v == wire[i]
               w == [v EXCEPT !.step = "back", !.row = row, !.rev = rev', !.liked = l]
    <2>1. v \in Work
      BY <1>1
    <2>2. wire' = [wire EXCEPT ![i] = w]
      BY <1>5, <1>7
    <2> HIDE DEF v
    <2>3. /\ w \in Work /\ w.step = "back" /\ w.row = row /\ w.rev = rev' /\ w.liked = l
          /\ w.form = v.form /\ w.kind = v.kind /\ w.slug = v.slug /\ w.mounted = v.mounted
          /\ w.publish = v.publish /\ w.files = v.files
      BY <1>3, <1>6, <1>7, <2>1 DEF Work, Steps
    <2> HIDE DEF w
    <2>4. wire' \in [Slots -> Work] /\ wire'[i] = w /\ Others(i)
      BY <1>1, <2>2, <2>3, Becomes
    <2>5. QED
      BY <2>3, <2>4 DEF v
  <1>9. /\ viewer' = viewer /\ at' = at /\ copy' = copy /\ known' = known /\ busy' = busy /\ timers' = timers
        /\ told' = told /\ editing' = editing /\ form' = form /\ isLiked' = isLiked /\ link' = link
    BY <1>5 DEF page
  <1>10. TypeOK'
    BY <1>1, <1>3, <1>5, <1>7, <1>8, <1>9 DEF TypeOK, counts, Slots
  <1>11. \A j \in Slots : HandlerHolds(wire[j])'
    <2>1. HandlerHolds(wire[i])'
      <3>1. KnowsItsProject(wire[i])' /\ HasItsAnswer(wire[i])' /\ HasItsFiles(wire[i])' /\ Publishes(wire[i])'
        BY <1>1, <1>6, <1>7, <1>8 DEF HandlerHolds, KnowsItsProject, HasItsAnswer, HasItsFiles, Publishes, Uploads
      <3>2. IsOfThePage(wire[i])' /\ SuitsTheViewer(wire[i])'
        BY <1>1, <1>8, <1>9 DEF HandlerHolds, IsOfThePage, SuitsTheViewer
      <3>3. QED
        BY <3>1, <3>2 DEF HandlerHolds
    <2>2. \A j \in Slots : ~Making(wire[j])
      BY <1>2 DEF PInv, HandlerHolds, SuitsTheViewer, Making
    <2>3. Len(projects) <= Len(projects')
      BY <1>1, <1>7, AtIs
    <2>4. QED
      BY <1>7, <1>8, <1>9, <1>10, <2>1, <2>2, <2>3, HandlersHold
  <1>12. FlagsHold'
    BY <1>8, <1>9, FlagsStay DEF PInv, FlagsHold, Others
  <1>13. \A j \in Slots : KnowsItsProject(wire[j])
    BY DEF PInv, HandlerHolds
  <1>14. NewHold' /\ PageShape'
    <2>1. \A j \in Slots : wire'[j].slug = wire[j].slug /\ (Making(wire'[j]) => Making(wire[j]))
      BY <1>1, <1>8 DEF Others, Making
    <2>2. Len(projects) <= Len(projects')
      BY <1>1, <1>7, AtIs
    <2>3. NewHold'
      BY <1>1, <1>2, <1>9, <1>10, <1>13, <2>1, <2>2, NewStay DEF PInv, NewHold
    <2>4. QED
      BY <1>9, <2>3 DEF PInv, PageShape
  <1>15. GuestReads'
    <2>1. projects'[1].likes = (IF liked' THEN 1 ELSE 0)
      BY <1>4, <1>5, <1>6, <1>7
    <2>2. copy' # None => OneOf(copy)'
      BY <1>2, <1>6, <1>7, <1>9 DEF PInv, GuestReads, OneOf
    <2>3. \A j \in Slots : wire'[j].row # None => OneOf(wire[j].row)'
      BY <1>2, <1>6, <1>7, <1>8 DEF PInv, GuestReads, OneOf, Others
    <2>4. ASSUME NEW j \in Slots, wire'[j].rev >= rev'
          PROVE  wire'[j].row.likes = projects'[1].likes /\ wire'[j].liked = liked'
      <3>1. CASE j = i
        BY <1>5, <1>7, <1>8, <3>1
      <3>2. CASE j # i
        <4>1. wire[j].rev <= rev /\ wire[j].rev \in Nat
          BY <1>1, WorkFields DEF PInv, HandlerHolds, HasItsAnswer
        <4>2. QED
          BY <1>3, <1>7, <1>8, <2>4, <3>2, <4>1 DEF Others
      <3>3. QED
        BY <3>1, <3>2
    <2>5. Asks(wire'[i]) /\ wire'[i].rev >= rev'
      BY <1>1, <1>2, <1>7, <1>8 DEF Asks
    <2>6. ASSUME NEW d \in 0 .. rev', d = rev' PROVE GuestFresh(d)'
      BY <2>4, <2>5, <2>6 DEF GuestFresh, Tells, Asks
    <2>7. rev' \in 0 .. rev'
      BY <1>7
    <2>8. QED
      BY <2>1, <2>2, <2>3, <2>6, <2>7 DEF GuestReads
  <1>16. KeptAreInForms'
    <2>1. \A m \in DOMAIN projects : Gallery(projects[m]) \subseteq Gallery(projects'[m])
      BY <1>6, <1>7 DEF Gallery
    <2>2. \A j \in Slots : Making(wire'[j]) => Making(wire[j]) /\ wire'[j].slug = wire[j].slug
      BY <1>1, <1>8 DEF Making, Others
    <2>3. \A j \in Slots : Unwritten(wire'[j]) => Unwritten(wire[j]) /\ wire'[j].form = wire[j].form
      BY <1>1, <1>8 DEF Unwritten, Others
    <2>4. \A j \in Slots : Storing(wire'[j]) => Storing(wire[j]) /\ wire'[j].files = wire[j].files
      BY <1>1, <1>8 DEF Storing, Others
    <2>5. QED
      BY <1>1, <1>5, <1>9, <1>13, <2>1, <2>2, <2>3, <2>4, KeptStay DEF PInv
  <1>17. VideosAreKnown'
    <2>1. \A j \in Slots : wire'[j].slug = wire[j].slug /\ wire'[j].files = wire[j].files
      BY <1>8 DEF Others
    <2>2. \A m \in DOMAIN projects' : projects'[m].scalar = projects[m].scalar /\ projects'[m].media = projects[m].media
      BY <1>6, <1>7
    <2>3. QED
      BY <1>5, <1>7, <2>1, <2>2, VideosStay DEF PInv
  <1>18. QED
    BY <1>2, <1>9, <1>10, <1>11, <1>12, <1>14, <1>15, <1>16, <1>17, OnlyOneViewer DEF PInv, FlagsHold, NewHold

-----------------------------------------------------------------------------
(* A project is made, and its page is entered *)

LEMMA CreateStep ==
  ASSUME PInv, NEW i \in Slots, Create(i) PROVE PInv'
  <1> DEFINE f == wire[i].form
             sc == [f.scalar EXCEPT !["status"] = "DRAFT"]
             me == ScreenshotRows(f.shots)
             row == [media |-> me, likes |-> 0, scalar |-> sc]
             n == Len(projects) + 1
  <1>1. /\ wire[i].kind = "create" /\ wire[i].step = "out" /\ HandlerHolds(wire[i]) /\ TypeOK
        /\ wire \in [Slots -> Work] /\ f \in Form /\ viewer = "author" /\ Len(projects) < MaxCreated
    <2>1. wire \in [Slots -> Work] /\ TypeOK /\ HandlerHolds(wire[i])
      BY WireIsThere DEF PInv
    <2>2. f \in Form
      BY <2>1, WorkFields
    <2>3. QED
      BY <2>1, <2>2 DEF Create, At, TypeOK, HandlerHolds, SuitsTheViewer
  <1>2. /\ sc \in [Scalars -> Value] /\ sc["status"] = "DRAFT" /\ me \in SUBSET Media
        /\ \A m \in me : m.type = "SCREENSHOT"
        /\ \A u \in f.shots : [type |-> "SCREENSHOT", url |-> u] \in me
    BY <1>1 DEF Form, Scalars, Value, Statuses, ScreenshotRows, Media
  <1> HIDE DEF sc, me
  <1>3. row \in Row /\ row.likes = 0 /\ row.scalar = sc /\ row.media = me
    BY <1>2 DEF Row
  <1>4. f.shots \subseteq Gallery(row)
    <2>1. \A u \in f.shots : \E m \in row.media : m.type \in {"SCREENSHOT", "IMAGE"} /\ m.url = u
      BY <1>2, <1>3
    <2> HIDE DEF row
    <2>2. QED
      BY <2>1, GalleryIs
  <1>5. /\ projects' = Append(projects, row) /\ rev' = rev + 1
        /\ UNCHANGED <<liked, page, counts, copyRev, likeRev, kept, excused, torn>>
    BY DEF Create, sc, me
  <1> HIDE DEF row
  <1>6. /\ projects' \in Seq(Row) /\ Len(projects') = n /\ projects'[n] = row /\ n \in DOMAIN projects'
        /\ \A m \in DOMAIN projects : m \in DOMAIN projects' /\ projects'[m] = projects[m]
        /\ \A m \in DOMAIN projects' : m # n => m \in DOMAIN projects
        /\ rev \in Nat /\ rev' \in Nat /\ rev <= rev' /\ n \in 1 .. MaxCreated /\ Len(projects) \in Nat
        /\ Len(projects) <= Len(projects')
    <2>1. projects \in Seq(Row) /\ Len(projects) \in Nat /\ rev \in Nat
      BY <1>1 DEF TypeOK
    <2>2. /\ projects' \in Seq(Row) /\ Len(projects') = n
          /\ \A m \in 1 .. Len(projects) : projects'[m] = projects[m]
          /\ projects'[n] = row
      BY <1>3, <1>5, <2>1
    <2>3. DOMAIN projects = 1 .. Len(projects) /\ DOMAIN projects' = 1 .. n
      BY <2>1, <2>2
    <2>4. QED
      BY <1>1, <1>5, <2>1, <2>2, <2>3, ProjectPageAssumption
  <1>7. /\ wire' \in [Slots -> Work] /\ Others(i)
        /\ wire'[i].step = "back" /\ wire'[i].slug = n /\ wire'[i].row = wire[i].row /\ wire'[i].rev = wire[i].rev
        /\ wire'[i].kind = wire[i].kind /\ wire'[i].mounted = wire[i].mounted /\ wire'[i].publish = wire[i].publish
        /\ wire'[i].files = wire[i].files
    <2> DEFINE v == wire[i]
               w == [v EXCEPT !.step = "back", !.slug = n]
    <2>1. v \in Work /\ n \in 0 .. MaxCreated
      BY <1>1, <1>6
    <2>2. wire' = [wire EXCEPT ![i] = w]
      BY <1>6 DEF Create
    <2> HIDE DEF v, n
    <2>3. /\ w \in Work /\ w.step = "back" /\ w.slug = n /\ w.row = v.row /\ w.rev = v.rev /\ w.kind = v.kind
          /\ w.mounted = v.mounted /\ w.publish = v.publish /\ w.files = v.files
      BY <2>1 DEF Work, Steps
    <2> HIDE DEF w
    <2>4. wire' \in [Slots -> Work] /\ wire'[i] = w /\ Others(i)
      BY <1>1, <2>2, <2>3, Becomes
    <2>5. QED
      BY <2>3, <2>4 DEF v
  <1>8. /\ viewer' = viewer /\ at' = at /\ copy' = copy /\ known' = known /\ busy' = busy /\ timers' = timers
        /\ told' = told /\ editing' = editing /\ form' = form /\ isLiked' = isLiked /\ link' = link
    BY <1>5 DEF page
  <1>9. TypeOK'
    BY <1>1, <1>5, <1>6, <1>7, <1>8 DEF TypeOK, counts, Slots
  <1>10. \A j \in Slots : KnowsItsProject(wire[j]) /\ wire[j].slug \in Nat /\ wire[j].slug <= Len(projects)
    BY <1>1, WorkFields DEF PInv, HandlerHolds, KnowsItsProject
  <1>11. \A j \in Slots : HandlerHolds(wire[j])'
    <2>1. HandlerHolds(wire[i])'
      <3>1. KnowsItsProject(wire[i])' /\ HasItsFiles(wire[i])' /\ Publishes(wire[i])'
        BY <1>1, <1>2, <1>3, <1>6, <1>7 DEF HandlerHolds, KnowsItsProject, HasItsFiles, Publishes, Uploads
      <3>2. HasItsAnswer(wire[i])'
        <4>1. wire[i].rev \in Nat /\ wire[i].rev <= rev
          BY <1>1, WorkFields DEF HandlerHolds, HasItsAnswer
        <4>2. QED
          BY <1>1, <1>6, <1>7, <4>1 DEF HasItsAnswer, Rereads, Uploads
      <3>3. IsOfThePage(wire[i])' /\ SuitsTheViewer(wire[i])'
        BY <1>1, <1>7, <1>8 DEF HandlerHolds, IsOfThePage, SuitsTheViewer, Uploads
      <3>4. QED
        BY <3>1, <3>2, <3>3 DEF HandlerHolds
    <2>2. \A j \in Slots : Making(wire[j]) => wire[j].slug \in DOMAIN projects
      BY <1>1, <1>10, AtIs DEF KnowsItsProject, Making
    <2>3. QED
      BY <1>6, <1>7, <1>8, <1>9, <2>1, <2>2, HandlersHold
  <1>12. FlagsHold'
    BY <1>7, <1>8, FlagsStay DEF PInv, FlagsHold, Others
  <1>13. NewHold' /\ PageShape'
    <2>1. NewAreUnknown /\ ToldIsThere /\ AnnouncedAsStored /\ PageShape
      BY DEF PInv
    <2>2. at \in 0 .. Len(projects) /\ timers \subseteq 1 .. Len(projects) /\ DOMAIN projects = 1 .. Len(projects)
      BY <1>1, <2>1, AtIs DEF NewAreUnknown
    <2>3. \A m \in timers : m # at /\ \A j \in Slots : wire'[j].slug # m
      BY <1>6, <1>7, <2>1, <2>2 DEF NewAreUnknown, Others
    <2>4. ASSUME NEW j \in Slots, Making(wire'[j])
          PROVE  /\ wire'[j].slug # at
                 /\ told # None => told.slug # wire'[j].slug
                 /\ \A k \in Slots \ {j} : wire'[k].slug # wire'[j].slug
      <3>1. CASE j = i
        <4>1. told # None => told.slug \in 1 .. Len(projects)
          BY <2>1, <2>2 DEF ToldIsThere
        <4>2. \A k \in Slots \ {i} : wire'[k].slug <= Len(projects)
          BY <1>7, <1>10 DEF Others
        <4>3. QED
          BY <1>6, <1>7, <2>2, <3>1, <4>1, <4>2
      <3>2. CASE j # i
        <4>1. wire'[j] = wire[j] /\ Making(wire[j])
          BY <1>7, <2>4, <3>2 DEF Others
        <4>2. QED
          BY <1>6, <1>7, <1>10, <2>1, <4>1 DEF NewAreUnknown, Making, Others
      <3>3. QED
        BY <3>1, <3>2
    <2>5. NewAreUnknown'
      BY <1>6, <1>8, <2>2, <2>3, <2>4 DEF NewAreUnknown, Making
    <2>6. ToldIsThere' /\ AnnouncedAsStored'
      BY <1>6, <1>8, <2>1 DEF ToldIsThere, AnnouncedAsStored
    <2>7. PageShape'
      BY <1>8, <2>1 DEF PageShape
    <2>8. QED
      BY <2>5, <2>6, <2>7 DEF NewHold
  <1>14. AuthorReads'
    <2>1. NoLikes'
      <3>1. NoLikes
        BY <1>1 DEF PInv, AuthorReads, NoLikes
      <3>2. \A m \in DOMAIN projects' : NobodyLikes(projects'[m])
        BY <1>3, <1>6, <3>1 DEF NoLikes, NobodyLikes
      <3>3. \A j \in Slots : wire'[j].row = wire[j].row
        BY <1>7 DEF Others
      <3>4. QED
        BY <1>8, <3>1, <3>2, <3>3 DEF NoLikes
    <2>2. at # 0 => projects'[at] = projects[at]
      BY <1>1, <1>6, AtIs
    <2>3. \A j \in Slots : HasReread(wire'[j]) => HasReread(wire[j]) /\ wire'[j] = wire[j]
      BY <1>7 DEF HasReread, Others
    <2>4. \A j \in Slots : WillReread(wire[j]) => WillReread(wire'[j])
      BY <1>7 DEF WillReread, Others
    <2>5. QED
      BY <1>1, <1>5, <1>6, <1>8, <1>9, <2>1, <2>2, <2>3, <2>4, AuthorStays DEF PInv
  <1>15. KeptAreInForms'
    <2>1. KeptAreInForms
      BY DEF PInv
    <2>2. timers \subseteq DOMAIN projects /\ (at # 0 => at \in DOMAIN projects)
      BY <1>1, AtIs DEF PInv, NewAreUnknown
    <2>3. ASSUME "lost" \notin excused, NEW j \in Slots
          PROVE  /\ At(j, {"save", "create"}, "out")' /\ wire'[j].mounted => kept \subseteq wire'[j].form.shots
                 /\ at = 0 /\ Making(wire'[j]) => kept \subseteq Gallery(projects'[wire'[j].slug])
                 /\ At(j, {"SCREENSHOT"}, "out")' /\ wire'[j].mounted /\ at # 0 =>
                      \A u \in DOMAIN wire'[j].files : wire'[j].files[u] = "back" => u \in Gallery(projects'[at])
      <3>1. CASE j = i
        <4>1. at = 0 => kept \subseteq f.shots
          BY <1>1, <2>1, <2>3, <3>1 DEF KeptAreInForms, At, HandlerHolds, IsOfThePage
        <4>2. QED
          BY <1>4, <1>6, <1>7, <3>1, <4>1 DEF At
      <3>2. CASE j # i
        <4>1. wire'[j] = wire[j]
          BY <1>7, <3>2 DEF Others
        <4>2. Making(wire[j]) => wire[j].slug \in DOMAIN projects
          BY <1>1, <1>10, AtIs DEF KnowsItsProject, Making
        <4>3. QED
          BY <1>6, <2>1, <2>2, <2>3, <4>1, <4>2 DEF KeptAreInForms, At
      <3>3. QED
        BY <3>1, <3>2
    <2>4. QED
      BY <1>5, <1>6, <1>8, <2>1, <2>2, <2>3 DEF KeptAreInForms, Making
  <1>16. VideosAreKnown'
    <2>1. \A j \in Slots : \A u \in DOMAIN wire[j].files : wire[j].files[u] = "row" => wire'[j] = wire[j]
      <3>1. \A u \in DOMAIN wire[i].files : wire[i].files[u] # "row"
        BY <1>1 DEF HandlerHolds, HasItsFiles
      <3>2. QED
        BY <1>7, <3>1 DEF Others
    <2>2. \A m \in row.media : m.type # "VIDEO"
      BY <1>2, <1>3
    <2>3. QED
      BY <1>5, <1>6, <2>1, <2>2, VideosStay DEF PInv
  <1>17. QED
    BY <1>1, <1>8, <1>9, <1>11, <1>12, <1>13, <1>14, <1>15, <1>16, OnlyOneViewer DEF PInv, FlagsHold, NewHold

LEMMA RedirectStep ==
  ASSUME PInv, NEW n \in timers, Redirect(n) PROVE PInv'
  <1> DEFINE w0 == [i \in Slots |-> [wire[i] EXCEPT !.mounted = wire[i].kind = "free"]]
             r == [Start("load", "again") EXCEPT !.slug = n]
  <1>1. TypeOK /\ wire \in [Slots -> Work] /\ NewAreUnknown /\ PageShape /\ viewer = "author"
    BY WireIsThere DEF PInv, PageShape, TypeOK
  <1>2. /\ n \in DOMAIN projects /\ n \in 1 .. Len(projects) /\ n \in 1 .. MaxCreated /\ n # at
        /\ \A j \in Slots : wire[j].slug # n
        /\ Len(projects) \in Nat /\ rev \in Nat /\ at \in 0 .. MaxCreated
    BY <1>1, AtIs DEF NewAreUnknown, TypeOK
  <1>3. \A j \in Slots : HandlerHolds(wire[j]) /\ wire[j].slug <= Len(projects)
    BY DEF PInv, HandlerHolds, KnowsItsProject
  <1>4. ASSUME NEW j \in Slots
        PROVE  /\ w0[j] \in Work /\ w0[j].mounted = (wire[j].kind = "free")
               /\ w0[j].kind = wire[j].kind /\ w0[j].step = wire[j].step /\ w0[j].slug = wire[j].slug
               /\ w0[j].rev = wire[j].rev /\ w0[j].row = wire[j].row /\ w0[j].form = wire[j].form
               /\ w0[j].publish = wire[j].publish /\ w0[j].files = wire[j].files
    <2> DEFINE v == wire[j]
               b == (v.kind = "free")
    <2>1. v \in Work /\ b \in BOOLEAN /\ w0[j] = [v EXCEPT !.mounted = b]
      BY <1>1
    <2> HIDE DEF v, b, w0
    <2>2. /\ w0[j] \in Work /\ w0[j].mounted = b
          /\ w0[j].kind = v.kind /\ w0[j].step = v.step /\ w0[j].slug = v.slug
          /\ w0[j].rev = v.rev /\ w0[j].row = v.row /\ w0[j].form = v.form
          /\ w0[j].publish = v.publish /\ w0[j].files = v.files
      BY <2>1 DEF Work
    <2>3. QED
      BY <2>2 DEF v, b
  <1>5. w0 \in [Slots -> Work]
    <2>1. \A j \in Slots : w0[j] \in Work
      BY <1>4
    <2>2. QED
      BY <2>1
  <1>6. /\ r \in Work /\ r.kind = "load" /\ r.step = "again" /\ r.slug = n /\ r.mounted /\ r.rev = 0
        /\ r.row = None /\ DOMAIN r.files = {}
    <2> DEFINE s == Start("load", "again")
    <2>1. /\ s \in Work /\ s.kind = "load" /\ s.step = "again" /\ s.mounted /\ s.rev = 0 /\ s.row = None
          /\ DOMAIN s.files = {}
      BY <1>2, StartFields DEF Kinds, Steps
    <2>2. n \in 0 .. MaxCreated
      BY <1>2
    <2> HIDE DEF s
    <2>3. QED
      BY <2>1, <2>2 DEF s, Work
  <1>7. Room(w0) /\ wire' = Put(w0, r)
    BY DEF Redirect, Mount
  <1>8. /\ at' = n /\ link' = FALSE /\ known' = FALSE /\ isLiked' = FALSE /\ editing' = FALSE
        /\ copy' = None /\ form' = Blank /\ busy' = {} /\ told' = None /\ timers' = timers \ {n}
        /\ copyRev' = 0 /\ likeRev' = 0 /\ kept' = (IF at = 0 THEN kept ELSE {})
        /\ viewer' = viewer /\ rev' = rev /\ excused' = excused /\ torn' = torn /\ moves' = moves
        /\ faults' = faults /\ used' = used /\ projects' = projects /\ liked' = liked
    BY DEF Redirect, Mount, server, counts
  <1> HIDE DEF w0, r
  <1>9. PICK k \in Slots : /\ w0[k].kind = "free" /\ wire' \in [Slots -> Work] /\ wire'[k] = r
                           /\ \A j \in Slots : j # k => wire'[j] = w0[j]
    <2>1. PICK k \in Slots : /\ w0[k].kind = "free"
                             /\ Put(w0, r) \in [Slots -> Work] /\ Put(w0, r)[k] = r
                             /\ \A j \in Slots : j # k => Put(w0, r)[j] = w0[j]
      BY <1>5, <1>6, <1>7, PutTakesAFreeSlot
    <2>2. QED
      BY <1>7, <2>1
  <1>10. ASSUME NEW j \in Slots, j # k
         PROVE  /\ wire'[j].mounted = (wire[j].kind = "free")
                /\ wire'[j].kind = wire[j].kind /\ wire'[j].step = wire[j].step /\ wire'[j].slug = wire[j].slug
                /\ wire'[j].rev = wire[j].rev /\ wire'[j].row = wire[j].row /\ wire'[j].form = wire[j].form
                /\ wire'[j].publish = wire[j].publish /\ wire'[j].files = wire[j].files
    BY <1>4, <1>9, <1>10
  <1>11. TypeOK'
    <2>1. wire' \in [1 .. MaxWork -> Work]
      BY <1>9 DEF Slots
    <2>2. kept' \in SUBSET Urls
      BY <1>1, <1>8 DEF TypeOK
    <2>3. at' \in 0 .. Len(projects') /\ copyRev' \in 0 .. rev' /\ likeRev' \in 0 .. rev'
      BY <1>2, <1>8
    <2>4. form' \in Form /\ timers' \in SUBSET (1 .. MaxCreated) /\ busy' \in SUBSET Flags
      BY <1>1, <1>8, BlankIsAForm DEF TypeOK
    <2>5. QED
      BY <1>1, <1>8, <2>1, <2>2, <2>3, <2>4 DEF TypeOK
  <1>12. ASSUME NEW j \in Slots PROVE HandlerHolds(wire[j])'
    <2>1. CASE j = k
      <3>1. KnowsItsProject(wire[k])' /\ HasItsAnswer(wire[k])' /\ HasItsFiles(wire[k])'
        BY <1>2, <1>6, <1>8, <1>9 DEF KnowsItsProject, HasItsAnswer, HasItsFiles, Uploads
      <3>2. IsOfThePage(wire[k])' /\ Publishes(wire[k])' /\ SuitsTheViewer(wire[k])'
        BY <1>1, <1>2, <1>6, <1>8, <1>9 DEF IsOfThePage, Publishes, SuitsTheViewer
      <3>3. QED
        BY <2>1, <3>1, <3>2 DEF HandlerHolds
    <2>2. CASE j # k
      <3>1. KnowsItsProject(wire[j])' /\ HasItsAnswer(wire[j])' /\ HasItsFiles(wire[j])' /\ Publishes(wire[j])'
        BY <1>3, <1>8, <1>10, <2>2 DEF HandlerHolds, KnowsItsProject, HasItsAnswer, HasItsFiles, Publishes
      <3>2. SuitsTheViewer(wire[j])'
        BY <1>1, <1>3, <1>8, <1>10, <2>2 DEF HandlerHolds, SuitsTheViewer
      <3>4. at' # 0 /\ wire'[j].slug # at'
        BY <1>2, <1>8, <1>10, <2>2
      <3>5. wire'[j].mounted => wire'[j].kind = "free"
        BY <1>10, <2>2
      <3>6. IsOfThePage(wire[j])'
        BY <3>4, <3>5 DEF IsOfThePage
      <3>7. QED
        BY <3>1, <3>2, <3>6 DEF HandlerHolds
    <2>3. QED
      BY <2>1, <2>2
  <1>13. \A j \in Slots : wire'[j].mounted /\ wire'[j].kind # "free" => j = k
    BY <1>10
  <1>14. FlagsHold'
    BY <1>6, <1>8, <1>9, <1>13 DEF FlagsHold, AloneUnderItsFlag, FlagsHaveOwners
  <1>15. NewHold'
    <2>1. \A m \in timers' : m # n /\ \A j \in Slots : wire'[j].slug # m
      BY <1>1, <1>6, <1>8, <1>9, <1>10 DEF NewAreUnknown
    <2>2. ASSUME NEW j \in Slots, Making(wire'[j])
          PROVE  wire'[j].slug # n /\ \A l \in Slots \ {j} : wire'[l].slug # wire'[j].slug
      <3>1. j # k
        BY <1>6, <1>9, <2>2 DEF Making
      <3>2. Making(wire[j]) /\ wire'[j].slug = wire[j].slug
        BY <1>10, <2>2, <3>1 DEF Making
      <3>3. wire[j].slug # n /\ \A l \in Slots \ {j} : wire[l].slug # wire[j].slug
        BY <1>1, <1>2, <3>2 DEF NewAreUnknown
      <3>4. QED
        BY <1>6, <1>9, <1>10, <3>2, <3>3
    <2>3. timers' \subseteq DOMAIN projects'
      BY <1>1, <1>8 DEF NewAreUnknown
    <2>4. QED
      BY <1>8, <2>1, <2>2, <2>3 DEF NewHold, NewAreUnknown, ToldIsThere, AnnouncedAsStored, Making
  <1>16. PageShape'
    BY <1>1, <1>2, <1>8 DEF PageShape
  <1>17. AuthorReads'
    <2>1. NoLikes'
      <3>1. NoLikes
        BY <1>1 DEF PInv, AuthorReads, NoLikes
      <3>2. \A j \in Slots : wire'[j].row # None => wire'[j].row = wire[j].row
        BY <1>6, <1>9, <1>10
      <3>3. QED
        BY <1>8, <3>1, <3>2 DEF NoLikes
    <2>2. \A j \in Slots : ~HasReread(wire'[j])
      BY <1>6, <1>9, <1>13 DEF HasReread, WillReread, Rereads, Uploads
    <2>3. WillReread(wire'[k]) /\ wire'[k].step # "reply"
      BY <1>6, <1>9 DEF WillReread, Rereads
    <2>4. ASSUME NEW d \in 0 .. rev', d = rev' PROVE AuthorFresh(d)'
      BY <1>8, <2>2, <2>3 DEF AuthorFresh, HasReread, WillReread, Refreshes
    <2>5. rev' \in 0 .. rev'
      BY <1>2, <1>8
    <2>6. QED
      BY <2>1, <2>4, <2>5 DEF AuthorReads, NoLikes
  <1>18. KeptAreInForms'
    <2>1. "lost" \notin excused => kept' \subseteq Gallery(projects[n])
      BY <1>8 DEF PInv, KeptAreInForms
    <2>2. \A j \in Slots : ~(wire'[j].mounted /\ wire'[j].kind \in {"save", "create", "SCREENSHOT"})
      BY <1>6, <1>9, <1>13
    <2>3. QED
      BY <1>2, <1>8, <2>1, <2>2 DEF KeptAreInForms, At
  <1>19. VideosAreKnown'
    <2>1. \A j \in Slots : \A u \in DOMAIN wire[j].files : wire[j].files[u] = "row" =>
            wire'[j].slug = wire[j].slug /\ wire'[j].files = wire[j].files
      <3>1. DOMAIN wire[k].files = {}
        BY <1>3, <1>4, <1>9 DEF HandlerHolds, HasItsFiles, Uploads
      <3>2. QED
        BY <1>10, <3>1
    <2>2. QED
      BY <1>8, <2>1, VideosStay DEF PInv
  <1>20. QED
    BY <1>1, <1>8, <1>11, <1>12, <1>14, <1>15, <1>16, <1>17, <1>18, <1>19, OnlyOneViewer DEF PInv, FlagsHold, NewHold

-----------------------------------------------------------------------------
(* In the beginning *)

LEMMA InitHolds ==
  ASSUME Init PROVE PInv
  <1> DEFINE w0 == [i \in Slots |-> Free]
             r == Start("load", "again")
  <1>1. /\ viewer \in {"author", "guest"} /\ link \in BOOLEAN
        /\ known = FALSE /\ isLiked = FALSE /\ editing = FALSE
        /\ copy = None /\ form = Blank /\ busy = {} /\ timers = {} /\ told = None
        /\ moves = 0 /\ faults = 0 /\ rev = 0 /\ copyRev = 0 /\ likeRev = 0
        /\ kept = {} /\ excused = {} /\ torn = {}
    BY DEF Init
  <1>2. \/ viewer = "author" /\ at = 0 /\ projects = <<>>
        \/ at = 1 /\ \E row \in Seeds : projects = <<row>> /\ (viewer = "author" => row.likes = 0)
    BY DEF Init
  <1>3. /\ projects \in Seq(Row) /\ Len(projects) \in 0 .. 1 /\ at = Len(projects) /\ DOMAIN projects = 1 .. at
        /\ \A n \in DOMAIN projects :
             /\ projects[n] \in Row
             /\ viewer = "author" => projects[n].likes = 0
             /\ projects[n].scalar["video"] = None => \A m \in projects[n].media : m.type # "VIDEO"
    <2>1. CASE at = 0 /\ projects = <<>>
      BY <2>1
    <2>2. CASE at = 1 /\ \E row \in Seeds : projects = <<row>> /\ (viewer = "author" => row.likes = 0)
      <3>1. PICK row \in Seeds : projects = <<row>> /\ (viewer = "author" => row.likes = 0)
        BY <2>2
      <3>2. row \in Row /\ (row.scalar["video"] = None => \A m \in row.media : m.type # "VIDEO")
        BY SeedsAssumption
      <3>3. /\ projects \in Seq(Row) /\ Len(projects) = 1 /\ DOMAIN projects = 1 .. 1 /\ projects[1] = row
        BY <3>1, <3>2
      <3>4. QED
        BY <2>2, <3>1, <3>2, <3>3
    <2>3. QED
      BY <1>2, <2>1, <2>2
  <1>4. viewer = "guest" => at = 1 /\ projects[1] \in Row
    BY <1>2, <1>3
  <1>5. w0 \in [Slots -> Work] /\ \A i \in Slots : w0[i] = Free
    BY FreeFields
  <1>6. Room(w0)
    <2>1. 1 \in Slots
      BY ProjectPageAssumption DEF Slots
    <2>2. w0[1].kind = "free"
      BY <1>5, <2>1, FreeFields
    <2>3. QED
      BY <2>1, <2>2 DEF Room, FreeSlots
  <1>7. at \in 0 .. MaxCreated
    BY <1>3, ProjectPageAssumption
  <1>8. /\ r \in Work /\ r.kind = "load" /\ r.step = "again" /\ r.slug = at /\ r.mounted /\ r.rev = 0
        /\ r.row = None /\ DOMAIN r.files = {}
    BY <1>7, StartFields DEF Kinds, Steps
  <1>9. wire = IF at = 0 THEN w0 ELSE Put(w0, r)
    BY DEF Init
  <1> HIDE DEF w0, r
  <1>10. /\ wire \in [Slots -> Work]
         /\ \E k \in Slots : \A i \in Slots : wire[i] = Free \/ (at # 0 /\ i = k /\ wire[i] = r)
         /\ at # 0 => \E k \in Slots : wire[k] = r
    <2>1. CASE at = 0
      <3>1. 1 \in Slots
        BY ProjectPageAssumption DEF Slots
      <3>2. QED
        BY <1>5, <1>9, <2>1, <3>1
    <2>2. CASE at # 0
      <3>1. PICK k \in Slots : /\ Put(w0, r) \in [Slots -> Work] /\ Put(w0, r)[k] = r
                               /\ \A j \in Slots : j # k => Put(w0, r)[j] = w0[j]
        BY <1>5, <1>6, <1>8, PutTakesAFreeSlot
      <3>2. QED
        BY <1>5, <1>9, <2>2, <3>1
    <2>3. QED
      BY <2>1, <2>2
  <1>11. ASSUME NEW i \in Slots
         PROVE  /\ \/ wire[i].kind = "free" /\ wire[i].slug = 0 /\ wire[i].step = "out"
                   \/ at # 0 /\ wire[i].kind = "load" /\ wire[i].slug = at /\ wire[i].step = "again"
                /\ wire[i].row = None /\ wire[i].rev = 0 /\ wire[i].mounted /\ DOMAIN wire[i].files = {}
    BY <1>8, <1>10, FreeFields
  <1>12. TypeOK
    <2>1. wire \in [1 .. MaxWork -> Work]
      BY <1>10 DEF Slots
    <2>2. liked \in BOOLEAN
      BY DEF Init
    <2>3. used \in SUBSET Urls
      <3>1. used = UNION {Gallery(projects[n]) \cup {m.url : m \in projects[n].media} : n \in DOMAIN projects}
        BY DEF Init
      <3>2. ASSUME NEW n \in DOMAIN projects
            PROVE  Gallery(projects[n]) \cup {m.url : m \in projects[n].media} \subseteq Urls
        <4>1. projects[n].media \subseteq Media
          BY <1>3 DEF Row
        <4>2. \A m \in projects[n].media : m.url \in Urls
          BY <4>1 DEF Media
        <4>3. QED
          BY <4>2, GalleryIs
      <3>3. QED
        BY <3>1, <3>2
    <2>4. /\ Len(projects) <= MaxCreated /\ at \in 0 .. Len(projects)
          /\ copyRev \in 0 .. rev /\ likeRev \in 0 .. rev /\ rev \in Nat
          /\ moves \in 0 .. MaxMoves /\ faults \in 0 .. MaxFaults
      BY <1>1, <1>3, ProjectPageAssumption
    <2>5. form \in Form
      BY <1>1, BlankIsAForm
    <2>6. QED
      BY <1>1, <1>3, <2>1, <2>2, <2>3, <2>4, <2>5 DEF TypeOK
  <1>13. ASSUME NEW i \in Slots PROVE HandlerHolds(wire[i])
    <2>1. KnowsItsProject(wire[i])
      BY <1>3, <1>11 DEF KnowsItsProject, Uploads
    <2>2. HasItsAnswer(wire[i]) /\ HasItsFiles(wire[i]) /\ Publishes(wire[i])
      BY <1>1, <1>11 DEF HasItsAnswer, HasItsFiles, Publishes, Uploads
    <2>3. IsOfThePage(wire[i]) /\ SuitsTheViewer(wire[i])
      BY <1>4, <1>11 DEF IsOfThePage, SuitsTheViewer
    <2>4. QED
      BY <2>1, <2>2, <2>3 DEF HandlerHolds
  <1>14. AloneUnderItsFlag /\ FlagsHaveOwners
    BY <1>1, <1>11 DEF AloneUnderItsFlag, FlagsHaveOwners
  <1>15. NewAreUnknown /\ ToldIsThere /\ AnnouncedAsStored /\ PageShape
    BY <1>1, <1>4, <1>11 DEF NewAreUnknown, Making, ToldIsThere, AnnouncedAsStored, PageShape
  <1>16. AuthorReads
    <2>1. ASSUME at # 0 PROVE AuthorFresh(0)
      <3>1. PICK k \in Slots : wire[k].kind = "load" /\ wire[k].step = "again" /\ wire[k].mounted
        BY <1>8, <1>10, <2>1
      <3>2. Refreshes(wire[k], 0)
        BY <3>1 DEF Refreshes, Rereads
      <3>3. QED
        BY <1>1, <1>11, <3>2 DEF AuthorFresh
    <2>2. 0 \in 0 .. rev
      BY <1>1
    <2>3. QED
      BY <1>1, <1>3, <1>11, <2>1, <2>2 DEF AuthorReads, NobodyLikes
  <1>17. GuestReads
    <2>1. GuestFresh(0)
      BY <1>1, <1>11 DEF GuestFresh
    <2>2. viewer = "guest" => projects[1].likes = (IF liked THEN 1 ELSE 0)
      <3>1. viewer = "guest" => projects[1].likes \in 0 .. 1
        BY <1>4 DEF Row
      <3>2. viewer = "guest" => (liked <=> projects[1].likes = 1)
        BY Zenon DEF Init
      <3>3. QED
        BY <3>1, <3>2
    <2>3. 0 \in 0 .. rev
      BY <1>1
    <2>4. QED
      BY <1>1, <1>11, <2>1, <2>2, <2>3 DEF GuestReads
  <1>18. KeptAreInForms
    BY <1>1, <1>11 DEF KeptAreInForms, At
  <1>19. VideosAreKnown
    BY <1>3 DEF VideosAreKnown
  <1>20. QED
    BY <1>12, <1>13, <1>14, <1>15, <1>16, <1>17, <1>18, <1>19 DEF PInv

-----------------------------------------------------------------------------
(* Every step *)

LEMMA NextHolds ==
  ASSUME PInv, [Next]_vars PROVE PInv'
  <1>1. CASE User
    BY <1>1, UserStep
  <1>2. CASE Resolve
    BY <1>2, ResolveStep
  <1>3. ASSUME NEW n \in timers, Redirect(n) PROVE PInv'
    BY <1>3, RedirectStep
  <1>4. ASSUME NEW i \in Slots,
               Update(i) \/ Create(i) \/ Publish(i) \/ Read(i) \/ ReadStatus(i) \/ Like(i)
        PROVE  PInv'
    BY <1>4, UpdateStep, CreateStep, PublishStep, ReadStep, ReadStatusStep, LikeStep
  <1>5. ASSUME NEW i \in Slots, NEW u \in Urls,
               StoreFile(i, u) \/ PointToVideo(i, u) \/ FailFile(i, u)
        PROVE  PInv'
    BY <1>5, StoreFileStep, StoreLooseFileStep, PointToVideoStep, FailFileStep
  <1>6. ASSUME NEW i \in Slots,
               \/ Answered(i) \/ Uploaded(i) \/ Refreshed(i) \/ Loaded(i) \/ LikeShown(i)
               \/ Created(i) \/ Announce(i) \/ Fail(i)
        PROVE  PInv'
    BY <1>6, AnsweredStep, UploadedStep, RefreshedStep, LoadedStep, LikeShownStep, CreatedStep,
       AnnounceStep, FailStep
  <1>7. CASE UNCHANGED vars
    <2>1. UNCHANGED <<projects, liked, viewer, at, link, known, copy, isLiked, editing, form, busy,
                      timers, told, wire, moves, faults, used, rev, copyRev, likeRev, kept, excused, torn>>
      BY <1>7 DEF vars, server, page, counts, history
    <2>2. TypeOK' /\ (\A i \in Slots : HandlerHolds(wire[i])')
      BY <2>1 DEF PInv, TypeOK, HandlerHolds, KnowsItsProject, HasItsAnswer, HasItsFiles, IsOfThePage,
                  Publishes, SuitsTheViewer
    <2>3. AloneUnderItsFlag' /\ FlagsHaveOwners' /\ NewAreUnknown' /\ ToldIsThere'
          /\ AnnouncedAsStored' /\ PageShape'
      BY <2>1 DEF PInv, AloneUnderItsFlag, FlagsHaveOwners, NewAreUnknown, Making, ToldIsThere,
                  AnnouncedAsStored, PageShape
    <2>4. AuthorReads' /\ GuestReads'
      BY <2>1 DEF PInv, AuthorReads, AuthorFresh, Refreshes, NobodyLikes, GuestReads, GuestFresh, OneOf, Tells
    <2>5. KeptAreInForms' /\ VideosAreKnown'
      BY <2>1 DEF PInv, KeptAreInForms, Gallery, At, VideosAreKnown
    <2>6. QED
      BY <2>2, <2>3, <2>4, <2>5 DEF PInv
  <1>8. QED
    BY <1>1, <1>2, <1>3, <1>4, <1>5, <1>6, <1>7 DEF Next

\* What a page knows of handlers, flags, copies and screenshots holds in every state:
\* the strengthening from which the three theorems below follow.
THEOREM PInvHolds ==
  Spec => []PInv
  <1>1. Init => PInv
    BY InitHolds
  <1>2. PInv /\ [Next]_vars => PInv'
    BY NextHolds
  <1>3. QED
    BY <1>1, <1>2, PTL DEF Spec

LEMMA PageInvFollows ==
  ASSUME PInv PROVE PageInv
  <1>1. TypeOK /\ AnnouncedAsStored /\ FlagsHaveOwners /\ AloneUnderItsFlag
    BY DEF PInv
  <1>2. \A f \in busy : \E i \in Slots : /\ wire[i].mounted
                                       /\ wire[i].kind \notin {"free", "load", "status"}
                                       /\ FlagOf(wire[i].kind) = f
    BY <1>1 DEF FlagsHaveOwners
  <1>3. \A i, j \in Slots : (i # j /\ wire[i].mounted /\ wire[j].mounted) =>
          \A k \in {"save", "create", "drop", "like"} : ~(wire[i].kind = k /\ wire[j].kind = k)
    BY <1>1 DEF AloneUnderItsFlag
  <1>4. QED
    BY <1>1, <1>2, <1>3 DEF PageInv

LEMMA QuietPageFollows ==
  ASSUME PInv PROVE QuietPageIsTrue
  <1> SUFFICES ASSUME Quiet, at # 0, copy # None
               PROVE  IF viewer = "author" THEN "behind" \notin excused => copy = projects[at]
                      ELSE (known /\ "unliked" \notin excused) => copy = projects[at] /\ isLiked = liked
    BY DEF QuietPageIsTrue
  <1>1. \A i \in Slots : wire[i].kind = "free"
    BY DEF Quiet
  <1>2. TypeOK /\ AuthorReads /\ GuestReads /\ PageShape
    BY DEF PInv
  <1>3. CASE viewer = "author"
    <2>1. PICK d \in 0 .. rev : AuthorFresh(d)
      BY <1>2, <1>3 DEF AuthorReads
    <2>2. \A i \in Slots : ~Refreshes(wire[i], d)
      BY <1>1 DEF Refreshes, Rereads, Uploads
    <2>3. "behind" \notin excused => copyRev >= d
      BY <2>1, <2>2 DEF AuthorFresh
    <2>4. QED
      BY <1>3, <2>1, <2>3 DEF AuthorFresh
  <1>4. CASE viewer = "guest"
    <2>1. PICK d \in 0 .. rev : GuestFresh(d)
      BY <1>2, <1>4 DEF GuestReads
    <2>2. \A i \in Slots : ~Tells(wire[i], d)
      BY <1>1 DEF Tells
    <2>3. known /\ "unliked" \notin excused => copy.likes = projects[1].likes /\ isLiked = liked
      BY <2>1, <2>2 DEF GuestFresh
    <2>4. OneOf(copy) /\ at = 1
      BY <1>2, <1>4 DEF GuestReads, PageShape
    <2>5. copy \in Row /\ projects[1] \in Row
      BY <1>2, <2>4, AtIs DEF TypeOK
    <2>6. copy.likes = projects[1].likes => copy = projects[1]
      BY <2>4, <2>5 DEF OneOf, Row
    <2>7. QED
      BY <1>4, <2>3, <2>4, <2>6
  <1>5. QED
    BY <1>2, <1>3, <1>4 DEF TypeOK

LEMMA UploadsFollow ==
  ASSUME PInv PROVE UploadsAreKept
  BY DEF PInv, KeptAreInForms, VideosAreKnown, UploadsAreKept

\* In the form and on the page, whatever the order of saves, uploads, publications,
\* redirects and failures: what is announced is stored, every flag that disables a
\* button has a handler that will clear it, and saves, creations, deletions and
\* likes do not overlap with their like.
THEOREM PageIsSound ==
  Spec => []PageInv
  <1>1. PInv => PageInv
    BY PageInvFollows
  <1>2. QED
    BY <1>1, PInvHolds, PTL

\* A page on which nothing is under way shows the project, and the guest's like, as
\* they are stored, unless a reply was lost or overtaken: every handler that writes
\* reads the project again, and patches of the count come with the like they count.
THEOREM PageComesToRestOnTheTruth ==
  Spec => []QuietPageIsTrue
  <1>1. PInv => QuietPageIsTrue
    BY QuietPageFollows
  <1>2. QED
    BY <1>1, PInvHolds, PTL

\* Screenshots that were uploaded stay in the gallery through saves, uploads,
\* deletions and redirects, but where a save overlaps an upload or a form is filled
\* from a page that lags; and a project that points to no video has none, but where
\* an upload is, or died, between its two writes.
THEOREM UploadsAreNotLost ==
  Spec => []UploadsAreKept
  <1>1. PInv => UploadsAreKept
    BY UploadsFollow
  <1>2. QED
    BY <1>1, PInvHolds, PTL
==============================================================================
