----------------------------- MODULE ProjectPage -----------------------------
(***************************************************************************)
(* The form that makes a project and the page that shows and edits it, in  *)
(* the browser of its author or of a guest who likes it, with the rows     *)
(* that their requests write.  Every handler is an async function: it      *)
(* sends, waits, writes the form, reads the project again and waits; only  *)
(* some of the buttons are disabled meanwhile.                             *)
(***************************************************************************)
EXTENDS Integers, Sequences, FiniteSets

CONSTANTS
  Urls,       \* what the uploads are stored under, one each
  Titles,     \* what an author types
  None,       \* null, or a field left empty
  Seeds,      \* the projects that may be there at the start
  MaxWork,    \* bound: how many handlers run at once
  MaxMoves,   \* bound: how often the user does something
  MaxCreated, \* bound: how many projects there are
  MaxFaults   \* bound: how many requests or replies are lost

VARIABLES
  projects, \* the Project rows with their media, in the order of creation
  liked,    \* whether the guest has a ProjectLike row
  viewer,   \* who sits at the browser
  at,       \* the page: 0 is the form for a new project, n shows project n
  link,     \* the URL has ?edit=1 and the effect on it has not run yet
  known,    \* viewerId has been set
  copy,     \* the page's project
  isLiked, editing, form,
  busy,     \* the flags that are set, by their names
  timers,   \* the projects a router.push is due for
  told,     \* the success message of the form: a project, and whether published
  wire,     \* the handlers under way
  moves, faults, \* what the bounds count
  used,     \* the URLs that are taken
  rev,      \* history: how many writes the server has committed
  copyRev,  \* history: how many of them the page's project includes
  likeRev,  \* history: how many of them the page's like includes
  kept,     \* history: the screenshots added to the form and not removed since
  excused,  \* history: why a guarantee is suspended, see the properties
  torn      \* history: a video upload died between its two writes

server  == <<projects, liked>>
page    == <<viewer, at, link, known, copy, isLiked, editing, form, busy, timers, told>>
counts  == <<moves, faults, used>>
history == <<rev, copyRev, likeRev, kept, excused, torn>>
vars    == <<server, page, wire, counts, history>>

Scalars  == {"background", "role", "status", "thumbnail", "title", "video"}
Statuses == {"DRAFT", "PUBLISHED"}
Value    == Urls \cup Titles \cup Statuses \cup {None}
Media    == [type : {"SCREENSHOT", "IMAGE", "VIDEO"}, url : Urls]
Row      == [media : SUBSET Media, likes : 0 .. 1, scalar : [Scalars -> Value]]
Form     == [scalar : [Scalars -> Value], shots : SUBSET Urls]
Flags    == {"pending", "saving", "mediaUploading", "videoDeleting", "likeLoading"}
Uploads  == {"SCREENSHOT", "IMAGE", "VIDEO", "THUMBNAIL"}
Kinds    == Uploads \cup {"free", "load", "status", "like", "save", "drop", "create"}

Blank == [scalar |-> [f \in Scalars |-> IF f = "status" THEN "DRAFT" ELSE None],
          shots  |-> {}]

\* The URLs of a project's gallery: the form lists background images as
\* screenshots.
Gallery(row) == {m.url : m \in {x \in row.media : x.type \in {"SCREENSHOT", "IMAGE"}}}
ScreenshotRows(urls) == {[type |-> "SCREENSHOT", url |-> u] : u \in urls}

\* initializeEditForm
FormOf(row) == [scalar |-> row.scalar, shots |-> Gallery(row)]

\* A handler in flight: what it was called with, how far it is, and the answer
\* that is on its way to it.
Work ==
  [liked   : BOOLEAN,          \* the like that the server answered
   form    : Form,             \* what it sends
   rev     : Nat,              \* history: the commits its answer includes
   row     : Row \cup {None},  \* the project that the server answered
   kind    : Kinds,
   step    : {"out", "back", "again", "reply"},
   slug    : 0 .. MaxCreated,
   mounted : BOOLEAN,          \* the page that started it is still there
   publish : BOOLEAN,
   files   : UNION {[S -> {"out", "row", "back"}] : S \in SUBSET Urls}]

NoFiles == [u \in {} |-> "out"]
Start(kind, step) ==
  [liked |-> FALSE, form |-> Blank, rev |-> 0, row |-> None, kind |-> kind, step |-> step,
   slug |-> at, mounted |-> TRUE, publish |-> FALSE, files |-> NoFiles]
Free == [Start("free", "out") EXCEPT !.slug = 0]

TypeOK ==
  /\ projects \in Seq(Row) /\ Len(projects) <= MaxCreated /\ liked \in BOOLEAN
  /\ viewer \in {"author", "guest"} /\ at \in 0 .. Len(projects)
  /\ link \in BOOLEAN /\ known \in BOOLEAN /\ isLiked \in BOOLEAN /\ editing \in BOOLEAN
  /\ copy \in Row \cup {None} /\ form \in Form /\ busy \in SUBSET Flags
  /\ timers \in SUBSET (1 .. MaxCreated)
  /\ told = None \/ told \in [slug : 1 .. MaxCreated, published : BOOLEAN]
  /\ wire \in [1 .. MaxWork -> Work]
  /\ moves \in 0 .. MaxMoves /\ faults \in 0 .. MaxFaults /\ used \in SUBSET Urls
  /\ rev \in Nat /\ copyRev \in 0 .. rev /\ likeRev \in 0 .. rev /\ kept \in SUBSET Urls
  /\ excused \in SUBSET {"behind", "unliked", "lost"} /\ torn \in SUBSET (1 .. MaxCreated)

\* null is no URL and no project, and the bounds.
ASSUME ProjectPageAssumption ==
  /\ None \notin Urls /\ None \notin Row
  /\ {MaxWork, MaxCreated} \subseteq Nat \ {0} /\ {MaxMoves, MaxFaults} \subseteq Nat

\* Of the seeds: an uploaded video is where its project points.
ASSUME SeedsAssumption ==
  /\ Seeds \subseteq Row
  /\ \A row \in Seeds : row.scalar["video"] = None => \A m \in row.media : m.type # "VIDEO"

-----------------------------------------------------------------------------
(* The wire.  A handler takes a free slot, whichever. *)

Slots    == 1 .. MaxWork
FreeSlots(w) == {i \in Slots : w[i].kind = "free"}
Room(w)  == FreeSlots(w) # {}
Put(w, r) == [w EXCEPT ![CHOOSE i \in FreeSlots(w) : TRUE] = r]
Done(i)  == [wire EXCEPT ![i] = Free]
Step(i, s) == wire' = [wire EXCEPT ![i].step = s]
At(i, kinds, s) == wire[i].kind \in kinds /\ wire[i].step = s
Quiet    == \A i \in Slots : wire[i].kind = "free"

\* The user does something, at most MaxMoves times.
Move == moves < MaxMoves /\ moves' = moves + 1

\* A handler starts.
Send(r) == Room(wire) /\ wire' = Put(wire, r)

-----------------------------------------------------------------------------
(* Mounting. *)

\* The page of project n begins with nothing but its load request; getAuthSession
\* is under way as well, see Resolve.
Mount(n, w) ==
  /\ at' = n /\ link' = FALSE
  /\ known' = FALSE /\ isLiked' = FALSE /\ editing' = FALSE
  /\ copy' = None /\ form' = Blank /\ busy' = {} /\ told' = None
  /\ Room(w)
  /\ wire' = Put(w, [Start("load", "again") EXCEPT !.slug = n])

Init ==
  /\ viewer \in {"author", "guest"}
  /\ \/ viewer = "author" /\ at = 0 /\ projects = <<>>
     \/ at = 1 /\ \E row \in Seeds : projects = <<row>> /\ (viewer = "author" => row.likes = 0)
  /\ liked = (viewer = "guest" /\ projects[1].likes = 1)
  /\ link \in BOOLEAN /\ (viewer = "guest" \/ at = 0 => ~link)
  /\ known = FALSE /\ isLiked = FALSE /\ editing = FALSE
  /\ copy = None /\ form = Blank /\ busy = {} /\ timers = {} /\ told = None
  /\ wire = IF at = 0 THEN [i \in Slots |-> Free]
            ELSE Put([i \in Slots |-> Free], Start("load", "again"))
  /\ moves = 0 /\ faults = 0
  /\ used = UNION {Gallery(projects[n]) \cup {m.url : m \in projects[n].media} : n \in DOMAIN projects}
  /\ rev = 0 /\ copyRev = 0 /\ likeRev = 0 /\ kept = {} /\ excused = {} /\ torn = {}

\* The effect on project.slug and viewerId asks for the like status as soon as
\* both are there.
AskStatus(w, cp, kn) ==
  IF cp # None /\ kn THEN Room(w) /\ wire' = Put(w, Start("status", "out")) ELSE wire' = w

\* getAuthSession has answered.
Resolve ==
  /\ at # 0 /\ ~known /\ known' = TRUE
  /\ AskStatus(wire, copy, TRUE)
  /\ UNCHANGED <<server, viewer, at, link, copy, isLiked, editing, form, busy, timers, told,
                 counts, history>>

\* The 900 ms after a success are over: whatever page is shown now is left, and
\* the handlers it has under way lose it.
Redirect(n) ==
  /\ n \in timers /\ timers' = timers \ {n}
  /\ Mount(n, [i \in Slots |-> [wire[i] EXCEPT !.mounted = wire[i].kind = "free"]])
  /\ copyRev' = 0 /\ likeRev' = 0 /\ kept' = (IF at = 0 THEN kept ELSE {})
  /\ UNCHANGED <<server, viewer, counts, rev, excused, torn>>

-----------------------------------------------------------------------------
(* The author. *)

Author   == viewer = "author" /\ known /\ copy # None
CanType  == at = 0 \/ (Author /\ editing)

\* Filling the form from a copy that lacks something is one of the ways to lose
\* it with the next save.
Fill ==
  /\ form' = FormOf(copy)
  /\ excused' = IF copyRev # rev THEN excused \cup {"lost"} ELSE excused

\* The button above the form.
ToggleEditor ==
  /\ Author /\ Move
  /\ editing' = ~editing
  /\ IF editing' THEN Fill ELSE UNCHANGED <<form, excused>>
  /\ UNCHANGED <<server, viewer, at, link, known, copy, isLiked, busy, timers, told, wire,
                 faults, used, rev, copyRev, likeRev, kept, torn>>

\* The edit deep link, once the project and the viewer are known.
OpenLink ==
  /\ Author /\ link /\ link' = FALSE
  /\ editing' = TRUE /\ Fill
  /\ UNCHANGED <<server, viewer, at, known, copy, isLiked, busy, timers, told, wire,
                 counts, rev, copyRev, likeRev, kept, torn>>

\* Reset form
Reset ==
  /\ Author /\ editing /\ Move
  /\ Fill
  /\ UNCHANGED <<server, viewer, at, link, known, copy, isLiked, editing, busy, timers, told,
                 wire, faults, used, rev, copyRev, likeRev, kept, torn>>

\* Typing into a field, or emptying it.
Type(f, v) ==
  /\ CanType /\ Move /\ form.scalar[f] # v
  /\ form' = [form EXCEPT !.scalar[f] = v]
  /\ UNCHANGED <<server, viewer, at, link, known, copy, isLiked, editing, busy, timers, told,
                 wire, faults, used, history>>

TypeTitle == \E v \in Titles : Type("title", v)
EmptyRole == Type("role", None)
EmptyVideo == Type("video", None)

\* removeScreenshotAt
RemoveScreenshot(u) ==
  /\ CanType /\ Move /\ u \in form.shots
  /\ form' = [form EXCEPT !.shots = @ \ {u}]
  /\ kept' = kept \ {u}
  /\ UNCHANGED <<server, viewer, at, link, known, copy, isLiked, editing, busy, timers, told,
                 wire, faults, used, rev, copyRev, likeRev, excused, torn>>

Flag(f) == busy' = busy \cup {f}

\* Mutant: Save stays enabled while a save is under way.
SaveTwice ==
  /\ Author /\ editing /\ Move
  /\ Flag("saving")
  /\ Send([Start("save", "out") EXCEPT !.form = form])
  /\ UNCHANGED <<server, viewer, at, link, known, copy, isLiked, editing, form, timers, told,
                 faults, used, history>>

\* handleSaveUpdate sends the whole form.
Save ==
  /\ Author /\ editing /\ "saving" \notin busy /\ Move
  /\ Flag("saving")
  /\ Send([Start("save", "out") EXCEPT !.form = form])
  /\ UNCHANGED <<server, viewer, at, link, known, copy, isLiked, editing, form, timers, told,
                 faults, used, history>>

\* deleteProjectVideo
DeleteVideo ==
  /\ Author /\ editing /\ form.scalar["video"] # None
  /\ busy \cap {"videoDeleting", "mediaUploading", "saving"} = {} /\ Move
  /\ Flag("videoDeleting")
  /\ Send(Start("drop", "out"))
  /\ UNCHANGED <<server, viewer, at, link, known, copy, isLiked, editing, form, timers, told,
                 faults, used, history>>

\* uploadScreenshotFiles, uploadBackgroundFile, uploadThumbnailFile and
\* uploadVideoFile, in the editor and in the form for a new project: the files of
\* one drop are sent together.
Upload(kind, urls) ==
  /\ CanType /\ Move
  /\ urls # {} /\ urls \cap used = {} /\ used' = used \cup urls
  /\ kind # "SCREENSHOT" => Cardinality(urls) = 1
  /\ Flag("mediaUploading")
  /\ Send([Start(kind, "out") EXCEPT !.files = [u \in urls |-> "out"]])
  /\ UNCHANGED <<server, viewer, at, link, known, copy, isLiked, editing, form, timers, told,
                 faults, history>>

\* handleSubmit of the form for a new project, whose required fields are filled.
Submit(publish) ==
  /\ at = 0 /\ form.scalar["title"] # None /\ "pending" \notin busy /\ Move
  /\ Flag("pending") /\ told' = None
  /\ Send([Start("create", "out") EXCEPT !.form = form, !.publish = publish])
  /\ UNCHANGED <<server, viewer, at, link, known, copy, isLiked, editing, form, timers,
                 faults, used, history>>

\* handleToggleLike, of a guest: the author is refused.
ToggleLike ==
  /\ viewer = "guest" /\ known /\ copy # None /\ "likeLoading" \notin busy /\ Move
  /\ Flag("likeLoading")
  /\ Send(Start("like", "out"))
  /\ UNCHANGED <<server, viewer, at, link, known, copy, isLiked, editing, form, timers, told,
                 faults, used, history>>

-----------------------------------------------------------------------------
(* The server. *)

\* What update writes for a form.  A role left empty is not sent; an empty video
\* is null, and takes the uploaded video rows with it.
Saved(row, f) ==
  [row EXCEPT !.scalar = [k \in Scalars |-> IF k = "role" /\ f.scalar[k] = None THEN @[k] ELSE f.scalar[k]],
              !.media  = {m \in @ : /\ m.type # "SCREENSHOT"
                                    /\ m.type = "VIDEO" => f.scalar["video"] # None}
                           \cup ScreenshotRows(f.shots)]

\* What update writes for { videoUrl: null }: no screenshots are sent.
Dropped(row) ==
  [row EXCEPT !.scalar["video"] = None, !.media = {m \in @ : m.type # "VIDEO"}]

Written(n, row) == projects' = [projects EXCEPT ![n] = row] /\ rev' = rev + 1

\* update, in one transaction.  The screenshots of a save replace all others, those
\* included that are being uploaded.
Update(i) ==
  /\ At(i, {"save", "drop"}, "out") /\ Step(i, "back")
  /\ LET n == wire[i].slug
     IN  Written(n, IF wire[i].kind = "save" THEN Saved(projects[n], wire[i].form) ELSE Dropped(projects[n]))
  /\ excused' = IF wire[i].kind = "save" /\ (\E j \in Slots : At(j, {"SCREENSHOT"}, "out"))
                THEN excused \cup {"lost"} ELSE excused
  /\ UNCHANGED <<liked, page, counts, copyRev, likeRev, kept, torn>>

\* create: a draft with the screenshots of the form.
Create(i) ==
  /\ At(i, {"create"}, "out") /\ Len(projects) < MaxCreated
  /\ LET f == wire[i].form
     IN  projects' = Append(projects, [media |-> ScreenshotRows(f.shots), likes |-> 0,
                                       scalar |-> [f.scalar EXCEPT !["status"] = "DRAFT"]])
  /\ rev' = rev + 1
  /\ wire' = [wire EXCEPT ![i].step = "back", ![i].slug = Len(projects')]
  /\ UNCHANGED <<liked, page, counts, copyRev, likeRev, kept, excused, torn>>

\* publishProject: update with nothing but a status.
Publish(i) ==
  /\ At(i, {"create"}, "again") /\ Step(i, "reply")
  /\ LET n == wire[i].slug IN Written(n, [projects[n] EXCEPT !.scalar["status"] = "PUBLISHED"])
  /\ UNCHANGED <<liked, page, counts, copyRev, likeRev, kept, excused, torn>>

\* getBySlug
Read(i) ==
  /\ At(i, Kinds \ {"create"}, "again")
  /\ wire' = [wire EXCEPT ![i].step = "reply", ![i].row = projects[wire[i].slug], ![i].rev = rev]
  /\ UNCHANGED <<server, page, counts, history>>

\* getLikeStatus
ReadStatus(i) ==
  /\ At(i, {"status"}, "out")
  /\ wire' = [wire EXCEPT ![i].step = "back", ![i].row = projects[wire[i].slug], ![i].rev = rev,
                          ![i].liked = viewer = "guest" /\ liked]
  /\ UNCHANGED <<server, page, counts, history>>

\* toggleLike, in one transaction.
Like(i) ==
  /\ At(i, {"like"}, "out")
  /\ liked' = ~liked
  /\ LET n == wire[i].slug
     IN  Written(n, [projects[n] EXCEPT !.likes = IF liked THEN @ - 1 ELSE @ + 1])
  /\ wire' = [wire EXCEPT ![i].step = "back", ![i].row = projects'[wire[i].slug],
                          ![i].rev = rev', ![i].liked = liked']
  /\ UNCHANGED <<page, counts, copyRev, likeRev, kept, excused, torn>>

\* Nobody will read again what a handler writes that has already failed.
Unnoticed(i) == excused' = IF wire[i].mounted THEN excused ELSE excused \cup {"behind"}

\* uploadFile, of one file: to Cloudinary, and with a project its row.
StoreFile(i, u) ==
  /\ At(i, Uploads, "out") /\ u \in DOMAIN wire[i].files /\ wire[i].files[u] = "out"
  /\ LET n    == wire[i].slug
         kind == wire[i].kind
     IN  /\ wire' = [wire EXCEPT ![i].files[u] = IF n # 0 /\ kind = "VIDEO" THEN "row" ELSE "back"]
         /\ IF n = 0 THEN UNCHANGED <<projects, rev>>
            ELSE Written(n, IF kind = "THUMBNAIL"
                            THEN [projects[n] EXCEPT !.scalar["thumbnail"] = u]
                            ELSE [projects[n] EXCEPT !.media = @ \cup {[type |-> kind, url |-> u]}])
  /\ Unnoticed(i)
  /\ UNCHANGED <<liked, page, counts, copyRev, likeRev, kept, torn>>

\* uploadFile, of a video: the project is written after the row.
PointToVideo(i, u) ==
  /\ At(i, {"VIDEO"}, "out") /\ u \in DOMAIN wire[i].files /\ wire[i].files[u] = "row"
  /\ wire' = [wire EXCEPT ![i].files[u] = "back"]
  /\ Written(wire[i].slug, [projects[wire[i].slug] EXCEPT !.scalar["video"] = u])
  /\ Unnoticed(i)
  /\ UNCHANGED <<liked, page, counts, copyRev, likeRev, kept, torn>>

-----------------------------------------------------------------------------
(* The handlers go on. *)

\* An answer is shown.  The page is behind when a later answer came before it.
Overtaken(r, by, what) ==
  excused' = IF r < by THEN excused \cup {what} ELSE IF r = rev THEN excused \ {what} ELSE excused

Shown(r, row) == copy' = row /\ copyRev' = r /\ Overtaken(r, copyRev, "behind")

\* Mutant: update's answer is taken for the project, which is not read again.
AnsweredUnread(i) ==
  /\ At(i, {"save", "drop"}, "back")
  /\ wire' = Done(i)
  /\ busy' = busy \ {"saving", "videoDeleting"}
  /\ UNCHANGED <<server, viewer, at, link, known, copy, isLiked, editing, form, timers, told,
                 counts, history>>

\* updateProject has answered: the project is read again.
Answered(i) ==
  /\ At(i, {"save", "drop"}, "back")
  /\ IF wire[i].mounted THEN Step(i, "again") ELSE wire' = Done(i)
  /\ UNCHANGED <<server, page, counts, history>>

\* The fields an upload fills in.
Filled(f, kind, urls) ==
  IF kind = "SCREENSHOT" THEN [f EXCEPT !.shots = @ \cup urls]
  ELSE [f EXCEPT !.scalar[CASE kind = "IMAGE" -> "background" [] kind = "VIDEO" -> "video"
                            [] OTHER -> "thumbnail"] = CHOOSE u \in urls : TRUE]

\* Mutant: the editor's form does not take the screenshots that were uploaded.
UploadedUnlisted(i) ==
  /\ At(i, Uploads, "out") /\ \A u \in DOMAIN wire[i].files : wire[i].files[u] = "back"
  /\ kept' = IF wire[i].mounted /\ wire[i].kind = "SCREENSHOT" THEN kept \cup DOMAIN wire[i].files ELSE kept
  /\ IF wire[i].mounted /\ at # 0 THEN Step(i, "again") ELSE wire' = Done(i)
  /\ UNCHANGED <<server, page, counts, rev, copyRev, likeRev, excused, torn>>

\* Every file of the drop has been answered: the form takes the URLs and the
\* project is read again.  A form that was sent meanwhile has gone without them.
Uploaded(i) ==
  LET urls == DOMAIN wire[i].files
      here == wire[i].mounted
  IN
  /\ At(i, Uploads, "out") /\ \A u \in urls : wire[i].files[u] = "back"
  /\ form' = IF here THEN Filled(form, wire[i].kind, urls) ELSE form
  /\ kept' = IF here /\ wire[i].kind = "SCREENSHOT" THEN kept \cup urls ELSE kept
  /\ excused' = IF here /\ (busy \cap {"pending", "saving"} # {} \/ timers # {})
                THEN excused \cup {"lost"} ELSE excused
  /\ busy' = IF here /\ at = 0 THEN busy \ {"mediaUploading"} ELSE busy
  /\ IF here /\ at # 0 THEN Step(i, "again") ELSE wire' = Done(i)
  /\ UNCHANGED <<server, viewer, at, link, known, copy, isLiked, editing, timers, told,
                 counts, rev, copyRev, likeRev, torn>>

\* The project that a handler has read again is shown, and the handler ends: a
\* save closes the editor, a deletion empties the field, and finally clears the
\* handler's flag, whatever other uploads are under way.
Refreshed(i) ==
  /\ At(i, Uploads \cup {"save", "drop"}, "reply")
  /\ wire' = Done(i)
  /\ IF ~wire[i].mounted THEN UNCHANGED <<copy, editing, form, busy, copyRev, excused>>
     ELSE LET kind == wire[i].kind IN
          /\ Shown(wire[i].rev, wire[i].row)
          /\ editing' = (kind # "save" /\ editing)
          /\ form' = IF kind = "drop" THEN [form EXCEPT !.scalar["video"] = None] ELSE form
          /\ busy' = busy \ {CASE kind = "save" -> "saving" [] kind = "drop" -> "videoDeleting"
                               [] OTHER -> "mediaUploading"}
  /\ UNCHANGED <<server, viewer, at, link, known, isLiked, timers, told, counts, rev, likeRev, kept, torn>>

\* The load effect has its answer.
Loaded(i) ==
  /\ At(i, {"load"}, "reply")
  /\ IF wire[i].mounted
     THEN Shown(wire[i].rev, wire[i].row) /\ AskStatus(Done(i), copy', known)
     ELSE wire' = Done(i) /\ UNCHANGED <<copy, copyRev, excused>>
  /\ UNCHANGED <<server, viewer, at, link, known, isLiked, editing, form, busy, timers, told,
                 counts, rev, likeRev, kept, torn>>

\* The effect on the like status, or handleToggleLike, has its answer: it patches
\* the count into the project as it is shown by then.
LikeShown(i) ==
  /\ At(i, {"status", "like"}, "back")
  /\ wire' = Done(i)
  /\ IF wire[i].mounted
     THEN /\ isLiked' = wire[i].liked
          /\ copy' = [copy EXCEPT !.likes = wire[i].row.likes]
          /\ likeRev' = wire[i].rev /\ Overtaken(wire[i].rev, likeRev, "unliked")
          /\ busy' = IF wire[i].kind = "like" THEN busy \ {"likeLoading"} ELSE busy
     ELSE UNCHANGED <<isLiked, copy, busy, likeRev, excused>>
  /\ UNCHANGED <<server, viewer, at, link, known, editing, form, timers, told, counts, rev, copyRev, kept, torn>>

\* createProject has answered: publishProject follows if that was asked for.
Created(i) ==
  /\ At(i, {"create"}, "back") /\ wire[i].publish
  /\ Step(i, "again")
  /\ UNCHANGED <<server, page, counts, history>>

\* Mutant: the form does not wait for publishProject.
AnnounceEarly(i) ==
  /\ At(i, {"create"}, "back") \/ At(i, {"create"}, "reply")
  /\ wire' = IF wire[i].step = "back" /\ wire[i].publish THEN [wire EXCEPT ![i].step = "again"] ELSE Done(i)
  /\ timers' = timers \cup {wire[i].slug}
  /\ IF wire[i].mounted
     THEN told' = [slug |-> wire[i].slug, published |-> wire[i].publish] /\ busy' = busy \ {"pending"}
     ELSE UNCHANGED <<told, busy>>
  /\ UNCHANGED <<server, viewer, at, link, known, copy, isLiked, editing, form, counts, history>>

\* The form says so, may be sent again from now on, and leaves in 900 ms.
Announce(i) ==
  /\ (At(i, {"create"}, "back") /\ ~wire[i].publish) \/ At(i, {"create"}, "reply")
  /\ wire' = Done(i)
  /\ timers' = timers \cup {wire[i].slug}
  /\ IF wire[i].mounted
     THEN told' = [slug |-> wire[i].slug, published |-> wire[i].publish] /\ busy' = busy \ {"pending"}
     ELSE UNCHANGED <<told, busy>>
  /\ UNCHANGED <<server, viewer, at, link, known, copy, isLiked, editing, form, counts, history>>

-----------------------------------------------------------------------------
(* A request does not arrive, the server throws, or the reply is lost: the     *)
(* handler catches it, clears its flag and ends.                               *)

Fault == faults < MaxFaults /\ faults' = faults + 1

FlagOf(kind) ==
  CASE kind = "save" -> "saving" [] kind = "drop" -> "videoDeleting"
    [] kind = "like" -> "likeLoading" [] kind = "create" -> "pending"
    [] OTHER -> "mediaUploading"

Caught(i) ==
  /\ busy' = IF wire[i].mounted /\ wire[i].kind \notin {"load", "status"}
             THEN busy \ {FlagOf(wire[i].kind)} ELSE busy
  /\ isLiked' = (isLiked /\ ~(wire[i].mounted /\ wire[i].kind = "status"))
  /\ excused' = excused \cup {"behind", "unliked"}
  /\ UNCHANGED <<server, viewer, at, link, known, copy, editing, form, timers, told,
                 moves, used, rev, copyRev, likeRev, kept>>

Fail(i) ==
  /\ wire[i].kind # "free" /\ ~At(i, Uploads, "out")
  /\ Fault /\ Caught(i)
  /\ wire' = Done(i)
  /\ UNCHANGED torn

\* One file of a drop fails: Promise.all rejects at once, and the other files go on
\* with nobody waiting for them.
FailFile(i, u) ==
  /\ At(i, Uploads, "out") /\ u \in DOMAIN wire[i].files
  /\ Fault /\ Caught(i)
  /\ torn' = IF wire[i].files[u] = "row" THEN torn \cup {wire[i].slug} ELSE torn
  /\ LET rest == DOMAIN wire[i].files \ {u}
     IN  wire' = IF rest = {} THEN Done(i)
                 ELSE [wire EXCEPT ![i].mounted = FALSE, ![i].files = [v \in rest |-> wire[i].files[v]]]

-----------------------------------------------------------------------------

User ==
  \/ ToggleEditor \/ OpenLink \/ Reset \/ TypeTitle \/ EmptyRole \/ EmptyVideo
  \/ \E u \in Urls : RemoveScreenshot(u)
  \/ Save \/ DeleteVideo \/ ToggleLike
  \/ \E kind \in Uploads, urls \in SUBSET Urls : Upload(kind, urls)
  \/ \E publish \in BOOLEAN : Submit(publish)

Next ==
  \/ User \/ Resolve
  \/ \E n \in timers : Redirect(n)
  \/ \E i \in Slots :
       \/ Update(i) \/ Create(i) \/ Publish(i) \/ Read(i) \/ ReadStatus(i) \/ Like(i)
       \/ \E u \in Urls : StoreFile(i, u) \/ PointToVideo(i, u) \/ FailFile(i, u)
       \/ Answered(i) \/ Uploaded(i) \/ Refreshed(i) \/ Loaded(i) \/ LikeShown(i)
       \/ Created(i) \/ Announce(i) \/ Fail(i)

Spec == Init /\ [][Next]_vars

-----------------------------------------------------------------------------
(* Properties. *)

\* What the form for a new project says of its success is so.
AnnouncedAsStored ==
  (at = 0 /\ told # None) =>
    projects[told.slug].scalar["status"] = (IF told.published THEN "PUBLISHED" ELSE "DRAFT")

\* Types, and announcements that are true, and: a flag is only set while a handler is under way that will clear it,
\* whatever fails (no button stays disabled), and saves and creations do not
\* overlap.  mediaUploading may be FALSE under a second upload.
PageInv ==
  /\ TypeOK
  /\ AnnouncedAsStored
  /\ \A f \in busy : \E i \in Slots : /\ wire[i].mounted
                                     /\ wire[i].kind \notin {"free", "load", "status"}
                                     /\ FlagOf(wire[i].kind) = f
  /\ \A i, j \in Slots : (i # j /\ wire[i].mounted /\ wire[j].mounted) =>
       \A k \in {"save", "create", "drop", "like"} : ~(wire[i].kind = k /\ wire[j].kind = k)

\* Once nothing is under way the page shows the project as it is stored, and the
\* guest's like, unless a reply was lost or was overtaken by a later one.
QuietPageIsTrue ==
  (Quiet /\ at # 0 /\ copy # None) =>
    IF viewer = "author" THEN "behind" \notin excused => copy = projects[at]
    ELSE (known /\ "unliked" \notin excused) => copy = projects[at] /\ isLiked = liked

\* Screenshots that were uploaded into the form and not removed from it are in the
\* project's gallery, however saves, uploads and deletions follow one another,
\* unless a save overlapped an upload or the form was filled while the page lagged.
\* And a project without videoUrl has no uploaded video left to be shown (the page
\* plays both) unless an upload is, or died, between its two writes.
UploadsAreKept ==
  /\ (at # 0 /\ "lost" \notin excused) => kept \subseteq Gallery(projects[at])
  /\ \A n \in DOMAIN projects :
       projects[n].scalar["video"] = None =>
         \/ \A m \in projects[n].media : m.type # "VIDEO"
         \/ n \in torn
         \/ \E i \in Slots : \E u \in DOMAIN wire[i].files : wire[i].slug = n /\ wire[i].files[u] = "row"

===============================================================================
