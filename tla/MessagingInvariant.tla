------------------------- MODULE MessagingInvariant -------------------------
(***************************************************************************)
(* Why the properties of Messaging hold: what each call knows of the       *)
(* threads and of the message it has in hand.                              *)
(***************************************************************************)
EXTENDS Messaging

\* Messages are written into rows that are there, by one of the pair whose all
\* rows are.
ThreadsExist ==
  /\ \A t \in Rows : thread[t] = First
  /\ \A n \in DOMAIN messages : messages[n].thread \in Rows
  /\ \A c \in Calls : call[c].step \in {"upload", "insert"} => call[c].thread \in Rows
  /\ \A c \in Calls : call[c].step \in {"find", "create", "upload", "insert"} => call[c].user \in People

\* Whoever is about to create a thread found none, and is alone in it.
OneThread ==
  ~forked =>
    /\ \A s, t \in Rows : s = t
    /\ \A c \in Calls : At(c, "create") => Rows = {} /\ \A d \in Calls \ {c} : ~At(d, "create")

\* A message read before it was announced is told apart; one read with its
\* notification to follow has the call that will follow.
MarksFollow ==
  \A n \in DOMAIN messages :
    LET m == messages[n] IN
    m.isRead /\ n \notin split =>
      /\ m.note # "none"
      /\ m.note = "unread" =>
           \E c \in Calls : At(c, "readNotes") /\ call[c].thread = m.thread /\ call[c].user # m.from

Announcing == {"notify", "log", "mail", "record"}

\* A message is announced by one call, and its messageId is stored at the end.
OneAnnouncer ==
  \A c \in Calls :
    call[c].step \in Announcing =>
      /\ call[c].n \in DOMAIN messages
      /\ ~messages[call[c].n].known
      /\ At(c, "notify") => messages[call[c].n].note = "none"
      /\ call[c].step \in {"notify", "log", "mail"} =>
           messages[call[c].n].pending = {} /\ messages[call[c].n].handled = {}
      /\ \A d \in Calls \ {c} : call[d].step \in Announcing => call[d].n # call[c].n

Hooked(c) == call[c].step \in {"hook", "stray"}

\* What a delivery has in hand is a report still pending, and nobody else has it.
OneDelivery ==
  \A c \in Calls : Hooked(c) =>
    /\ call[c].n \in DOMAIN messages
    /\ call[c].event \in messages[call[c].n].pending
    /\ At(c, "stray") => call[c].n \in disordered
    /\ \A d \in Calls \ {c} : Hooked(d) => call[d].n # call[c].n \/ call[d].event # call[c].event

\* The reports of a mail are those of one of its fates; none is handled in good order
\* while the log does not know the mail.
ReportsAgree ==
  \A n \in DOMAIN messages :
    LET m == messages[n] IN
    /\ \/ m.pending \cup m.handled = {}
       \/ m.pending \cup m.handled \in Fates
    /\ n \notin disordered => m.strays = {} /\ (~m.known => m.handled = {})

MInv ==
  /\ TypeOK
  /\ ThreadsExist
  /\ OneThread
  /\ MarksFollow
  /\ OneAnnouncer
  /\ OneDelivery
  /\ ReportsAgree
  /\ MailLogFollowsProvider
===============================================================================
