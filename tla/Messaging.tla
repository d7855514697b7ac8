------------------------------ MODULE Messaging ------------------------------
(***************************************************************************)
(* Two users who write to each other: threads, messages, the notification  *)
(* and the mail that each message causes, and the delivery log that the    *)
(* mail provider's webhook keeps up to date.  None of it runs in a         *)
(* transaction, so every statement is a step of its own.                   *)
(***************************************************************************)
EXTENDS Integers, FiniteSets, Sequences

CONSTANTS
  People,     \* the two users
  First,      \* the one whose id sorts first
  Threads,    \* ids for Thread rows
  Calls,      \* slots for HTTP requests in flight
  None,       \* no user, no thread
  MaxCalls,   \* bound: how many requests users and mail provider make
  MaxMessages \* bound: how many messages are written

ASSUME MessagingAssumption ==
  /\ First \in People
  /\ None \notin People /\ None \notin Threads
  /\ IsFiniteSet(Threads)
  /\ MaxCalls \in Nat /\ MaxMessages \in Nat

VARIABLES
  thread,     \* the participantA of each Thread row, None while there is no row
  messages,   \* the Message rows in the order of createdAt, each with its
              \* notification and its mail
  made,       \* how many requests have been made
  call,       \* the program counter and local variables of each call
  split,      \* history: messages read apart from their notification
  forked,     \* history: two calls were about to create a thread at once
  disordered  \* history: messages with a webhook that came early or late

history == <<split, forked, disordered>>
vars    == <<thread, messages, made, call, history>>

\* What the provider reports of a mail, and its order.
Event == {"sent", "delivered", "bounced", "opened"}
Place(e) == CASE e = "sent" -> 1 [] e \in {"delivered", "bounced"} -> 2 [] e = "opened" -> 3
Fates == {{"sent", "delivered", "opened"}, {"sent", "bounced"}}

Status == {"QUEUED", "SENT", "DELIVERED", "BOUNCED", "FAILED"}

Message ==
  [thread  : Threads, isRead : BOOLEAN,
   note    : {"none", "unread", "read"},     \* the recipient's Notification
   from    : People,
   known   : BOOLEAN,                        \* log has the provider's messageId
   pending : SUBSET Event,                   \* events the provider has yet to deliver
   handled : SUBSET Event,
   strays  : SUBSET Status,                  \* rows with that messageId the webhook made
   log     : Status \cup {"none"}]           \* the EmailDeliveryLog sendEmail made

Step == {"idle", "find", "create", "upload", "insert", "notify", "log", "mail", "record",
         "read", "readNotes", "readAll", "hook", "stray"}
Call == [thread : Threads \cup {None},
         n     : Nat,                  \* the message in hand
         user  : People \cup {None},
         step  : Step,
         event : Event,                \* the event in hand
         first : BOOLEAN]              \* createThread was given an initial message

Slot(step, u, t, first, n, e) ==
  [thread |-> t, n |-> n, user |-> u, step |-> step, event |-> e, first |-> first]
Idle == Slot("idle", None, None, FALSE, 0, "sent")

TypeOK ==
  /\ thread \in [Threads -> People \cup {None}]
  /\ messages \in Seq(Message) /\ Len(messages) <= MaxMessages
  /\ made \in 0 .. MaxCalls
  /\ call \in [Calls -> Call]
  /\ split \in SUBSET (1 .. MaxMessages) /\ disordered \in SUBSET (1 .. MaxMessages)
  /\ forked \in BOOLEAN

Init ==
  /\ thread = [t \in Threads |-> None]
  /\ messages = <<>>
  /\ made = 0
  /\ call = [c \in Calls |-> Idle]
  /\ split = {} /\ disordered = {}
  /\ forked = FALSE

At(c, step)   == call[c].step = step
Become(c, r)  == call' = [call EXCEPT ![c] = r]
Set(n, m)     == messages' = [messages EXCEPT ![n] = m]
Rows          == {t \in Threads : thread[t] # None}

Begin(c, r) ==
  /\ At(c, "idle")
  /\ made < MaxCalls
  /\ made' = made + 1
  /\ Become(c, r)
  /\ UNCHANGED <<thread, messages, history>>

-----------------------------------------------------------------------------
(* createThread *)

CreateThread(c, u, first) == Begin(c, Slot("find", u, None, first, 0, "sent"))

\* Mutant: the participants are stored as they come.
ParticipantUnsorted(u) == u

\* The two ids are sorted, whoever calls.
ParticipantA(u) == First

\* The thread that was found is returned, or written to first.
FindThread(c) ==
  /\ At(c, "find")
  /\ \E t \in Rows : /\ thread[t] = ParticipantA(call[c].user)
                     /\ Become(c, IF call[c].first
                                  THEN [call[c] EXCEPT !.step = "insert", !.thread = t]
                                  ELSE Idle)
  /\ UNCHANGED <<thread, messages, made, history>>

FindNoThread(c) ==
  /\ At(c, "find")
  /\ \A t \in Rows : thread[t] # ParticipantA(call[c].user)
  /\ Become(c, [call[c] EXCEPT !.step = "create"])
  /\ forked' = (forked \/ \E d \in Calls : At(d, "create"))
  /\ UNCHANGED <<thread, messages, made, split, disordered>>

\* No unique index keeps a second row of the same two users out.
InsertThread(c) ==
  /\ At(c, "create")
  /\ \E t \in Threads \ Rows :
       /\ thread' = [thread EXCEPT ![t] = ParticipantA(call[c].user)]
       /\ Become(c, IF call[c].first THEN [call[c] EXCEPT !.step = "insert", !.thread = t]
                                     ELSE Idle)
  /\ UNCHANGED <<messages, made, history>>

-----------------------------------------------------------------------------
(* sendMessage and sendAttachment *)

SendMessage(c, u, t) == t \in Rows /\ Begin(c, Slot("insert", u, t, FALSE, 0, "sent"))

\* The file goes to the media service first: when that fails there is no message.
SendAttachment(c, u, t) == t \in Rows /\ Begin(c, Slot("upload", u, t, FALSE, 0, "sent"))

Upload(c) ==
  /\ At(c, "upload")
  /\ Become(c, [call[c] EXCEPT !.step = "insert"])
  /\ UNCHANGED <<thread, messages, made, history>>

InsertMessage(c) ==
  /\ At(c, "insert")
  /\ Len(messages) < MaxMessages
  /\ messages' = Append(messages,
       [thread |-> call[c].thread, isRead |-> FALSE, note |-> "none", from |-> call[c].user,
        known |-> FALSE, pending |-> {}, handled |-> {}, strays |-> {}, log |-> "none"])
  /\ Become(c, [call[c] EXCEPT !.step = "notify", !.n = Len(messages) + 1])
  /\ UNCHANGED <<thread, made, history>>

\* After the broadcast: dispatch makes the recipient's notification, then mails.
Notify(c) ==
  LET n == call[c].n IN
  /\ At(c, "notify")
  /\ Set(n, [messages[n] EXCEPT !.note = "unread"])
  /\ Become(c, [call[c] EXCEPT !.step = "log"])
  /\ UNCHANGED <<thread, made, history>>

\* The log is best effort: a row that cannot be made is done without.
LogMail(c) ==
  LET n == call[c].n IN
  /\ At(c, "log")
  /\ Set(n, [messages[n] EXCEPT !.log = "QUEUED"]) \/ UNCHANGED messages
  /\ Become(c, [call[c] EXCEPT !.step = "mail"])
  /\ UNCHANGED <<thread, made, history>>

\* The provider accepts the mail, and starts to report on it at once ...
MailAccepted(c) ==
  LET n == call[c].n IN
  /\ At(c, "mail")
  /\ \E fate \in Fates : Set(n, [messages[n] EXCEPT !.pending = fate])
  /\ Become(c, [call[c] EXCEPT !.step = "record"])
  /\ UNCHANGED <<thread, made, history>>

\* ... or refuses it: the error is logged, then swallowed.
MailRefused(c) ==
  LET n == call[c].n IN
  /\ At(c, "mail")
  /\ IF messages[n].log = "none" THEN UNCHANGED messages
     ELSE Set(n, [messages[n] EXCEPT !.log = "FAILED"]) \/ UNCHANGED messages
  /\ Become(c, Idle)
  /\ UNCHANGED <<thread, made, history>>

\* SENT is written over whatever the row says, and the messageId with it.
RecordMail(c) ==
  LET n == call[c].n IN
  /\ At(c, "record")
  /\ \/ messages[n].log # "none" /\ Set(n, [messages[n] EXCEPT !.log = "SENT", !.known = TRUE])
     \/ UNCHANGED messages
  /\ Become(c, Idle)
  /\ UNCHANGED <<thread, made, history>>

-----------------------------------------------------------------------------
(* markRead, readAll, readOne *)

Received(n, u) == messages[n].from # u

MarkRead(c, u, t) == t \in Rows /\ Begin(c, Slot("read", u, t, FALSE, 0, "sent"))

\* Messages whose notification is not written yet are read apart from it.
MarkMessages(c) ==
  LET u == call[c].user
      mine == {n \in DOMAIN messages : Received(n, u) /\ messages[n].thread = call[c].thread}
  IN
  /\ At(c, "read")
  /\ messages' = [n \in DOMAIN messages |->
                    IF n \in mine THEN [messages[n] EXCEPT !.isRead = TRUE] ELSE messages[n]]
  /\ split' = split \cup {n \in mine : messages[n].note = "none" /\ ~messages[n].isRead}
  /\ Become(c, [call[c] EXCEPT !.step = "readNotes"])
  /\ UNCHANGED <<thread, made, forked, disordered>>

\* Mutant: the notifications marked are those of the user's own messages.
MarkNotesOfSender(c) ==
  LET mine == {n \in DOMAIN messages : ~Received(n, call[c].user) /\ messages[n].note = "unread"} IN
  /\ At(c, "readNotes")
  /\ messages' = [n \in DOMAIN messages |->
                    IF n \in mine THEN [messages[n] EXCEPT !.note = "read"] ELSE messages[n]]
  /\ Become(c, Idle)
  /\ UNCHANGED <<thread, made, history>>

\* Those that came in between are read apart from their message.
MarkNotes(c) ==
  LET u == call[c].user
      mine == {n \in DOMAIN messages : Received(n, u) /\ messages[n].thread = call[c].thread
                                       /\ messages[n].note = "unread"}
  IN
  /\ At(c, "readNotes")
  /\ messages' = [n \in DOMAIN messages |->
                    IF n \in mine THEN [messages[n] EXCEPT !.note = "read"] ELSE messages[n]]
  /\ Become(c, Idle)
  /\ UNCHANGED <<thread, made, history>>

ReadAll(c, u) == Begin(c, Slot("readAll", u, None, FALSE, 0, "sent"))

\* All the user's notifications, or the one that was pressed.
MarkAll(c) ==
  LET u == call[c].user
      unread == {n \in DOMAIN messages : Received(n, u) /\ messages[n].note = "unread"}
  IN
  /\ At(c, "readAll")
  /\ \E which \in {unread} \cup {{n} : n \in unread} :
       messages' = [n \in DOMAIN messages |->
                      IF n \in which THEN [messages[n] EXCEPT !.note = "read"] ELSE messages[n]]
  /\ Become(c, Idle)
  /\ UNCHANGED <<thread, made, history>>

-----------------------------------------------------------------------------
(* processResendWebhook: an event is delivered until it has been handled, in *)
(* any order.                                                                *)

\* Mutant: a bounce is one more event with no word of its own.
StatusOfDelivery(e) == CASE e = "sent" -> "SENT" [] e = "delivered" -> "DELIVERED" [] OTHER -> "QUEUED"

\* An event with no word of its own, an opened mail among them, says QUEUED.
StatusOf(e) ==
  CASE e = "sent" -> "SENT" [] e = "delivered" -> "DELIVERED"
    [] e = "bounced" -> "BOUNCED" [] OTHER -> "QUEUED"

Deliver(c, n, e) ==
  /\ e \in messages[n].pending
  /\ \A d \in Calls : ~(call[d].step \in {"hook", "stray"} /\ call[d].n = n /\ call[d].event = e)
  /\ Begin(c, Slot("hook", None, None, FALSE, n, e))

\* The rows with the messageId are updated.
UpdateLogs(c) ==
  LET n == call[c].n  e == call[c].event  m == messages[n] IN
  /\ At(c, "hook")
  /\ IF m.known \/ m.strays # {}
     THEN /\ Set(n, [m EXCEPT !.log = IF m.known THEN StatusOf(e) ELSE @,
                              !.strays = IF @ = {} THEN {} ELSE {StatusOf(e)},
                              !.pending = @ \ {e}, !.handled = @ \cup {e}])
          /\ Become(c, Idle)
     ELSE /\ Become(c, [call[c] EXCEPT !.step = "stray"])
          /\ UNCHANGED messages
  /\ disordered' = IF ~m.known \/ \E f \in m.handled : Place(f) > Place(e)
                   THEN disordered \cup {n} ELSE disordered
  /\ UNCHANGED <<thread, made, split, forked>>

\* There was none: a row is made for the event alone, if it can be.
InsertStray(c) ==
  LET n == call[c].n  e == call[c].event  m == messages[n] IN
  /\ At(c, "stray")
  /\ \E made0 \in {{}, {StatusOf(e)}} :
       Set(n, [m EXCEPT !.strays = @ \cup made0, !.pending = @ \ {e}, !.handled = @ \cup {e}])
  /\ Become(c, Idle)
  /\ UNCHANGED <<thread, made, history>>

\* A call throws.  In dispatch that is swallowed, and a webhook that fails is
\* sent again; a markRead that fails half way leaves the notifications unread.
Fail(c) ==
  /\ ~At(c, "idle")
  /\ Become(c, Idle)
  /\ split' = IF At(c, "readNotes")
              THEN split \cup {n \in DOMAIN messages : messages[n].thread = call[c].thread}
              ELSE split
  /\ UNCHANGED <<thread, messages, made, forked, disordered>>

Next ==
  \E c \in Calls :
    \/ \E u \in People :
         \/ \E first \in BOOLEAN : CreateThread(c, u, first)
         \/ \E t \in Threads : SendMessage(c, u, t) \/ SendAttachment(c, u, t) \/ MarkRead(c, u, t)
         \/ ReadAll(c, u)
    \/ FindThread(c) \/ FindNoThread(c) \/ InsertThread(c)
    \/ Upload(c) \/ InsertMessage(c) \/ Notify(c) \/ LogMail(c) \/ MailAccepted(c) \/ MailRefused(c) \/ RecordMail(c)
    \/ MarkMessages(c) \/ MarkNotes(c) \/ MarkAll(c)
    \/ \E n \in DOMAIN messages, e \in Event : Deliver(c, n, e)
    \/ UpdateLogs(c) \/ InsertStray(c)
    \/ Fail(c)

Spec == Init /\ [][Next]_vars

-----------------------------------------------------------------------------
(* Properties *)

\* Reading a thread reads its notifications: a message that is read and whose
\* notification is not was read while it was being announced, or by a markRead
\* that has not finished or failed half way.
ReadTogether ==
  \A n \in DOMAIN messages :
    messages[n].isRead /\ messages[n].note = "unread" =>
      \/ n \in split
      \/ \E c \in Calls : At(c, "readNotes") /\ call[c].thread = messages[n].thread

\* listThreads shows one thread per partner: the one with the newest message, a
\* thread without any counting from its updatedAt.  That time is not kept here, so
\* a thread is only sure to be shown where no empty one may hide it.
Consolidated ==
  LET messagesOf(t) == {n \in DOMAIN messages : messages[n].thread = t} IN
  {t \in Rows : \A other \in Rows \ {t} :
      /\ messagesOf(other) # {}
      /\ \A n \in messagesOf(other) : \E k \in messagesOf(t) : k > n}

\* Unless two calls created the thread of the same two users at once, every
\* unread message is in the thread its recipient's list shows, where it can be
\* opened and read; in a thread that is not shown it would be counted for ever.
UnreadIsReachable ==
  ~forked => \A n \in DOMAIN messages :
    ~messages[n].isRead => messages[n].thread \in Consolidated

\* The log says what the provider last reported, and says it once, if every
\* report came after the messageId was stored and in its order.
MailLogFollowsProvider ==
  \A n \in DOMAIN messages :
    LET m == messages[n] IN
    m.known /\ n \notin disordered =>
      /\ m.strays = {}
      /\ m.log = IF m.handled = {} THEN "SENT"
                 ELSE IF "opened" \in m.handled THEN "QUEUED"
                 ELSE IF "bounced" \in m.handled THEN "BOUNCED"
                 ELSE IF "delivered" \in m.handled THEN "DELIVERED" ELSE "SENT"
===============================================================================
