--------------------------- MODULE MessagingProofs ---------------------------
(***************************************************************************)
(* For any number of calls, messages and threads: a read message and its   *)
(* notification stay together, unread ones can be reached, and the mail    *)
(* log follows the provider.                                               *)
(***************************************************************************)
EXTENDS MessagingInvariant, ChatPage, FiniteSetTheorems, TLAPS

\* The slot that an action replaces, and all the slots that it does not.
LEMMA SlotEffect ==
  ASSUME call \in [Calls -> Call], NEW c \in Calls, NEW r \in Call, Become(c, r)
  PROVE  /\ call' \in [Calls -> Call]
         /\ call'[c] = r
         /\ \A other \in Calls \ {c} : call'[other] = call[other]
  BY DEF Become

\* What the types say of the messages and of a call.
LEMMA TypeFacts ==
  ASSUME TypeOK
  PROVE  /\ Len(messages) \in Nat /\ Len(messages) <= MaxMessages
         /\ DOMAIN messages = 1 .. Len(messages)
         /\ \A n \in DOMAIN messages : n \in Nat /\ messages[n] \in Message
         /\ \A c \in Calls : call[c] \in Call
         /\ MaxMessages \in Nat
  BY MessagingAssumption DEF TypeOK

\* Messages that are changed stay in their places.
LEMMA MapEffect ==
  ASSUME TypeOK, NEW ACTION f, f = [n \in DOMAIN messages |-> f[n]],
         \A n \in DOMAIN messages : f[n] \in Message
  PROVE  f \in Seq(Message) /\ Len(f) = Len(messages)
  <1>1. messages \in Seq(Message) /\ Len(messages) \in Nat /\ DOMAIN messages = 1 .. Len(messages)
    BY DEF TypeOK
  <1>2. f \in [1 .. Len(messages) -> Message]
    BY <1>1
  <1>3. QED
    BY <1>1, <1>2

\* One message is changed, the others are not.
LEMMA SetEffect ==
  ASSUME TypeOK, NEW n \in DOMAIN messages, NEW m \in Message, Set(n, m)
  PROVE  /\ messages' \in Seq(Message) /\ Len(messages') = Len(messages)
         /\ DOMAIN messages' = DOMAIN messages
         /\ messages'[n] = m
         /\ \A k \in DOMAIN messages \ {n} : messages'[k] = messages[k]
  <1>1. messages' = [k \in DOMAIN messages |-> IF k = n THEN m ELSE messages[k]]
    BY DEF Set
  <1>2. \A k \in DOMAIN messages : messages'[k] \in Message
    BY <1>1, TypeFacts
  <1>3. messages' \in Seq(Message) /\ Len(messages') = Len(messages)
    BY <1>1, <1>2, MapEffect
  <1>4. QED
    BY <1>1, <1>3

\* In the beginning there is nothing.
LEMMA InitEstablishesMInv ==
  ASSUME Init PROVE MInv
  <1>1. Idle \in Call /\ Idle.step = "idle"
    BY DEF Idle, Slot, Call, Step, Event
  <1>2. /\ thread = [t \in Threads |-> None] /\ messages = <<>> /\ made = 0
        /\ call = [c \in Calls |-> Idle]
        /\ split = {} /\ disordered = {} /\ forked = FALSE
    BY DEF Init
  <1>3. TypeOK
    <2>1. messages \in Seq(Message) /\ Len(messages) = 0
      BY <1>2
    <2>2. /\ thread \in [Threads -> People \cup {None}]
          /\ call \in [Calls -> Call]
      BY <1>1, <1>2
    <2>3. made \in 0 .. MaxCalls /\ Len(messages) <= MaxMessages
      BY <1>2, <2>1, MessagingAssumption
    <2>4. split \subseteq 1 .. MaxMessages /\ disordered \subseteq 1 .. MaxMessages /\ forked \in BOOLEAN
      BY <1>2
    <2>5. QED
      BY <2>1, <2>2, <2>3, <2>4 DEF TypeOK
  <1>4. DOMAIN messages = {} /\ Rows = {} /\ \A c \in Calls : call[c].step = "idle"
    BY <1>1, <1>2 DEF Rows
  <1>5. ThreadsExist /\ OneThread /\ MarksFollow
    BY <1>4 DEF ThreadsExist, OneThread, MarksFollow, At
  <1>6. OneAnnouncer /\ OneDelivery /\ ReportsAgree /\ MailLogFollowsProvider
    BY <1>4 DEF OneAnnouncer, Announcing, OneDelivery, Hooked, ReportsAgree, MailLogFollowsProvider
  <1>7. QED
    BY <1>3, <1>5, <1>6 DEF MInv

\* A call goes on, or begins or ends, and no row changes: it has of threads and
\* messages what its next step needs, and whoever leaves notifications unread says so.
LEMMA CallKeepsMInv ==
  ASSUME MInv, NEW c \in Calls, NEW r \in Call, Become(c, r), UNCHANGED <<thread, messages>>,
         made' \in 0 .. MaxCalls,
         split \subseteq split', split' \subseteq 1 .. MaxMessages,
         disordered \subseteq disordered', disordered' \subseteq 1 .. MaxMessages,
         forked' \in BOOLEAN, forked => forked',
         r.step \in {"find", "create", "upload", "insert"} => r.user \in People,
         r.step \in {"upload", "insert"} => r.thread \in Rows,
         r.step = "create" => Rows = {} /\ (forked' \/ \A d \in Calls : ~At(d, "create")),
         At(c, "readNotes") =>
           \A n \in DOMAIN messages : messages[n].thread = call[c].thread /\ messages[n].note = "unread" => n \in split',
         r.step \in Announcing => /\ call[c].step \in Announcing /\ r.n = call[c].n
                                  /\ r.step # "notify"
                                  /\ r.step # "record" => call[c].step \in {"notify", "log", "mail"},
         r.step \in {"hook", "stray"} =>
           /\ r.n \in DOMAIN messages
           /\ r.event \in messages[r.n].pending
           /\ \A d \in Calls \ {c} : Hooked(d) => call[d].n # r.n \/ call[d].event # r.event,
         r.step = "stray" => r.n \in disordered'
  PROVE  MInv'
  <1>1. /\ call' \in [Calls -> Call] /\ call'[c] = r
        /\ \A d \in Calls \ {c} : call'[d] = call[d]
    BY SlotEffect DEF MInv, TypeOK
  <1>2. TypeOK'
    BY <1>1 DEF MInv, TypeOK
  <1>3. ThreadsExist'
    <2>1. Rows' = Rows
      BY DEF Rows
    <2>2. QED
      BY <1>1, <2>1 DEF MInv, ThreadsExist, At
  <1>4. OneThread'
    BY <1>1 DEF MInv, OneThread, Rows, At
  <1>5. MarksFollow'
    <2>1. SUFFICES ASSUME NEW n \in DOMAIN messages, messages[n].isRead, n \notin split',
                          messages[n].note = "unread"
                   PROVE  \E d \in Calls : /\ call'[d].step = "readNotes"
                                           /\ call'[d].thread = messages[n].thread
                                           /\ call'[d].user # messages[n].from
      BY DEF MInv, MarksFollow, At
    <2>2. PICK d \in Calls : /\ call[d].step = "readNotes"
                             /\ call[d].thread = messages[n].thread
                             /\ call[d].user # messages[n].from
      BY <2>1 DEF MInv, MarksFollow, At
    <2>3. d # c
      BY <2>1, <2>2 DEF At
    <2>4. QED
      BY <1>1, <2>2, <2>3
  <1>6. OneAnnouncer'
    BY <1>1 DEF MInv, OneAnnouncer, Announcing, At
  <1>7. ReportsAgree'
    BY DEF MInv, ReportsAgree
  <1>8. OneDelivery'
    <2>1. SUFFICES ASSUME NEW d \in Calls, Hooked(d)'
                   PROVE  /\ call'[d].n \in DOMAIN messages
                          /\ call'[d].event \in messages[call'[d].n].pending
                          /\ call'[d].step = "stray" => call'[d].n \in disordered'
                          /\ \A e \in Calls \ {d} : Hooked(e)' =>
                               call'[e].n # call'[d].n \/ call'[e].event # call'[d].event
      BY DEF OneDelivery, At
    <2>2. \A e \in Calls \ {c} : Hooked(e)' <=> Hooked(e)
      BY <1>1 DEF Hooked
    <2>3. CASE d = c
      <3>1. r.step \in {"hook", "stray"}
        BY <1>1, <2>1, <2>3 DEF Hooked
      <3>2. QED
        BY <1>1, <2>2, <2>3, <3>1 DEF Hooked
    <2>4. CASE d # c
      <3>1. Hooked(d) /\ call'[d] = call[d]
        BY <1>1, <2>1, <2>2, <2>4
      <3>2. /\ call[d].n \in DOMAIN messages
            /\ call[d].event \in messages[call[d].n].pending
            /\ call[d].step = "stray" => call[d].n \in disordered'
            /\ \A e \in Calls \ {d} : Hooked(e) => call[e].n # call[d].n \/ call[e].event # call[d].event
        BY <3>1 DEF MInv, OneDelivery, At
      <3>3. Hooked(c)' => call[d].n # r.n \/ call[d].event # r.event
        BY <1>1, <2>4, <3>1 DEF Hooked
      <3>4. QED
        BY <1>1, <2>2, <2>4, <3>1, <3>2, <3>3
    <2>5. QED
      BY <2>3, <2>4
  <1>9. MailLogFollowsProvider'
    BY DEF MInv, MailLogFollowsProvider
  <1>10. QED
    BY <1>2, <1>3, <1>4, <1>5, <1>6, <1>7, <1>9, <1>8 DEF MInv

\* The call that announces a message changes it: notification, log, mail or messageId.
LEMMA AnnouncerKeepsMInv ==
  ASSUME MInv, NEW c \in Calls, call[c].step \in Announcing,
         NEW step \in {"log", "mail", "record", "idle"}, NEW r \in Call, NEW m \in Message,
         r.step = step, step # "idle" => r.n = call[c].n,
         Become(c, r), Set(call[c].n, m),
         UNCHANGED <<thread, made, history>>,
         LET old == messages[call[c].n] IN
           /\ m.thread = old.thread /\ m.isRead = old.isRead /\ m.from = old.from
           /\ m.handled = old.handled /\ m.strays = old.strays
           /\ m.note = IF At(c, "notify") THEN "unread" ELSE old.note
           /\ step # "idle" => ~m.known
           /\ step \in {"log", "mail"} => call[c].step \in {"notify", "log", "mail"} /\ m.pending = {}
           /\ m.pending # old.pending => At(c, "mail") /\ m.pending \in Fates
           /\ m.known => At(c, "record") /\ m.log = "SENT"
  PROVE  MInv'
  <1> DEFINE n == call[c].n
  <1>1. /\ call' \in [Calls -> Call] /\ call'[c] = r
        /\ \A d \in Calls \ {c} : call'[d] = call[d]
    BY SlotEffect DEF MInv, TypeOK
  <1>2. n \in DOMAIN messages /\ ~messages[n].known
        /\ (At(c, "notify") => messages[n].note = "none")
        /\ (~At(c, "record") => messages[n].pending = {} /\ messages[n].handled = {})
        /\ \A d \in Calls \ {c} : call[d].step \in Announcing => call[d].n # n
    BY DEF MInv, OneAnnouncer, Announcing, At
  <1>3. /\ messages' \in Seq(Message) /\ Len(messages') = Len(messages)
        /\ DOMAIN messages' = DOMAIN messages
        /\ messages'[n] = m
        /\ \A k \in DOMAIN messages \ {n} : messages'[k] = messages[k]
    BY <1>2, SetEffect DEF MInv
  <1>4. Rows' = Rows
    BY DEF Rows
  <1>5. TypeOK'
    BY <1>1, <1>3 DEF MInv, TypeOK, history
  <1>6. ThreadsExist'
    BY <1>1, <1>2, <1>3, <1>4 DEF MInv, ThreadsExist, At
  <1>7. OneThread'
    BY <1>1, <1>4 DEF MInv, OneThread, At, history
  <1>8. MarksFollow'
    BY <1>1, <1>2, <1>3 DEF MInv, MarksFollow, At, Announcing, history
  <1>9. OneAnnouncer'
    BY <1>1, <1>2, <1>3 DEF MInv, OneAnnouncer, At, Announcing
  <1>10. ReportsAgree'
    <2>1. /\ m.pending \cup m.handled = {} \/ m.pending \cup m.handled \in Fates
          /\ n \notin disordered => m.strays = {} /\ m.handled = {}
      <3>1. m.pending # messages[n].pending => m.handled = {} /\ m.pending \in Fates
        BY <1>2 DEF At
      <3>2. QED
        BY <1>2, <3>1 DEF MInv, ReportsAgree
    <2>2. QED
      BY <1>3, <2>1 DEF MInv, ReportsAgree, history
  <1>11. OneDelivery'
    <2>1. \A d \in Calls : Hooked(d)' => d # c /\ Hooked(d) /\ call'[d] = call[d]
      BY <1>1 DEF Hooked
    <2>2. \A d \in Calls : Hooked(d) => call[d].n \in DOMAIN messages /\ call[d].event \in messages[call[d].n].pending
      BY DEF MInv, OneDelivery
    <2>3. \A k \in DOMAIN messages : messages[k].pending # {} => messages'[k].pending = messages[k].pending
      BY <1>2, <1>3 DEF At
    <2>4. QED
      BY <1>3, <2>1, <2>2, <2>3 DEF MInv, OneDelivery, At, history
  <1>12. MailLogFollowsProvider'
    <2>1. m.known /\ n \notin disordered => m.handled = {} /\ m.strays = {} /\ m.log = "SENT"
      BY <1>2 DEF MInv, ReportsAgree
    <2>2. QED
      BY <1>3, <2>1 DEF MInv, MailLogFollowsProvider, history
  <1>13. QED
    BY <1>5, <1>6, <1>7, <1>8, <1>9, <1>10, <1>12, <1>11 DEF MInv

\* The statements of a send after its insert, each done or failing quietly.
LEMMA AnnounceKeepsMInv ==
  ASSUME MInv, NEW c \in Calls,
         Notify(c) \/ LogMail(c) \/ MailAccepted(c) \/ MailRefused(c) \/ RecordMail(c)
  PROVE  MInv'
  <1> DEFINE n == call[c].n
  <1>1. call[c] \in Call /\ Idle \in Call /\ Idle.step = "idle"
    BY TypeFacts DEF MInv, Idle, Slot, Call, Step, Event
  <1>2. call[c].step \in Announcing /\ UNCHANGED <<thread, made, history>>
    BY DEF Notify, LogMail, MailAccepted, MailRefused, RecordMail, At, Announcing
  <1>3. /\ n \in DOMAIN messages /\ messages[n] \in Message /\ ~messages[n].known
        /\ ~At(c, "record") => messages[n].pending = {}
    BY <1>2, TypeFacts DEF MInv, OneAnnouncer, Announcing, At
  <1>4. ASSUME NEW step \in {"log", "mail", "record"}
        PROVE  LET r == [call[c] EXCEPT !.step = step] IN
                 r \in Call /\ r.step = step /\ r.n = n
    BY <1>1 DEF Call, Step
  \* A statement that fails quietly lets the call go on.
  <1>5. ASSUME NEW step \in {"log", "mail", "record", "idle"}, NEW r \in Call, Become(c, r),
               r.step = step, step # "idle" => r.n = n, UNCHANGED messages,
               step \in {"log", "mail"} => call[c].step \in {"notify", "log", "mail"}
        PROVE  MInv'
    <2>1. /\ made \in 0 .. MaxCalls
          /\ split \subseteq 1 .. MaxMessages /\ disordered \subseteq 1 .. MaxMessages /\ forked \in BOOLEAN
      BY DEF MInv, TypeOK
    <2>2. call[c].step # "readNotes"
      BY <1>2 DEF Announcing
    <2>3. /\ r.step \notin {"find", "create", "upload", "insert", "hook", "stray", "notify"}
      BY <1>5
    <2>4. r.step \in Announcing =>
            /\ call[c].step \in Announcing /\ r.n = call[c].n
            /\ r.step # "record" => call[c].step \in {"notify", "log", "mail"}
      BY <1>2, <1>5 DEF Announcing
    <2>5. /\ made' \in 0 .. MaxCalls /\ UNCHANGED <<thread, messages>>
          /\ split \subseteq split' /\ split' \subseteq 1 .. MaxMessages
          /\ disordered \subseteq disordered' /\ disordered' \subseteq 1 .. MaxMessages
          /\ forked' \in BOOLEAN /\ (forked => forked')
      BY <1>2, <1>5, <2>1 DEF history
    <2>6. QED
      BY <1>5, <2>2, <2>3, <2>4, <2>5, CallKeepsMInv DEF At
  <1>6. CASE Notify(c)
    <2> DEFINE m == [messages[n] EXCEPT !.note = "unread"]
    <2>1. m \in Message /\ At(c, "notify") /\ messages[n].pending = {}
      BY <1>3, <1>6 DEF Message, Notify, At
    <2>2. QED
      BY <1>2, <1>3, <1>4, <1>6, <2>1, AnnouncerKeepsMInv DEF Notify, At, Message
  <1>7. CASE LogMail(c)
    <2> DEFINE m == [messages[n] EXCEPT !.log = "QUEUED"]
    <2>1. m \in Message /\ At(c, "log") /\ messages[n].pending = {}
      BY <1>3, <1>7 DEF Message, Status, LogMail, At
    <2>2. CASE Set(n, m)
      BY <1>2, <1>3, <1>4, <1>7, <2>1, <2>2, AnnouncerKeepsMInv DEF LogMail, At, Message
    <2>3. CASE UNCHANGED messages
      BY <1>4, <1>5, <1>7, <2>3 DEF LogMail, At
    <2>4. QED
      BY <1>7, <2>2, <2>3 DEF LogMail
  <1>8. CASE MailAccepted(c)
    <2>1. PICK fate \in Fates : Set(n, [messages[n] EXCEPT !.pending = fate])
      BY <1>8 DEF MailAccepted
    <2> DEFINE m == [messages[n] EXCEPT !.pending = fate]
    <2>2. m \in Message /\ At(c, "mail")
      BY <1>3, <1>8 DEF Message, Fates, Event, MailAccepted
    <2>3. QED
      BY <1>2, <1>3, <1>4, <1>8, <2>1, <2>2, AnnouncerKeepsMInv DEF MailAccepted, At, Message
  <1>9. CASE MailRefused(c)
    <2> DEFINE m == [messages[n] EXCEPT !.log = "FAILED"]
    <2>1. m \in Message /\ At(c, "mail")
      BY <1>3, <1>9 DEF Message, Status, MailRefused
    <2>2. CASE Set(n, m)
      BY <1>1, <1>2, <1>3, <1>9, <2>1, <2>2, AnnouncerKeepsMInv DEF MailRefused, At, Message
    <2>3. CASE UNCHANGED messages
      BY <1>1, <1>5, <1>9, <2>3 DEF MailRefused
    <2>4. QED
      BY <1>9, <2>2, <2>3 DEF MailRefused
  <1>10. CASE RecordMail(c)
    <2> DEFINE m == [messages[n] EXCEPT !.log = "SENT", !.known = TRUE]
    <2>1. m \in Message /\ At(c, "record")
      BY <1>3, <1>10 DEF Message, Status, RecordMail
    <2>2. CASE Set(n, m)
      BY <1>1, <1>2, <1>3, <1>10, <2>1, <2>2, AnnouncerKeepsMInv DEF RecordMail, At, Message
    <2>3. CASE UNCHANGED messages
      BY <1>1, <1>5, <1>10, <2>3 DEF RecordMail
    <2>4. QED
      BY <1>10, <2>2, <2>3 DEF RecordMail
  <1>11. QED
    BY <1>6, <1>7, <1>8, <1>9, <1>10

\* What marking leaves of the messages: all but whether they and their notifications
\* are read.
Marked ==
  /\ messages' \in Seq(Message) /\ Len(messages') = Len(messages)
  /\ DOMAIN messages' = DOMAIN messages
  /\ \A n \in DOMAIN messages :
       LET old == messages[n]  new == messages'[n] IN
       /\ new.thread = old.thread /\ new.from = old.from
       /\ new.known = old.known /\ new.log = old.log /\ new.strays = old.strays
       /\ new.pending = old.pending /\ new.handled = old.handled
       /\ new.note = "none" <=> old.note = "none"

LEMMA MarkedMessages ==
  ASSUME TypeOK, NEW S \in SUBSET DOMAIN messages,
         messages' = [n \in DOMAIN messages |->
                        IF n \in S THEN [messages[n] EXCEPT !.isRead = TRUE] ELSE messages[n]]
  PROVE  Marked
  <1>1. \A n \in DOMAIN messages : messages'[n] \in Message
    BY TypeFacts DEF Message
  <1>2. messages' \in Seq(Message) /\ Len(messages') = Len(messages)
    BY <1>1, MapEffect
  <1>3. QED
    BY <1>2, TypeFacts DEF Marked, Message

LEMMA MarkedNotes ==
  ASSUME TypeOK, NEW S \in SUBSET DOMAIN messages, \A n \in S : messages[n].note = "unread",
         messages' = [n \in DOMAIN messages |->
                        IF n \in S THEN [messages[n] EXCEPT !.note = "read"] ELSE messages[n]]
  PROVE  Marked
  <1>1. \A n \in DOMAIN messages : messages'[n] \in Message
    BY TypeFacts DEF Message
  <1>2. messages' \in Seq(Message) /\ Len(messages') = Len(messages)
    BY <1>1, MapEffect
  <1>3. QED
    BY <1>2, TypeFacts DEF Marked, Message

\* Of MInv only MarksFollow speaks of what is read.
LEMMA MarksKeepMInv ==
  ASSUME MInv, NEW c \in Calls, NEW r \in Call, Become(c, r),
         call[c].step \in {"read", "readNotes", "readAll"}, r.step \in {"readNotes", "idle"},
         Marked, UNCHANGED <<thread, made, forked, disordered>>, split' \subseteq 1 .. MaxMessages,
         MarksFollow'
  PROVE  MInv'
  <1>1. /\ call' \in [Calls -> Call] /\ call'[c] = r
        /\ \A d \in Calls \ {c} : call'[d] = call[d]
    BY SlotEffect DEF MInv, TypeOK
  <1>2. Rows' = Rows
    BY DEF Rows
  <1>3. TypeOK'
    BY <1>1 DEF MInv, TypeOK, Marked
  <1>4. ThreadsExist'
    BY <1>1, <1>2 DEF MInv, ThreadsExist, At, Marked
  <1>5. OneThread'
    BY <1>1, <1>2 DEF MInv, OneThread, At
  <1>6. OneAnnouncer'
    BY <1>1 DEF MInv, OneAnnouncer, At, Announcing, Marked
  <1>7. OneDelivery'
    BY <1>1 DEF MInv, OneDelivery, Hooked, At, Marked
  <1>8. ReportsAgree'
    BY DEF MInv, ReportsAgree, Marked
  <1>9. MailLogFollowsProvider'
    BY DEF MInv, MailLogFollowsProvider, Marked
  <1>10. QED
    BY <1>3, <1>4, <1>5, <1>6, <1>7, <1>8, <1>9 DEF MInv

\* markRead, first statement: the messages, and among them those not announced yet.
LEMMA MarkMessagesKeepsMInv ==
  ASSUME MInv, NEW c \in Calls, MarkMessages(c) PROVE MInv'
  <1> DEFINE u == call[c].user
             mine == {n \in DOMAIN messages : Received(n, u) /\ messages[n].thread = call[c].thread}
             r == [call[c] EXCEPT !.step = "readNotes"]
  <1>1. /\ call[c] \in Call /\ call[c].step = "read"
        /\ r \in Call /\ r.step = "readNotes" /\ r.thread = call[c].thread /\ r.user = u
    BY TypeFacts DEF MInv, MarkMessages, At, Call, Step
  <1>2. /\ messages' = [n \in DOMAIN messages |->
                          IF n \in mine THEN [messages[n] EXCEPT !.isRead = TRUE] ELSE messages[n]]
        /\ split' = split \cup {n \in mine : messages[n].note = "none" /\ ~messages[n].isRead}
        /\ Become(c, r) /\ UNCHANGED <<thread, made, forked, disordered>>
    BY DEF MarkMessages
  <1>3. Marked
    BY <1>2, MarkedMessages DEF MInv
  <1>4. split' \subseteq 1 .. MaxMessages
    BY <1>2, TypeFacts DEF MInv, TypeOK
  <1>5. /\ call'[c] = r
        /\ \A d \in Calls \ {c} : call'[d] = call[d]
    BY <1>1, <1>2, SlotEffect DEF MInv, TypeOK
  <1>6. MarksFollow'
    <2>1. SUFFICES ASSUME NEW n \in DOMAIN messages, messages'[n].isRead, n \notin split'
                   PROVE  /\ messages'[n].note # "none"
                          /\ messages'[n].note = "unread" =>
                               \E d \in Calls : /\ call'[d].step = "readNotes"
                                                /\ call'[d].thread = messages'[n].thread
                                                /\ call'[d].user # messages'[n].from
      BY <1>3 DEF MarksFollow, At, Marked
    <2>2. messages[n] \in Message
      BY TypeFacts DEF MInv
    <2>3. CASE n \in mine
      <3>1. messages'[n] = [messages[n] EXCEPT !.isRead = TRUE]
        BY <1>2, <2>3
      <3>2. /\ messages'[n].note = messages[n].note /\ messages'[n].thread = call[c].thread
            /\ messages'[n].from # u
        BY <2>2, <2>3, <3>1 DEF Message, Received
      <3>3. messages[n].note = "none" => messages[n].isRead /\ n \notin split
        BY <1>2, <2>1, <2>3
      <3>4. messages[n].note # "none"
        BY <3>3 DEF MInv, MarksFollow
      <3>5. QED
        BY <1>1, <1>5, <3>2, <3>4
    <2>4. CASE n \notin mine
      <3>1. messages'[n] = messages[n] /\ n \notin split
        BY <1>2, <2>1, <2>4
      <3>2. /\ messages[n].note # "none"
            /\ messages[n].note = "unread" =>
                 \E d \in Calls : /\ call[d].step = "readNotes" /\ call[d].thread = messages[n].thread
                                  /\ call[d].user # messages[n].from
        BY <2>1, <3>1 DEF MInv, MarksFollow, At
      <3>3. QED
        BY <1>1, <1>5, <3>1, <3>2
    <2>5. QED
      BY <2>3, <2>4
  <1>7. QED
    BY <1>1, <1>2, <1>3, <1>4, <1>6, MarksKeepMInv

\* markRead, second statement, and the two buttons of the notifications: some of the
\* user's notifications are read; a call that has marked messages ends with theirs.
LEMMA MarkNotesKeepsMInv ==
  ASSUME MInv, NEW c \in Calls, NEW S \in SUBSET DOMAIN messages,
         call[c].step \in {"readNotes", "readAll"},
         \A n \in S : messages[n].note = "unread",
         At(c, "readNotes") =>
           \A n \in DOMAIN messages :
             /\ messages[n].note = "unread" /\ messages[n].thread = call[c].thread
             /\ messages[n].from # call[c].user
             => n \in S,
         messages' = [n \in DOMAIN messages |->
                        IF n \in S THEN [messages[n] EXCEPT !.note = "read"] ELSE messages[n]],
         Become(c, Idle), UNCHANGED <<thread, made, history>>
  PROVE  MInv'
  <1>1. Idle \in Call /\ Idle.step = "idle"
    BY DEF Idle, Slot, Call, Step, Event
  <1>2. Marked
    BY MarkedNotes DEF MInv
  <1>3. split' \subseteq 1 .. MaxMessages
    BY DEF MInv, TypeOK, history
  <1>4. \A d \in Calls \ {c} : call'[d] = call[d]
    BY <1>1, SlotEffect DEF MInv, TypeOK
  <1>5. MarksFollow'
    <2>1. SUFFICES ASSUME NEW n \in DOMAIN messages, messages'[n].isRead, n \notin split
                   PROVE  /\ messages'[n].note # "none"
                          /\ messages'[n].note = "unread" =>
                               \E d \in Calls : /\ call'[d].step = "readNotes"
                                                /\ call'[d].thread = messages'[n].thread
                                                /\ call'[d].user # messages'[n].from
      BY <1>2 DEF MarksFollow, At, Marked, history
    <2>2. messages[n] \in Message
      BY TypeFacts DEF MInv
    <2>3. CASE n \in S
      <3>1. messages'[n] = [messages[n] EXCEPT !.note = "read"]
        BY <2>3
      <3>2. QED
        BY <2>2, <3>1 DEF Message
    <2>4. CASE n \notin S
      <3>1. messages'[n] = messages[n]
        BY <2>4
      <3>2. /\ messages[n].note # "none"
            /\ messages[n].note = "unread" =>
                 \E d \in Calls : /\ call[d].step = "readNotes" /\ call[d].thread = messages[n].thread
                                  /\ call[d].user # messages[n].from
        BY <2>1, <3>1 DEF MInv, MarksFollow, At
      <3>3. ASSUME messages[n].note = "unread", NEW d \in Calls, call[d].step = "readNotes",
                   call[d].thread = messages[n].thread, call[d].user # messages[n].from
            PROVE  d # c
        BY <2>4, <3>3 DEF At
      <3>4. QED
        BY <1>4, <3>1, <3>2, <3>3
    <2>5. QED
      BY <2>3, <2>4
  <1>6. QED
    BY <1>1, <1>2, <1>3, <1>5, MarksKeepMInv DEF history

LEMMA NotesKeepMInv ==
  ASSUME MInv, NEW c \in Calls, MarkNotes(c) \/ MarkAll(c) PROVE MInv'
  <1> DEFINE u == call[c].user
  <1>1. CASE MarkNotes(c)
    <2> DEFINE mine == {n \in DOMAIN messages : Received(n, u) /\ messages[n].thread = call[c].thread
                                                /\ messages[n].note = "unread"}
    <2>1. mine \in SUBSET DOMAIN messages
      OBVIOUS
    <2>2. /\ call[c].step = "readNotes"
          /\ messages' = [n \in DOMAIN messages |->
                            IF n \in mine THEN [messages[n] EXCEPT !.note = "read"] ELSE messages[n]]
          /\ Become(c, Idle) /\ UNCHANGED <<thread, made, history>>
      BY <1>1 DEF MarkNotes, At
    <2>3. QED
      BY <2>1, <2>2, MarkNotesKeepsMInv DEF Received
  <1>2. CASE MarkAll(c)
    <2> DEFINE unread == {n \in DOMAIN messages : Received(n, u) /\ messages[n].note = "unread"}
    <2>1. PICK which \in {unread} \cup {{n} : n \in unread} :
            messages' = [n \in DOMAIN messages |->
                           IF n \in which THEN [messages[n] EXCEPT !.note = "read"] ELSE messages[n]]
      BY <1>2 DEF MarkAll
    <2>2. which \in SUBSET DOMAIN messages /\ \A n \in which : messages[n].note = "unread"
      OBVIOUS
    <2>3. call[c].step = "readAll" /\ Become(c, Idle) /\ UNCHANGED <<thread, made, history>>
      BY <1>2 DEF MarkAll, At
    <2>4. QED
      BY <2>1, <2>2, <2>3, MarkNotesKeepsMInv DEF At
  <1>3. QED
    BY <1>1, <1>2

\* A report of the provider is handled: it was pending and the delivery ends.
LEMMA ReportKeepsMInv ==
  ASSUME MInv, NEW c \in Calls, Hooked(c), NEW m \in Message,
         Become(c, Idle), Set(call[c].n, m),
         UNCHANGED <<thread, made, split, forked>>,
         disordered \subseteq disordered', disordered' \subseteq 1 .. MaxMessages,
         LET old == messages[call[c].n]  e == call[c].event IN
           /\ m.thread = old.thread /\ m.isRead = old.isRead /\ m.from = old.from
           /\ m.note = old.note /\ m.known = old.known
           /\ m.pending = old.pending \ {e} /\ m.handled = old.handled \cup {e}
           /\ call[c].n \notin disordered' =>
                /\ old.known /\ m.strays = {} /\ m.log = StatusOf(e)
                /\ \A f \in old.handled : Place(f) <= Place(e)
  PROVE  MInv'
  <1> DEFINE n == call[c].n
             e == call[c].event
  <1>1. Idle \in Call /\ Idle.step = "idle"
    BY DEF Idle, Slot, Call, Step, Event
  <1>2. /\ call' \in [Calls -> Call] /\ call'[c] = Idle
        /\ \A d \in Calls \ {c} : call'[d] = call[d]
    BY <1>1, SlotEffect DEF MInv, TypeOK
  <1>3. /\ n \in DOMAIN messages /\ e \in messages[n].pending /\ e \in Event
        /\ \A d \in Calls \ {c} : Hooked(d) => call[d].n # n \/ call[d].event # e
    BY TypeFacts DEF MInv, OneDelivery, Call
  <1>4. /\ messages' \in Seq(Message) /\ Len(messages') = Len(messages)
        /\ DOMAIN messages' = DOMAIN messages
        /\ messages'[n] = m
        /\ \A k \in DOMAIN messages \ {n} : messages'[k] = messages[k]
    BY <1>3, SetEffect DEF MInv
  <1>5. Rows' = Rows
    BY DEF Rows
  <1>6. TypeOK'
    BY <1>2, <1>4 DEF MInv, TypeOK
  <1>7. ThreadsExist'
    BY <1>1, <1>2, <1>3, <1>4, <1>5 DEF MInv, ThreadsExist, At
  <1>8. OneThread'
    BY <1>1, <1>2, <1>5 DEF MInv, OneThread, At
  <1>9. MarksFollow'
    <2>1. call[c].step # "readNotes"
      BY DEF Hooked
    <2>2. QED
      BY <1>1, <1>2, <1>3, <1>4, <2>1 DEF MInv, MarksFollow, At
  <1>10. OneAnnouncer'
    \* While a message is being announced its mail has no report, or is being recorded.
    <2>1. ASSUME NEW d \in Calls, call[d].step \in Announcing, call[d].n = n
          PROVE  call[d].step = "record"
      BY <1>3, <2>1 DEF MInv, OneAnnouncer, Announcing
    <2>2. \A d \in Calls : call'[d].step \in Announcing => d # c /\ call'[d] = call[d]
      BY <1>1, <1>2 DEF Announcing
    <2>3. QED
      BY <1>2, <1>3, <1>4, <2>1, <2>2 DEF MInv, OneAnnouncer, At
  <1>11. OneDelivery'
    <2>1. \A d \in Calls : Hooked(d)' => d # c /\ Hooked(d) /\ call'[d] = call[d]
      BY <1>1, <1>2 DEF Hooked
    <2>2. ASSUME NEW d \in Calls, Hooked(d), d # c
          PROVE  /\ call[d].n \in DOMAIN messages
                 /\ call[d].event \in messages'[call[d].n].pending
      <3>1. call[d].n \in DOMAIN messages /\ call[d].event \in messages[call[d].n].pending
        BY <2>2 DEF MInv, OneDelivery
      <3>2. CASE call[d].n = n
        BY <1>3, <1>4, <2>2, <3>1, <3>2
      <3>3. CASE call[d].n # n
        BY <1>4, <3>1, <3>3
      <3>4. QED
        BY <3>2, <3>3
    <2>3. QED
      BY <1>4, <2>1, <2>2 DEF MInv, OneDelivery, At
  <1>12. m.pending \cup m.handled = messages[n].pending \cup messages[n].handled
    BY <1>3
  <1>13. ReportsAgree'
    <2>1. \A k \in DOMAIN messages \ {n} : messages'[k] = messages[k] /\ (k \notin disordered' => k \notin disordered)
      BY <1>4
    <2>2. /\ m.pending \cup m.handled = {} \/ m.pending \cup m.handled \in Fates
          /\ n \notin disordered' => m.strays = {} /\ m.known
      BY <1>3, <1>12 DEF MInv, ReportsAgree
    <2>3. SUFFICES ASSUME NEW k \in DOMAIN messages
                   PROVE  LET new == messages'[k] IN
                          /\ new.pending \cup new.handled = {} \/ new.pending \cup new.handled \in Fates
                          /\ k \notin disordered' => new.strays = {} /\ (~new.known => new.handled = {})
      BY <1>4 DEF ReportsAgree
    <2>4. CASE k = n
      BY <1>4, <2>2, <2>4
    <2>5. CASE k # n
      BY <2>1, <2>5 DEF MInv, ReportsAgree
    <2>6. QED
      BY <2>4, <2>5
  <1>14. MailLogFollowsProvider'
    <2>1. ASSUME n \notin disordered'
          PROVE  /\ m.handled # {} /\ m.strays = {}
                 /\ m.log = IF "opened" \in m.handled THEN "QUEUED"
                            ELSE IF "bounced" \in m.handled THEN "BOUNCED"
                            ELSE IF "delivered" \in m.handled THEN "DELIVERED" ELSE "SENT"
      <3>1. messages[n].pending \cup messages[n].handled \in Fates
        BY <1>3 DEF MInv, ReportsAgree
      <3>2. /\ m.handled = messages[n].handled \cup {e} /\ m.log = StatusOf(e) /\ m.strays = {}
            /\ \A f \in messages[n].handled : Place(f) <= Place(e)
        BY <2>1
      <3>3. messages[n].handled \subseteq {"sent", "delivered", "opened"} \/ messages[n].handled \subseteq {"sent", "bounced"}
        BY <3>1 DEF Fates
      <3>4. e = "bounced" => messages[n].handled \subseteq {"sent", "bounced"}
        BY <1>3, <3>1 DEF Fates
      <3>5. e # "bounced" /\ e # "sent" => messages[n].handled \subseteq {"sent", "delivered", "opened"}
        BY <1>3, <3>1 DEF Fates, Event
      <3>6. CASE e = "sent"
        <4>1. messages[n].handled \subseteq {"sent"}
          BY <3>2, <3>3, <3>6 DEF Place
        <4>2. QED
          BY <3>2, <3>6, <4>1 DEF StatusOf
      <3>7. CASE e = "delivered"
        <4>1. messages[n].handled \subseteq {"sent", "delivered"}
          BY <3>2, <3>5, <3>7 DEF Place
        <4>2. QED
          BY <3>2, <3>7, <4>1 DEF StatusOf
      <3>8. CASE e = "bounced"
        BY <3>2, <3>4, <3>8 DEF StatusOf
      <3>9. CASE e = "opened"
        BY <3>2, <3>5, <3>9 DEF StatusOf
      <3>10. QED
        BY <1>3, <3>6, <3>7, <3>8, <3>9 DEF Event
    <2>2. \A k \in DOMAIN messages \ {n} : messages'[k] = messages[k] /\ (k \notin disordered' => k \notin disordered)
      BY <1>4
    <2>3. QED
      BY <1>4, <2>1, <2>2 DEF MInv, MailLogFollowsProvider
  <1>15. QED
    BY <1>6, <1>7, <1>8, <1>9, <1>10, <1>11, <1>13, <1>14 DEF MInv

\* The webhook updates the rows of the mail, makes one if there is none, or finds
\* that it has to.
LEMMA WebhookKeepsMInv ==
  ASSUME MInv, NEW c \in Calls, UpdateLogs(c) \/ InsertStray(c) PROVE MInv'
  <1> DEFINE n == call[c].n
             e == call[c].event
             m == messages[n]
  <1>1. Hooked(c)
    BY DEF UpdateLogs, InsertStray, At, Hooked
  <1>2. /\ call[c] \in Call /\ n \in DOMAIN messages /\ m \in Message /\ n \in 1 .. MaxMessages
        /\ e \in m.pending /\ StatusOf(e) \in Status
        /\ \A d \in Calls \ {c} : Hooked(d) => call[d].n # n \/ call[d].event # e
    BY <1>1, TypeFacts DEF MInv, OneDelivery, StatusOf, Status
  <1>3. CASE UpdateLogs(c)
    <2>1. /\ disordered' = IF ~m.known \/ \E f \in m.handled : Place(f) > Place(e)
                           THEN disordered \cup {n} ELSE disordered
          /\ UNCHANGED <<thread, made, split, forked>>
          /\ At(c, "hook")
      BY <1>3 DEF UpdateLogs
    <2>2. disordered \subseteq disordered' /\ disordered' \subseteq 1 .. MaxMessages
      BY <1>2, <2>1 DEF MInv, TypeOK
    <2>3. CASE m.known \/ m.strays # {}
      <3> DEFINE new == [m EXCEPT !.log = IF m.known THEN StatusOf(e) ELSE @,
                                  !.strays = IF @ = {} THEN {} ELSE {StatusOf(e)},
                                  !.pending = @ \ {e}, !.handled = @ \cup {e}]
      <3>1. Set(n, new) /\ Become(c, Idle)
        BY <1>3, <2>3 DEF UpdateLogs
      <3>2. e \in Event
        BY <1>2 DEF Message
      <3>3. /\ new \in Message
            /\ new.thread = m.thread /\ new.isRead = m.isRead /\ new.from = m.from
            /\ new.note = m.note /\ new.known = m.known
            /\ new.pending = m.pending \ {e} /\ new.handled = m.handled \cup {e}
            /\ m.known => new.log = StatusOf(e)
            /\ m.strays = {} => new.strays = {}
        BY <1>2, <3>2 DEF Message
      <3>4. ASSUME n \notin disordered'
            PROVE  /\ m.known /\ m.strays = {}
                   /\ \A f \in m.handled : ~(Place(f) > Place(e))
        BY <1>2, <2>1, <3>4 DEF MInv, ReportsAgree
      <3>5. \A f \in Event : Place(f) \in Nat
        BY DEF Event, Place
      <3>6. ASSUME n \notin disordered', NEW f \in m.handled PROVE Place(f) <= Place(e)
        BY <1>2, <3>2, <3>4, <3>5, <3>6 DEF Message
      <3>7. QED
        BY <1>1, <2>1, <2>2, <3>1, <3>3, <3>4, <3>6, ReportKeepsMInv
    <2>4. CASE ~(m.known \/ m.strays # {})
      <3> DEFINE r == [call[c] EXCEPT !.step = "stray"]
      <3>1. Become(c, r) /\ UNCHANGED messages /\ n \in disordered'
        BY <1>3, <2>1, <2>4 DEF UpdateLogs
      <3>2. r \in Call /\ r.step = "stray" /\ r.n = n /\ r.event = e
        BY <1>2 DEF Call, Step
      <3>3. /\ made' \in 0 .. MaxCalls /\ UNCHANGED <<thread, messages>>
            /\ split \subseteq split' /\ split' \subseteq 1 .. MaxMessages
            /\ forked' \in BOOLEAN /\ (forked => forked')
        BY <2>1, <3>1 DEF MInv, TypeOK
      <3>4. r.step \notin Announcing
        BY <3>2 DEF Announcing
      <3>5. QED
        BY <1>2, <2>1, <2>2, <3>1, <3>2, <3>3, <3>4, CallKeepsMInv DEF At
    <2>5. QED
      BY <2>3, <2>4
  <1>4. CASE InsertStray(c)
    <2>1. PICK made0 \in {{}, {StatusOf(e)}} :
            Set(n, [m EXCEPT !.strays = @ \cup made0, !.pending = @ \ {e}, !.handled = @ \cup {e}])
      BY <1>4 DEF InsertStray
    <2> DEFINE new == [m EXCEPT !.strays = @ \cup made0, !.pending = @ \ {e}, !.handled = @ \cup {e}]
    <2>2. /\ At(c, "stray") /\ Become(c, Idle) /\ UNCHANGED <<thread, made, history>>
      BY <1>4 DEF InsertStray
    <2>3. /\ disordered' = disordered /\ n \in disordered' /\ disordered' \subseteq 1 .. MaxMessages
          /\ UNCHANGED <<thread, made, split, forked>>
      BY <1>1, <2>2 DEF MInv, OneDelivery, TypeOK, history
    <2>4. e \in Event
      BY <1>2 DEF Message
    <2>5. /\ new \in Message
          /\ new.thread = m.thread /\ new.isRead = m.isRead /\ new.from = m.from
          /\ new.note = m.note /\ new.known = m.known
          /\ new.pending = m.pending \ {e} /\ new.handled = m.handled \cup {e}
      BY <1>2, <2>4 DEF Message
    <2>6. QED
      BY <1>1, <2>1, <2>2, <2>3, <2>5, ReportKeepsMInv
  <1>5. QED
    BY <1>3, <1>4

\* A message is inserted last, unread, with everything about it still to come.
LEMMA InsertMessageKeepsMInv ==
  ASSUME MInv, NEW c \in Calls, InsertMessage(c) PROVE MInv'
  <1> DEFINE n == Len(messages) + 1
             m == [thread |-> call[c].thread, isRead |-> FALSE, note |-> "none", from |-> call[c].user,
                   known |-> FALSE, pending |-> {}, handled |-> {}, strays |-> {}, log |-> "none"]
             r == [call[c] EXCEPT !.step = "notify", !.n = n]
  <1>1. /\ call[c] \in Call /\ call[c].step = "insert"
        /\ messages' = Append(messages, m) /\ Len(messages) < MaxMessages
        /\ Become(c, r) /\ UNCHANGED <<thread, made, history>>
    BY TypeFacts DEF MInv, InsertMessage, At
  <1>2. call[c].thread \in Rows /\ call[c].user \in People
    BY <1>1 DEF MInv, ThreadsExist, At
  <1>3. m \in Message /\ Rows \subseteq Threads
    BY <1>2 DEF Message, Rows
  <1>4. Len(messages) \in Nat /\ DOMAIN messages = 1 .. Len(messages) /\ messages \in Seq(Message)
    BY TypeFacts DEF MInv, TypeOK
  <1>5. /\ messages' \in Seq(Message) /\ Len(messages') = n
        /\ DOMAIN messages' = DOMAIN messages \cup {n} /\ n \notin DOMAIN messages
        /\ messages'[n] = m
        /\ \A k \in DOMAIN messages : messages'[k] = messages[k]
    <2>1. messages' \in Seq(Message) /\ Len(messages') = n /\ DOMAIN messages' = 1 .. n
      BY <1>1, <1>3, <1>4
    <2>2. messages'[n] = m /\ \A k \in 1 .. Len(messages) : messages'[k] = messages[k]
      BY <1>1, <1>3, <1>4
    <2>3. 1 .. n = 1 .. Len(messages) \cup {n} /\ n \notin 1 .. Len(messages)
      BY <1>4
    <2>4. QED
      BY <1>4, <2>1, <2>2, <2>3
  <1>6. r \in Call /\ r.step = "notify" /\ r.n = n
    <2>1. \A k \in Nat : [call[c] EXCEPT !.step = "notify", !.n = k] \in Call
      BY <1>1 DEF Call, Step
    <2>2. n \in Nat
      BY <1>4
    <2>3. r \in Call
      BY <2>1, <2>2
    <2>4. r.step = "notify" /\ r.n = n
      BY <1>1 DEF Call
    <2>5. QED
      BY <2>3, <2>4
  <1>7. /\ call' \in [Calls -> Call] /\ call'[c] = r
        /\ \A d \in Calls \ {c} : call'[d] = call[d]
    BY <1>1, <1>6, SlotEffect DEF MInv, TypeOK
  <1>8. Rows' = Rows
    BY <1>1 DEF Rows
  <1>9. TypeOK'
    BY <1>1, <1>4, <1>5, <1>7, MessagingAssumption DEF MInv, TypeOK, history
  <1>10. ThreadsExist'
    <2>1. \A k \in DOMAIN messages' : messages'[k].thread \in Rows
      BY <1>2, <1>5 DEF MInv, ThreadsExist
    <2>2. QED
      BY <1>1, <1>6, <1>7, <1>8, <2>1 DEF MInv, ThreadsExist, At
  <1>11. OneThread'
    BY <1>1, <1>6, <1>7, <1>8 DEF MInv, OneThread, At, history
  <1>12. MarksFollow'
    <2>1. \A d \in Calls : call[d].step = "readNotes" => call'[d] = call[d]
      BY <1>1, <1>7
    <2>2. QED
      BY <1>1, <1>5, <2>1 DEF MInv, MarksFollow, At, history
  <1>13. OneAnnouncer'
    <2>1. \A d \in Calls \ {c} : call[d].step \in Announcing => call[d].n # n
      BY <1>5 DEF MInv, OneAnnouncer
    <2>2. SUFFICES ASSUME NEW d \in Calls, call'[d].step \in Announcing
                   PROVE  /\ call'[d].n \in DOMAIN messages'
                          /\ ~messages'[call'[d].n].known
                          /\ call'[d].step = "notify" => messages'[call'[d].n].note = "none"
                          /\ call'[d].step \in {"notify", "log", "mail"} =>
                               messages'[call'[d].n].pending = {} /\ messages'[call'[d].n].handled = {}
                          /\ \A e \in Calls \ {d} : call'[e].step \in Announcing => call'[e].n # call'[d].n
      BY DEF OneAnnouncer, At
    <2>3. CASE d = c
      <3>1. /\ ~messages'[n].known /\ messages'[n].note = "none"
            /\ messages'[n].pending = {} /\ messages'[n].handled = {} /\ n \in DOMAIN messages'
        BY <1>5
      <3>2. call'[d].n = n
        BY <1>6, <1>7, <2>3
      <3>3. \A e \in Calls \ {d} : call'[e].step \in Announcing => call'[e].n # n
        BY <1>7, <2>1, <2>3
      <3>4. QED
        BY <3>1, <3>2, <3>3
    <2>4. CASE d # c
      <3>1. call'[d] = call[d] /\ call[d].n \in DOMAIN messages /\ messages'[call[d].n] = messages[call[d].n]
        BY <1>5, <1>7, <2>2, <2>4 DEF MInv, OneAnnouncer
      <3>2. \A e \in Calls \ {d} : call'[e].step \in Announcing => call'[e].n # call[d].n
        <4>1. call'[c].n # call[d].n
          BY <1>6, <1>7, <2>1, <2>2, <2>4, <3>1
        <4>2. \A e \in Calls \ {c, d} : call[e].step \in Announcing => call[e].n # call[d].n
          BY <2>2, <3>1 DEF MInv, OneAnnouncer
        <4>3. QED
          BY <1>7, <4>1, <4>2
      <3>3. QED
        BY <1>5, <2>2, <3>1, <3>2 DEF MInv, OneAnnouncer, At
    <2>5. QED
      BY <2>3, <2>4
  <1>14. OneDelivery'
    <2>1. \A d \in Calls : Hooked(d)' => d # c /\ Hooked(d) /\ call'[d] = call[d]
      BY <1>6, <1>7 DEF Hooked
    <2>2. QED
      BY <1>1, <1>5, <2>1 DEF MInv, OneDelivery, At, history
  <1>15. ReportsAgree'
    BY <1>1, <1>5 DEF MInv, ReportsAgree, history
  <1>16. MailLogFollowsProvider'
    BY <1>1, <1>5 DEF MInv, MailLogFollowsProvider, history
  <1>17. QED
    BY <1>9, <1>10, <1>11, <1>12, <1>13, <1>14, <1>15, <1>16 DEF MInv

\* A thread is made for a pair that has none, unless two calls have seen that at once.
LEMMA InsertThreadKeepsMInv ==
  ASSUME MInv, NEW c \in Calls, InsertThread(c) PROVE MInv'
  <1>1. PICK t \in Threads \ Rows :
          /\ thread' = [thread EXCEPT ![t] = First]
          /\ Become(c, IF call[c].first THEN [call[c] EXCEPT !.step = "insert", !.thread = t] ELSE Idle)
    BY DEF InsertThread, ParticipantA
  <1> DEFINE r == IF call[c].first THEN [call[c] EXCEPT !.step = "insert", !.thread = t] ELSE Idle
  <1>2. /\ call[c] \in Call /\ call[c].step = "create" /\ UNCHANGED <<messages, made, history>>
        /\ Idle \in Call /\ Idle.step = "idle"
    BY TypeFacts DEF MInv, InsertThread, At, Idle, Slot, Call, Step, Event
  <1>3. /\ r \in Call /\ r.step \in {"insert", "idle"}
        /\ r.step = "insert" => r.thread = t /\ r.user = call[c].user
    BY <1>2 DEF Call, Step
  <1>4. /\ call' \in [Calls -> Call] /\ call'[c] = r
        /\ \A d \in Calls \ {c} : call'[d] = call[d]
    BY <1>1, <1>3, SlotEffect DEF MInv, TypeOK
  <1>5. /\ thread' \in [Threads -> People \cup {None}]
        /\ thread'[t] = First /\ \A s \in Threads \ {t} : thread'[s] = thread[s]
    BY <1>1, MessagingAssumption DEF MInv, TypeOK
  <1>6. Rows' = Rows \cup {t} /\ First # None
    BY <1>5, MessagingAssumption DEF Rows
  <1>7. TypeOK'
    BY <1>2, <1>4, <1>5 DEF MInv, TypeOK, history
  <1>8. ThreadsExist'
    <2>1. \A s \in Rows' : thread'[s] = First
      BY <1>5, <1>6 DEF MInv, ThreadsExist, Rows
    <2>2. call[c].user \in People
      BY <1>2 DEF MInv, ThreadsExist
    <2>3. ASSUME NEW d \in Calls
          PROVE  /\ call'[d].step \in {"upload", "insert"} => call'[d].thread \in Rows'
                 /\ call'[d].step \in {"find", "create", "upload", "insert"} => call'[d].user \in People
      BY <1>3, <1>4, <1>6, <2>2 DEF MInv, ThreadsExist, At
    <2>4. QED
      BY <1>2, <1>6, <2>1, <2>3 DEF MInv, ThreadsExist, At
  <1>9. OneThread'
    <2>1. SUFFICES ASSUME ~forked
                   PROVE  /\ \A s, u \in Rows' : s = u
                          /\ \A d \in Calls : call'[d].step # "create"
      BY <1>2 DEF OneThread, At, history
    <2>2. Rows = {} /\ \A d \in Calls \ {c} : call[d].step # "create"
      BY <1>2, <2>1 DEF MInv, OneThread, At
    <2>3. QED
      BY <1>3, <1>4, <1>6, <2>2
  <1>10. MarksFollow'
    BY <1>2, <1>3, <1>4 DEF MInv, MarksFollow, At, history
  <1>11. OneAnnouncer'
    <2>1. \A d \in Calls : call'[d].step \in Announcing => d # c /\ call'[d] = call[d]
      BY <1>3, <1>4 DEF Announcing
    <2>2. QED
      BY <1>2, <2>1 DEF MInv, OneAnnouncer, At
  <1>12. OneDelivery'
    BY <1>2, <1>3, <1>4 DEF MInv, OneDelivery, Hooked, At, history
  <1>13. ReportsAgree' /\ MailLogFollowsProvider'
    BY <1>2 DEF MInv, ReportsAgree, MailLogFollowsProvider, history
  <1>14. QED
    BY <1>7, <1>8, <1>9, <1>10, <1>11, <1>12, <1>13 DEF MInv

\* A request is made: a thread is looked for, a message or a mark begins, or a report
\* that nobody has in hand arrives.
LEMMA BeginKeepsMInv ==
  ASSUME MInv, NEW c \in Calls, NEW r \in Call, Begin(c, r),
         r.step \in {"find", "upload", "insert", "read", "readAll", "hook"},
         r.step \in {"find", "upload", "insert"} => r.user \in People,
         r.step \in {"upload", "insert"} => r.thread \in Rows,
         r.step = "hook" => /\ r.n \in DOMAIN messages /\ r.event \in messages[r.n].pending
                            /\ \A d \in Calls : Hooked(d) => call[d].n # r.n \/ call[d].event # r.event
  PROVE  MInv'
  <1>1. /\ call[c].step = "idle" /\ Become(c, r)
        /\ UNCHANGED <<thread, messages, history>>
        /\ made < MaxCalls /\ made' = made + 1
    BY DEF Begin, At
  <1>2. /\ made' \in 0 .. MaxCalls
        /\ split \subseteq split' /\ split' \subseteq 1 .. MaxMessages
        /\ disordered \subseteq disordered' /\ disordered' \subseteq 1 .. MaxMessages
        /\ forked' \in BOOLEAN /\ (forked => forked')
    BY <1>1, MessagingAssumption DEF MInv, TypeOK, history
  <1>3. r.step \notin Announcing /\ ~At(c, "readNotes")
    BY <1>1 DEF Announcing, At
  <1>4. QED
    BY <1>1, <1>2, <1>3, CallKeepsMInv

\* createThread, whatever it finds; and a call that throws.
LEMMA FindKeepsMInv ==
  ASSUME MInv, NEW c \in Calls, FindThread(c) \/ FindNoThread(c) PROVE MInv'
  <1>1. /\ call[c] \in Call /\ call[c].step = "find" /\ call[c].user \in People
        /\ Idle \in Call /\ Idle.step = "idle"
        /\ UNCHANGED <<thread, messages, made, split, disordered>>
    BY TypeFacts DEF MInv, ThreadsExist, FindThread, FindNoThread, At, Idle, Slot, Call, Step, Event, history
  <1>2. /\ made' \in 0 .. MaxCalls
        /\ split \subseteq split' /\ split' \subseteq 1 .. MaxMessages
        /\ disordered \subseteq disordered' /\ disordered' \subseteq 1 .. MaxMessages
    BY <1>1 DEF MInv, TypeOK
  <1>3. CASE FindThread(c)
    <2>1. PICK t \in Rows : Become(c, IF call[c].first THEN [call[c] EXCEPT !.step = "insert", !.thread = t]
                                                       ELSE Idle)
      BY <1>3 DEF FindThread
    <2> DEFINE r == IF call[c].first THEN [call[c] EXCEPT !.step = "insert", !.thread = t] ELSE Idle
    <2>2. /\ r \in Call /\ r.step \in {"insert", "idle"} /\ t \in Threads
          /\ r.step = "insert" => r.thread = t /\ r.user = call[c].user
      BY <1>1 DEF Call, Step, Rows
    <2>3. forked' \in BOOLEAN /\ (forked => forked')
      BY <1>3 DEF FindThread, history, MInv, TypeOK
    <2>4. QED
      BY <1>1, <1>2, <2>1, <2>2, <2>3, CallKeepsMInv DEF Announcing, At
  <1>4. CASE FindNoThread(c)
    <2> DEFINE r == [call[c] EXCEPT !.step = "create"]
    <2>1. /\ Become(c, r) /\ forked' = (forked \/ \E d \in Calls : At(d, "create"))
          /\ \A t \in Rows : thread[t] # First
      BY <1>4 DEF FindNoThread, ParticipantA
    <2>2. r \in Call /\ r.step = "create" /\ r.user = call[c].user
      BY <1>1 DEF Call, Step
    <2>3. Rows = {}
      BY <2>1 DEF MInv, ThreadsExist
    <2>4. /\ forked' \in BOOLEAN /\ (forked => forked')
          /\ forked' \/ \A d \in Calls : ~At(d, "create")
      BY <2>1 DEF MInv, TypeOK
    <2>5. r.step \notin Announcing /\ ~At(c, "readNotes")
      BY <1>1, <2>2 DEF Announcing, At
    <2>6. QED
      BY <1>1, <1>2, <2>1, <2>2, <2>3, <2>4, <2>5, CallKeepsMInv
  <1>5. QED
    BY <1>3, <1>4

LEMMA FailKeepsMInv ==
  ASSUME MInv, NEW c \in Calls, Fail(c) PROVE MInv'
  <1>1. /\ Idle \in Call /\ Idle.step = "idle" /\ Become(c, Idle)
        /\ UNCHANGED <<thread, messages, made, forked, disordered>>
        /\ split' = IF At(c, "readNotes")
                    THEN split \cup {n \in DOMAIN messages : messages[n].thread = call[c].thread}
                    ELSE split
    BY DEF Fail, Idle, Slot, Call, Step, Event
  <1>2. DOMAIN messages \subseteq 1 .. MaxMessages
    BY TypeFacts DEF MInv
  <1>3. /\ made' \in 0 .. MaxCalls
        /\ split \subseteq split' /\ split' \subseteq 1 .. MaxMessages
        /\ disordered \subseteq disordered' /\ disordered' \subseteq 1 .. MaxMessages
        /\ forked' \in BOOLEAN /\ (forked => forked')
    BY <1>1, <1>2 DEF MInv, TypeOK
  <1>4. Idle.step \notin Announcing
    BY <1>1 DEF Announcing
  <1>5. QED
    BY <1>1, <1>3, <1>4, CallKeepsMInv

LEMMA UploadKeepsMInv ==
  ASSUME MInv, NEW c \in Calls, Upload(c) PROVE MInv'
  <1> DEFINE r == [call[c] EXCEPT !.step = "insert"]
  <1>1. /\ call[c] \in Call /\ call[c].step = "upload"
        /\ call[c].user \in People /\ call[c].thread \in Rows
    BY TypeFacts DEF MInv, ThreadsExist, Upload, At
  <1>2. r \in Call /\ r.step = "insert" /\ r.user = call[c].user /\ r.thread = call[c].thread
    BY <1>1 DEF Call, Step
  <1>3. /\ Become(c, r) /\ UNCHANGED <<thread, messages, made, split, forked, disordered>>
        /\ ~At(c, "readNotes") /\ r.step \notin Announcing
    BY <1>1, <1>2 DEF Upload, history, At, Announcing
  <1>4. /\ made' \in 0 .. MaxCalls /\ split' \subseteq 1 .. MaxMessages
        /\ disordered' \subseteq 1 .. MaxMessages /\ forked' \in BOOLEAN
    BY <1>3 DEF MInv, TypeOK
  <1>5. QED
    BY <1>1, <1>2, <1>3, <1>4, CallKeepsMInv

-----------------------------------------------------------------------------
LEMMA NextKeepsMInv ==
  ASSUME MInv, [Next]_vars PROVE MInv'
  <1>1. CASE UNCHANGED vars
    <2>1. UNCHANGED <<thread, messages, made, call, split, forked, disordered>>
      BY <1>1 DEF vars, history
    <2>2. TypeOK' /\ ThreadsExist' /\ OneThread'
      BY <2>1 DEF MInv, TypeOK, ThreadsExist, OneThread, Rows, At
    <2>3. MarksFollow' /\ OneAnnouncer'
      BY <2>1 DEF MInv, MarksFollow, OneAnnouncer, At
    <2>4. OneDelivery' /\ ReportsAgree' /\ MailLogFollowsProvider'
      BY <2>1 DEF MInv, OneDelivery, Hooked, ReportsAgree, MailLogFollowsProvider, At
    <2>5. QED
      BY <2>2, <2>3, <2>4 DEF MInv
  <1>2. ASSUME NEW c \in Calls, NEW u \in People,
               \/ \E first \in BOOLEAN : CreateThread(c, u, first)
               \/ \E t \in Threads : SendMessage(c, u, t) \/ SendAttachment(c, u, t) \/ MarkRead(c, u, t)
               \/ ReadAll(c, u)
        PROVE  MInv'
    <2>1. ASSUME NEW first \in BOOLEAN, CreateThread(c, u, first) PROVE MInv'
      <3> DEFINE r == Slot("find", u, None, first, 0, "sent")
      <3>1. r \in Call /\ r.step = "find" /\ r.user = u
        BY DEF Slot, Call, Step, Event
      <3>2. QED
        BY <2>1, <3>1, BeginKeepsMInv DEF CreateThread
    <2>2. ASSUME NEW t \in Threads, SendMessage(c, u, t) \/ SendAttachment(c, u, t) PROVE MInv'
      <3>1. PICK step \in {"upload", "insert"} : t \in Rows /\ Begin(c, Slot(step, u, t, FALSE, 0, "sent"))
        BY <2>2 DEF SendMessage, SendAttachment
      <3> DEFINE r == Slot(step, u, t, FALSE, 0, "sent")
      <3>2. r \in Call /\ r.step = step /\ r.user = u /\ r.thread = t
        BY DEF Slot, Call, Step, Event
      <3>3. QED
        BY <3>1, <3>2, BeginKeepsMInv
    <2>3. ASSUME NEW t \in Threads, MarkRead(c, u, t) PROVE MInv'
      <3> DEFINE r == Slot("read", u, t, FALSE, 0, "sent")
      <3>1. r \in Call /\ r.step = "read"
        BY DEF Slot, Call, Step, Event
      <3>2. QED
        BY <2>3, <3>1, BeginKeepsMInv DEF MarkRead
    <2>4. CASE ReadAll(c, u)
      <3> DEFINE r == Slot("readAll", u, None, FALSE, 0, "sent")
      <3>1. r \in Call /\ r.step = "readAll"
        BY DEF Slot, Call, Step, Event
      <3>2. QED
        BY <2>4, <3>1, BeginKeepsMInv DEF ReadAll
    <2>5. QED
      BY <1>2, <2>1, <2>2, <2>3, <2>4
  <1>3. ASSUME NEW c \in Calls, NEW n \in DOMAIN messages, NEW e \in Event, Deliver(c, n, e)
        PROVE  MInv'
    <2> DEFINE r == Slot("hook", None, None, FALSE, n, e)
    <2>1. n \in Nat
      BY TypeFacts DEF MInv
    <2>2. r \in Call /\ r.step = "hook" /\ r.n = n /\ r.event = e
      BY <2>1 DEF Slot, Call, Step
    <2>3. /\ e \in messages[n].pending /\ Begin(c, r)
          /\ \A d \in Calls : Hooked(d) => call[d].n # n \/ call[d].event # e
      BY <1>3 DEF Deliver, Hooked
    <2>4. QED
      BY <2>2, <2>3, BeginKeepsMInv
  <1>4. ASSUME NEW c \in Calls,
               \/ FindThread(c) \/ FindNoThread(c) \/ InsertThread(c)
               \/ Upload(c) \/ InsertMessage(c)
               \/ Notify(c) \/ LogMail(c) \/ MailAccepted(c) \/ MailRefused(c) \/ RecordMail(c)
               \/ MarkMessages(c) \/ MarkNotes(c) \/ MarkAll(c)
               \/ UpdateLogs(c) \/ InsertStray(c) \/ Fail(c)
        PROVE  MInv'
    BY <1>4, FindKeepsMInv, InsertThreadKeepsMInv, UploadKeepsMInv, InsertMessageKeepsMInv, AnnounceKeepsMInv,
       MarkMessagesKeepsMInv, NotesKeepMInv, WebhookKeepsMInv, FailKeepsMInv
  <1>5. QED
    BY <1>1, <1>2, <1>3, <1>4 DEF Next

\* MInv is an invariant: what each call knows of threads and messages stays true
\* until it acts on it.
THEOREM MInvHolds ==
  Spec => []MInv
  <1>1. Init => MInv
    BY InitEstablishesMInv
  <1>2. MInv /\ [Next]_vars => MInv'
    BY NextKeepsMInv
  <1>3. QED
    BY <1>1, <1>2, PTL DEF Spec

\* A message that is read with its notification unread was read while it was being
\* announced, or by a markRead that has not finished or failed half way.
THEOREM NotificationsFollowMessages ==
  Spec => []ReadTogether
  <1>1. MInv => ReadTogether
    BY DEF MInv, MarksFollow, ReadTogether
  <1>2. QED
    BY <1>1, MInvHolds, PTL

\* Unless two calls created the thread of a pair at once, every unread message is in
\* the thread that its recipient's list shows.
THEOREM UnreadMessagesAreShown ==
  Spec => []UnreadIsReachable
  <1>1. ASSUME MInv PROVE UnreadIsReachable
    <2>1. SUFFICES ASSUME ~forked, NEW n \in DOMAIN messages
                   PROVE  messages[n].thread \in Consolidated
      BY DEF UnreadIsReachable
    <2>2. messages[n].thread \in Rows /\ \A s, t \in Rows : s = t
      BY <1>1, <2>1 DEF MInv, ThreadsExist, OneThread
    <2>3. \A k \in DOMAIN messages : k \in Nat
      BY <1>1, TypeFacts DEF MInv
    <2>4. QED
      BY <2>2, <2>3 DEF Consolidated
  <1>2. QED
    BY <1>1, MInvHolds, PTL

\* The log of a mail whose reports come after its messageId and in their order says
\* what was reported last.
THEOREM MailLogIsTrue ==
  Spec => []MailLogFollowsProvider
  <1>1. MInv => MailLogFollowsProvider
    BY DEF MInv
  <1>2. QED
    BY <1>1, MInvHolds, PTL

-----------------------------------------------------------------------------
\* The messages page.  What a request in flight promises: it has seen no more than
\* is stored, what was sent is stored, and all that a mark is about was shown or was
\* too old for the page.
RequestIsSound(r, msgs, known) ==
  /\ r.upto <= Len(msgs)
  /\ r.kind = "send" => r.thread \in MyThreads /\ (r.served => r.upto # 0)
  /\ r.kind = "mark" =>
       \A n \in 1 .. r.upto : msgs[n].thread = r.thread => n \in known
Known == seen \cup missed
WireIsSound == \A i \in 1 .. MaxRequests : RequestIsSound(requests[i], stored, Known)
ChatIInv == ChatTypeOK /\ WireIsSound /\ ReadWasShown

\* A request that the page makes is sound, whatever is stored.
LEMMA AskIsSound ==
  ASSUME NEW kind \in {"free", "open", "threads", "messages", "send"},
         NEW t \in MyThreads \cup {NoThread}, NEW mark \in BOOLEAN,
         kind = "send" => t \in MyThreads,
         NEW msgs \in Seq(ChatMessage), NEW known
  PROVE  MakeRequest(kind, t, mark) \in ChatRequest /\ RequestIsSound(MakeRequest(kind, t, mark), msgs, known)
  <1>1. Zero \in [MyThreads -> Nat]
    BY DEF Zero
  <1>2. Len(msgs) \in Nat
    OBVIOUS
  <1>3. QED
    BY <1>1, <1>2 DEF MakeRequest, ChatRequest, RequestIsSound

\* A request stays sound when messages are added or marked and more is shown.
LEMMA SoundStays ==
  ASSUME NEW r \in ChatRequest, NEW s \in Seq(ChatMessage), NEW t \in Seq(ChatMessage),
         NEW a, NEW b, RequestIsSound(r, s, a), Len(s) <= Len(t),
         \A n \in 1 .. Len(s) : t[n].thread = s[n].thread, a \subseteq b
  PROVE  RequestIsSound(r, t, b)
  <1>1. r.upto \in Nat /\ Len(s) \in Nat /\ Len(t) \in Nat
    BY DEF ChatRequest
  <1>2. r.upto <= Len(t)
    BY <1>1 DEF RequestIsSound
  <1>3. ASSUME r.kind = "mark", NEW n \in 1 .. r.upto, t[n].thread = r.thread
        PROVE  n \in b
    <2>1. n \in 1 .. Len(s)
      BY <1>1 DEF RequestIsSound
    <2>2. QED
      BY <1>3, <2>1 DEF RequestIsSound
  <1>4. QED
    BY <1>2, <1>3 DEF RequestIsSound

\* Putting a request on the wire changes at most one slot.
LEMMA PutEffect ==
  ASSUME NEW w \in [1 .. MaxRequests -> ChatRequest], NEW r \in ChatRequest
  PROVE  /\ Put(w, r) \in [1 .. MaxRequests -> ChatRequest]
         /\ \A i \in 1 .. MaxRequests : Put(w, r)[i] = w[i] \/ Put(w, r)[i] = r
  BY DEF Put

\* The wire after a step: each slot is as it was, or holds a sound request.
LEMMA WireStaysSound ==
  ASSUME ChatTypeOK, WireIsSound, stored' \in Seq(ChatMessage), Len(stored) <= Len(stored'),
         \A n \in 1 .. Len(stored) : stored'[n].thread = stored[n].thread, Known \subseteq Known',
         \A i \in 1 .. MaxRequests : requests'[i] = requests[i] \/ RequestIsSound(requests'[i], stored', Known')
  PROVE  WireIsSound'
  <1>1. SUFFICES ASSUME NEW i \in 1 .. MaxRequests PROVE RequestIsSound(requests'[i], stored', Known')
    BY DEF WireIsSound
  <1>2. CASE requests'[i] = requests[i]
    <2>1. requests[i] \in ChatRequest /\ stored \in Seq(ChatMessage) /\ RequestIsSound(requests[i], stored, Known)
      BY DEF ChatTypeOK, WireIsSound
    <2>2. RequestIsSound(requests[i], stored', Known')
      BY <2>1, SoundStays
    <2>3. QED
      BY <1>2, <2>2
  <1>3. QED
    BY <1>2

\* The wire after a step on which nothing is stored or shown.
LEMMA WireOnly ==
  ASSUME ChatIInv, UNCHANGED <<stored, shownMessages, seen, missed>>,
         requests' \in [1 .. MaxRequests -> ChatRequest],
         \A i \in 1 .. MaxRequests : requests'[i] = requests[i] \/ RequestIsSound(requests'[i], stored, Known),
         selected' \in MyThreads \cup {NoThread}, chatUrl' \in ChatUrls,
         goingTo' \in ChatUrls, list' \in [MyThreads -> Nat],
         selects' \in Nat, failures' \in Nat, selects' + failures' <= MaxTurns
  PROVE  ChatIInv'
  <1>1. ChatTypeOK'
    BY DEF ChatIInv, ChatTypeOK
  <1>2. Len(stored) \in Nat /\ stored \in Seq(ChatMessage)
    BY DEF ChatIInv, ChatTypeOK
  <1>3. \A i \in 1 .. MaxRequests : requests'[i] = requests[i] \/ RequestIsSound(requests'[i], stored', Known')
    BY DEF Known
  <1>4. WireIsSound'
    <2>1. stored' \in Seq(ChatMessage) /\ Len(stored) <= Len(stored') /\ Known \subseteq Known'
          /\ \A n \in 1 .. Len(stored) : stored'[n].thread = stored[n].thread
      BY <1>2 DEF Known
    <2>2. QED
      BY <2>1, <1>3, WireStaysSound DEF ChatIInv
  <1>5. ReadWasShown'
    BY DEF ChatIInv, ReadWasShown
  <1>6. QED
    BY <1>1, <1>4, <1>5 DEF ChatIInv

\* The open effect.
LEMMA SelectEffect ==
  ASSUME ChatTypeOK, NEW t \in MyThreads \cup {NoThread}, NEW w \in [1 .. MaxRequests -> ChatRequest],
         \A i \in 1 .. MaxRequests : w[i] = requests[i] \/ RequestIsSound(w[i], stored, Known),
         Select(t, w)
  PROVE  /\ selected' = t /\ requests' \in [1 .. MaxRequests -> ChatRequest]
         /\ \A i \in 1 .. MaxRequests : requests'[i] = requests[i] \/ RequestIsSound(requests'[i], stored, Known)
  <1>1. CASE t # selected /\ t # NoThread
    <2>1. PICK r : r = MakeRequest("messages", t, TRUE)
      OBVIOUS
    <2>2. r \in ChatRequest /\ RequestIsSound(r, stored, Known)
      BY <2>1, AskIsSound DEF ChatTypeOK
    <2>3. requests' = Put(w, r)
      BY <1>1, <2>1 DEF Select
    <2>4. QED
      BY <2>2, <2>3, PutEffect DEF Select
  <1>2. CASE ~ (t # selected /\ t # NoThread)
    BY <1>2 DEF Select
  <1>3. QED
    BY <1>1, <1>2

\* A request that the page puts on the wire.
LEMMA PutSound ==
  ASSUME ChatTypeOK, NEW w \in [1 .. MaxRequests -> ChatRequest],
         \A i \in 1 .. MaxRequests : w[i] = requests[i] \/ RequestIsSound(w[i], stored, Known),
         NEW kind \in {"threads", "messages", "send"}, NEW t \in MyThreads \cup {NoThread},
         kind = "send" => t \in MyThreads
  PROVE  /\ Put(w, MakeRequest(kind, t, FALSE)) \in [1 .. MaxRequests -> ChatRequest]
         /\ \A i \in 1 .. MaxRequests :
              \/ Put(w, MakeRequest(kind, t, FALSE))[i] = requests[i]
              \/ RequestIsSound(Put(w, MakeRequest(kind, t, FALSE))[i], stored, Known)
  <1>1. PICK r : r = MakeRequest(kind, t, FALSE)
    OBVIOUS
  <1>2. r \in ChatRequest /\ RequestIsSound(r, stored, Known)
    BY <1>1, AskIsSound DEF ChatTypeOK
  <1>3. QED
    BY <1>1, <1>2, PutEffect

\* A slot that is emptied.
LEMMA DoneSound ==
  ASSUME ChatTypeOK, NEW i \in 1 .. MaxRequests
  PROVE  /\ Done(i) \in [1 .. MaxRequests -> ChatRequest]
         /\ \A j \in 1 .. MaxRequests : Done(i)[j] = requests[j] \/ RequestIsSound(Done(i)[j], stored, Known)
  <1>1. PICK r : r = MakeRequest("free", NoThread, FALSE)
    OBVIOUS
  <1>2. r \in ChatRequest /\ RequestIsSound(r, stored, Known)
    BY <1>1, AskIsSound DEF ChatTypeOK
  <1>3. Done(i) = [requests EXCEPT ![i] = r]
    BY <1>1 DEF Done, Free
  <1>4. QED
    BY <1>2, <1>3 DEF ChatTypeOK

\* What the load effect asks for.
LEMMA LoadIsSound ==
  ASSUME NEW u \in ChatUrls, NEW msgs \in Seq(ChatMessage), NEW known
  PROVE  LoadEffect(u) \in ChatRequest /\ RequestIsSound(LoadEffect(u), msgs, known)
  <1>1. u.thread \in MyThreads \cup {NoThread} /\ u.recipient \in MyThreads \cup {NoThread}
    BY DEF ChatUrls
  <1>2. CASE u.recipient # NoThread
    <2>1. PICK a : a = MakeRequest("open", u.thread, FALSE)
      OBVIOUS
    <2>2. a \in ChatRequest /\ RequestIsSound(a, msgs, known) /\ a.kind = "open"
      BY <1>1, <2>1, AskIsSound DEF MakeRequest
    <2>3. PICK b : b = [a EXCEPT !.first = u.recipient]
      OBVIOUS
    <2>4. b \in ChatRequest /\ b.kind = "open" /\ b.upto = a.upto
      BY <1>1, <2>2, <2>3 DEF ChatRequest
    <2>5. LoadEffect(u) = b
      BY <1>2, <2>1, <2>3 DEF LoadEffect
    <2>6. QED
      BY <2>2, <2>4, <2>5 DEF RequestIsSound
  <1>3. CASE u.recipient = NoThread
    BY <1>1, <1>3, AskIsSound DEF LoadEffect
  <1>4. QED
    BY <1>2, <1>3

LEMMA ChatInitHolds ==
  ASSUME ChatInit
  PROVE  ChatIInv
  <1>1. PICK free : free = Free
    OBVIOUS
  <1>2. PICK ask : ask = LoadEffect(chatUrl)
    OBVIOUS
  <1>3. chatUrl \in ChatUrls /\ stored = <<>> /\ stored \in Seq(ChatMessage)
    BY DEF ChatInit
  <1>4. /\ free \in ChatRequest /\ RequestIsSound(free, stored, Known)
        /\ ask \in ChatRequest /\ RequestIsSound(ask, stored, Known)
    BY <1>1, <1>2, <1>3, AskIsSound, LoadIsSound DEF Free
  <1>5. requests = Put([i \in 1 .. MaxRequests |-> free], ask)
    BY <1>1, <1>2 DEF ChatInit
  <1>6. /\ requests \in [1 .. MaxRequests -> ChatRequest]
        /\ \A i \in 1 .. MaxRequests : requests[i] = free \/ requests[i] = ask
    BY <1>4, <1>5, PutEffect
  <1>7. WireIsSound
    BY <1>4, <1>6 DEF WireIsSound
  <1>8. shownMessages \in [fetched : SUBSET DOMAIN stored, sent : Seq(DOMAIN stored)]
    BY <1>3 DEF ChatInit, Fetched
  <1>9. list \in [MyThreads -> Nat]
    BY DEF ChatInit, Zero
  <1>10. selects \in Nat /\ failures \in Nat /\ selects + failures <= MaxTurns
    BY ChatPageAssumption DEF ChatInit
  <1>11. ChatTypeOK
    BY <1>3, <1>6, <1>8, <1>9, <1>10 DEF ChatInit, ChatTypeOK
  <1>12. ReadWasShown
    BY <1>3 DEF ReadWasShown
  <1>13. QED
    BY <1>7, <1>11, <1>12 DEF ChatIInv

LEMMA SyncStep ==
  ASSUME ChatIInv, Sync
  PROVE  ChatIInv'
  <1>1. ChatTypeOK /\ WireIsSound
    BY DEF ChatIInv
  <1>2. PICK w : w = Put(requests, MakeRequest("threads", chatUrl.thread, FALSE))
    OBVIOUS
  <1>3. /\ w \in [1 .. MaxRequests -> ChatRequest]
        /\ \A i \in 1 .. MaxRequests : w[i] = requests[i] \/ RequestIsSound(w[i], stored, Known)
    <2>1. /\ chatUrl.thread \in MyThreads \cup {NoThread}
          /\ requests \in [1 .. MaxRequests -> ChatRequest]
      BY <1>1 DEF ChatTypeOK, ChatUrls
    <2>2. QED
      BY <1>1, <1>2, <2>1, PutSound
  <1>4. /\ requests' \in [1 .. MaxRequests -> ChatRequest]
        /\ \A i \in 1 .. MaxRequests : requests'[i] = requests[i] \/ RequestIsSound(requests'[i], stored, Known)
    <2>1. CASE selected = NoThread
      BY <1>2, <1>3, <2>1 DEF Sync
    <2>2. CASE selected # NoThread
      <3>1. requests' = Put(w, MakeRequest("messages", selected, FALSE))
        BY <1>2, <2>2 DEF Sync
      <3>2. selected \in MyThreads \cup {NoThread}
        BY <1>1 DEF ChatTypeOK
      <3>3. QED
        BY <1>1, <1>3, <3>1, <3>2, PutSound
    <2>3. QED
      BY <2>1, <2>2
  <1>5. QED
    BY <1>1, <1>4, WireOnly DEF Sync, ChatTypeOK, chatPage, turns, chatHistory

LEMMA OnSelectThreadStep ==
  ASSUME ChatIInv, NEW t \in MyThreads, OnSelectThread(t)
  PROVE  ChatIInv'
  <1>1. ChatTypeOK
    BY DEF ChatIInv
  <1>2. requests \in [1 .. MaxRequests -> ChatRequest] /\ Select(t, requests)
    BY <1>1 DEF ChatTypeOK, OnSelectThread
  <1>3. /\ selected' = t /\ requests' \in [1 .. MaxRequests -> ChatRequest]
        /\ \A i \in 1 .. MaxRequests : requests'[i] = requests[i] \/ RequestIsSound(requests'[i], stored, Known)
    BY <1>1, <1>2, SelectEffect
  <1>4. selects' \in Nat /\ selects' + failures' <= MaxTurns /\ failures' = failures
    BY <1>1, ChatPageAssumption DEF ChatTypeOK, OnSelectThread
  <1>5. goingTo' \in ChatUrls
    BY <1>1 DEF ChatTypeOK, OnSelectThread, ChatUrl, ChatUrls
  <1>6. QED
    BY <1>1, <1>3, <1>4, <1>5, WireOnly DEF OnSelectThread, ChatTypeOK, chatHistory

LEMMA RouterNavigatesStep ==
  ASSUME ChatIInv, RouterNavigates
  PROVE  ChatIInv'
  <1>1. ChatTypeOK
    BY DEF ChatIInv
  <1>2. chatUrl' \in ChatUrls /\ requests \in [1 .. MaxRequests -> ChatRequest] /\ goingTo \in ChatUrls
    BY <1>1 DEF RouterNavigates, ChatTypeOK
  <1>3. PICK r : r = LoadEffect(goingTo)
    OBVIOUS
  <1>4. r \in ChatRequest /\ RequestIsSound(r, stored, Known)
    BY <1>1, <1>2, <1>3, LoadIsSound DEF ChatTypeOK
  <1>5. requests' = Put(requests, r)
    BY <1>3 DEF RouterNavigates
  <1>6. /\ requests' \in [1 .. MaxRequests -> ChatRequest]
        /\ \A i \in 1 .. MaxRequests :
             requests'[i] = requests[i] \/ RequestIsSound(requests'[i], stored, Known)
    BY <1>2, <1>4, <1>5, PutEffect
  <1>7. QED
    BY <1>1, <1>2, <1>6, WireOnly DEF RouterNavigates, ChatTypeOK, turns, chatHistory

LEMMA OnSendStep ==
  ASSUME ChatIInv, OnSend
  PROVE  ChatIInv'
  <1>1. ChatTypeOK
    BY DEF ChatIInv
  <1>2. selected \in MyThreads /\ requests \in [1 .. MaxRequests -> ChatRequest]
    BY <1>1 DEF OnSend, ChatTypeOK
  <1>3. requests' = Put(requests, MakeRequest("send", selected, FALSE))
    BY DEF OnSend
  <1>4. /\ requests' \in [1 .. MaxRequests -> ChatRequest]
        /\ \A i \in 1 .. MaxRequests : requests'[i] = requests[i] \/ RequestIsSound(requests'[i], stored, Known)
    BY <1>1, <1>2, <1>3, PutSound
  <1>5. QED
    BY <1>1, <1>4, WireOnly DEF OnSend, ChatTypeOK, chatPage, turns, chatHistory

LEMMA LoseStep ==
  ASSUME ChatIInv, NEW i \in 1 .. MaxRequests, Lose(i)
  PROVE  ChatIInv'
  <1>1. ChatTypeOK /\ requests' = Done(i)
    BY DEF ChatIInv, Lose
  <1>2. /\ requests' \in [1 .. MaxRequests -> ChatRequest]
        /\ \A j \in 1 .. MaxRequests : requests'[j] = requests[j] \/ RequestIsSound(requests'[j], stored, Known)
    BY <1>1, DoneSound
  <1>3. failures' \in Nat /\ selects + failures' <= MaxTurns /\ selects' = selects
    BY <1>1, ChatPageAssumption DEF ChatTypeOK, Lose
  <1>4. QED
    BY <1>1, <1>2, <1>3, WireOnly DEF Lose, ChatTypeOK, chatPage, chatHistory

LEMMA ReceiveOpenStep ==
  ASSUME ChatIInv, NEW i \in 1 .. MaxRequests, ReceiveOpen(i)
  PROVE  ChatIInv'
  <1>1. ChatTypeOK
    BY DEF ChatIInv
  <1>2. requests[i] \in ChatRequest
    BY <1>1 DEF ChatTypeOK
  <1>3. PICK t : t = requests[i].first
    OBVIOUS
  <1>4. PICK q : q = requests[i].thread
    OBVIOUS
  <1>5. t \in MyThreads \cup {NoThread} /\ q \in MyThreads \cup {NoThread}
    BY <1>2, <1>3, <1>4 DEF ChatRequest
  <1>6. PICK v : v = Done(i)
    OBVIOUS
  <1>7. /\ v \in [1 .. MaxRequests -> ChatRequest]
        /\ \A j \in 1 .. MaxRequests : v[j] = requests[j] \/ RequestIsSound(v[j], stored, Known)
    BY <1>1, <1>6, DoneSound
  <1>8. PICK w : w = Put(v, MakeRequest("threads", q, FALSE))
    OBVIOUS
  <1>9. /\ w \in [1 .. MaxRequests -> ChatRequest]
        /\ \A j \in 1 .. MaxRequests : w[j] = requests[j] \/ RequestIsSound(w[j], stored, Known)
    BY <1>1, <1>5, <1>7, <1>8, PutSound
  <1>10. Select(t, w)
    BY <1>3, <1>4, <1>6, <1>8 DEF ReceiveOpen
  <1>11. /\ selected' = t /\ requests' \in [1 .. MaxRequests -> ChatRequest]
         /\ \A j \in 1 .. MaxRequests :
              requests'[j] = requests[j] \/ RequestIsSound(requests'[j], stored, Known)
    BY <1>1, <1>5, <1>9, <1>10, SelectEffect
  <1>12. goingTo' \in ChatUrls
    BY <1>3, <1>5 DEF ReceiveOpen, ChatUrl, ChatUrls
  <1>13. QED
    BY <1>1, <1>5, <1>11, <1>12, WireOnly DEF ReceiveOpen, ChatTypeOK, turns, chatHistory

LEMMA ReceiveThreadsStep ==
  ASSUME ChatIInv, NEW i \in 1 .. MaxRequests, ReceiveThreads(i)
  PROVE  ChatIInv'
  <1>1. ChatTypeOK
    BY DEF ChatIInv
  <1>2. PICK t : t = IF requests[i].thread # NoThread THEN requests[i].thread
                     ELSE IF selected # NoThread THEN selected ELSE requests[i].first
    OBVIOUS
  <1>3. requests[i] \in ChatRequest
    BY <1>1 DEF ChatTypeOK
  <1>4. t \in MyThreads \cup {NoThread}
    BY <1>1, <1>2, <1>3 DEF ChatTypeOK, ChatRequest
  <1>5. PICK w : w = Done(i)
    OBVIOUS
  <1>6. /\ w \in [1 .. MaxRequests -> ChatRequest]
        /\ \A j \in 1 .. MaxRequests : w[j] = requests[j] \/ RequestIsSound(w[j], stored, Known)
    BY <1>1, <1>5, DoneSound
  <1>7. Select(t, w)
    BY <1>2, <1>5 DEF ReceiveThreads
  <1>8. /\ selected' = t /\ requests' \in [1 .. MaxRequests -> ChatRequest]
        /\ \A j \in 1 .. MaxRequests : requests'[j] = requests[j] \/ RequestIsSound(requests'[j], stored, Known)
    BY <1>1, <1>4, <1>6, <1>7, SelectEffect
  <1>9. list' \in [MyThreads -> Nat]
    BY <1>3 DEF ReceiveThreads, ChatRequest
  <1>10. QED
    BY <1>1, <1>4, <1>8, <1>9, WireOnly DEF ReceiveThreads, ChatTypeOK, turns, chatHistory

LEMMA ReceiveMarkStep ==
  ASSUME ChatIInv, NEW i \in 1 .. MaxRequests, ReceiveMark(i)
  PROVE  ChatIInv'
  <1>1. ChatTypeOK /\ requests' = Done(i)
    BY DEF ChatIInv, ReceiveMark
  <1>2. /\ requests' \in [1 .. MaxRequests -> ChatRequest]
        /\ \A j \in 1 .. MaxRequests : requests'[j] = requests[j] \/ RequestIsSound(requests'[j], stored, Known)
    BY <1>1, DoneSound
  <1>3. list' \in [MyThreads -> Nat]
    BY <1>1 DEF ChatTypeOK, ReceiveMark
  <1>4. QED
    BY <1>1, <1>2, <1>3, WireOnly DEF ReceiveMark, ChatTypeOK, turns, chatHistory

\* Where nothing is stored, what the server answers is sound.
LEMMA AnswerSound ==
  ASSUME ChatTypeOK, WireIsSound, stored' \in Seq(ChatMessage), Len(stored) <= Len(stored'),
         NEW i \in 1 .. MaxRequests, NEW r \in ChatRequest, NEW n \in 0 .. Len(stored'),
         r.kind # "mark", r.kind = "send" => r.thread \in MyThreads /\ n # 0,
         AnswerWith(i, r, n)
  PROVE  /\ requests' \in [1 .. MaxRequests -> ChatRequest]
         /\ \A j \in 1 .. MaxRequests : requests'[j] = requests[j] \/ RequestIsSound(requests'[j], stored', Known)
  <1>1. PICK a : a = [r EXCEPT !.served = TRUE, !.upto = n]
    OBVIOUS
  <1>2. Len(stored') \in Nat /\ n \in Nat /\ n <= Len(stored')
    OBVIOUS
  <1>3. a \in ChatRequest /\ a.kind = r.kind /\ a.thread = r.thread /\ a.upto = n
    BY <1>1, <1>2 DEF ChatRequest
  <1>4. RequestIsSound(a, stored', Known)
    BY <1>2, <1>3 DEF RequestIsSound
  <1>5. requests' = [requests EXCEPT ![i] = a]
    BY <1>1 DEF AnswerWith
  <1>6. QED
    BY <1>3, <1>4, <1>5 DEF ChatTypeOK

\* What a thread has unread is a number.
LEMMA UnreadIsNat ==
  ASSUME ChatTypeOK, NEW t \in MyThreads
  PROVE  Unread(t) \in Nat
  <1>1. DOMAIN stored = 1 .. Len(stored) /\ Len(stored) \in Nat
    BY DEF ChatTypeOK
  <1>2. IsFiniteSet(DOMAIN stored)
    BY <1>1, FS_Interval
  <1>3. QED
    BY <1>2, FS_Subset, FS_CardinalityType DEF Unread

LEMMA ServeOpenStep ==
  ASSUME ChatIInv, NEW i \in 1 .. MaxRequests, ServeOpen(i)
  PROVE  ChatIInv'
  <1>1. ChatTypeOK /\ WireIsSound /\ stored' = stored
    BY DEF ChatIInv, ServeOpen
  <1>2. requests[i] \in ChatRequest /\ stored \in Seq(ChatMessage) /\ Len(stored) \in Nat
    BY <1>1 DEF ChatTypeOK
  <1>3. requests[i].kind = "open"
    BY DEF ServeOpen, Waiting
  <1>4. PICK r : r = requests[i]
    OBVIOUS
  <1>5. AnswerWith(i, r, 0) /\ 0 \in 0 .. Len(stored')
    BY <1>1, <1>2, <1>4 DEF ServeOpen
  <1>6. /\ requests' \in [1 .. MaxRequests -> ChatRequest]
        /\ \A j \in 1 .. MaxRequests :
             requests'[j] = requests[j] \/ RequestIsSound(requests'[j], stored, Known)
    BY <1>1, <1>2, <1>3, <1>4, <1>5, AnswerSound
  <1>7. QED
    BY <1>1, <1>6, WireOnly DEF ServeOpen, ChatTypeOK, chatPage, turns, chatHistory

LEMMA ServeThreadsStep ==
  ASSUME ChatIInv, NEW i \in 1 .. MaxRequests, ServeThreads(i)
  PROVE  ChatIInv'
  <1>1. ChatTypeOK /\ WireIsSound /\ stored' = stored
    BY DEF ChatIInv, ServeThreads
  <1>2. requests[i] \in ChatRequest /\ requests[i].kind = "threads" /\ stored \in Seq(ChatMessage)
        /\ Len(stored) \in Nat
    BY <1>1 DEF ChatTypeOK, ServeThreads, Waiting
  <1>3. PICK top \in MyThreads :
          AnswerWith(i, [requests[i] EXCEPT !.unread = [t \in MyThreads |-> Unread(t)], !.first = top], 0)
    BY DEF ServeThreads
  <1>4. PICK u : u = [t \in MyThreads |-> Unread(t)]
    OBVIOUS
  <1>5. u \in [MyThreads -> Nat]
    BY <1>1, <1>4, UnreadIsNat
  <1>6. PICK r : r = [requests[i] EXCEPT !.unread = u, !.first = top]
    OBVIOUS
  <1>7. r \in ChatRequest /\ r.kind = "threads"
    BY <1>2, <1>5, <1>6 DEF ChatRequest
  <1>8. AnswerWith(i, r, 0) /\ 0 \in 0 .. Len(stored')
    BY <1>1, <1>2, <1>3, <1>4, <1>6
  <1>9. /\ requests' \in [1 .. MaxRequests -> ChatRequest]
        /\ \A j \in 1 .. MaxRequests : requests'[j] = requests[j] \/ RequestIsSound(requests'[j], stored, Known)
    BY <1>1, <1>2, <1>7, <1>8, AnswerSound
  <1>10. QED
    BY <1>1, <1>9, WireOnly DEF ServeThreads, ChatTypeOK, chatPage, turns, chatHistory

LEMMA ServeMessagesStep ==
  ASSUME ChatIInv, NEW i \in 1 .. MaxRequests, ServeMessages(i)
  PROVE  ChatIInv'
  <1>1. ChatTypeOK /\ WireIsSound /\ stored' = stored
    BY DEF ChatIInv, ServeMessages
  <1>2. requests[i] \in ChatRequest /\ requests[i].kind = "messages" /\ stored \in Seq(ChatMessage)
        /\ Len(stored) \in Nat
    BY <1>1 DEF ChatTypeOK, ServeMessages, Waiting
  <1>3. PICK r : r = requests[i]
    OBVIOUS
  <1>4. AnswerWith(i, r, Len(stored')) /\ Len(stored') \in 0 .. Len(stored')
    BY <1>1, <1>2, <1>3 DEF ServeMessages
  <1>5. /\ requests' \in [1 .. MaxRequests -> ChatRequest]
        /\ \A j \in 1 .. MaxRequests : requests'[j] = requests[j] \/ RequestIsSound(requests'[j], stored, Known)
    BY <1>1, <1>2, <1>3, <1>4, AnswerSound
  <1>6. QED
    BY <1>1, <1>5, WireOnly DEF ServeMessages, ChatTypeOK, chatPage, turns, chatHistory

\* What the page shows stays typed when a message is stored.
LEMMA Appended ==
  ASSUME ChatTypeOK, NEW m \in ChatMessage, stored' = Append(stored, m)
  PROVE  /\ stored' \in Seq(ChatMessage) /\ Len(stored') = Len(stored) + 1 /\ Len(stored) \in Nat
         /\ \A n \in 1 .. Len(stored) : stored'[n] = stored[n]
         /\ stored'[Len(stored) + 1] = m
         /\ DOMAIN stored = 1 .. Len(stored) /\ DOMAIN stored' = 1 .. (Len(stored) + 1)
         /\ shownMessages \in [fetched : SUBSET DOMAIN stored', sent : Seq(DOMAIN stored')]
         /\ seen \in SUBSET DOMAIN stored' /\ missed \in SUBSET DOMAIN stored'
  <1>1. /\ stored' \in Seq(ChatMessage) /\ Len(stored') = Len(stored) + 1 /\ Len(stored) \in Nat
        /\ \A n \in 1 .. Len(stored) : stored'[n] = stored[n]
        /\ stored'[Len(stored) + 1] = m
    BY DEF ChatTypeOK
  <1>2. DOMAIN stored = 1 .. Len(stored) /\ DOMAIN stored' = 1 .. Len(stored')
    BY <1>1 DEF ChatTypeOK
  <1>3. DOMAIN stored \subseteq DOMAIN stored'
    BY <1>1, <1>2
  <1>4. shownMessages.fetched \subseteq DOMAIN stored' /\ shownMessages.sent \in Seq(DOMAIN stored')
    BY <1>3 DEF ChatTypeOK
  <1>5. shownMessages \in [fetched : SUBSET DOMAIN stored', sent : Seq(DOMAIN stored')]
    BY <1>4 DEF ChatTypeOK
  <1>6. QED
    BY <1>1, <1>2, <1>3, <1>5 DEF ChatTypeOK

\* The state after a message is stored, unread.
LEMMA StoreEffect ==
  ASSUME ChatIInv, NEW m \in ChatMessage, ~ m.isRead, stored' = Append(stored, m),
         requests' \in [1 .. MaxRequests -> ChatRequest],
         \A i \in 1 .. MaxRequests : requests'[i] = requests[i] \/ RequestIsSound(requests'[i], stored', Known),
         UNCHANGED <<chatPage, turns, chatHistory>>
  PROVE  ChatIInv'
  <1>1. ChatTypeOK /\ WireIsSound /\ ReadWasShown
    BY DEF ChatIInv
  <1>2. /\ stored' \in Seq(ChatMessage) /\ Len(stored') = Len(stored) + 1 /\ Len(stored) \in Nat
        /\ \A n \in 1 .. Len(stored) : stored'[n] = stored[n]
        /\ stored'[Len(stored) + 1] = m
        /\ DOMAIN stored = 1 .. Len(stored) /\ DOMAIN stored' = 1 .. (Len(stored) + 1)
        /\ shownMessages \in [fetched : SUBSET DOMAIN stored', sent : Seq(DOMAIN stored')]
        /\ seen \in SUBSET DOMAIN stored' /\ missed \in SUBSET DOMAIN stored'
    BY <1>1, Appended
  <1>3. UNCHANGED <<selected, chatUrl, goingTo, shownMessages, list, selects, failures, seen, missed>>
    BY DEF chatPage, turns, chatHistory
  <1>4. ChatTypeOK'
    BY <1>1, <1>2, <1>3 DEF ChatTypeOK
  <1>5. /\ Known \subseteq Known' /\ Len(stored) <= Len(stored')
        /\ \A n \in 1 .. Len(stored) : stored'[n].thread = stored[n].thread
        /\ \A i \in 1 .. MaxRequests :
             requests'[i] = requests[i] \/ RequestIsSound(requests'[i], stored', Known')
    <2>1. Known' = Known
      BY <1>3 DEF Known
    <2>2. Len(stored) <= Len(stored')
      BY <1>2
    <2>3. \A n \in 1 .. Len(stored) : stored'[n].thread = stored[n].thread
      BY <1>2
    <2>4. QED
      BY <2>1, <2>2, <2>3
  <1>6. WireIsSound'
    BY <1>1, <1>2, <1>5, WireStaysSound
  <1>7. ReadWasShown'
    BY <1>1, <1>2, <1>3 DEF ReadWasShown
  <1>8. QED
    BY <1>4, <1>6, <1>7 DEF ChatIInv

LEMMA PeerSendsStep ==
  ASSUME ChatIInv, NEW t \in MyThreads, PeerSends(t)
  PROVE  ChatIInv'
  <1>1. PICK m : m = [thread |-> t, from |-> "peer", isRead |-> FALSE]
    OBVIOUS
  <1>2. m \in ChatMessage /\ ~ m.isRead
    BY <1>1 DEF ChatMessage, Viewer
  <1>3. stored' = Append(stored, m) /\ requests' = requests
    BY <1>1 DEF PeerSends
  <1>4. requests' \in [1 .. MaxRequests -> ChatRequest]
    BY <1>3 DEF ChatIInv, ChatTypeOK
  <1>5. QED
    BY <1>2, <1>3, <1>4, StoreEffect DEF PeerSends

LEMMA ServeSendStep ==
  ASSUME ChatIInv, NEW i \in 1 .. MaxRequests, ServeSend(i)
  PROVE  ChatIInv'
  <1>1. ChatTypeOK /\ WireIsSound /\ requests[i].kind = "send" /\ requests[i] \in ChatRequest
    BY DEF ChatIInv, ServeSend, Waiting, ChatTypeOK
  <1>2. requests[i].thread \in MyThreads
    BY <1>1 DEF WireIsSound, RequestIsSound
  <1>3. PICK m : m = [thread |-> requests[i].thread, from |-> "viewer", isRead |-> FALSE]
    OBVIOUS
  <1>4. m \in ChatMessage /\ ~ m.isRead
    BY <1>2, <1>3 DEF ChatMessage, Viewer
  <1>5. stored' = Append(stored, m)
    BY <1>3 DEF ServeSend
  <1>6. stored' \in Seq(ChatMessage) /\ Len(stored) <= Len(stored') /\ Len(stored') # 0
    BY <1>1, <1>4, <1>5, Appended
  <1>7. PICK r : r = requests[i]
    OBVIOUS
  <1>8. AnswerWith(i, r, Len(stored')) /\ Len(stored') \in 0 .. Len(stored')
    BY <1>6, <1>7 DEF ServeSend
  <1>9. /\ requests' \in [1 .. MaxRequests -> ChatRequest]
        /\ \A j \in 1 .. MaxRequests : requests'[j] = requests[j] \/ RequestIsSound(requests'[j], stored', Known)
    BY <1>1, <1>2, <1>6, <1>7, <1>8, AnswerSound
  <1>10. QED
    BY <1>4, <1>5, <1>9, StoreEffect DEF ServeSend

LEMMA ServeMarkStep ==
  ASSUME ChatIInv, NEW i \in 1 .. MaxRequests, ServeMark(i)
  PROVE  ChatIInv'
  <1>1. ChatTypeOK /\ WireIsSound /\ ReadWasShown
    BY DEF ChatIInv
  <1>2. /\ stored \in Seq(ChatMessage) /\ Len(stored) \in Nat /\ DOMAIN stored = 1 .. Len(stored)
        /\ requests[i] \in ChatRequest /\ requests[i].kind = "mark" /\ RequestIsSound(requests[i], stored, Known)
    BY <1>1 DEF ChatTypeOK, WireIsSound, ServeMark, Waiting
  <1>3. PICK t : t = requests[i].thread
    OBVIOUS
  <1>4. stored' = [n \in DOMAIN stored |->
                     [stored[n] EXCEPT !.isRead = (stored[n].thread = t /\ stored[n].from = "peer") \/ @]]
    BY <1>3 DEF ServeMark
  <1>5. \A n \in DOMAIN stored :
          /\ stored'[n] \in ChatMessage /\ stored'[n].thread = stored[n].thread
          /\ stored'[n].isRead => stored[n].isRead \/ stored[n].thread = t
    <2>1. SUFFICES ASSUME NEW n \in DOMAIN stored
                   PROVE  /\ stored'[n] \in ChatMessage /\ stored'[n].thread = stored[n].thread
                          /\ stored'[n].isRead => stored[n].isRead \/ stored[n].thread = t
      OBVIOUS
    <2>2. PICK b \in BOOLEAN : b <=> (stored[n].thread = t /\ stored[n].from = "peer") \/ stored[n].isRead
      OBVIOUS
    <2>3. stored[n] \in ChatMessage
      BY <1>2
    <2>4. b = ((stored[n].thread = t /\ stored[n].from = "peer") \/ stored[n].isRead)
      BY <2>2, Zenon
    <2>5. stored'[n] = [stored[n] EXCEPT !.isRead = b]
      BY <1>4, <2>4, Zenon
    <2>6. stored'[n] \in ChatMessage /\ stored'[n].thread = stored[n].thread /\ stored'[n].isRead = b
      BY <2>3, <2>5 DEF ChatMessage
    <2>7. QED
      BY <2>2, <2>6
  <1>6. stored' \in [1 .. Len(stored) -> ChatMessage]
    BY <1>2, <1>4, <1>5
  <1>7. stored' \in Seq(ChatMessage) /\ Len(stored') = Len(stored) /\ DOMAIN stored' = DOMAIN stored
    BY <1>2, <1>6
  <1>8. PICK r : r = [requests[i] EXCEPT !.served = TRUE]
    OBVIOUS
  <1>9. r \in ChatRequest /\ RequestIsSound(r, stored, Known)
    <2>1. r \in ChatRequest /\ r.kind = "mark" /\ r.thread = requests[i].thread /\ r.upto = requests[i].upto
      BY <1>2, <1>8 DEF ChatRequest
    <2>2. QED
      BY <1>2, <2>1 DEF RequestIsSound
  <1>10. UNCHANGED <<selected, chatUrl, goingTo, shownMessages, list, selects, failures, seen>>
    BY DEF ServeMark, chatPage, turns
  <1>11. missed' = missed \cup {n \in DOMAIN stored : stored[n].thread = t /\ n > requests[i].upto}
    BY <1>3 DEF ServeMark
  <1>12. RequestIsSound(r, stored', Known')
    <2>1. Known \subseteq Known'
      BY <1>10, <1>11 DEF Known
    <2>2. QED
      BY <1>2, <1>5, <1>7, <1>9, <2>1, SoundStays
  <1>13. requests' = [requests EXCEPT ![i] = r]
    BY <1>2, <1>8 DEF ServeMark
  <1>14. /\ requests' \in [1 .. MaxRequests -> ChatRequest]
         /\ \A j \in 1 .. MaxRequests :
              requests'[j] = requests[j] \/ RequestIsSound(requests'[j], stored', Known')
    BY <1>1, <1>9, <1>12, <1>13 DEF ChatTypeOK
  <1>15. ChatTypeOK'
    BY <1>1, <1>7, <1>10, <1>11, <1>14 DEF ChatTypeOK
  <1>16. WireIsSound'
    <2>1. Known \subseteq Known' /\ stored' \in Seq(ChatMessage) /\ Len(stored) <= Len(stored')
          /\ \A n \in 1 .. Len(stored) : stored'[n].thread = stored[n].thread
      BY <1>2, <1>5, <1>7, <1>10, <1>11 DEF Known
    <2>2. QED
      BY <1>1, <1>14, <2>1, WireStaysSound
  <1>17. ReadWasShown'
    <2>1. SUFFICES ASSUME NEW n \in DOMAIN stored, stored'[n].isRead
                   PROVE  n \in Known'
      BY <1>7 DEF ReadWasShown, Known
    <2>2. CASE stored[n].isRead
      BY <1>1, <1>10, <1>11, <2>2 DEF ReadWasShown, Known
    <2>3. CASE stored[n].thread = t /\ n > requests[i].upto
      BY <1>11, <2>3 DEF Known
    <2>4. CASE stored[n].thread = t /\ ~ (n > requests[i].upto)
      <3>1. requests[i].upto \in Nat /\ n \in Nat /\ n >= 1
        BY <1>2 DEF ChatRequest
      <3>2. n \in 1 .. requests[i].upto
        BY <2>4, <3>1
      <3>3. n \in Known
        BY <1>2, <1>3, <2>4, <3>2 DEF RequestIsSound
      <3>4. QED
        BY <1>10, <1>11, <3>3 DEF Known
    <2>5. QED
      BY <1>5, <2>1, <2>2, <2>3, <2>4
  <1>18. QED
    BY <1>15, <1>16, <1>17 DEF ChatIInv

\* The state after messages are shown.
LEMMA ShowEffect ==
  ASSUME ChatIInv, NEW s \in [fetched : SUBSET DOMAIN stored, sent : Seq(DOMAIN stored)],
         NEW older \in SUBSET DOMAIN stored, Show(s), missed' = missed \cup older, requests' \in [1 .. MaxRequests -> ChatRequest],
         \A i \in 1 .. MaxRequests : requests'[i] = requests[i] \/ RequestIsSound(requests'[i], stored, Known'),
         UNCHANGED <<stored, selected, chatUrl, goingTo, list, turns>>
  PROVE  ChatIInv' /\ seen \subseteq seen' /\ s.fetched \subseteq seen'
  <1>1. ChatTypeOK /\ WireIsSound /\ ReadWasShown
    BY DEF ChatIInv
  <1>2. shownMessages' = s /\ seen' = seen \cup s.fetched \cup {s.sent[k] : k \in DOMAIN s.sent}
    BY DEF Show
  <1>3. s.fetched \subseteq DOMAIN stored /\ s.sent \in Seq(DOMAIN stored)
    OBVIOUS
  <1>4. {s.sent[k] : k \in DOMAIN s.sent} \subseteq DOMAIN stored
    BY <1>3
  <1>5. seen' \in SUBSET DOMAIN stored
    BY <1>1, <1>2, <1>3, <1>4 DEF ChatTypeOK
  <1>6. ChatTypeOK'
    BY <1>1, <1>2, <1>5 DEF ChatTypeOK, turns
  <1>7. WireIsSound'
    <2>1. stored' \in Seq(ChatMessage) /\ Len(stored) <= Len(stored') /\ Known \subseteq Known'
          /\ \A n \in 1 .. Len(stored) : stored'[n].thread = stored[n].thread
      BY <1>1, <1>2 DEF ChatTypeOK, Known
    <2>2. \A i \in 1 .. MaxRequests : requests'[i] = requests[i] \/ RequestIsSound(requests'[i], stored', Known')
      OBVIOUS
    <2>3. QED
      BY <1>1, <2>1, <2>2, WireStaysSound
  <1>8. ReadWasShown'
    BY <1>1, <1>2 DEF ReadWasShown
  <1>9. QED
    BY <1>2, <1>6, <1>7, <1>8 DEF ChatIInv

\* A sequence that is added to.
LEMMA AppendTyped ==
  ASSUME NEW S, NEW q \in Seq(S), NEW x \in S
  PROVE  Append(q, x) \in Seq(S)
  OBVIOUS

LEMMA ReceiveSendStep ==
  ASSUME ChatIInv, NEW i \in 1 .. MaxRequests, ReceiveSend(i)
  PROVE  ChatIInv'
  <1>1. ChatTypeOK /\ requests' = Done(i)
    BY DEF ChatIInv, ReceiveSend
  <1>2. /\ requests[i] \in ChatRequest /\ RequestIsSound(requests[i], stored, Known) /\ requests[i].served
        /\ requests[i].kind = "send" /\ DOMAIN stored = 1 .. Len(stored) /\ Len(stored) \in Nat
    BY <1>1 DEF ChatIInv, WireIsSound, ChatTypeOK, ReceiveSend, Replied
  <1>3. requests[i].upto \in DOMAIN stored
    BY <1>2 DEF ChatRequest, RequestIsSound
  <1>4. PICK s : s = [shownMessages EXCEPT !.sent = Append(@, requests[i].upto)]
    OBVIOUS
  <1>5. s \in [fetched : SUBSET DOMAIN stored, sent : Seq(DOMAIN stored)]
    <2>1. shownMessages \in [fetched : SUBSET DOMAIN stored, sent : Seq(DOMAIN stored)]
      BY <1>1 DEF ChatTypeOK
    <2>2. Append(shownMessages.sent, requests[i].upto) \in Seq(DOMAIN stored)
      BY <1>3, <2>1, AppendTyped
    <2>3. QED
      BY <1>4, <2>1, <2>2
  <1>6. Show(s)
    BY <1>4 DEF ReceiveSend
  <1>7. requests' \in [1 .. MaxRequests -> ChatRequest]
    BY <1>1, DoneSound
  <1>8. PICK free : free = MakeRequest("free", NoThread, FALSE)
    OBVIOUS
  <1>9. free \in ChatRequest /\ RequestIsSound(free, stored, Known')
    BY <1>1, <1>8, AskIsSound DEF ChatTypeOK
  <1>10. requests' = [requests EXCEPT ![i] = free]
    BY <1>1, <1>8 DEF Done, Free
  <1>11. \A j \in 1 .. MaxRequests : requests'[j] = requests[j] \/ RequestIsSound(requests'[j], stored, Known')
    BY <1>1, <1>9, <1>10 DEF ChatTypeOK
  <1>12. missed' = missed \cup {} /\ {} \in SUBSET DOMAIN stored
    BY DEF ReceiveSend
  <1>13. QED
    BY <1>5, <1>6, <1>7, <1>11, <1>12, ShowEffect DEF ReceiveSend

LEMMA ReceiveMessagesStep ==
  ASSUME ChatIInv, NEW i \in 1 .. MaxRequests, ReceiveMessages(i)
  PROVE  ChatIInv'
  <1>1. ChatTypeOK
    BY DEF ChatIInv
  <1>2. /\ requests[i] \in ChatRequest /\ RequestIsSound(requests[i], stored, Known)
        /\ DOMAIN stored = 1 .. Len(stored) /\ Len(stored) \in Nat /\ stored \in Seq(ChatMessage)
    BY <1>1 DEF ChatIInv, WireIsSound, ChatTypeOK
  <1>3. requests[i].upto \in Nat /\ requests[i].upto <= Len(stored)
    BY <1>2 DEF ChatRequest, RequestIsSound
  <1>4. PICK S : S = Newest(requests[i].thread, requests[i].upto)
    OBVIOUS
  <1>5. PICK O : O = Older(i)
    OBVIOUS
  <1>6. /\ S \subseteq DOMAIN stored /\ O \subseteq DOMAIN stored
        /\ requests[i].mark => InThread(requests[i].thread, requests[i].upto) \subseteq S \cup O
    <2>1. PICK T : T = InThread(requests[i].thread, requests[i].upto)
      OBVIOUS
    <2>2. T \subseteq DOMAIN stored
      BY <1>2, <1>3, <2>1 DEF InThread
    <2>3. S \subseteq T
      BY <1>4, <2>1 DEF Newest
    <2>4. O = {k \in T : requests[i].mark /\ k \notin S}
      BY <1>4, <1>5, <2>1 DEF Older
    <2>5. QED
      BY <2>1, <2>2, <2>3, <2>4
  <1>7. PICK s : s = Fetched(S)
    OBVIOUS
  <1>8. s \in [fetched : SUBSET DOMAIN stored, sent : Seq(DOMAIN stored)] /\ s.fetched = S
    BY <1>6, <1>7 DEF Fetched
  <1>9. Show(s) /\ missed' = missed \cup O /\ requests' = Marking(i)
    BY <1>4, <1>5, <1>7 DEF ReceiveMessages
  <1>10. S \subseteq seen' /\ O \subseteq missed'
    BY <1>8, <1>9 DEF Show
  <1>11. /\ requests' \in [1 .. MaxRequests -> ChatRequest]
         /\ \A j \in 1 .. MaxRequests : requests'[j] = requests[j] \/ RequestIsSound(requests'[j], stored, Known')
    <2>1. CASE requests[i].mark
      <3>1. PICK a : a = MakeRequest("mark", requests[i].thread, FALSE)
        OBVIOUS
      <3>2. a \in ChatRequest /\ a.kind = "mark" /\ a.thread = requests[i].thread
        BY <1>2, <3>1 DEF MakeRequest, ChatRequest, Zero
      <3>3. PICK r : r = [a EXCEPT !.upto = requests[i].upto]
        OBVIOUS
      <3>4. r \in ChatRequest /\ r.kind = "mark" /\ r.thread = requests[i].thread /\ r.upto = requests[i].upto
        BY <1>3, <3>2, <3>3 DEF ChatRequest
      <3>5. RequestIsSound(r, stored, Known')
        BY <1>3, <1>6, <1>10, <2>1, <3>4 DEF RequestIsSound, InThread, Known
      <3>6. requests' = [requests EXCEPT ![i] = r]
        BY <1>9, <2>1, <3>1, <3>3 DEF Marking
      <3>7. QED
        BY <1>1, <3>4, <3>5, <3>6 DEF ChatTypeOK
    <2>2. CASE ~ requests[i].mark
      <3>1. PICK free : free = MakeRequest("free", NoThread, FALSE)
        OBVIOUS
      <3>2. free \in ChatRequest /\ RequestIsSound(free, stored, Known')
        BY <1>2, <3>1, AskIsSound
      <3>3. requests' = [requests EXCEPT ![i] = free]
        BY <1>9, <2>2, <3>1 DEF Marking, Done, Free
      <3>4. QED
        BY <1>1, <3>2, <3>3 DEF ChatTypeOK
    <2>3. QED
      BY <2>1, <2>2
  <1>12. QED
    BY <1>6, <1>8, <1>9, <1>11, ShowEffect DEF ReceiveMessages

\* The invariant of the messages page, step by step.
LEMMA ChatNextHolds ==
  ASSUME ChatIInv, [ChatNext]_chatVars
  PROVE  ChatIInv'
  <1>1. CASE Sync
    BY <1>1, SyncStep
  <1>2. CASE RouterNavigates
    BY <1>2, RouterNavigatesStep
  <1>3. CASE OnSend
    BY <1>3, OnSendStep
  <1>4. CASE \E t \in MyThreads : OnSelectThread(t) \/ PeerSends(t)
    BY <1>4, OnSelectThreadStep, PeerSendsStep
  <1>5. ASSUME NEW i \in 1 .. MaxRequests, ServeRequest(i)
        PROVE  ChatIInv'
    BY <1>5, ServeOpenStep, ServeThreadsStep, ServeMessagesStep, ServeMarkStep, ServeSendStep DEF ServeRequest
  <1>6. ASSUME NEW i \in 1 .. MaxRequests, ReceiveReply(i)
        PROVE  ChatIInv'
    BY <1>6, ReceiveOpenStep, ReceiveThreadsStep, ReceiveMessagesStep, ReceiveMarkStep, ReceiveSendStep DEF ReceiveReply
  <1>7. ASSUME NEW i \in 1 .. MaxRequests, Lose(i)
        PROVE  ChatIInv'
    BY <1>7, LoseStep
  <1>8. CASE UNCHANGED chatVars
    <2>1. UNCHANGED <<stored, selected, chatUrl, goingTo, shownMessages, list, requests, selects, failures, seen, missed>>
      BY <1>8 DEF chatVars, chatPage, turns, chatHistory
    <2>2. ChatTypeOK'
      BY <2>1 DEF ChatIInv, ChatTypeOK
    <2>3. WireIsSound' /\ ReadWasShown'
      BY <2>1 DEF ChatIInv, WireIsSound, ReadWasShown, Known
    <2>4. QED
      BY <2>2, <2>3 DEF ChatIInv
  <1>9. QED
    BY <1>1, <1>2, <1>3, <1>4, <1>5, <1>6, <1>7, <1>8 DEF ChatNext

\* However the requests of a messages page overtake each other or are lost, it
\* marks as read only messages it has shown, or that came after the page it showed or
\* were too old for it.
THEOREM ChatInvHolds == ChatSpec => []ChatInv
  <1>1. ChatInit => ChatIInv
    BY ChatInitHolds
  <1>2. ChatIInv /\ [ChatNext]_chatVars => ChatIInv'
    BY ChatNextHolds
  <1>3. ChatIInv => ChatInv
    BY DEF ChatIInv, ChatInv
  <1>4. QED
    BY <1>1, <1>2, <1>3, PTL DEF ChatSpec
===============================================================================
