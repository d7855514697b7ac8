------------------------------- MODULE ChatPage -------------------------------
(***************************************************************************)
(* The messages page of one viewer, as the client's and the developer's    *)
(* browser run it: the thread that is selected, the thread or recipient    *)
(* that the URL names, the messages shown and the unread counts of the     *)
(* list, kept up to date by polls, broadcasts and effects whose replies    *)
(* may overtake each other.  The server is what the page needs of it:      *)
(* threads that exist by the time they are asked for, messages and isRead. *)
(***************************************************************************)
EXTENDS Integers, Sequences, FiniteSets

CONSTANTS
  MyThreads,   \* the viewer's threads
  NoThread,    \* no thread
  PageSize,    \* how many messages the page asks for
  MaxStored,   \* bound: how many messages are written
  MaxRequests, \* bound: how many requests are in flight at once
  MaxTurns     \* bound: how often the viewer selects a thread or a request is lost

ASSUME ChatPageAssumption ==
  /\ NoThread \notin MyThreads /\ IsFiniteSet(MyThreads) /\ MyThreads # {}
  /\ MaxStored \in Nat /\ MaxTurns \in Nat
  /\ MaxRequests \in Nat \ {0, 1} /\ PageSize \in Nat \ {0}

VARIABLES
  stored,    \* the server's messages in the order of createdAt
  selected,  \* selectedThreadId
  chatUrl,   \* ?thread= in the URL, and the thread that its recipientId leads to
  goingTo,   \* where router.replace is navigating to: chatUrl, when it is not
  shownMessages, \* the messages shown, by their place in stored: those fetched, in
             \* the order of createdAt, and under them those sent since
  list,      \* the unread count of each thread in the list
  requests,  \* the requests in flight
  selects, failures, \* what the bound counts
  seen,      \* history: the messages that were ever shown
  missed     \* history: messages that a mark took or is to take though they are not
             \* on the page fetched before it: older than it, or stored since

chatHistory == <<seen, missed>>
chatPage    == <<selected, chatUrl, goingTo, shownMessages, list>>
turns       == <<selects, failures>>
chatVars    == <<stored, chatPage, requests, turns, chatHistory>>

Viewer == {"viewer", "peer"}
Zero   == [t \in MyThreads |-> 0]

ChatUrl(t, r) == [thread |-> t, recipient |-> r]
ChatUrls == [thread : MyThreads \cup {NoThread}, recipient : MyThreads \cup {NoThread}]

ChatMessage == [thread : MyThreads, from : Viewer, isRead : BOOLEAN]

ChatRequest ==
  [kind   : {"free", "open", "threads", "messages", "mark", "send"},
   thread : MyThreads \cup {NoThread}, \* or, of open and threads, threadQuery as
                                      \* it was when the page asked
   mark   : BOOLEAN,                  \* markAsRead
   served : BOOLEAN,
   upto   : Nat,                      \* the last message when the server answered
   unread : [MyThreads -> Nat],       \* the unread counts it answered with
   first  : MyThreads \cup {NoThread}]\* the thread on top of the list it answered
                                      \* with, or the one that is opened

MakeRequest(kind, t, mark) ==
  [kind |-> kind, thread |-> t, mark |-> mark, served |-> FALSE, upto |-> 0,
   unread |-> Zero, first |-> NoThread]
Free == MakeRequest("free", NoThread, FALSE)

ChatTypeOK ==
  /\ stored \in Seq(ChatMessage)
  /\ selected \in MyThreads \cup {NoThread} /\ chatUrl \in ChatUrls /\ goingTo \in ChatUrls
  /\ shownMessages \in [fetched : SUBSET DOMAIN stored, sent : Seq(DOMAIN stored)]
  /\ list \in [MyThreads -> Nat]
  /\ requests \in [1 .. MaxRequests -> ChatRequest]
  /\ selects \in Nat /\ failures \in Nat /\ selects + failures <= MaxTurns
  /\ seen \in SUBSET DOMAIN stored /\ missed \in SUBSET DOMAIN stored

-----------------------------------------------------------------------------
(* The requests in flight.  A request takes the lowest free slot. *)

FreeSlots(w) == {i \in 1 .. MaxRequests : w[i].kind = "free"}
Room(w, n)   == Cardinality(FreeSlots(w)) >= n
Put(w, r)    == [w EXCEPT ![CHOOSE i \in FreeSlots(w) : \A j \in FreeSlots(w) : i <= j] = r]
Done(i)      == [requests EXCEPT ![i] = Free]
Sending      == \E i \in 1 .. MaxRequests : requests[i].kind = "send"
Full         == Len(stored) + Cardinality({i \in 1 .. MaxRequests :
                                requests[i].kind = "send" /\ ~requests[i].served}) >= MaxStored

Fetched(S)     == [fetched |-> S, sent |-> <<>>]
InThread(t, n) == {k \in 1 .. n : stored[k].thread = t}
\* getThreadMessages, asked for its first page: the newest PageSize.
Newest(t, n)   == {k \in InThread(t, n) : Cardinality({j \in InThread(t, n) : j > k}) < PageSize}
Unread(t)      == Cardinality({n \in DOMAIN stored : stored[n].thread = t
                                 /\ stored[n].from = "peer" /\ ~stored[n].isRead})

\* The open effect: a thread that comes to be selected is fetched and marked.
\* w is the requests as the rest of the step leaves it.
Select(t, w) ==
  /\ selected' = t
  /\ IF t # selected /\ t # NoThread
     THEN Room(w, 1) /\ requests' = Put(w, MakeRequest("messages", t, TRUE))
     ELSE requests' = w

-----------------------------------------------------------------------------
(* The page. *)

\* The load effect: where the URL names a recipient, their thread is opened first.
LoadEffect(u) ==
  IF u.recipient # NoThread
  THEN [MakeRequest("open", u.thread, FALSE) EXCEPT !.first = u.recipient]
  ELSE MakeRequest("threads", u.thread, FALSE)

\* The page's links name a thread or a recipient, or neither.  On mount the load
\* effect runs.
ChatInit ==
  /\ stored = <<>>
  /\ chatUrl \in ChatUrls /\ (chatUrl.thread = NoThread \/ chatUrl.recipient = NoThread)
  /\ selected = NoThread /\ goingTo = chatUrl
  /\ shownMessages = Fetched({}) /\ list = Zero
  /\ requests = Put([i \in 1 .. MaxRequests |-> Free], LoadEffect(chatUrl))
  /\ selects = 0 /\ failures = 0
  /\ seen = {} /\ missed = {}

\* The timer, the window's focus or a broadcast asks for everything again.
Sync ==
  /\ LET w == Put(requests, MakeRequest("threads", chatUrl.thread, FALSE)) IN
     IF selected = NoThread
     THEN Room(requests, 1) /\ requests' = w
     ELSE Room(requests, 2) /\ requests' = Put(w, MakeRequest("messages", selected, FALSE))
  /\ UNCHANGED <<stored, chatPage, turns, chatHistory>>

\* onSelectThread: the URL follows, its recipient as it was, only when the router
\* has navigated.
OnSelectThread(t) ==
  /\ selects + failures < MaxTurns /\ selects' = selects + 1
  /\ Select(t, requests)
  /\ goingTo' = ChatUrl(t, chatUrl.recipient)
  /\ UNCHANGED <<stored, chatUrl, shownMessages, list, failures, chatHistory>>

\* searchParams change, and the load effect runs again.
RouterNavigates ==
  /\ goingTo # chatUrl
  /\ chatUrl' = goingTo
  /\ Room(requests, IF goingTo.recipient = NoThread THEN 1 ELSE 2)   \* opening takes two more
  /\ requests' = Put(requests, LoadEffect(goingTo))
  /\ UNCHANGED <<stored, selected, goingTo, shownMessages, list, turns, chatHistory>>

\* onSend and onSelectAttachment: one at a time.
OnSend ==
  /\ selected # NoThread /\ ~Sending /\ ~Full
  /\ Room(requests, 1) /\ requests' = Put(requests, MakeRequest("send", selected, FALSE))
  /\ UNCHANGED <<stored, chatPage, turns, chatHistory>>

-----------------------------------------------------------------------------
(* The server. *)

PeerSends(t) ==
  /\ ~Full
  /\ stored' = Append(stored, [thread |-> t, from |-> "peer", isRead |-> FALSE])
  /\ UNCHANGED <<chatPage, requests, turns, chatHistory>>

AnswerWith(i, r, n) ==
  requests' = [requests EXCEPT ![i] = [r EXCEPT !.served = TRUE, !.upto = n]]
Waiting(i, kind) == requests[i].kind = kind /\ ~requests[i].served

\* createThread finds the thread of the two, or creates it.
ServeOpen(i) ==
  /\ Waiting(i, "open")
  /\ UNCHANGED stored /\ AnswerWith(i, requests[i], 0)
  /\ UNCHANGED <<chatPage, turns, chatHistory>>

ServeThreads(i) ==
  /\ Waiting(i, "threads")
  /\ \E top \in MyThreads :
       /\ stored # <<>> => top = stored[Len(stored)].thread
       /\ UNCHANGED stored
       /\ AnswerWith(i, [requests[i] EXCEPT !.unread = [t \in MyThreads |-> Unread(t)],
                                            !.first = top], 0)
  /\ UNCHANGED <<chatPage, turns, chatHistory>>

ServeMessages(i) ==
  /\ Waiting(i, "messages")
  /\ UNCHANGED stored /\ AnswerWith(i, requests[i], Len(stored'))
  /\ UNCHANGED <<chatPage, turns, chatHistory>>

\* markRead takes every message the thread has by now.
ServeMark(i) ==
  LET t == requests[i].thread IN
  /\ Waiting(i, "mark")
  /\ stored' = [n \in DOMAIN stored |->
                  [stored[n] EXCEPT !.isRead = (stored[n].thread = t /\ stored[n].from = "peer") \/ @]]
  /\ requests' = [requests EXCEPT ![i].served = TRUE]
  /\ missed' = missed \cup {n \in DOMAIN stored : stored[n].thread = t /\ n > requests[i].upto}
  /\ UNCHANGED <<chatPage, turns, seen>>

ServeSend(i) ==
  /\ Waiting(i, "send")
  /\ stored' = Append(stored, [thread |-> requests[i].thread, from |-> "viewer", isRead |-> FALSE])
  /\ AnswerWith(i, requests[i], Len(stored'))
  /\ UNCHANGED <<chatPage, turns, chatHistory>>

-----------------------------------------------------------------------------
(* The replies. *)

Show(s) == shownMessages' = s /\ seen' = seen \cup s.fetched \cup {s.sent[k] : k \in DOMAIN s.sent}
Replied(i, kind) == requests[i].kind = kind /\ requests[i].served

\* The thread that was opened is selected and put in the URL; the threads are asked
\* for with the threadQuery of the effect.
ReceiveOpen(i) ==
  /\ Replied(i, "open")
  /\ goingTo' = ChatUrl(requests[i].first, NoThread)
  /\ Select(requests[i].first, Put(Done(i), MakeRequest("threads", requests[i].thread, FALSE)))
  /\ UNCHANGED <<stored, chatUrl, shownMessages, list, turns, chatHistory>>

\* Mutant: the thread that the URL names is not looked for.
ReceiveThreadsIgnoringUrl(i) ==
  /\ Replied(i, "threads")
  /\ list' = requests[i].unread
  /\ Select(IF selected # NoThread THEN selected ELSE requests[i].first, Done(i))
  /\ UNCHANGED <<stored, chatUrl, goingTo, shownMessages, turns, chatHistory>>

\* refreshThreads: the thread the URL named when the page asked, else the one
\* that is selected, else the first.
ReceiveThreads(i) ==
  /\ Replied(i, "threads")
  /\ list' = requests[i].unread
  /\ Select(IF requests[i].thread # NoThread THEN requests[i].thread
            ELSE IF selected # NoThread THEN selected ELSE requests[i].first, Done(i))
  /\ UNCHANGED <<stored, chatUrl, goingTo, shownMessages, turns, chatHistory>>

\* The mark that follows the open effect's page.
Marking(i) ==
  IF requests[i].mark
  THEN [requests EXCEPT ![i] =
          [MakeRequest("mark", requests[i].thread, FALSE) EXCEPT !.upto = requests[i].upto]]
  ELSE Done(i)

\* The messages too old for a page whose mark is to follow.
Older(i) == {k \in InThread(requests[i].thread, requests[i].upto) :
               requests[i].mark /\ k \notin Newest(requests[i].thread, requests[i].upto)}

\* Mutant: the thread is marked before its messages have come.
ReceiveMessagesUnshown(i) ==
  /\ Replied(i, "messages")
  /\ requests' = Marking(i)
  /\ IF requests[i].mark THEN UNCHANGED <<shownMessages, seen>>
     ELSE Show(Fetched(Newest(requests[i].thread, requests[i].upto)))
  /\ missed' = missed \cup Older(i)
  /\ UNCHANGED <<stored, selected, chatUrl, goingTo, list, turns>>

\* refreshMessages: whatever is selected by now, these messages are shown; after
\* the open effect's the whole thread is marked as read.
ReceiveMessages(i) ==
  /\ Replied(i, "messages")
  /\ Show(Fetched(Newest(requests[i].thread, requests[i].upto)))
  /\ missed' = missed \cup Older(i)
  /\ requests' = Marking(i)
  /\ UNCHANGED <<stored, selected, chatUrl, goingTo, list, turns>>

ReceiveMark(i) ==
  /\ Replied(i, "mark")
  /\ list' = [list EXCEPT ![requests[i].thread] = 0]
  /\ requests' = Done(i)
  /\ UNCHANGED <<stored, selected, chatUrl, goingTo, shownMessages, turns, chatHistory>>

\* What was sent is appended to what is shown: another thread by now, it may be,
\* or a page that has it already.
ReceiveSend(i) ==
  /\ Replied(i, "send")
  /\ Show([shownMessages EXCEPT !.sent = Append(@, requests[i].upto)])
  /\ requests' = Done(i)
  /\ UNCHANGED <<stored, selected, chatUrl, goingTo, list, turns, missed>>

\* A request or its reply is lost, or refused: the page only says so.
Lose(i) ==
  /\ requests[i].kind # "free"
  /\ selects + failures < MaxTurns /\ failures' = failures + 1
  /\ requests' = Done(i)
  /\ UNCHANGED <<stored, chatPage, selects, chatHistory>>

-----------------------------------------------------------------------------
ServeRequest(i) ==
  ServeOpen(i) \/ ServeThreads(i) \/ ServeMessages(i) \/ ServeMark(i) \/ ServeSend(i)
ReceiveReply(i) ==
  ReceiveOpen(i) \/ ReceiveThreads(i) \/ ReceiveMessages(i) \/ ReceiveMark(i) \/ ReceiveSend(i)

ChatNext ==
  \/ Sync \/ RouterNavigates \/ OnSend
  \/ \E t \in MyThreads : OnSelectThread(t) \/ PeerSends(t)
  \/ \E i \in 1 .. MaxRequests : ServeRequest(i) \/ ReceiveReply(i) \/ Lose(i)

\* The timer keeps ticking, a navigation ends, and a request that is not lost is
\* answered; nobody need select, send or lose anything.  The fairness is strong only
\* because MaxRequests may hold a step up.
ChatFairness ==
  /\ SF_chatVars(Sync) /\ SF_chatVars(RouterNavigates)
  /\ \A i \in 1 .. MaxRequests : SF_chatVars(ServeRequest(i) \/ ReceiveReply(i))

ChatSpec     == ChatInit /\ [][ChatNext]_chatVars
ChatFairSpec == ChatSpec /\ ChatFairness

-----------------------------------------------------------------------------
(* Properties *)

\* The mark takes a whole thread while the page fetches its newest messages.  A
\* message is marked as read only after the page has shown it, but for one that came
\* between the page that was fetched and the mark that followed, and one that was
\* too old for that page.
ReadWasShown ==
  \A n \in DOMAIN stored : stored[n].isRead => n \in seen \cup missed

ChatInv == ChatTypeOK /\ ReadWasShown

\* However replies overtake each other, once nobody writes or selects any more the
\* page comes to show the thread of its URL, each of its newest messages once and in
\* order, under the unread counts of the server; and a recipient that the URL named
\* has been replaced by their thread, unless a request failed.
ViewIsSettled ==
  /\ selected = chatUrl.thread \/ chatUrl.thread = NoThread
  /\ chatUrl.recipient = NoThread \/ failures # 0
  /\ selected # NoThread
  /\ shownMessages = Fetched(Newest(selected, Len(stored)))
  /\ list = [t \in MyThreads |-> Unread(t)]

\* Every run comes to that, and stays so: the polls repair whatever overtook what.
ViewSettles == <>[]ViewIsSettled
===============================================================================
