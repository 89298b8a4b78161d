----------------------------- MODULE Conversation -----------------------------
(***************************************************************************)
(* One console client (client/main.cpp) and its session on the broker      *)
(* (Session; app/src/server/session.cpp), with the TCP connection between  *)
(* them as two streams that deliver any part of what is on its way.        *)
(*                                                                         *)
(* A line is two bytes: <<n, "body">> and <<n, "end">>, the second with    *)
(* the line feed.  Lines to the broker are numbered as they are typed;     *)
(* texts to the client as they are queued, the welcome being 0, and        *)
(* answers[k] is the number of the answer to the k-th line handled.        *)
(* Other clients' messages are texts that answer nothing.  What a line     *)
(* does in the broker is left out: every line is answered by one text.     *)
(*                                                                         *)
(* Ghosts: handled (the lines the broker has run) and answers.             *)
(***************************************************************************)
EXTENDS Session, FiniteSets, SequencesExt

CONSTANTS
  MaxTyped,      \* bound: lines the user types
  MaxMessages,   \* bound: messages of other clients
  UserWaits      \* the user reads the answer to a line before typing the next

ASSUME ConversationAssumption ==
  /\ MaxSession = 1
  /\ MaxTyped \in Nat /\ MaxMessages \in Nat
  /\ UserWaits \in BOOLEAN

VARIABLES
  upstream, downstream,  \* bytes on their way to the broker, to the client
  received,              \* the streambuf of the session's Read
  link,                  \* "up"; "shut" down by the client; "reset": broken
  typed,                 \* lines typed so far
  sent,                  \* texts queued for the client so far
  clientSocket,          \* the client's end: "open", "closed"
  input,                 \* Client::Write: "open", "exiting", "exited", "ended"
  reader,                \* Client::Read: "reading", "waiting" in recv, "ended"
  screenBuffer,          \* the streambuf of Client::Read
  shown,                 \* what the client has printed
  handled, answers

streamVars == <<upstream, downstream, link>>
clientVars == <<typed, clientSocket, input, reader, screenBuffer, shown>>
brokerVars == <<sessionVars, received, sent, handled, answers>>
vars == <<streamVars, clientVars, brokerVars>>

id == 1    \* the session

Bytes(n) == << <<n, "body">>, <<n, "end">> >>
EndOfLine(bytes) == SelectInSeq(bytes, LAMBDA b : b[2] = "end")

\* The bytes of the first line, and those after it.
FirstLine(bytes) == SubSeq(bytes, 1, EndOfLine(bytes))
AfterLine(bytes) == SubSeq(bytes, EndOfLine(bytes) + 1, Len(bytes))
HasLine(bytes) == EndOfLine(bytes) > 0

\* The client is connected as soon as the connection is in the backlog of the
\* acceptor: before the session exists.
Init ==
  /\ SessionInit
  /\ upstream = <<>> /\ downstream = <<>> /\ link = "up"
  /\ received = <<>> /\ sent = 0 /\ handled = <<>> /\ answers = <<>>
  /\ typed = 0 /\ clientSocket = "open"
  /\ input = "open" /\ reader = "reading"
  /\ screenBuffer = <<>> /\ shown = <<>>

-----------------------------------------------------------------------------
(* The user and the thread in Client::Write *)

\* The answers the user has seen.
Answered == {k \in DOMAIN answers : Bytes(answers[k]) \in ToSet(shown)}

\* A line and its line feed are written.  Where nobody has the socket open any
\* more, a reset comes back.
TypeLine ==
  /\ input = "open" /\ link = "up"
  /\ typed < MaxTyped
  /\ UserWaits => Cardinality(Answered) = typed
  /\ typed' = typed + 1
  /\ IF socket[id] = "closed" THEN link' = "reset" /\ UNCHANGED upstream
     ELSE upstream' = upstream \o Bytes(typed + 1) /\ UNCHANGED link
  /\ UNCHANGED <<downstream, clientSocket, input, reader, screenBuffer, shown, brokerVars>>

\* The line cannot be written: Write returns, and leaves the socket open.
TypeFails ==
  /\ input = "open" /\ link = "reset"
  /\ input' = "ended"
  /\ UNCHANGED <<streamVars, typed, clientSocket, reader, screenBuffer, shown, brokerVars>>

\* Mutant: "exit" closes the socket without shutting it down first.
TypeExitUnshut ==
  /\ input = "open"
  /\ input' = "exiting"
  /\ UNCHANGED <<streamVars, typed, clientSocket, reader, screenBuffer, shown, brokerVars>>

\* "exit": the socket is shut down, both ways ...
TypeExit ==
  /\ input = "open"
  /\ input' = "exiting"
  /\ link' = IF link = "up" THEN "shut" ELSE link
  /\ UNCHANGED <<upstream, downstream, typed, clientSocket, reader, screenBuffer, shown, brokerVars>>

\* ... and then closed, which resets the connection when something was not read
\* yet.  A thread that waits in recv on the socket is not woken by the close.
Close ==
  /\ input = "exiting"
  /\ input' = "exited"
  /\ clientSocket' = "closed"
  /\ link' \in IF downstream = <<>> THEN {link} ELSE {link, "reset"}
  /\ UNCHANGED <<upstream, downstream, typed, reader, screenBuffer, shown, brokerVars>>

EndOfInput ==
  /\ input = "open"
  /\ input' = "ended"
  /\ UNCHANGED <<streamVars, typed, clientSocket, reader, screenBuffer, shown, brokerVars>>

-----------------------------------------------------------------------------
(* The thread in Client::Read *)

\* read_until has no line yet, and calls recv.
AwaitBytes ==
  /\ reader = "reading" /\ clientSocket = "open"
  /\ ~HasLine(screenBuffer)
  /\ reader' = "waiting"
  /\ UNCHANGED <<streamVars, typed, clientSocket, input, screenBuffer, shown, brokerVars>>

\* recv returns some bytes; also after the shutdown, what had arrived before it.
ClientReceives ==
  /\ reader = "waiting"
  /\ \E n \in 1..Len(downstream) :
       /\ screenBuffer' = screenBuffer \o SubSeq(downstream, 1, n)
       /\ downstream' = SubSeq(downstream, n + 1, Len(downstream))
  /\ reader' = "reading"
  /\ UNCHANGED <<upstream, link, typed, clientSocket, input, shown, brokerVars>>

\* Mutant: a streambuf for every read_until, as in the session.
ShowLineFresh ==
  /\ reader = "reading"
  /\ HasLine(screenBuffer)
  /\ shown' = Append(shown, FirstLine(screenBuffer))
  /\ screenBuffer' = <<>>
  /\ UNCHANGED <<streamVars, typed, clientSocket, input, reader, brokerVars>>

\* read_until has a line: it is printed, and the rest stays in the streambuf.
ShowLine ==
  /\ reader = "reading"
  /\ HasLine(screenBuffer)
  /\ shown' = Append(shown, FirstLine(screenBuffer))
  /\ screenBuffer' = AfterLine(screenBuffer)
  /\ UNCHANGED <<streamVars, typed, clientSocket, input, reader, brokerVars>>

\* recv returns the end of the stream or an error, or is called on a socket that
\* is closed already.
ReaderEnds ==
  /\ \/ /\ reader = "waiting"
        /\ link # "up" \/ (socket[id] = "closed" /\ downstream = <<>>)
     \/ /\ reader = "reading" /\ clientSocket = "closed"
        /\ ~HasLine(screenBuffer)
  /\ reader' = "ended"
  /\ UNCHANGED <<streamVars, typed, clientSocket, input, screenBuffer, shown, brokerVars>>

-----------------------------------------------------------------------------
(* The session *)

ghostsUnchanged == UNCHANGED <<sent, handled, answers>>

\* The welcome is text 0.
Connection ==
  /\ link # "reset"
  /\ Accept(<<0>>)
  /\ UNCHANGED <<streamVars, clientVars, received>> /\ ghostsUnchanged

\* Some bytes arrive while async_read_until waits for a line.
SessionReceives ==
  /\ reading[id] = "pending"
  /\ \E n \in 1..Len(upstream) :
       /\ received' = received \o SubSeq(upstream, 1, n)
       /\ upstream' = SubSeq(upstream, n + 1, Len(upstream))
  /\ IF HasLine(received') THEN LineArrives(id) ELSE UNCHANGED sessionVars
  /\ UNCHANGED <<downstream, link, clientVars>> /\ ghostsUnchanged

SessionReadFails ==
  /\ link = "reset" \/ (link = "shut" /\ upstream = <<>>)
  /\ ReadFails(id)
  /\ UNCHANGED <<streamVars, clientVars, received>> /\ ghostsUnchanged

\* Mutant: the line stays in the streambuf of the next Read.
HandleAgain ==
  /\ reading[id] = "ready"
  /\ Respond(id, Nothing, <<sent + 1>>)
  /\ sent' = sent + 1
  /\ answers' = Append(answers, sent + 1)
  /\ handled' = Append(handled, FirstLine(received))
  /\ UNCHANGED <<received, streamVars, clientVars>>

\* Mutant: the handler does not Read() again.
HandleOnce ==
  /\ reading[id] = "ready"
  /\ Send([Nothing EXCEPT ![id] = <<sent + 1>>])
  /\ reading' = [reading EXCEPT ![id] = "idle"]
  /\ sent' = sent + 1
  /\ answers' = Append(answers, sent + 1)
  /\ handled' = Append(handled, FirstLine(received))
  /\ received' = <<>>
  /\ UNCHANGED <<nextSessionId, socket, streamVars, clientVars>>

\* The read handler: it takes one line out of its streambuf, answers it, and
\* calls Read(), which makes a new streambuf: the other bytes are gone.
Handle ==
  /\ reading[id] = "ready"
  /\ Respond(id, Nothing, <<sent + 1>>)
  /\ sent' = sent + 1
  /\ answers' = Append(answers, sent + 1)
  /\ handled' = Append(handled, FirstLine(received))
  /\ received' = <<>>
  /\ UNCHANGED <<streamVars, clientVars>>

\* Another session publishes, and the user of this one is subscribed.
Message ==
  /\ reading[id] # "idle"
  /\ sent - Len(answers) < MaxMessages
  /\ Send([Nothing EXCEPT ![id] = <<sent + 1>>])
  /\ sent' = sent + 1
  /\ UNCHANGED <<nextSessionId, socket, reading, received, handled, answers, streamVars, clientVars>>

\* The text at the front of the queue leaves; a client that has shut the
\* connection down does not get it.
SessionWrites ==
  /\ link # "reset"
  /\ WriteCompletes(id)
  /\ downstream' = IF link = "up"
                   THEN downstream \o Bytes(Head(outgoing[id])) ELSE downstream
  /\ UNCHANGED <<upstream, link, clientVars, received>> /\ ghostsUnchanged

SessionWriteFails ==
  /\ link # "up"
  /\ WriteFails(id)
  /\ UNCHANGED <<streamVars, clientVars, received>> /\ ghostsUnchanged

Written ==
  /\ WriteDone(id)
  /\ UNCHANGED <<streamVars, clientVars, received>> /\ ghostsUnchanged

\* The handler of an error: what is left in the streambuf is not looked at.
Disconnect ==
  /\ ReadError(id) \/ WriteError(id)
  /\ received' = IF reading[id] = "failed" THEN <<>> ELSE received
  /\ UNCHANGED <<streamVars, clientVars>> /\ ghostsUnchanged

\* The process of the broker dies, between two handlers: its socket is closed, and
\* a connection that was not accepted yet is reset.
BrokerDies ==
  /\ socket[id] # "closed"
  /\ link' = IF socket[id] = "none" THEN "reset" ELSE link
  /\ nextSessionId' = 2
  /\ socket' = [socket EXCEPT ![id] = "closed"]
  /\ reading' = [reading EXCEPT ![id] = "idle"]
  /\ writing' = [writing EXCEPT ![id] = "idle"]
  /\ outgoing' = Nothing
  /\ received' = <<>>
  /\ UNCHANGED <<upstream, downstream, clientVars>> /\ ghostsUnchanged

Reset ==
  /\ link # "reset"
  /\ link' = "reset"
  /\ UNCHANGED <<upstream, downstream, clientVars, brokerVars>>

-----------------------------------------------------------------------------
User == TypeLine \/ TypeFails \/ TypeExit \/ Close \/ EndOfInput
Reader == AwaitBytes \/ ClientReceives \/ ShowLine \/ ReaderEnds
Network == Connection \/ SessionReceives \/ SessionReadFails \/ SessionWrites \/ SessionWriteFails
Handlers == Handle \/ Written \/ Disconnect

Next == User \/ Reader \/ Network \/ Handlers \/ Message \/ BrokerDies \/ Reset

Spec == Init /\ [][Next]_vars

\* The threads of the client and the io_context run; a connection delivers what
\* it carries, or is reset.  What the user and other clients do is up to them.
Fairness ==
  /\ WF_vars(Close)
  /\ WF_vars(AwaitBytes) /\ WF_vars(ClientReceives) /\ WF_vars(ShowLine) /\ WF_vars(ReaderEnds)
  /\ WF_vars(Connection) /\ WF_vars(SessionReceives) /\ WF_vars(SessionReadFails)
  /\ WF_vars(SessionWrites) /\ WF_vars(SessionWriteFails)
  /\ WF_vars(Handle) /\ WF_vars(Written) /\ WF_vars(Disconnect)

FairSpec == Spec /\ Fairness

-----------------------------------------------------------------------------
Byte == Nat \X {"body", "end"}

\* The types of the two streams, of both ends of the connection and the ghosts.
TypeOK ==
  /\ nextSessionId \in 1..MaxSession + 1
  /\ socket \in [SessionIds -> {"none", "open", "closed"}]
  /\ reading \in [SessionIds -> {"idle", "pending", "ready", "failed"}]
  /\ writing \in [SessionIds -> {"idle", "pending", "done", "failed"}]
  /\ outgoing \in [SessionIds -> Seq(0..sent)]
  /\ upstream \in Seq(Byte) /\ downstream \in Seq(Byte)
  /\ received \in Seq(Byte) /\ screenBuffer \in Seq(Byte)
  /\ link \in {"up", "shut", "reset"}
  /\ typed \in 0..MaxTyped /\ sent \in Nat
  /\ clientSocket \in {"open", "closed"}
  /\ input \in {"open", "exiting", "exited", "ended"}
  /\ reader \in {"reading", "waiting", "ended"}
  /\ shown \in Seq(Seq(Byte)) /\ handled \in Seq(Seq(Byte))
  /\ answers \in Seq(1..sent)

\* The broker runs the lines that were typed, each whole, once and in order.  The
\* session drops what follows a line in its streambuf, and that is nothing as
\* long as the user waits for each answer, however the bytes are cut and
\* whatever other messages come in between (session.cpp:51-79).
LinesHandledInOrder == \A k \in DOMAIN handled : handled[k] = Bytes(k)

\* The client shows the texts of the broker, each whole, once and in order, with
\* as many of them in one read as there may be (client/main.cpp:105-141).
TextsShownInOrder == \A k \in DOMAIN shown : shown[k] = Bytes(k - 1)

\* Every line is answered, and the answer shown, unless the connection or the
\* broker breaks or the user leaves: over both streams, the two buffers and the
\* queue of the session, with other messages before and after
\* (docs/functional_requirements.md section 16).
EveryLineAnswered ==
  \A k \in 1..MaxTyped :
    typed >= k ~> \/ k \in Answered
                  \/ link # "up" \/ socket[id] = "closed"

\* The reader thread ends, for the join of Client::Run, after "exit", and when the
\* connection or the broker is gone, in whatever part of a text it is.  One that
\* waits in recv sleeps through the close of the socket by the other thread: only
\* the shutdown before it wakes the thread.  After a failed write, which leaves the
\* socket open, the broken connection does (client/main.cpp:36-41, 74-101, 105-130).
ReaderIsJoined ==
  (input \in {"exiting", "exited"} \/ link = "reset" \/ socket[id] = "closed")
    ~> reader = "ended"

\* A session whose client has left, or whose connection broke, ends: it always
\* has a read in flight that notices, in whatever state its writes are.
SessionEnds ==
  socket[id] = "open" /\ link # "up" ~> socket[id] = "closed"
=============================================================================
