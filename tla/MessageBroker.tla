---------------------------- MODULE MessageBroker ----------------------------
(***************************************************************************)
(* The running broker: MessageBroker::HandleCommand                        *)
(* (app/src/broker/message_broker.cpp) and the handlers of Session over    *)
(* ClientManager and TopicManager.                                         *)
(*                                                                         *)
(* A read handler finds a line, HandleCommand runs it, and the response is *)
(* sent: one action per command, which chooses the line when it is handled.*)
(* Publish numbers the messages.  Ghosts: published counts them,           *)
(* audience[n] is the set of registered subscribers when n was published,  *)
(* delivered the pairs <<c, n>> whose write has completed.                 *)
(***************************************************************************)
EXTENDS ClientManager, TopicManager

CONSTANTS
  MaxPublish,          \* bound: messages published in one run of the process
  MaxQueue,            \* bound: entries of all outgoing queues together
  OneLoginPerSession,  \* users log in only from a session without a client
  AllowRestart         \* the process may die and be started again

VARIABLES published, audience, delivered

ghostVars == <<published, audience, delivered>>
vars == <<sessionVars, clientVars, topicVars, ghostVars>>

ASSUME BrokerAssumption ==
  /\ MaxPublish \in Nat /\ MaxQueue \in Nat
  /\ OneLoginPerSession \in BOOLEAN /\ AllowRestart \in BOOLEAN

NoAudience == [n \in 1..MaxPublish |-> {}]

Init ==
  /\ ClientInit
  /\ topics = EmptyTable
  /\ topicsFile = EmptyTable
  /\ published = 0
  /\ audience = NoAudience
  /\ delivered = {}

-----------------------------------------------------------------------------
(* Commands: the read handler of session s, with a line *)

QueuesBounded == MapThenSumSet(LAMBDA s : Len(outgoing'[s]), SessionIds) <= MaxQueue

\* A line that no command takes, or a command that GetClientId refuses.
Refused(s) ==
  /\ Respond(s, Nothing, <<Text>>)
  /\ UNCHANGED <<clientVars, topicVars, ghostVars>>

InvalidLine(s) ==
  /\ reading[s] = "ready"
  /\ Refused(s)

MayLogIn(s) == OneLoginPerSession => Bound(s) = {}

Login(s, n) ==
  /\ reading[s] = "ready"
  /\ MayLogIn(s)
  /\ ConnectClient(n, s, clients)
  /\ UNCHANGED <<clients, clientsFile, topicVars, ghostVars>>

\* CreateClient, then, if it succeeds, ConnectClient.
Register(s, n, c, io) ==
  /\ reading[s] = "ready"
  /\ MayLogIn(s)
  /\ CreateClient(n, c, io)
  /\ IF SaveClient(clientsFile, c, n, io).ok
     THEN ConnectClient(n, s, [clients EXCEPT ![c] = n])
     ELSE Respond(s, Nothing, <<Text>>) /\ UNCHANGED <<session, buffer>>
  /\ UNCHANGED <<topicVars, ghostVars>>

Unauthorized(s) ==
  /\ reading[s] = "ready"
  /\ Bound(s) = {}
  /\ Refused(s)

\* SUBSCRIBE, CREATE and UNSUBSCRIBE of the client that GetClientId finds.
TopicCommand(s, t, io) ==
  /\ reading[s] = "ready"
  /\ \E c \in Bound(s) :
       \/ TopicSubscribe(c, t, io)
       \/ TopicCreate(c, t, io)
       \/ TopicUnsubscribe(c, t, io)
  /\ Respond(s, Nothing, <<Text>>)
  /\ UNCHANGED <<clientVars, ghostVars>>

Unlogin(s) ==
  /\ reading[s] = "ready"
  /\ \E c \in Bound(s) : UnloginClient(c)
  /\ Respond(s, Nothing, <<Text>>)
  /\ UNCHANGED <<clients, clientsFile, buffer, topicVars, ghostVars>>

\* PUBLISH to a topic there is not.
PublishNowhere(s, t) ==
  /\ reading[s] = "ready"
  /\ Bound(s) # {}
  /\ topics[t] = NoTopic
  /\ Refused(s)

Publish(s, t) ==
  LET n == published + 1
      receivers == Subscribers(t) \cap Registered
  IN  /\ reading[s] = "ready"
      /\ Bound(s) # {}
      /\ topics[t] # NoTopic
      /\ n <= MaxPublish
      /\ \E added \in FanOuts(n, receivers) : Respond(s, added, <<Text>>)
      /\ BufferTopicMessage(n, receivers)
      /\ published' = n
      /\ audience' = [audience EXCEPT ![n] = receivers]
      /\ UNCHANGED <<clients, clientsFile, session, topicVars, delivered>>

Command(s) ==
  /\ \/ InvalidLine(s)
     \/ \E n \in Names : Login(s, n)
     \/ \E n \in Names, c \in ClientIds, io \in SUBSET IoFaults : Register(s, n, c, io)
     \/ Unauthorized(s)
     \/ \E t \in Topics, io \in SUBSET IoFaults : TopicCommand(s, t, io)
     \/ Unlogin(s)
     \/ \E t \in Topics : PublishNowhere(s, t) \/ Publish(s, t)
  /\ QueuesBounded

-----------------------------------------------------------------------------
(* The other handlers, the system and the peers *)

\* Mutant: Disconnect returns early when the socket is already closed.
DisconnectOnce(s) ==
  /\ ReadError(s) \/ WriteError(s)
  /\ IF socket[s] = "open" THEN DisconnectClient(s) ELSE UNCHANGED session
  /\ UNCHANGED <<clients, clientsFile, buffer, topicVars, ghostVars>>

\* Mutant: a write error only closes the socket; the broker is not told.
DisconnectOnRead(s) ==
  /\ \/ ReadError(s) /\ DisconnectClient(s)
     \/ WriteError(s) /\ UNCHANGED session
  /\ UNCHANGED <<clients, clientsFile, buffer, topicVars, ghostVars>>

\* Both error handlers run Session::Disconnect, which ends in
\* MessageBroker::Disconnect.
Disconnect(s) ==
  /\ ReadError(s) \/ WriteError(s)
  /\ DisconnectClient(s)
  /\ UNCHANGED <<clients, clientsFile, buffer, topicVars, ghostVars>>

Written(s) ==
  /\ WriteDone(s)
  /\ delivered' = delivered \cup ({Head(outgoing[s])} \ {Text})
  /\ UNCHANGED <<clientVars, topicVars, published, audience>>

Handler(s) == Command(s) \/ Disconnect(s) \/ Written(s)

Environment(s) ==
  /\ LineArrives(s) \/ ReadFails(s) \/ WriteCompletes(s) \/ WriteFails(s)
  /\ UNCHANGED <<clientVars, topicVars, ghostVars>>

Connection ==
  /\ Accept(<<Text>>) \/ AcceptFails
  /\ UNCHANGED <<clientVars, topicVars, ghostVars>>

\* The process dies between two handlers and is started again: main loads the
\* clients, then the topics, and opens the server.  A command writes one file
\* once, so dying inside a command leaves the files that dying after it leaves
\* (or a torn one, which is the fault "tear").
Restart(clientIo, topicIo) ==
  /\ AllowRestart
  /\ SessionRestart
  /\ ClientLoad(clientIo)
  /\ TopicLoad(topicIo)
  /\ published' = 0
  /\ audience' = NoAudience
  /\ delivered' = {}

Next ==
  \/ Connection
  \/ \E s \in SessionIds : Handler(s) \/ Environment(s)
  \/ \E clientIo \in SUBSET IoFaults : \E topicIo \in SUBSET IoFaults :
       Restart(clientIo, topicIo)

Spec == Init /\ [][Next]_vars

\* io_context runs every handler that waits; nothing makes a peer send or read.
Fairness ==
  \A s \in SessionIds : WF_vars(Command(s)) /\ WF_vars(Disconnect(s)) /\ WF_vars(Written(s))

FairSpec == Spec /\ Fairness

-----------------------------------------------------------------------------
\* The types of the sessions, the clients, the topics and the ghosts; no session
\* gets the id that stands for "no session".
TypeOK ==
  /\ ClientTypeOK
  /\ TopicTypeOK
  /\ published \in 0..MaxPublish
  /\ audience \in [1..MaxPublish -> SUBSET ClientIds]
  /\ delivered \subseteq ClientIds \X Nat

\* No client is bound to a session that has stopped reading: nothing would have to
\* notice its disconnection any more, and it could stay "already connected" until
\* the process ends (functional_requirements.md section 13).  Whatever order the
\* errors of the read and the write are handled in, the read error releases the
\* client, also one of a LOGIN handled in between; after it at most the error of
\* the write that it aborted is left, which releases again and may find nobody
\* (session.cpp:51-117, clients_manager.cpp:81-121).
NoOrphanedLogin ==
  \A c \in ClientIds : session[c] # invalidSessionId => reading[session[c]] # "idle"

\* A client that is bound to a closed session is about to be released: the
\* handler that does it already waits.
ClosedSessionReleases ==
  \A s \in SessionIds : socket[s] = "closed" /\ Bound(s) # {} => reading[s] = "failed"

\* When the socket of a session is closed and none of its operations is left to be
\* handled, no client is bound to it: nothing would release that client before the
\* process ends (functional_requirements.md:229: on a disconnection the link
\* between session and client is removed).
ReleasedWithSession ==
  \A s \in SessionIds :
    socket[s] = "closed" /\ reading[s] = "idle" /\ writing[s] = "idle" => Bound(s) = {}

\* Session::Send decides from outgoing_.empty() whether a write is in flight.
\* That is right when there is one exactly if the queue is not empty - until a
\* write fails, which closes the socket and leaves the queue: no two writes
\* overlap, no entry waits with nobody writing, and DoWrite never takes the
\* front of an empty queue (session.cpp:40-49, 81-101).
WriteInFlight ==
  \A s \in SessionIds :
    /\ writing[s] # "idle" => outgoing[s] # <<>>
    /\ outgoing[s] # <<>> /\ socket[s] = "open" => writing[s] # "idle"

\* Where the copy of message n for client c is: its place in an outgoing queue,
\* its place in the buffer of c, or written to the socket.
Positions(sequence, e) == {i \in 1..Len(sequence) : sequence[i] = e}
Whereabouts(c, n) ==
  (UNION {{s} \X Positions(outgoing[s], <<c, n>>) : s \in SessionIds})
    \cup ({invalidSessionId} \X Positions(buffer[c], n))
    \cup (IF <<c, n>> \in delivered THEN {<<invalidSessionId, 0>>} ELSE {})

\* Every message that was accepted has, for every registered subscriber of that
\* moment, exactly one copy - queued, buffered or written - and none for anyone
\* else, across logins, logouts, disconnections and flushed buffers
\* (functional_requirements.md section 10).
OneCopyPerSubscriber ==
  \A n \in 1..MaxPublish, c \in ClientIds :
    Cardinality(Whereabouts(c, n)) = IF c \in audience[n] THEN 1 ELSE 0

\* Messages stay in the order they were published in: on each session the
\* copies for a client increase, so do the buffered ones, and a buffered message
\* is younger than whatever is still queued for the client.
PublishOrderKept ==
  \A c \in ClientIds :
    /\ \A i, j \in 1..Len(buffer[c]) : i < j => buffer[c][i] < buffer[c][j]
    /\ \A s \in SessionIds : \A i \in 1..Len(outgoing[s]) :
         outgoing[s][i][1] = c =>
           /\ \A j \in i + 1..Len(outgoing[s]) :
                outgoing[s][j][1] = c => outgoing[s][i][2] < outgoing[s][j][2]
           /\ \A j \in 1..Len(buffer[c]) : outgoing[s][i][2] < buffer[c][j]

\* No topic has a subscriber that is not registered, so SendTopicMessage never
\* skips one, and no new client gets an id that is already subscribed: also
\* after a restart, which loads the two files separately.
SubscribersRegistered == \A t \in Topics : Subscribers(t) \subseteq Registered

\* Two registered clients have different names (functional_requirements.md
\* section 5: REGISTER with an existing name is an error).
NamesUnique == \A c, d \in Registered : clients[c] = clients[d] => c = d

\* Messages kept for a client leave its buffer only towards a connected peer
\* (clients_manager.cpp:99: on connecting, a client gets the messages sent while
\* it was away).
FlushedToOpenSocket ==
  [][\A c \in ClientIds :
       buffer[c] # <<>> /\ buffer'[c] = <<>> /\ session'[c] # invalidSessionId
         => socket[session'[c]] = "open"]_vars

\* When the socket of a session is closed, its clients are eventually released
\* and none is ever bound to it again: they can log in from elsewhere.
ReleasedForGood ==
  \A s \in SessionIds : socket[s] = "closed" ~> [](Bound(s) = {})

\* A copy queued on a session is eventually written, unless the session closes
\* or its peer stops reading for good: the write that is then in flight stays
\* so, as Session has no timeout for it (session.cpp:40-49, 81-101).
QueuedIsWritten ==
  \A s \in SessionIds, c \in ClientIds, n \in 1..MaxPublish :
    (\E i \in 1..Len(outgoing[s]) : outgoing[s][i] = <<c, n>>)
      ~> (<<c, n>> \in delivered \/ socket[s] = "closed" \/ [](writing[s] = "pending"))
=============================================================================
