------------------------- MODULE MessageBrokerProofs -------------------------
(***************************************************************************)
(* Proofs of invariants of MessageBroker, for any number of clients, names,*)
(* topics, sessions and messages, under every I/O fault and restart.       *)
(***************************************************************************)
EXTENDS MessageBroker, TopicManagerProofs, SequenceTheorems, FiniteSetTheorems

-----------------------------------------------------------------------------
(* The sessions: types, and a write in flight exactly while one is due *)

\* The texts that are sent are entries of a queue.
LEMMA EntryTypes == Text \in Entries /\ <<Text>> \in Seq(Entries) /\ Nothing \in [SessionIds -> Seq(Entries)]
  <1>1. Text \in Entries
    BY DEF Entries
  <1>2. \A e \in Entries : <<e>> \in Seq(Entries)
    OBVIOUS
  <1>3. <<>> \in Seq(Entries)
    OBVIOUS
  <1> QED BY <1>1, <1>2, <1>3 DEF Nothing

\* The end of a command handler, whatever was sent on the way.
LEMMA RespondStep ==
  ASSUME SessionTypeOK, WriteInFlight, NEW s \in SessionIds,
         NEW added \in [SessionIds -> Seq(Entries)], Respond(s, added, <<Text>>)
  PROVE  SessionTypeOK' /\ WriteInFlight'
  <1> DEFINE all == [added EXCEPT ![s] = @ \o <<Text>>]
  <1>1. all \in [SessionIds -> Seq(Entries)]
    BY EntryTypes
  <1> HIDE DEF all
  <1>2. /\ outgoing' = [x \in SessionIds |-> outgoing[x] \o all[x]]
        /\ writing' = [x \in SessionIds |->
                         IF outgoing[x] = <<>> /\ all[x] # <<>> THEN Started(x) ELSE writing[x]]
        /\ reading' = [reading EXCEPT ![s] = Started(s)]
        /\ UNCHANGED <<nextSessionId, socket>>
    BY DEF Respond, Send, all
  <1>3. \A x \in SessionIds : Started(x) \in {"pending", "failed"}
    BY DEF Started
  <1>4. \A x \in SessionIds :
          /\ outgoing[x] \o all[x] \in Seq(Entries)
          /\ outgoing[x] \o all[x] = <<>> <=> outgoing[x] = <<>> /\ all[x] = <<>>
    BY <1>1, ConcatProperties, ConcatEqualIffEmpty DEF SessionTypeOK
  <1>5. SessionTypeOK'
    BY <1>2, <1>3, <1>4 DEF SessionTypeOK
  <1>6. WriteInFlight'
    BY <1>2, <1>3, <1>4 DEF WriteInFlight, SessionTypeOK
  <1> QED BY <1>5, <1>6

\* An accept that succeeds or fails keeps the sessions right.
LEMMA ConnectionStep ==
  ASSUME SessionTypeOK, WriteInFlight, Accept(<<Text>>) \/ AcceptFails
  PROVE  SessionTypeOK' /\ WriteInFlight'
  <1>1. <<Text>> # <<>> /\ <<Text>> \in Seq(Entries)
    BY EntryTypes
  <1>2. CASE Accept(<<Text>>)
    BY <1>1, <1>2, SessionAssumption DEF Accept, SessionTypeOK, WriteInFlight, SessionIds
  <1>3. CASE AcceptFails
    BY <1>3, SessionAssumption DEF AcceptFails, SessionTypeOK, WriteInFlight, SessionIds
  <1> QED BY <1>2, <1>3

\* So does the system ending an operation.
LEMMA EnvironmentStep ==
  ASSUME SessionTypeOK, WriteInFlight, NEW s \in SessionIds,
         LineArrives(s) \/ ReadFails(s) \/ WriteCompletes(s) \/ WriteFails(s)
  PROVE  SessionTypeOK' /\ WriteInFlight'
  BY DEF LineArrives, ReadFails, WriteCompletes, WriteFails, ReadEnds, WriteEnds,
         SessionTypeOK, WriteInFlight

\* So does a write handler, which finds an entry at the head.
LEMMA WriteDoneStep ==
  ASSUME SessionTypeOK, WriteInFlight, NEW s \in SessionIds, WriteDone(s)
  PROVE  SessionTypeOK' /\ WriteInFlight' /\ Head(outgoing[s]) \in Entries
  <1>1. outgoing[s] \in Seq(Entries) /\ outgoing[s] # <<>>
    BY DEF WriteDone, WriteInFlight, SessionTypeOK
  <1>2. Head(outgoing[s]) \in Entries /\ Tail(outgoing[s]) \in Seq(Entries)
    BY <1>1, HeadTailProperties
  <1>3. Started(s) \in {"pending", "failed"}
    BY DEF Started
  <1>4. SessionTypeOK'
    BY <1>2, <1>3 DEF WriteDone, SessionTypeOK
  <1>5. WriteInFlight'
    BY <1>2, <1>3 DEF WriteDone, WriteInFlight, SessionTypeOK
  <1> QED BY <1>2, <1>4, <1>5

\* So does an error handler.
LEMMA ErrorStep ==
  ASSUME SessionTypeOK, WriteInFlight, NEW s \in SessionIds, ReadError(s) \/ WriteError(s)
  PROVE  SessionTypeOK' /\ WriteInFlight'
  <1>1. CASE ReadError(s)
    BY <1>1 DEF ReadError, CloseSocket, Aborted, SessionTypeOK, WriteInFlight
  <1>2. CASE WriteError(s)
    BY <1>2 DEF WriteError, CloseSocket, Aborted, SessionTypeOK, WriteInFlight
  <1> QED BY <1>1, <1>2

\* So does a restart.
LEMMA SessionRestartStep ==
  ASSUME SessionRestart
  PROVE  SessionTypeOK' /\ WriteInFlight'
  BY SessionAssumption, EntryTypes DEF SessionRestart, SessionTypeOK, WriteInFlight, SessionIds

-----------------------------------------------------------------------------
(* The clients *)

ClientPartOK ==
  /\ clients \in Registries
  /\ clientsFile \in Registries \cup {Absent, Torn}
  /\ session \in [ClientIds -> SessionIds \cup {invalidSessionId}]
  /\ buffer \in [ClientIds -> Seq(Nat)]

\* A flushed buffer is a sequence of entries.
LEMMA FlushedType ==
  ASSUME ClientPartOK, NEW c \in ClientIds
  PROVE  Flushed(c) \in Seq(Entries)
  <1> DEFINE kept == [i \in 1..Len(buffer[c]) |-> <<c, buffer[c][i]>>]
  <1>1. buffer[c] \in Seq(Nat)
    BY DEF ClientPartOK
  <1>2. Len(buffer[c]) \in Nat /\ \A i \in 1..Len(buffer[c]) : buffer[c][i] \in Nat
    BY <1>1, LenProperties, ElementOfSeq
  <1>3. \A i \in 1..Len(buffer[c]) : <<c, buffer[c][i]>> \in Entries
    BY <1>2 DEF Entries
  <1>4. kept \in Seq(Entries)
    BY <1>2, <1>3
  <1> HIDE DEF kept
  <1>5. <<Text>> \o kept \in Seq(Entries)
    BY <1>4, EntryTypes, ConcatProperties
  <1> QED BY <1>5 DEF Flushed, kept

\* LOGIN keeps the sessions right and the clients of their types.
LEMMA ConnectClientStep ==
  ASSUME SessionTypeOK, WriteInFlight, ClientPartOK, NEW n, NEW s \in SessionIds,
         NEW registry, ConnectClient(n, s, registry)
  PROVE  /\ SessionTypeOK' /\ WriteInFlight'
         /\ session' \in [ClientIds -> SessionIds \cup {invalidSessionId}]
         /\ buffer' \in [ClientIds -> Seq(Nat)]
  <1>1. CASE Respond(s, Nothing, <<Text>>) /\ UNCHANGED <<session, buffer>>
    BY <1>1, EntryTypes, RespondStep DEF ClientPartOK
  <1>2. ASSUME NEW c \in ClientIds,
               session' = [session EXCEPT ![c] = s],
               buffer' = [buffer EXCEPT ![c] = <<>>],
               Respond(s, [Nothing EXCEPT ![s] = Flushed(c)], <<Text>>)
        PROVE  /\ SessionTypeOK' /\ WriteInFlight'
               /\ session' \in [ClientIds -> SessionIds \cup {invalidSessionId}]
               /\ buffer' \in [ClientIds -> Seq(Nat)]
    <2>1. [Nothing EXCEPT ![s] = Flushed(c)] \in [SessionIds -> Seq(Entries)]
      BY EntryTypes, FlushedType
    <2>2. SessionTypeOK' /\ WriteInFlight'
      BY <1>2, <2>1, RespondStep
    <2> QED BY <1>2, <2>2 DEF ClientPartOK
  <1> QED BY <1>1, <1>2 DEF ConnectClient

\* SaveClient leaves a registry, or a torn file.
LEMMA SaveClientType ==
  ASSUME NEW file \in Registries \cup {Absent, Torn}, NEW c \in ClientIds, NEW n \in Names, NEW io
  PROVE  SaveClient(file, c, n, io).file \in Registries \cup {Absent, Torn}
  BY DEF SaveClient, Stored, Failed, Parses, Opens, Registries

\* REGISTER keeps the types of the registry and of its file.
LEMMA CreateClientStep ==
  ASSUME ClientPartOK, NEW n \in Names, NEW c \in ClientIds, NEW io, CreateClient(n, c, io)
  PROVE  clients' \in Registries /\ clientsFile' \in Registries \cup {Absent, Torn}
  <1>1. SaveClient(clientsFile, c, n, io).file \in Registries \cup {Absent, Torn}
    BY SaveClientType DEF ClientPartOK
  <1>2. [clients EXCEPT ![c] = n] \in Registries
    BY DEF ClientPartOK, Registries
  <1> QED BY <1>1, <1>2 DEF CreateClient, ClientPartOK

\* So does a restart.
LEMMA ClientLoadStep ==
  ASSUME ClientPartOK, NEW io, ClientLoad(io)
  PROVE  ClientPartOK'
  <1>1. EmptyRegistry \in Registries
    BY DEF EmptyRegistry, Registries
  <1>2. clients' \in Registries /\ clientsFile' \in Registries \cup {Absent, Torn}
    BY <1>1 DEF ClientLoad, ClientPartOK, Loaded, Stored, Parses, Opens
  <1>3. /\ session' \in [ClientIds -> SessionIds \cup {invalidSessionId}]
        /\ buffer' \in [ClientIds -> Seq(Nat)]
    BY DEF ClientLoad
  <1> QED BY <1>2, <1>3 DEF ClientPartOK

\* Releasing a client keeps the type of the bindings.
LEMMA DisconnectClientStep ==
  ASSUME ClientPartOK, NEW s \in SessionIds, DisconnectClient(s)
  PROVE  session' \in [ClientIds -> SessionIds \cup {invalidSessionId}]
  BY DEF DisconnectClient, Bound, ClientPartOK

\* What PUBLISH queues are sequences of entries.
LEMMA FanOutType ==
  ASSUME NEW n \in Nat, NEW receivers \in SUBSET ClientIds, NEW added \in FanOuts(n, receivers)
  PROVE  added \in [SessionIds -> Seq(Entries)]
  <1> SUFFICES ASSUME NEW s \in SessionIds PROVE added[s] \in Seq(Entries)
    BY DEF FanOuts
  <1> DEFINE copies == {c \in receivers : session[c] = s} \X {n}
  <1>1. added[s] \in SetToSeqs(copies)
    BY DEF FanOuts
  <1>2. IsFiniteSet(copies)
    <2>1. IsFiniteSet({c \in receivers : session[c] = s})
      BY ClientAssumption, FS_Subset
    <2>2. IsFiniteSet({n})
      BY FS_Singleton
    <2> QED BY <2>1, <2>2, FS_Product
  <1>3. copies \subseteq Entries
    BY DEF Entries
  <1> HIDE DEF copies
  <1>4. Cardinality(copies) \in Nat
    BY <1>2, FS_CardinalityType
  <1>5. added[s] \in [1..Cardinality(copies) -> copies]
    BY <1>1 DEF SetToSeqs
  <1> QED BY <1>3, <1>4, <1>5

\* What it buffers are message numbers.
LEMMA BufferStep ==
  ASSUME ClientPartOK, NEW n \in Nat, NEW receivers, BufferTopicMessage(n, receivers)
  PROVE  buffer' \in [ClientIds -> Seq(Nat)]
  <1>1. \A c \in ClientIds : buffer[c] \in Seq(Nat) /\ Append(buffer[c], n) \in Seq(Nat)
    BY DEF ClientPartOK
  <1> QED BY <1>1 DEF BufferTopicMessage

-----------------------------------------------------------------------------
(* Type correctness, which WriteInFlight supports: DoWrite's handler pops the *)
(* head of a queue that only WriteInFlight shows is not empty.                *)

GhostTypeOK ==
  /\ published \in 0..MaxPublish
  /\ audience \in [1..MaxPublish -> SUBSET ClientIds]
  /\ delivered \subseteq ClientIds \X Nat

QueueInv == SessionTypeOK /\ ClientPartOK /\ TopicTypeOK /\ GhostTypeOK /\ WriteInFlight

\* The invariant holds at the start ...
LEMMA InitQueueInv == Init => QueueInv
  <1> SUFFICES ASSUME Init PROVE QueueInv
    OBVIOUS
  <1>1. SessionTypeOK /\ WriteInFlight
    <2>1. <<>> \in Seq(Entries)
      BY EmptySeq
    <2>2. 1 \in 1..MaxSession + 1
      BY SessionAssumption
    <2> QED BY <2>1, <2>2 DEF Init, ClientInit, SessionInit, SessionTypeOK, WriteInFlight
  <1>2. ClientPartOK
    BY DEF Init, ClientInit, ClientPartOK, EmptyRegistry, Registries
  <1>3. TopicTypeOK
    BY DEF Init, TopicTypeOK, EmptyTable, Tables
  <1>4. GhostTypeOK
    BY BrokerAssumption DEF Init, GhostTypeOK, NoAudience
  <1> QED BY <1>1, <1>2, <1>3, <1>4 DEF QueueInv

\* One command of session s.
LEMMA CommandQueueInv ==
  ASSUME QueueInv, NEW s \in SessionIds, Command(s)
  PROVE  QueueInv'
  <1>0. SessionTypeOK /\ ClientPartOK /\ TopicTypeOK /\ GhostTypeOK /\ WriteInFlight
    BY DEF QueueInv
  <1> USE DEF clientVars, topicVars, ghostVars
  <1>1. ASSUME Refused(s)
        PROVE  QueueInv'
    <2>1. SessionTypeOK' /\ WriteInFlight'
      BY <1>0, <1>1, EntryTypes, RespondStep DEF Refused
    <2> QED BY <1>0, <1>1, <2>1 DEF QueueInv, Refused, ClientPartOK, TopicTypeOK, GhostTypeOK
  <1>2. ASSUME NEW n \in Names, Login(s, n)
        PROVE  QueueInv'
    <2>1. /\ SessionTypeOK' /\ WriteInFlight'
          /\ session' \in [ClientIds -> SessionIds \cup {invalidSessionId}]
          /\ buffer' \in [ClientIds -> Seq(Nat)]
      BY <1>0, <1>2, ConnectClientStep DEF Login
    <2> QED BY <1>0, <1>2, <2>1 DEF QueueInv, Login, ClientPartOK, TopicTypeOK, GhostTypeOK
  <1>3. ASSUME NEW n \in Names, NEW c \in ClientIds, NEW io, Register(s, n, c, io)
        PROVE  QueueInv'
    <2>1. clients' \in Registries /\ clientsFile' \in Registries \cup {Absent, Torn}
      BY <1>0, <1>3, CreateClientStep DEF Register
    <2>2. /\ SessionTypeOK' /\ WriteInFlight'
          /\ session' \in [ClientIds -> SessionIds \cup {invalidSessionId}]
          /\ buffer' \in [ClientIds -> Seq(Nat)]
      <3>1. CASE ConnectClient(n, s, [clients EXCEPT ![c] = n])
        BY <1>0, <3>1, ConnectClientStep
      <3>2. CASE Respond(s, Nothing, <<Text>>) /\ UNCHANGED <<session, buffer>>
        BY <1>0, <3>2, EntryTypes, RespondStep DEF ClientPartOK
      <3> QED BY <1>3, <3>1, <3>2 DEF Register
    <2> QED BY <1>0, <1>3, <2>1, <2>2 DEF QueueInv, Register, ClientPartOK, TopicTypeOK, GhostTypeOK
  <1>4. ASSUME NEW t \in Topics, NEW io, TopicCommand(s, t, io)
        PROVE  QueueInv'
    <2>1. SessionTypeOK' /\ WriteInFlight'
      BY <1>0, <1>4, EntryTypes, RespondStep DEF TopicCommand
    <2>2. PICK c \in Bound(s) :
            TopicSubscribe(c, t, io) \/ TopicCreate(c, t, io) \/ TopicUnsubscribe(c, t, io)
      BY <1>4 DEF TopicCommand
    <2>3. TopicTypeOK'
      BY <1>0, <2>2, OperationType DEF Bound
    <2> QED BY <1>0, <1>4, <2>1, <2>3 DEF QueueInv, TopicCommand, ClientPartOK, GhostTypeOK
  <1>5. ASSUME Unlogin(s)
        PROVE  QueueInv'
    <2>1. SessionTypeOK' /\ WriteInFlight'
      BY <1>0, <1>5, EntryTypes, RespondStep DEF Unlogin
    <2>2. session' \in [ClientIds -> SessionIds \cup {invalidSessionId}]
      BY <1>0, <1>5 DEF Unlogin, UnloginClient, Bound, ClientPartOK
    <2> QED BY <1>0, <1>5, <2>1, <2>2 DEF QueueInv, Unlogin, ClientPartOK, TopicTypeOK, GhostTypeOK
  <1>6. ASSUME NEW t \in Topics, Publish(s, t)
        PROVE  QueueInv'
    <2> DEFINE n == published + 1
               receivers == Subscribers(t) \cap Registered
    <2>1. n \in Nat /\ n \in 1..MaxPublish /\ receivers \in SUBSET ClientIds
      BY <1>0, <1>6, BrokerAssumption DEF Publish, GhostTypeOK, Registered
    <2>2. PICK added \in FanOuts(n, receivers) : Respond(s, added, <<Text>>)
      BY <1>6 DEF Publish
    <2>3. BufferTopicMessage(n, receivers)
      BY <1>6 DEF Publish
    <2>4. audience' = [audience EXCEPT ![n] = receivers] /\ published' = n
      BY <1>6 DEF Publish
    <2> HIDE DEF n, receivers
    <2>5. SessionTypeOK' /\ WriteInFlight'
      BY <1>0, <2>1, <2>2, FanOutType, RespondStep
    <2>6. buffer' \in [ClientIds -> Seq(Nat)]
      BY <1>0, <2>1, <2>3, BufferStep
    <2>7. /\ published' \in 0..MaxPublish
          /\ audience' \in [1..MaxPublish -> SUBSET ClientIds]
      BY <1>0, <2>1, <2>4, BrokerAssumption DEF GhostTypeOK
    <2> QED BY <1>0, <1>6, <2>5, <2>6, <2>7 DEF QueueInv, Publish, ClientPartOK, TopicTypeOK, GhostTypeOK
  <1> QED BY <1>1, <1>2, <1>3, <1>4, <1>5, <1>6
          DEF Command, InvalidLine, Unauthorized, PublishNowhere

\* ... and after every step.
LEMMA StepQueueInv == QueueInv /\ [Next]_vars => QueueInv'
  <1> SUFFICES ASSUME QueueInv, [Next]_vars PROVE QueueInv'
    OBVIOUS
  <1>0. SessionTypeOK /\ ClientPartOK /\ TopicTypeOK /\ GhostTypeOK /\ WriteInFlight
    BY DEF QueueInv
  <1> USE DEF clientVars, topicVars, ghostVars
  <1>1. CASE Connection
    <2>1. SessionTypeOK' /\ WriteInFlight'
      BY <1>0, <1>1, ConnectionStep DEF Connection
    <2> QED BY <1>0, <1>1, <2>1
            DEF Connection, QueueInv, ClientPartOK, TopicTypeOK, GhostTypeOK
  <1>2. ASSUME NEW s \in SessionIds, Command(s) PROVE QueueInv'
    BY <1>2, CommandQueueInv
  <1>3. ASSUME NEW s \in SessionIds, Disconnect(s) PROVE QueueInv'
    <2>1. SessionTypeOK' /\ WriteInFlight'
      BY <1>0, <1>3, ErrorStep DEF Disconnect
    <2>2. session' \in [ClientIds -> SessionIds \cup {invalidSessionId}]
      BY <1>0, <1>3, DisconnectClientStep DEF Disconnect
    <2> QED BY <1>0, <1>3, <2>1, <2>2
            DEF Disconnect, QueueInv, ClientPartOK, TopicTypeOK, GhostTypeOK
  <1>4. ASSUME NEW s \in SessionIds, Written(s) PROVE QueueInv'
    <2>1. SessionTypeOK' /\ WriteInFlight' /\ Head(outgoing[s]) \in Entries
      BY <1>0, <1>4, WriteDoneStep DEF Written
    <2>2. delivered' \subseteq ClientIds \X Nat
      BY <1>0, <1>4, <2>1 DEF Written, GhostTypeOK, Entries
    <2> QED BY <1>0, <1>4, <2>1, <2>2
            DEF Written, QueueInv, ClientPartOK, TopicTypeOK, GhostTypeOK
  <1>5. ASSUME NEW s \in SessionIds, Environment(s) PROVE QueueInv'
    <2>1. SessionTypeOK' /\ WriteInFlight'
      BY <1>0, <1>5, EnvironmentStep DEF Environment
    <2> QED BY <1>0, <1>5, <2>1
            DEF Environment, QueueInv, ClientPartOK, TopicTypeOK, GhostTypeOK
  <1>6. ASSUME NEW clientIo, NEW topicIo, Restart(clientIo, topicIo) PROVE QueueInv'
    <2>1. SessionTypeOK' /\ WriteInFlight'
      BY <1>6, SessionRestartStep DEF Restart
    <2>2. ClientPartOK'
      BY <1>0, <1>6, ClientLoadStep DEF Restart
    <2>3. TopicTypeOK'
      BY <1>0, <1>6, LoadType DEF Restart
    <2>4. GhostTypeOK'
      BY <1>6, BrokerAssumption DEF Restart, GhostTypeOK, NoAudience
    <2> QED BY <2>1, <2>2, <2>3, <2>4 DEF QueueInv
  <1>7. CASE UNCHANGED vars
    BY <1>0, <1>7
       DEF vars, sessionVars, QueueInv, SessionTypeOK, WriteInFlight, ClientPartOK,
           TopicTypeOK, GhostTypeOK
  <1> QED BY <1>1, <1>2, <1>3, <1>4, <1>5, <1>6, <1>7 DEF Next, Handler

\* The whole broker keeps its types.
THEOREM TypeCorrect == Spec => []TypeOK
  <1>1. QueueInv => TypeOK
    BY DEF QueueInv, TypeOK, ClientTypeOK, ClientPartOK, GhostTypeOK
  <1> QED BY <1>1, InitQueueInv, StepQueueInv, PTL DEF Spec

\* On every session one write is in flight exactly while the queue is not
\* empty, until its socket is closed: no overlapped writes, no stalled queue,
\* no front of an empty queue.
THEOREM WritesNeverOverlapOrStall == Spec => []WriteInFlight
  <1>1. QueueInv => WriteInFlight
    BY DEF QueueInv
  <1> QED BY <1>1, InitQueueInv, StepQueueInv, PTL DEF Spec

-----------------------------------------------------------------------------
(* Sessions release their clients.  DisconnectClient releases one client, so *)
(* the argument needs that a session never has two, which is what the users' *)
(* discipline OneLoginPerSession gives and the code does not enforce.        *)

OneClientPerSession ==
  \A c, d \in ClientIds : session[c] = session[d] /\ session[c] # invalidSessionId => c = d

ReleaseInv == NoOrphanedLogin /\ ClosedSessionReleases /\ OneClientPerSession

\* What a command of session s does to the bindings: nothing, a client more on
\* s if there was none, or a client less.
Rebinding(s) ==
  \/ UNCHANGED session
  \/ Bound(s) = {} /\ \E c \in ClientIds : session' = [session EXCEPT ![c] = s]
  \/ \E c \in ClientIds : session' = [session EXCEPT ![c] = invalidSessionId]

\* Every command rebinds as said, leaves the sockets alone and reads again.
LEMMA CommandRebinds ==
  ASSUME OneLoginPerSession, NEW s \in SessionIds, Command(s)
  PROVE  /\ Rebinding(s)
         /\ UNCHANGED socket
         /\ reading' = [reading EXCEPT ![s] = Started(s)]
  <1> USE DEF Respond, clientVars
  <1>1. ASSUME Refused(s)
        PROVE  Rebinding(s) /\ UNCHANGED socket /\ reading' = [reading EXCEPT ![s] = Started(s)]
    BY <1>1 DEF Refused, Rebinding
  <1>2. ASSUME NEW n, NEW registry, MayLogIn(s), ConnectClient(n, s, registry)
        PROVE  Rebinding(s) /\ UNCHANGED socket /\ reading' = [reading EXCEPT ![s] = Started(s)]
    BY <1>2 DEF MayLogIn, ConnectClient, Rebinding
  <1>3. ASSUME NEW n \in Names, Login(s, n)
        PROVE  Rebinding(s) /\ UNCHANGED socket /\ reading' = [reading EXCEPT ![s] = Started(s)]
    BY <1>2, <1>3 DEF Login
  <1>4. ASSUME NEW n \in Names, NEW c \in ClientIds, NEW io, Register(s, n, c, io)
        PROVE  Rebinding(s) /\ UNCHANGED socket /\ reading' = [reading EXCEPT ![s] = Started(s)]
    <2>1. CASE ConnectClient(n, s, [clients EXCEPT ![c] = n])
      BY <1>2, <1>4, <2>1 DEF Register
    <2>2. CASE Respond(s, Nothing, <<Text>>) /\ UNCHANGED <<session, buffer>>
      BY <2>2 DEF Rebinding
    <2> QED BY <1>4, <2>1, <2>2 DEF Register
  <1>5. ASSUME NEW t \in Topics, NEW io, TopicCommand(s, t, io)
        PROVE  Rebinding(s) /\ UNCHANGED socket /\ reading' = [reading EXCEPT ![s] = Started(s)]
    BY <1>5 DEF TopicCommand, Rebinding
  <1>6. ASSUME Unlogin(s)
        PROVE  Rebinding(s) /\ UNCHANGED socket /\ reading' = [reading EXCEPT ![s] = Started(s)]
    BY <1>6 DEF Unlogin, UnloginClient, Bound, Rebinding
  <1>7. ASSUME NEW t \in Topics, Publish(s, t)
        PROVE  Rebinding(s) /\ UNCHANGED socket /\ reading' = [reading EXCEPT ![s] = Started(s)]
    BY <1>7 DEF Publish, Rebinding
  <1> QED BY <1>1, <1>3, <1>4, <1>5, <1>6, <1>7
          DEF Command, InvalidLine, Unauthorized, PublishNowhere

\* The binding of each client after a Rebinding, client by client.
LEMMA RebindingCases ==
  ASSUME ClientPartOK, NEW s \in SessionIds, Rebinding(s), OneClientPerSession
  PROVE  /\ \A d \in ClientIds : session'[d] \in {session[d], s, invalidSessionId}
         /\ OneClientPerSession'
  <1>1. s # invalidSessionId
    BY SessionAssumption DEF SessionIds, invalidSessionId
  <1>2. CASE UNCHANGED session
    BY <1>2 DEF OneClientPerSession
  <1>3. ASSUME NEW c \in ClientIds, Bound(s) = {}, session' = [session EXCEPT ![c] = s]
        PROVE  /\ \A d \in ClientIds : session'[d] \in {session[d], s, invalidSessionId}
               /\ OneClientPerSession'
    <2>1. session'[c] = s /\ \A d \in ClientIds : d # c => session'[d] = session[d]
      BY <1>3 DEF ClientPartOK
    <2>2. \A d \in ClientIds : session[d] # s
      BY <1>3 DEF Bound
    <2> QED BY <2>1, <2>2 DEF OneClientPerSession
  <1>4. ASSUME NEW c \in ClientIds, session' = [session EXCEPT ![c] = invalidSessionId]
        PROVE  /\ \A d \in ClientIds : session'[d] \in {session[d], s, invalidSessionId}
               /\ OneClientPerSession'
    <2>1. session'[c] = invalidSessionId /\ \A d \in ClientIds : d # c => session'[d] = session[d]
      BY <1>4 DEF ClientPartOK
    <2> QED BY <2>1 DEF OneClientPerSession
  <1> QED BY <1>2, <1>3, <1>4 DEF Rebinding

\* Disconnect leaves nobody on the session it closes.
LEMMA DisconnectReleases ==
  ASSUME ClientPartOK, OneClientPerSession, NEW s \in SessionIds, DisconnectClient(s)
  PROVE  /\ \A d \in ClientIds : session'[d] # s
         /\ \A d \in ClientIds : session'[d] \in {session[d], invalidSessionId}
         /\ OneClientPerSession'
  <1>1. s # invalidSessionId
    BY SessionAssumption DEF SessionIds, invalidSessionId
  <1>2. CASE Bound(s) = {} /\ UNCHANGED session
    BY <1>2 DEF Bound, OneClientPerSession
  <1>3. ASSUME NEW c \in Bound(s), session' = [session EXCEPT ![c] = invalidSessionId]
        PROVE  /\ \A d \in ClientIds : session'[d] # s
               /\ \A d \in ClientIds : session'[d] \in {session[d], invalidSessionId}
               /\ OneClientPerSession'
    <2>1. /\ c \in ClientIds /\ session[c] = s /\ session'[c] = invalidSessionId
          /\ \A d \in ClientIds : d # c => session'[d] = session[d]
      BY <1>3 DEF ClientPartOK, Bound
    <2>2. \A d \in ClientIds : d # c => session[d] # s
      BY <1>1, <2>1 DEF OneClientPerSession
    <2> QED BY <1>1, <2>1, <2>2 DEF OneClientPerSession
  <1> QED BY <1>2, <1>3 DEF DisconnectClient

\* Every step keeps the release invariant ...
LEMMA StepReleaseInv ==
  ASSUME OneLoginPerSession, QueueInv, ReleaseInv, [Next]_vars
  PROVE  ReleaseInv'
  <1>0. /\ SessionTypeOK /\ ClientPartOK
        /\ NoOrphanedLogin /\ ClosedSessionReleases /\ OneClientPerSession
    BY DEF QueueInv, ReleaseInv
  <1>1. CASE Connection
    <2>1. UNCHANGED session /\ nextSessionId \in SessionIds
      BY <1>1 DEF Connection, clientVars, Accept, AcceptFails
    <2>2. CASE Accept(<<Text>>)
      BY <1>0, <2>1, <2>2 DEF Accept, ReleaseInv, NoOrphanedLogin, ClosedSessionReleases,
                         OneClientPerSession, Bound, SessionTypeOK, ClientPartOK
    <2>3. CASE AcceptFails
      BY <1>0, <2>1, <2>3 DEF AcceptFails, ReleaseInv, NoOrphanedLogin,
                         ClosedSessionReleases, OneClientPerSession, Bound
    <2> QED BY <1>1, <2>2, <2>3 DEF Connection
  <1>2. ASSUME NEW s \in SessionIds, Command(s) PROVE ReleaseInv'
    <2>1. /\ Rebinding(s) /\ UNCHANGED socket
          /\ reading' = [reading EXCEPT ![s] = Started(s)]
      BY <1>2, CommandRebinds
    <2>2. /\ reading'[s] = Started(s)
          /\ \A x \in SessionIds : x # s => reading'[x] = reading[x]
      BY <1>0, <2>1 DEF SessionTypeOK
    <2>3. /\ \A d \in ClientIds : session'[d] \in {session[d], s, invalidSessionId}
          /\ OneClientPerSession'
      BY <1>0, <2>1, RebindingCases
    <2>4. NoOrphanedLogin'
      BY <1>0, <2>2, <2>3 DEF NoOrphanedLogin, Started, ClientPartOK
    <2>5. ClosedSessionReleases'
      BY <1>0, <2>1, <2>2, <2>3, SessionAssumption
         DEF ClosedSessionReleases, Started, Bound, SessionIds, invalidSessionId
    <2> QED BY <2>3, <2>4, <2>5 DEF ReleaseInv
  <1>3. ASSUME NEW s \in SessionIds, Disconnect(s) PROVE ReleaseInv'
    <2>1. /\ \A d \in ClientIds : session'[d] # s
          /\ \A d \in ClientIds : session'[d] \in {session[d], invalidSessionId}
          /\ OneClientPerSession'
      BY <1>0, <1>3, DisconnectReleases DEF Disconnect
    <2>2. \A x \in SessionIds : x # s => reading'[x] = reading[x] /\ socket'[x] = socket[x]
      BY <1>0, <1>3 DEF Disconnect, ReadError, WriteError, CloseSocket, SessionTypeOK
    <2>3. NoOrphanedLogin'
      BY <1>0, <2>1, <2>2 DEF NoOrphanedLogin, ClientPartOK
    <2>4. ClosedSessionReleases'
      BY <1>0, <2>1, <2>2, SessionAssumption
         DEF ClosedSessionReleases, Bound, SessionIds, invalidSessionId
    <2> QED BY <2>1, <2>3, <2>4 DEF ReleaseInv
  <1>4. ASSUME NEW s \in SessionIds, Written(s) PROVE ReleaseInv'
    BY <1>0, <1>4 DEF Written, WriteDone, clientVars, ReleaseInv, NoOrphanedLogin,
                      ClosedSessionReleases, OneClientPerSession, Bound
  <1>5. ASSUME NEW s \in SessionIds, Environment(s) PROVE ReleaseInv'
    <2>1. UNCHANGED <<session, socket>>
      BY <1>5 DEF Environment, clientVars, LineArrives, ReadFails, WriteCompletes, WriteFails,
                  ReadEnds, WriteEnds
    <2>2. CASE LineArrives(s) \/ ReadFails(s)
      BY <1>0, <2>1, <2>2
         DEF LineArrives, ReadFails, ReadEnds, ReleaseInv, NoOrphanedLogin,
             ClosedSessionReleases, OneClientPerSession, Bound, SessionTypeOK, ClientPartOK
    <2>3. CASE WriteCompletes(s) \/ WriteFails(s)
      BY <1>0, <2>1, <2>3
         DEF WriteCompletes, WriteFails, WriteEnds, ReleaseInv, NoOrphanedLogin,
             ClosedSessionReleases, OneClientPerSession, Bound
    <2> QED BY <1>5, <2>2, <2>3 DEF Environment
  <1>6. ASSUME NEW clientIo, NEW topicIo, Restart(clientIo, topicIo) PROVE ReleaseInv'
    <2>1. \A c \in ClientIds : session'[c] = invalidSessionId
      BY <1>6 DEF Restart, ClientLoad
    <2>2. invalidSessionId \notin SessionIds
      BY SessionAssumption DEF SessionIds, invalidSessionId
    <2> QED BY <2>1, <2>2 DEF ReleaseInv, NoOrphanedLogin, ClosedSessionReleases,
                              OneClientPerSession, Bound
  <1>7. CASE UNCHANGED vars
    BY <1>0, <1>7 DEF vars, sessionVars, clientVars, ReleaseInv, NoOrphanedLogin,
                      ClosedSessionReleases, OneClientPerSession, Bound
  <1> QED BY <1>1, <1>2, <1>3, <1>4, <1>5, <1>6, <1>7 DEF Next, Handler

\* ... which holds at the start.
LEMMA InitReleaseInv == Init => ReleaseInv
  <1>1. invalidSessionId \notin SessionIds
    BY SessionAssumption DEF SessionIds, invalidSessionId
  <1> QED BY <1>1 DEF Init, ClientInit, ReleaseInv, NoOrphanedLogin, ClosedSessionReleases,
                      OneClientPerSession, Bound

\* When users log in only from a session without a client, no client is ever
\* bound to a session that has stopped reading, and one bound to a closed
\* session is about to be released.
THEOREM SessionsReleaseClients ==
  ASSUME OneLoginPerSession
  PROVE  Spec => [](NoOrphanedLogin /\ ClosedSessionReleases)
  <1>1. QueueInv /\ ReleaseInv /\ [Next]_vars => ReleaseInv'
    BY StepReleaseInv
  <1>2. ReleaseInv => NoOrphanedLogin /\ ClosedSessionReleases
    BY DEF ReleaseInv
  <1> QED BY <1>1, <1>2, InitReleaseInv, InitQueueInv, StepQueueInv, PTL DEF Spec

\* The second half, by itself: when users log in only from a session without a
\* client, a client bound to a closed session is always about to be released.
THEOREM ClosedSessionsRelease ==
  ASSUME OneLoginPerSession
  PROVE  Spec => []ClosedSessionReleases
  BY SessionsReleaseClients, PTL
=============================================================================
