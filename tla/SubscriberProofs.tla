--------------------------- MODULE SubscriberProofs ---------------------------
(***************************************************************************)
(* Proof that every subscriber is a registered client, for any number of   *)
(* clients, names, topics and sessions, when writes may fail and the       *)
(* process may be restarted, but no file is torn or fails to open for      *)
(* reading.  A lost clients file would leave subscribers nobody knows.     *)
(***************************************************************************)
EXTENDS MessageBrokerProofs

\* The clients file is what memory is, so a restart registers the same ids;
\* a client that acts is registered; and so is every subscriber in memory, and
\* in the file, from which a restart takes the next memory.
RegisteredInv ==
  /\ clientsFile = clients
  /\ topicsFile \in Tables
  /\ \A c \in ClientIds : session[c] # invalidSessionId => clients[c] # None
  /\ \A t \in Topics : topics[t] # NoTopic => topics[t] \subseteq Registered
  /\ \A t \in Topics : topicsFile[t] # NoTopic => topicsFile[t] \subseteq Registered

\* RegisteredInv after a step that leaves the topics alone and forgets nobody.
LEMMA TopicsAlone ==
  ASSUME RegisteredInv, UNCHANGED topicVars, clientsFile' = clients',
         \A c \in ClientIds : clients[c] # None => clients'[c] # None,
         \A c \in ClientIds : session'[c] # invalidSessionId => clients'[c] # None
  PROVE  RegisteredInv'
  <1>1. Registered \subseteq Registered'
    BY DEF Registered
  <1> QED BY <1>1 DEF RegisteredInv, topicVars

\* A command about a topic adds at most the client that gives it.
LEMMA TopicOperationSubscribers ==
  ASSUME TopicTypeOK, topicsFile \in Tables,
         NEW c \in ClientIds, NEW t \in Topics, NEW io, io \subseteq {"write"},
         TopicSubscribe(c, t, io) \/ TopicCreate(c, t, io) \/ TopicUnsubscribe(c, t, io)
  PROVE  /\ topicsFile' \in Tables
         /\ \A u \in Topics : topics'[u] # NoTopic =>
              topics'[u] \subseteq (IF topics[u] = NoTopic THEN {} ELSE topics[u]) \cup {c}
         /\ \A u \in Topics : topicsFile'[u] # NoTopic =>
              topicsFile'[u] \subseteq
                (IF topicsFile[u] = NoTopic THEN {} ELSE topicsFile[u]) \cup {c}
  <1> DEFINE Grows(old, new) ==
        \A u \in Topics : new[u] # NoTopic =>
          new[u] \subseteq (IF old[u] = NoTopic THEN {} ELSE old[u]) \cup {c}
  <1>1. topics \in Tables
    BY DEF TopicTypeOK
  <1>2. ASSUME NEW table \in Tables
        PROVE  /\ Grows(table, table)
               /\ table[t] # NoTopic => /\ Grows(table, [table EXCEPT ![t] = @ \cup {c}])
                                        /\ Grows(table, [table EXCEPT ![t] = @ \ {c}])
               /\ Grows(table, [table EXCEPT ![t] = {c}])
    BY <1>2 DEF Tables
  <1>3. topicsFile # Absent /\ topicsFile # Torn
    BY TopicAssumption
  <1>4. Opens(topicsFile, io) /\ Parses(topicsFile, io) /\ "tear" \notin io
    BY <1>3 DEF Opens, Parses
  <1>5. ASSUME NEW new PROVE Stored(topicsFile, new, io).file \in {topicsFile, new}
    BY <1>4 DEF Stored
  <1>6. TopicTypeOK'
    BY OperationType
  <1>7. CASE TopicSubscribe(c, t, io)
    <2>1. /\ \/ topics' = topics
             \/ topics[t] # NoTopic /\ topics' = [topics EXCEPT ![t] = @ \cup {c}]
          /\ \/ topicsFile' = topicsFile
             \/ /\ topicsFile[t] # NoTopic
                /\ topicsFile' = [topicsFile EXCEPT ![t] = @ \cup {c}]
      BY <1>5, <1>7 DEF TopicSubscribe, SaveTopic, Failed, topicVars
    <2>2. Grows(topics, topics') /\ Grows(topicsFile, topicsFile')
      BY <1>1, <1>2, <2>1
    <2>3. topicsFile' \in Tables
      BY <2>1 DEF Tables
    <2> QED BY <2>2, <2>3
  <1>8. CASE TopicCreate(c, t, io)
    <2>1. /\ topics' \in {topics, [topics EXCEPT ![t] = {c}]}
          /\ topicsFile' \in {topicsFile, [topicsFile EXCEPT ![t] = {c}]}
      BY <1>4, <1>5, <1>8 DEF TopicCreate, CreateTopic, Failed, topicVars
    <2>2. Grows(topics, topics') /\ Grows(topicsFile, topicsFile')
      BY <1>1, <1>2, <2>1
    <2>3. topicsFile' \in Tables
      BY <2>1 DEF Tables
    <2> QED BY <2>2, <2>3
  <1>9. CASE TopicUnsubscribe(c, t, io)
    <2>1. /\ \/ topics' = topics
             \/ topics[t] # NoTopic /\ topics' = [topics EXCEPT ![t] = @ \ {c}]
          /\ \/ topicsFile' = topicsFile
             \/ /\ topicsFile[t] # NoTopic
                /\ topicsFile' = [topicsFile EXCEPT ![t] = @ \ {c}]
      BY <1>5, <1>9 DEF TopicUnsubscribe, Subscribers, RemoveFromTopic, Failed, topicVars
    <2>2. Grows(topics, topics') /\ Grows(topicsFile, topicsFile')
      BY <1>1, <1>2, <2>1
    <2>3. topicsFile' \in Tables
      BY <2>1 DEF Tables
    <2> QED BY <2>2, <2>3
  <1> QED BY <1>7, <1>8, <1>9

-----------------------------------------------------------------------------
(* The commands *)

\* LOGIN binds nobody but a client of the registry it is given.
LEMMA ConnectBindsRegistered ==
  ASSUME ClientPartOK, NEW n \in Names, NEW s \in SessionIds, NEW registry,
         ConnectClient(n, s, registry)
  PROVE  \A c \in ClientIds : session'[c] # session[c] => registry[c] # None
  BY ClientAssumption DEF ConnectClient, ClientPartOK

\* A command keeps every subscriber registered.
LEMMA CommandRegisteredInv ==
  ASSUME IoFaults \subseteq {"write"}, QueueInv, RegisteredInv,
         NEW s \in SessionIds, Command(s)
  PROVE  RegisteredInv'
  <1>0. ClientPartOK /\ TopicTypeOK
    BY DEF QueueInv
  <1>1. ASSUME UNCHANGED <<clients, clientsFile, session, topicVars>>
        PROVE  RegisteredInv'
    BY <1>1, TopicsAlone DEF RegisteredInv
  <1>2. ASSUME NEW n \in Names, Login(s, n)
        PROVE  RegisteredInv'
    <2>1. \A c \in ClientIds : session'[c] # session[c] => clients[c] # None
      BY <1>0, <1>2, ConnectBindsRegistered DEF Login
    <2> QED BY <1>2, <2>1, TopicsAlone DEF Login, RegisteredInv
  <1>3. ASSUME NEW n \in Names, NEW c \in ClientIds, NEW io \in SUBSET IoFaults,
               Register(s, n, c, io)
        PROVE  RegisteredInv'
    <2> DEFINE saved == SaveClient(clientsFile, c, n, io)
               grown == [clients EXCEPT ![c] = n]
    <2>1. clientsFile = clients /\ clients \in Registries /\ "tear" \notin io
      BY <1>0 DEF RegisteredInv, ClientPartOK
    <2>2. clientsFile # Absent /\ clientsFile # Torn
      BY <2>1, ClientAssumption
    <2>3. /\ saved.ok => saved.file = grown
          /\ ~saved.ok => saved.file = clientsFile
      BY <2>1, <2>2 DEF SaveClient, Stored, Failed
    <2>4. \A d \in ClientIds : grown[d] # None <=> (clients[d] # None \/ d = c)
      BY <2>1, ClientAssumption DEF Registries
    <2>5. clientsFile' = saved.file /\ clients' = IF saved.ok THEN grown ELSE clients
      BY <1>3 DEF Register, CreateClient
    <2>6. CASE saved.ok
      <3>1. ConnectClient(n, s, grown)
        BY <1>3, <2>6 DEF Register
      <3>2. \A d \in ClientIds : session'[d] # session[d] => grown[d] # None
        BY <1>0, <3>1, ConnectBindsRegistered
      <3>3. clients' = grown /\ clientsFile' = grown
        BY <2>3, <2>5, <2>6
      <3>4. \A d \in ClientIds : session'[d] # invalidSessionId => clients'[d] # None
        BY <2>4, <3>2, <3>3 DEF RegisteredInv
      <3>5. UNCHANGED topicVars
        BY <1>3 DEF Register
      <3> QED BY <2>4, <3>3, <3>4, <3>5, TopicsAlone
    <2>7. CASE ~saved.ok
      <3>1. UNCHANGED <<clients, clientsFile, session, topicVars>>
        BY <1>3, <2>3, <2>5, <2>7 DEF Register
      <3> QED BY <1>1, <3>1
    <2> QED BY <2>6, <2>7
  <1>4. ASSUME NEW t \in Topics, NEW io \in SUBSET IoFaults, TopicCommand(s, t, io)
        PROVE  RegisteredInv'
    <2>1. PICK c \in Bound(s) :
            TopicSubscribe(c, t, io) \/ TopicCreate(c, t, io) \/ TopicUnsubscribe(c, t, io)
      BY <1>4 DEF TopicCommand
    <2>2. c \in ClientIds /\ c \in Registered
      BY <2>1, SessionAssumption
         DEF Bound, RegisteredInv, Registered, SessionIds, invalidSessionId
    <2>3. /\ topicsFile' \in Tables
          /\ \A u \in Topics : topics'[u] # NoTopic =>
               topics'[u] \subseteq (IF topics[u] = NoTopic THEN {} ELSE topics[u]) \cup {c}
          /\ \A u \in Topics : topicsFile'[u] # NoTopic =>
               topicsFile'[u] \subseteq
                 (IF topicsFile[u] = NoTopic THEN {} ELSE topicsFile[u]) \cup {c}
      BY <1>0, <2>1, <2>2, TopicOperationSubscribers DEF RegisteredInv
    <2>4. UNCHANGED <<clients, clientsFile, session>>
      BY <1>4 DEF TopicCommand, clientVars
    <2>5. Registered' = Registered
      BY <2>4 DEF Registered
    <2> QED BY <2>2, <2>3, <2>4, <2>5 DEF RegisteredInv
  <1>5. ASSUME Unlogin(s)
        PROVE  RegisteredInv'
    <2>1. \A c \in ClientIds : session'[c] \in {session[c], invalidSessionId}
      BY <1>0, <1>5 DEF Unlogin, UnloginClient, ClientPartOK
    <2> QED BY <1>5, <2>1, TopicsAlone DEF Unlogin, RegisteredInv
  <1>6. ASSUME Refused(s)
        PROVE  RegisteredInv'
    BY <1>1, <1>6 DEF Refused, clientVars
  <1>7. ASSUME NEW t \in Topics, Publish(s, t)
        PROVE  RegisteredInv'
    BY <1>1, <1>7 DEF Publish
  <1> QED BY <1>2, <1>3, <1>4, <1>5, <1>6, <1>7
          DEF Command, InvalidLine, Unauthorized, PublishNowhere

-----------------------------------------------------------------------------
\* A restart takes both tables from their files.
LEMMA RestartRegisteredInv ==
  ASSUME IoFaults \subseteq {"write"}, QueueInv, RegisteredInv,
         NEW clientIo \in SUBSET IoFaults, NEW topicIo \in SUBSET IoFaults,
         Restart(clientIo, topicIo)
  PROVE  RegisteredInv'
  <1>1. clientsFile \in Registries /\ topicsFile \in Tables /\ clientsFile = clients
    BY DEF QueueInv, ClientPartOK, RegisteredInv
  <1>2. clientsFile \notin {Absent, Torn} /\ topicsFile \notin {Absent, Torn}
    BY <1>1, ClientAssumption, TopicAssumption
  <1>3. Parses(clientsFile, clientIo) /\ Parses(topicsFile, topicIo)
    BY <1>2 DEF Parses, Opens
  <1>4. clients' = clients /\ clientsFile' = clientsFile
    BY <1>1, <1>3 DEF Restart, ClientLoad, Loaded, Parses
  <1>5. topics' = topicsFile /\ topicsFile' = topicsFile
    BY <1>3 DEF Restart, TopicLoad, Loaded, Parses
  <1>6. \A c \in ClientIds : session'[c] = invalidSessionId
    BY DEF Restart, ClientLoad
  <1>7. Registered' = Registered
    BY <1>4 DEF Registered
  <1> QED BY <1>4, <1>5, <1>6, <1>7 DEF RegisteredInv

\* So does every step.
LEMMA StepRegisteredInv ==
  ASSUME IoFaults \subseteq {"write"}, QueueInv, RegisteredInv, [Next]_vars
  PROVE  RegisteredInv'
  <1>1. ASSUME UNCHANGED <<clients, clientsFile, session, topicVars>>
        PROVE  RegisteredInv'
    BY <1>1, TopicsAlone DEF RegisteredInv
  <1>2. ASSUME NEW s \in SessionIds, Command(s) PROVE RegisteredInv'
    BY <1>2, CommandRegisteredInv
  <1>3. ASSUME NEW s \in SessionIds, Disconnect(s) PROVE RegisteredInv'
    <2>1. \A c \in ClientIds : session'[c] \in {session[c], invalidSessionId}
      BY <1>3 DEF Disconnect, DisconnectClient, QueueInv, ClientPartOK
    <2> QED BY <1>3, <2>1, TopicsAlone DEF Disconnect, RegisteredInv
  <1>4. ASSUME NEW s \in SessionIds, Written(s) \/ Environment(s) PROVE RegisteredInv'
    BY <1>1, <1>4 DEF Written, Environment, clientVars
  <1>5. CASE Connection
    BY <1>1, <1>5 DEF Connection, clientVars
  <1>6. ASSUME NEW clientIo \in SUBSET IoFaults, NEW topicIo \in SUBSET IoFaults,
               Restart(clientIo, topicIo)
        PROVE  RegisteredInv'
    BY <1>6, RestartRegisteredInv
  <1>7. CASE UNCHANGED vars
    BY <1>1, <1>7 DEF vars, clientVars
  <1> QED BY <1>2, <1>3, <1>4, <1>5, <1>6, <1>7 DEF Next, Handler

\* When writes may fail and the process may restart, but no file is torn or
\* unreadable, no topic ever has a subscriber that is not registered.
THEOREM EverySubscriberRegistered ==
  ASSUME IoFaults \subseteq {"write"}
  PROVE  Spec => []SubscribersRegistered
  <1>1. Init => RegisteredInv
    BY DEF Init, ClientInit, RegisteredInv, EmptyTable, Tables
  <1>2. QueueInv /\ RegisteredInv /\ [Next]_vars => RegisteredInv'
    BY StepRegisteredInv
  <1>3. RegisteredInv => SubscribersRegistered
    BY DEF RegisteredInv, SubscribersRegistered, Subscribers
  <1> QED BY <1>1, <1>2, <1>3, InitQueueInv, StepQueueInv, PTL DEF Spec
=============================================================================
