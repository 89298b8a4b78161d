---------------------------- MODULE ClientManager ----------------------------
(***************************************************************************)
(* ClientManager and Client (app/src/clients/clients_manager.cpp,          *)
(* client.cpp) over JsonRepository (app/src/db/json_client_repository.cpp).*)
(*                                                                         *)
(* The registry clients_ gives a registered id its name; each Client has   *)
(* its weak_ptr to a session (session) and its buffer_.  clients_ is an    *)
(* unordered_map: a loop that acts on the first match may act on any of    *)
(* the matches.  Client::SendTopicMessage calls Session::Send, so an       *)
(* operation that sends also queues, and the operations that end a command *)
(* take the response to it: the rest of the read handler is part of them.  *)
(***************************************************************************)
EXTENDS Session, JsonFile, FiniteSets, SequencesExt

CONSTANTS Names, None

VARIABLES
  clients,      \* id -> name, None when no such client is registered
  clientsFile,  \* the same table on disk
  session,      \* the session a client is bound to, or invalidSessionId
  buffer        \* numbers of the messages kept for a client that is away

clientVars == <<clients, clientsFile, session, buffer>>

Registries == [ClientIds -> Names \cup {None}]

ASSUME ClientAssumption ==
  /\ None \notin Names /\ None \notin ClientIds
  /\ Absent \notin Registries /\ Torn \notin Registries
  /\ IsFiniteSet(ClientIds)

\* An entry of an outgoing queue: message n on its way to client c, or any
\* other text (a response, the welcome, the header of a flushed buffer).
Text == <<None, 0>>
Entries == (ClientIds \X Nat) \cup {Text}

SessionTypeOK ==
  /\ nextSessionId \in 1..MaxSession + 1
  /\ socket \in [SessionIds -> {"none", "open", "closed"}]
  /\ reading \in [SessionIds -> {"idle", "pending", "ready", "failed"}]
  /\ writing \in [SessionIds -> {"idle", "pending", "done", "failed"}]
  /\ outgoing \in [SessionIds -> Seq(Entries)]

ClientTypeOK ==
  /\ SessionTypeOK
  /\ clients \in Registries
  /\ clientsFile \in Registries \cup {Absent, Torn}
  /\ session \in [ClientIds -> SessionIds \cup {invalidSessionId}]
  /\ buffer \in [ClientIds -> Seq(Nat)]

EmptyRegistry == [c \in ClientIds |-> None]

\* The first start of the broker has created an empty clients file.
ClientInit ==
  /\ SessionInit
  /\ clients = EmptyRegistry
  /\ clientsFile = EmptyRegistry
  /\ session = [c \in ClientIds |-> invalidSessionId]
  /\ buffer = [c \in ClientIds |-> <<>>]

Registered == {c \in ClientIds : clients[c] # None}

\* The clients a loop over clients_ finds on session s.
Bound(s) == {c \in ClientIds : session[c] = s}

-----------------------------------------------------------------------------
(* JsonRepository *)

SaveClient(file, c, n, io) ==
  IF Parses(file, io) THEN Stored(file, [file EXCEPT ![c] = n], io)
  ELSE Failed(file)

\* Mutant: the id is erased from the object, which is not written back.
DeleteClientUnsaved(file, c, io) ==
  [ok |-> Parses(file, io) /\ file[c] # None, file |-> file]

DeleteClient(file, c, io) ==
  IF Parses(file, io) /\ file[c] # None
  THEN Stored(file, [file EXCEPT ![c] = None], io)
  ELSE Failed(file)

\* The constructor: LoadClients; a loaded Client is bound to no session.
ClientLoad(io) ==
  LET loaded == Loaded(clientsFile, EmptyRegistry, io)
  IN  /\ clients' = loaded.table
      /\ clientsFile' = loaded.file
      /\ session' = [c \in ClientIds |-> invalidSessionId]
      /\ buffer' = [c \in ClientIds |-> <<>>]

-----------------------------------------------------------------------------
(* Client *)

\* Mutant: the buffer is drained from its end.
FlushedNewestFirst(c) ==
  <<Text>> \o [i \in 1..Len(buffer[c]) |-> <<c, buffer[c][Len(buffer[c]) + 1 - i]>>]

\* Client::SendBuffer: the header, then the whole buffer in order.
Flushed(c) == <<Text>> \o [i \in 1..Len(buffer[c]) |-> <<c, buffer[c][i]>>]

-----------------------------------------------------------------------------
(* ClientManager *)

\* ConnectClient, for a registry in which clients may be a new one.
ConnectClient(n, s, registry) ==
  \/ /\ \A c \in ClientIds : registry[c] # n                \* ClientNotFound
     /\ Respond(s, Nothing, <<Text>>)
     /\ UNCHANGED <<session, buffer>>
  \/ \E c \in ClientIds :
       /\ registry[c] = n
       /\ \/ /\ session[c] # invalidSessionId       \* ClientAlreadyConnected
             /\ Respond(s, Nothing, <<Text>>)
             /\ UNCHANGED <<session, buffer>>
          \/ /\ session[c] = invalidSessionId                          \* Ok
             /\ session' = [session EXCEPT ![c] = s]
             /\ buffer' = [buffer EXCEPT ![c] = <<>>]
             /\ Respond(s, [Nothing EXCEPT ![s] = Flushed(c)], <<Text>>)

\* Mutant: the client is registered although it could not be saved.
CreateClientUnsaved(n, c, io) ==
  /\ clients[c] = None
  /\ clientsFile' = SaveClient(clientsFile, c, n, io).file
  /\ clients' = [clients EXCEPT ![c] = n]

\* CreateClient draws an id that clients_ does not have.  The loop that draws
\* does not end when there is none; here REGISTER is then not taken.
CreateClient(n, c, io) ==
  /\ clients[c] = None
  /\ clientsFile' = SaveClient(clientsFile, c, n, io).file
  /\ clients' = IF SaveClient(clientsFile, c, n, io).ok
                THEN [clients EXCEPT ![c] = n] ELSE clients

UnloginClient(c) == session' = [session EXCEPT ![c] = invalidSessionId]

\* Mutant: the client is gone from memory whether or not it could be deleted.
RemoveClientAnyway(c, io) ==
  /\ clients[c] # None
  /\ UnloginClient(c)
  /\ clientsFile' = DeleteClient(clientsFile, c, io).file
  /\ clients' = [clients EXCEPT ![c] = None]
  /\ buffer' = [buffer EXCEPT ![c] = <<>>]

\* RemoveClient of an id that is registered.  The client is logged out first,
\* and stays so when it cannot be deleted.
RemoveClient(c, io) ==
  /\ clients[c] # None
  /\ UnloginClient(c)
  /\ clientsFile' = DeleteClient(clientsFile, c, io).file
  /\ IF DeleteClient(clientsFile, c, io).ok
     THEN /\ clients' = [clients EXCEPT ![c] = None]
          /\ buffer' = [buffer EXCEPT ![c] = <<>>]
     ELSE UNCHANGED <<clients, buffer>>

\* DisconnectClient: the first client found on s is released, no other.
DisconnectClient(s) ==
  \/ Bound(s) = {} /\ UNCHANGED session
  \/ \E c \in Bound(s) : session' = [session EXCEPT ![c] = invalidSessionId]

\* SendTopicMessage of message n: what goes to the sessions, in every order a
\* loop over the unordered_set of receivers may have ...
FanOuts(n, receivers) ==
  LET Copies(s) == {c \in receivers : session[c] = s} \X {n}
      orders == UNION {SetToSeqs(S \X {n}) : S \in SUBSET receivers}
  IN  {added \in [SessionIds -> orders] :
         \A s \in SessionIds : added[s] \in SetToSeqs(Copies(s))}

\* ... and what is kept for the receivers that are away.
BufferTopicMessage(n, receivers) ==
  buffer' = [c \in ClientIds |->
               IF c \in receivers /\ session[c] = invalidSessionId
               THEN Append(buffer[c], n) ELSE buffer[c]]
=============================================================================
