--------------------------- MODULE ClientDurability ---------------------------
(***************************************************************************)
(* What the answer to REGISTER, and the result of RemoveClient, promise    *)
(* against what the clients file and the memory of ClientManager hold,     *)
(* across I/O faults, crashes and restarts of the broker process.          *)
(*                                                                         *)
(* The broker is that of MessageBroker, its commands on topics left out    *)
(* (Topics is empty in the instance).  RemoveClient is an operation of     *)
(* ClientManager that no command calls: here some caller on the thread of  *)
(* the io_context does, between two handlers.                              *)
(*                                                                         *)
(* told[c] is a ghost: the name c was registered under with the answer OK, *)
(* None before and after it was removed with Ok, Unknown when another      *)
(* answer, or none, came of a REGISTER or a removal that reached the file. *)
(* While the process is down, clients is what the dead process left.       *)
(***************************************************************************)
EXTENDS MessageBroker

CONSTANT Unknown

VARIABLES up, told

durableVars == <<vars, up, told>>
restVars == <<topicVars, ghostVars>>

ASSUME DurabilityAssumption == Unknown \notin Names \cup {None}

\* A fresh installation: no process, no files.
DurableInit ==
  /\ SessionInit
  /\ clients = EmptyRegistry
  /\ clientsFile = Absent
  /\ session = [c \in ClientIds |-> invalidSessionId]
  /\ buffer = [c \in ClientIds |-> <<>>]
  /\ topics = EmptyTable /\ topicsFile = EmptyTable
  /\ published = 0 /\ audience = NoAudience /\ delivered = {}
  /\ up = FALSE
  /\ told = [c \in ClientIds |-> None]

\* main constructs ClientManager, which loads the file.
Start(io) ==
  /\ ~up
  /\ ClientLoad(io)
  /\ up' = TRUE
  /\ UNCHANGED <<sessionVars, restVars, told>>

\* The answer to REGISTER is OK when ConnectClient bound a client.
Registers(s, n, c, io) ==
  /\ Register(s, n, c, io)
  /\ told' = IF session' # session THEN [told EXCEPT ![c] = n]
             ELSE IF SaveClient(clientsFile, c, n, io).ok
             THEN [told EXCEPT ![c] = Unknown] ELSE told
  /\ UNCHANGED up

Removes(c, io) ==
  /\ RemoveClient(c, io)
  /\ told' = IF DeleteClient(clientsFile, c, io).ok THEN [told EXCEPT ![c] = None] ELSE told
  /\ UNCHANGED <<sessionVars, restVars, up>>

\* No session of the old process is left.
Dies ==
  /\ up' = FALSE
  /\ SessionRestart
  /\ session' = [c \in ClientIds |-> invalidSessionId]
  /\ buffer' = [c \in ClientIds |-> <<>>]
  /\ UNCHANGED restVars

\* The process dies inside an operation: the file is written, or (io = {"tear"})
\* truncated and half written - as when dump(4) throws for a name that is not
\* UTF-8, the ofstream being open already - and there is no answer.
DieAnswering(c, n, io) ==
  /\ Dies
  /\ \/ (\E s \in SessionIds : reading[s] = "ready") /\ CreateClient(n, c, io)
     \/ /\ clients[c] # None
        /\ clientsFile' = DeleteClient(clientsFile, c, io).file
        /\ UNCHANGED clients
  /\ told' = [told EXCEPT ![c] = Unknown]

Die ==
  /\ Dies
  /\ UNCHANGED <<clients, clientsFile, told>>

\* What the rest of the broker does, as in MessageBroker.
Serve ==
  /\ \/ Connection
     \/ \E s \in SessionIds :
          \/ /\ InvalidLine(s) \/ Unlogin(s) \/ \E n \in Names : Login(s, n)
             /\ QueuesBounded
          \/ Disconnect(s) \/ Written(s) \/ Environment(s)
  /\ UNCHANGED <<up, told>>

DurableNext ==
  \/ \E io \in SUBSET IoFaults : Start(io)
  \/ /\ up
     /\ \/ Serve
        \/ \E s \in SessionIds, n \in Names, c \in ClientIds, io \in SUBSET IoFaults :
             Registers(s, n, c, io) /\ QueuesBounded
        \/ \E c \in ClientIds, io \in SUBSET IoFaults : Removes(c, io)
        \/ \E c \in ClientIds, n \in Names, io \in {{}, {"tear"}} : DieAnswering(c, n, io)
        \/ Die

DurableSpec == DurableInit /\ [][DurableNext]_durableVars

-----------------------------------------------------------------------------
\* The types of the broker, the process and the answers.
DurableTypeOK ==
  /\ TypeOK
  /\ up \in BOOLEAN
  /\ told \in [ClientIds -> Names \cup {None, Unknown}]

\* The registry a file stands for: an absent file holds nobody.
Content(file) == IF file = Absent THEN EmptyRegistry ELSE file

\* As long as the clients file can be read, it holds exactly what the answers
\* promised: a client whose REGISTER was answered OK is there under its name, and
\* one that was never registered or that was removed is not - whatever failed,
\* was torn or died (functional_requirements.md section 14; json_client_repository
\* .cpp:64-149, written before the operation is answered).
FileKeepsClients ==
  clientsFile # Torn =>
    \A c \in ClientIds : told[c] # Unknown => Content(clientsFile)[c] = told[c]

\* The memory of a running broker is what the readable file holds, neither more
\* nor less: CreateClient and RemoveClient give up when the file cannot be
\* changed, whatever failed before (clients_manager.cpp:44-51, 54-69).
FileIsMemory == up /\ clientsFile # Torn => clients = Content(clientsFile)
=============================================================================
