------------------------ MODULE ClientDurabilityProofs ------------------------
(***************************************************************************)
(* Proofs of the invariants of ClientDurability, for any number of         *)
(* clients, names and sessions.  DurableTypeOK holds under every fault;    *)
(* FileKeepsClients and FileIsMemory are inductive beside it as long as an *)
(* existing file always opens for reading (with "read" faults they do not  *)
(* hold: a start then writes an empty file over the old one).              *)
(***************************************************************************)
EXTENDS ClientDurability, MessageBrokerProofs

USE FileAssumption, ClientAssumption, DurabilityAssumption

-----------------------------------------------------------------------------
(* Types *)

\* The invariant of the broker, and the types of what is added to it.
DurableInv ==
  /\ QueueInv
  /\ up \in BOOLEAN
  /\ told \in [ClientIds -> Names \cup {None, Unknown}]

\* DeleteClient leaves a registry, or a torn file.
LEMMA DeleteClientType ==
  ASSUME NEW file \in Registries \cup {Absent, Torn}, NEW c \in ClientIds, NEW io
  PROVE  DeleteClient(file, c, io).file \in Registries \cup {Absent, Torn}
  BY DEF DeleteClient, Stored, Failed, Parses, Opens, Registries

\* RemoveClient keeps the types of the clients.
LEMMA RemoveClientStep ==
  ASSUME ClientPartOK, NEW c \in ClientIds, NEW io, RemoveClient(c, io)
  PROVE  ClientPartOK'
  <1>1. clientsFile' \in Registries \cup {Absent, Torn}
    BY DeleteClientType DEF RemoveClient, ClientPartOK
  <1>2. clients' \in Registries
    BY DEF RemoveClient, ClientPartOK, Registries
  <1>3. session' \in [ClientIds -> SessionIds \cup {invalidSessionId}]
    BY DEF RemoveClient, UnloginClient, ClientPartOK
  <1>4. buffer' \in [ClientIds -> Seq(Nat)]
    BY EmptySeq DEF RemoveClient, ClientPartOK
  <1> QED BY <1>1, <1>2, <1>3, <1>4 DEF ClientPartOK

\* A fresh installation has the types.
LEMMA InitDurableInv == DurableInit => DurableInv
  <1> SUFFICES ASSUME DurableInit PROVE DurableInv
    OBVIOUS
  <1>1. SessionTypeOK /\ WriteInFlight
    <2>1. <<>> \in Seq(Entries)
      BY EmptySeq
    <2>2. 1 \in 1..MaxSession + 1
      BY SessionAssumption
    <2> QED BY <2>1, <2>2 DEF DurableInit, SessionInit, SessionTypeOK, WriteInFlight
  <1>2. ClientPartOK
    BY DEF DurableInit, ClientPartOK, EmptyRegistry, Registries
  <1>3. TopicTypeOK
    BY DEF DurableInit, TopicTypeOK, EmptyTable, Tables
  <1>4. GhostTypeOK
    BY BrokerAssumption DEF DurableInit, GhostTypeOK, NoAudience
  <1> QED BY <1>1, <1>2, <1>3, <1>4 DEF DurableInv, QueueInv, DurableInit

\* The death of the process leaves what it wrote.
LEMMA DiesStep ==
  ASSUME QueueInv, Dies, clients' \in Registries,
         clientsFile' \in Registries \cup {Absent, Torn}
  PROVE  QueueInv' /\ up' \in BOOLEAN
  <1>1. SessionTypeOK' /\ WriteInFlight'
    BY SessionRestartStep DEF Dies
  <1>2. ClientPartOK'
    BY EmptySeq DEF Dies, ClientPartOK
  <1>3. TopicTypeOK' /\ GhostTypeOK'
    BY DEF Dies, restVars, topicVars, ghostVars, QueueInv, TopicTypeOK, GhostTypeOK
  <1> QED BY <1>1, <1>2, <1>3 DEF QueueInv, Dies

\* Every step keeps the types.
LEMMA StepDurableInv == DurableInv /\ [DurableNext]_durableVars => DurableInv'
  <1> SUFFICES ASSUME DurableInv, [DurableNext]_durableVars PROVE DurableInv'
    OBVIOUS
  <1>0. /\ QueueInv /\ SessionTypeOK /\ ClientPartOK /\ TopicTypeOK /\ GhostTypeOK
        /\ WriteInFlight /\ told \in [ClientIds -> Names \cup {None, Unknown}]
        /\ up \in BOOLEAN
    BY DEF DurableInv, QueueInv
  <1>1. ASSUME NEW io, Start(io) PROVE DurableInv'
    <2>1. ClientPartOK'
      BY <1>0, <1>1, ClientLoadStep DEF Start
    <2>2. SessionTypeOK' /\ WriteInFlight' /\ TopicTypeOK' /\ GhostTypeOK'
      BY <1>0, <1>1 DEF Start, sessionVars, restVars, topicVars, ghostVars,
                        SessionTypeOK, WriteInFlight, TopicTypeOK, GhostTypeOK
    <2> QED BY <1>0, <1>1, <2>1, <2>2 DEF Start, DurableInv, QueueInv
  <1>2. CASE Serve
    <2>1. [Next]_vars
      BY <1>2 DEF Serve, Next, Handler, Command
    <2> QED BY <1>0, <1>2, <2>1, StepQueueInv DEF Serve, DurableInv
  <1>3. ASSUME NEW s \in SessionIds, NEW n \in Names, NEW c \in ClientIds,
               NEW io \in SUBSET IoFaults, Registers(s, n, c, io), QueuesBounded
        PROVE  DurableInv'
    <2>1. QueueInv'
      BY <1>0, <1>3, CommandQueueInv DEF Registers, Command
    <2>2. told' \in [ClientIds -> Names \cup {None, Unknown}]
      BY <1>0, <1>3 DEF Registers
    <2> QED BY <1>0, <1>3, <2>1, <2>2 DEF Registers, DurableInv
  <1>4. ASSUME NEW c \in ClientIds, NEW io, Removes(c, io) PROVE DurableInv'
    <2>1. ClientPartOK'
      BY <1>0, <1>4, RemoveClientStep DEF Removes
    <2>2. SessionTypeOK' /\ WriteInFlight' /\ TopicTypeOK' /\ GhostTypeOK'
      BY <1>0, <1>4 DEF Removes, sessionVars, restVars, topicVars, ghostVars,
                        SessionTypeOK, WriteInFlight, TopicTypeOK, GhostTypeOK
    <2>3. told' \in [ClientIds -> Names \cup {None, Unknown}]
      BY <1>0, <1>4 DEF Removes
    <2> QED BY <1>0, <1>4, <2>1, <2>2, <2>3 DEF Removes, DurableInv, QueueInv
  <1>5. ASSUME NEW c \in ClientIds, NEW n \in Names, NEW io, DieAnswering(c, n, io)
        PROVE  DurableInv'
    <2>1. clients' \in Registries /\ clientsFile' \in Registries \cup {Absent, Torn}
      <3>1. CASE CreateClient(n, c, io)
        BY <1>0, <3>1, CreateClientStep
      <3>2. CASE clientsFile' = DeleteClient(clientsFile, c, io).file /\ UNCHANGED clients
        BY <1>0, <3>2, DeleteClientType DEF ClientPartOK
      <3> QED BY <1>5, <3>1, <3>2 DEF DieAnswering
    <2>2. QueueInv' /\ up' \in BOOLEAN
      BY <1>0, <1>5, <2>1, DiesStep DEF DieAnswering
    <2> QED BY <1>0, <1>5, <2>2 DEF DieAnswering, DurableInv
  <1>6. CASE Die
    <2>1. QueueInv' /\ up' \in BOOLEAN
      BY <1>0, <1>6, DiesStep DEF Die, ClientPartOK
    <2> QED BY <1>0, <1>6, <2>1 DEF Die, DurableInv
  <1>7. CASE UNCHANGED durableVars
    <2>1. QueueInv'
      BY <1>0, <1>7, StepQueueInv DEF durableVars
    <2> QED BY <1>0, <1>7, <2>1 DEF durableVars, DurableInv
  <1> QED BY <1>1, <1>2, <1>3, <1>4, <1>5, <1>6, <1>7 DEF DurableNext

\* The broker, the process and the answers keep their types under every fault,
\* crash and restart.
THEOREM DurableTypeCorrect == DurableSpec => []DurableTypeOK
  <1>1. DurableInv => DurableTypeOK
    BY DEF DurableInv, QueueInv, DurableTypeOK, TypeOK, ClientTypeOK, ClientPartOK, GhostTypeOK
  <1> QED BY <1>1, InitDurableInv, StepDurableInv, PTL DEF DurableSpec

-----------------------------------------------------------------------------
(* What an operation does to the file, when an existing file always opens *)

\* Only a file that parses is changed: it then holds the client under its new
\* name as well, or is torn.
LEMMA CreateClientEffect ==
  ASSUME ClientPartOK, NEW c \in ClientIds, NEW n \in Names, NEW io,
         CreateClient(n, c, io)
  PROVE  /\ SaveClient(clientsFile, c, n, io).ok =>
              /\ clientsFile \in Registries
              /\ clientsFile' \in {[clientsFile EXCEPT ![c] = n], Torn}
              /\ clients' = [clients EXCEPT ![c] = n]
         /\ ~SaveClient(clientsFile, c, n, io).ok => UNCHANGED <<clients, clientsFile>>
  BY DEF CreateClient, SaveClient, Stored, Failed, Parses, Opens, ClientPartOK

\* So does a removal, which takes the client out.
LEMMA DeleteClientEffect ==
  ASSUME ClientPartOK, NEW c \in ClientIds, NEW io
  PROVE  /\ DeleteClient(clientsFile, c, io).ok =>
              /\ clientsFile \in Registries
              /\ DeleteClient(clientsFile, c, io).file
                   \in {[clientsFile EXCEPT ![c] = None], Torn}
         /\ ~DeleteClient(clientsFile, c, io).ok =>
              DeleteClient(clientsFile, c, io).file = clientsFile
  BY DEF DeleteClient, Stored, Failed, Parses, Opens, ClientPartOK

\* A start leaves a readable file what it stood for, and memory equal to it.
LEMMA ClientLoadEffect ==
  ASSUME ClientPartOK, NEW io, "read" \notin io, ClientLoad(io), clientsFile' # Torn
  PROVE  /\ clientsFile # Torn
         /\ Content(clientsFile') = Content(clientsFile)
         /\ clients' = Content(clientsFile')
  <1>1. EmptyRegistry # Absent
    BY DEF EmptyRegistry, Registries
  <1> QED BY <1>1 DEF ClientLoad, Loaded, Stored, Parses, Opens, Content

\* What a file that has been read stands for is what it holds.
LEMMA ContentOfRegistry ==
  ASSUME NEW file \in Registries
  PROVE  Content(file) = file /\ file # Torn
  BY DEF Content

-----------------------------------------------------------------------------
(* The file, memory and the answers *)

FileInv == FileKeepsClients /\ FileIsMemory

\* One client changes in the file and in memory, and its answer is what the file
\* now holds, or unknown.
LEMMA OneClientChanges ==
  ASSUME ClientPartOK, FileInv, told \in [ClientIds -> Names \cup {None, Unknown}],
         clientsFile \in Registries, NEW c \in ClientIds, NEW name \in Names \cup {None},
         clientsFile' \in {[clientsFile EXCEPT ![c] = name], Torn},
         NEW what \in {name, Unknown}, told' = [told EXCEPT ![c] = what],
         up' => up /\ clients' = [clients EXCEPT ![c] = name]
  PROVE  FileInv'
  <1> SUFFICES ASSUME clientsFile' # Torn PROVE FileInv'
    BY DEF FileInv, FileKeepsClients, FileIsMemory
  <1>1. clientsFile' = [clientsFile EXCEPT ![c] = name]
    OBVIOUS
  <1>2. clientsFile' \in Registries
    BY <1>1 DEF Registries
  <1>3. Content(clientsFile) = clientsFile /\ Content(clientsFile') = clientsFile'
    BY <1>2, ContentOfRegistry
  <1>4. clientsFile # Torn
    BY ContentOfRegistry
  <1>5. FileKeepsClients'
    <2> SUFFICES ASSUME NEW d \in ClientIds, told'[d] # Unknown
                 PROVE  clientsFile'[d] = told'[d]
      BY <1>3 DEF FileKeepsClients
    <2>1. CASE d = c
      BY <1>1, <2>1 DEF Registries
    <2>2. CASE d # c
      <3>1. told[d] # Unknown => clientsFile[d] = told[d]
        BY <1>3, <1>4 DEF FileInv, FileKeepsClients
      <3> QED BY <1>1, <2>2, <3>1 DEF Registries
    <2> QED BY <2>1, <2>2
  <1>6. FileIsMemory'
    BY <1>1, <1>3, <1>4 DEF FileInv, FileIsMemory
  <1> QED BY <1>5, <1>6 DEF FileInv

\* Nothing changes in the file and in memory; an answer may become unknown.
LEMMA NoClientChanges ==
  ASSUME FileInv, told \in [ClientIds -> Names \cup {None, Unknown}],
         UNCHANGED <<clients, clientsFile>>, up' => up,
         told' = told \/ \E c \in ClientIds : told' = [told EXCEPT ![c] = Unknown]
  PROVE  FileInv'
  <1>1. \A d \in ClientIds : told'[d] # Unknown => told'[d] = told[d]
    OBVIOUS
  <1> QED BY <1>1 DEF FileInv, FileKeepsClients, FileIsMemory, Content

\* A fresh installation promises nothing.
LEMMA InitFileInv == DurableInit => FileInv
  BY DEF DurableInit, FileInv, FileKeepsClients, FileIsMemory, Content, EmptyRegistry

\* Every step keeps what was promised.
LEMMA StepFileInv ==
  ASSUME "read" \notin IoFaults, DurableInv, FileInv, [DurableNext]_durableVars
  PROVE  FileInv'
  <1>0. ClientPartOK /\ told \in [ClientIds -> Names \cup {None, Unknown}]
    BY DEF DurableInv, QueueInv
  <1>1. ASSUME NEW io \in SUBSET IoFaults, Start(io) PROVE FileInv'
    <2>1. clientsFile' # Torn =>
            /\ clientsFile # Torn
            /\ Content(clientsFile') = Content(clientsFile)
            /\ clients' = Content(clientsFile')
      BY <1>0, <1>1, ClientLoadEffect DEF Start
    <2>2. UNCHANGED told
      BY <1>1 DEF Start
    <2> QED BY <2>1, <2>2 DEF FileInv, FileKeepsClients, FileIsMemory
  <1>2. CASE Serve
    <2>1. UNCHANGED <<clients, clientsFile, up, told>>
      BY <1>2 DEF Serve, Connection, InvalidLine, Refused, Unlogin, Login, Disconnect,
                  Written, Environment, clientVars
    <2> QED BY <1>0, <2>1, NoClientChanges
  <1>3. ASSUME NEW s \in SessionIds, NEW n \in Names, NEW c \in ClientIds, NEW io,
               up, Registers(s, n, c, io)
        PROVE  FileInv'
    <2>1. /\ SaveClient(clientsFile, c, n, io).ok =>
               /\ clientsFile \in Registries
               /\ clientsFile' \in {[clientsFile EXCEPT ![c] = n], Torn}
               /\ clients' = [clients EXCEPT ![c] = n]
          /\ ~SaveClient(clientsFile, c, n, io).ok => UNCHANGED <<clients, clientsFile>>
      BY <1>0, <1>3, CreateClientEffect DEF Registers, Register
    <2>2. CASE SaveClient(clientsFile, c, n, io).ok
      <3>1. PICK what \in {n, Unknown} : told' = [told EXCEPT ![c] = what]
        BY <1>3, <2>2 DEF Registers
      <3> QED BY <1>0, <1>3, <2>1, <2>2, <3>1, OneClientChanges
    <2>3. CASE ~SaveClient(clientsFile, c, n, io).ok
      <3>1. UNCHANGED session
        BY <1>3, <2>3 DEF Registers, Register
      <3>2. UNCHANGED <<told, up>>
        BY <1>3, <2>3, <3>1 DEF Registers
      <3> QED BY <1>0, <2>1, <2>3, <3>2, NoClientChanges
    <2> QED BY <2>2, <2>3
  <1>4. ASSUME NEW c \in ClientIds, NEW io, up, Removes(c, io) PROVE FileInv'
    <2>1. CASE DeleteClient(clientsFile, c, io).ok
      <3>1. /\ clientsFile \in Registries
            /\ clientsFile' \in {[clientsFile EXCEPT ![c] = None], Torn}
            /\ clients' = [clients EXCEPT ![c] = None]
            /\ told' = [told EXCEPT ![c] = None]
        BY <1>0, <1>4, <2>1, DeleteClientEffect DEF Removes, RemoveClient
      <3> QED BY <1>0, <1>4, <3>1, OneClientChanges
    <2>2. CASE ~DeleteClient(clientsFile, c, io).ok
      <3>1. UNCHANGED <<clients, clientsFile, told, up>>
        BY <1>0, <1>4, <2>2, DeleteClientEffect DEF Removes, RemoveClient
      <3> QED BY <1>0, <3>1, NoClientChanges
    <2> QED BY <2>1, <2>2
  <1>5. ASSUME NEW c \in ClientIds, NEW n \in Names, NEW io, DieAnswering(c, n, io)
        PROVE  FileInv'
    <2>1. ~up' /\ told' = [told EXCEPT ![c] = Unknown]
      BY <1>5 DEF DieAnswering, Dies
    <2>2. CASE CreateClient(n, c, io)
      <3>1. CASE SaveClient(clientsFile, c, n, io).ok
        BY <1>0, <2>1, <2>2, <3>1, CreateClientEffect, OneClientChanges
      <3>2. CASE ~SaveClient(clientsFile, c, n, io).ok
        BY <1>0, <2>1, <2>2, <3>2, CreateClientEffect, NoClientChanges
      <3> QED BY <3>1, <3>2
    <2>3. CASE clientsFile' = DeleteClient(clientsFile, c, io).file /\ UNCHANGED clients
      <3>1. CASE DeleteClient(clientsFile, c, io).ok
        BY <1>0, <2>1, <2>3, <3>1, DeleteClientEffect, OneClientChanges
      <3>2. CASE ~DeleteClient(clientsFile, c, io).ok
        BY <1>0, <2>1, <2>3, <3>2, DeleteClientEffect, NoClientChanges
      <3> QED BY <3>1, <3>2
    <2> QED BY <1>5, <2>2, <2>3 DEF DieAnswering
  <1>6. CASE Die
    BY <1>0, <1>6, NoClientChanges DEF Die, Dies
  <1>7. CASE UNCHANGED durableVars
    BY <1>0, <1>7, NoClientChanges DEF durableVars, vars, clientVars
  <1> QED BY <1>1, <1>2, <1>3, <1>4, <1>5, <1>6, <1>7 DEF DurableNext

LEMMA FileInvariance ==
  ASSUME "read" \notin IoFaults
  PROVE  DurableSpec => []FileInv
  <1>1. DurableInv /\ FileInv /\ [DurableNext]_durableVars => FileInv'
    BY StepFileInv
  <1> QED BY <1>1, InitFileInv, InitDurableInv, StepDurableInv, PTL DEF DurableSpec

\* If an existing file always opens for reading, a readable clients file holds
\* exactly the clients that were promised, whatever fails to be written, is torn
\* or dies.
THEOREM PromisedClientsKept ==
  ASSUME "read" \notin IoFaults
  PROVE  DurableSpec => []FileKeepsClients
  <1>1. FileInv => FileKeepsClients
    BY DEF FileInv
  <1> QED BY <1>1, FileInvariance, PTL

\* Under the same assumption the registry of a running broker is what its
\* readable file holds.
THEOREM MemoryIsFile ==
  ASSUME "read" \notin IoFaults
  PROVE  DurableSpec => []FileIsMemory
  <1>1. FileInv => FileIsMemory
    BY DEF FileInv
  <1> QED BY <1>1, FileInvariance, PTL
=============================================================================
