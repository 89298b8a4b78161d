--------------------------- MODULE MCMessageBroker ---------------------------
(***************************************************************************)
(* Small instances of MessageBroker for TLC.                               *)
(***************************************************************************)
EXTENDS BrokerRefinement

\* Client ids are random numbers, names and topics are opaque.  Sound for
\* safety only.
Symmetry == Permutations(ClientIds) \cup Permutations(Names) \cup Permutations(Topics)

\* A start over the files of an earlier run: every id is registered, under a
\* name of its own, and subscribed to every topic.  Init leads here through
\* REGISTER, CREATE, SUBSCRIBE and a restart.
InitWithFiles ==
  /\ SessionInit
  /\ clients \in {names \in [ClientIds -> Names] : IsInjective(names)}
  /\ clientsFile = clients
  /\ session = [c \in ClientIds |-> invalidSessionId]
  /\ buffer = [c \in ClientIds |-> <<>>]
  /\ topics = [t \in Topics |-> ClientIds]
  /\ topicsFile = topics
  /\ published = 0
  /\ audience = NoAudience
  /\ delivered = {}

SpecWithFiles == InitWithFiles /\ [][Next]_vars
=============================================================================
