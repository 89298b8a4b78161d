------------------------- MODULE TopicManagerProofs -------------------------
(***************************************************************************)
(* Lemmas about the operations of TopicManager and of its repository: what *)
(* a call leaves in the file, and type correctness.                        *)
(***************************************************************************)
EXTENDS TopicManager, TLAPS

USE FileAssumption, TopicAssumption

-----------------------------------------------------------------------------
(* The repository *)

\* What a call leaves is the file it found, a torn one, or the new table.
LEMMA StoredCases ==
  ASSUME NEW file, NEW new, NEW io
  PROVE  /\ Stored(file, new, io).ok \in BOOLEAN
         /\ Stored(file, new, io).file \in {file, new, Torn}
         /\ Stored(file, new, io).ok => Stored(file, new, io).file \in {new, Torn}
         /\ ~Stored(file, new, io).ok => Stored(file, new, io).file = file
  BY DEF Stored

\* SaveTopic adds exactly one subscriber, to a topic that is in the file.
LEMMA SaveTopicCases ==
  ASSUME NEW file \in Tables \cup {Absent, Torn},
         NEW t \in Topics, NEW c \in ClientIds, NEW io
  PROVE  /\ SaveTopic(file, t, c, io).file \in Tables \cup {Absent, Torn}
         /\ SaveTopic(file, t, c, io).ok =>
              /\ file \in Tables /\ file[t] # NoTopic
              /\ SaveTopic(file, t, c, io).file \in {[file EXCEPT ![t] = @ \cup {c}], Torn}
         /\ ~SaveTopic(file, t, c, io).ok => SaveTopic(file, t, c, io).file = file
  <1> DEFINE new == [file EXCEPT ![t] = @ \cup {c}]
  <1>1. CASE Parses(file, io) /\ file[t] # NoTopic /\ c \notin file[t]
    <2>1. file \in Tables
      BY <1>1 DEF Parses, Opens
    <2>2. file[t] \in SUBSET ClientIds
      BY <1>1, <2>1 DEF Tables
    <2>3. new \in Tables
      BY <2>1, <2>2 DEF Tables
    <2>4. SaveTopic(file, t, c, io) = Stored(file, new, io)
      BY <1>1 DEF SaveTopic
    <2> QED BY <1>1, <2>1, <2>3, <2>4, StoredCases
  <1>2. CASE ~(Parses(file, io) /\ file[t] # NoTopic /\ c \notin file[t])
    BY <1>2 DEF SaveTopic, Failed
  <1> QED BY <1>1, <1>2

\* CreateTopic adds exactly one topic to what the file holds, if it opens.
LEMMA CreateTopicCases ==
  ASSUME NEW file \in Tables \cup {Absent, Torn},
         NEW t \in Topics, NEW c \in ClientIds, NEW io,
         NEW known, known = IF Opens(file, io) THEN file ELSE EmptyTable
  PROVE  /\ CreateTopic(file, t, c, io).file \in Tables \cup {Absent, Torn}
         /\ CreateTopic(file, t, c, io).ok =>
              /\ known \in Tables /\ known[t] = NoTopic
              /\ CreateTopic(file, t, c, io).file \in {[known EXCEPT ![t] = {c}], Torn}
         /\ ~CreateTopic(file, t, c, io).ok => CreateTopic(file, t, c, io).file = file
  <1> DEFINE new == [known EXCEPT ![t] = {c}]
  <1>1. CASE known # Torn /\ known[t] = NoTopic
    <2>1. known \in Tables
      BY <1>1 DEF Opens, EmptyTable, Tables
    <2>2. new \in Tables
      BY <2>1 DEF Tables
    <2>3. CreateTopic(file, t, c, io) = Stored(file, new, io)
      BY <1>1 DEF CreateTopic
    <2> QED BY <1>1, <2>1, <2>2, <2>3, StoredCases
  <1>2. CASE ~(known # Torn /\ known[t] = NoTopic)
    BY <1>2 DEF CreateTopic, Failed
  <1> QED BY <1>1, <1>2

\* RemoveFromTopic removes exactly one subscriber.
LEMMA RemoveFromTopicCases ==
  ASSUME NEW file \in Tables \cup {Absent, Torn},
         NEW t \in Topics, NEW c \in ClientIds, NEW io
  PROVE  /\ RemoveFromTopic(file, t, c, io).file \in Tables \cup {Absent, Torn}
         /\ RemoveFromTopic(file, t, c, io).ok =>
              /\ file \in Tables /\ file[t] # NoTopic
              /\ RemoveFromTopic(file, t, c, io).file \in {[file EXCEPT ![t] = @ \ {c}], Torn}
         /\ ~RemoveFromTopic(file, t, c, io).ok => RemoveFromTopic(file, t, c, io).file = file
  <1> DEFINE new == [file EXCEPT ![t] = @ \ {c}]
  <1>1. CASE Parses(file, io) /\ file[t] # NoTopic /\ c \in file[t]
    <2>1. file \in Tables
      BY <1>1 DEF Parses, Opens
    <2>2. file[t] \in SUBSET ClientIds
      BY <1>1, <2>1 DEF Tables
    <2>3. new \in Tables
      BY <2>1, <2>2 DEF Tables
    <2>4. RemoveFromTopic(file, t, c, io) = Stored(file, new, io)
      BY <1>1 DEF RemoveFromTopic
    <2> QED BY <1>1, <2>1, <2>3, <2>4, StoredCases
  <1>2. CASE ~(Parses(file, io) /\ file[t] # NoTopic /\ c \in file[t])
    BY <1>2 DEF RemoveFromTopic, Failed
  <1> QED BY <1>1, <1>2

-----------------------------------------------------------------------------
(* Type correctness *)

\* The constructor keeps the types, whatever it finds and whatever fails.
LEMMA LoadType ==
  ASSUME TopicTypeOK, NEW io, TopicLoad(io)
  PROVE  TopicTypeOK'
  BY DEF TopicTypeOK, TopicLoad, Loaded, Stored, Opens, Parses, EmptyTable, Tables

\* So does each operation.
LEMMA OperationType ==
  ASSUME TopicTypeOK, NEW c \in ClientIds, NEW t \in Topics, NEW io,
         TopicSubscribe(c, t, io) \/ TopicCreate(c, t, io) \/ TopicUnsubscribe(c, t, io)
  PROVE  TopicTypeOK'
  <1>1. CASE TopicSubscribe(c, t, io)
    <2>1. topicsFile' \in Tables \cup {Absent, Torn}
      <3>1. SaveTopic(topicsFile, t, c, io).file \in Tables \cup {Absent, Torn}
        BY SaveTopicCases DEF TopicTypeOK
      <3> QED BY <1>1, <3>1 DEF TopicTypeOK, TopicSubscribe, topicVars
    <2>2. topics' \in Tables
      BY <1>1 DEF TopicTypeOK, TopicSubscribe, topicVars, Tables
    <2> QED BY <2>1, <2>2 DEF TopicTypeOK
  <1>2. CASE TopicCreate(c, t, io)
    <2>1. topicsFile' \in Tables \cup {Absent, Torn}
      <3>1. CreateTopic(topicsFile, t, c, io).file \in Tables \cup {Absent, Torn}
        BY CreateTopicCases DEF TopicTypeOK
      <3> QED BY <1>2, <3>1 DEF TopicTypeOK, TopicCreate, topicVars
    <2>2. topics' \in Tables
      BY <1>2 DEF TopicTypeOK, TopicCreate, topicVars, Tables
    <2> QED BY <2>1, <2>2 DEF TopicTypeOK
  <1>3. CASE TopicUnsubscribe(c, t, io)
    <2>1. topicsFile' \in Tables \cup {Absent, Torn}
      <3>1. RemoveFromTopic(topicsFile, t, c, io).file \in Tables \cup {Absent, Torn}
        BY RemoveFromTopicCases DEF TopicTypeOK
      <3> QED BY <1>3, <3>1 DEF TopicTypeOK, TopicUnsubscribe, topicVars
    <2>2. topics' \in Tables
      BY <1>3 DEF TopicTypeOK, TopicUnsubscribe, Subscribers, topicVars, Tables
    <2> QED BY <2>1, <2>2 DEF TopicTypeOK
  <1> QED BY <1>1, <1>2, <1>3
=============================================================================
