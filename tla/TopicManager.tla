---------------------------- MODULE TopicManager ----------------------------
(***************************************************************************)
(* TopicManager (app/src/topics/topic_manager.cpp) over its repository     *)
(* JsonTopicRepository (app/src/db/json_topic_repository.cpp).             *)
(*                                                                         *)
(* topics is the map topic -> subscribers in memory, topicsFile the file.  *)
(* A table gives each topic its subscribers, or NoTopic when there is no   *)
(* such topic.  The JSON array of subscribers is a set here: SaveTopic     *)
(* refuses an id that is already in it, so it never holds one twice.       *)
(* Each operation comes as the code it returns and the change it makes.    *)
(***************************************************************************)
EXTENDS JsonFile

CONSTANTS Topics, NoTopic

VARIABLES topics, topicsFile

topicVars == <<topics, topicsFile>>

Tables == [Topics -> (SUBSET ClientIds) \cup {NoTopic}]

ASSUME TopicAssumption ==
  /\ \A S \in SUBSET ClientIds : NoTopic # S
  /\ Absent \notin Tables /\ Torn \notin Tables

TopicTypeOK ==
  /\ topics \in Tables
  /\ topicsFile \in Tables \cup {Absent, Torn}

EmptyTable == [t \in Topics |-> NoTopic]

-----------------------------------------------------------------------------
(* JsonTopicRepository: the result of a call and the file it leaves. *)

\* Mutant: the check that the ofstream opened is missing.
SaveTopicUnchecked(file, t, c, io) ==
  IF Parses(file, io) /\ file[t] # NoTopic /\ c \notin file[t]
  THEN [ok |-> TRUE, file |-> Stored(file, [file EXCEPT ![t] = @ \cup {c}], io).file]
  ELSE Failed(file)

SaveTopic(file, t, c, io) ==
  IF Parses(file, io) /\ file[t] # NoTopic /\ c \notin file[t]
  THEN Stored(file, [file EXCEPT ![t] = @ \cup {c}], io)
  ELSE Failed(file)

\* Mutant: the object is built anew, not added to the one that was read.
CreateTopicAfresh(file, t, c, io) ==
  IF file # Torn THEN Stored(file, [EmptyTable EXCEPT ![t] = {c}], io) ELSE Failed(file)

\* A file that does not open counts as an empty object, and is then
\* overwritten; one that does not parse makes the call fail.
CreateTopic(file, t, c, io) ==
  LET known == IF Opens(file, io) THEN file ELSE EmptyTable
  IN  IF known # Torn /\ known[t] = NoTopic
      THEN Stored(file, [known EXCEPT ![t] = {c}], io)
      ELSE Failed(file)

RemoveFromTopic(file, t, c, io) ==
  IF Parses(file, io) /\ file[t] # NoTopic /\ c \in file[t]
  THEN Stored(file, [file EXCEPT ![t] = @ \ {c}], io)
  ELSE Failed(file)

-----------------------------------------------------------------------------
(* TopicManager *)

\* The constructor: LoadTopics.
TopicLoad(io) ==
  LET loaded == Loaded(topicsFile, EmptyTable, io)
  IN  topics' = loaded.table /\ topicsFile' = loaded.file

\* Publish: the subscribers a message for t goes to (none when t is unknown).
Subscribers(t) == IF topics[t] = NoTopic THEN {} ELSE topics[t]

SubscribeCode(c, t, io) ==
  IF topics[t] = NoTopic THEN "TopicNotFound"
  ELSE IF SaveTopic(topicsFile, t, c, io).ok THEN "Ok" ELSE "InternalError"

\* The subscriber is inserted in memory first, and stays there when the
\* repository fails.
TopicSubscribe(c, t, io) ==
  \/ topics[t] = NoTopic /\ UNCHANGED topicVars
  \/ /\ topics[t] # NoTopic
     /\ topics' = [topics EXCEPT ![t] = @ \cup {c}]
     /\ topicsFile' = SaveTopic(topicsFile, t, c, io).file

CreateCode(c, t, io) ==
  IF topics[t] # NoTopic THEN "TopicAlreadyExists"
  ELSE IF CreateTopic(topicsFile, t, c, io).ok THEN "Ok" ELSE "InternalError"

TopicCreate(c, t, io) ==
  \/ topics[t] # NoTopic /\ UNCHANGED topicVars
  \/ /\ topics[t] = NoTopic
     /\ topicsFile' = CreateTopic(topicsFile, t, c, io).file
     /\ topics' = IF CreateTopic(topicsFile, t, c, io).ok
                  THEN [topics EXCEPT ![t] = {c}] ELSE topics

UnsubscribeCode(c, t, io) ==
  IF topics[t] = NoTopic THEN "TopicNotFound"
  ELSE IF c \notin topics[t] THEN "NotSubscribed"
  ELSE IF RemoveFromTopic(topicsFile, t, c, io).ok THEN "Ok"
  ELSE "InternalError"

\* Mutant: the id is erased from memory before the repository is called.
UnsubscribeEraseFirst(c, t, io) ==
  \/ c \notin Subscribers(t) /\ UNCHANGED topicVars
  \/ /\ c \in Subscribers(t)
     /\ topicsFile' = RemoveFromTopic(topicsFile, t, c, io).file
     /\ topics' = [topics EXCEPT ![t] = @ \ {c}]

\* Mutant: the id is not erased from memory.
UnsubscribeKeep(c, t, io) ==
  \/ c \notin Subscribers(t) /\ UNCHANGED topicVars
  \/ /\ c \in Subscribers(t)
     /\ topicsFile' = RemoveFromTopic(topicsFile, t, c, io).file
     /\ UNCHANGED topics

TopicUnsubscribe(c, t, io) ==
  \/ c \notin Subscribers(t) /\ UNCHANGED topicVars
  \/ /\ c \in Subscribers(t)
     /\ topicsFile' = RemoveFromTopic(topicsFile, t, c, io).file
     /\ topics' = IF RemoveFromTopic(topicsFile, t, c, io).ok
                  THEN [topics EXCEPT ![t] = @ \ {c}] ELSE topics
=============================================================================
