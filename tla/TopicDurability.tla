--------------------------- MODULE TopicDurability ---------------------------
(***************************************************************************)
(* What the answers to CREATE, SUBSCRIBE and UNSUBSCRIBE promise, against  *)
(* what the topics file and the memory of TopicManager hold, across I/O    *)
(* faults, crashes and restarts of the broker process.                     *)
(*                                                                         *)
(* told is a ghost: what the broker's last effective answer to client c    *)
(* about topic t was - "in" (CREATE or SUBSCRIBE answered OK), "out"       *)
(* (UNSUBSCRIBE answered OK, or nothing ever answered), "unknown" (the     *)
(* process died before the answer).  An error answer changes nothing.      *)
(* While the process is down, topics is what a dead process left: no       *)
(* property reads it, and Start overwrites it.                             *)
(***************************************************************************)
EXTENDS TopicManager

VARIABLES up, told

vars == <<topics, topicsFile, up, told>>

Told(c, t, what) == told' = [told EXCEPT ![c][t] = what]

\* A fresh installation: no process, no file.
Init ==
  /\ topics = EmptyTable
  /\ topicsFile = Absent
  /\ up = FALSE
  /\ told = [c \in ClientIds |-> [t \in Topics |-> "out"]]

\* main constructs TopicManager, which loads the file.
Start(io) ==
  /\ ~up
  /\ TopicLoad(io)
  /\ up' = TRUE
  /\ UNCHANGED told

Subscribe(c, t, io) ==
  /\ up
  /\ TopicSubscribe(c, t, io)
  /\ IF SubscribeCode(c, t, io) = "Ok" THEN Told(c, t, "in") ELSE UNCHANGED told
  /\ UNCHANGED up

Create(c, t, io) ==
  /\ up
  /\ TopicCreate(c, t, io)
  /\ IF CreateCode(c, t, io) = "Ok" THEN Told(c, t, "in") ELSE UNCHANGED told
  /\ UNCHANGED up

Unsubscribe(c, t, io) ==
  /\ up
  /\ TopicUnsubscribe(c, t, io)
  /\ IF UnsubscribeCode(c, t, io) = "Ok" THEN Told(c, t, "out") ELSE UNCHANGED told
  /\ UNCHANGED up

\* The process dies inside a command: the file is already written, or (io =
\* {"tear"}) truncated and half written, and the client gets no answer.
DieAnswering(c, t, io) ==
  /\ up
  /\ \/ TopicSubscribe(c, t, io)
     \/ TopicCreate(c, t, io)
     \/ TopicUnsubscribe(c, t, io)
  /\ Told(c, t, "unknown")
  /\ up' = FALSE

\* The process dies between commands.
Die ==
  /\ up
  /\ up' = FALSE
  /\ UNCHANGED <<topics, topicsFile, told>>

Next ==
  \/ \E io \in SUBSET IoFaults : Start(io)
  \/ \E c \in ClientIds, t \in Topics, io \in SUBSET IoFaults :
       Subscribe(c, t, io) \/ Create(c, t, io) \/ Unsubscribe(c, t, io)
  \/ \E c \in ClientIds, t \in Topics, io \in {{}, {"tear"}} : DieAnswering(c, t, io)
  \/ Die

Spec == Init /\ [][Next]_vars

-----------------------------------------------------------------------------
\* The types of the topic manager, its file, the process and the answers.
TypeOK ==
  /\ TopicTypeOK
  /\ up \in BOOLEAN
  /\ told \in [ClientIds -> [Topics -> {"in", "out", "unknown"}]]

\* The table a file stands for: an absent file holds nothing.
Content(file) == IF file = Absent THEN EmptyTable ELSE file

Has(table, c, t) == table[t] # NoTopic /\ c \in table[t]

\* A table agrees with every answer given.
Keeps(table) ==
  \A c \in ClientIds, t \in Topics :
    /\ told[c][t] = "in"  => Has(table, c, t)
    /\ told[c][t] = "out" => ~Has(table, c, t)

\* As long as the topics file can be read, it holds exactly what the answers
\* promised: a subscription answered OK is on disk, one that was never made
\* or that UNSUBSCRIBE answered OK for is not - whatever write faults, torn
\* writes, crashes and restarts happened (json_topic_repository.cpp: the file
\* is written before the command is answered, and rewritten from the file's
\* own content, not from memory).
FileKeepsPromises == topicsFile # Torn => Keeps(Content(topicsFile))

\* The memory of a running broker never lacks what the readable file holds:
\* no topic and no subscriber comes back only after a restart
\* (topic_manager.cpp writes first and erases after in Unsubscribe, and
\* inserts first and writes after in Subscribe).
FileWithinMemory ==
  up /\ topicsFile # Torn =>
    \A t \in Topics : Content(topicsFile)[t] # NoTopic =>
      topics[t] # NoTopic /\ Content(topicsFile)[t] \subseteq topics[t]

\* A running broker's memory follows its answers whatever fails: after an OK it
\* agrees with the answer, and nobody is dropped from a topic but by an
\* UNSUBSCRIBE that was answered OK (topic_manager.cpp:37-106).
AnswersMatchMemory ==
  [][up /\ up' => \A c \in ClientIds, t \in Topics :
       /\ told'[c][t] # told[c][t] => (Has(topics', c, t) <=> told'[c][t] = "in")
       /\ Has(topics, c, t) /\ ~Has(topics', c, t) => told'[c][t] = "out"]_vars

\* A topic in a readable file is never gone from the readable file a step
\* leaves (functional_requirements.md section 14: data survive restarts).
TopicsSurvive ==
  [][\A t \in Topics :
       /\ topicsFile \notin {Absent, Torn} /\ topicsFile' # Torn
       /\ topicsFile[t] # NoTopic
       => topicsFile' # Absent /\ topicsFile'[t] # NoTopic]_vars
=============================================================================
