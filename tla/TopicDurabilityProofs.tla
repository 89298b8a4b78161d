------------------------ MODULE TopicDurabilityProofs ------------------------
(***************************************************************************)
(* Proofs of the invariants of TopicDurability, for any number of clients  *)
(* and topics.  TypeOK and AnswersMatchMemory hold under every fault.      *)
(* FileKeepsPromises and FileWithinMemory are inductive beside TypeOK, and *)
(* TopicsSurvive holds, as long as an existing file always opens for       *)
(* reading (with "read" faults they do not hold).                          *)
(***************************************************************************)
EXTENDS TopicDurability, TopicManagerProofs

USE FileAssumption, TopicAssumption

-----------------------------------------------------------------------------
(* Type correctness *)

\* An answer keeps the type of the ghost.
LEMMA ToldType ==
  ASSUME TypeOK, NEW c \in ClientIds, NEW t \in Topics,
         NEW what \in {"in", "out", "unknown"}, Told(c, t, what)
  PROVE  told' \in [ClientIds -> [Topics -> {"in", "out", "unknown"}]]
  BY DEF TypeOK, Told

\* The state of the topic manager, of its file and of the process keeps its
\* type under every fault, crash and restart.
THEOREM TypeCorrect == Spec => []TypeOK
  <1>1. Init => TypeOK
    <2>1. EmptyTable \in Tables
      BY DEF EmptyTable, Tables
    <2>2. Init => TopicTypeOK
      BY <2>1 DEF Init, TopicTypeOK
    <2>3. Init => up \in BOOLEAN
      BY DEF Init
    <2>4. Init => told \in [ClientIds -> [Topics -> {"in", "out", "unknown"}]]
      BY DEF Init
    <2> QED BY <2>2, <2>3, <2>4 DEF TypeOK
  <1>2. TypeOK /\ [Next]_vars => TypeOK'
    <2> SUFFICES ASSUME TypeOK, [Next]_vars PROVE TypeOK'
      OBVIOUS
    <2>1. ASSUME NEW io, Start(io) PROVE TypeOK'
      BY <2>1, LoadType DEF TypeOK, Start
    <2>2. ASSUME NEW c \in ClientIds, NEW t \in Topics, NEW io, Subscribe(c, t, io)
          PROVE  TypeOK'
      BY <2>2, OperationType, ToldType DEF TypeOK, Subscribe
    <2>3. ASSUME NEW c \in ClientIds, NEW t \in Topics, NEW io, Create(c, t, io)
          PROVE  TypeOK'
      BY <2>3, OperationType, ToldType DEF TypeOK, Create
    <2>4. ASSUME NEW c \in ClientIds, NEW t \in Topics, NEW io, Unsubscribe(c, t, io)
          PROVE  TypeOK'
      BY <2>4, OperationType, ToldType DEF TypeOK, Unsubscribe
    <2>5. ASSUME NEW c \in ClientIds, NEW t \in Topics, NEW io, DieAnswering(c, t, io)
          PROVE  TypeOK'
      BY <2>5, OperationType, ToldType DEF TypeOK, DieAnswering
    <2>6. CASE Die
      BY <2>6 DEF TypeOK, TopicTypeOK, Die
    <2>7. CASE UNCHANGED vars
      BY <2>7 DEF TypeOK, TopicTypeOK, vars
    <2> QED BY <2>1, <2>2, <2>3, <2>4, <2>5, <2>6, <2>7 DEF Next
  <1> QED BY <1>1, <1>2, PTL DEF Spec

-----------------------------------------------------------------------------
(* What a command does to the file, when an existing file always opens *)

\* SUBSCRIBE changes the file as its code says.
LEMMA SubscribeEffect ==
  ASSUME TopicTypeOK, NEW c \in ClientIds, NEW t \in Topics, NEW io,
         TopicSubscribe(c, t, io)
  PROVE  /\ SubscribeCode(c, t, io) = "Ok" =>
              /\ topicsFile \in Tables /\ topicsFile[t] # NoTopic
              /\ topicsFile' \in {[topicsFile EXCEPT ![t] = @ \cup {c}], Torn}
         /\ SubscribeCode(c, t, io) # "Ok" => topicsFile' = topicsFile
  <1>1. /\ SaveTopic(topicsFile, t, c, io).ok =>
             /\ topicsFile \in Tables /\ topicsFile[t] # NoTopic
             /\ SaveTopic(topicsFile, t, c, io).file
                  \in {[topicsFile EXCEPT ![t] = @ \cup {c}], Torn}
        /\ ~SaveTopic(topicsFile, t, c, io).ok =>
             SaveTopic(topicsFile, t, c, io).file = topicsFile
    BY SaveTopicCases DEF TopicTypeOK
  <1> QED BY <1>1 DEF TopicSubscribe, SubscribeCode, topicVars

\* So does CREATE; a file that does not open is then one that is absent.
LEMMA CreateEffect ==
  ASSUME TopicTypeOK, NEW c \in ClientIds, NEW t \in Topics, NEW io,
         "read" \notin io, TopicCreate(c, t, io)
  PROVE  /\ CreateCode(c, t, io) = "Ok" =>
              /\ topicsFile # Torn /\ Content(topicsFile)[t] = NoTopic
              /\ topicsFile' \in {[Content(topicsFile) EXCEPT ![t] = {c}], Torn}
         /\ CreateCode(c, t, io) # "Ok" => topicsFile' = topicsFile
  <1>1. (IF Opens(topicsFile, io) THEN topicsFile ELSE EmptyTable) = Content(topicsFile)
    BY DEF Opens, Content
  <1>2. /\ CreateTopic(topicsFile, t, c, io).ok =>
             /\ Content(topicsFile) \in Tables /\ Content(topicsFile)[t] = NoTopic
             /\ CreateTopic(topicsFile, t, c, io).file
                  \in {[Content(topicsFile) EXCEPT ![t] = {c}], Torn}
        /\ ~CreateTopic(topicsFile, t, c, io).ok =>
             CreateTopic(topicsFile, t, c, io).file = topicsFile
    BY <1>1, CreateTopicCases DEF TopicTypeOK
  <1>3. Content(topicsFile) \in Tables => topicsFile # Torn
    BY DEF Content
  <1> QED BY <1>2, <1>3 DEF TopicCreate, CreateCode, topicVars

\* So does UNSUBSCRIBE.
LEMMA UnsubscribeEffect ==
  ASSUME TopicTypeOK, NEW c \in ClientIds, NEW t \in Topics, NEW io,
         TopicUnsubscribe(c, t, io)
  PROVE  /\ UnsubscribeCode(c, t, io) = "Ok" =>
              /\ topicsFile \in Tables /\ topicsFile[t] # NoTopic
              /\ topicsFile' \in {[topicsFile EXCEPT ![t] = @ \ {c}], Torn}
         /\ UnsubscribeCode(c, t, io) # "Ok" => topicsFile' = topicsFile
  <1>1. /\ RemoveFromTopic(topicsFile, t, c, io).ok =>
             /\ topicsFile \in Tables /\ topicsFile[t] # NoTopic
             /\ RemoveFromTopic(topicsFile, t, c, io).file
                  \in {[topicsFile EXCEPT ![t] = @ \ {c}], Torn}
        /\ ~RemoveFromTopic(topicsFile, t, c, io).ok =>
             RemoveFromTopic(topicsFile, t, c, io).file = topicsFile
    BY RemoveFromTopicCases DEF TopicTypeOK
  <1> QED BY <1>1 DEF TopicUnsubscribe, UnsubscribeCode, Subscribers, topicVars

\* A start leaves the readable file what it was, and memory equal to it.
LEMMA StartEffect ==
  ASSUME TopicTypeOK, NEW io, "read" \notin io, TopicLoad(io)
  PROVE  /\ topicsFile' # Torn => topicsFile # Torn
         /\ topicsFile' # Torn => Content(topicsFile') = Content(topicsFile)
         /\ topicsFile' # Torn => topics' = Content(topicsFile)
  <1>1. EmptyTable \in Tables
    BY DEF EmptyTable, Tables
  <1> QED BY <1>1 DEF TopicTypeOK, TopicLoad, Loaded, Stored, Opens, Parses, Content

-----------------------------------------------------------------------------
(* The file keeps the promises *)

\* The tables old and new agree but for client c and topic t.
SameElsewhere(old, new, c, t) ==
  \A d \in ClientIds, u \in Topics : d # c \/ u # t => (Has(new, d, u) <=> Has(old, d, u))

\* One answer about (c, t), and a table that follows it and differs nowhere
\* else: the promises are kept.
LEMMA KeepsAfterAnswer ==
  ASSUME TypeOK, NEW c \in ClientIds, NEW t \in Topics, NEW old, NEW new,
         NEW what \in {"in", "out", "unknown"}, Told(c, t, what),
         Keeps(old), SameElsewhere(old, new, c, t),
         what = "in" => Has(new, c, t), what = "out" => ~Has(new, c, t)
  PROVE  \A d \in ClientIds, u \in Topics :
           /\ told'[d][u] = "in"  => Has(new, d, u)
           /\ told'[d][u] = "out" => ~Has(new, d, u)
  <1> SUFFICES ASSUME NEW d \in ClientIds, NEW u \in Topics
               PROVE  /\ told'[d][u] = "in"  => Has(new, d, u)
                      /\ told'[d][u] = "out" => ~Has(new, d, u)
    OBVIOUS
  <1>1. CASE d = c /\ u = t
    <2>1. told'[d][u] = what
      BY <1>1 DEF Told, TypeOK
    <2> QED BY <1>1, <2>1
  <1>2. CASE d # c \/ u # t
    <2>1. told'[d][u] = told[d][u]
      BY <1>2 DEF Told, TypeOK
    <2> QED BY <1>2, <2>1 DEF Keeps, SameElsewhere
  <1> QED BY <1>1, <1>2

\* The three changes a command makes to a table.
LEMMA TableChanges ==
  ASSUME NEW table \in Tables, NEW c \in ClientIds, NEW t \in Topics
  PROVE  /\ table[t] # NoTopic =>
              /\ SameElsewhere(table, [table EXCEPT ![t] = @ \cup {c}], c, t)
              /\ Has([table EXCEPT ![t] = @ \cup {c}], c, t)
              /\ SameElsewhere(table, [table EXCEPT ![t] = @ \ {c}], c, t)
              /\ ~Has([table EXCEPT ![t] = @ \ {c}], c, t)
         /\ table[t] = NoTopic =>
              /\ SameElsewhere(table, [table EXCEPT ![t] = {c}], c, t)
              /\ Has([table EXCEPT ![t] = {c}], c, t)
  <1> DEFINE grown  == [table EXCEPT ![t] = @ \cup {c}]
             shrunk == [table EXCEPT ![t] = @ \ {c}]
             made   == [table EXCEPT ![t] = {c}]
  <1>1. /\ DOMAIN table = Topics
        /\ \A u \in Topics : u # t => /\ grown[u] = table[u]
                                      /\ shrunk[u] = table[u]
                                      /\ made[u] = table[u]
        /\ grown[t] = table[t] \cup {c}
        /\ shrunk[t] = table[t] \ {c}
        /\ made[t] = {c}
    BY DEF Tables
  <1>2. NoTopic # {c}
    OBVIOUS
  <1>3. ASSUME table[t] # NoTopic
        PROVE  table[t] \cup {c} # NoTopic /\ table[t] \ {c} # NoTopic
    <2>1. table[t] \in SUBSET ClientIds
      BY <1>3 DEF Tables
    <2>2. table[t] \cup {c} \in SUBSET ClientIds /\ table[t] \ {c} \in SUBSET ClientIds
      BY <2>1
    <2> QED BY <2>2
  <1> HIDE DEF grown, shrunk, made
  <1>4. table[t] # NoTopic =>
          SameElsewhere(table, grown, c, t) /\ Has(grown, c, t)
    BY <1>1, <1>3 DEF SameElsewhere, Has
  <1>5. table[t] # NoTopic =>
          SameElsewhere(table, shrunk, c, t) /\ ~Has(shrunk, c, t)
    BY <1>1, <1>3 DEF SameElsewhere, Has
  <1>6. table[t] = NoTopic =>
          SameElsewhere(table, made, c, t) /\ Has(made, c, t)
    BY <1>1, <1>2 DEF SameElsewhere, Has
  <1> QED BY <1>4, <1>5, <1>6 DEF grown, shrunk, made

\* An operation that changes the file, if at all, as the answer it gives says.
LEMMA FileKeepsAfter ==
  ASSUME TypeOK, FileKeepsPromises, TopicTypeOK',
         NEW c \in ClientIds, NEW t \in Topics, NEW new, NEW what \in {"in", "out", "unknown"},
         topicsFile' \in {new, Torn}, topicsFile # Torn, new # Absent,
         SameElsewhere(Content(topicsFile), new, c, t),
         what = "in" => Has(new, c, t), what = "out" => ~Has(new, c, t),
         Told(c, t, what)
  PROVE  FileKeepsPromises'
  <1> SUFFICES ASSUME topicsFile' # Torn PROVE Keeps(Content(topicsFile))'
    BY DEF FileKeepsPromises
  <1>1. Keeps(Content(topicsFile))
    BY DEF FileKeepsPromises
  <1>2. topicsFile' = new /\ Content(topicsFile)' = new
    BY DEF Content
  <1>3. \A d \in ClientIds, u \in Topics :
          /\ told'[d][u] = "in"  => Has(new, d, u)
          /\ told'[d][u] = "out" => ~Has(new, d, u)
    BY <1>1, KeepsAfterAnswer
  <1> QED BY <1>2, <1>3 DEF Keeps, Has

\* The same file, and no answer or an answer lost: the promises are kept.
LEMMA FileKeepsUnchanged ==
  ASSUME TypeOK, FileKeepsPromises, NEW c \in ClientIds, NEW t \in Topics,
         topicsFile' = topicsFile, UNCHANGED told \/ Told(c, t, "unknown")
  PROVE  FileKeepsPromises'
  <1> SUFFICES ASSUME topicsFile # Torn PROVE Keeps(Content(topicsFile))'
    BY DEF FileKeepsPromises
  <1>1. Keeps(Content(topicsFile)) /\ Content(topicsFile)' = Content(topicsFile)
    BY DEF FileKeepsPromises, Content
  <1>2. CASE UNCHANGED told
    BY <1>1, <1>2 DEF Keeps, Has
  <1>3. CASE Told(c, t, "unknown")
    <2>1. SameElsewhere(Content(topicsFile), Content(topicsFile), c, t)
      BY DEF SameElsewhere
    <2>2. \A d \in ClientIds, u \in Topics :
            /\ told'[d][u] = "in"  => Has(Content(topicsFile), d, u)
            /\ told'[d][u] = "out" => ~Has(Content(topicsFile), d, u)
      BY <1>1, <1>3, <2>1, KeepsAfterAnswer
    <2> QED BY <1>1, <2>2 DEF Keeps, Has
  <1> QED BY <1>2, <1>3

\* A command that is answered (or not: "unknown") as its code says.
LEMMA CommandKeepsFile ==
  ASSUME TypeOK, TopicTypeOK', FileKeepsPromises, NEW c \in ClientIds, NEW t \in Topics,
         NEW io, "read" \notin io, NEW lost \in BOOLEAN,
         \/ /\ TopicSubscribe(c, t, io)
            /\ IF lost THEN Told(c, t, "unknown")
               ELSE IF SubscribeCode(c, t, io) = "Ok" THEN Told(c, t, "in") ELSE UNCHANGED told
         \/ /\ TopicCreate(c, t, io)
            /\ IF lost THEN Told(c, t, "unknown")
               ELSE IF CreateCode(c, t, io) = "Ok" THEN Told(c, t, "in") ELSE UNCHANGED told
         \/ /\ TopicUnsubscribe(c, t, io)
            /\ IF lost THEN Told(c, t, "unknown")
               ELSE IF UnsubscribeCode(c, t, io) = "Ok" THEN Told(c, t, "out") ELSE UNCHANGED told
  PROVE  FileKeepsPromises'
  <1>0. TopicTypeOK
    BY DEF TypeOK
  <1>1. ASSUME TopicSubscribe(c, t, io),
               IF lost THEN Told(c, t, "unknown")
               ELSE IF SubscribeCode(c, t, io) = "Ok" THEN Told(c, t, "in") ELSE UNCHANGED told
        PROVE  FileKeepsPromises'
    <2>1. CASE SubscribeCode(c, t, io) = "Ok"
      <3> DEFINE new == [topicsFile EXCEPT ![t] = @ \cup {c}]
      <3>1. /\ topicsFile \in Tables /\ topicsFile[t] # NoTopic
            /\ topicsFile' \in {new, Torn}
        BY <1>0, <1>1, <2>1, SubscribeEffect
      <3>2. Content(topicsFile) = topicsFile /\ topicsFile # Torn
        BY <3>1 DEF Content
      <3>3. new \in Tables
        BY <3>1 DEF Tables
      <3>4. SameElsewhere(topicsFile, new, c, t) /\ Has(new, c, t)
        BY <3>1, TableChanges
      <3>5. PICK what \in {"in", "unknown"} : Told(c, t, what)
        BY <1>1, <2>1
      <3> HIDE DEF new
      <3> QED BY <3>1, <3>2, <3>3, <3>4, <3>5, FileKeepsAfter
    <2>2. CASE SubscribeCode(c, t, io) # "Ok"
      BY <1>0, <1>1, <2>2, SubscribeEffect, FileKeepsUnchanged
    <2> QED BY <2>1, <2>2
  <1>2. ASSUME TopicCreate(c, t, io),
               IF lost THEN Told(c, t, "unknown")
               ELSE IF CreateCode(c, t, io) = "Ok" THEN Told(c, t, "in") ELSE UNCHANGED told
        PROVE  FileKeepsPromises'
    <2>1. CASE CreateCode(c, t, io) = "Ok"
      <3> DEFINE new == [Content(topicsFile) EXCEPT ![t] = {c}]
      <3>1. /\ topicsFile # Torn /\ Content(topicsFile)[t] = NoTopic
            /\ topicsFile' \in {new, Torn}
        BY <1>0, <1>2, <2>1, CreateEffect
      <3>2. Content(topicsFile) \in Tables
        BY <1>0, <3>1 DEF Content, TopicTypeOK, EmptyTable, Tables
      <3>3. new \in Tables
        BY <3>2 DEF Tables
      <3>4. SameElsewhere(Content(topicsFile), new, c, t) /\ Has(new, c, t)
        BY <3>1, <3>2, TableChanges
      <3>5. PICK what \in {"in", "unknown"} : Told(c, t, what)
        BY <1>2, <2>1
      <3> HIDE DEF new
      <3> QED BY <3>1, <3>3, <3>4, <3>5, FileKeepsAfter
    <2>2. CASE CreateCode(c, t, io) # "Ok"
      BY <1>0, <1>2, <2>2, CreateEffect, FileKeepsUnchanged
    <2> QED BY <2>1, <2>2
  <1>3. ASSUME TopicUnsubscribe(c, t, io),
               IF lost THEN Told(c, t, "unknown")
               ELSE IF UnsubscribeCode(c, t, io) = "Ok" THEN Told(c, t, "out") ELSE UNCHANGED told
        PROVE  FileKeepsPromises'
    <2>1. CASE UnsubscribeCode(c, t, io) = "Ok"
      <3> DEFINE new == [topicsFile EXCEPT ![t] = @ \ {c}]
      <3>1. /\ topicsFile \in Tables /\ topicsFile[t] # NoTopic
            /\ topicsFile' \in {new, Torn}
        BY <1>0, <1>3, <2>1, UnsubscribeEffect
      <3>2. Content(topicsFile) = topicsFile /\ topicsFile # Torn
        BY <3>1 DEF Content
      <3>3. new \in Tables
        BY <3>1 DEF Tables
      <3>4. SameElsewhere(topicsFile, new, c, t) /\ ~Has(new, c, t)
        BY <3>1, TableChanges
      <3>5. PICK what \in {"out", "unknown"} : Told(c, t, what)
        BY <1>3, <2>1
      <3> HIDE DEF new
      <3> QED BY <3>1, <3>2, <3>3, <3>4, <3>5, FileKeepsAfter
    <2>2. CASE UnsubscribeCode(c, t, io) # "Ok"
      BY <1>0, <1>3, <2>2, UnsubscribeEffect, FileKeepsUnchanged
    <2> QED BY <2>1, <2>2
  <1> QED BY <1>1, <1>2, <1>3

\* The readable topics file holds exactly what the answers promised, under
\* write faults, torn writes, crashes and restarts.  The invariant needs no
\* strengthening beside TypeOK; in particular it does not depend on memory.
THEOREM FilePromisesKept ==
  ASSUME "read" \notin IoFaults
  PROVE  Spec => []FileKeepsPromises
  <1>1. Init => FileKeepsPromises
    BY DEF Init, FileKeepsPromises, Content, Keeps, Has, EmptyTable
  <1>2. TypeOK /\ TypeOK' /\ FileKeepsPromises /\ [Next]_vars => FileKeepsPromises'
    <2> SUFFICES ASSUME TypeOK, TypeOK', FileKeepsPromises, [Next]_vars
                 PROVE  FileKeepsPromises'
      OBVIOUS
    <2>0. TopicTypeOK /\ TopicTypeOK'
      BY DEF TypeOK
    <2>1. ASSUME NEW io \in SUBSET IoFaults, Start(io) PROVE FileKeepsPromises'
      BY <2>0, <2>1, StartEffect DEF Start, FileKeepsPromises, Keeps, Has
    <2>2. ASSUME NEW c \in ClientIds, NEW t \in Topics, NEW io \in SUBSET IoFaults,
                 Subscribe(c, t, io)
          PROVE  FileKeepsPromises'
      BY <2>0, <2>2, CommandKeepsFile DEF Subscribe
    <2>3. ASSUME NEW c \in ClientIds, NEW t \in Topics, NEW io \in SUBSET IoFaults,
                 Create(c, t, io)
          PROVE  FileKeepsPromises'
      BY <2>0, <2>3, CommandKeepsFile DEF Create
    <2>4. ASSUME NEW c \in ClientIds, NEW t \in Topics, NEW io \in SUBSET IoFaults,
                 Unsubscribe(c, t, io)
          PROVE  FileKeepsPromises'
      BY <2>0, <2>4, CommandKeepsFile DEF Unsubscribe
    <2>5. ASSUME NEW c \in ClientIds, NEW t \in Topics, NEW io \in {{}, {"tear"}},
                 DieAnswering(c, t, io)
          PROVE  FileKeepsPromises'
      BY <2>0, <2>5, CommandKeepsFile DEF DieAnswering
    <2>6. CASE Die
      BY <2>6 DEF Die, FileKeepsPromises, Content, Keeps, Has
    <2>7. CASE UNCHANGED vars
      BY <2>7 DEF vars, FileKeepsPromises, Content, Keeps, Has
    <2> QED BY <2>1, <2>2, <2>3, <2>4, <2>5, <2>6, <2>7 DEF Next
  <1> QED BY <1>1, <1>2, TypeCorrect, PTL DEF Spec

-----------------------------------------------------------------------------
(* The memory lacks nothing that is in the file *)

\* SUBSCRIBE keeps the file within memory: it inserts there first.
LEMMA SubscribeWithin ==
  ASSUME TopicTypeOK, FileWithinMemory, up, NEW c \in ClientIds, NEW t \in Topics, NEW io,
         TopicSubscribe(c, t, io)
  PROVE  FileWithinMemory'
  <1>1. CASE topics[t] = NoTopic
    BY <1>1 DEF TopicSubscribe, topicVars, FileWithinMemory, Content
  <1>2. CASE topics[t] # NoTopic
    <2>1. /\ \A u \in Topics : u # t => topics'[u] = topics[u]
          /\ topics'[t] = topics[t] \cup {c} /\ topics'[t] # NoTopic
      BY <1>2 DEF TopicSubscribe, topicVars, TopicTypeOK, Tables
    <2>2. CASE SubscribeCode(c, t, io) # "Ok"
      <3>1. topicsFile' = topicsFile
        BY <2>2, SubscribeEffect
      <3> QED BY <2>1, <3>1 DEF FileWithinMemory, Content
    <2>3. CASE SubscribeCode(c, t, io) = "Ok"
      <3>1. /\ topicsFile \in Tables /\ topicsFile[t] # NoTopic
            /\ topicsFile' \in {[topicsFile EXCEPT ![t] = @ \cup {c}], Torn}
        BY <2>3, SubscribeEffect
      <3>2. CASE topicsFile' = Torn
        BY <3>2 DEF FileWithinMemory
      <3>3. CASE topicsFile' = [topicsFile EXCEPT ![t] = @ \cup {c}]
        <4>1. /\ \A u \in Topics : u # t => topicsFile'[u] = topicsFile[u]
              /\ topicsFile'[t] = topicsFile[t] \cup {c} /\ topicsFile' \in Tables
          BY <3>1, <3>3 DEF Tables
        <4>2. /\ topicsFile # Torn /\ Content(topicsFile) = topicsFile
              /\ Content(topicsFile') = topicsFile'
          BY <3>1, <4>1 DEF Content
        <4> QED BY <2>1, <3>1, <4>1, <4>2 DEF FileWithinMemory
      <3> QED BY <3>1, <3>2, <3>3
    <2> QED BY <2>2, <2>3
  <1> QED BY <1>1, <1>2

\* So does CREATE: memory gets the topic whenever the file does.
LEMMA CreateWithin ==
  ASSUME TopicTypeOK, FileWithinMemory, up, NEW c \in ClientIds, NEW t \in Topics, NEW io,
         "read" \notin io, TopicCreate(c, t, io)
  PROVE  FileWithinMemory'
  <1>1. CASE CreateCode(c, t, io) # "Ok"
    <2>1. UNCHANGED <<topics, topicsFile>>
      BY <1>1, CreateEffect DEF TopicCreate, CreateCode, topicVars
    <2> QED BY <2>1 DEF FileWithinMemory, Content
  <1>2. CASE CreateCode(c, t, io) = "Ok"
    <2>1. /\ topicsFile # Torn /\ Content(topicsFile)[t] = NoTopic
          /\ topicsFile' \in {[Content(topicsFile) EXCEPT ![t] = {c}], Torn}
      BY <1>2, CreateEffect
    <2>2. /\ \A u \in Topics : u # t => topics'[u] = topics[u]
          /\ topics'[t] = {c}
      BY <1>2 DEF TopicCreate, CreateCode, topicVars, TopicTypeOK, Tables
    <2>3. CASE topicsFile' = Torn
      BY <2>3 DEF FileWithinMemory
    <2>4. CASE topicsFile' = [Content(topicsFile) EXCEPT ![t] = {c}]
      <3>1. Content(topicsFile) \in Tables
        BY <2>1 DEF Content, TopicTypeOK, EmptyTable, Tables
      <3>2. /\ \A u \in Topics : u # t => topicsFile'[u] = Content(topicsFile)[u]
            /\ topicsFile'[t] = {c} /\ topicsFile' \in Tables
        BY <2>4, <3>1 DEF Tables
      <3>3. Content(topicsFile') = topicsFile' /\ {c} # NoTopic
        BY <3>2 DEF Content
      <3> QED BY <2>1, <2>2, <3>2, <3>3 DEF FileWithinMemory
    <2> QED BY <2>1, <2>3, <2>4
  <1> QED BY <1>1, <1>2

\* So does UNSUBSCRIBE: memory drops only what the file has dropped.
LEMMA UnsubscribeWithin ==
  ASSUME TopicTypeOK, FileWithinMemory, up, NEW c \in ClientIds, NEW t \in Topics, NEW io,
         TopicUnsubscribe(c, t, io)
  PROVE  FileWithinMemory'
  <1>1. CASE UnsubscribeCode(c, t, io) # "Ok"
    <2>1. UNCHANGED <<topics, topicsFile>>
      BY <1>1, UnsubscribeEffect DEF TopicUnsubscribe, UnsubscribeCode, Subscribers, topicVars
    <2> QED BY <2>1 DEF FileWithinMemory, Content
  <1>2. CASE UnsubscribeCode(c, t, io) = "Ok"
    <2>1. /\ topicsFile \in Tables /\ topicsFile[t] # NoTopic
          /\ topicsFile' \in {[topicsFile EXCEPT ![t] = @ \ {c}], Torn}
      BY <1>2, UnsubscribeEffect
    <2>2. /\ \A u \in Topics : u # t => topics'[u] = topics[u]
          /\ topics[t] # NoTopic /\ topics'[t] = topics[t] \ {c} /\ topics'[t] # NoTopic
      BY <1>2 DEF TopicUnsubscribe, UnsubscribeCode, Subscribers, topicVars, TopicTypeOK, Tables
    <2>3. CASE topicsFile' = Torn
      BY <2>3 DEF FileWithinMemory
    <2>4. CASE topicsFile' = [topicsFile EXCEPT ![t] = @ \ {c}]
      <3>1. /\ \A u \in Topics : u # t => topicsFile'[u] = topicsFile[u]
            /\ topicsFile'[t] = topicsFile[t] \ {c} /\ topicsFile' \in Tables
        BY <2>1, <2>4 DEF Tables
      <3>2. /\ topicsFile # Torn /\ Content(topicsFile) = topicsFile
            /\ Content(topicsFile') = topicsFile'
        BY <2>1, <3>1 DEF Content
      <3> QED BY <2>1, <2>2, <3>1, <3>2 DEF FileWithinMemory
    <2> QED BY <2>1, <2>3, <2>4
  <1> QED BY <1>1, <1>2

\* The memory of a running broker lacks no topic and no subscriber that the
\* readable file holds, under write faults, torn writes, crashes and restarts.
THEOREM MemoryCoversFile ==
  ASSUME "read" \notin IoFaults
  PROVE  Spec => []FileWithinMemory
  <1>1. Init => FileWithinMemory
    BY DEF Init, FileWithinMemory
  <1>2. TypeOK /\ FileWithinMemory /\ [Next]_vars => FileWithinMemory'
    <2> SUFFICES ASSUME TypeOK, FileWithinMemory, [Next]_vars PROVE FileWithinMemory'
      OBVIOUS
    <2>0. TopicTypeOK
      BY DEF TypeOK
    <2>1. ASSUME NEW io \in SUBSET IoFaults, Start(io) PROVE FileWithinMemory'
      BY <2>0, <2>1, StartEffect DEF Start, FileWithinMemory
    <2>2. ASSUME NEW c \in ClientIds, NEW t \in Topics, NEW io \in SUBSET IoFaults,
                 Subscribe(c, t, io)
          PROVE  FileWithinMemory'
      BY <2>0, <2>2, SubscribeWithin DEF Subscribe
    <2>3. ASSUME NEW c \in ClientIds, NEW t \in Topics, NEW io \in SUBSET IoFaults,
                 Create(c, t, io)
          PROVE  FileWithinMemory'
      BY <2>0, <2>3, CreateWithin DEF Create
    <2>4. ASSUME NEW c \in ClientIds, NEW t \in Topics, NEW io \in SUBSET IoFaults,
                 Unsubscribe(c, t, io)
          PROVE  FileWithinMemory'
      BY <2>0, <2>4, UnsubscribeWithin DEF Unsubscribe
    <2>5. ASSUME NEW c \in ClientIds, NEW t \in Topics, NEW io, DieAnswering(c, t, io)
          PROVE  FileWithinMemory'
      BY <2>5 DEF DieAnswering, FileWithinMemory
    <2>6. CASE Die
      BY <2>6 DEF Die, FileWithinMemory
    <2>7. CASE UNCHANGED vars
      BY <2>7 DEF vars, FileWithinMemory, Content
    <2> QED BY <2>1, <2>2, <2>3, <2>4, <2>5, <2>6, <2>7 DEF Next
  <1> QED BY <1>1, <1>2, TypeCorrect, PTL DEF Spec

-----------------------------------------------------------------------------
(* The memory follows the answers, whatever fails *)

\* What AnswersMatchMemory says of a step that leaves the broker up.
Followed ==
  \A d \in ClientIds, u \in Topics :
    /\ told'[d][u] # told[d][u] => (Has(topics', d, u) <=> told'[d][u] = "in")
    /\ Has(topics, d, u) /\ ~Has(topics', d, u) => told'[d][u] = "out"

\* A command about (c, t): answered with an OK that memory agrees with, or with
\* an error and nobody dropped.
LEMMA AnswerFollowed ==
  ASSUME TypeOK, NEW c \in ClientIds, NEW t \in Topics, NEW what \in {"in", "out"},
         SameElsewhere(topics, topics', c, t),
         \/ Told(c, t, what) /\ (Has(topics', c, t) <=> what = "in")
         \/ UNCHANGED told /\ (Has(topics, c, t) => Has(topics', c, t))
  PROVE  Followed
  <1> SUFFICES ASSUME NEW d \in ClientIds, NEW u \in Topics
               PROVE  /\ told'[d][u] # told[d][u] => (Has(topics', d, u) <=> told'[d][u] = "in")
                      /\ Has(topics, d, u) /\ ~Has(topics', d, u) => told'[d][u] = "out"
    BY DEF Followed
  <1>1. d # c \/ u # t => told'[d][u] = told[d][u]
    BY DEF Told, TypeOK
  <1>2. d # c \/ u # t => (Has(topics', d, u) <=> Has(topics, d, u))
    BY DEF SameElsewhere
  <1>3. CASE d = c /\ u = t
    <2>1. Told(c, t, what) => told'[c][t] = what
      BY DEF Told, TypeOK
    <2> QED BY <1>3, <2>1
  <1> QED BY <1>1, <1>2, <1>3

\* The memory after each command is the table before it or its one change.
LEMMA SubscribeFollowed ==
  ASSUME TypeOK, NEW c \in ClientIds, NEW t \in Topics, NEW io, Subscribe(c, t, io)
  PROVE  Followed
  <1>1. topics \in Tables
    BY DEF TypeOK, TopicTypeOK
  <1>2. CASE topics[t] = NoTopic
    <2>1. topics' = topics /\ UNCHANGED told
      BY <1>2 DEF Subscribe, TopicSubscribe, SubscribeCode, topicVars
    <2> QED BY <2>1, AnswerFollowed DEF SameElsewhere
  <1>3. CASE topics[t] # NoTopic
    <2>1. topics' = [topics EXCEPT ![t] = @ \cup {c}]
      BY <1>3 DEF Subscribe, TopicSubscribe, topicVars
    <2>2. SameElsewhere(topics, topics', c, t) /\ Has(topics', c, t)
      BY <1>1, <1>3, <2>1, TableChanges
    <2>3. Told(c, t, "in") \/ UNCHANGED told
      BY DEF Subscribe
    <2> QED BY <2>2, <2>3, AnswerFollowed
  <1> QED BY <1>2, <1>3

\* CREATE: a topic more when it is answered OK, nothing otherwise.
LEMMA CreateFollowed ==
  ASSUME TypeOK, NEW c \in ClientIds, NEW t \in Topics, NEW io, Create(c, t, io)
  PROVE  Followed
  <1>1. topics \in Tables
    BY DEF TypeOK, TopicTypeOK
  <1>2. CASE CreateCode(c, t, io) # "Ok"
    <2>1. topics' = topics /\ UNCHANGED told
      BY <1>2 DEF Create, TopicCreate, CreateCode, topicVars
    <2> QED BY <2>1, AnswerFollowed DEF SameElsewhere
  <1>3. CASE CreateCode(c, t, io) = "Ok"
    <2>1. topics[t] = NoTopic /\ topics' = [topics EXCEPT ![t] = {c}] /\ Told(c, t, "in")
      BY <1>3 DEF Create, TopicCreate, CreateCode, topicVars
    <2>2. SameElsewhere(topics, topics', c, t) /\ Has(topics', c, t)
      BY <1>1, <2>1, TableChanges
    <2> QED BY <2>1, <2>2, AnswerFollowed
  <1> QED BY <1>2, <1>3

\* UNSUBSCRIBE: a subscriber less when it is answered OK, nothing otherwise.
LEMMA UnsubscribeFollowed ==
  ASSUME TypeOK, NEW c \in ClientIds, NEW t \in Topics, NEW io, Unsubscribe(c, t, io)
  PROVE  Followed
  <1>1. topics \in Tables
    BY DEF TypeOK, TopicTypeOK
  <1>2. CASE UnsubscribeCode(c, t, io) # "Ok"
    <2>1. topics' = topics /\ UNCHANGED told
      BY <1>2 DEF Unsubscribe, TopicUnsubscribe, UnsubscribeCode, Subscribers, topicVars
    <2> QED BY <2>1, AnswerFollowed DEF SameElsewhere
  <1>3. CASE UnsubscribeCode(c, t, io) = "Ok"
    <2>1. topics[t] # NoTopic /\ topics' = [topics EXCEPT ![t] = @ \ {c}] /\ Told(c, t, "out")
      BY <1>3 DEF Unsubscribe, TopicUnsubscribe, UnsubscribeCode, Subscribers, topicVars
    <2>2. SameElsewhere(topics, topics', c, t) /\ ~Has(topics', c, t)
      BY <1>1, <2>1, TableChanges
    <2> QED BY <2>1, <2>2, AnswerFollowed
  <1> QED BY <1>2, <1>3

\* The memory of a running broker follows its answers under every fault, read
\* faults included: it agrees with an OK, and nobody is dropped from a topic
\* but by an UNSUBSCRIBE that was answered OK.
THEOREM MemoryFollowsAnswers == Spec => AnswersMatchMemory
  <1>1. TypeOK /\ [Next]_vars =>
          [up /\ up' => \A c \in ClientIds, t \in Topics :
             /\ told'[c][t] # told[c][t] => (Has(topics', c, t) <=> told'[c][t] = "in")
             /\ Has(topics, c, t) /\ ~Has(topics', c, t) => told'[c][t] = "out"]_vars
    <2>1. ASSUME TypeOK, NEW c \in ClientIds, NEW t \in Topics, NEW io,
                 Subscribe(c, t, io) \/ Create(c, t, io) \/ Unsubscribe(c, t, io)
          PROVE  Followed
      BY <2>1, SubscribeFollowed, CreateFollowed, UnsubscribeFollowed
    <2>2. TypeOK /\ Next /\ up /\ up' => Followed
      BY <2>1 DEF Next, Start, DieAnswering, Die
    <2> QED BY <2>2 DEF Followed
  <1> QED BY <1>1, TypeCorrect, PTL DEF Spec, AnswersMatchMemory

-----------------------------------------------------------------------------
(* No topic vanishes from the file *)

\* What a readable file holds is still there, if the step leaves it readable.
FileSurvives ==
  \A t \in Topics :
    /\ topicsFile \notin {Absent, Torn} /\ topicsFile' # Torn
    /\ topicsFile[t] # NoTopic
    => topicsFile' # Absent /\ topicsFile'[t] # NoTopic

\* Each command leaves the file, tears it, or replaces the entry of one topic.
LEMMA CommandSurvives ==
  ASSUME TopicTypeOK, NEW c \in ClientIds, NEW t \in Topics, NEW io, "read" \notin io,
         TopicSubscribe(c, t, io) \/ TopicCreate(c, t, io) \/ TopicUnsubscribe(c, t, io)
  PROVE  FileSurvives
  <1> SUFFICES ASSUME NEW u \in Topics, topicsFile \in Tables, topicsFile' # Torn,
                      topicsFile[u] # NoTopic
               PROVE  topicsFile' # Absent /\ topicsFile'[u] # NoTopic
    BY DEF FileSurvives, TopicTypeOK
  <1>1. topicsFile' # Absent
    <2>1. CASE TopicSubscribe(c, t, io)
      BY <2>1, SubscribeEffect DEF Tables
    <2>2. CASE TopicCreate(c, t, io)
      BY <2>2, CreateEffect DEF Tables, Content
    <2>3. CASE TopicUnsubscribe(c, t, io)
      BY <2>3, UnsubscribeEffect DEF Tables
    <2> QED BY <2>1, <2>2, <2>3
  <1>2. topicsFile'[u] # NoTopic
    <2>1. CASE TopicSubscribe(c, t, io)
      BY <2>1, SubscribeEffect DEF Tables
    <2>2. CASE TopicCreate(c, t, io)
      BY <2>2, CreateEffect DEF Tables, Content
    <2>3. CASE TopicUnsubscribe(c, t, io)
      BY <2>3, UnsubscribeEffect DEF Tables
    <2> QED BY <2>1, <2>2, <2>3
  <1> QED BY <1>1, <1>2

\* As long as an existing file always opens for reading, a topic that is in the
\* readable file is in every readable file that a step leaves.
THEOREM TopicsNeverVanish ==
  ASSUME "read" \notin IoFaults
  PROVE  Spec => TopicsSurvive
  <1>1. TypeOK /\ [Next]_vars =>
          [\A t \in Topics :
             /\ topicsFile \notin {Absent, Torn} /\ topicsFile' # Torn
             /\ topicsFile[t] # NoTopic
             => topicsFile' # Absent /\ topicsFile'[t] # NoTopic]_vars
    <2>1. ASSUME TypeOK, NEW c \in ClientIds, NEW t \in Topics, NEW io, "read" \notin io,
                 TopicSubscribe(c, t, io) \/ TopicCreate(c, t, io) \/ TopicUnsubscribe(c, t, io)
          PROVE  FileSurvives
      BY <2>1, CommandSurvives DEF TypeOK
    <2>2. ASSUME TypeOK, NEW io \in SUBSET IoFaults, Start(io) PROVE FileSurvives
      BY <2>2, StartEffect DEF TypeOK, Start, FileSurvives, Content, EmptyTable
    <2>3. TypeOK /\ Die => FileSurvives
      BY DEF Die, FileSurvives
    <2>4. TypeOK /\ Next => FileSurvives
      BY <2>1, <2>2, <2>3 DEF Next, Subscribe, Create, Unsubscribe, DieAnswering
    <2> QED BY <2>4 DEF FileSurvives
  <1> QED BY <1>1, TypeCorrect, PTL DEF Spec, TopicsSurvive
=============================================================================
