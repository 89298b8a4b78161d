------------------------- MODULE BrokerProcessProofs -------------------------
(***************************************************************************)
(* Proofs of the invariants of BrokerProcess, and of Logging within it,    *)
(* for any number of lines and any set of configurations.  Inv is the      *)
(* inductive invariant: the types, the way of a line through a sink, and   *)
(* which threads can still log in which phase of main.                     *)
(***************************************************************************)
EXTENDS BrokerProcess, SequenceTheorems, TLAPS

-----------------------------------------------------------------------------
(* The inductive invariant *)

\* While there is no instance there is no writer, no queued line and no call.
InstanceInv ==
  level = NoInstance =>
    /\ \A d \in Sinks : writer[d] = "none" /\ queue[d] = <<>>
    /\ \A t \in Threads : calling[t] = <<>>

\* A thread in the middle of a call has a line of its own to push.
CallerInv == \A t \in Threads : calling[t] # <<>> => logged[t] > 0

\* A writer holds a line only between its pop and its print, tests the queue
\* only once it has seen stop_, and ends only with an empty queue, unless it has
\* nothing to print to.
WriterInv ==
  \A d \in Sinks :
    /\ writer[d] # "print" => held[d] = <<>>
    /\ writer[d] = "empty?" => stop[d]
    /\ writer[d] = "ended" /\ Prints(d) => stop[d] /\ queue[d] = <<>>

\* Who may be in a call: main while it loads, the server thread while it runs,
\* the thread in Server::Stop until it has asked the server to stop.
CallInv ==
  /\ phase # "loading" => calling["main"] = <<>>
  /\ server # "running" => calling["server"] = <<>> /\ (server = "none" \/ stopAsked)
  /\ server = "none" \/ stopAsked => calling["stopper"] = <<>>
  /\ server = "running" => phase \in {"serving", "aborted"}
  /\ phase \in {"reading", "starting", "loading"} => server = "none"

\* What main has done to the sinks in each of its phases.
PhaseInv ==
  /\ \A d \in Sinks : stop[d] => phase \in {"joining shell", "joining file", "ended"}
  /\ phase = "joining file" => writer["shell"] = "ended"
  /\ phase = "ended" => level = NoInstance \/ \A d \in Sinks : writer[d] = "ended"

\* An instance exists from InitLogManager on, and only then.
InForceInv ==
  /\ phase \in {"reading", "starting"} => level = NoInstance
  /\ phase \in {"loading", "serving"} => level # NoInstance
  /\ ConfigurationInForce

Inv ==
  /\ TypeOK /\ LinesInOrder
  /\ InstanceInv /\ CallerInv /\ WriterInv /\ CallInv /\ PhaseInv
  /\ InForceInv /\ ConfiguredPortServed

-----------------------------------------------------------------------------
(* Lemmas about the operators *)

\* A level has a number below that of NoInstance, whatever its name.
LEMMA LevelNumber == \A name : ConfigToLevel(name) \in 0..4
  BY DEF ConfigToLevel, LogLevels

\* The first of the sinks still to be served is a sink, and the rest again such
\* a list.
LEMMA DirectionRest ==
  ASSUME NEW direction \in LogDirections
  PROVE  /\ direction # <<>> /\ Head(direction) \in Sinks
         /\ Tail(direction) \in LogDirections \cup {<<>>}
  <1>1. Head(<<"shell">>) = "shell" /\ Tail(<<"shell">>) = <<>>
    OBVIOUS
  <1>2. Head(<<"file">>) = "file" /\ Tail(<<"file">>) = <<>>
    OBVIOUS
  <1>3. Head(<<"shell", "file">>) = "shell"
    OBVIOUS
  <1>4. Tail(<<"shell", "file">>) = <<"file">>
    OBVIOUS
  <1>5. CASE direction = <<"shell">>
    BY <1>1, <1>5 DEF Sinks
  <1>6. CASE direction = <<"file">>
    BY <1>2, <1>6 DEF Sinks
  <1>7. CASE direction = <<"shell", "file">>
    <2>1. <<"file">> \in LogDirections
      BY DEF LogDirections
    <2> QED BY <1>3, <1>4, <1>7, <2>1 DEF Sinks
  <1> QED BY <1>5, <1>6, <1>7 DEF LogDirections

\* What the writer holds is a sequence of lines.
LEMMA HeldType ==
  ASSUME NEW h \in {<<>>} \cup {<<line>> : line \in Lines}
  PROVE  h \in Seq(Lines)
  <1>1. CASE h = <<>>
    BY <1>1
  <1>2. CASE \E line \in Lines : h = <<line>>
    BY <1>2
  <1> QED BY <1>1, <1>2

\* A function over the sinks, written as a record.
LEMMA OfSinks ==
  ASSUME NEW S, NEW x \in S, NEW y \in S
  PROVE  [shell |-> x, file |-> y] \in [Sinks -> S]
  BY DEF Sinks

\* A line keeps its place on its way through a sink: when it is pushed, ...
LEMMA PushKeepsOrder ==
  ASSUME NEW o \in Seq(Lines), NEW h \in Seq(Lines), NEW q \in Seq(Lines), NEW e \in Lines
  PROVE  Append(o \o h \o q, e) = o \o h \o Append(q, e)
  <1>1. o \o h \in Seq(Lines) /\ o \o h \o q \in Seq(Lines) /\ <<e>> \in Seq(Lines)
    <2>1. o \o h \in Seq(Lines)
      OBVIOUS
    <2>2. (o \o h) \o q \in Seq(Lines)
      BY <2>1
    <2> QED BY <2>1, <2>2
  <1>2. Append(o \o h \o q, e) = (o \o h \o q) \o <<e>>
    BY <1>1, AppendIsConcat
  <1>3. (o \o h \o q) \o <<e>> = o \o h \o (q \o <<e>>)
    BY <1>1, ConcatAssociative
  <1> QED BY <1>2, <1>3, AppendIsConcat

\* ... when the writer pops it, ...
LEMMA PopKeepsOrder ==
  ASSUME NEW o \in Seq(Lines), NEW q \in Seq(Lines), q # <<>>
  PROVE  o \o <<>> \o q = o \o <<Head(q)>> \o Tail(q)
  <1>1. Head(q) \in Lines /\ Tail(q) \in Seq(Lines) /\ <<Head(q)>> \in Seq(Lines)
    BY HeadTailProperties
  <1>2. q = <<Head(q)>> \o Tail(q)
    <2>1. <<Head(q)>> \o Tail(q) \in Seq(Lines) /\ Len(<<Head(q)>> \o Tail(q)) = Len(q)
      BY <1>1, ConcatProperties, HeadTailProperties, LenProperties
    <2>2. \A i \in 1..Len(q) : q[i] = (<<Head(q)>> \o Tail(q))[i]
      BY <1>1, ConcatProperties, HeadTailProperties, LenProperties
    <2> QED BY <2>1, <2>2, SeqEqual
  <1>3. o \o <<>> = o
    BY ConcatEmptySeq
  <1>4. o \o <<Head(q)>> \o Tail(q) = o \o (<<Head(q)>> \o Tail(q))
    BY <1>1, ConcatAssociative
  <1> QED BY <1>2, <1>3, <1>4

\* ... and when it is printed.
LEMMA PrintKeepsOrder ==
  ASSUME NEW o \in Seq(Lines), NEW h \in Seq(Lines), NEW q \in Seq(Lines)
  PROVE  o \o h \o q = (o \o h) \o <<>> \o q
  BY ConcatProperties, ConcatEmptySeq

\* The signed short a port is kept in gives the port back where it is used.
LEMMA PortThroughShort ==
  ASSUME NEW n \in Int, 0 <= n, n < 65536
  PROVE  (((n + 32768) % 65536) - 32768) % 65536 = n
  <1>1. \A m \in Int : 0 <= m /\ m < 65536 => m % 65536 = m
    OBVIOUS
  <1>2. \A m \in Int : (m + 65536) % 65536 = m % 65536
    OBVIOUS
  <1>3. n % 65536 = n
    BY <1>1
  <1>4. CASE n < 32768
    <2>1. (n + 32768) % 65536 = n + 32768
      BY <1>1, <1>4
    <2>2. (n + 32768) - 32768 = n
      OBVIOUS
    <2> QED BY <1>3, <2>1, <2>2
  <1>5. CASE ~(n < 32768)
    <2>1. (n - 32768) % 65536 = n - 32768
      BY <1>1, <1>5
    <2>2. ((n - 32768) + 65536) % 65536 = (n - 32768) % 65536
      BY <1>2
    <2>3. (n - 32768) + 65536 = n + 32768
      OBVIOUS
    <2>4. (n + 32768) % 65536 = n - 32768
      BY <2>1, <2>2, <2>3
    <2>5. ((n - 65536) + 65536) % 65536 = (n - 65536) % 65536
      BY <1>2
    <2>6. (n - 65536) + 65536 = n /\ (n - 32768) - 32768 = n - 65536
      OBVIOUS
    <2>7. (n - 65536) % 65536 = n
      BY <1>3, <2>5, <2>6
    <2> QED BY <2>4, <2>6, <2>7
  <1> QED BY <1>4, <1>5

\* What the acceptor is bound to is a port: the configured one if that is a port,
\* and one of the system's choice if it is 0.
LEMMA PortServed ==
  ASSUME NEW n \in Int, NEW p \in BoundTo(UnsignedShort(Short(n)))
  PROVE  /\ p \in Ports
         /\ n \in Ports => p = n
         /\ n = 0 => p \in FreePorts
  <1>1. 2^15 = 32768 /\ 2^16 = 65536
    BY SMT
  <1>2. \A m : m \in Ports <=> m \in Int /\ 0 < m /\ m < 65536
    BY <1>1 DEF Ports
  <1>3. UnsignedShort(Short(n)) = (((n + 32768) % 65536) - 32768) % 65536
    BY <1>1 DEF UnsignedShort, Short
  <1>4. UnsignedShort(Short(n)) \in Ports \cup {0}
    <2>1. \A m \in Int : m % 65536 \in Ports \cup {0}
      BY <1>2
    <2>2. ((n + 32768) % 65536) - 32768 \in Int
      OBVIOUS
    <2>3. PICK m \in Int : m = ((n + 32768) % 65536) - 32768
      BY <2>2
    <2> QED BY <1>3, <2>1, <2>3
  <1>5. n \in Ports \cup {0} => UnsignedShort(Short(n)) = n
    BY <1>2, <1>3, PortThroughShort
  <1>6. FreePorts \subseteq Ports /\ 0 \notin Ports
    BY <1>2, ProcessAssumption
  <1> QED BY <1>4, <1>5, <1>6 DEF BoundTo

-----------------------------------------------------------------------------
(* The steps of the sinks *)

\* A thread that may be in a call logs a line: the instance is there and stays
\* as it is, and the thread has its sinks to serve, or none.
LEMMA LogStep ==
  ASSUME Inv, Alive, NEW t \in Threads, NEW lineLevel, NEW direction \in LogDirections,
         Log(t, lineLevel, direction), UNCHANGED processVars,
         \/ t = "main" /\ phase = "loading"
         \/ t = "server" /\ server = "running"
         \/ t = "stopper" /\ server = "running" /\ ~stopAsked
  PROVE  Inv'
  <1>1. level # NoInstance
    BY DEF Inv, CallInv, InForceInv, Alive
  <1>2. PICK sinks \in LogDirections \cup {<<>>} : calling' = [calling EXCEPT ![t] = sinks]
    BY DEF Log
  <1>3. /\ UNCHANGED <<level, fileOpen, queue, stop, writer, held, output, accepted>>
        /\ UNCHANGED <<config, phase, port, server, stopAsked>>
        /\ logged' = [logged EXCEPT ![t] = @ + 1] /\ logged[t] < MaxLines[t]
    BY <1>1 DEF Log, CreateInstance, processVars
  <1>4. TypeOK
    BY DEF Inv
  <1>5. TypeOK'
    <2>1. LogTypeOK'
      BY <1>2, <1>3, <1>4, LoggingAssumption DEF TypeOK, LogTypeOK
    <2> QED BY <1>3, <1>4, <2>1 DEF TypeOK
  <1>6. CallerInv'
    BY <1>2, <1>3, <1>4 DEF Inv, CallerInv, TypeOK, LogTypeOK
  <1>7. CallInv'
    BY <1>2, <1>3, <1>4 DEF Inv, CallInv, TypeOK, LogTypeOK, Alive
  <1>8. InstanceInv' /\ WriterInv' /\ PhaseInv' /\ InForceInv'
    BY <1>1, <1>3 DEF Inv, InstanceInv, WriterInv, PhaseInv, InForceInv, Prints,
                      ConfigurationInForce, ConfiguredLevel, Given
  <1>9. LinesInOrder'
    BY <1>3 DEF Inv, LinesInOrder
  <1>10. ConfiguredPortServed'
    BY <1>3 DEF Inv, ConfiguredPortServed, ConfiguredPort, Given
  <1> QED BY <1>5, <1>6, <1>7, <1>8, <1>9, <1>10 DEF Inv

\* Once a sink is told to stop, no thread is in a call.
LEMMA NobodyPushes ==
  ASSUME Inv, NEW d \in Sinks, stop[d], NEW t \in Threads
  PROVE  calling[t] = <<>>
  <1>1. phase \in {"joining shell", "joining file", "ended"}
    BY DEF Inv, PhaseInv
  <1>2. server # "running"
    BY <1>1 DEF Inv, CallInv
  <1> QED BY <1>1, <1>2, ProcessAssumption DEF Inv, CallInv

\* A thread pushes its line to the next sink it has to serve.
LEMMA SetQueueStep ==
  ASSUME Inv, NEW t \in Threads, SetQueue(t), UNCHANGED processVars
  PROVE  Inv'
  <1> DEFINE d == Head(calling[t])
             line == <<t, logged[t]>>
  <1>1. TypeOK
    BY DEF Inv
  <1>2. calling[t] \in LogDirections
    BY <1>1 DEF SetQueue, TypeOK, LogTypeOK
  <1>3. d \in Sinks /\ Tail(calling[t]) \in LogDirections \cup {<<>>}
    BY <1>2, DirectionRest
  <1>4. line \in Lines
    <2>1. logged[t] \in 1..MaxLines[t]
      BY <1>1, LoggingAssumption DEF Inv, CallerInv, SetQueue, TypeOK, LogTypeOK
    <2> QED BY <2>1 DEF Lines
  <1>5. /\ queue' = [queue EXCEPT ![d] = Append(@, line)]
        /\ accepted' = [accepted EXCEPT ![d] = Append(@, line)]
        /\ calling' = [calling EXCEPT ![t] = Tail(@)]
        /\ UNCHANGED <<level, fileOpen, stop, writer, held, output, logged>>
        /\ UNCHANGED <<config, phase, port, server, stopAsked>>
    BY DEF SetQueue, writerVars, processVars
  <1> HIDE DEF d, line
  <1>6. TypeOK'
    <2>1. queue' \in [Sinks -> Seq(Lines)] /\ accepted' \in [Sinks -> Seq(Lines)]
      BY <1>1, <1>3, <1>4, <1>5, AppendProperties DEF TypeOK, LogTypeOK
    <2>2. LogTypeOK'
      BY <1>1, <1>3, <1>5, <2>1 DEF TypeOK, LogTypeOK
    <2> QED BY <1>1, <1>5, <2>2 DEF TypeOK
  <1>7. LinesInOrder'
    <2> SUFFICES ASSUME NEW e \in Sinks
                 PROVE  accepted'[e] = output'[e] \o held'[e] \o queue'[e]
      BY DEF LinesInOrder
    <2>1. accepted[e] = output[e] \o held[e] \o queue[e]
      BY DEF Inv, LinesInOrder
    <2>2. CASE e # d
      BY <1>1, <1>5, <2>1, <2>2 DEF TypeOK, LogTypeOK
    <2>3. CASE e = d
      <3>1. output[d] \in Seq(Lines) /\ held[d] \in Seq(Lines) /\ queue[d] \in Seq(Lines)
        BY <1>1, <1>3, HeldType DEF TypeOK, LogTypeOK
      <3>2. accepted'[d] = Append(accepted[d], line) /\ queue'[d] = Append(queue[d], line)
        BY <1>1, <1>3, <1>5 DEF TypeOK, LogTypeOK
      <3>3. Append(output[d] \o held[d] \o queue[d], line)
              = output[d] \o held[d] \o Append(queue[d], line)
        BY <1>4, <3>1, PushKeepsOrder
      <3> QED BY <1>5, <2>1, <2>3, <3>2, <3>3
    <2> QED BY <2>2, <2>3
  <1>8. level # NoInstance /\ ~stop[d]
    <2>1. calling[t] # <<>>
      BY DEF SetQueue
    <2> QED BY <1>3, <2>1, NobodyPushes DEF Inv, InstanceInv
  <1>9. InstanceInv' /\ PhaseInv' /\ InForceInv'
    BY <1>5, <1>8 DEF Inv, InstanceInv, PhaseInv, InForceInv, ConfigurationInForce,
                      ConfiguredLevel, Given
  <1>10. ConfiguredPortServed'
    BY <1>5 DEF Inv, ConfiguredPortServed, ConfiguredPort, Given
  <1>11. CallerInv' /\ CallInv'
    BY <1>1, <1>5 DEF Inv, CallerInv, CallInv, SetQueue, TypeOK, LogTypeOK
  <1>12. WriterInv'
    BY <1>1, <1>5, <1>8 DEF Inv, WriterInv, Prints, TypeOK, LogTypeOK
  <1> QED BY <1>6, <1>7, <1>9, <1>10, <1>11, <1>12 DEF Inv

\* The writer of a sink makes its next step.
LEMMA WriterStepStep ==
  ASSUME Inv, Alive, NEW d \in Sinks, WriterStep(d), UNCHANGED processVars
  PROVE  Inv'
  <1>1. TypeOK
    BY DEF Inv
  <1>2. /\ UNCHANGED <<level, fileOpen, stop, calling, logged, accepted>>
        /\ UNCHANGED <<config, phase, port, server, stopAsked>>
    BY DEF WriterStep, LoadStop, TestEmpty, Take, PrintLine, WriterUnchanged, processVars
  <1>3. /\ writer[d] \notin {"none", "ended"}
        /\ writer' = [writer EXCEPT ![d] = writer'[d]]
        /\ writer'[d] \in {"loop", "empty?", "take", "print", "ended"}
    BY <1>1 DEF WriterStep, LoadStop, TestEmpty, Take, PrintLine, Goes, TypeOK, LogTypeOK
  <1>4. output[d] \in Seq(Lines) /\ held[d] \in Seq(Lines) /\ queue[d] \in Seq(Lines)
    BY <1>1, HeldType DEF TypeOK, LogTypeOK
  <1>5. PICK o \in Seq(Lines), h \in {<<>>} \cup {<<line>> : line \in Lines},
             q \in Seq(Lines) :
          /\ output' = [output EXCEPT ![d] = o] /\ held' = [held EXCEPT ![d] = h]
          /\ queue' = [queue EXCEPT ![d] = q]
          /\ output[d] \o held[d] \o queue[d] = o \o h \o q
          /\ writer'[d] # "print" => h = <<>>
          /\ writer'[d] = "empty?" => stop[d]
          /\ writer'[d] = "ended" => stop[d] /\ q = <<>>
    <2>1. CASE LoadStop(d) \/ TestEmpty(d)
      <3>1. /\ output' = [output EXCEPT ![d] = output[d]]
            /\ held' = [held EXCEPT ![d] = <<>>]
            /\ queue' = [queue EXCEPT ![d] = queue[d]]
            /\ held[d] = <<>> /\ writer'[d] # "print"
        BY <1>1, <2>1 DEF LoadStop, TestEmpty, Goes, Inv, WriterInv, TypeOK, LogTypeOK
      <3>2. /\ writer'[d] = "empty?" => stop[d]
            /\ writer'[d] = "ended" => stop[d] /\ queue[d] = <<>>
        BY <1>1, <2>1 DEF LoadStop, TestEmpty, Goes, Inv, WriterInv, TypeOK, LogTypeOK
      <3> QED BY <1>4, <3>1, <3>2
    <2>2. CASE Take(d)
      <3>1. held[d] = <<>> /\ writer[d] = "take"
        BY <2>2 DEF Take, Goes, Inv, WriterInv
      <3>2. CASE queue[d] = <<>>
        BY <1>1, <1>3, <1>4, <2>2, <3>1, <3>2 DEF Take, Goes, TypeOK, LogTypeOK
      <3>3. CASE queue[d] # <<>>
        <4>1. Head(queue[d]) \in Lines /\ Tail(queue[d]) \in Seq(Lines)
          BY <1>4, <3>3, HeadTailProperties
        <4>2. output[d] \o <<>> \o queue[d]
                = output[d] \o <<Head(queue[d])>> \o Tail(queue[d])
          BY <1>4, <3>3, PopKeepsOrder
        <4>3. /\ output' = [output EXCEPT ![d] = output[d]]
              /\ held' = [held EXCEPT ![d] = <<Head(queue[d])>>]
              /\ queue' = [queue EXCEPT ![d] = Tail(queue[d])]
              /\ writer'[d] = "print"
          BY <1>1, <2>2, <3>3 DEF Take, Goes, TypeOK, LogTypeOK
        <4> QED BY <1>4, <3>1, <4>1, <4>2, <4>3
      <3> QED BY <3>2, <3>3
    <2>3. CASE PrintLine(d)
      <3>1. output[d] \o held[d] \in Seq(Lines)
        BY <1>4, ConcatProperties
      <3>2. output[d] \o held[d] \o queue[d] = (output[d] \o held[d]) \o <<>> \o queue[d]
        BY <1>4, PrintKeepsOrder
      <3>3. /\ output' = [output EXCEPT ![d] = output[d] \o held[d]]
            /\ held' = [held EXCEPT ![d] = <<>>]
            /\ queue' = [queue EXCEPT ![d] = queue[d]]
            /\ writer'[d] = "loop"
        BY <1>1, <2>3 DEF PrintLine, Goes, WriterUnchanged, TypeOK, LogTypeOK
      <3> QED BY <1>4, <3>1, <3>2, <3>3
    <2> QED BY <2>1, <2>2, <2>3 DEF WriterStep
  <1>6. TypeOK'
    <2>1. LogTypeOK'
      BY <1>1, <1>2, <1>3, <1>5 DEF TypeOK, LogTypeOK
    <2> QED BY <1>1, <1>2, <2>1 DEF TypeOK
  <1>7. LinesInOrder'
    BY <1>1, <1>2, <1>5 DEF Inv, LinesInOrder, TypeOK, LogTypeOK
  <1>8. WriterInv'
    BY <1>1, <1>2, <1>3, <1>5 DEF Inv, WriterInv, Prints, TypeOK, LogTypeOK
  <1>9. InstanceInv' /\ CallerInv' /\ CallInv' /\ InForceInv' /\ ConfiguredPortServed'
    BY <1>2, <1>3 DEF Inv, InstanceInv, CallerInv, CallInv, InForceInv,
         ConfigurationInForce, ConfiguredLevel, ConfiguredPortServed, ConfiguredPort,
                      Given
  <1>10. PhaseInv'
    BY <1>1, <1>2, <1>3 DEF Inv, PhaseInv, Alive, Sinks, TypeOK, LogTypeOK
  <1> QED BY <1>6, <1>7, <1>8, <1>9, <1>10 DEF Inv

-----------------------------------------------------------------------------
(* The steps of main, of the server and of Server::Stop *)

\* The instance is created with the configured level.
LEMMA InitLogManagerStep ==
  ASSUME Inv, InitLogManager
  PROVE  Inv'
  <1>1. TypeOK /\ level = NoInstance /\ phase = "starting" /\ phase' = "loading"
    BY DEF Inv, InForceInv, InitLogManager
  <1>2. /\ level' = ConfigToLevel(ConfiguredLevel) /\ fileOpen' \in BOOLEAN
        /\ writer' = [shell |-> "loop", file |-> IF fileOpen' THEN "loop" ELSE "ended"]
        /\ UNCHANGED <<queue, stop, held, output, calling, logged, accepted>>
        /\ UNCHANGED <<config, port, server, stopAsked>>
    BY <1>1 DEF InitLogManager, CreateInstance
  <1>3. level' \in 0..4 /\ level' # NoInstance
    BY <1>2, LevelNumber DEF NoInstance
  <1>4. /\ writer' \in [Sinks -> {"loop", "ended"}] /\ writer'["shell"] = "loop"
        /\ writer'["file"] = "ended" => ~fileOpen'
    BY <1>2, OfSinks
  <1>5. TypeOK'
    <2>1. LogTypeOK'
      BY <1>1, <1>2, <1>3, <1>4 DEF TypeOK, LogTypeOK, NoInstance
    <2> QED BY <1>1, <1>2, <2>1 DEF TypeOK, Phases
  <1>6. LinesInOrder'
    BY <1>2 DEF Inv, LinesInOrder
  <1>7. WriterInv'
    <2>1. \A d \in Sinks : held[d] = <<>>
      BY <1>1 DEF Inv, InstanceInv, WriterInv
    <2>2. \A d \in Sinks : writer'[d] = "ended" => ~Prints(d)'
      BY <1>4 DEF Prints, Sinks
    <2>3. \A d \in Sinks : writer'[d] \in {"loop", "ended"}
      BY <1>4
    <2> QED BY <1>2, <2>1, <2>2, <2>3 DEF WriterInv
  <1>8. InstanceInv' /\ CallerInv' /\ CallInv' /\ PhaseInv'
    BY <1>1, <1>2, <1>3 DEF Inv, InstanceInv, CallerInv, CallInv, PhaseInv
  <1>9. InForceInv'
    BY <1>1, <1>2, <1>3 DEF InForceInv, ConfigurationInForce, ConfiguredLevel, Given
  <1>10. ConfiguredPortServed'
    BY <1>2 DEF Inv, ConfiguredPortServed, ConfiguredPort, Given
  <1> QED BY <1>5, <1>6, <1>7, <1>8, <1>9, <1>10 DEF Inv

\* The acceptor is bound to the configured port, to one that the system chooses if
\* that is 0, or cannot be.
LEMMA StartServerStep ==
  ASSUME Inv, StartServer
  PROVE  Inv'
  <1>1. /\ TypeOK /\ phase = "loading" /\ calling["main"] = <<>>
        /\ UNCHANGED <<level, fileOpen, queue, stop, writer, held, output, calling,
                       logged, accepted, config, stopAsked>>
    BY DEF Inv, StartServer, logVars, writerVars
  <1>2. ConfiguredPort \in Int
    BY <1>1, ProcessAssumption DEF TypeOK, ConfiguredPort, Given
  <1>3. \/ /\ port' \in BoundTo(UnsignedShort(Short(ConfiguredPort)))
           /\ phase' = "serving" /\ server' = "running"
        \/ phase' = "aborted" /\ port' = port /\ server' = server
    BY DEF StartServer
  <1>4. /\ port' \in Ports \cup {NotGiven} /\ ConfiguredPort' = ConfiguredPort
        /\ ConfiguredPortServed'
    BY <1>1, <1>2, <1>3, PortServed
       DEF Inv, TypeOK, ConfiguredPortServed, ConfiguredPort, Given
  <1>5. TypeOK'
    <2>1. LogTypeOK'
      BY <1>1 DEF TypeOK, LogTypeOK
    <2> QED BY <1>1, <1>3, <1>4, <2>1 DEF TypeOK, Phases
  <1>6. LinesInOrder' /\ InstanceInv' /\ CallerInv' /\ WriterInv'
    BY <1>1 DEF Inv, LinesInOrder, InstanceInv, CallerInv, WriterInv, Prints
  <1>7. CallInv' /\ PhaseInv'
    BY <1>1, <1>3 DEF Inv, CallInv, PhaseInv
  <1>8. InForceInv'
    BY <1>1, <1>3 DEF Inv, InForceInv, ConfigurationInForce, ConfiguredLevel, Given
  <1> QED BY <1>4, <1>5, <1>6, <1>7, <1>8 DEF Inv

\* The other steps of main change its phase, and tell a sink to stop.
LEMMA MainStep ==
  ASSUME Inv, ReadConfig \/ JoinServer \/ Leave \/ JoinShell \/ JoinFile
  PROVE  Inv'
  <1>1. /\ TypeOK
        /\ UNCHANGED <<level, fileOpen, queue, writer, held, output, calling, logged,
                       accepted, config, port, server, stopAsked>>
    BY DEF Inv, ReadConfig, JoinServer, Leave, JoinShell, JoinFile, logVars, writerVars
  <1>2. /\ phase' \in {"starting", "leaving", "joining shell", "joining file", "ended"}
        /\ stop' \in [Sinks -> BOOLEAN] /\ \A d \in Sinks : stop[d] => stop'[d]
    BY <1>1 DEF ReadConfig, JoinServer, Leave, JoinShell, JoinFile, Stopping,
                logVars, writerVars, TypeOK, LogTypeOK
  <1>3. TypeOK'
    <2>1. LogTypeOK'
      BY <1>1, <1>2 DEF TypeOK, LogTypeOK
    <2> QED BY <1>1, <1>2, <2>1 DEF TypeOK, Phases
  <1>4. LinesInOrder' /\ InstanceInv' /\ CallerInv'
    BY <1>1 DEF Inv, LinesInOrder, InstanceInv, CallerInv
  <1>5. WriterInv'
    BY <1>1, <1>2 DEF Inv, WriterInv, Prints
  <1>6. CallInv'
    BY <1>1 DEF Inv, CallInv, ReadConfig, JoinServer, Leave, JoinShell, JoinFile
  <1>7. PhaseInv'
    <2>1. CASE ReadConfig \/ JoinServer
      BY <1>1, <2>1 DEF Inv, PhaseInv, ReadConfig, JoinServer, logVars, writerVars
    <2>2. CASE Leave
      BY <1>1, <2>2 DEF Inv, PhaseInv, Leave
    <2>3. CASE JoinShell
      BY <1>1, <2>3 DEF Inv, PhaseInv, JoinShell, Joined
    <2>4. CASE JoinFile
      BY <1>1, <2>4 DEF Inv, PhaseInv, JoinFile, Joined, Sinks, logVars, writerVars
    <2> QED BY <2>1, <2>2, <2>3, <2>4
  <1>8. InForceInv'
    <2>1. phase' = "starting" => phase = "reading"
      BY DEF ReadConfig, JoinServer, Leave, JoinShell, JoinFile
    <2> QED BY <1>1, <1>2, <2>1 DEF Inv, InForceInv, ConfigurationInForce,
                                    ConfiguredLevel, Given
  <1>9. ConfiguredPortServed'
    BY <1>1 DEF Inv, ConfiguredPortServed, ConfiguredPort, Given
  <1> QED BY <1>3, <1>4, <1>5, <1>6, <1>7, <1>8, <1>9 DEF Inv

\* The server thread returns, is asked to, or is ended by an exception.
LEMMA ServerStep ==
  ASSUME Inv, Alive, ServerReturns \/ Stop \/ HandlerThrows
  PROVE  Inv'
  <1>1. /\ TypeOK /\ server = "running" /\ phase = "serving"
        /\ UNCHANGED <<level, fileOpen, queue, stop, writer, held, output, calling,
                       logged, accepted, config, port>>
    BY DEF Inv, CallInv, Alive, ServerReturns, Stop, HandlerThrows, logVars, writerVars
  <1>2. /\ phase' \in {"serving", "aborted"} /\ server' \in {"running", "returned"}
        /\ stopAsked' \in BOOLEAN
    BY <1>1 DEF ServerReturns, Stop, HandlerThrows, TypeOK
  <1>3. TypeOK'
    <2>1. LogTypeOK'
      BY <1>1 DEF TypeOK, LogTypeOK
    <2> QED BY <1>1, <1>2, <2>1 DEF TypeOK, Phases
  <1>4. LinesInOrder' /\ InstanceInv' /\ CallerInv' /\ WriterInv'
    BY <1>1 DEF Inv, LinesInOrder, InstanceInv, CallerInv, WriterInv, Prints
  <1>5. CallInv'
    BY <1>1, <1>2 DEF Inv, CallInv, ServerReturns, Stop, HandlerThrows
  <1>6. PhaseInv'
    BY <1>1, <1>2 DEF Inv, PhaseInv
  <1>7. InForceInv' /\ ConfiguredPortServed'
    <2>1. InForceInv'
      BY <1>1, <1>2 DEF Inv, InForceInv, ConfigurationInForce, ConfiguredLevel, Given
    <2>2. ConfiguredPortServed'
      BY <1>1 DEF Inv, ConfiguredPortServed, ConfiguredPort, Given
    <2> QED BY <2>1, <2>2
  <1> QED BY <1>3, <1>4, <1>5, <1>6, <1>7 DEF Inv

-----------------------------------------------------------------------------
(* The invariant and what follows from it *)

\* At the beginning nothing exists and nothing is logged.
LEMMA InitInv == Init => Inv
  <1> SUFFICES ASSUME Init PROVE Inv
    OBVIOUS
  <1>1. /\ level = NoInstance /\ fileOpen = FALSE /\ phase = "reading" /\ server = "none"
        /\ port = NotGiven /\ stopAsked = FALSE /\ config \in Configs
        /\ queue = [d \in Sinks |-> <<>>] /\ stop = [d \in Sinks |-> FALSE]
        /\ writer = [d \in Sinks |-> "none"] /\ held = [d \in Sinks |-> <<>>]
        /\ output = [d \in Sinks |-> <<>>] /\ accepted = [d \in Sinks |-> <<>>]
        /\ calling = [t \in Threads |-> <<>>] /\ logged = [t \in Threads |-> 0]
    BY DEF Init, LogInit
  <1>2. <<>> \in Seq(Lines) /\ <<>> \o <<>> \o <<>> = <<>>
    BY ConcatEmptySeq
  <1>3. LogTypeOK
    <2>1. \A t \in Threads : MaxLines[t] \in Nat
      BY LoggingAssumption
    <2>2. logged \in [Threads -> Nat] /\ \A t \in Threads : logged[t] <= MaxLines[t]
      BY <1>1, <2>1
    <2>3. /\ queue \in [Sinks -> Seq(Lines)] /\ output \in [Sinks -> Seq(Lines)]
          /\ accepted \in [Sinks -> Seq(Lines)]
      BY <1>1, <1>2
    <2>4. /\ held \in [Sinks -> {<<>>} \cup {<<line>> : line \in Lines}]
          /\ calling \in [Threads -> LogDirections \cup {<<>>}]
      BY <1>1
    <2>5. level \in 0..NoInstance
      BY <1>1 DEF NoInstance
    <2>6. fileOpen \in BOOLEAN /\ stop \in [Sinks -> BOOLEAN]
      BY <1>1
    <2>7. writer \in [Sinks -> {"none", "loop", "empty?", "take", "print", "ended"}]
      BY <1>1
    <2> QED BY <2>2, <2>3, <2>4, <2>5, <2>6, <2>7 DEF LogTypeOK
  <1>4. TypeOK
    BY <1>1, <1>3 DEF TypeOK, Phases
  <1>5. LinesInOrder
    BY <1>1, <1>2 DEF LinesInOrder
  <1>6. InstanceInv /\ CallerInv /\ WriterInv /\ CallInv /\ PhaseInv
    BY <1>1, ProcessAssumption
       DEF InstanceInv, CallerInv, WriterInv, CallInv, PhaseInv, NoInstance
  <1>7. InForceInv /\ ConfiguredPortServed
    BY <1>1 DEF InForceInv, ConfigurationInForce, ConfiguredPortServed
  <1> QED BY <1>4, <1>5, <1>6, <1>7 DEF Inv

\* Every step of the process keeps the invariant.
LEMMA StepInv == Inv /\ [Next]_vars => Inv'
  <1> SUFFICES ASSUME Inv, [Next]_vars PROVE Inv'
    OBVIOUS
  <1>1. CASE UNCHANGED vars
    <2>1. /\ UNCHANGED <<level, fileOpen, queue, stop, writer, held, output, calling,
                         logged, accepted>>
          /\ UNCHANGED <<config, phase, port, server, stopAsked>>
      BY <1>1 DEF vars, logVars, writerVars
    <2>2. TypeOK' /\ LinesInOrder'
      BY <2>1 DEF Inv, TypeOK, LogTypeOK, LinesInOrder
    <2>3. InstanceInv' /\ CallerInv' /\ WriterInv' /\ CallInv' /\ PhaseInv'
      BY <2>1 DEF Inv, InstanceInv, CallerInv, WriterInv, CallInv, PhaseInv, Prints
    <2>4. InForceInv'
      BY <2>1 DEF Inv, InForceInv, ConfigurationInForce, ConfiguredLevel, Given
    <2>5. ConfiguredPortServed'
      BY <2>1 DEF Inv, ConfiguredPortServed, ConfiguredPort, Given
    <2> QED BY <2>2, <2>3, <2>4, <2>5 DEF Inv
  <1>2. CASE Alive /\ Main
    BY <1>2, InitLogManagerStep, StartServerStep, MainStep DEF Main
  <1>3. CASE Alive /\ (MainLogs \/ ServerLogs \/ StopLogs)
    <2>1. UNCHANGED processVars
      BY <1>3 DEF MainLogs, ServerLogs, StopLogs
    <2>2. "main" \in Threads /\ "server" \in Threads /\ "stopper" \in Threads
      BY ProcessAssumption
    <2>3. CASE MainLogs
      BY <1>3, <2>1, <2>2, <2>3, LogStep DEF MainLogs
    <2>4. CASE ServerLogs
      BY <1>3, <2>1, <2>2, <2>4, LogStep DEF ServerLogs
    <2>5. CASE StopLogs
      <3>1. <<"shell", "file">> \in LogDirections /\ <<"file">> \in LogDirections
        BY DEF LogDirections
      <3> QED BY <1>3, <2>1, <2>2, <2>5, <3>1, LogStep DEF StopLogs
    <2> QED BY <1>3, <2>3, <2>4, <2>5
  <1>4. CASE Alive /\ (ServerReturns \/ Stop \/ HandlerThrows)
    BY <1>4, ServerStep
  <1>5. CASE \E t \in Threads : SetQueue(t) /\ UNCHANGED processVars
    BY <1>5, SetQueueStep
  <1>6. CASE Alive /\ \E d \in Sinks : WriterStep(d) /\ UNCHANGED processVars
    BY <1>6, WriterStepStep
  <1> QED BY <1>1, <1>2, <1>3, <1>4, <1>5, <1>6 DEF Next, Finished

LEMMA Invariance == Spec => []Inv
  BY InitInv, StepInv, PTL DEF Spec

\* The loggers and the process around them keep their types.
THEOREM TypeCorrect == Spec => []TypeOK
  <1>1. Inv => TypeOK
    BY DEF Inv
  <1> QED BY <1>1, Invariance, PTL

\* Nothing that was accepted is lost, doubled or overtaken on its way through a
\* sink, whatever the threads do between any two steps of its writer.
THEOREM LinesKeepOrder == Spec => []LinesInOrder
  <1>1. Inv => LinesInOrder
    BY DEF Inv
  <1> QED BY <1>1, Invariance, PTL

\* When main has returned, a sink that can print has printed all that was
\* accepted: its writer ended with an empty queue, and nobody pushed after that.
THEOREM SinksDrained == Spec => []DrainedAtExit
  <1>1. Inv => DrainedAtExit
    <2> SUFFICES ASSUME Inv, phase = "ended", NEW d \in Sinks, Prints(d)
                 PROVE  output[d] = accepted[d]
      BY DEF DrainedAtExit
    <2>1. held[d] = <<>> /\ queue[d] = <<>>
      BY DEF Inv, PhaseInv, InstanceInv, WriterInv
    <2>2. output[d] \in Seq(Lines)
      BY DEF Inv, TypeOK, LogTypeOK
    <2> QED BY <2>1, <2>2, ConcatEmptySeq DEF Inv, LinesInOrder
  <1> QED BY <1>1, Invariance, PTL

\* The level in force is the configured one: nothing is logged before main has
\* called LogManager::Init.
THEOREM ConfiguredLevelInForce == Spec => []ConfigurationInForce
  <1>1. Inv => ConfigurationInForce
    BY DEF Inv, InForceInv
  <1> QED BY <1>1, Invariance, PTL

\* The acceptor is bound to the configured port, for each of 1..65535, although it
\* passes through a signed short, and for 0 to a port of the system's choice.
THEOREM PortIsServed == Spec => []ConfiguredPortServed
  <1>1. Inv => ConfiguredPortServed
    BY DEF Inv
  <1> QED BY <1>1, Invariance, PTL
=============================================================================
