------------------------------- MODULE Logging -------------------------------
(***************************************************************************)
(* LogManager with its two sinks, Logger (the file) and ShellPrinter (the  *)
(* console): app/src/logs/log_manager.cpp, logger.cpp, shell_printer.cpp.  *)
(*                                                                         *)
(* Each sink has a queue, a stop flag and a writer thread.  What the mutex *)
(* protects is one step; loading stop_ and, once it is set, testing        *)
(* queue_.empty() without the mutex are steps of their own.  Nobody pushes *)
(* after stop_ is set, so this test races with no push.                    *)
(*                                                                         *)
(* A line is <<thread, its number among the thread's lines>>; its text is  *)
(* left out, and writes to the two streams do not fail.  Ghost:            *)
(* accepted[d] is what the level let through to d, in the order of pushes. *)
(***************************************************************************)
EXTENDS Naturals, Sequences, SequencesExt

CONSTANTS
  Threads,     \* the threads that log
  MaxLines     \* bound: how many lines each thread logs

ASSUME LoggingAssumption == MaxLines \in [Threads -> Nat]

Sinks == {"shell", "file"}

VARIABLES
  level,       \* level_ of the instance, NoInstance while there is none
  fileOpen,    \* Logger's out_ is open
  queue, stop, \* of each sink: queue_, stop_
  writer,      \* of each sink: what its thread does next
  held,        \* of each sink: the line popped and not yet printed, if any
  output,      \* of each sink: what it has printed
  calling,     \* of each thread: the sinks that still get the line it logs
  logged,      \* of each thread: how many lines it has logged
  accepted     \* ghost

writerVars == <<stop, writer, held, output>>
logVars == <<level, fileOpen, queue, writerVars, calling, logged, accepted>>

\* LogLevels and LogDirection (log_configs.h): the sinks in the order they are
\* served in.
LogLevels == [debug |-> 0, info |-> 1, warning |-> 2, error |-> 3, fatal |-> 4]
LogDirections == {<<"shell">>, <<"file">>, <<"shell", "file">>}
NoInstance == 5

ConfigToLevel(name) ==
  IF name \in DOMAIN LogLevels THEN LogLevels[name] ELSE LogLevels.warning

Lines == UNION {{t} \X (1..MaxLines[t]) : t \in Threads}

LogTypeOK ==
  /\ level \in 0..NoInstance
  /\ fileOpen \in BOOLEAN
  /\ queue \in [Sinks -> Seq(Lines)]
  /\ stop \in [Sinks -> BOOLEAN]
  /\ writer \in [Sinks -> {"none", "loop", "empty?", "take", "print", "ended"}]
  /\ held \in [Sinks -> {<<>>} \cup {<<line>> : line \in Lines}]
  /\ output \in [Sinks -> Seq(Lines)]
  /\ calling \in [Threads -> LogDirections \cup {<<>>}]
  /\ logged \in [Threads -> Nat] /\ \A t \in Threads : logged[t] <= MaxLines[t]
  /\ accepted \in [Sinks -> Seq(Lines)]

LogInit ==
  /\ level = NoInstance
  /\ fileOpen = FALSE
  /\ queue = [d \in Sinks |-> <<>>]
  /\ stop = [d \in Sinks |-> FALSE]
  /\ writer = [d \in Sinks |-> "none"]
  /\ held = [d \in Sinks |-> <<>>]
  /\ output = [d \in Sinks |-> <<>>]
  /\ calling = [t \in Threads |-> <<>>]
  /\ logged = [t \in Threads |-> 0]
  /\ accepted = [d \in Sinks |-> <<>>]

-----------------------------------------------------------------------------
(* LogManager *)

\* Init: an instance that exists stays as it is.  The new one starts a thread
\* per sink; that of a Logger whose file does not open returns at once.
CreateInstance(name) ==
  IF level # NoInstance THEN UNCHANGED <<level, fileOpen, writer>>
  ELSE /\ level' = ConfigToLevel(name)
       /\ fileOpen' \in BOOLEAN
       /\ writer' = [shell |-> "loop", file |-> IF fileOpen' THEN "loop" ELSE "ended"]

\* One of the macros of log.h, in thread t: Instance(), then LogManager::Log,
\* which serves no sink, or begins with the first of the direction.
Log(t, lineLevel, direction) ==
  /\ calling[t] = <<>>
  /\ logged[t] < MaxLines[t]
  /\ CreateInstance("warning")
  /\ calling' = [calling EXCEPT ![t] = IF lineLevel >= level' THEN direction ELSE <<>>]
  /\ logged' = [logged EXCEPT ![t] = @ + 1]
  /\ UNCHANGED <<queue, stop, held, output, accepted>>

\* SetQueue of the next sink.
SetQueue(t) ==
  /\ calling[t] # <<>>
  /\ LET d == Head(calling[t])
         line == <<t, logged[t]>>
     IN  /\ queue' = [queue EXCEPT ![d] = Append(@, line)]
         /\ accepted' = [accepted EXCEPT ![d] = Append(@, line)]
  /\ calling' = [calling EXCEPT ![t] = Tail(@)]
  /\ UNCHANGED <<level, fileOpen, writerVars, logged>>

-----------------------------------------------------------------------------
(* The writer thread of sink d: Logger::Log, ShellPrinter::Log *)

Goes(d, from, to) == writer[d] = from /\ writer' = [writer EXCEPT ![d] = to]

WriterUnchanged == UNCHANGED <<level, fileOpen, stop, calling, logged, accepted>>

\* Mutant: the loop goes on only while both hold, && for ||.
LoadStopAnd(d) ==
  /\ Goes(d, "loop", IF stop[d] THEN "ended" ELSE "empty?")
  /\ WriterUnchanged /\ UNCHANGED <<queue, held, output>>

LoadStop(d) ==
  /\ Goes(d, "loop", IF stop[d] THEN "empty?" ELSE "take")
  /\ WriterUnchanged /\ UNCHANGED <<queue, held, output>>

\* Mutant: the loop ends with stop_, whatever is queued.
TestEmptyNot(d) ==
  /\ Goes(d, "empty?", "ended")
  /\ WriterUnchanged /\ UNCHANGED <<queue, held, output>>

TestEmpty(d) ==
  /\ Goes(d, "empty?", IF queue[d] = <<>> THEN "ended" ELSE "take")
  /\ WriterUnchanged /\ UNCHANGED <<queue, held, output>>

\* Mutant: the whole queue is taken, and its front printed.
TakeAll(d) ==
  /\ IF queue[d] = <<>>
     THEN Goes(d, "take", "loop") /\ UNCHANGED <<queue, held>>
     ELSE /\ Goes(d, "take", "print")
          /\ held' = [held EXCEPT ![d] = <<Head(queue[d])>>]
          /\ queue' = [queue EXCEPT ![d] = <<>>]
  /\ WriterUnchanged /\ UNCHANGED output

\* Under the mutex: the front is popped, if there is one; if not, the thread
\* sleeps for a while.
Take(d) ==
  /\ IF queue[d] = <<>>
     THEN Goes(d, "take", "loop") /\ UNCHANGED <<queue, held>>
     ELSE /\ Goes(d, "take", "print")
          /\ held' = [held EXCEPT ![d] = <<Head(queue[d])>>]
          /\ queue' = [queue EXCEPT ![d] = Tail(@)]
  /\ WriterUnchanged /\ UNCHANGED output

PrintLine(d) ==
  /\ Goes(d, "print", "loop")
  /\ output' = [output EXCEPT ![d] = @ \o held[d]]
  /\ held' = [held EXCEPT ![d] = <<>>]
  /\ WriterUnchanged /\ UNCHANGED queue

WriterStep(d) == LoadStop(d) \/ TestEmpty(d) \/ Take(d) \/ PrintLine(d)

\* The destructor of a sink sets stop_, and then joins the thread.
Stopping(d) == stop' = [stop EXCEPT ![d] = TRUE]
Joined(d) == writer[d] = "ended"

-----------------------------------------------------------------------------
\* Every sink has a thread that prints, except a file that did not open.
Prints(d) == d = "shell" \/ fileOpen

\* Nothing that was accepted is lost, doubled or overtaken on its way: the
\* printed lines, the one in the writer's hands and the queue are, in this
\* order, what was accepted - with pushes of any thread between any two steps of
\* the writer (logger.cpp:25-56, 87-88; shell_printer.cpp:20-49).
LinesInOrder ==
  \A d \in Sinks : accepted[d] = output[d] \o held[d] \o queue[d]
=============================================================================
