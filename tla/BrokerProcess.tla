---------------------------- MODULE BrokerProcess ----------------------------
(***************************************************************************)
(* The broker process around the broker: main (app/main.cpp), Configurator *)
(* (app/src/configurator/configurator.cpp), the start and stop of Server   *)
(* (app/src/server/server.cpp) and, with Logging, the life of the loggers. *)
(*                                                                         *)
(* Three threads log: main until it starts the server, the server thread,  *)
(* and the one that calls Server::Stop, which makes ioContext_.run()       *)
(* return.  Which lines are logged when is left open: any of a thread's    *)
(* lines may be logged at any time between its beginning and its end.      *)
(* When main returns, the static LogManager is destroyed: the members in   *)
(* reverse order, so the console first and then the file.                  *)
(***************************************************************************)
EXTENDS Logging, Integers

\* The configuration files that are considered: whether reading the file throws
\* (and what), the level and the port it gives, as far as it gives them.
CONSTANTS
  Configs, NotGiven,
  FreePorts     \* the ports the system may choose for an endpoint with port 0

VARIABLES
  config,      \* config.json
  phase,       \* what main does
  port,        \* the port the acceptor is bound to, NotGiven before
  server,      \* the server thread: "none", "running", "returned"
  stopAsked    \* ioContext_.stop() was called

vars == <<logVars, config, phase, port, server, stopAsked>>
processVars == <<config, phase, port, server, stopAsked>>

\* The ports an acceptor can be bound to.
Ports == 1..2^16 - 1

ASSUME ProcessAssumption ==
  /\ Threads = {"main", "server", "stopper"}
  /\ NotGiven \notin Int
  /\ \A c \in Configs : c.port \in Int \cup {NotGiven}
  /\ FreePorts \subseteq Ports

Phases == {"reading", "starting", "loading", "serving", "leaving",
           "joining shell", "joining file", "ended", "aborted"}

Init ==
  /\ LogInit
  /\ config \in Configs
  /\ phase = "reading"
  /\ port = NotGiven
  /\ server = "none"
  /\ stopAsked = FALSE

-----------------------------------------------------------------------------
(* Configurator *)

Given(value, default) == IF value = NotGiven THEN default ELSE value

ConfiguredLevel == Given(config.level, "info")
ConfiguredPort == Given(config.port, 2000)

\* Mutant: a port above the largest short becomes the largest short.
ShortSaturated(n) == IF n > 2^15 - 1 THEN 2^15 - 1 ELSE n

\* The conversion of an int to Configs::port, a short.
Short(n) == ((n + 2^15) % 2^16) - 2^15

\* Mutant: the short is used as it is, sign included.
UnsignedShortSigned(n) == n

\* The conversion of the short to the unsigned port number of an endpoint.
UnsignedShort(n) == n % 2^16

\* The ports that binding an acceptor to port n may give it.
BoundTo(n) == IF n = 0 THEN FreePorts ELSE {n}

-----------------------------------------------------------------------------
(* main *)

\* ReadConfig: what it catches ends main.
ReadConfig ==
  /\ phase = "reading"
  /\ phase' = IF config.file = "good" THEN "starting" ELSE "leaving"
  /\ UNCHANGED <<logVars, config, port, server, stopAsked>>

InitLogManager ==
  /\ phase = "starting"
  /\ CreateInstance(ConfiguredLevel)
  /\ phase' = "loading"
  /\ UNCHANGED <<queue, stop, held, output, calling, logged, accepted,
                 config, port, server, stopAsked>>

\* Mutant: a line of the start is logged before LogManager::Init.
MainLogsEarly ==
  /\ phase \in {"starting", "loading"}
  /\ \E l \in {1, 2, 3}, direction \in LogDirections : Log("main", l, direction)
  /\ UNCHANGED processVars

\* The lines of main and of the repositories it creates.
MainLogs ==
  /\ phase = "loading"
  /\ \E l \in {1, 2, 3}, direction \in LogDirections : Log("main", l, direction)
  /\ UNCHANGED processVars

\* The server is constructed, which throws when the port cannot be bound, and
\* its thread started.
StartServer ==
  /\ phase = "loading"
  /\ calling["main"] = <<>>
  /\ \/ /\ port' \in BoundTo(UnsignedShort(Short(ConfiguredPort)))
        /\ phase' = "serving"
        /\ server' = "running"
     \/ phase' = "aborted" /\ UNCHANGED <<port, server>>
  /\ UNCHANGED <<logVars, config, stopAsked>>

JoinServer ==
  /\ phase = "serving"
  /\ server = "returned"
  /\ phase' = "leaving"
  /\ UNCHANGED <<logVars, config, port, server, stopAsked>>

\* Mutant: ~ShellPrinter joins without having set stop_.
LeaveUnstopped ==
  /\ phase = "leaving"
  /\ phase' = IF level = NoInstance THEN "ended" ELSE "joining shell"
  /\ UNCHANGED <<logVars, config, port, server, stopAsked>>

\* main returns, and the instance is destroyed, if there is one.
Leave ==
  /\ phase = "leaving"
  /\ IF level = NoInstance THEN phase' = "ended" /\ UNCHANGED stop
     ELSE phase' = "joining shell" /\ Stopping("shell")
  /\ UNCHANGED <<level, fileOpen, queue, writer, held, output, calling, logged,
                 accepted, config, port, server, stopAsked>>

JoinShell ==
  /\ phase = "joining shell"
  /\ Joined("shell")
  /\ Stopping("file")
  /\ phase' = "joining file"
  /\ UNCHANGED <<level, fileOpen, queue, writer, held, output, calling, logged,
                 accepted, config, port, server, stopAsked>>

JoinFile ==
  /\ phase = "joining file"
  /\ Joined("file")
  /\ phase' = "ended"
  /\ UNCHANGED <<logVars, config, port, server, stopAsked>>

Main == ReadConfig \/ InitLogManager \/ StartServer \/ JoinServer \/ Leave \/ JoinShell \/ JoinFile

-----------------------------------------------------------------------------
(* The server thread, and the thread that stops it *)

ServerLogs ==
  /\ server = "running"
  /\ \E l \in {0, 1, 2, 3}, direction \in LogDirections : Log("server", l, direction)
  /\ UNCHANGED processVars

\* run() returns after the handler that is being run.
ServerReturns ==
  /\ server = "running"
  /\ stopAsked
  /\ calling["server"] = <<>>
  /\ server' = "returned"
  /\ UNCHANGED <<logVars, config, phase, port, stopAsked>>

\* Server::Stop: a line, perhaps another for an error of close(), then stop().
StopLogs ==
  /\ server = "running"
  /\ ~stopAsked
  /\ \/ logged["stopper"] = 0 /\ Log("stopper", LogLevels.info, <<"shell", "file">>)
     \/ logged["stopper"] = 1 /\ Log("stopper", LogLevels.error, <<"file">>)
  /\ UNCHANGED processVars

Stop ==
  /\ server = "running"
  /\ logged["stopper"] > 0
  /\ calling["stopper"] = <<>>
  /\ stopAsked' = TRUE
  /\ UNCHANGED <<logVars, config, phase, port, server>>

\* An exception leaves a handler of the server: std::terminate.
HandlerThrows ==
  /\ server = "running"
  /\ phase' = "aborted"
  /\ UNCHANGED <<logVars, config, port, server, stopAsked>>

-----------------------------------------------------------------------------
Alive == phase \notin {"ended", "aborted"}

Finished == ~Alive /\ UNCHANGED vars

Next ==
  \/ /\ Alive
     /\ \/ Main
        \/ MainLogs \/ ServerLogs \/ ServerReturns \/ StopLogs \/ Stop \/ HandlerThrows
        \/ \E t \in Threads : SetQueue(t) /\ UNCHANGED processVars
        \/ \E d \in Sinks : WriterStep(d) /\ UNCHANGED processVars
  \/ Finished

Spec == Init /\ [][Next]_vars

\* Every thread that can take a step is scheduled; what is logged, and whether
\* the server is ever stopped, is not up to the scheduler.
Fairness ==
  /\ WF_vars(Alive /\ Main)
  /\ WF_vars(Alive /\ ServerReturns)
  /\ \A t \in Threads : WF_vars(Alive /\ SetQueue(t) /\ UNCHANGED processVars)
  /\ \A d \in Sinks : WF_vars(Alive /\ WriterStep(d) /\ UNCHANGED processVars)

FairSpec == Spec /\ Fairness

-----------------------------------------------------------------------------
\* The types of the loggers and of the process around them.
TypeOK ==
  /\ LogTypeOK
  /\ config \in Configs
  /\ phase \in Phases
  /\ port \in Ports \cup {NotGiven}
  /\ server \in {"none", "running", "returned"}
  /\ stopAsked \in BOOLEAN

\* When main has returned, everything that was accepted is printed, by each
\* sink that can print: the writers end only after they saw stop_ and then an
\* empty queue, and nobody pushes after stop_ (docs/architecture.md section 15:
\* the work ends after the stop flag and the remaining messages).
DrainedAtExit ==
  phase = "ended" => \A d \in Sinks : Prints(d) => output[d] = accepted[d]

\* The level in force is the configured one.  It would not be if anything were
\* logged before main calls LogManager::Init, which then does nothing
\* (log_manager.cpp:76-93, main.cpp:22-29).
ConfigurationInForce == level # NoInstance => level = ConfigToLevel(ConfiguredLevel)

\* The broker listens on the port the configuration names, although the number
\* passes through a signed short on its way; 0 leaves the choice to the system
\* (configurator.h:19, server.cpp:15-17).
ConfiguredPortServed ==
  port # NotGiven =>
    /\ ConfiguredPort \in Ports => port = ConfiguredPort
    /\ ConfiguredPort = 0 => port \in FreePorts

\* An accepted line is printed in the end, by each sink that can print, unless
\* the process is cut off; also when nothing is logged after it.
LinesPrinted ==
  \A d \in Sinks, line \in Lines :
    (line \in ToSet(accepted[d]) /\ Prints(d))
      ~> (line \in ToSet(output[d]) \/ phase = "aborted")

\* A server that is asked to stop ends its process: no join waits for ever,
\* also for the thread of a log file that never opened, with its queue full.
StopEnds == stopAsked ~> ~Alive
=============================================================================
