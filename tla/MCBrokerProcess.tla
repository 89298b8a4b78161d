--------------------------- MODULE MCBrokerProcess ---------------------------
(***************************************************************************)
(* A small instance of BrokerProcess for TLC.                              *)
(***************************************************************************)
EXTENDS BrokerProcess

MCThreads == {"main", "server", "stopper"}

\* Two lines let the server log before and while it is stopped, and the caller
\* of Stop log its second line.
MCMaxLines == [main |-> 1, server |-> 1, stopper |-> 2]

\* Two ports for the system to choose from.
MCFreePorts == {2^15, 2^16 - 1}

\* Files that cannot be read, and files that can: defaults, a level without
\* name, the port that leaves the choice to the system, and ports on both sides of
\* what a short holds.
MCConfigs ==
  {[file |-> f, level |-> NotGiven, port |-> NotGiven] :
     f \in {"absent", "parse_error", "out_of_range", "type_error", "good"}}
  \cup {[file |-> "good", level |-> "error", port |-> 2^15],
        [file |-> "good", level |-> "verbose", port |-> 2^16 - 1],
        [file |-> "good", level |-> "fatal", port |-> 0]}
=============================================================================
