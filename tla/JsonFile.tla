------------------------------ MODULE JsonFile ------------------------------
(***************************************************************************)
(* A JSON database file as the two repositories use it                     *)
(* (app/src/db/json_client_repository.cpp, json_topic_repository.cpp): the *)
(* whole file is read and parsed, changed in memory, and written back      *)
(* through an ofstream, which truncates it when it opens.                  *)
(*                                                                         *)
(* The content of a file is the table it holds, or Absent (no such file),  *)
(* or Torn (truncated and not, or not entirely, rewritten: it no longer    *)
(* parses).  "io" is the set of faults that one repository call meets:     *)
(*   "read"  - the ifstream does not open,                                 *)
(*   "write" - the ofstream does not open (nothing is truncated),          *)
(*   "tear"  - it opens, but the dump does not reach the disk whole; no    *)
(*             repository looks at the stream state, so the call succeeds. *)
(***************************************************************************)
CONSTANTS
  ClientIds,    \* the ids that key the clients file and fill the topics file
  Absent, Torn, \* markers: the content of a file that is missing, or cut short
  IoFaults      \* bound: the faults a call of a repository may meet

Faults == {"read", "write", "tear"}

ASSUME FileAssumption == Absent # Torn /\ IoFaults \subseteq Faults

\* file.is_open() of the ifstream every repository call starts with.
Opens(file, io) == file # Absent /\ "read" \notin io

\* The ifstream opens and "file >> json" does not throw.
Parses(file, io) == Opens(file, io) /\ file # Torn

\* The call returns false (or an empty result) and leaves the file alone.
Failed(file) == [ok |-> FALSE, file |-> file]

\* ofstream wFile(dbFile_); if not open return false; wFile << dump; return true.
Stored(file, new, io) ==
  [ok   |-> "write" \notin io,
   file |-> IF "write" \in io THEN file
            ELSE IF "tear" \in io THEN Torn ELSE new]

\* Mutant: no catch, what does not parse is handed out.
LoadedUnparsed(file, empty, io) ==
  [table |-> IF Opens(file, io) THEN file ELSE empty,
   file  |-> IF Opens(file, io) THEN file ELSE Stored(file, empty, io).file]

\* LoadTopics and LoadClients: a file that does not open is created empty,
\* one that does not parse is taken for empty and left as it is.
Loaded(file, empty, io) ==
  [table |-> IF Parses(file, io) THEN file ELSE empty,
   file  |-> IF Opens(file, io) THEN file ELSE Stored(file, empty, io).file]
=============================================================================
