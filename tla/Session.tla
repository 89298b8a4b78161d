------------------------------- MODULE Session -------------------------------
(***************************************************************************)
(* Server and Session (app/src/server/server.cpp, session.cpp): the        *)
(* connections, each with at most one read and one write in flight.        *)
(*                                                                         *)
(* One thread runs ioContext_.run(), so a completion handler is atomic and *)
(* handlers interleave.  An operation is "pending" while the system works  *)
(* on it, and "ready" / "done" (success) or "failed" (error) while its     *)
(* handler waits to be run; it is "idle" when there is none.  The handlers *)
(* that run a command are in MessageBroker.                                *)
(*                                                                         *)
(* Entries of an outgoing queue are opaque here.  sessions_ is only ever   *)
(* added to (nothing calls RemoveSession), so a session, once accepted, is *)
(* alive until the process ends and its weak_ptr never expires: identified *)
(* by its number, a weak_ptr to it is a number and a reset one is          *)
(* invalidSessionId.                                                       *)
(***************************************************************************)
EXTENDS Naturals, Sequences

CONSTANT MaxSession    \* bound: connections accepted in one run of the process

ASSUME SessionAssumption == MaxSession \in Nat \ {0}

VARIABLES
  nextSessionId,   \* the id that the armed async_accept will give
  socket,          \* "none" before the accept, "open", "closed"
  reading,         \* the operation of Session::Read
  writing,         \* the operation of Session::DoWrite
  outgoing         \* outgoing_; its head is being written

sessionVars == <<nextSessionId, socket, reading, writing, outgoing>>

invalidSessionId == 0
SessionIds == 1..MaxSession

\* Mutant: ids start at the one that stands for "no session".
SessionInitZero ==
  /\ nextSessionId = invalidSessionId
  /\ socket = [s \in SessionIds |-> "none"]
  /\ reading = [s \in SessionIds |-> "idle"]
  /\ writing = [s \in SessionIds |-> "idle"]
  /\ outgoing = [s \in SessionIds |-> <<>>]

SessionInit ==
  /\ nextSessionId = 1
  /\ socket = [s \in SessionIds |-> "none"]
  /\ reading = [s \in SessionIds |-> "idle"]
  /\ writing = [s \in SessionIds |-> "idle"]
  /\ outgoing = [s \in SessionIds |-> <<>>]

\* The process is started again: no session of the old one is left.
SessionRestart ==
  /\ nextSessionId' = 1
  /\ socket' = [s \in SessionIds |-> "none"]
  /\ reading' = [s \in SessionIds |-> "idle"]
  /\ writing' = [s \in SessionIds |-> "idle"]
  /\ outgoing' = [s \in SessionIds |-> <<>>]

-----------------------------------------------------------------------------
\* An operation started on a closed socket completes with an error at once.
Started(s) == IF socket[s] = "open" THEN "pending" ELSE "failed"

\* socket_.close() aborts what is pending; a completion that already waits
\* for its handler keeps its outcome.
Aborted(operation) == IF operation = "pending" THEN "failed" ELSE operation

\* Session::Send of all of added[s], in order, on each session s: the first
\* entry of an empty queue starts a write.
Send(added) ==
  /\ outgoing' = [s \in SessionIds |-> outgoing[s] \o added[s]]
  /\ writing' = [s \in SessionIds |->
                   IF outgoing[s] = <<>> /\ added[s] # <<>>
                   THEN Started(s) ELSE writing[s]]

\* Mutant: no Read() when the socket has been closed meanwhile.
RespondUnread(s, added, response) ==
  /\ Send([added EXCEPT ![s] = @ \o response])
  /\ reading' = [reading EXCEPT ![s] = IF socket[s] = "open" THEN "pending" ELSE "idle"]
  /\ UNCHANGED <<nextSessionId, socket>>

\* What is left of a read handler after HandleCommand, whose own sends are
\* "added": the response, then Read() again.
Respond(s, added, response) ==
  /\ Send([added EXCEPT ![s] = @ \o response])
  /\ reading' = [reading EXCEPT ![s] = Started(s)]
  /\ UNCHANGED <<nextSessionId, socket>>

Nothing == [s \in SessionIds |-> <<>>]

\* Session::Disconnect, but for its call of the broker.
CloseSocket(s) == socket' = [socket EXCEPT ![s] = "closed"]

-----------------------------------------------------------------------------
(* Server::DoAccept *)

\* A connection arrives: the session gets the id, sends welcome and reads.
Accept(welcome) ==
  /\ nextSessionId \in SessionIds
  /\ nextSessionId' = nextSessionId + 1
  /\ socket' = [socket EXCEPT ![nextSessionId] = "open"]
  /\ reading' = [reading EXCEPT ![nextSessionId] = "pending"]
  /\ writing' = [writing EXCEPT ![nextSessionId] = "pending"]
  /\ outgoing' = [outgoing EXCEPT ![nextSessionId] = welcome]

\* async_accept completes with an error: the id is spent all the same.
AcceptFails ==
  /\ nextSessionId \in SessionIds
  /\ nextSessionId' = nextSessionId + 1
  /\ UNCHANGED <<socket, reading, writing, outgoing>>

-----------------------------------------------------------------------------
(* The operating system and the peer *)

ReadEnds(s, outcome) ==
  /\ reading[s] = "pending"
  /\ reading' = [reading EXCEPT ![s] = outcome]
  /\ UNCHANGED <<nextSessionId, socket, writing, outgoing>>

WriteEnds(s, outcome) ==
  /\ writing[s] = "pending"
  /\ writing' = [writing EXCEPT ![s] = outcome]
  /\ UNCHANGED <<nextSessionId, socket, reading, outgoing>>

LineArrives(s)    == ReadEnds(s, "ready")
ReadFails(s)      == ReadEnds(s, "failed")
WriteCompletes(s) == WriteEnds(s, "done")
WriteFails(s)     == WriteEnds(s, "failed")

-----------------------------------------------------------------------------
(* Handlers *)

\* Mutant: the next entry is left for the next Send to write.
WriteDoneStops(s) ==
  /\ writing[s] = "done"
  /\ outgoing' = [outgoing EXCEPT ![s] = Tail(@)]
  /\ writing' = [writing EXCEPT ![s] = "idle"]
  /\ UNCHANGED <<nextSessionId, socket, reading>>

\* DoWrite's handler without an error.
WriteDone(s) ==
  /\ writing[s] = "done"
  /\ outgoing' = [outgoing EXCEPT ![s] = Tail(@)]
  /\ writing' = [writing EXCEPT ![s] =
                   IF Tail(outgoing[s]) = <<>> THEN "idle" ELSE Started(s)]
  /\ UNCHANGED <<nextSessionId, socket, reading>>

\* Mutant: the entry that could not be written is popped.
WriteErrorPops(s) ==
  /\ writing[s] = "failed"
  /\ CloseSocket(s)
  /\ writing' = [writing EXCEPT ![s] = "idle"]
  /\ reading' = [reading EXCEPT ![s] = Aborted(@)]
  /\ outgoing' = [outgoing EXCEPT ![s] = Tail(@)]
  /\ UNCHANGED nextSessionId

\* DoWrite's handler with an error: Disconnect, and the entry stays queued.
WriteError(s) ==
  /\ writing[s] = "failed"
  /\ CloseSocket(s)
  /\ writing' = [writing EXCEPT ![s] = "idle"]
  /\ reading' = [reading EXCEPT ![s] = Aborted(@)]
  /\ UNCHANGED <<nextSessionId, outgoing>>

\* Read's handler with an error: Disconnect, and no further Read.
ReadError(s) ==
  /\ reading[s] = "failed"
  /\ CloseSocket(s)
  /\ reading' = [reading EXCEPT ![s] = "idle"]
  /\ writing' = [writing EXCEPT ![s] = Aborted(@)]
  /\ UNCHANGED <<nextSessionId, outgoing>>
=============================================================================
