--------------------------- MODULE BrokerRefinement ---------------------------
(***************************************************************************)
(* The running broker implements PubSub: its members are the subscribers   *)
(* in the memory of TopicManager, and a message waits for a client while a *)
(* copy for that client is in an outgoing queue or in its buffer.  Logins, *)
(* logouts, disconnections and flushed buffers are stutters.               *)
(***************************************************************************)
EXTENDS MessageBroker

\* The entries of all outgoing queues.
Queued == UNION {ToSet(outgoing[s]) : s \in SessionIds}

WaitingMessages ==
  LET queued == Queued
  IN  [c \in ClientIds |-> {e[2] : e \in {x \in queued : x[1] = c}} \cup ToSet(buffer[c])]

Abstract == INSTANCE PubSub WITH
  Clients <- ClientIds, members <- topics, waiting <- WaitingMessages

\* The broker delivers what PubSub allows, and to those: each message goes to
\* the subscribers of the moment it is published in, whatever sessions they
\* have, waits for them across every change of session, and is written once; a
\* crash loses messages, never a subscription (functional_requirements.md
\* sections 7-11, 14).  It does so in the absence of I/O faults.
ImplementsPubSub == Abstract!Spec
=============================================================================
