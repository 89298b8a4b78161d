-------------------------------- MODULE PubSub --------------------------------
(***************************************************************************)
(* What the broker promises of topics and messages, with nothing of how:   *)
(* no sessions, logins, queues, buffers or files                           *)
(* (docs/functional_requirements.md sections 7-11).                        *)
(*                                                                         *)
(* Every message is published to a topic, from then on waits for each of   *)
(* the topic's members of that moment, and is delivered at most once to    *)
(* each.  What waits for a client has no order here: two sessions may      *)
(* serve the same client one after the other.  The broker may crash: its   *)
(* messages are lost, its members are not.                                 *)
(***************************************************************************)
EXTENDS Naturals

CONSTANTS Clients, Topics, NoTopic

VARIABLES
  members,     \* topic -> its members, or NoTopic
  published,   \* messages published since the last crash: their numbers
  waiting,     \* client -> the messages on their way to it
  delivered    \* the pairs of a client and a message it has got

vars == <<members, published, waiting, delivered>>

Init ==
  /\ members \in [Topics -> (SUBSET Clients) \cup {NoTopic}]
  /\ published = 0
  /\ waiting = [c \in Clients |-> {}]
  /\ delivered = {}

Create(c, t) ==
  /\ members[t] = NoTopic
  /\ members' = [members EXCEPT ![t] = {c}]
  /\ UNCHANGED <<published, waiting, delivered>>

Join(c, t) ==
  /\ members[t] # NoTopic
  /\ members' = [members EXCEPT ![t] = @ \cup {c}]
  /\ UNCHANGED <<published, waiting, delivered>>

\* The topic stays, also when its last member leaves.
Leave(c, t) ==
  /\ members[t] # NoTopic
  /\ members' = [members EXCEPT ![t] = @ \ {c}]
  /\ UNCHANGED <<published, waiting, delivered>>

Publish(t) ==
  /\ members[t] # NoTopic
  /\ published' = published + 1
  /\ waiting' = [c \in Clients |->
                   waiting[c] \cup IF c \in members[t] THEN {published + 1} ELSE {}]
  /\ UNCHANGED <<members, delivered>>

Deliver(c, n) ==
  /\ n \in waiting[c]
  /\ waiting' = [waiting EXCEPT ![c] = @ \ {n}]
  /\ delivered' = delivered \cup {<<c, n>>}
  /\ UNCHANGED <<members, published>>

Crash ==
  /\ published' = 0
  /\ waiting' = [c \in Clients |-> {}]
  /\ delivered' = {}
  /\ UNCHANGED members

Next ==
  \/ \E c \in Clients, t \in Topics : Create(c, t) \/ Join(c, t) \/ Leave(c, t)
  \/ \E t \in Topics : Publish(t)
  \/ \E c \in Clients : \E n \in waiting[c] : Deliver(c, n)
  \/ Crash

Spec == Init /\ [][Next]_vars
=============================================================================
