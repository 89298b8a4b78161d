---------------------------- MODULE RoutingProofs ----------------------------
(***************************************************************************)
(* Proofs of what MessageBroker promises of messages, for any number of    *)
(* clients, names, topics, sessions and messages: the order of the copies  *)
(* for a client, that a subscriber has exactly one copy of a message until *)
(* a restart, and that the broker implements PubSub.                       *)
(*                                                                         *)
(* To the messages a step is one of five things, whatever command or       *)
(* handler it is (StepKinds): Quiet, Flush, Fanned, Popped or Lost.  Each  *)
(* invariant is then proved of the five.                                   *)
(***************************************************************************)
EXTENDS SubscriberProofs, BrokerRefinement

-----------------------------------------------------------------------------
(* What a step does to the messages *)

\* Nothing was ever done on a session that is not accepted yet: the welcome that
\* Accept puts on its queue is the first entry there.
FreshInv ==
  \A s \in SessionIds : s >= nextSessionId =>
    /\ reading[s] = "idle" /\ outgoing[s] = <<>>
    /\ \A c \in ClientIds : session[c] # s

\* Entries are added at the ends of the queues of accepted sessions.
Adds(added) ==
  /\ added \in [SessionIds -> Seq(Entries)]
  /\ outgoing' = [x \in SessionIds |-> outgoing[x] \o added[x]]
  /\ \A x \in SessionIds : x >= nextSessionId' => added[x] = <<>>
  /\ nextSessionId' >= nextSessionId

\* Texts that are no messages are sent; clients may be released.
Quiet(added) ==
  /\ Adds(added)
  /\ \A x \in SessionIds : \A k \in 1..Len(added[x]) : added[x][k] = Text
  /\ UNCHANGED <<buffer, published, audience, delivered>>
  /\ \A c \in ClientIds : session'[c] \in {session[c], invalidSessionId}

\* Client c is bound to session s, and its buffer moves to the queue of s.
Flush(added, s, c) ==
  /\ Adds(added)
  /\ \A x \in SessionIds : \A k \in 1..Len(added[x]) :
       added[x][k] # Text =>
         /\ x = s /\ k - 1 \in 1..Len(buffer[c])
         /\ added[x][k] = <<c, buffer[c][k - 1]>>
  /\ \A k \in 1..Len(buffer[c]) :
       k + 1 \in 1..Len(added[s]) /\ added[s][k + 1] = <<c, buffer[c][k]>>
  /\ buffer' = [buffer EXCEPT ![c] = <<>>]
  /\ session' = [session EXCEPT ![c] = s]
  /\ s < nextSessionId'
  /\ UNCHANGED <<published, audience, delivered>>

\* The next message goes to the receivers: one copy to the session of each, or to
\* its buffer.
Fanned(added, receivers) ==
  /\ Adds(added)
  /\ \A x \in SessionIds : \A k \in 1..Len(added[x]) :
       added[x][k] # Text =>
         \E c \in receivers : session[c] = x /\ added[x][k] = <<c, published + 1>>
  /\ \A x \in SessionIds : \A k, l \in 1..Len(added[x]) :
       added[x][k] = added[x][l] /\ added[x][k] # Text => k = l
  /\ \A c \in receivers : session[c] # invalidSessionId =>
       \E k \in 1..Len(added[session[c]]) : added[session[c]][k] = <<c, published + 1>>
  /\ published + 1 <= MaxPublish /\ published' = published + 1
  /\ audience' = [audience EXCEPT ![published + 1] = receivers]
  /\ BufferTopicMessage(published + 1, receivers)
  /\ UNCHANGED <<session, delivered>>

\* The entry at the front of the queue of s has been written.
Popped(s) ==
  /\ outgoing[s] # <<>>
  /\ outgoing' = [outgoing EXCEPT ![s] = Tail(@)]
  /\ delivered' = delivered \cup ({Head(outgoing[s])} \ {Text})
  /\ UNCHANGED <<nextSessionId, session, buffer, published, audience>>

\* The process was restarted: no message is left.
Lost ==
  /\ outgoing' = [x \in SessionIds |-> <<>>]
  /\ buffer' = [c \in ClientIds |-> <<>>]
  /\ session' = [c \in ClientIds |-> invalidSessionId]
  /\ published' = 0 /\ audience' = NoAudience /\ delivered' = {}

-----------------------------------------------------------------------------
(* Every step is one of the five *)

\* A session that acts was accepted.
LEMMA Accepted ==
  ASSUME QueueInv, FreshInv, NEW s \in SessionIds, reading[s] # "idle"
  PROVE  s < nextSessionId
  BY DEF FreshInv, QueueInv, SessionTypeOK, SessionIds

\* A step that adds nothing.
LEMMA NothingAdded ==
  ASSUME QueueInv, UNCHANGED outgoing, nextSessionId' >= nextSessionId
  PROVE  /\ Adds(Nothing)
         /\ \A x \in SessionIds : \A k \in 1..Len(Nothing[x]) : Nothing[x][k] = Text
  <1>1. \A x \in SessionIds : Nothing[x] = <<>> /\ Len(Nothing[x]) = 0
    BY EmptySeq DEF Nothing
  <1>2. \A x \in SessionIds : outgoing[x] \in Seq(Entries)
    BY DEF QueueInv, SessionTypeOK
  <1>3. \A x \in SessionIds : outgoing[x] \o Nothing[x] = outgoing[x]
    BY <1>1, <1>2, ConcatEmptySeq
  <1>4. outgoing' = [x \in SessionIds |-> outgoing[x] \o Nothing[x]]
    BY <1>3 DEF QueueInv, SessionTypeOK
  <1> QED BY <1>1, <1>4, EntryTypes DEF Adds

\* What the end of a command handler adds: what the command sent, then a text.
LEMMA RespondAdds ==
  ASSUME QueueInv, FreshInv, NEW s \in SessionIds, reading[s] = "ready",
         NEW sends \in [SessionIds -> Seq(Entries)],
         \A x \in SessionIds : x >= nextSessionId => sends[x] = <<>>,
         Respond(s, sends, <<Text>>)
  PROVE  \E added :
           /\ Adds(added)
           /\ s < nextSessionId'
           /\ \A x \in SessionIds :
                /\ Len(added[x]) \in {Len(sends[x]), Len(sends[x]) + 1}
                /\ \A k \in 1..Len(sends[x]) : added[x][k] = sends[x][k]
                /\ \A k \in 1..Len(added[x]) : k > Len(sends[x]) => added[x][k] = Text
  <1> DEFINE added == [sends EXCEPT ![s] = @ \o <<Text>>]
  <1>1. s < nextSessionId /\ nextSessionId' = nextSessionId /\ nextSessionId \in Nat
    BY Accepted DEF Respond, QueueInv, SessionTypeOK
  <1>2. \A x \in SessionIds : Len(sends[x]) \in Nat
    BY LenProperties
  <1>3. /\ sends[s] \o <<Text>> \in Seq(Entries)
        /\ Len(sends[s] \o <<Text>>) = Len(sends[s]) + 1
        /\ \A k \in 1..Len(sends[s]) + 1 :
             (sends[s] \o <<Text>>)[k] = IF k <= Len(sends[s]) THEN sends[s][k]
                                         ELSE <<Text>>[k - Len(sends[s])]
    <2>1. <<Text>> \in Seq(Entries) /\ Len(<<Text>>) = 1
      BY EntryTypes
    <2> QED BY <2>1, ConcatProperties
  <1>4. added[s] = sends[s] \o <<Text>> /\ \A x \in SessionIds \ {s} : added[x] = sends[x]
    OBVIOUS
  <1>5. added \in [SessionIds -> Seq(Entries)]
    BY <1>3
  <1> HIDE DEF added
  <1>6. outgoing' = [x \in SessionIds |-> outgoing[x] \o added[x]]
    BY DEF Respond, Send, added
  <1>7. \A x \in SessionIds : x >= nextSessionId' => added[x] = <<>>
    <2>1. \A x \in SessionIds : x \in Nat
      BY DEF SessionIds
    <2> QED BY <1>1, <1>4, <2>1
  <1>8. ASSUME NEW x \in SessionIds
        PROVE  /\ Len(added[x]) \in {Len(sends[x]), Len(sends[x]) + 1}
               /\ \A k \in 1..Len(sends[x]) : added[x][k] = sends[x][k]
               /\ \A k \in 1..Len(added[x]) : k > Len(sends[x]) => added[x][k] = Text
    <2>1. CASE x = s
      <3>1. Len(added[s]) = Len(sends[s]) + 1
        BY <1>3, <1>4
      <3>2. \A k \in 1..Len(sends[s]) : added[s][k] = sends[s][k]
        BY <1>2, <1>3, <1>4
      <3>3. ASSUME NEW k \in 1..Len(added[s]), k > Len(sends[s])
            PROVE  added[s][k] = Text
        <4>1. k = Len(sends[s]) + 1 /\ k - Len(sends[s]) = 1
          BY <1>2, <3>1, <3>3
        <4>2. added[s][k] = <<Text>>[1]
          BY <1>2, <1>3, <1>4, <4>1
        <4> QED BY <4>2
      <3> QED BY <2>1, <3>1, <3>2, <3>3
    <2>2. CASE x # s
      BY <1>2, <1>4, <2>2
    <2> QED BY <2>1, <2>2
  <1>9. Adds(added)
    BY <1>1, <1>5, <1>6, <1>7 DEF Adds
  <1> QED BY <1>1, <1>8, <1>9

\* A command that sends no message, and binds no client.
LEMMA RespondQuiet ==
  ASSUME QueueInv, FreshInv, NEW s \in SessionIds, reading[s] = "ready",
         Respond(s, Nothing, <<Text>>),
         UNCHANGED <<buffer, published, audience, delivered>>,
         \A c \in ClientIds : session'[c] \in {session[c], invalidSessionId}
  PROVE  \E added : Quiet(added)
  <1>1. \A x \in SessionIds : Nothing[x] = <<>> /\ Len(Nothing[x]) = 0
    BY EmptySeq DEF Nothing
  <1>2. PICK added :
          /\ Adds(added)
          /\ \A x \in SessionIds : \A k \in 1..Len(added[x]) :
               k > Len(Nothing[x]) => added[x][k] = Text
    BY <1>1, EntryTypes, RespondAdds
  <1>3. \A x \in SessionIds : \A k \in 1..Len(added[x]) : added[x][k] = Text
    BY <1>1, <1>2
  <1> QED BY <1>2, <1>3 DEF Quiet

\* What SendBuffer sends: a header, then the buffer.
LEMMA FlushedEntries ==
  ASSUME QueueInv, NEW c \in ClientIds
  PROVE  /\ Len(buffer[c]) \in Nat
         /\ Flushed(c) \in Seq(Entries) /\ Len(Flushed(c)) = Len(buffer[c]) + 1
         /\ Flushed(c)[1] = Text
         /\ \A k \in 1..Len(buffer[c]) : Flushed(c)[k + 1] = <<c, buffer[c][k]>>
  <1> DEFINE kept == [i \in 1..Len(buffer[c]) |-> <<c, buffer[c][i]>>]
             n == Len(buffer[c])
  <1>1. buffer[c] \in Seq(Nat) /\ ClientPartOK
    BY DEF QueueInv, ClientPartOK
  <1>2. n \in Nat /\ \A i \in 1..n : buffer[c][i] \in Nat
    BY <1>1, LenProperties, ElementOfSeq
  <1>3. \A i \in 1..n : <<c, buffer[c][i]>> \in Entries
    BY <1>2 DEF Entries
  <1>4. kept \in Seq(Entries) /\ Len(kept) = n
    BY <1>2, <1>3
  <1>5. \A i \in 1..n : kept[i] = <<c, buffer[c][i]>>
    OBVIOUS
  <1> HIDE DEF kept, n
  <1>6. <<Text>> \in Seq(Entries) /\ Len(<<Text>>) = 1
    BY EntryTypes
  <1>7. /\ Len(<<Text>> \o kept) = 1 + n
        /\ \A i \in 1..1 + n :
             (<<Text>> \o kept)[i] = IF i <= 1 THEN <<Text>>[i] ELSE kept[i - 1]
    BY <1>4, <1>6, ConcatProperties
  <1>8. (<<Text>> \o kept)[1] = Text
    BY <1>2, <1>7
  <1>9. ASSUME NEW k \in 1..n PROVE (<<Text>> \o kept)[k + 1] = <<c, buffer[c][k]>>
    <2>1. k + 1 \in 1..1 + n /\ ~(k + 1 <= 1) /\ (k + 1) - 1 = k
      BY <1>2
    <2> QED BY <1>5, <1>7, <2>1
  <1>10. Len(<<Text>> \o kept) = n + 1
    BY <1>2, <1>7
  <1> QED BY <1>1, <1>2, <1>8, <1>9, <1>10, FlushedType DEF Flushed, kept, n

\* LOGIN is quiet, or flushes the buffer of the client that it binds.
LEMMA ConnectKinds ==
  ASSUME QueueInv, FreshInv, NEW n, NEW s \in SessionIds, NEW registry,
         reading[s] = "ready", ConnectClient(n, s, registry),
         UNCHANGED <<published, audience, delivered>>
  PROVE  \/ \E added : Quiet(added)
         \/ \E added : \E c \in ClientIds : Flush(added, s, c)
  <1>1. CASE Respond(s, Nothing, <<Text>>) /\ UNCHANGED <<session, buffer>>
    BY <1>1, RespondQuiet
  <1>2. ASSUME NEW c \in ClientIds,
               session' = [session EXCEPT ![c] = s],
               buffer' = [buffer EXCEPT ![c] = <<>>],
               Respond(s, [Nothing EXCEPT ![s] = Flushed(c)], <<Text>>)
        PROVE  \E added : Flush(added, s, c)
    <2> DEFINE sends == [Nothing EXCEPT ![s] = Flushed(c)]
               m == Len(buffer[c])
    <2>1. /\ m \in Nat /\ Flushed(c) \in Seq(Entries) /\ Len(Flushed(c)) = m + 1
          /\ Flushed(c)[1] = Text
          /\ \A k \in 1..m : Flushed(c)[k + 1] = <<c, buffer[c][k]>>
      BY FlushedEntries
    <2>2. /\ sends \in [SessionIds -> Seq(Entries)]
          /\ sends[s] = Flushed(c)
          /\ \A x \in SessionIds \ {s} : sends[x] = <<>> /\ Len(sends[x]) = 0
      BY <2>1, EntryTypes, EmptySeq DEF Nothing
    <2>3. \A x \in SessionIds : x >= nextSessionId => x # s
      BY Accepted DEF QueueInv, SessionTypeOK, SessionIds
    <2> HIDE DEF sends, m
    <2>4. PICK added :
            /\ Adds(added)
            /\ s < nextSessionId'
            /\ \A x \in SessionIds :
                 /\ Len(added[x]) \in {Len(sends[x]), Len(sends[x]) + 1}
                 /\ \A k \in 1..Len(sends[x]) : added[x][k] = sends[x][k]
                 /\ \A k \in 1..Len(added[x]) : k > Len(sends[x]) => added[x][k] = Text
      <3>1. Respond(s, sends, <<Text>>)
        BY <1>2 DEF sends
      <3>2. \A x \in SessionIds : x >= nextSessionId => sends[x] = <<>>
        BY <2>2, <2>3
      <3> QED BY <2>2, <3>1, <3>2, RespondAdds
    <2>5. \A x \in SessionIds \ {s} : \A k \in 1..Len(added[x]) : added[x][k] = Text
      BY <2>2, <2>4
    <2>6. Len(added[s]) \in {m + 1, m + 2} /\ \A k \in 1..m + 1 : added[s][k] = Flushed(c)[k]
      <3>1. Len(sends[s]) = m + 1
        BY <2>1, <2>2
      <3>2. Len(added[s]) \in {m + 1, m + 1 + 1}
        BY <2>4, <3>1
      <3>3. m + 1 + 1 = m + 2
        BY <2>1
      <3> QED BY <2>2, <2>4, <3>1, <3>2, <3>3
    <2>7. ASSUME NEW k \in 1..Len(added[s]), added[s][k] # Text
          PROVE  k - 1 \in 1..m /\ added[s][k] = <<c, buffer[c][k - 1]>>
      <3>1. k \in Nat /\ k <= m + 1 /\ k # 1 /\ k # 0
        BY <2>1, <2>2, <2>4, <2>6, <2>7
      <3>2. k - 1 \in 1..m /\ (k - 1) + 1 = k
        BY <2>1, <3>1
      <3>3. Flushed(c)[(k - 1) + 1] = <<c, buffer[c][k - 1]>>
        BY <2>1, <3>2
      <3> QED BY <2>1, <2>6, <3>1, <3>2, <3>3
    <2>8. ASSUME NEW k \in 1..m
          PROVE  k + 1 \in 1..Len(added[s]) /\ added[s][k + 1] = <<c, buffer[c][k]>>
      <3>1. k + 1 \in 1..m + 1 /\ k + 1 \in 1..Len(added[s])
        BY <2>1, <2>6
      <3> QED BY <2>1, <2>6, <3>1
    <2> QED BY <1>2, <2>4, <2>5, <2>7, <2>8 DEF Flush, m
  <1> QED BY <1>1, <1>2 DEF ConnectClient

\* An injective sequence of the elements of a finite set has each of them once.
LEMMA OrderOfSet ==
  ASSUME NEW S, IsFiniteSet(S), NEW f \in SetToSeqs(S)
  PROVE  /\ f \in Seq(S) /\ Len(f) = Cardinality(S)
         /\ \A i, j \in 1..Len(f) : f[i] = f[j] => i = j
         /\ \A e \in S : \E i \in 1..Len(f) : f[i] = e
  <1> DEFINE D == 1..Cardinality(S)
  <1>1. f \in [D -> S] /\ \A i, j \in D : i # j => f[i] # f[j]
    BY DEF SetToSeqs
  <1>2. Cardinality(S) \in Nat
    BY FS_CardinalityType
  <1>3. f \in Seq(S) /\ Len(f) = Cardinality(S)
    BY <1>1, <1>2
  <1>4. IsFiniteSet(D) /\ Cardinality(D) = Cardinality(S)
    <2>1. ASSUME NEW n \in Nat
          PROVE  IsFiniteSet(1..n) /\ Cardinality(1..n) = IF 1 > n THEN 0 ELSE n - 1 + 1
      BY FS_Interval
    <2>2. ASSUME NEW n \in Nat
          PROVE  (IF 1 > n THEN 0 ELSE n - 1 + 1) = n
      OBVIOUS
    <2> QED BY <1>2, <2>1, <2>2
  <1>5. f \in Injection(D, S)
    BY <1>1 DEF Injection, IsInjective
  <1>6. f \in Surjection(D, S)
    BY <1>4, <1>5, FS_Injection
  <1>7. \A e \in S : \E i \in D : f[i] = e
    BY <1>6 DEF Surjection
  <1> QED BY <1>1, <1>3, <1>7

\* PUBLISH fans the message out to the registered subscribers.
LEMMA PublishFanned ==
  ASSUME QueueInv, FreshInv, NEW s \in SessionIds, NEW t \in Topics, Publish(s, t)
  PROVE  \E added : Fanned(added, Subscribers(t) \cap Registered)
  <1> DEFINE n == published + 1
             receivers == Subscribers(t) \cap Registered
             Copies(x) == {c \in receivers : session[c] = x} \X {n}
  <1>1. /\ n \in Nat /\ receivers \in SUBSET ClientIds /\ reading[s] = "ready"
        /\ n <= MaxPublish
    BY DEF Publish, QueueInv, GhostTypeOK, Registered
  <1>2. PICK fan \in FanOuts(n, receivers) : Respond(s, fan, <<Text>>)
    BY DEF Publish
  <1>3. fan \in [SessionIds -> Seq(Entries)]
    BY <1>1, FanOutType
  <1>4. ASSUME NEW x \in SessionIds
        PROVE  IsFiniteSet(Copies(x)) /\ fan[x] \in SetToSeqs(Copies(x))
    <2>1. IsFiniteSet({c \in receivers : session[c] = x})
      BY <1>1, ClientAssumption, FS_Subset
    <2>2. IsFiniteSet({n})
      BY FS_Singleton
    <2>3. IsFiniteSet(Copies(x))
      BY <2>1, <2>2, FS_Product
    <2> QED BY <1>2, <2>3 DEF FanOuts
  <1>5. ASSUME NEW x \in SessionIds
        PROVE  /\ fan[x] \in Seq(Copies(x)) /\ Len(fan[x]) \in Nat
               /\ Len(fan[x]) = Cardinality(Copies(x))
               /\ \A i \in 1..Len(fan[x]) : fan[x][i] \in Copies(x)
               /\ \A i, j \in 1..Len(fan[x]) : fan[x][i] = fan[x][j] => i = j
               /\ \A e \in Copies(x) : \E i \in 1..Len(fan[x]) : fan[x][i] = e
    <2> HIDE DEF Copies
    <2>1. IsFiniteSet(Copies(x)) /\ fan[x] \in SetToSeqs(Copies(x))
      BY <1>4
    <2>2. /\ fan[x] \in Seq(Copies(x)) /\ Len(fan[x]) = Cardinality(Copies(x))
          /\ \A i, j \in 1..Len(fan[x]) : fan[x][i] = fan[x][j] => i = j
          /\ \A e \in Copies(x) : \E i \in 1..Len(fan[x]) : fan[x][i] = e
      BY <2>1, OrderOfSet
    <2> QED BY <2>2, LenProperties, ElementOfSeq
  <1>6. \A x \in SessionIds : x >= nextSessionId => fan[x] = <<>>
    <2>1. SUFFICES ASSUME NEW x \in SessionIds, x >= nextSessionId PROVE fan[x] = <<>>
      OBVIOUS
    <2>2. Copies(x) = {}
      BY <1>1, <2>1 DEF FreshInv
    <2>3. Len(fan[x]) = 0
      BY <1>5, <2>2, FS_EmptySet
    <2> QED BY <1>3, <2>3, EmptySeq
  <1>7. \A x \in SessionIds : \A e \in Copies(x) :
          e # Text /\ \E c \in receivers : session[c] = x /\ e = <<c, n>>
    BY <1>1, ClientAssumption DEF Text
  <1>8. \A c \in receivers : \A x \in SessionIds : session[c] = x => <<c, n>> \in Copies(x)
    OBVIOUS
  <1> HIDE DEF Copies, receivers, n
  <1>9. PICK added :
          /\ Adds(added)
          /\ s < nextSessionId'
          /\ \A x \in SessionIds :
               /\ Len(added[x]) \in {Len(fan[x]), Len(fan[x]) + 1}
               /\ \A k \in 1..Len(fan[x]) : added[x][k] = fan[x][k]
               /\ \A k \in 1..Len(added[x]) : k > Len(fan[x]) => added[x][k] = Text
    <2>1. Respond(s, fan, <<Text>>) /\ reading[s] = "ready"
      BY <1>1, <1>2
    <2> QED BY <1>3, <1>6, <2>1, RespondAdds
  <1>10. \A x \in SessionIds : \A k \in 1..Len(added[x]) :
           added[x][k] # Text => k \in 1..Len(fan[x]) /\ added[x][k] = fan[x][k]
    BY <1>5, <1>9
  <1>11. \A x \in SessionIds : \A k \in 1..Len(added[x]) :
           added[x][k] # Text =>
             \E c \in receivers : session[c] = x /\ added[x][k] = <<c, n>>
    <2>1. SUFFICES ASSUME NEW x \in SessionIds, NEW k \in 1..Len(added[x]), added[x][k] # Text
                   PROVE  \E c \in receivers : session[c] = x /\ added[x][k] = <<c, n>>
      OBVIOUS
    <2>2. k \in 1..Len(fan[x]) /\ added[x][k] = fan[x][k]
      BY <1>10, <2>1
    <2>3. fan[x][k] \in Copies(x)
      BY <1>5, <2>2
    <2> QED BY <1>7, <2>2, <2>3
  <1>12. \A x \in SessionIds : \A k, l \in 1..Len(added[x]) :
           added[x][k] = added[x][l] /\ added[x][k] # Text => k = l
    <2>1. SUFFICES ASSUME NEW x \in SessionIds, NEW k \in 1..Len(added[x]),
                          NEW l \in 1..Len(added[x]),
                          added[x][k] = added[x][l], added[x][k] # Text
                   PROVE  k = l
      OBVIOUS
    <2>2. k \in 1..Len(fan[x]) /\ added[x][k] = fan[x][k]
      BY <1>10, <2>1
    <2>3. l \in 1..Len(fan[x]) /\ added[x][l] = fan[x][l]
      BY <1>10, <2>1
    <2>4. \A i, j \in 1..Len(fan[x]) : fan[x][i] = fan[x][j] => i = j
      BY <1>5
    <2> QED BY <2>1, <2>2, <2>3, <2>4
  <1>13. \A c \in receivers : session[c] # invalidSessionId =>
           \E k \in 1..Len(added[session[c]]) : added[session[c]][k] = <<c, n>>
    <2>1. SUFFICES ASSUME NEW c \in receivers, session[c] # invalidSessionId
                   PROVE  \E k \in 1..Len(added[session[c]]) : added[session[c]][k] = <<c, n>>
      OBVIOUS
    <2>2. session[c] \in SessionIds
      BY <1>1, <2>1 DEF QueueInv, ClientPartOK
    <2>3. PICK k \in 1..Len(fan[session[c]]) : fan[session[c]][k] = <<c, n>>
      BY <1>5, <1>8, <2>2
    <2>4. /\ Len(fan[session[c]]) \in Nat
          /\ Len(added[session[c]]) \in {Len(fan[session[c]]), Len(fan[session[c]]) + 1}
          /\ added[session[c]][k] = fan[session[c]][k]
      BY <1>5, <1>9, <2>2
    <2>5. k \in 1..Len(added[session[c]])
      BY <2>4
    <2> QED BY <2>3, <2>4, <2>5
  <1>14. /\ published' = n /\ audience' = [audience EXCEPT ![n] = receivers]
         /\ BufferTopicMessage(n, receivers) /\ UNCHANGED <<session, delivered>>
    BY DEF Publish, n, receivers
  <1> QED BY <1>1, <1>9, <1>11, <1>12, <1>13, <1>14 DEF Fanned, n, receivers

\* What a step does to the messages.
MessageStep ==
  \/ \E added : Quiet(added)
  \/ \E added : \E s \in SessionIds, c \in ClientIds : Flush(added, s, c)
  \/ \E added : \E receivers \in SUBSET ClientIds : Fanned(added, receivers)
  \/ \E s \in SessionIds : Popped(s)
  \/ Lost

\* A command that is no PUBLISH.
LEMMA OtherCommandKinds ==
  ASSUME QueueInv, FreshInv, NEW s \in SessionIds,
         \/ Refused(s) /\ reading[s] = "ready"
         \/ \E n \in Names : Login(s, n)
         \/ \E n \in Names, c \in ClientIds, io \in SUBSET IoFaults : Register(s, n, c, io)
         \/ \E t \in Topics, io \in SUBSET IoFaults : TopicCommand(s, t, io)
         \/ Unlogin(s)
  PROVE  \/ \E added : Quiet(added)
         \/ \E added : \E c \in ClientIds : Flush(added, s, c)
  <1> USE DEF clientVars, ghostVars
  <1>1. CASE Refused(s) /\ reading[s] = "ready"
    BY <1>1, RespondQuiet DEF Refused
  <1>2. ASSUME NEW n \in Names, Login(s, n)
        PROVE  \/ \E added : Quiet(added)
               \/ \E added : \E c \in ClientIds : Flush(added, s, c)
    BY <1>2, ConnectKinds DEF Login
  <1>3. ASSUME NEW n \in Names, NEW c \in ClientIds, NEW io, Register(s, n, c, io)
        PROVE  \/ \E added : Quiet(added)
               \/ \E added : \E d \in ClientIds : Flush(added, s, d)
    <2>1. reading[s] = "ready" /\ UNCHANGED <<published, audience, delivered>>
      BY <1>3 DEF Register
    <2>2. CASE ConnectClient(n, s, [clients EXCEPT ![c] = n])
      BY <2>1, <2>2, ConnectKinds
    <2>3. CASE Respond(s, Nothing, <<Text>>) /\ UNCHANGED <<session, buffer>>
      BY <2>1, <2>3, RespondQuiet
    <2> QED BY <1>3, <2>2, <2>3 DEF Register
  <1>4. ASSUME NEW t \in Topics, NEW io, TopicCommand(s, t, io)
        PROVE  \E added : Quiet(added)
    BY <1>4, RespondQuiet DEF TopicCommand
  <1>5. CASE Unlogin(s)
    <2>1. \A c \in ClientIds : session'[c] \in {session[c], invalidSessionId}
      BY <1>5 DEF Unlogin, UnloginClient, QueueInv, ClientPartOK
    <2> QED BY <1>5, <2>1, RespondQuiet DEF Unlogin
  <1> QED BY <1>1, <1>2, <1>3, <1>4, <1>5

\* The sessions, the system and the peers, without a command, and a step that does
\* nothing: no message moves.
LEMMA QuietSteps ==
  ASSUME QueueInv, FreshInv,
         \/ Connection
         \/ \E s \in SessionIds : Disconnect(s) \/ Environment(s)
         \/ UNCHANGED vars
  PROVE  \E added : Quiet(added)
  <1> USE DEF clientVars, ghostVars
  <1>1. ASSUME UNCHANGED <<outgoing, buffer, published, audience, delivered>>,
               nextSessionId' >= nextSessionId,
               \A c \in ClientIds : session'[c] \in {session[c], invalidSessionId}
        PROVE  \E added : Quiet(added)
    BY <1>1, NothingAdded DEF Quiet
  <1>2. nextSessionId \in Nat
    BY SessionAssumption DEF QueueInv, SessionTypeOK
  <1>3. CASE Connection
    <2>1. CASE AcceptFails
      BY <1>1, <1>2, <1>3, <2>1 DEF Connection, AcceptFails
    <2>2. CASE Accept(<<Text>>)
      <3> DEFINE s == nextSessionId
                 added == [Nothing EXCEPT ![s] = <<Text>>]
      <3>1. /\ s \in SessionIds /\ nextSessionId' = s + 1
            /\ outgoing' = [outgoing EXCEPT ![s] = <<Text>>]
        BY <2>2 DEF Accept
      <3>2. outgoing[s] = <<>>
        BY <1>2, <3>1 DEF FreshInv
      <3>3. /\ added \in [SessionIds -> Seq(Entries)]
            /\ added[s] = <<Text>>
            /\ \A x \in SessionIds \ {s} : added[x] = <<>>
        BY <3>1, EntryTypes DEF Nothing
      <3> HIDE DEF added
      <3>4. ASSUME NEW x \in SessionIds
            PROVE  outgoing'[x] = outgoing[x] \o added[x]
        <4>1. outgoing[x] \in Seq(Entries) /\ outgoing \in [SessionIds -> Seq(Entries)]
          BY DEF QueueInv, SessionTypeOK
        <4>2. CASE x = s
          BY <3>1, <3>2, <3>3, <4>1, <4>2, EntryTypes, ConcatEmptySeq
        <4>3. CASE x # s
          BY <3>1, <3>3, <4>1, <4>3, ConcatEmptySeq
        <4> QED BY <4>2, <4>3
      <3>5. outgoing' = [x \in SessionIds |-> outgoing[x] \o added[x]]
        BY <3>1, <3>4 DEF QueueInv, SessionTypeOK
      <3>6. \A x \in SessionIds : x >= nextSessionId' => added[x] = <<>>
        BY <1>2, <3>1, <3>3 DEF SessionIds
      <3>7. nextSessionId' >= nextSessionId
        BY <1>2, <3>1
      <3>8. Adds(added)
        BY <3>3, <3>5, <3>6, <3>7 DEF Adds
      <3>9. ASSUME NEW x \in SessionIds, NEW k \in 1..Len(added[x])
            PROVE  added[x][k] = Text
        BY <3>3
      <3> QED BY <1>3, <3>8, <3>9 DEF Quiet, Connection
    <2> QED BY <1>3, <2>1, <2>2 DEF Connection
  <1>4. ASSUME NEW s \in SessionIds, Disconnect(s)
        PROVE  \E added : Quiet(added)
    <2>1. \A c \in ClientIds : session'[c] \in {session[c], invalidSessionId}
      BY <1>4 DEF Disconnect, DisconnectClient, QueueInv, ClientPartOK
    <2> QED BY <1>1, <1>2, <1>4, <2>1 DEF Disconnect, ReadError, WriteError
  <1>5. ASSUME NEW s \in SessionIds, Environment(s)
        PROVE  \E added : Quiet(added)
    BY <1>1, <1>2, <1>5
    DEF Environment, LineArrives, ReadFails, WriteCompletes, WriteFails, ReadEnds, WriteEnds
  <1>6. CASE UNCHANGED vars
    BY <1>1, <1>2, <1>6 DEF vars, sessionVars
  <1> QED BY <1>3, <1>4, <1>5, <1>6

\* A write handler pops the front of a queue.
LEMMA WrittenPops ==
  ASSUME QueueInv, NEW s \in SessionIds, Written(s)
  PROVE  Popped(s)
  BY DEF Written, WriteDone, Popped, QueueInv, WriteInFlight, clientVars

\* A restart loses the messages.
LEMMA RestartLoses ==
  ASSUME NEW clientIo, NEW topicIo, Restart(clientIo, topicIo)
  PROVE  Lost
  BY DEF Restart, SessionRestart, ClientLoad, Lost

\* Every step is one of the five.
LEMMA StepKinds ==
  ASSUME QueueInv, FreshInv, [Next]_vars
  PROVE  MessageStep
  <1>1. ASSUME NEW s \in SessionIds, Command(s) PROVE MessageStep
    <2>1. CASE \E t \in Topics : Publish(s, t)
      <3>1. PICK t \in Topics : Publish(s, t)
        BY <2>1
      <3>2. \E added : Fanned(added, Subscribers(t) \cap Registered)
        BY <3>1, PublishFanned
      <3>3. Subscribers(t) \cap Registered \in SUBSET ClientIds
        BY DEF Registered
      <3> QED BY <3>2, <3>3 DEF MessageStep
    <2>2. CASE ~\E t \in Topics : Publish(s, t)
      <3>1. \/ Refused(s) /\ reading[s] = "ready"
            \/ \E n \in Names : Login(s, n)
            \/ \E n \in Names, c \in ClientIds, io \in SUBSET IoFaults : Register(s, n, c, io)
            \/ \E t \in Topics, io \in SUBSET IoFaults : TopicCommand(s, t, io)
            \/ Unlogin(s)
        BY <1>1, <2>2 DEF Command, InvalidLine, Unauthorized, PublishNowhere
      <3> QED BY <3>1, OtherCommandKinds DEF MessageStep
    <2> QED BY <2>1, <2>2
  <1>2. CASE \/ Connection
             \/ \E s \in SessionIds : Disconnect(s) \/ Environment(s)
             \/ UNCHANGED vars
    BY <1>2, QuietSteps DEF MessageStep
  <1>3. ASSUME NEW s \in SessionIds, Written(s) PROVE MessageStep
    BY <1>3, WrittenPops DEF MessageStep
  <1>4. ASSUME NEW clientIo, NEW topicIo, Restart(clientIo, topicIo) PROVE MessageStep
    BY <1>4, RestartLoses DEF MessageStep
  <1> QED BY <1>1, <1>2, <1>3, <1>4 DEF Next, Handler

-----------------------------------------------------------------------------
(* Sessions that are not accepted yet *)

\* A command reads again on its session, which was accepted.
LEMMA CommandReads ==
  ASSUME NEW s \in SessionIds, Command(s)
  PROVE  /\ reading[s] = "ready" /\ UNCHANGED nextSessionId
         /\ reading' = [reading EXCEPT ![s] = Started(s)]
  BY DEF Command, InvalidLine, Unauthorized, PublishNowhere, Refused, Login, Register,
         TopicCommand, Unlogin, Publish, ConnectClient, Respond

\* No step reads on a session that is not accepted.
LEMMA ReadingFresh ==
  ASSUME QueueInv, FreshInv, [Next]_vars
  PROVE  \A x \in SessionIds : x >= nextSessionId' => reading'[x] = "idle"
  <1>1. /\ nextSessionId \in Nat /\ \A x \in SessionIds : x \in Nat
        /\ reading \in [SessionIds -> {"idle", "pending", "ready", "failed"}]
    BY SessionAssumption DEF QueueInv, SessionTypeOK, SessionIds
  <1>2. \A x \in SessionIds : x >= nextSessionId => reading[x] = "idle"
    BY DEF FreshInv
  <1>3. ASSUME NEW s \in SessionIds, NEW outcome, reading[s] # "idle",
               reading' = [reading EXCEPT ![s] = outcome], UNCHANGED nextSessionId
        PROVE  \A x \in SessionIds : x >= nextSessionId' => reading'[x] = "idle"
    BY <1>1, <1>2, <1>3
  <1>4. CASE UNCHANGED <<reading, nextSessionId>>
    BY <1>2, <1>4
  <1>5. ASSUME NEW s \in SessionIds, Command(s)
        PROVE  \A x \in SessionIds : x >= nextSessionId' => reading'[x] = "idle"
    <2>1. /\ reading[s] = "ready" /\ UNCHANGED nextSessionId
          /\ reading' = [reading EXCEPT ![s] = Started(s)]
      BY <1>5, CommandReads
    <2>2. reading[s] # "idle"
      BY <2>1
    <2> QED BY <1>3, <2>1, <2>2
  <1>6. CASE Connection
    <2>1. nextSessionId' = nextSessionId + 1
      BY <1>6 DEF Connection, Accept, AcceptFails
    <2>2. \A x \in SessionIds : x # nextSessionId => reading'[x] = reading[x]
      BY <1>1, <1>6 DEF Connection, Accept, AcceptFails
    <2>3. \A x \in SessionIds : x >= nextSessionId' => x >= nextSessionId /\ x # nextSessionId
      BY <1>1, <2>1
    <2> QED BY <1>2, <2>2, <2>3
  <1>7. ASSUME NEW s \in SessionIds, Disconnect(s)
        PROVE  \A x \in SessionIds : x >= nextSessionId' => reading'[x] = "idle"
    <2>1. CASE ReadError(s)
      BY <1>3, <2>1 DEF ReadError
    <2>2. CASE WriteError(s)
      BY <1>1, <1>2, <2>2 DEF WriteError, Aborted
    <2> QED BY <1>7, <2>1, <2>2 DEF Disconnect
  <1>8. ASSUME NEW s \in SessionIds, Written(s)
        PROVE  \A x \in SessionIds : x >= nextSessionId' => reading'[x] = "idle"
    BY <1>4, <1>8 DEF Written, WriteDone
  <1>9. ASSUME NEW s \in SessionIds, Environment(s)
        PROVE  \A x \in SessionIds : x >= nextSessionId' => reading'[x] = "idle"
    <2>1. CASE LineArrives(s) \/ ReadFails(s)
      BY <1>3, <2>1 DEF LineArrives, ReadFails, ReadEnds
    <2>2. CASE WriteCompletes(s) \/ WriteFails(s)
      BY <1>4, <2>2 DEF WriteCompletes, WriteFails, WriteEnds
    <2> QED BY <1>9, <2>1, <2>2 DEF Environment
  <1>10. ASSUME NEW clientIo, NEW topicIo, Restart(clientIo, topicIo)
         PROVE  \A x \in SessionIds : x >= nextSessionId' => reading'[x] = "idle"
    BY <1>10 DEF Restart, SessionRestart
  <1>11. CASE UNCHANGED vars
    BY <1>4, <1>11 DEF vars, sessionVars
  <1> QED BY <1>5, <1>6, <1>7, <1>8, <1>9, <1>10, <1>11 DEF Next, Handler

\* The places of a queue after entries were added to it: what was there stays.
LEMMA ConcatPlaces ==
  ASSUME NEW old \in Seq(Entries), NEW new \in Seq(Entries)
  PROVE  /\ Len(old) \in Nat /\ Len(new) \in Nat
         /\ \A i \in 1..Len(old) : i \in 1..Len(old \o new) /\ (old \o new)[i] = old[i]
         /\ \A k \in 1..Len(new) :
              Len(old) + k \in 1..Len(old \o new) /\ (old \o new)[Len(old) + k] = new[k]
         /\ \A i \in 1..Len(old \o new) :
              i \in 1..Len(old)
                \/ (i - Len(old) \in 1..Len(new) /\ (old \o new)[i] = new[i - Len(old)])
  <1> DEFINE m == Len(old)
             k == Len(new)
             all == old \o new
  <1>1. /\ m \in Nat /\ k \in Nat /\ Len(all) = m + k
        /\ \A i \in 1..m + k : all[i] = IF i <= m THEN old[i] ELSE new[i - m]
    BY LenProperties, ConcatProperties
  <1> HIDE DEF m, k, all
  <1>2. \A i \in 1..m : i \in 1..Len(all) /\ all[i] = old[i]
    BY <1>1
  <1>3. ASSUME NEW j \in 1..k PROVE m + j \in 1..Len(all) /\ all[m + j] = new[j]
    <2>1. m + j \in 1..m + k /\ ~(m + j <= m) /\ m + j - m = j
      BY <1>1
    <2> QED BY <1>1, <2>1
  <1>4. ASSUME NEW i \in 1..Len(all)
        PROVE  i \in 1..m \/ (i - m \in 1..k /\ all[i] = new[i - m])
    <2>1. i \in 1..m \/ (i - m \in 1..k /\ ~(i <= m))
      BY <1>1
    <2> QED BY <1>1, <2>1
  <1> QED BY <1>1, <1>2, <1>3, <1>4 DEF m, k, all

LEMMA AddsFacts ==
  ASSUME QueueInv, NEW added, Adds(added), NEW x \in SessionIds
  PROVE  /\ outgoing[x] \in Seq(Entries) /\ added[x] \in Seq(Entries)
         /\ outgoing'[x] = outgoing[x] \o added[x]
         /\ added[x] = <<>> => outgoing'[x] = outgoing[x]
  <1>1. outgoing[x] \in Seq(Entries) /\ added[x] \in Seq(Entries)
    BY DEF QueueInv, SessionTypeOK, Adds
  <1>2. outgoing'[x] = outgoing[x] \o added[x]
    BY DEF Adds
  <1> QED BY <1>1, <1>2, ConcatEmptySeq

\* No step queues anything on a session that is not accepted, or binds a client to it.
LEMMA KindsFresh ==
  ASSUME QueueInv, FreshInv, MessageStep, nextSessionId' \in Nat
  PROVE  \A x \in SessionIds : x >= nextSessionId' =>
           outgoing'[x] = <<>> /\ \A c \in ClientIds : session'[c] # x
  <1> SUFFICES ASSUME NEW x \in SessionIds, x >= nextSessionId'
               PROVE  outgoing'[x] = <<>> /\ \A c \in ClientIds : session'[c] # x
    OBVIOUS
  <1>1. /\ x \in Nat /\ x # invalidSessionId /\ nextSessionId \in Nat
        /\ session \in [ClientIds -> SessionIds \cup {invalidSessionId}]
    BY SessionAssumption
       DEF QueueInv, SessionTypeOK, ClientPartOK, SessionIds, invalidSessionId
  <1>2. x >= nextSessionId => outgoing[x] = <<>> /\ \A c \in ClientIds : session[c] # x
    BY DEF FreshInv
  <1>3. ASSUME NEW added, Adds(added)
        PROVE  outgoing'[x] = <<>> /\ \A c \in ClientIds : session[c] # x
    <2>1. added[x] = <<>> /\ nextSessionId' >= nextSessionId
      BY <1>3 DEF Adds
    <2>2. outgoing'[x] = outgoing[x]
      BY <1>3, <2>1, AddsFacts
    <2>3. x >= nextSessionId
      BY <1>1, <2>1
    <2> QED BY <1>2, <2>2, <2>3
  <1>4. ASSUME NEW added, Quiet(added)
        PROVE  outgoing'[x] = <<>> /\ \A c \in ClientIds : session'[c] # x
    BY <1>1, <1>3, <1>4 DEF Quiet
  <1>5. ASSUME NEW added, NEW s \in SessionIds, NEW c \in ClientIds, Flush(added, s, c)
        PROVE  outgoing'[x] = <<>> /\ \A d \in ClientIds : session'[d] # x
    <2>1. Adds(added) /\ session' = [session EXCEPT ![c] = s] /\ s < nextSessionId'
      BY <1>5 DEF Flush
    <2>2. s # x
      BY <1>1, <2>1 DEF SessionIds
    <2> QED BY <1>1, <1>3, <2>1, <2>2
  <1>6. ASSUME NEW added, NEW receivers, Fanned(added, receivers)
        PROVE  outgoing'[x] = <<>> /\ \A c \in ClientIds : session'[c] # x
    BY <1>3, <1>6 DEF Fanned
  <1>7. ASSUME NEW s \in SessionIds, Popped(s)
        PROVE  outgoing'[x] = <<>> /\ \A c \in ClientIds : session'[c] # x
    BY <1>2, <1>7 DEF Popped
  <1>8. CASE Lost
    BY <1>1, <1>8 DEF Lost
  <1> QED BY <1>4, <1>5, <1>6, <1>7, <1>8 DEF MessageStep

\* FreshInv holds at the start, and after every step.
LEMMA InitFreshInv == Init => FreshInv
  <1>1. \A s \in SessionIds : s # invalidSessionId
    BY SessionAssumption DEF SessionIds, invalidSessionId
  <1> QED BY <1>1 DEF Init, ClientInit, SessionInit, FreshInv

LEMMA StepFreshInv == QueueInv /\ FreshInv /\ [Next]_vars => FreshInv'
  <1>1. QueueInv' => nextSessionId' \in Nat
    BY SessionAssumption DEF QueueInv, SessionTypeOK
  <1> QED BY <1>1, StepQueueInv, StepKinds, ReadingFresh, KindsFresh DEF FreshInv

-----------------------------------------------------------------------------
(* Order *)

\* Place i of the queue of s has the copy of message n for client c.
QueuedAt(s, i, c, n) == i \in 1..Len(outgoing[s]) /\ outgoing[s][i] = <<c, n>>

\* Messages that are there have been published in this run of the process.
Numbered ==
  /\ \A c \in ClientIds : \A i \in 1..Len(buffer[c]) : buffer[c][i] \in 1..published
  /\ \A s \in SessionIds, c \in ClientIds, i \in Nat, n \in Nat :
       QueuedAt(s, i, c, n) => n \in 1..published
  /\ \A c \in ClientIds, n \in Nat : <<c, n>> \in delivered => n \in 1..published

\* Only a client that is away has a buffer: LOGIN empties it.
OnlyAwayBuffer ==
  \A c \in ClientIds : session[c] # invalidSessionId => buffer[c] = <<>>

BuffersIncrease ==
  \A c \in ClientIds : \A i, j \in 1..Len(buffer[c]) : i < j => buffer[c][i] < buffer[c][j]

QueuesIncrease ==
  \A s \in SessionIds, c \in ClientIds, i, j \in Nat, m, n \in Nat :
    QueuedAt(s, i, c, m) /\ QueuedAt(s, j, c, n) /\ i < j => m < n

BuffersYounger ==
  \A s \in SessionIds, c \in ClientIds, i \in Nat, n \in Nat :
    QueuedAt(s, i, c, n) => \A j \in 1..Len(buffer[c]) : n < buffer[c][j]

OrderInv ==
  Numbered /\ OnlyAwayBuffer /\ BuffersIncrease /\ QueuesIncrease /\ BuffersYounger

\* The place k after the old end of the queue of s has the copy of n for c.
AddedAt(added, s, k, c, n) == k \in 1..Len(added[s]) /\ added[s][k] = <<c, n>>

\* A place in a queue after entries were added to it.
LEMMA AddsQueued ==
  ASSUME QueueInv, NEW added, Adds(added),
         NEW s \in SessionIds, NEW c, NEW n, NEW i \in Nat
  PROVE  /\ QueuedAt(s, i, c, n)' <=>
              (QueuedAt(s, i, c, n) \/ AddedAt(added, s, i - Len(outgoing[s]), c, n))
         /\ QueuedAt(s, i, c, n) => i <= Len(outgoing[s])
         /\ \A k \in Nat :
              AddedAt(added, s, k, c, n) /\ i = Len(outgoing[s]) + k => QueuedAt(s, i, c, n)'
  <1> DEFINE old == outgoing[s]
             new == added[s]
             m == Len(old)
             k == Len(new)
  <1>1. old \in Seq(Entries) /\ new \in Seq(Entries) /\ outgoing'[s] = old \o new
    BY AddsFacts
  <1> HIDE DEF old, new
  <1>2. /\ m \in Nat /\ k \in Nat
        /\ \A j \in 1..m : j \in 1..Len(old \o new) /\ (old \o new)[j] = old[j]
        /\ \A j \in 1..k : m + j \in 1..Len(old \o new) /\ (old \o new)[m + j] = new[j]
        /\ \A j \in 1..Len(old \o new) :
             j \in 1..m \/ (j - m \in 1..k /\ (old \o new)[j] = new[j - m])
    BY <1>1, ConcatPlaces
  <1> HIDE DEF m, k
  <1>3. /\ QueuedAt(s, i, c, n)' <=> i \in 1..Len(old \o new) /\ (old \o new)[i] = <<c, n>>
        /\ QueuedAt(s, i, c, n) <=> i \in 1..m /\ old[i] = <<c, n>>
        /\ \A j : AddedAt(added, s, j, c, n) <=> j \in 1..k /\ new[j] = <<c, n>>
    BY <1>1 DEF QueuedAt, AddedAt, m, k, old, new
  <1>4. i - m \in 1..k => m + (i - m) = i
    BY <1>2
  <1>5. QueuedAt(s, i, c, n) => QueuedAt(s, i, c, n)' /\ i <= m
    BY <1>2, <1>3
  <1>6. ASSUME NEW j \in Nat, AddedAt(added, s, j, c, n), i = m + j
        PROVE  QueuedAt(s, i, c, n)'
    BY <1>2, <1>3, <1>6
  <1>7. AddedAt(added, s, i - m, c, n) => QueuedAt(s, i, c, n)'
    BY <1>2, <1>3, <1>4
  <1>8. QueuedAt(s, i, c, n)' => QueuedAt(s, i, c, n) \/ AddedAt(added, s, i - m, c, n)
    BY <1>2, <1>3
  <1> QED BY <1>5, <1>6, <1>7, <1>8 DEF m, old

\* A place in a queue after the front of the queue of s was written.
LEMMA PoppedQueued ==
  ASSUME QueueInv, NEW s \in SessionIds, Popped(s),
         NEW x \in SessionIds, NEW c, NEW n, NEW i \in Nat
  PROVE  IF x = s
         THEN QueuedAt(x, i, c, n)' <=> (i # 0 /\ QueuedAt(x, i + 1, c, n))
         ELSE QueuedAt(x, i, c, n)' <=> QueuedAt(x, i, c, n)
  <1> DEFINE old == outgoing[s]
             m == Len(old)
  <1>1. old \in Seq(Entries) /\ old # <<>> /\ outgoing \in [SessionIds -> Seq(Entries)]
    BY DEF QueueInv, SessionTypeOK, Popped
  <1>2. /\ outgoing'[s] = Tail(old)
        /\ \A y \in SessionIds : y # s => outgoing'[y] = outgoing[y]
    BY <1>1 DEF Popped
  <1> HIDE DEF old
  <1>3. m \in Nat /\ m # 0 /\ Len(Tail(old)) = m - 1
        /\ \A j \in 1..Len(Tail(old)) : Tail(old)[j] = old[j + 1]
    BY <1>1, HeadTailProperties, EmptySeq, LenProperties
  <1> HIDE DEF m
  <1>4. i \in 1..m - 1 <=> i # 0 /\ i + 1 \in 1..m
    BY <1>3
  <1>5. QueuedAt(s, i, c, n)' <=> (i # 0 /\ QueuedAt(s, i + 1, c, n))
    <2>1. QueuedAt(s, i, c, n)' <=> i \in 1..m - 1 /\ Tail(old)[i] = <<c, n>>
      BY <1>2, <1>3 DEF QueuedAt
    <2>2. QueuedAt(s, i + 1, c, n) <=> i + 1 \in 1..m /\ old[i + 1] = <<c, n>>
      BY DEF QueuedAt, old, m
    <2>3. i \in 1..m - 1 => Tail(old)[i] = old[i + 1]
      BY <1>3
    <2> QED BY <1>4, <2>1, <2>2, <2>3
  <1>6. ASSUME x # s
        PROVE  QueuedAt(x, i, c, n)' <=> QueuedAt(x, i, c, n)
    BY <1>2, <1>6 DEF QueuedAt
  <1> QED BY <1>5, <1>6

\* What each kind of step adds, seen from a place.
LEMMA AddedPlaces ==
  ASSUME QueueInv, NEW added, NEW x \in SessionIds, NEW k \in Nat,
         NEW d \in ClientIds, NEW n \in Nat
  PROVE  /\ Quiet(added) => ~AddedAt(added, x, k, d, n)
         /\ \A s \in SessionIds, c \in ClientIds : Flush(added, s, c) =>
              (AddedAt(added, x, k, d, n) <=>
                 x = s /\ d = c /\ k - 1 \in 1..Len(buffer[c]) /\ buffer[c][k - 1] = n)
         /\ \A receivers : Fanned(added, receivers) /\ AddedAt(added, x, k, d, n) =>
              d \in receivers /\ session[d] = x /\ n = published + 1
  <1>1. <<d, n>> # Text
    BY ClientAssumption DEF Text
  <1>2. Quiet(added) => ~AddedAt(added, x, k, d, n)
    BY <1>1 DEF Quiet, AddedAt
  <1>3. ASSUME NEW s \in SessionIds, NEW c \in ClientIds, Flush(added, s, c)
        PROVE  AddedAt(added, x, k, d, n) <=>
                 x = s /\ d = c /\ k - 1 \in 1..Len(buffer[c]) /\ buffer[c][k - 1] = n
    <2>1. ASSUME AddedAt(added, x, k, d, n)
          PROVE  x = s /\ d = c /\ k - 1 \in 1..Len(buffer[c]) /\ buffer[c][k - 1] = n
      <3>1. k \in 1..Len(added[x]) /\ added[x][k] = <<d, n>>
        BY <2>1 DEF AddedAt
      <3>2. x = s /\ k - 1 \in 1..Len(buffer[c]) /\ added[x][k] = <<c, buffer[c][k - 1]>>
        BY <1>1, <1>3, <3>1 DEF Flush
      <3> QED BY <3>1, <3>2
    <2>2. ASSUME x = s, d = c, k - 1 \in 1..Len(buffer[c]), buffer[c][k - 1] = n
          PROVE  AddedAt(added, x, k, d, n)
      <3>1. (k - 1) + 1 = k
        OBVIOUS
      <3>2. (k - 1) + 1 \in 1..Len(added[s]) /\ added[s][(k - 1) + 1] = <<c, buffer[c][k - 1]>>
        BY <1>3, <2>2 DEF Flush
      <3> QED BY <2>2, <3>1, <3>2 DEF AddedAt
    <2> QED BY <2>1, <2>2
  <1>4. ASSUME NEW receivers, Fanned(added, receivers), AddedAt(added, x, k, d, n)
        PROVE  d \in receivers /\ session[d] = x /\ n = published + 1
    <2>1. k \in 1..Len(added[x]) /\ added[x][k] = <<d, n>>
      BY <1>4 DEF AddedAt
    <2>2. PICK c \in receivers : session[c] = x /\ added[x][k] = <<c, published + 1>>
      BY <1>1, <1>4, <2>1 DEF Fanned
    <2> QED BY <2>1, <2>2
  <1> QED BY <1>2, <1>3, <1>4

\* The numbers that a place and a buffer can have.
LEMMA MessageTypes ==
  ASSUME QueueInv
  PROVE  /\ published \in Nat /\ MaxPublish \in Nat
         /\ \A x \in SessionIds : Len(outgoing[x]) \in Nat
         /\ \A c \in ClientIds : Len(buffer[c]) \in Nat /\ buffer[c] \in Seq(Nat)
         /\ \A c \in ClientIds : \A j \in 1..Len(buffer[c]) : buffer[c][j] \in Nat
  <1>1. published \in Nat /\ MaxPublish \in Nat
    BY BrokerAssumption DEF QueueInv, GhostTypeOK
  <1>2. \A x \in SessionIds : Len(outgoing[x]) \in Nat
    BY LenProperties DEF QueueInv, SessionTypeOK
  <1>3. ASSUME NEW c \in ClientIds
        PROVE  /\ Len(buffer[c]) \in Nat /\ buffer[c] \in Seq(Nat)
               /\ \A j \in 1..Len(buffer[c]) : buffer[c][j] \in Nat
    <2>1. buffer[c] \in Seq(Nat)
      BY DEF QueueInv, ClientPartOK
    <2> QED BY <2>1, LenProperties, ElementOfSeq
  <1> QED BY <1>1, <1>2, <1>3

\* Texts disturb no order.
LEMMA QuietOrder ==
  ASSUME QueueInv, OrderInv, NEW added, Quiet(added)
  PROVE  OrderInv'
  <1>1. Adds(added) /\ UNCHANGED <<buffer, published, delivered>>
    BY DEF Quiet
  <1>2. \A x \in SessionIds, c \in ClientIds, i \in Nat, n \in Nat :
          QueuedAt(x, i, c, n)' => QueuedAt(x, i, c, n)
    <2>1. SUFFICES ASSUME NEW x \in SessionIds, NEW c \in ClientIds, NEW i \in Nat, NEW n \in Nat,
                          QueuedAt(x, i, c, n)', ~QueuedAt(x, i, c, n)
                   PROVE  FALSE
      OBVIOUS
    <2>2. AddedAt(added, x, i - Len(outgoing[x]), c, n)
      BY <1>1, <2>1, AddsQueued
    <2>3. i - Len(outgoing[x]) \in Nat
      BY <1>1, <2>2, AddsFacts, LenProperties DEF AddedAt
    <2> QED BY <2>2, <2>3, AddedPlaces
  <1>3. Numbered'
    BY <1>1, <1>2 DEF OrderInv, Numbered
  <1>4. OnlyAwayBuffer'
    BY <1>1 DEF Quiet, OrderInv, OnlyAwayBuffer
  <1>5. BuffersIncrease'
    BY <1>1 DEF OrderInv, BuffersIncrease
  <1>6. QueuesIncrease'
    BY <1>2 DEF OrderInv, QueuesIncrease
  <1>7. BuffersYounger'
    BY <1>1, <1>2 DEF OrderInv, BuffersYounger
  <1> QED BY <1>3, <1>4, <1>5, <1>6, <1>7 DEF OrderInv

\* A flushed buffer comes behind what is queued for its client, which is older.
LEMMA FlushOrder ==
  ASSUME QueueInv, OrderInv,
         NEW added, NEW s \in SessionIds, NEW c \in ClientIds, Flush(added, s, c)
  PROVE  OrderInv'
  <1>1. /\ Adds(added) /\ UNCHANGED <<published, delivered>>
        /\ buffer' = [buffer EXCEPT ![c] = <<>>] /\ session' = [session EXCEPT ![c] = s]
    BY DEF Flush
  <1>2. /\ buffer'[c] = <<>> /\ Len(buffer'[c]) = 0
        /\ \A d \in ClientIds : d # c => buffer'[d] = buffer[d] /\ session'[d] = session[d]
    BY <1>1, EmptySeq DEF QueueInv, ClientPartOK
  <1>3. /\ \A x \in SessionIds : Len(outgoing[x]) \in Nat
        /\ \A d \in ClientIds : \A j \in 1..Len(buffer[d]) : buffer[d][j] \in Nat
    BY MessageTypes
  <1>4. ASSUME NEW x \in SessionIds, NEW d \in ClientIds, NEW i \in Nat, NEW n \in Nat,
               QueuedAt(x, i, d, n)'
        PROVE  \/ QueuedAt(x, i, d, n) /\ i <= Len(outgoing[x])
               \/ /\ x = s /\ d = c /\ i > Len(outgoing[s])
                  /\ i - Len(outgoing[s]) - 1 \in 1..Len(buffer[c])
                  /\ buffer[c][i - Len(outgoing[s]) - 1] = n
    <2>1. CASE QueuedAt(x, i, d, n)
      BY <1>1, <2>1, AddsQueued
    <2>2. CASE ~QueuedAt(x, i, d, n)
      <3>1. AddedAt(added, x, i - Len(outgoing[x]), d, n)
        BY <1>1, <1>4, <2>2, AddsQueued
      <3>2. i - Len(outgoing[x]) \in 1..Len(added[x]) /\ Len(added[x]) \in Nat
        BY <1>1, <3>1, AddsFacts, LenProperties DEF AddedAt
      <3>3. i - Len(outgoing[x]) \in Nat /\ i > Len(outgoing[x])
        BY <1>3, <3>2
      <3> QED BY <3>1, <3>3, AddedPlaces
    <2> QED BY <2>1, <2>2
  <1>5. Numbered'
    <2>1. \A x \in SessionIds, d \in ClientIds, i \in Nat, n \in Nat :
            QueuedAt(x, i, d, n)' => n \in 1..published
      BY <1>4 DEF OrderInv, Numbered
    <2>2. \A d \in ClientIds : \A i \in 1..Len(buffer'[d]) : buffer'[d][i] \in 1..published
      BY <1>2 DEF OrderInv, Numbered
    <2> QED BY <1>1, <2>1, <2>2 DEF OrderInv, Numbered
  <1>6. OnlyAwayBuffer'
    BY <1>2 DEF OrderInv, OnlyAwayBuffer
  <1>7. BuffersIncrease'
    BY <1>2 DEF OrderInv, BuffersIncrease
  <1>8. QueuesIncrease'
    <2>1. SUFFICES ASSUME NEW x \in SessionIds, NEW d \in ClientIds, NEW i \in Nat, NEW j \in Nat,
                          NEW m \in Nat, NEW n \in Nat,
                          QueuedAt(x, i, d, m)', QueuedAt(x, j, d, n)', i < j
                   PROVE  m < n
      BY DEF QueuesIncrease
    <2> DEFINE end == Len(outgoing[s])
    <2>2. end \in Nat
      BY <1>3
    <2>3. CASE QueuedAt(x, i, d, m) /\ QueuedAt(x, j, d, n)
      BY <2>1, <2>3 DEF OrderInv, QueuesIncrease
    <2>4. CASE QueuedAt(x, i, d, m) /\ ~QueuedAt(x, j, d, n)
      <3>1. d = c /\ j - end - 1 \in 1..Len(buffer[c]) /\ buffer[c][j - end - 1] = n
        BY <1>4, <2>1, <2>4
      <3> QED BY <2>4, <3>1 DEF OrderInv, BuffersYounger
    <2>5. CASE ~QueuedAt(x, i, d, m)
      <3>1. /\ x = s /\ d = c /\ i > end
            /\ i - end - 1 \in 1..Len(buffer[c]) /\ buffer[c][i - end - 1] = m
        BY <1>4, <2>1, <2>5
      <3>2. ~(j <= end)
        BY <2>1, <2>2, <3>1
      <3>3. j - end - 1 \in 1..Len(buffer[c]) /\ buffer[c][j - end - 1] = n
        BY <1>4, <2>1, <3>1, <3>2
      <3>4. i - end - 1 < j - end - 1
        BY <2>1, <2>2
      <3> QED BY <3>1, <3>3, <3>4 DEF OrderInv, BuffersIncrease
    <2> QED BY <2>3, <2>4, <2>5
  <1>9. BuffersYounger'
    <2>1. SUFFICES ASSUME NEW x \in SessionIds, NEW d \in ClientIds, NEW i \in Nat, NEW n \in Nat,
                          QueuedAt(x, i, d, n)', NEW j \in 1..Len(buffer'[d])
                   PROVE  n < buffer'[d][j]
      BY DEF BuffersYounger
    <2>2. d # c
      BY <1>2, <2>1
    <2>3. QueuedAt(x, i, d, n) /\ buffer'[d] = buffer[d]
      BY <1>2, <1>4, <2>1, <2>2
    <2> QED BY <2>1, <2>3 DEF OrderInv, BuffersYounger
  <1> QED BY <1>5, <1>6, <1>7, <1>8, <1>9 DEF OrderInv

\* The newest message is behind all others.
LEMMA FannedOrder ==
  ASSUME QueueInv, OrderInv,
         NEW added, NEW receivers \in SUBSET ClientIds, Fanned(added, receivers)
  PROVE  OrderInv'
  <1>1. /\ Adds(added) /\ published' = published + 1
        /\ buffer' = [c \in ClientIds |->
                        IF c \in receivers /\ session[c] = invalidSessionId
                        THEN Append(buffer[c], published + 1) ELSE buffer[c]]
        /\ UNCHANGED <<session, delivered>>
    BY DEF Fanned, BufferTopicMessage
  <1>2. /\ published \in Nat
        /\ \A x \in SessionIds : Len(outgoing[x]) \in Nat
        /\ \A d \in ClientIds : Len(buffer[d]) \in Nat /\ buffer[d] \in Seq(Nat)
        /\ \A d \in ClientIds : \A j \in 1..Len(buffer[d]) : buffer[d][j] \in Nat
    BY MessageTypes
  <1>3. ASSUME NEW c \in ClientIds
        PROVE  /\ Len(buffer'[c]) \in Nat
               /\ \A j \in 1..Len(buffer'[c]) :
                    \/ j \in 1..Len(buffer[c]) /\ buffer'[c][j] = buffer[c][j]
                    \/ /\ j = Len(buffer'[c]) /\ buffer'[c][j] = published + 1
                       /\ session[c] = invalidSessionId
               /\ session[c] # invalidSessionId => buffer'[c] = buffer[c]
    <2>1. /\ Append(buffer[c], published + 1) \in Seq(Nat)
          /\ Len(Append(buffer[c], published + 1)) = Len(buffer[c]) + 1
          /\ \A j \in 1..Len(buffer[c]) : Append(buffer[c], published + 1)[j] = buffer[c][j]
          /\ Append(buffer[c], published + 1)[Len(buffer[c]) + 1] = published + 1
      BY <1>2, AppendProperties
    <2>2. CASE c \in receivers /\ session[c] = invalidSessionId
      <3>1. buffer'[c] = Append(buffer[c], published + 1)
        BY <1>1, <2>2
      <3>2. \A j \in 1..Len(buffer[c]) + 1 : j \in 1..Len(buffer[c]) \/ j = Len(buffer[c]) + 1
        BY <1>2
      <3> QED BY <1>2, <2>1, <2>2, <3>1, <3>2
    <2>3. CASE ~(c \in receivers /\ session[c] = invalidSessionId)
      <3>1. buffer'[c] = buffer[c]
        BY <1>1, <2>3
      <3> QED BY <1>2, <3>1
    <2> QED BY <2>2, <2>3
  <1>4. ASSUME NEW x \in SessionIds, NEW d \in ClientIds, NEW i \in Nat, NEW n \in Nat,
               QueuedAt(x, i, d, n)'
        PROVE  \/ QueuedAt(x, i, d, n) /\ i <= Len(outgoing[x])
               \/ /\ i > Len(outgoing[x]) /\ n = published + 1 /\ session[d] = x
                  /\ AddedAt(added, x, i - Len(outgoing[x]), d, n)
    <2>1. CASE QueuedAt(x, i, d, n)
      BY <1>1, <2>1, AddsQueued
    <2>2. CASE ~QueuedAt(x, i, d, n)
      <3>1. AddedAt(added, x, i - Len(outgoing[x]), d, n)
        BY <1>1, <1>4, <2>2, AddsQueued
      <3>2. i - Len(outgoing[x]) \in 1..Len(added[x]) /\ Len(added[x]) \in Nat
        BY <1>1, <3>1, AddsFacts, LenProperties DEF AddedAt
      <3>3. i - Len(outgoing[x]) \in Nat /\ i > Len(outgoing[x])
        BY <1>2, <3>2
      <3> QED BY <3>1, <3>3, AddedPlaces
    <2> QED BY <2>1, <2>2
  <1>5. Numbered'
    <2>1. \A n \in 1..published : n \in 1..published + 1
      BY <1>2
    <2>2. published + 1 \in 1..published + 1
      BY <1>2
    <2>3. \A x \in SessionIds, d \in ClientIds, i \in Nat, n \in Nat :
            QueuedAt(x, i, d, n)' => n \in 1..published + 1
      BY <1>4, <2>1, <2>2 DEF OrderInv, Numbered
    <2>4. \A d \in ClientIds : \A i \in 1..Len(buffer'[d]) : buffer'[d][i] \in 1..published + 1
      BY <1>3, <2>1, <2>2 DEF OrderInv, Numbered
    <2>5. \A d \in ClientIds, n \in Nat : <<d, n>> \in delivered' => n \in 1..published + 1
      BY <1>1, <2>1 DEF OrderInv, Numbered
    <2> QED BY <1>1, <2>3, <2>4, <2>5 DEF Numbered
  <1>6. OnlyAwayBuffer'
    BY <1>1, <1>3 DEF OrderInv, OnlyAwayBuffer
  <1>7. BuffersIncrease'
    <2>1. SUFFICES ASSUME NEW c \in ClientIds, NEW i \in 1..Len(buffer'[c]),
                          NEW j \in 1..Len(buffer'[c]), i < j
                   PROVE  buffer'[c][i] < buffer'[c][j]
      BY DEF BuffersIncrease
    <2>2. i \in 1..Len(buffer[c]) /\ buffer'[c][i] = buffer[c][i]
      <3>1. i # Len(buffer'[c])
        BY <1>3, <2>1
      <3> QED BY <1>3, <2>1, <3>1
    <2>3. CASE j \in 1..Len(buffer[c]) /\ buffer'[c][j] = buffer[c][j]
      BY <2>1, <2>2, <2>3 DEF OrderInv, BuffersIncrease
    <2>4. CASE buffer'[c][j] = published + 1
      <3>1. buffer[c][i] \in 1..published
        BY <2>2 DEF OrderInv, Numbered
      <3>2. \A n \in 1..published : n < published + 1
        BY <1>2
      <3> QED BY <2>2, <2>4, <3>1, <3>2
    <2> QED BY <1>3, <2>1, <2>3, <2>4
  <1>8. QueuesIncrease'
    <2>1. SUFFICES ASSUME NEW x \in SessionIds, NEW d \in ClientIds, NEW i \in Nat, NEW j \in Nat,
                          NEW m \in Nat, NEW n \in Nat,
                          QueuedAt(x, i, d, m)', QueuedAt(x, j, d, n)', i < j
                   PROVE  m < n
      BY DEF QueuesIncrease
    <2> DEFINE end == Len(outgoing[x])
    <2>2. end \in Nat
      BY <1>2
    <2>3. CASE QueuedAt(x, i, d, m) /\ QueuedAt(x, j, d, n)
      BY <2>1, <2>3 DEF OrderInv, QueuesIncrease
    <2>4. CASE QueuedAt(x, i, d, m) /\ ~QueuedAt(x, j, d, n)
      <3>1. n = published + 1
        BY <1>4, <2>1, <2>4
      <3>2. m \in 1..published
        BY <2>4 DEF OrderInv, Numbered
      <3> QED BY <1>2, <3>1, <3>2
    <2>5. CASE ~QueuedAt(x, i, d, m)
      <3>1. i > end /\ m = published + 1 /\ AddedAt(added, x, i - end, d, m)
        BY <1>4, <2>1, <2>5
      <3>2. ~(j <= end)
        BY <2>1, <2>2, <3>1
      <3>3. n = published + 1 /\ AddedAt(added, x, j - end, d, n)
        BY <1>4, <2>1, <3>2
      <3>4. /\ i - end \in 1..Len(added[x]) /\ added[x][i - end] = <<d, published + 1>>
            /\ j - end \in 1..Len(added[x]) /\ added[x][j - end] = <<d, published + 1>>
        BY <3>1, <3>3 DEF AddedAt
      <3>5. <<d, published + 1>> # Text
        BY ClientAssumption DEF Text
      <3>6. i - end = j - end
        BY <3>4, <3>5 DEF Fanned
      <3>7. i = j
        BY <2>2, <3>6
      <3> QED BY <2>1, <3>7
    <2> QED BY <2>3, <2>4, <2>5
  <1>9. BuffersYounger'
    <2>1. SUFFICES ASSUME NEW x \in SessionIds, NEW d \in ClientIds, NEW i \in Nat, NEW n \in Nat,
                          QueuedAt(x, i, d, n)', NEW j \in 1..Len(buffer'[d])
                   PROVE  n < buffer'[d][j]
      BY DEF BuffersYounger
    <2>2. x # invalidSessionId
      BY SessionAssumption DEF SessionIds, invalidSessionId
    <2>3. QueuedAt(x, i, d, n)
      <3>1. SUFFICES ASSUME ~QueuedAt(x, i, d, n) PROVE FALSE
        OBVIOUS
      <3>2. session[d] # invalidSessionId
        BY <1>4, <2>1, <2>2, <3>1
      <3>3. buffer'[d] = <<>>
        BY <1>3, <3>2 DEF OrderInv, OnlyAwayBuffer
      <3> QED BY <2>1, <3>3, EmptySeq
    <2>4. CASE j \in 1..Len(buffer[d]) /\ buffer'[d][j] = buffer[d][j]
      BY <2>3, <2>4 DEF OrderInv, BuffersYounger
    <2>5. CASE buffer'[d][j] = published + 1
      <3>1. n \in 1..published
        BY <2>3 DEF OrderInv, Numbered
      <3> QED BY <1>2, <2>5, <3>1
    <2> QED BY <1>3, <2>1, <2>4, <2>5
  <1> QED BY <1>5, <1>6, <1>7, <1>8, <1>9 DEF OrderInv

\* What is written was at the front of the queue.
LEMMA FrontWritten ==
  ASSUME QueueInv, NEW s \in SessionIds, Popped(s), NEW c \in ClientIds, NEW n
  PROVE  <<c, n>> \in delivered' <=> (<<c, n>> \in delivered \/ QueuedAt(s, 1, c, n))
  <1>1. outgoing[s] \in Seq(Entries) /\ outgoing[s] # <<>>
    BY DEF QueueInv, SessionTypeOK, Popped
  <1>2. Head(outgoing[s]) = outgoing[s][1] /\ 1 \in 1..Len(outgoing[s])
    BY <1>1, HeadTailProperties, EmptySeq, LenProperties
  <1>3. <<c, n>> # Text
    BY ClientAssumption DEF Text
  <1> QED BY <1>2, <1>3 DEF Popped, QueuedAt

\* A written entry leaves the others in their order.
LEMMA PoppedOrder ==
  ASSUME QueueInv, OrderInv, NEW s \in SessionIds, Popped(s)
  PROVE  OrderInv'
  <1>1. UNCHANGED <<session, buffer, published>>
    BY DEF Popped
  <1>2. ASSUME NEW x \in SessionIds, NEW c \in ClientIds, NEW i \in Nat, NEW n \in Nat,
               QueuedAt(x, i, c, n)'
        PROVE  QueuedAt(x, IF x = s THEN i + 1 ELSE i, c, n)
    BY <1>2, PoppedQueued
  <1>3. Numbered'
    <2>1. \A x \in SessionIds, c \in ClientIds, i \in Nat, n \in Nat :
            QueuedAt(x, i, c, n)' => n \in 1..published
      BY <1>2 DEF OrderInv, Numbered
    <2>2. \A c \in ClientIds, n \in Nat : <<c, n>> \in delivered' => n \in 1..published
      BY FrontWritten DEF OrderInv, Numbered
    <2> QED BY <1>1, <2>1, <2>2 DEF OrderInv, Numbered
  <1>4. OnlyAwayBuffer'
    BY <1>1 DEF OrderInv, OnlyAwayBuffer
  <1>5. BuffersIncrease'
    BY <1>1 DEF OrderInv, BuffersIncrease
  <1>6. QueuesIncrease'
    <2>1. SUFFICES ASSUME NEW x \in SessionIds, NEW c \in ClientIds, NEW i \in Nat, NEW j \in Nat,
                          NEW m \in Nat, NEW n \in Nat,
                          QueuedAt(x, i, c, m)', QueuedAt(x, j, c, n)', i < j
                   PROVE  m < n
      BY DEF QueuesIncrease
    <2>2. CASE x = s
      <3>1. QueuedAt(x, i + 1, c, m) /\ QueuedAt(x, j + 1, c, n)
        BY <1>2, <2>1, <2>2
      <3>2. i + 1 \in Nat /\ j + 1 \in Nat /\ i + 1 < j + 1
        BY <2>1
      <3> QED BY <3>1, <3>2 DEF OrderInv, QueuesIncrease
    <2>3. CASE x # s
      <3>1. QueuedAt(x, i, c, m) /\ QueuedAt(x, j, c, n)
        BY <1>2, <2>1, <2>3
      <3> QED BY <2>1, <3>1 DEF OrderInv, QueuesIncrease
    <2> QED BY <2>2, <2>3
  <1>7. BuffersYounger'
    <2>1. \A x \in SessionIds, c \in ClientIds, i \in Nat, n \in Nat :
            QueuedAt(x, i, c, n)' => \A j \in 1..Len(buffer[c]) : n < buffer[c][j]
      BY <1>2 DEF OrderInv, BuffersYounger
    <2> QED BY <1>1, <2>1 DEF BuffersYounger
  <1> QED BY <1>3, <1>4, <1>5, <1>6, <1>7 DEF OrderInv

\* Where nothing is left, nothing is out of order.
LEMMA LostOrder ==
  ASSUME Lost
  PROVE  OrderInv'
  <1>1. /\ \A c \in ClientIds : buffer'[c] = <<>> /\ Len(buffer'[c]) = 0
        /\ \A x \in SessionIds : outgoing'[x] = <<>> /\ Len(outgoing'[x]) = 0
        /\ delivered' = {}
    BY EmptySeq DEF Lost
  <1>2. \A x \in SessionIds, c \in ClientIds, n, i \in Nat : ~QueuedAt(x, i, c, n)'
    BY <1>1 DEF QueuedAt
  <1>3. Numbered'
    BY <1>1, <1>2 DEF Numbered
  <1>4. OnlyAwayBuffer' /\ BuffersIncrease'
    BY <1>1 DEF OnlyAwayBuffer, BuffersIncrease
  <1>5. QueuesIncrease' /\ BuffersYounger'
    BY <1>2 DEF QueuesIncrease, BuffersYounger
  <1> QED BY <1>3, <1>4, <1>5 DEF OrderInv

\* The order is kept from the start on ...
LEMMA InitOrderInv == Init => OrderInv
  <1> SUFFICES ASSUME Init PROVE OrderInv
    OBVIOUS
  <1>1. /\ \A c \in ClientIds : buffer[c] = <<>> /\ Len(buffer[c]) = 0
        /\ \A x \in SessionIds : outgoing[x] = <<>> /\ Len(outgoing[x]) = 0
        /\ delivered = {}
    BY EmptySeq DEF Init, ClientInit, SessionInit
  <1>2. \A x \in SessionIds, c \in ClientIds, n, i \in Nat : ~QueuedAt(x, i, c, n)
    BY <1>1 DEF QueuedAt
  <1>3. Numbered
    BY <1>1, <1>2 DEF Numbered
  <1>4. OnlyAwayBuffer /\ BuffersIncrease
    BY <1>1 DEF OnlyAwayBuffer, BuffersIncrease
  <1>5. QueuesIncrease /\ BuffersYounger
    BY <1>2 DEF QueuesIncrease, BuffersYounger
  <1> QED BY <1>3, <1>4, <1>5 DEF OrderInv

\* ... and by every step.
LEMMA StepOrderInv == QueueInv /\ FreshInv /\ OrderInv /\ [Next]_vars => OrderInv'
  <1> SUFFICES ASSUME QueueInv, FreshInv, OrderInv, [Next]_vars PROVE OrderInv'
    OBVIOUS
  <1>1. MessageStep
    BY StepKinds
  <1> QED BY <1>1, QuietOrder, FlushOrder, FannedOrder, PoppedOrder, LostOrder DEF MessageStep

\* For every client, the copies queued on a session are in the order they were
\* published in, so are the buffered ones, and these are younger than all that
\* are queued: whatever logins, logouts, disconnections, faults and restarts.
THEOREM OrderKept == Spec => []PublishOrderKept
  <1>1. QueueInv /\ OrderInv => PublishOrderKept
    <2>1. SUFFICES ASSUME QueueInv, OrderInv, NEW c \in ClientIds
                   PROVE  /\ \A i, j \in 1..Len(buffer[c]) : i < j => buffer[c][i] < buffer[c][j]
                          /\ \A s \in SessionIds : \A i \in 1..Len(outgoing[s]) :
                               outgoing[s][i][1] = c =>
                                 /\ \A j \in i + 1..Len(outgoing[s]) :
                                      outgoing[s][j][1] = c => outgoing[s][i][2] < outgoing[s][j][2]
                                 /\ \A j \in 1..Len(buffer[c]) : outgoing[s][i][2] < buffer[c][j]
      BY DEF PublishOrderKept
    <2>2. ASSUME NEW s \in SessionIds, NEW i \in 1..Len(outgoing[s]), outgoing[s][i][1] = c
          PROVE  outgoing[s][i][2] \in Nat /\ QueuedAt(s, i, c, outgoing[s][i][2])
      <3>1. outgoing[s] \in Seq(Entries)
        BY <2>1 DEF QueueInv, SessionTypeOK
      <3>2. outgoing[s][i] \in Entries
        BY <3>1, ElementOfSeq
      <3>3. outgoing[s][i] \in ClientIds \X Nat
        BY <2>2, <3>2, ClientAssumption DEF Entries, Text
      <3> QED BY <2>2, <3>3 DEF QueuedAt
    <2>3. ASSUME NEW s \in SessionIds, NEW i \in 1..Len(outgoing[s]), outgoing[s][i][1] = c,
                 NEW j \in i + 1..Len(outgoing[s]), outgoing[s][j][1] = c
          PROVE  outgoing[s][i][2] < outgoing[s][j][2]
      <3>1. Len(outgoing[s]) \in Nat
        BY <2>1, MessageTypes
      <3>2. i \in Nat /\ j \in 1..Len(outgoing[s]) /\ j \in Nat /\ i < j
        BY <2>3, <3>1
      <3>3. /\ outgoing[s][i][2] \in Nat /\ QueuedAt(s, i, c, outgoing[s][i][2])
            /\ outgoing[s][j][2] \in Nat /\ QueuedAt(s, j, c, outgoing[s][j][2])
        BY <2>2, <2>3, <3>2
      <3> QED BY <2>1, <3>2, <3>3 DEF OrderInv, QueuesIncrease
    <2>4. ASSUME NEW s \in SessionIds, NEW i \in 1..Len(outgoing[s]), outgoing[s][i][1] = c,
                 NEW j \in 1..Len(buffer[c])
          PROVE  outgoing[s][i][2] < buffer[c][j]
      <3>1. Len(outgoing[s]) \in Nat
        BY <2>1, MessageTypes
      <3>2. i \in Nat
        BY <2>4, <3>1
      <3> QED BY <2>1, <2>2, <2>4, <3>2 DEF OrderInv, BuffersYounger
    <2> QED BY <2>1, <2>3, <2>4 DEF OrderInv, BuffersIncrease
  <1> QED BY <1>1, InitQueueInv, StepQueueInv, InitFreshInv, StepFreshInv,
             InitOrderInv, StepOrderInv, PTL DEF Spec

-----------------------------------------------------------------------------
(* One copy *)

Places == (SessionIds \cup {invalidSessionId}) \X Nat

\* The copy of message n for client c: exactly one if c was to get it, else none.
Copied(c, n) ==
  IF c \in audience[n] THEN \E w : Whereabouts(c, n) = {w} ELSE Whereabouts(c, n) = {}

CopyInv == \A n \in 1..MaxPublish, c \in ClientIds : Copied(c, n)

\* The places of the copies before and after a step.
LEMMA WherePlaces ==
  ASSUME QueueInv, NEW c \in ClientIds, NEW n
  PROVE  /\ Whereabouts(c, n) \subseteq Places
         /\ \A x \in SessionIds, i \in Nat :
              <<x, i>> \in Whereabouts(c, n) <=> QueuedAt(x, i, c, n)
         /\ \A i \in Nat :
              <<invalidSessionId, i>> \in Whereabouts(c, n) <=>
                \/ i \in 1..Len(buffer[c]) /\ buffer[c][i] = n
                \/ i = 0 /\ <<c, n>> \in delivered
  <1> DEFINE W == Whereabouts(c, n)
             Queue(s) == Positions(outgoing[s], <<c, n>>)
             Kept == Positions(buffer[c], n)
             Waiting == UNION {{s} \X Queue(s) : s \in SessionIds}
             Done == IF <<c, n>> \in delivered THEN {<<invalidSessionId, 0>>} ELSE {}
  <1>1. invalidSessionId \notin SessionIds /\ 0 \in Nat
    BY SessionAssumption DEF SessionIds, invalidSessionId
  <1>2. /\ \A s \in SessionIds : Queue(s) \subseteq Nat
        /\ \A s \in SessionIds, i \in Nat : i \in Queue(s) <=> QueuedAt(s, i, c, n)
    BY DEF Positions, QueuedAt
  <1>3. /\ Kept \subseteq Nat
        /\ \A i \in Nat : i \in Kept <=> i \in 1..Len(buffer[c]) /\ buffer[c][i] = n
    BY DEF Positions
  <1>4. /\ W = Waiting \cup ({invalidSessionId} \X Kept) \cup Done
        /\ \A w : w \in Done <=> <<c, n>> \in delivered /\ w = <<invalidSessionId, 0>>
    <2>1. W = Waiting \cup ({invalidSessionId} \X Kept) \cup Done
      BY DEF Whereabouts
    <2>2. \A w : w \in Done <=> <<c, n>> \in delivered /\ w = <<invalidSessionId, 0>>
      OBVIOUS
    <2> QED BY <2>1, <2>2
  <1> HIDE DEF W, Queue, Kept, Done
  <1>5. \A w : w \in Waiting <=> \E s \in SessionIds : w \in {s} \X Queue(s)
    OBVIOUS
  <1> HIDE DEF Waiting
  <1>6. \A w : w \in W <=>
          \/ \E s \in SessionIds : w \in {s} \X Queue(s)
          \/ w \in {invalidSessionId} \X Kept
          \/ <<c, n>> \in delivered /\ w = <<invalidSessionId, 0>>
    BY <1>4, <1>5
  <1> HIDE DEF invalidSessionId
  <1>7. W \subseteq Places
    <2>1. \A s \in SessionIds : {s} \X Queue(s) \subseteq Places
      BY <1>2 DEF Places
    <2>2. {invalidSessionId} \X Kept \subseteq Places
      BY <1>3 DEF Places
    <2>3. <<invalidSessionId, 0>> \in Places
      BY <1>1 DEF Places
    <2> QED BY <1>6, <2>1, <2>2, <2>3
  <1>8. ASSUME NEW x \in SessionIds, NEW i \in Nat
        PROVE  <<x, i>> \in W <=> QueuedAt(x, i, c, n)
    BY <1>1, <1>2, <1>6
  <1>9. ASSUME NEW i \in Nat
        PROVE  <<invalidSessionId, i>> \in W <=>
                 \/ i \in 1..Len(buffer[c]) /\ buffer[c][i] = n
                 \/ i = 0 /\ <<c, n>> \in delivered
    BY <1>1, <1>3, <1>6
  <1> QED BY <1>7, <1>8, <1>9 DEF W

LEMMA WherePlacesNext ==
  ASSUME QueueInv', NEW c \in ClientIds, NEW n
  PROVE  /\ Whereabouts(c, n)' \subseteq Places
         /\ \A x \in SessionIds, i \in Nat :
              <<x, i>> \in Whereabouts(c, n)' <=> QueuedAt(x, i, c, n)'
         /\ \A i \in Nat :
              <<invalidSessionId, i>> \in Whereabouts(c, n)' <=>
                \/ i \in 1..Len(buffer'[c]) /\ buffer'[c][i] = n
                \/ i = 0 /\ <<c, n>> \in delivered'
  <1> DEFINE W == Whereabouts(c, n)'
             Queue(s) == Positions(outgoing'[s], <<c, n>>)
             Kept == Positions(buffer'[c], n)
             Waiting == UNION {{s} \X Queue(s) : s \in SessionIds}
             Done == IF <<c, n>> \in delivered' THEN {<<invalidSessionId, 0>>} ELSE {}
  <1>1. invalidSessionId \notin SessionIds /\ 0 \in Nat
    BY SessionAssumption DEF SessionIds, invalidSessionId
  <1>2. /\ \A s \in SessionIds : Queue(s) \subseteq Nat
        /\ \A s \in SessionIds, i \in Nat : i \in Queue(s) <=> QueuedAt(s, i, c, n)'
    BY DEF Positions, QueuedAt
  <1>3. /\ Kept \subseteq Nat
        /\ \A i \in Nat : i \in Kept <=> i \in 1..Len(buffer'[c]) /\ buffer'[c][i] = n
    BY DEF Positions
  <1>4. /\ W = Waiting \cup ({invalidSessionId} \X Kept) \cup Done
        /\ \A w : w \in Done <=> <<c, n>> \in delivered' /\ w = <<invalidSessionId, 0>>
    <2>1. W = Waiting \cup ({invalidSessionId} \X Kept) \cup Done
      BY DEF Whereabouts
    <2>2. \A w : w \in Done <=> <<c, n>> \in delivered' /\ w = <<invalidSessionId, 0>>
      OBVIOUS
    <2> QED BY <2>1, <2>2
  <1> HIDE DEF W, Queue, Kept, Done
  <1>5. \A w : w \in Waiting <=> \E s \in SessionIds : w \in {s} \X Queue(s)
    OBVIOUS
  <1> HIDE DEF Waiting
  <1>6. \A w : w \in W <=>
          \/ \E s \in SessionIds : w \in {s} \X Queue(s)
          \/ w \in {invalidSessionId} \X Kept
          \/ <<c, n>> \in delivered' /\ w = <<invalidSessionId, 0>>
    BY <1>4, <1>5
  <1> HIDE DEF invalidSessionId
  <1>7. W \subseteq Places
    <2>1. \A s \in SessionIds : {s} \X Queue(s) \subseteq Places
      BY <1>2 DEF Places
    <2>2. {invalidSessionId} \X Kept \subseteq Places
      BY <1>3 DEF Places
    <2>3. <<invalidSessionId, 0>> \in Places
      BY <1>1 DEF Places
    <2> QED BY <1>6, <2>1, <2>2, <2>3
  <1>8. ASSUME NEW x \in SessionIds, NEW i \in Nat
        PROVE  <<x, i>> \in W <=> QueuedAt(x, i, c, n)'
    BY <1>1, <1>2, <1>6
  <1>9. ASSUME NEW i \in Nat
        PROVE  <<invalidSessionId, i>> \in W <=>
                 \/ i \in 1..Len(buffer'[c]) /\ buffer'[c][i] = n
                 \/ i = 0 /\ <<c, n>> \in delivered'
    BY <1>1, <1>3, <1>6
  <1> QED BY <1>7, <1>8, <1>9 DEF W

\* A copy that does not move is still the only one.
LEMMA CopyStays ==
  ASSUME NEW c, NEW n, Copied(c, n), audience'[n] = audience[n],
         Whereabouts(c, n)' = Whereabouts(c, n)
  PROVE  Copied(c, n)'
  BY DEF Copied

\* So is one that moves, wherever it goes.
LEMMA CopyMoves ==
  ASSUME NEW c, NEW n, Copied(c, n), audience'[n] = audience[n], NEW move,
         \A u \in Whereabouts(c, n) : move[u] \in Whereabouts(c, n)',
         \A v \in Whereabouts(c, n)' : \E u \in Whereabouts(c, n) : v = move[u]
  PROVE  Copied(c, n)'
  <1> DEFINE W == Whereabouts(c, n)
             V == Whereabouts(c, n)'
  <1>1. (\A u \in W : move[u] \in V) /\ (\A v \in V : \E u \in W : v = move[u])
    OBVIOUS
  <1>2. Copied(c, n)' <=> IF c \in audience[n] THEN \E v : V = {v} ELSE V = {}
    BY DEF Copied
  <1>3. IF c \in audience[n] THEN \E w : W = {w} ELSE W = {}
    BY DEF Copied
  <1> HIDE DEF W, V
  <1>4. CASE c \in audience[n]
    <2>1. PICK w : W = {w}
      BY <1>3, <1>4
    <2>2. V = {move[w]}
      BY <1>1, <2>1
    <2> QED BY <1>2, <1>4, <2>2
  <1>5. CASE c \notin audience[n]
    BY <1>1, <1>2, <1>3, <1>5
  <1> QED BY <1>4, <1>5

\* Two sets of places that agree on every queue, buffer and socket.
LEMMA SamePlaces ==
  ASSUME NEW V, NEW W, V \subseteq Places, W \subseteq Places,
         \A x \in SessionIds, i \in Nat : <<x, i>> \in V <=> <<x, i>> \in W,
         \A i \in Nat : <<invalidSessionId, i>> \in V <=> <<invalidSessionId, i>> \in W
  PROVE  V = W
  <1>1. \A w \in Places : \E x \in SessionIds \cup {invalidSessionId}, i \in Nat : w = <<x, i>>
    BY DEF Places
  <1>2. \A x \in SessionIds \cup {invalidSessionId}, i \in Nat : <<x, i>> \in V <=> <<x, i>> \in W
    OBVIOUS
  <1>3. \A w \in Places : w \in V <=> w \in W
    BY <1>1, <1>2
  <1> QED BY <1>3

\* Texts move no copy.
LEMMA QuietCopies ==
  ASSUME QueueInv, QueueInv', CopyInv, NEW added, Quiet(added)
  PROVE  CopyInv'
  <1> SUFFICES ASSUME NEW n \in 1..MaxPublish, NEW c \in ClientIds PROVE Copied(c, n)'
    BY DEF CopyInv
  <1>1. Adds(added) /\ UNCHANGED <<buffer, audience, delivered>>
    BY DEF Quiet
  <1>2. ASSUME NEW x \in SessionIds, NEW i \in Nat
        PROVE  QueuedAt(x, i, c, n)' <=> QueuedAt(x, i, c, n)
    <2>1. ASSUME AddedAt(added, x, i - Len(outgoing[x]), c, n) PROVE FALSE
      <3>1. i - Len(outgoing[x]) \in Nat
        BY <1>1, <2>1, AddsFacts, LenProperties DEF AddedAt
      <3> QED BY <2>1, <3>1, AddedPlaces, MessageTypes
    <2> QED BY <1>1, <2>1, AddsQueued
  <1> DEFINE V == Whereabouts(c, n)'
             W == Whereabouts(c, n)
  <1>3. /\ V \subseteq Places /\ W \subseteq Places
        /\ \A x \in SessionIds, i \in Nat : <<x, i>> \in V <=> QueuedAt(x, i, c, n)'
        /\ \A x \in SessionIds, i \in Nat : <<x, i>> \in W <=> QueuedAt(x, i, c, n)
        /\ \A i \in Nat : <<invalidSessionId, i>> \in V <=>
             (i \in 1..Len(buffer'[c]) /\ buffer'[c][i] = n) \/ (i = 0 /\ <<c, n>> \in delivered')
        /\ \A i \in Nat : <<invalidSessionId, i>> \in W <=>
             (i \in 1..Len(buffer[c]) /\ buffer[c][i] = n) \/ (i = 0 /\ <<c, n>> \in delivered)
    BY WherePlaces, WherePlacesNext
  <1> HIDE DEF V, W
  <1>4. V = W
    <2>1. \A x \in SessionIds, i \in Nat : <<x, i>> \in V <=> <<x, i>> \in W
      BY <1>2, <1>3
    <2>2. \A i \in Nat : <<invalidSessionId, i>> \in V <=> <<invalidSessionId, i>> \in W
      BY <1>1, <1>3
    <2> QED BY <1>3, <2>1, <2>2, SamePlaces
  <1>5. Copied(c, n)
    BY DEF CopyInv
  <1> QED BY <1>1, <1>4, <1>5, CopyStays DEF V, W

\* A flushed buffer moves to the queue, message by message.
LEMMA FlushCopies ==
  ASSUME QueueInv, QueueInv', CopyInv,
         NEW added, NEW s \in SessionIds, NEW c \in ClientIds, Flush(added, s, c)
  PROVE  CopyInv'
  <1> SUFFICES ASSUME NEW n \in 1..MaxPublish, NEW d \in ClientIds PROVE Copied(d, n)'
    BY DEF CopyInv
  <1> DEFINE end == Len(outgoing[s])
  <1>1. /\ Adds(added) /\ UNCHANGED <<audience, delivered>>
        /\ buffer'[c] = <<>> /\ Len(buffer'[c]) = 0
        /\ \A e \in ClientIds : e # c => buffer'[e] = buffer[e]
    BY EmptySeq DEF Flush, QueueInv, ClientPartOK
  <1>2. end \in Nat /\ Len(buffer[c]) \in Nat /\ n \in Nat
    BY MessageTypes
  <1>3. Copied(d, n)
    BY DEF CopyInv
  <1> HIDE DEF end
  <1>4. ASSUME NEW x \in SessionIds, NEW i \in Nat
        PROVE  QueuedAt(x, i, d, n)' <=>
                 \/ QueuedAt(x, i, d, n)
                 \/ /\ x = s /\ d = c
                    /\ i - end - 1 \in 1..Len(buffer[c]) /\ buffer[c][i - end - 1] = n
    <2> DEFINE k == i - Len(outgoing[x])
    <2>1. QueuedAt(x, i, d, n)' <=> (QueuedAt(x, i, d, n) \/ AddedAt(added, x, k, d, n))
      BY <1>1, AddsQueued
    <2>2. Len(outgoing[x]) \in Nat
      BY MessageTypes
    <2>3. AddedAt(added, x, k, d, n) => k \in Nat
      BY <1>1, AddsFacts, LenProperties DEF AddedAt
    <2>4. k \in Nat =>
            (AddedAt(added, x, k, d, n) <=>
               x = s /\ d = c /\ k - 1 \in 1..Len(buffer[c]) /\ buffer[c][k - 1] = n)
      BY <1>2, AddedPlaces
    <2>5. k \in Int /\ (k - 1 \in 1..Len(buffer[c]) => k \in Nat)
      BY <1>2, <2>2
    <2>6. x = s => k = i - end
      BY DEF end
    <2> HIDE DEF k
    <2> QED BY <2>1, <2>3, <2>4, <2>5, <2>6
  <1> DEFINE V == Whereabouts(d, n)'
             W == Whereabouts(d, n)
  <1>5. /\ V \subseteq Places /\ W \subseteq Places
        /\ \A x \in SessionIds, i \in Nat : <<x, i>> \in V <=> QueuedAt(x, i, d, n)'
        /\ \A x \in SessionIds, i \in Nat : <<x, i>> \in W <=> QueuedAt(x, i, d, n)
        /\ \A i \in Nat : <<invalidSessionId, i>> \in V <=>
             (i \in 1..Len(buffer'[d]) /\ buffer'[d][i] = n) \/ (i = 0 /\ <<d, n>> \in delivered')
        /\ \A i \in Nat : <<invalidSessionId, i>> \in W <=>
             (i \in 1..Len(buffer[d]) /\ buffer[d][i] = n) \/ (i = 0 /\ <<d, n>> \in delivered)
    BY WherePlaces, WherePlacesNext
  <1> HIDE DEF V, W
  <1>6. CASE d # c
    <2>1. \A x \in SessionIds, i \in Nat : <<x, i>> \in V <=> <<x, i>> \in W
      BY <1>4, <1>5, <1>6
    <2>2. \A i \in Nat : <<invalidSessionId, i>> \in V <=> <<invalidSessionId, i>> \in W
      BY <1>1, <1>5, <1>6
    <2>3. V = W
      BY <1>5, <2>1, <2>2, SamePlaces
    <2> QED BY <1>1, <1>3, <2>3, CopyStays DEF V, W
  <1>7. CASE d = c
    <2> DEFINE move == [u \in Places |-> IF u[1] = invalidSessionId /\ u[2] # 0
                                         THEN <<s, end + 1 + u[2]>> ELSE u]
    <2>1. invalidSessionId \notin SessionIds /\ 0 \in Nat
      BY SessionAssumption DEF SessionIds, invalidSessionId
    <2>2. /\ \A x \in SessionIds, i \in Nat : move[<<x, i>>] = <<x, i>>
          /\ move[<<invalidSessionId, 0>>] = <<invalidSessionId, 0>>
          /\ \A i \in Nat : i # 0 => move[<<invalidSessionId, i>>] = <<s, end + 1 + i>>
      <3>1. \A x \in SessionIds, i \in Nat : <<x, i>> \in Places
        BY DEF Places
      <3>2. \A i \in Nat : <<invalidSessionId, i>> \in Places
        BY DEF Places
      <3>3. \A x \in SessionIds, i \in Nat : move[<<x, i>>] = <<x, i>>
        BY <2>1, <3>1
      <3>4. move[<<invalidSessionId, 0>>] = <<invalidSessionId, 0>>
        BY <2>1, <3>2
      <3>5. \A i \in Nat : i # 0 => move[<<invalidSessionId, i>>] = <<s, end + 1 + i>>
        BY <3>2
      <3> QED BY <3>3, <3>4, <3>5
    <2> HIDE DEF move, invalidSessionId
    <2>3. ASSUME NEW x \in SessionIds, NEW i \in Nat, <<x, i>> \in W
          PROVE  move[<<x, i>>] \in V
      <3>1. <<x, i>> \in V
        BY <1>4, <1>5, <2>3
      <3> QED BY <2>2, <3>1
    <2>4. ASSUME NEW i \in Nat, <<invalidSessionId, i>> \in W
          PROVE  move[<<invalidSessionId, i>>] \in V
      <3>1. CASE i = 0
        <4>1. <<invalidSessionId, i>> \in V
          BY <1>1, <1>5, <2>4, <3>1
        <4> QED BY <2>2, <3>1, <4>1
      <3>2. CASE i # 0
        <4>1. i \in 1..Len(buffer[c]) /\ buffer[c][i] = n
          BY <1>5, <1>7, <2>4, <3>2
        <4> DEFINE j == end + 1 + i
        <4>2. j \in Nat /\ j - end - 1 = i
          BY <1>2
        <4>3. move[<<invalidSessionId, i>>] = <<s, j>>
          BY <2>2, <3>2
        <4> HIDE DEF j
        <4>4. <<s, j>> \in V
          BY <1>4, <1>5, <1>7, <4>1, <4>2
        <4> QED BY <4>3, <4>4
      <3> QED BY <3>1, <3>2
    <2>5. ASSUME NEW x \in SessionIds, NEW i \in Nat, <<x, i>> \in V
          PROVE  \E u \in W : <<x, i>> = move[u]
      <3>1. CASE QueuedAt(x, i, d, n)
        BY <1>5, <2>2, <3>1
      <3>2. CASE ~QueuedAt(x, i, d, n)
        <4> DEFINE j == i - end - 1
        <4>1. x = s /\ j \in 1..Len(buffer[c]) /\ buffer[c][j] = n
          BY <1>4, <1>5, <2>5, <3>2
        <4>2. j \in Nat /\ j # 0 /\ end + 1 + j = i
          BY <1>2, <4>1
        <4> HIDE DEF j
        <4>3. <<invalidSessionId, j>> \in W
          BY <1>5, <1>7, <4>1, <4>2
        <4>4. move[<<invalidSessionId, j>>] = <<x, i>>
          BY <2>2, <4>1, <4>2
        <4> QED BY <4>3, <4>4
      <3> QED BY <3>1, <3>2
    <2>6. ASSUME NEW i \in Nat, <<invalidSessionId, i>> \in V
          PROVE  \E u \in W : <<invalidSessionId, i>> = move[u]
      <3>1. i = 0 /\ <<d, n>> \in delivered
        BY <1>1, <1>5, <1>7, <2>6
      <3>2. <<invalidSessionId, 0>> \in W
        BY <1>5, <3>1
      <3> QED BY <2>2, <3>1, <3>2
    <2>7. \A w \in Places : \E x \in SessionIds \cup {invalidSessionId}, i \in Nat : w = <<x, i>>
      BY DEF Places
    <2>8. \A u \in W : move[u] \in V
      BY <1>5, <2>3, <2>4, <2>7
    <2>9. ASSUME NEW v \in V PROVE \E u \in W : v = move[u]
      <3>1. PICK x \in SessionIds \cup {invalidSessionId}, i \in Nat : v = <<x, i>>
        BY <1>5, <2>7
      <3>2. CASE x \in SessionIds
        BY <2>5, <3>1, <3>2
      <3>3. CASE x = invalidSessionId
        BY <2>6, <3>1, <3>3
      <3> QED BY <3>2, <3>3
    <2> QED BY <1>1, <1>3, <2>8, <2>9, CopyMoves DEF V, W
  <1> QED BY <1>6, <1>7

\* A written entry was the copy, and the socket has it now.
LEMMA PoppedCopies ==
  ASSUME QueueInv, QueueInv', CopyInv, NEW s \in SessionIds, Popped(s)
  PROVE  CopyInv'
  <1> SUFFICES ASSUME NEW n \in 1..MaxPublish, NEW c \in ClientIds PROVE Copied(c, n)'
    BY DEF CopyInv
  <1> DEFINE V == Whereabouts(c, n)'
             W == Whereabouts(c, n)
             move == [u \in Places |->
                        IF u = <<s, 1>> THEN <<invalidSessionId, 0>>
                        ELSE IF u[1] = s THEN <<s, u[2] - 1>> ELSE u]
  <1>1. UNCHANGED <<buffer, audience>> /\ Copied(c, n)
    BY DEF Popped, CopyInv
  <1>2. invalidSessionId \notin SessionIds /\ 0 \in Nat /\ 1 \in Nat
    BY SessionAssumption DEF SessionIds, invalidSessionId
  <1>3. /\ V \subseteq Places /\ W \subseteq Places
        /\ \A x \in SessionIds, i \in Nat : <<x, i>> \in V <=> QueuedAt(x, i, c, n)'
        /\ \A x \in SessionIds, i \in Nat : <<x, i>> \in W <=> QueuedAt(x, i, c, n)
        /\ \A i \in Nat : <<invalidSessionId, i>> \in V <=>
             (i \in 1..Len(buffer'[c]) /\ buffer'[c][i] = n) \/ (i = 0 /\ <<c, n>> \in delivered')
        /\ \A i \in Nat : <<invalidSessionId, i>> \in W <=>
             (i \in 1..Len(buffer[c]) /\ buffer[c][i] = n) \/ (i = 0 /\ <<c, n>> \in delivered)
    BY WherePlaces, WherePlacesNext
  <1>4. /\ move[<<s, 1>>] = <<invalidSessionId, 0>>
        /\ \A i \in Nat : i # 1 => move[<<s, i>>] = <<s, i - 1>>
        /\ \A x \in SessionIds, i \in Nat : x # s => move[<<x, i>>] = <<x, i>>
        /\ \A i \in Nat : move[<<invalidSessionId, i>>] = <<invalidSessionId, i>>
    <2>1. \A x \in SessionIds \cup {invalidSessionId}, i \in Nat : <<x, i>> \in Places
      BY DEF Places
    <2>2. move[<<s, 1>>] = <<invalidSessionId, 0>>
      BY <1>2, <2>1
    <2>3. \A i \in Nat : i # 1 => move[<<s, i>>] = <<s, i - 1>>
      BY <2>1
    <2>4. \A x \in SessionIds, i \in Nat : x # s => move[<<x, i>>] = <<x, i>>
      BY <2>1
    <2>5. \A i \in Nat : move[<<invalidSessionId, i>>] = <<invalidSessionId, i>>
      BY <1>2, <2>1
    <2> QED BY <2>2, <2>3, <2>4, <2>5
  <1> HIDE DEF V, W, move, invalidSessionId
  <1>5. /\ \A i \in Nat : QueuedAt(s, i, c, n)' <=> (i # 0 /\ QueuedAt(s, i + 1, c, n))
        /\ \A x \in SessionIds, i \in Nat :
             x # s => (QueuedAt(x, i, c, n)' <=> QueuedAt(x, i, c, n))
        /\ <<c, n>> \in delivered' <=> (<<c, n>> \in delivered \/ QueuedAt(s, 1, c, n))
    BY PoppedQueued, FrontWritten
  <1>6. ~QueuedAt(s, 0, c, n)
    BY DEF QueuedAt
  <1>7. ASSUME NEW x \in SessionIds, NEW i \in Nat, <<x, i>> \in W
        PROVE  move[<<x, i>>] \in V
    <2>1. CASE x # s
      BY <1>3, <1>4, <1>5, <1>7, <2>1
    <2>2. CASE x = s /\ i = 1
      <3>1. <<c, n>> \in delivered'
        BY <1>3, <1>5, <1>7, <2>2
      <3>2. <<invalidSessionId, 0>> \in V
        BY <1>2, <1>3, <3>1
      <3> QED BY <1>4, <2>2, <3>2
    <2>3. CASE x = s /\ i # 1
      <3>1. QueuedAt(s, i, c, n)
        BY <1>3, <1>7, <2>3
      <3>2. i # 0
        BY <1>6, <3>1
      <3> DEFINE j == i - 1
      <3>3. j \in Nat /\ j # 0 /\ j + 1 = i
        BY <2>3, <3>2
      <3>4. move[<<x, i>>] = <<s, j>>
        BY <1>4, <2>3
      <3> HIDE DEF j
      <3>5. <<s, j>> \in V
        BY <1>3, <1>5, <3>1, <3>3
      <3> QED BY <3>4, <3>5
    <2> QED BY <2>1, <2>2, <2>3
  <1>8. ASSUME NEW i \in Nat, <<invalidSessionId, i>> \in W
        PROVE  move[<<invalidSessionId, i>>] \in V
    BY <1>1, <1>3, <1>4, <1>5, <1>8
  <1>9. ASSUME NEW x \in SessionIds, NEW i \in Nat, <<x, i>> \in V
        PROVE  \E u \in W : <<x, i>> = move[u]
    <2>1. CASE x # s
      BY <1>3, <1>4, <1>5, <1>9, <2>1
    <2>2. CASE x = s
      <3> DEFINE j == i + 1
      <3>1. i # 0 /\ QueuedAt(s, j, c, n)
        BY <1>3, <1>5, <1>9, <2>2
      <3>2. j \in Nat /\ j # 1 /\ j - 1 = i
        BY <3>1
      <3> HIDE DEF j
      <3>3. <<s, j>> \in W /\ move[<<s, j>>] = <<x, i>>
        BY <1>3, <1>4, <2>2, <3>1, <3>2
      <3> QED BY <3>3
    <2> QED BY <2>1, <2>2
  <1>10. ASSUME NEW i \in Nat, <<invalidSessionId, i>> \in V
         PROVE  \E u \in W : <<invalidSessionId, i>> = move[u]
    <2>1. CASE <<invalidSessionId, i>> \in W
      BY <1>4, <2>1
    <2>2. CASE <<invalidSessionId, i>> \notin W
      <3>1. i = 0 /\ QueuedAt(s, 1, c, n)
        BY <1>1, <1>3, <1>5, <1>10, <2>2
      <3>2. <<s, 1>> \in W
        BY <1>2, <1>3, <3>1
      <3> QED BY <1>4, <3>1, <3>2
    <2> QED BY <2>1, <2>2
  <1>11. \A w \in Places : \E x \in SessionIds \cup {invalidSessionId}, i \in Nat : w = <<x, i>>
    BY DEF Places
  <1>12. ASSUME NEW u \in W PROVE move[u] \in V
    <2>1. PICK x \in SessionIds \cup {invalidSessionId}, i \in Nat : u = <<x, i>>
      BY <1>3, <1>11
    <2> QED BY <1>7, <1>8, <2>1
  <1>13. ASSUME NEW v \in V PROVE \E u \in W : v = move[u]
    <2>1. PICK x \in SessionIds \cup {invalidSessionId}, i \in Nat : v = <<x, i>>
      BY <1>3, <1>11
    <2>2. CASE x \in SessionIds
      BY <1>9, <2>1, <2>2
    <2>3. CASE x = invalidSessionId
      BY <1>10, <2>1, <2>3
    <2> QED BY <2>2, <2>3
  <1> QED BY <1>1, <1>12, <1>13, CopyMoves DEF V, W

\* A restart leaves no copy, and nobody to have one.
LEMMA LostCopies ==
  ASSUME QueueInv', Lost
  PROVE  CopyInv'
  <1> SUFFICES ASSUME NEW n \in 1..MaxPublish, NEW c \in ClientIds PROVE Copied(c, n)'
    BY DEF CopyInv
  <1> DEFINE V == Whereabouts(c, n)'
  <1>1. /\ buffer'[c] = <<>> /\ Len(buffer'[c]) = 0 /\ delivered' = {} /\ audience'[n] = {}
        /\ \A x \in SessionIds : outgoing'[x] = <<>> /\ Len(outgoing'[x]) = 0
    BY EmptySeq DEF Lost, NoAudience
  <1>2. /\ V \subseteq Places
        /\ \A x \in SessionIds, i \in Nat : <<x, i>> \in V <=> QueuedAt(x, i, c, n)'
        /\ \A i \in Nat : <<invalidSessionId, i>> \in V <=>
             (i \in 1..Len(buffer'[c]) /\ buffer'[c][i] = n) \/ (i = 0 /\ <<c, n>> \in delivered')
    BY WherePlacesNext
  <1> HIDE DEF V
  <1>3. \A x \in SessionIds, i \in Nat : <<x, i>> \notin V
    <2>1. \A x \in SessionIds, i \in Nat : ~QueuedAt(x, i, c, n)'
      BY <1>1 DEF QueuedAt
    <2> QED BY <1>2, <2>1
  <1>4. \A i \in Nat : <<invalidSessionId, i>> \notin V
    BY <1>1, <1>2
  <1>5. \A w \in Places : \E x \in SessionIds \cup {invalidSessionId}, i \in Nat : w = <<x, i>>
    BY DEF Places
  <1>6. V = {}
    BY <1>2, <1>3, <1>4, <1>5
  <1> QED BY <1>1, <1>6 DEF Copied, V

\* A new message gets a copy for each receiver: in its buffer, or on its session.
LEMMA FannedCopies ==
  ASSUME QueueInv, QueueInv', OrderInv, CopyInv,
         NEW added, NEW receivers \in SUBSET ClientIds, Fanned(added, receivers)
  PROVE  CopyInv'
  <1> SUFFICES ASSUME NEW n \in 1..MaxPublish, NEW c \in ClientIds PROVE Copied(c, n)'
    BY DEF CopyInv
  <1> DEFINE V == Whereabouts(c, n)'
             W == Whereabouts(c, n)
             m == published + 1
  <1>1. /\ Adds(added) /\ UNCHANGED delivered /\ Copied(c, n)
        /\ audience' = [audience EXCEPT ![m] = receivers]
        /\ buffer'[c] = IF c \in receivers /\ session[c] = invalidSessionId
                        THEN Append(buffer[c], m) ELSE buffer[c]
    BY DEF Fanned, BufferTopicMessage, CopyInv
  <1>2. /\ n \in Nat /\ published \in Nat /\ m \in Nat /\ m \notin 1..published
        /\ m \in 1..MaxPublish
        /\ Len(buffer[c]) \in Nat /\ buffer[c] \in Seq(Nat)
        /\ session[c] \in SessionIds \cup {invalidSessionId}
    <2>1. m <= MaxPublish
      BY DEF Fanned
    <2> QED BY <2>1, MessageTypes DEF QueueInv, ClientPartOK
  <1>3. /\ V \subseteq Places /\ W \subseteq Places
        /\ \A x \in SessionIds, i \in Nat : <<x, i>> \in V <=> QueuedAt(x, i, c, n)'
        /\ \A x \in SessionIds, i \in Nat : <<x, i>> \in W <=> QueuedAt(x, i, c, n)
        /\ \A i \in Nat : <<invalidSessionId, i>> \in V <=>
             (i \in 1..Len(buffer'[c]) /\ buffer'[c][i] = n) \/ (i = 0 /\ <<c, n>> \in delivered')
        /\ \A i \in Nat : <<invalidSessionId, i>> \in W <=>
             (i \in 1..Len(buffer[c]) /\ buffer[c][i] = n) \/ (i = 0 /\ <<c, n>> \in delivered)
    BY WherePlaces, WherePlacesNext
  <1>4. invalidSessionId \notin SessionIds
    BY SessionAssumption DEF SessionIds, invalidSessionId
  <1>5. \A w \in Places : \E x \in SessionIds \cup {invalidSessionId}, i \in Nat : w = <<x, i>>
    BY DEF Places
  <1> HIDE DEF V, W, m, invalidSessionId
  <1>6. ASSUME NEW x \in SessionIds, NEW i \in Nat
        PROVE  /\ QueuedAt(x, i, c, n)' <=>
                    (QueuedAt(x, i, c, n) \/ AddedAt(added, x, i - Len(outgoing[x]), c, n))
               /\ AddedAt(added, x, i - Len(outgoing[x]), c, n) =>
                    c \in receivers /\ session[c] = x /\ n = m
    <2> DEFINE k == i - Len(outgoing[x])
    <2>1. AddedAt(added, x, k, c, n) => k \in Nat
      BY <1>1, AddsFacts, LenProperties DEF AddedAt
    <2>2. k \in Nat /\ AddedAt(added, x, k, c, n) => c \in receivers /\ session[c] = x /\ n = m
      BY <1>2, AddedPlaces DEF m
    <2> QED BY <1>1, <2>1, <2>2, AddsQueued
  <1>7. \A i \in Nat :
          i \in 1..Len(buffer'[c]) /\ buffer'[c][i] = n <=>
            \/ i \in 1..Len(buffer[c]) /\ buffer[c][i] = n
            \/ /\ c \in receivers /\ session[c] = invalidSessionId
               /\ i = Len(buffer[c]) + 1 /\ n = m
    <2>1. CASE c \in receivers /\ session[c] = invalidSessionId
      <3> DEFINE more == Append(buffer[c], m)
                 end == Len(buffer[c])
      <3>1. /\ buffer'[c] = more /\ Len(more) = end + 1
            /\ \A i \in 1..end : more[i] = buffer[c][i]
            /\ more[end + 1] = m
        BY <1>1, <1>2, <2>1, AppendProperties
      <3> HIDE DEF more, end
      <3>2. end \in Nat
        BY <1>2 DEF end
      <3>3. \A i \in Nat : i \in 1..end + 1 <=> i \in 1..end \/ i = end + 1
        BY <3>2
      <3>4. end + 1 \notin 1..end
        BY <3>2
      <3> QED BY <2>1, <3>1, <3>3, <3>4 DEF end
    <2>2. CASE ~(c \in receivers /\ session[c] = invalidSessionId)
      BY <1>1, <2>2
    <2> QED BY <2>1, <2>2
  <1>8. CASE n # m
    <2>1. audience'[n] = audience[n]
      BY <1>1, <1>2, <1>8 DEF QueueInv, GhostTypeOK
    <2>2. \A x \in SessionIds, i \in Nat : <<x, i>> \in V <=> <<x, i>> \in W
      BY <1>3, <1>6, <1>8
    <2>3. \A i \in Nat : <<invalidSessionId, i>> \in V <=> <<invalidSessionId, i>> \in W
      BY <1>1, <1>3, <1>7, <1>8
    <2>4. V = W
      BY <1>3, <2>2, <2>3, SamePlaces
    <2> QED BY <1>1, <2>1, <2>4, CopyStays DEF V, W
  <1>9. CASE n = m
    <2>1. audience'[n] = receivers
      BY <1>1, <1>2, <1>9 DEF QueueInv, GhostTypeOK
    <2>2. /\ \A x \in SessionIds, i \in Nat : ~QueuedAt(x, i, c, n)
          /\ \A i \in 1..Len(buffer[c]) : buffer[c][i] # n
          /\ <<c, n>> \notin delivered
      BY <1>2, <1>9 DEF OrderInv, Numbered
    <2>3. \A i \in Nat : <<invalidSessionId, i>> \in V <=>
            c \in receivers /\ session[c] = invalidSessionId /\ i = Len(buffer[c]) + 1
      BY <1>1, <1>3, <1>7, <1>9, <2>2
    <2>4. \A x \in SessionIds, i \in Nat : <<x, i>> \in V <=>
            AddedAt(added, x, i - Len(outgoing[x]), c, n)
      BY <1>3, <1>6, <2>2
    <2>5. CASE c \notin receivers
      <3>1. V = {}
        BY <1>3, <1>5, <1>6, <2>3, <2>4, <2>5
      <3> QED BY <2>1, <2>5, <3>1 DEF Copied, V
    <2>6. CASE c \in receivers /\ session[c] = invalidSessionId
      <3> DEFINE w == <<invalidSessionId, Len(buffer[c]) + 1>>
      <3>1. w \in V
        BY <1>2, <2>3, <2>6
      <3>2. ASSUME NEW v \in V PROVE v = w
        <4>1. PICK x \in SessionIds \cup {invalidSessionId}, i \in Nat : v = <<x, i>>
          BY <1>3, <1>5
        <4>2. x \notin SessionIds
          BY <1>4, <1>6, <2>4, <2>6, <3>2, <4>1
        <4> QED BY <2>3, <3>2, <4>1, <4>2
      <3>3. V = {w}
        BY <3>1, <3>2
      <3> QED BY <2>1, <2>6, <3>3 DEF Copied, V
    <2>7. CASE c \in receivers /\ session[c] # invalidSessionId
      <3> DEFINE s == session[c]
                 end == Len(outgoing[s])
      <3>1. s \in SessionIds /\ end \in Nat
        BY <1>2, <2>7, MessageTypes
      <3>2. PICK k \in 1..Len(added[s]) : added[s][k] = <<c, n>>
        BY <1>9, <2>7 DEF Fanned, m
      <3>3. k \in Nat /\ AddedAt(added, s, k, c, n)
        BY <1>1, <3>1, <3>2, AddsFacts, LenProperties DEF AddedAt
      <3>4. end + k \in Nat /\ end + k - end = k
        BY <3>1, <3>3
      <3> DEFINE w == <<s, end + k>>
      <3>5. w \in V
        BY <2>4, <3>1, <3>3, <3>4
      <3>6. ASSUME NEW v \in V PROVE v = w
        <4>1. PICK x \in SessionIds \cup {invalidSessionId}, i \in Nat : v = <<x, i>>
          BY <1>3, <1>5
        <4>2. x \in SessionIds
          BY <2>3, <2>7, <3>6, <4>1
        <4>3. AddedAt(added, x, i - Len(outgoing[x]), c, n)
          BY <2>4, <3>6, <4>1, <4>2
        <4>4. x = s
          BY <1>6, <4>2, <4>3
        <4>5. i - end \in 1..Len(added[s]) /\ added[s][i - end] = <<c, n>>
          BY <4>3, <4>4 DEF AddedAt
        <4>6. <<c, n>> # Text
          BY ClientAssumption DEF Text
        <4>7. \A j, l \in 1..Len(added[s]) :
                added[s][j] = added[s][l] /\ added[s][j] # Text => j = l
          BY <3>1 DEF Fanned
        <4>8. i - end = k
          BY <3>2, <4>5, <4>6, <4>7
        <4>9. i = end + k
          BY <3>1, <3>3, <4>8
        <4> QED BY <4>1, <4>4, <4>9
      <3>7. V = {w}
        BY <3>5, <3>6
      <3> QED BY <2>1, <2>7, <3>7 DEF Copied, V
    <2> QED BY <2>5, <2>6, <2>7
  <1> QED BY <1>8, <1>9

\* There is one copy of each message from the start on ...
LEMMA InitCopyInv == Init => CopyInv
  <1> SUFFICES ASSUME Init, NEW n \in 1..MaxPublish, NEW c \in ClientIds PROVE Copied(c, n)
    BY DEF CopyInv
  <1> DEFINE W == Whereabouts(c, n)
  <1>1. /\ buffer[c] = <<>> /\ Len(buffer[c]) = 0 /\ delivered = {} /\ audience[n] = {}
        /\ \A x \in SessionIds : outgoing[x] = <<>> /\ Len(outgoing[x]) = 0
    BY EmptySeq DEF Init, ClientInit, SessionInit, NoAudience
  <1>2. /\ W \subseteq Places
        /\ \A x \in SessionIds, i \in Nat : <<x, i>> \in W <=> QueuedAt(x, i, c, n)
        /\ \A i \in Nat : <<invalidSessionId, i>> \in W <=>
             (i \in 1..Len(buffer[c]) /\ buffer[c][i] = n) \/ (i = 0 /\ <<c, n>> \in delivered)
    BY InitQueueInv, WherePlaces
  <1> HIDE DEF W
  <1>3. \A x \in SessionIds, i \in Nat : <<x, i>> \notin W
    <2>1. \A x \in SessionIds, i \in Nat : ~QueuedAt(x, i, c, n)
      BY <1>1 DEF QueuedAt
    <2> QED BY <1>2, <2>1
  <1>4. \A i \in Nat : <<invalidSessionId, i>> \notin W
    BY <1>1, <1>2
  <1>5. \A w \in Places : \E x \in SessionIds \cup {invalidSessionId}, i \in Nat : w = <<x, i>>
    BY DEF Places
  <1>6. W = {}
    BY <1>2, <1>3, <1>4, <1>5
  <1> QED BY <1>1, <1>6 DEF Copied, W

\* ... and after every step.
LEMMA StepCopyInv == QueueInv /\ FreshInv /\ OrderInv /\ CopyInv /\ [Next]_vars => CopyInv'
  <1> SUFFICES ASSUME QueueInv, FreshInv, OrderInv, CopyInv, [Next]_vars PROVE CopyInv'
    OBVIOUS
  <1>1. MessageStep /\ QueueInv'
    BY StepKinds, StepQueueInv
  <1> QED BY <1>1, QuietCopies, FlushCopies, FannedCopies, PoppedCopies, LostCopies
          DEF MessageStep

\* Every message that was accepted has exactly one copy for every registered
\* subscriber of that moment, and none for anyone else, until the process ends:
\* under every I/O fault, whoever logs in where.
THEOREM OneCopyEach == Spec => []OneCopyPerSubscriber
  <1>1. CopyInv => OneCopyPerSubscriber
    <2>1. SUFFICES ASSUME NEW n \in 1..MaxPublish, NEW c \in ClientIds, Copied(c, n)
                   PROVE  Cardinality(Whereabouts(c, n)) = IF c \in audience[n] THEN 1 ELSE 0
      BY DEF CopyInv, OneCopyPerSubscriber
    <2>2. CASE c \in audience[n]
      <3>1. PICK w : Whereabouts(c, n) = {w}
        BY <2>1, <2>2 DEF Copied
      <3>2. Cardinality({w}) = 1
        BY FS_Singleton
      <3> QED BY <2>2, <3>1, <3>2
    <2>3. CASE c \notin audience[n]
      <3>1. Whereabouts(c, n) = {}
        BY <2>1, <2>3 DEF Copied
      <3>2. Cardinality({}) = 0
        BY FS_EmptySet
      <3> QED BY <2>3, <3>1, <3>2
    <2> QED BY <2>2, <2>3
  <1> QED BY <1>1, InitQueueInv, StepQueueInv, InitFreshInv, StepFreshInv,
             InitOrderInv, StepOrderInv, InitCopyInv, StepCopyInv, PTL DEF Spec

-----------------------------------------------------------------------------
(* The members: subscribers are registered, and a restart finds them again.  *)
(* That takes files that are what memory is, so no I/O fault where there may *)
(* be a restart.                                                             *)

MembersInv ==
  /\ \A c \in ClientIds : session[c] # invalidSessionId => clients[c] # None
  /\ \A t \in Topics : topics[t] # NoTopic => topics[t] \subseteq Registered
  /\ AllowRestart => clientsFile = clients /\ topicsFile = topics

\* Subscribing, creating and leaving do in memory what PubSub says; without a
\* fault they do so in the file.
LEMMA TopicOperationMembers ==
  ASSUME QueueInv, MembersInv, NEW c \in ClientIds, NEW t \in Topics, NEW io,
         TopicSubscribe(c, t, io) \/ TopicCreate(c, t, io) \/ TopicUnsubscribe(c, t, io)
  PROVE  /\ \/ UNCHANGED topics
            \/ topics[t] = NoTopic /\ topics' = [topics EXCEPT ![t] = {c}]
            \/ topics[t] # NoTopic /\ topics' = [topics EXCEPT ![t] = @ \cup {c}]
            \/ topics[t] # NoTopic /\ topics' = [topics EXCEPT ![t] = @ \ {c}]
         /\ AllowRestart /\ io = {} => topicsFile' = topics'
  <1>1. topics \in Tables
    BY DEF QueueInv, TopicTypeOK
  <1>2. topics # Absent /\ topics # Torn
    BY <1>1, TopicAssumption
  <1>3. ASSUME NEW new, io = {} PROVE Stored(topics, new, io) = [ok |-> TRUE, file |-> new]
    BY <1>3 DEF Stored
  <1>4. io = {} => Opens(topics, io) /\ Parses(topics, io)
    BY <1>2 DEF Opens, Parses
  <1>5. CASE TopicSubscribe(c, t, io)
    <2>1. \/ UNCHANGED topics
          \/ topics[t] # NoTopic /\ topics' = [topics EXCEPT ![t] = @ \cup {c}]
      BY <1>5 DEF TopicSubscribe, topicVars
    <2>2. ASSUME AllowRestart, io = {} PROVE topicsFile' = topics'
      <3>1. topicsFile = topics
        BY <2>2 DEF MembersInv
      <3>2. CASE topics[t] = NoTopic
        BY <1>5, <3>1, <3>2 DEF TopicSubscribe, topicVars
      <3>3. CASE topics[t] # NoTopic /\ c \notin topics[t]
        BY <1>3, <1>4, <1>5, <2>2, <3>1, <3>3 DEF TopicSubscribe, SaveTopic
      <3>4. CASE topics[t] # NoTopic /\ c \in topics[t]
        <4>1. [topics EXCEPT ![t] = @ \cup {c}] = topics
          <5>1. topics[t] \cup {c} = topics[t]
            BY <3>4
          <5> QED BY <1>1, <5>1 DEF Tables
        <4>2. SaveTopic(topics, t, c, io).file = topics
          BY <3>4 DEF SaveTopic, Failed
        <4> QED BY <1>5, <3>1, <3>4, <4>1, <4>2 DEF TopicSubscribe
      <3> QED BY <3>2, <3>3, <3>4
    <2> QED BY <2>1, <2>2
  <1>6. CASE TopicCreate(c, t, io)
    <2>1. \/ UNCHANGED topics
          \/ topics[t] = NoTopic /\ topics' = [topics EXCEPT ![t] = {c}]
      BY <1>6 DEF TopicCreate, topicVars
    <2>2. ASSUME AllowRestart, io = {} PROVE topicsFile' = topics'
      <3>1. topicsFile = topics
        BY <2>2 DEF MembersInv
      <3>2. topics[t] = NoTopic =>
              CreateTopic(topics, t, c, io) = [ok |-> TRUE, file |-> [topics EXCEPT ![t] = {c}]]
        BY <1>2, <1>3, <1>4, <2>2 DEF CreateTopic
      <3> QED BY <1>6, <3>1, <3>2 DEF TopicCreate, topicVars
    <2> QED BY <2>1, <2>2
  <1>7. CASE TopicUnsubscribe(c, t, io)
    <2>1. \/ UNCHANGED topics
          \/ topics[t] # NoTopic /\ topics' = [topics EXCEPT ![t] = @ \ {c}]
      BY <1>7 DEF TopicUnsubscribe, Subscribers, topicVars
    <2>2. ASSUME AllowRestart, io = {} PROVE topicsFile' = topics'
      <3>1. topicsFile = topics
        BY <2>2 DEF MembersInv
      <3>2. topics[t] # NoTopic /\ c \in topics[t] =>
              RemoveFromTopic(topics, t, c, io)
                = [ok |-> TRUE, file |-> [topics EXCEPT ![t] = @ \ {c}]]
        BY <1>3, <1>4, <2>2 DEF RemoveFromTopic
      <3> QED BY <1>7, <3>1, <3>2 DEF TopicUnsubscribe, Subscribers, topicVars
    <2> QED BY <2>1, <2>2
  <1> QED BY <1>5, <1>6, <1>7

\* MembersInv after a step that leaves the topics alone and forgets nobody.
LEMMA MembersAlone ==
  ASSUME MembersInv, UNCHANGED topicVars, AllowRestart => clientsFile' = clients',
         \A c \in ClientIds : clients[c] # None => clients'[c] # None,
         \A c \in ClientIds : session'[c] # invalidSessionId => clients'[c] # None
  PROVE  MembersInv'
  <1>1. Registered \subseteq Registered'
    BY DEF Registered
  <1> QED BY <1>1 DEF MembersInv, topicVars

\* REGISTER adds a client, in the file too when there is no fault.
LEMMA RegisterMembers ==
  ASSUME AllowRestart => IoFaults = {}, QueueInv, MembersInv, NEW s \in SessionIds,
         NEW n \in Names, NEW c \in ClientIds, NEW io \in SUBSET IoFaults, Register(s, n, c, io)
  PROVE  MembersInv'
  <1> DEFINE saved == SaveClient(clientsFile, c, n, io)
             grown == [clients EXCEPT ![c] = n]
  <1>1. ClientPartOK /\ clients \in Registries
    BY DEF QueueInv, ClientPartOK
  <1>2. ASSUME AllowRestart PROVE clientsFile = clients /\ saved = [ok |-> TRUE, file |-> grown]
    <2>1. io = {} /\ clientsFile = clients
      BY <1>2 DEF MembersInv
    <2>2. Parses(clients, io)
      BY <1>1, <2>1, ClientAssumption DEF Parses, Opens
    <2> QED BY <2>1, <2>2 DEF SaveClient, Stored
  <1>3. \A d \in ClientIds : grown[d] # None <=> (clients[d] # None \/ d = c)
    BY <1>1, ClientAssumption DEF Registries
  <1>4. /\ clientsFile' = saved.file /\ clients' = (IF saved.ok THEN grown ELSE clients)
        /\ UNCHANGED topicVars
    BY DEF Register, CreateClient
  <1>5. AllowRestart => clientsFile' = clients'
    BY <1>2, <1>4
  <1>6. CASE saved.ok
    <2>1. ConnectClient(n, s, grown)
      BY <1>6 DEF Register
    <2>2. \A d \in ClientIds : session'[d] # session[d] => grown[d] # None
      BY <1>1, <2>1, ConnectBindsRegistered
    <2>3. \A d \in ClientIds : session'[d] # invalidSessionId => grown[d] # None
      BY <1>3, <2>2 DEF MembersInv
    <2> QED BY <1>3, <1>4, <1>5, <1>6, <2>3, MembersAlone
  <1>7. CASE ~saved.ok
    <2>1. UNCHANGED <<clients, session>>
      BY <1>4, <1>7 DEF Register
    <2> QED BY <1>4, <1>5, <2>1, MembersAlone DEF MembersInv
  <1> QED BY <1>6, <1>7

\* A command about a topic is given by a registered client.
LEMMA TopicCommandMembers ==
  ASSUME AllowRestart => IoFaults = {}, QueueInv, MembersInv, NEW s \in SessionIds,
         NEW t \in Topics, NEW io \in SUBSET IoFaults, TopicCommand(s, t, io)
  PROVE  MembersInv'
  <1>1. PICK c \in Bound(s) :
          TopicSubscribe(c, t, io) \/ TopicCreate(c, t, io) \/ TopicUnsubscribe(c, t, io)
    BY DEF TopicCommand
  <1>2. c \in ClientIds /\ c \in Registered
    BY <1>1, SessionAssumption
       DEF Bound, MembersInv, Registered, SessionIds, invalidSessionId
  <1>3. /\ \/ UNCHANGED topics
           \/ topics[t] = NoTopic /\ topics' = [topics EXCEPT ![t] = {c}]
           \/ topics[t] # NoTopic /\ topics' = [topics EXCEPT ![t] = @ \cup {c}]
           \/ topics[t] # NoTopic /\ topics' = [topics EXCEPT ![t] = @ \ {c}]
        /\ AllowRestart /\ io = {} => topicsFile' = topics'
    BY <1>1, <1>2, TopicOperationMembers
  <1>4. UNCHANGED <<clients, clientsFile, session>> /\ Registered' = Registered
    BY DEF TopicCommand, clientVars, Registered
  <1>5. topics \in Tables
    BY DEF QueueInv, TopicTypeOK
  <1>6. \A u \in Topics : topics'[u] # NoTopic => topics'[u] \subseteq Registered
    BY <1>2, <1>3, <1>5 DEF MembersInv, Tables
  <1>7. AllowRestart => topicsFile' = topics'
    BY <1>3
  <1> QED BY <1>4, <1>6, <1>7 DEF MembersInv

\* A restart reads the files, and finds in them what memory was.
LEMMA RestartMembers ==
  ASSUME AllowRestart => IoFaults = {}, QueueInv, MembersInv,
         NEW clientIo \in SUBSET IoFaults, NEW topicIo \in SUBSET IoFaults,
         Restart(clientIo, topicIo)
  PROVE  MembersInv' /\ UNCHANGED topics
  <1>1. AllowRestart /\ clientIo = {} /\ topicIo = {}
    BY DEF Restart
  <1>2. clientsFile = clients /\ topicsFile = topics
    BY <1>1 DEF MembersInv
  <1>3. clients \in Registries /\ topics \in Tables
    BY DEF QueueInv, ClientPartOK, TopicTypeOK
  <1>4. Parses(clients, {}) /\ Parses(topics, {})
    BY <1>3, ClientAssumption, TopicAssumption DEF Parses, Opens
  <1>5. clients' = clients /\ clientsFile' = clients
    BY <1>1, <1>2, <1>4 DEF Restart, ClientLoad, Loaded, Parses
  <1>6. topics' = topics /\ topicsFile' = topics
    BY <1>1, <1>2, <1>4 DEF Restart, TopicLoad, Loaded, Parses
  <1>7. \A c \in ClientIds : session'[c] = invalidSessionId
    BY DEF Restart, ClientLoad
  <1> QED BY <1>5, <1>6, <1>7 DEF MembersInv, Registered

\* The members are right from the start on ...
LEMMA InitMembersInv == Init => MembersInv
  BY DEF Init, ClientInit, MembersInv, EmptyTable, EmptyRegistry

\* ... and after every step.
LEMMA StepMembersInv ==
  ASSUME AllowRestart => IoFaults = {}, QueueInv, MembersInv, [Next]_vars
  PROVE  MembersInv'
  <1>0. ClientPartOK
    BY DEF QueueInv
  <1>1. ASSUME UNCHANGED <<clients, clientsFile, topicVars>>,
               \A c \in ClientIds : session'[c] \in {session[c], invalidSessionId}
        PROVE  MembersInv'
    BY <1>1, MembersAlone DEF MembersInv
  <1>2. ASSUME NEW s \in SessionIds, NEW n \in Names, Login(s, n) PROVE MembersInv'
    <2>1. \A c \in ClientIds : session'[c] # session[c] => clients[c] # None
      BY <1>0, <1>2, ConnectBindsRegistered DEF Login
    <2> QED BY <1>2, <2>1, MembersAlone DEF Login, MembersInv
  <1>3. ASSUME NEW s \in SessionIds, Unlogin(s) PROVE MembersInv'
    <2>1. \A c \in ClientIds : session'[c] \in {session[c], invalidSessionId}
      BY <1>0, <1>3 DEF Unlogin, UnloginClient, ClientPartOK
    <2> QED BY <1>1, <1>3, <2>1 DEF Unlogin
  <1>4. ASSUME NEW s \in SessionIds, Refused(s) PROVE MembersInv'
    BY <1>1, <1>4 DEF Refused, clientVars
  <1>5. ASSUME NEW s \in SessionIds, NEW t \in Topics, Publish(s, t) PROVE MembersInv'
    BY <1>1, <1>5 DEF Publish
  <1>6. ASSUME NEW s \in SessionIds, Command(s) PROVE MembersInv'
    BY <1>2, <1>3, <1>4, <1>5, <1>6, RegisterMembers, TopicCommandMembers
       DEF Command, InvalidLine, Unauthorized, PublishNowhere
  <1>7. ASSUME NEW s \in SessionIds, Disconnect(s) PROVE MembersInv'
    <2>1. \A c \in ClientIds : session'[c] \in {session[c], invalidSessionId}
      BY <1>0, <1>7 DEF Disconnect, DisconnectClient, ClientPartOK
    <2> QED BY <1>1, <1>7, <2>1 DEF Disconnect
  <1>8. ASSUME NEW s \in SessionIds, Written(s) \/ Environment(s) PROVE MembersInv'
    BY <1>1, <1>8 DEF Written, Environment, clientVars
  <1>9. CASE Connection
    BY <1>1, <1>9 DEF Connection, clientVars
  <1>10. ASSUME NEW clientIo \in SUBSET IoFaults, NEW topicIo \in SUBSET IoFaults,
                Restart(clientIo, topicIo)
         PROVE  MembersInv'
    BY <1>10, RestartMembers
  <1>11. CASE UNCHANGED vars
    BY <1>1, <1>11 DEF vars, clientVars
  <1> QED BY <1>6, <1>7, <1>8, <1>9, <1>10, <1>11 DEF Next, Handler

-----------------------------------------------------------------------------
(* The broker implements PubSub *)

\* What waits for a client, told by the ghosts: the messages it was to get and has
\* not got.
Outstanding(c) == {n \in 1..published : c \in audience[n] /\ <<c, n>> \notin delivered}

WaitingIsOutstanding == \A c \in ClientIds : WaitingMessages[c] = Outstanding(c)

\* Every queue holds entries.
LEMMA QueuedEntries ==
  ASSUME QueueInv
  PROVE  Queued \subseteq Entries
  <1>1. \A x \in SessionIds : outgoing[x] \in Seq(Entries)
    BY DEF QueueInv, SessionTypeOK
  <1>2. \A x \in SessionIds : ToSet(outgoing[x]) \subseteq Entries
    BY <1>1, LenProperties, ElementOfSeq DEF ToSet
  <1> QED BY <1>2 DEF Queued

\* A message waits for a client where a queue or the buffer has its copy.
LEMMA WaitingPlaces ==
  ASSUME QueueInv, OrderInv, NEW c \in ClientIds, NEW n \in Nat
  PROVE  n \in WaitingMessages[c] <=>
           \/ \E x \in SessionIds, i \in Nat : QueuedAt(x, i, c, n)
           \/ \E i \in 1..Len(buffer[c]) : buffer[c][i] = n
  <1>1. <<c, n>> \in Queued <=> \E x \in SessionIds, i \in Nat : QueuedAt(x, i, c, n)
    <2>1. <<c, n>> \in Queued <=> \E x \in SessionIds : <<c, n>> \in ToSet(outgoing[x])
      BY DEF Queued
    <2>2. ASSUME NEW x \in SessionIds
          PROVE  <<c, n>> \in ToSet(outgoing[x]) <=> \E i \in Nat : QueuedAt(x, i, c, n)
      <3>1. DOMAIN outgoing[x] = 1..Len(outgoing[x]) /\ Len(outgoing[x]) \in Nat
        BY LenProperties DEF QueueInv, SessionTypeOK
      <3> QED BY <3>1 DEF ToSet, QueuedAt
    <2> QED BY <2>1, <2>2
  <1>2. n \in ToSet(buffer[c]) <=> \E i \in 1..Len(buffer[c]) : buffer[c][i] = n
    <2>1. DOMAIN buffer[c] = 1..Len(buffer[c])
      BY MessageTypes, LenProperties
    <2> QED BY <2>1 DEF ToSet
  <1>3. Queued \subseteq Entries
    BY QueuedEntries
  <1>4. n \in {e[2] : e \in {x \in Queued : x[1] = c}} <=> <<c, n>> \in Queued
    <2>1. \A e \in Entries : e[1] = c /\ e[2] = n => e = <<c, n>>
      BY DEF Entries, Text
    <2> QED BY <1>3, <2>1
  <1>5. n \in WaitingMessages[c] <=> <<c, n>> \in Queued \/ n \in ToSet(buffer[c])
    BY <1>4 DEF WaitingMessages
  <1> QED BY <1>1, <1>2, <1>5

\* As there is one copy, of a message for a client that was to get it, it waits
\* until it is written.
LEMMA WaitingTold == QueueInv /\ OrderInv /\ CopyInv => WaitingIsOutstanding
  <1> SUFFICES ASSUME QueueInv, OrderInv, CopyInv, NEW c \in ClientIds
               PROVE  WaitingMessages[c] = Outstanding(c)
    BY DEF WaitingIsOutstanding
  <1>1. published \in 0..MaxPublish /\ MaxPublish \in Nat
    BY BrokerAssumption DEF QueueInv, GhostTypeOK
  <1>2. WaitingMessages[c] \subseteq Nat
    <2>1. buffer[c] \in Seq(Nat)
      BY MessageTypes
    <2>2. ToSet(buffer[c]) \subseteq Nat
      BY <2>1, LenProperties, ElementOfSeq DEF ToSet
    <2>3. \A e \in Queued : e[2] \in Nat
      BY QueuedEntries DEF Entries, Text
    <2> QED BY <2>2, <2>3 DEF WaitingMessages
  <1>3. ASSUME NEW n \in Nat
        PROVE  n \in WaitingMessages[c] <=> n \in Outstanding(c)
    <2> DEFINE W == Whereabouts(c, n)
               done == <<invalidSessionId, 0>>
    <2>1. /\ W \subseteq Places
          /\ \A x \in SessionIds, i \in Nat : <<x, i>> \in W <=> QueuedAt(x, i, c, n)
          /\ \A i \in Nat : <<invalidSessionId, i>> \in W <=>
               (i \in 1..Len(buffer[c]) /\ buffer[c][i] = n) \/ (i = 0 /\ <<c, n>> \in delivered)
      BY WherePlaces
    <2>2. n \in WaitingMessages[c] <=>
            \/ \E x \in SessionIds, i \in Nat : QueuedAt(x, i, c, n)
            \/ \E i \in 1..Len(buffer[c]) : buffer[c][i] = n
      BY WaitingPlaces
    <2>3. n \in WaitingMessages[c] => n \in 1..published
      <3>1. \A x \in SessionIds, i \in Nat : QueuedAt(x, i, c, n) => n \in 1..published
        BY DEF OrderInv, Numbered
      <3>2. \A i \in 1..Len(buffer[c]) : buffer[c][i] \in 1..published
        BY DEF OrderInv, Numbered
      <3> QED BY <2>2, <3>1, <3>2
    <2>4. n \in 1..published =>
            IF c \in audience[n] THEN \E w : W = {w} ELSE W = {}
      <3>1. n \in 1..published => n \in 1..MaxPublish
        BY <1>1
      <3>2. n \in 1..MaxPublish => Copied(c, n)
        BY DEF CopyInv
      <3> QED BY <3>1, <3>2 DEF Copied
    <2>5. invalidSessionId \notin SessionIds
      BY SessionAssumption DEF SessionIds, invalidSessionId
    <2>6. \A w \in Places : \E x \in SessionIds \cup {invalidSessionId}, i \in Nat : w = <<x, i>>
      BY DEF Places
    <2> HIDE DEF W, invalidSessionId
    <2>7. n \in WaitingMessages[c] <=> \E w \in W : w # done
      <3>1. ASSUME NEW x \in SessionIds, NEW i \in Nat, QueuedAt(x, i, c, n)
            PROVE  \E w \in W : w # done
        BY <2>1, <2>5, <3>1
      <3>2. ASSUME NEW i \in 1..Len(buffer[c]), buffer[c][i] = n
            PROVE  \E w \in W : w # done
        <4>1. i \in Nat /\ i # 0
          OBVIOUS
        <4>2. <<invalidSessionId, i>> \in W
          BY <2>1, <3>2, <4>1
        <4> QED BY <4>1, <4>2
      <3>3. ASSUME NEW w \in W, w # done
            PROVE  \/ \E x \in SessionIds, i \in Nat : QueuedAt(x, i, c, n)
                   \/ \E i \in 1..Len(buffer[c]) : buffer[c][i] = n
        <4>1. PICK x \in SessionIds \cup {invalidSessionId}, i \in Nat : w = <<x, i>>
          BY <2>1, <2>6
        <4>2. CASE x \in SessionIds
          BY <2>1, <4>1, <4>2
        <4>3. CASE x = invalidSessionId
          BY <2>1, <3>3, <4>1, <4>3
        <4> QED BY <4>2, <4>3
      <3> QED BY <2>2, <3>1, <3>2, <3>3
    <2>8. done \in W <=> <<c, n>> \in delivered
      BY <2>1
    <2> HIDE DEF done
    <2>9. CASE n \in 1..published /\ c \in audience[n]
      <3>1. PICK w : W = {w}
        BY <2>4, <2>9
      <3>2. (\E u \in W : u # done) <=> done \notin W
        BY <3>1
      <3> QED BY <2>7, <2>8, <2>9, <3>2 DEF Outstanding
    <2>10. CASE n \in 1..published /\ c \notin audience[n]
      BY <2>4, <2>7, <2>10 DEF Outstanding
    <2>11. CASE n \notin 1..published
      BY <2>3, <2>11 DEF Outstanding
    <2> QED BY <2>9, <2>10, <2>11
  <1>4. Outstanding(c) \subseteq Nat
    BY <1>1 DEF Outstanding
  <1> QED BY <1>2, <1>3, <1>4

\* The same after a step.
LEMMA WaitingToldNext == (QueueInv /\ OrderInv /\ CopyInv => WaitingIsOutstanding)'
  BY WaitingTold, PTL

\* What waits is told by the ghosts: it stays when they do ...
LEMMA GhostsKeepWaiting ==
  ASSUME WaitingIsOutstanding, WaitingIsOutstanding', UNCHANGED ghostVars
  PROVE  WaitingMessages' = WaitingMessages
  <1>1. \A c \in ClientIds : Outstanding(c)' = Outstanding(c)
    BY DEF Outstanding, ghostVars
  <1>2. \A c \in ClientIds : WaitingMessages'[c] = WaitingMessages[c]
    BY <1>1 DEF WaitingIsOutstanding
  <1> QED BY <1>2 DEF WaitingMessages

\* ... grows by the message that is fanned out ...
LEMMA FannedWaits ==
  ASSUME QueueInv, OrderInv, WaitingIsOutstanding, WaitingIsOutstanding',
         NEW added, NEW receivers, Fanned(added, receivers)
  PROVE  WaitingMessages' = [c \in ClientIds |->
           WaitingMessages[c] \cup IF c \in receivers THEN {published + 1} ELSE {}]
  <1> DEFINE n == published + 1
  <1>1. /\ published \in Nat /\ MaxPublish \in Nat /\ n \in 1..MaxPublish
        /\ published' = n /\ delivered' = delivered
        /\ audience \in [1..MaxPublish -> SUBSET ClientIds]
        /\ audience' = [audience EXCEPT ![n] = receivers]
    <2>1. n <= MaxPublish
      BY DEF Fanned
    <2> QED BY <2>1, MessageTypes DEF Fanned, QueueInv, GhostTypeOK
  <1>2. ASSUME NEW c \in ClientIds
        PROVE  Outstanding(c)' = Outstanding(c) \cup IF c \in receivers THEN {n} ELSE {}
    <2>1. <<c, n>> \notin delivered
      <3>1. n \in Nat /\ n \notin 1..published
        BY <1>1
      <3> QED BY <3>1 DEF OrderInv, Numbered
    <2>2. Outstanding(c)' = {m \in 1..n : c \in audience'[m] /\ <<c, m>> \notin delivered}
      BY <1>1 DEF Outstanding
    <2>3. \A m : m \in 1..n <=> m \in 1..published \/ m = n
      BY <1>1
    <2>4. audience'[n] = receivers /\ \A m \in 1..published : audience'[m] = audience[m]
      <3>1. \A m \in 1..published : m \in 1..MaxPublish /\ m # n
        BY <1>1
      <3> QED BY <1>1, <3>1
    <2> HIDE DEF n
    <2> QED BY <2>1, <2>2, <2>3, <2>4 DEF Outstanding
  <1>3. \A c \in ClientIds :
          WaitingMessages'[c] = WaitingMessages[c] \cup IF c \in receivers THEN {n} ELSE {}
    BY <1>2 DEF WaitingIsOutstanding
  <1> HIDE DEF n
  <1>4. WaitingMessages' = [c \in ClientIds |-> WaitingMessages'[c]]
    BY DEF WaitingMessages
  <1>5. WaitingMessages' = [c \in ClientIds |->
          WaitingMessages[c] \cup IF c \in receivers THEN {n} ELSE {}]
    BY <1>3, <1>4
  <1> QED BY <1>5 DEF n

\* ... loses the message that is written, if it is one ...
LEMMA PoppedWaits ==
  ASSUME QueueInv, OrderInv, WaitingIsOutstanding, WaitingIsOutstanding',
         NEW s \in SessionIds, Popped(s)
  PROVE  \/ UNCHANGED <<WaitingMessages, delivered>>
         \/ \E c \in ClientIds : \E n \in WaitingMessages[c] :
              /\ WaitingMessages' = [WaitingMessages EXCEPT ![c] = @ \ {n}]
              /\ delivered' = delivered \cup {<<c, n>>}
  <1>1. UNCHANGED <<published, audience>>
    BY DEF Popped
  <1>2. outgoing[s] \in Seq(Entries) /\ outgoing[s] # <<>>
    BY DEF QueueInv, SessionTypeOK, Popped
  <1>3. Head(outgoing[s]) \in Entries
    BY <1>2, HeadTailProperties
  <1>4. CASE Head(outgoing[s]) = Text
    <2>1. UNCHANGED delivered
      BY <1>4 DEF Popped
    <2> QED BY <1>1, <2>1, GhostsKeepWaiting DEF ghostVars
  <1>5. CASE Head(outgoing[s]) # Text
    <2>1. PICK c \in ClientIds, n \in Nat : Head(outgoing[s]) = <<c, n>>
      BY <1>3, <1>5 DEF Entries
    <2>2. QueuedAt(s, 1, c, n)
      <3>1. Head(outgoing[s]) = outgoing[s][1] /\ 1 \in 1..Len(outgoing[s])
        BY <1>2, HeadTailProperties, EmptySeq, LenProperties
      <3> QED BY <2>1, <3>1 DEF QueuedAt
    <2>3. n \in WaitingMessages[c]
      BY <2>2, WaitingPlaces
    <2>4. delivered' = delivered \cup {<<c, n>>}
      BY <1>5, <2>1 DEF Popped
    <2>5. \A d \in ClientIds :
            Outstanding(d)' = IF d = c THEN Outstanding(d) \ {n} ELSE Outstanding(d)
      <3>1. \A d \in ClientIds : \A m : <<d, m>> \in delivered' <=>
              <<d, m>> \in delivered \/ (d = c /\ m = n)
        BY <2>4
      <3>2. \A d \in ClientIds : Outstanding(d)' =
              {m \in 1..published : d \in audience[m] /\ <<d, m>> \notin delivered'}
        BY <1>1 DEF Outstanding
      <3> QED BY <3>1, <3>2 DEF Outstanding
    <2>6. \A d \in ClientIds : WaitingMessages'[d] =
            IF d = c THEN WaitingMessages[d] \ {n} ELSE WaitingMessages[d]
      BY <2>5 DEF WaitingIsOutstanding
    <2>7. /\ WaitingMessages' = [d \in ClientIds |-> WaitingMessages'[d]]
          /\ WaitingMessages = [d \in ClientIds |-> WaitingMessages[d]]
      BY DEF WaitingMessages
    <2>8. WaitingMessages' = [WaitingMessages EXCEPT ![c] = @ \ {n}]
      BY <2>6, <2>7
    <2> QED BY <2>3, <2>4, <2>8
  <1> QED BY <1>4, <1>5

\* ... and is lost in a crash.
LEMMA LostWaits ==
  ASSUME WaitingIsOutstanding', Lost
  PROVE  WaitingMessages' = [c \in ClientIds |-> {}]
  <1>1. published' = 0
    BY DEF Lost
  <1>2. \A c \in ClientIds : Outstanding(c)' = {}
    BY <1>1 DEF Outstanding
  <1>3. \A c \in ClientIds : WaitingMessages'[c] = {}
    BY <1>2 DEF WaitingIsOutstanding
  <1>4. WaitingMessages' = [c \in ClientIds |-> WaitingMessages'[c]]
    BY DEF WaitingMessages
  <1> QED BY <1>3, <1>4

\* A command that publishes nothing leaves what waits, and what is delivered.
LEMMA CommandWaits ==
  ASSUME QueueInv, FreshInv, WaitingIsOutstanding, WaitingIsOutstanding',
         NEW s \in SessionIds,
         \/ Refused(s) /\ reading[s] = "ready"
         \/ \E n \in Names : Login(s, n)
         \/ \E n \in Names, c \in ClientIds, io \in SUBSET IoFaults : Register(s, n, c, io)
         \/ \E t \in Topics, io \in SUBSET IoFaults : TopicCommand(s, t, io)
         \/ Unlogin(s)
  PROVE  UNCHANGED <<published, WaitingMessages, delivered>>
  <1>1. UNCHANGED ghostVars
    BY DEF Refused, Login, Register, TopicCommand, Unlogin, ghostVars
  <1> QED BY <1>1, GhostsKeepWaiting DEF ghostVars

\* PUBLISH is what PubSub calls Publish: its receivers are the members, who are
\* all registered.
LEMMA PublishAbstract ==
  ASSUME QueueInv, FreshInv, OrderInv, MembersInv,
         WaitingIsOutstanding, WaitingIsOutstanding',
         NEW s \in SessionIds, NEW t \in Topics, Publish(s, t)
  PROVE  Abstract!Publish(t)
  <1>1. /\ topics[t] # NoTopic /\ UNCHANGED topics
        /\ published' = published + 1 /\ UNCHANGED delivered
    BY DEF Publish, topicVars
  <1>2. Subscribers(t) \cap Registered = topics[t]
    BY <1>1 DEF MembersInv, Subscribers
  <1>3. PICK added : Fanned(added, topics[t])
    BY <1>2, PublishFanned
  <1>4. WaitingMessages' = [c \in ClientIds |->
          WaitingMessages[c] \cup IF c \in topics[t] THEN {published + 1} ELSE {}]
    BY <1>3, FannedWaits
  <1> QED BY <1>1, <1>4 DEF Abstract!Publish

\* SUBSCRIBE, CREATE and UNSUBSCRIBE join, create and leave, or do nothing.
LEMMA TopicCommandAbstract ==
  ASSUME QueueInv, FreshInv, MembersInv, WaitingIsOutstanding, WaitingIsOutstanding',
         NEW s \in SessionIds, NEW t \in Topics, NEW io \in SUBSET IoFaults,
         TopicCommand(s, t, io)
  PROVE  [Abstract!Next]_(Abstract!vars)
  <1>1. UNCHANGED <<published, WaitingMessages, delivered>>
    BY CommandWaits
  <1>2. PICK c \in ClientIds :
          TopicSubscribe(c, t, io) \/ TopicCreate(c, t, io) \/ TopicUnsubscribe(c, t, io)
    BY DEF TopicCommand, Bound
  <1>3. \/ UNCHANGED topics
        \/ topics[t] = NoTopic /\ topics' = [topics EXCEPT ![t] = {c}]
        \/ topics[t] # NoTopic /\ topics' = [topics EXCEPT ![t] = @ \cup {c}]
        \/ topics[t] # NoTopic /\ topics' = [topics EXCEPT ![t] = @ \ {c}]
    BY <1>2, TopicOperationMembers
  <1>4. \/ UNCHANGED topics
        \/ Abstract!Create(c, t) \/ Abstract!Join(c, t) \/ Abstract!Leave(c, t)
    BY <1>1, <1>3 DEF Abstract!Create, Abstract!Join, Abstract!Leave
  <1>5. UNCHANGED topics => UNCHANGED Abstract!vars
    BY <1>1 DEF Abstract!vars
  <1> QED BY <1>4, <1>5 DEF Abstract!Next

\* The other commands are stutters.
LEMMA CommandAbstract ==
  ASSUME QueueInv, FreshInv, OrderInv, MembersInv,
         WaitingIsOutstanding, WaitingIsOutstanding', NEW s \in SessionIds, Command(s)
  PROVE  [Abstract!Next]_(Abstract!vars)
  <1>1. ASSUME NEW t \in Topics, Publish(s, t) PROVE Abstract!Next
    BY <1>1, PublishAbstract DEF Abstract!Next
  <1>2. ASSUME NEW t \in Topics, NEW io \in SUBSET IoFaults, TopicCommand(s, t, io)
        PROVE  [Abstract!Next]_(Abstract!vars)
    BY <1>2, TopicCommandAbstract
  <1>3. ASSUME \/ Refused(s) /\ reading[s] = "ready"
               \/ \E n \in Names : Login(s, n)
               \/ \E n \in Names, c \in ClientIds, io \in SUBSET IoFaults : Register(s, n, c, io)
               \/ Unlogin(s)
        PROVE  UNCHANGED Abstract!vars
    <2>1. UNCHANGED topics
      BY <1>3 DEF Refused, Login, Register, Unlogin, topicVars
    <2>2. UNCHANGED <<published, WaitingMessages, delivered>>
      BY <1>3, CommandWaits
    <2> QED BY <2>1, <2>2 DEF Abstract!vars
  <1> QED BY <1>1, <1>2, <1>3 DEF Command, InvalidLine, Unauthorized, PublishNowhere

\* A write handler delivers; a restart is a crash; the rest are stutters.
LEMMA HandlersAbstract ==
  ASSUME AllowRestart => IoFaults = {}, QueueInv, OrderInv, MembersInv,
         WaitingIsOutstanding, WaitingIsOutstanding',
         \/ Connection
         \/ \E s \in SessionIds : Disconnect(s) \/ Written(s) \/ Environment(s)
         \/ \E clientIo, topicIo \in SUBSET IoFaults : Restart(clientIo, topicIo)
         \/ UNCHANGED vars
  PROVE  [Abstract!Next]_(Abstract!vars)
  <1>1. ASSUME UNCHANGED topics, UNCHANGED ghostVars PROVE UNCHANGED Abstract!vars
    BY <1>1, GhostsKeepWaiting DEF Abstract!vars, ghostVars
  <1>2. CASE Connection \/ UNCHANGED vars
    BY <1>1, <1>2 DEF Connection, vars, topicVars
  <1>3. ASSUME NEW s \in SessionIds, Disconnect(s) \/ Environment(s)
        PROVE  UNCHANGED Abstract!vars
    BY <1>1, <1>3 DEF Disconnect, Environment, topicVars
  <1>4. ASSUME NEW s \in SessionIds, Written(s) PROVE [Abstract!Next]_(Abstract!vars)
    <2>1. Popped(s) /\ UNCHANGED <<topics, published>>
      BY <1>4, WrittenPops DEF Written, topicVars
    <2>2. CASE UNCHANGED <<WaitingMessages, delivered>>
      BY <2>1, <2>2 DEF Abstract!vars
    <2>3. ASSUME NEW c \in ClientIds, NEW n \in WaitingMessages[c],
                 WaitingMessages' = [WaitingMessages EXCEPT ![c] = @ \ {n}],
                 delivered' = delivered \cup {<<c, n>>}
          PROVE  Abstract!Next
      <3>1. Abstract!Deliver(c, n)
        BY <2>1, <2>3 DEF Abstract!Deliver
      <3> QED BY <3>1 DEF Abstract!Next
    <2> QED BY <2>1, <2>2, <2>3, PoppedWaits
  <1>5. ASSUME NEW clientIo \in SUBSET IoFaults, NEW topicIo \in SUBSET IoFaults,
               Restart(clientIo, topicIo)
        PROVE  Abstract!Next
    <2>1. UNCHANGED topics
      BY <1>5, RestartMembers
    <2>2. Lost
      BY <1>5, RestartLoses
    <2>3. Abstract!Crash
      BY <2>1, <2>2, LostWaits DEF Abstract!Crash, Lost
    <2> QED BY <2>3 DEF Abstract!Next
  <1> QED BY <1>2, <1>3, <1>4, <1>5

\* Every step of the broker is a step of PubSub or a stutter.
LEMMA StepAbstract ==
  ASSUME AllowRestart => IoFaults = {}, QueueInv, FreshInv, OrderInv, MembersInv,
         WaitingIsOutstanding, WaitingIsOutstanding', [Next]_vars
  PROVE  [Abstract!Next]_(Abstract!vars)
  BY CommandAbstract, HandlersAbstract DEF Next, Handler

\* The broker starts as PubSub may.
LEMMA InitAbstract == Init => Abstract!Init
  <1> SUFFICES ASSUME Init PROVE Abstract!Init
    OBVIOUS
  <1>1. topics \in [Topics -> (SUBSET ClientIds) \cup {NoTopic}]
    BY DEF Init, EmptyTable
  <1>2. WaitingIsOutstanding
    BY InitQueueInv, InitOrderInv, InitCopyInv, WaitingTold
  <1>3. published = 0 /\ delivered = {}
    BY DEF Init
  <1>4. WaitingMessages = [c \in ClientIds |-> {}]
    <2>1. \A c \in ClientIds : Outstanding(c) = {}
      BY <1>3 DEF Outstanding
    <2>2. \A c \in ClientIds : WaitingMessages[c] = {}
      BY <1>2, <2>1 DEF WaitingIsOutstanding
    <2>3. WaitingMessages = [c \in ClientIds |-> WaitingMessages[c]]
      BY DEF WaitingMessages
    <2> QED BY <2>2, <2>3
  <1> QED BY <1>1, <1>3, <1>4 DEF Abstract!Init

\* The broker implements PubSub, whatever the sessions and their peers do, when
\* a restart finds files that no fault has spoilt: each message goes to the
\* members of its moment, each gets it once, and a crash costs no membership.
THEOREM BrokerImplementsPubSub ==
  ASSUME AllowRestart => IoFaults = {}
  PROVE  Spec => ImplementsPubSub
  <1> DEFINE Inv == QueueInv /\ FreshInv /\ OrderInv /\ CopyInv /\ MembersInv
  <1>1. Init => Inv
    BY InitQueueInv, InitFreshInv, InitOrderInv, InitCopyInv, InitMembersInv
  <1>2. Inv /\ [Next]_vars => Inv'
    BY StepQueueInv, StepFreshInv, StepOrderInv, StepCopyInv, StepMembersInv
  <1>3. Inv /\ Inv' /\ [Next]_vars => [Abstract!Next]_(Abstract!vars)
    BY WaitingTold, WaitingToldNext, StepAbstract
  <1> HIDE DEF Inv
  <1> QED BY <1>1, <1>2, <1>3, InitAbstract, PTL DEF Spec, ImplementsPubSub, Abstract!Spec
=============================================================================
