-------------------------- MODULE ConversationProofs --------------------------
(***************************************************************************)
(* Proofs of the invariants of Conversation, for any number of lines typed *)
(* and of messages from other clients.  TypeOK and TextsShownInOrder hold  *)
(* whatever the user does; LinesHandledInOrder holds for a user who waits  *)
(* for the answer to a line before typing the next one, because the        *)
(* session drops what follows a line in its streambuf.                     *)
(*                                                                         *)
(* The argument counts bytes.  What is in a buffer and in the stream that  *)
(* leads to it is a run of whole lines cut at its end only (LinesFrom),    *)
(* and its length is fixed by what was sent and what was taken out.        *)
(***************************************************************************)
EXTENDS Conversation, SequenceTheorems, FiniteSetTheorems, WellFoundedInduction, TLAPS

USE ConversationAssumption

-----------------------------------------------------------------------------
(* The first line of a buffer *)

\* A set of numbers that is not empty has a least one.
LEMMA LeastNumber ==
  ASSUME NEW S, S \subseteq Nat, S # {}
  PROVE  Min(S) \in S /\ \A i \in S : Min(S) <= i
  <1> DEFINE less == OpToRel(<, Nat)
  <1>1. \A i, j \in Nat : i < j => <<i, j>> \in less
    BY DEF OpToRel
  <1>2. IsWellFoundedOn(less, Nat)
    BY NatLessThanWellFounded
  <1> HIDE DEF less
  <1>3. \E i \in S : \A j \in S : ~(<<j, i>> \in less)
    BY <1>2, WFMin, Zenon
  <1>4. PICK i \in S : \A j \in S : ~(<<j, i>> \in less)
    BY <1>3
  <1>5. ASSUME NEW j \in S PROVE i <= j
    <2>1. i \in Nat /\ j \in Nat
      OBVIOUS
    <2>2. ~(j < i)
      BY <1>1, <1>4, <2>1, Zenon
    <2> QED BY <2>1, <2>2
  <1> QED BY <1>4, <1>5 DEF Min

\* What EndOfLine returns: the place of the first line feed, or 0.
LEMMA EndOfLineFacts ==
  ASSUME NEW bytes \in Seq(Byte)
  PROVE  /\ EndOfLine(bytes) \in 0..Len(bytes)
         /\ HasLine(bytes) => bytes[EndOfLine(bytes)][2] = "end"
         /\ \A i \in 1..Len(bytes) :
              bytes[i][2] = "end" => HasLine(bytes) /\ EndOfLine(bytes) <= i
  <1> DEFINE ends == {i \in 1..Len(bytes) : bytes[i][2] = "end"}
  <1>1. EndOfLine(bytes) = IF ends # {} THEN Min(ends) ELSE 0
    BY DEF EndOfLine, SelectInSeq
  <1>2. ends \subseteq Nat /\ Len(bytes) \in Nat
    BY LenProperties
  <1>3. ends # {} => Min(ends) \in ends /\ \A i \in ends : Min(ends) <= i
    <2> HIDE DEF ends
    <2> QED BY <1>2, LeastNumber
  <1>4. \A i : i \in ends <=> i \in 1..Len(bytes) /\ bytes[i][2] = "end"
    OBVIOUS
  <1> HIDE DEF ends
  <1>5. CASE ends = {}
    BY <1>1, <1>2, <1>4, <1>5 DEF HasLine
  <1>6. CASE ends # {}
    BY <1>1, <1>2, <1>3, <1>4, <1>6 DEF HasLine
  <1> QED BY <1>5, <1>6

-----------------------------------------------------------------------------
(* Streams of lines *)

\* A part of the stream of lines m, m + 1, ... that starts with line m.
LinesFrom(bytes, m) ==
  \A k \in 0..Len(bytes) :
    /\ 2 * k + 1 <= Len(bytes) => bytes[2 * k + 1] = <<m + k, "body">>
    /\ 2 * k + 2 <= Len(bytes) => bytes[2 * k + 2] = <<m + k, "end">>

\* A line is two bytes.
LEMMA LineBytes ==
  ASSUME NEW n \in Nat
  PROVE  /\ Bytes(n) \in Seq(Byte) /\ Len(Bytes(n)) = 2
         /\ Bytes(n)[1] = <<n, "body">> /\ Bytes(n)[2] = <<n, "end">>
  BY DEF Bytes, Byte

\* The first line of such a part, and what is left without it.
LEMMA FirstLineTaken ==
  ASSUME NEW bytes \in Seq(Byte), NEW m \in Nat, LinesFrom(bytes, m), HasLine(bytes)
  PROVE  /\ Len(bytes) >= 2
         /\ FirstLine(bytes) = Bytes(m)
         /\ AfterLine(bytes) \in Seq(Byte)
         /\ Len(AfterLine(bytes)) = Len(bytes) - 2
         /\ \A i \in 1..Len(bytes) - 2 : AfterLine(bytes)[i] = bytes[i + 2]
  <1> DEFINE n == Len(bytes)
  <1>1. n \in Nat /\ \A i \in 1..n : bytes[i] \in Byte
    BY LenProperties, ElementOfSeq
  <1>2. EndOfLine(bytes) \in 1..n
    BY <1>1, EndOfLineFacts DEF HasLine
  <1>3. bytes[1] = <<m, "body">>
    BY <1>1, <1>2 DEF LinesFrom
  <1>4. EndOfLine(bytes) # 1
    BY <1>3, EndOfLineFacts
  <1>5. n >= 2 /\ bytes[2] = <<m, "end">>
    BY <1>1, <1>2, <1>4 DEF LinesFrom
  <1>6. EndOfLine(bytes) = 2
    BY <1>1, <1>2, <1>4, <1>5, EndOfLineFacts
  <1>7. FirstLine(bytes) = Bytes(m)
    <2>1. /\ SubSeq(bytes, 1, 2) \in Seq(Byte) /\ Len(SubSeq(bytes, 1, 2)) = 2
          /\ SubSeq(bytes, 1, 2)[1] = bytes[1] /\ SubSeq(bytes, 1, 2)[2] = bytes[2]
      <3>1. \A i \in 1..2 : bytes[i] \in Byte
        BY <1>1, <1>5
      <3>2. /\ SubSeq(bytes, 1, 2) \in Seq(Byte)
            /\ Len(SubSeq(bytes, 1, 2)) = IF 1 <= 2 THEN 2 - 1 + 1 ELSE 0
            /\ \A i \in 1..2 - 1 + 1 : SubSeq(bytes, 1, 2)[i] = bytes[1 + i - 1]
        BY <3>1, SubSeqProperties
      <3> QED BY <3>2
    <2>2. SubSeq(bytes, 1, 2) = Bytes(m)
      <3>1. \A i \in 1..2 : SubSeq(bytes, 1, 2)[i] = Bytes(m)[i]
        <4>1. Bytes(m)[1] = <<m, "body">> /\ Bytes(m)[2] = <<m, "end">>
          BY LineBytes
        <4>2. /\ SubSeq(bytes, 1, 2)[1] = Bytes(m)[1]
              /\ SubSeq(bytes, 1, 2)[2] = Bytes(m)[2]
          BY <1>3, <1>5, <2>1, <4>1
        <4> QED BY <4>2
      <3>2. Bytes(m) \in Seq(Byte) /\ Len(Bytes(m)) = 2
        BY LineBytes
      <3> QED BY <2>1, <3>1, <3>2, SeqEqual
    <2> QED BY <1>6, <2>2 DEF FirstLine
  <1>8. /\ SubSeq(bytes, 3, n) \in Seq(Byte)
        /\ Len(SubSeq(bytes, 3, n)) = n - 2
        /\ \A i \in 1..n - 2 : SubSeq(bytes, 3, n)[i] = bytes[i + 2]
    <2>1. /\ SubSeq(bytes, 3, n) \in Seq(Byte)
          /\ Len(SubSeq(bytes, 3, n)) = IF 3 <= n THEN n - 3 + 1 ELSE 0
          /\ \A i \in 1..n - 3 + 1 : SubSeq(bytes, 3, n)[i] = bytes[3 + i - 1]
      <3>1. \A i \in 3..n : bytes[i] \in Byte
        BY <1>1
      <3> HIDE DEF n
      <3> QED BY <1>1, <3>1, SubSeqProperties
    <2>2. n - 3 + 1 = n - 2 /\ (3 <= n \/ n = 2)
      <3>1. n \in Nat /\ n >= 2
        BY <1>1, <1>5
      <3> HIDE DEF n
      <3> QED BY <3>1
    <2>3. Len(SubSeq(bytes, 3, n)) = n - 2
      BY <1>1, <2>1, <2>2
    <2>4. ASSUME NEW i \in 1..n - 2 PROVE SubSeq(bytes, 3, n)[i] = bytes[i + 2]
      <3>1. i \in 1..n - 3 + 1 /\ 3 + i - 1 = i + 2
        BY <1>1
      <3> HIDE DEF n
      <3> QED BY <2>1, <3>1
    <2> QED BY <2>1, <2>3, <2>4
  <1>9. AfterLine(bytes) = SubSeq(bytes, 3, n)
    BY <1>6 DEF AfterLine
  <1> QED BY <1>5, <1>7, <1>8, <1>9

\* Concatenations of bytes associate.
LEMMA BytesAssociate ==
  ASSUME NEW a \in Seq(Byte), NEW b \in Seq(Byte), NEW c \in Seq(Byte)
  PROVE  (a \o b) \o c = a \o (b \o c)
  <1> DEFINE left == (a \o b) \o c
             right == a \o (b \o c)
  <1>1. Len(a) \in Nat /\ Len(b) \in Nat /\ Len(c) \in Nat
    BY LenProperties
  <1>2. /\ a \o b \in Seq(Byte) /\ Len(a \o b) = Len(a) + Len(b)
        /\ \A i \in 1..Len(a) + Len(b) :
             (a \o b)[i] = IF i <= Len(a) THEN a[i] ELSE b[i - Len(a)]
    BY ConcatProperties
  <1>3. /\ b \o c \in Seq(Byte) /\ Len(b \o c) = Len(b) + Len(c)
        /\ \A i \in 1..Len(b) + Len(c) :
             (b \o c)[i] = IF i <= Len(b) THEN b[i] ELSE c[i - Len(b)]
    BY ConcatProperties
  <1>4. /\ left \in Seq(Byte) /\ Len(left) = Len(a \o b) + Len(c)
        /\ \A i \in 1..Len(a \o b) + Len(c) :
             left[i] = IF i <= Len(a \o b) THEN (a \o b)[i] ELSE c[i - Len(a \o b)]
    BY <1>2, ConcatProperties
  <1>5. /\ right \in Seq(Byte) /\ Len(right) = Len(a) + Len(b \o c)
        /\ \A i \in 1..Len(a) + Len(b \o c) :
             right[i] = IF i <= Len(a) THEN a[i] ELSE (b \o c)[i - Len(a)]
    BY <1>3, ConcatProperties
  <1> HIDE DEF left, right
  <1>6. Len(left) = Len(right)
    BY <1>1, <1>2, <1>3, <1>4, <1>5
  <1>7. ASSUME NEW i \in 1..Len(left) PROVE left[i] = right[i]
    <2>1. i \in 1..Len(a) + Len(b) + Len(c)
      BY <1>1, <1>2, <1>4
    <2>2. CASE i <= Len(a)
      <3>1. left[i] = a[i]
        BY <1>1, <1>2, <1>4, <2>1, <2>2
      <3>2. right[i] = a[i]
        BY <1>1, <1>3, <1>5, <2>1, <2>2
      <3> QED BY <3>1, <3>2
    <2>3. CASE Len(a) < i /\ i <= Len(a) + Len(b)
      <3>1. left[i] = b[i - Len(a)]
        BY <1>1, <1>2, <1>4, <2>1, <2>3
      <3>2. right[i] = (b \o c)[i - Len(a)] /\ i - Len(a) \in 1..Len(b)
        BY <1>1, <1>3, <1>5, <2>1, <2>3
      <3>3. (b \o c)[i - Len(a)] = b[i - Len(a)]
        BY <1>1, <1>3, <3>2
      <3> QED BY <3>1, <3>2, <3>3
    <2>4. CASE Len(a) + Len(b) < i
      <3>1. left[i] = c[i - (Len(a) + Len(b))]
        BY <1>1, <1>2, <1>4, <2>1, <2>4
      <3>2. right[i] = (b \o c)[i - Len(a)]
            /\ i - Len(a) \in 1..Len(b) + Len(c) /\ ~(i - Len(a) <= Len(b))
            /\ (i - Len(a)) - Len(b) = i - (Len(a) + Len(b))
        BY <1>1, <1>3, <1>5, <2>1, <2>4
      <3>3. (b \o c)[i - Len(a)] = c[(i - Len(a)) - Len(b)]
        BY <1>3, <3>2
      <3> QED BY <3>1, <3>2, <3>3
    <2> QED BY <1>1, <2>1, <2>2, <2>3, <2>4
  <1>8. left = right
    BY <1>4, <1>5, <1>6, <1>7, SeqEqual
  <1> QED BY <1>8 DEF left, right

\* Part of a stream that moves to the buffer at its end.
LEMMA BytesMove ==
  ASSUME NEW buffer \in Seq(Byte), NEW stream \in Seq(Byte), NEW n \in 1..Len(stream)
  PROVE  /\ SubSeq(stream, 1, n) \in Seq(Byte)
         /\ SubSeq(stream, n + 1, Len(stream)) \in Seq(Byte)
         /\ (buffer \o SubSeq(stream, 1, n)) \in Seq(Byte)
         /\ (buffer \o SubSeq(stream, 1, n)) \o SubSeq(stream, n + 1, Len(stream))
              = buffer \o stream
         /\ Len(buffer \o SubSeq(stream, 1, n)) + Len(SubSeq(stream, n + 1, Len(stream)))
              = Len(buffer) + Len(stream)
  <1> DEFINE first == SubSeq(stream, 1, n)
             rest == SubSeq(stream, n + 1, Len(stream))
  <1>1. Len(stream) \in Nat /\ n \in Nat /\ \A i \in 1..Len(stream) : stream[i] \in Byte
    BY LenProperties, ElementOfSeq
  <1>2. first \in Seq(Byte) /\ Len(first) = n
    <2>1. \A i \in 1..n : stream[i] \in Byte
      BY <1>1
    <2>2. first \in Seq(Byte) /\ Len(first) = IF 1 <= n THEN n - 1 + 1 ELSE 0
      BY <1>1, <2>1, SubSeqProperties
    <2> QED BY <1>1, <2>2
  <1>3. rest \in Seq(Byte) /\ Len(rest) = Len(stream) - n
    <2>1. rest \in Seq(Byte)
          /\ Len(rest) = IF n + 1 <= Len(stream) THEN Len(stream) - (n + 1) + 1 ELSE 0
      BY <1>1, SubSeqProperties
    <2> QED BY <1>1, <2>1
  <1>4. first \o rest = stream
    BY <1>1, ConcatAdjacentSubSeq, SubSeqFull
  <1> HIDE DEF first, rest
  <1>5. (buffer \o first) \o rest = buffer \o stream
    <2>1. first \in Seq(Byte) /\ rest \in Seq(Byte)
      BY <1>2, <1>3
    <2>2. (buffer \o first) \o rest = buffer \o (first \o rest)
      BY <2>1, BytesAssociate
    <2> QED BY <1>4, <2>2
  <1>6. buffer \o first \in Seq(Byte) /\ Len(buffer \o first) = Len(buffer) + n
    BY <1>2, ConcatProperties
  <1>7. Len(buffer \o first) + Len(rest) = Len(buffer) + Len(stream)
    BY <1>1, <1>3, <1>6, LenProperties
  <1> QED BY <1>2, <1>3, <1>5, <1>6, <1>7 DEF first, rest

\* The next line is added at the end of the stream.
LEMMA LineAdded ==
  ASSUME NEW bytes \in Seq(Byte), NEW m \in Nat, NEW k \in Nat,
         LinesFrom(bytes, m), Len(bytes) = 2 * k
  PROVE  LinesFrom(bytes \o Bytes(m + k), m)
  <1> DEFINE all == bytes \o Bytes(m + k)
  <1>1. Bytes(m + k) \in Seq(Byte) /\ Len(Bytes(m + k)) = 2
        /\ Bytes(m + k)[1] = <<m + k, "body">> /\ Bytes(m + k)[2] = <<m + k, "end">>
    BY LineBytes
  <1>2. Len(all) = 2 * k + 2
        /\ \A i \in 1..2 * k + 2 :
             all[i] = IF i <= 2 * k THEN bytes[i] ELSE Bytes(m + k)[i - 2 * k]
    <2>1. Len(all) = Len(bytes) + Len(Bytes(m + k))
          /\ \A i \in 1..Len(bytes) + Len(Bytes(m + k)) :
               all[i] = IF i <= Len(bytes) THEN bytes[i] ELSE Bytes(m + k)[i - Len(bytes)]
      <3> HIDE DEF all
      <3>1. Bytes(m + k) \in Seq(Byte)
        BY <1>1
      <3> QED BY <3>1, ConcatProperties DEF all
    <2> HIDE DEF all
    <2> QED BY <1>1, <2>1
  <1> HIDE DEF all
  <1>3. SUFFICES ASSUME NEW j \in 0..Len(all)
                 PROVE  /\ 2 * j + 1 <= Len(all) => all[2 * j + 1] = <<m + j, "body">>
                        /\ 2 * j + 2 <= Len(all) => all[2 * j + 2] = <<m + j, "end">>
    BY DEF LinesFrom, all
  <1>4. CASE j < k
    <2>1. j \in 0..Len(bytes) /\ 2 * j + 1 <= Len(bytes) /\ 2 * j + 2 <= Len(bytes)
      BY <1>2, <1>4
    <2>2. bytes[2 * j + 1] = <<m + j, "body">> /\ bytes[2 * j + 2] = <<m + j, "end">>
      BY <2>1 DEF LinesFrom
    <2>3. all[2 * j + 1] = bytes[2 * j + 1] /\ all[2 * j + 2] = bytes[2 * j + 2]
      BY <1>2, <1>4
    <2> QED BY <2>2, <2>3
  <1>5. CASE j = k
    <2>1. all[2 * k + 1] = Bytes(m + k)[1] /\ all[2 * k + 2] = Bytes(m + k)[2]
      BY <1>2
    <2> QED BY <1>1, <1>5, <2>1
  <1>6. CASE j > k
    BY <1>2, <1>6
  <1> QED BY <1>2, <1>4, <1>5, <1>6

\* The first line is taken out of a buffer: what is left of the buffer and its
\* stream starts with the next one.
LEMMA NextLineFirst ==
  ASSUME NEW buffer \in Seq(Byte), NEW stream \in Seq(Byte), NEW m \in Nat,
         LinesFrom(buffer \o stream, m), HasLine(buffer)
  PROVE  /\ Len(buffer) >= 2
         /\ FirstLine(buffer) = Bytes(m)
         /\ AfterLine(buffer) \in Seq(Byte)
         /\ Len(AfterLine(buffer)) = Len(buffer) - 2
         /\ LinesFrom(AfterLine(buffer) \o stream, m + 1)
  <1> DEFINE all == buffer \o stream
             left == AfterLine(buffer) \o stream
  <1>1. Len(buffer) \in Nat /\ Len(stream) \in Nat
    BY LenProperties
  <1>2. Len(all) = Len(buffer) + Len(stream)
        /\ \A i \in 1..Len(buffer) + Len(stream) :
             all[i] = IF i <= Len(buffer) THEN buffer[i] ELSE stream[i - Len(buffer)]
    BY ConcatProperties
  <1>3. LinesFrom(buffer, m)
    <2> HIDE DEF all
    <2>1. \A i \in 1..Len(buffer) : all[i] = buffer[i]
      BY <1>1, <1>2
    <2>2. LinesFrom(all, m)
      BY DEF all
    <2> QED BY <1>1, <1>2, <2>1, <2>2 DEF LinesFrom
  <1>4. /\ Len(buffer) >= 2
        /\ FirstLine(buffer) = Bytes(m)
        /\ AfterLine(buffer) \in Seq(Byte)
        /\ Len(AfterLine(buffer)) = Len(buffer) - 2
        /\ \A i \in 1..Len(buffer) - 2 : AfterLine(buffer)[i] = buffer[i + 2]
    BY <1>3, FirstLineTaken
  <1>5. Len(left) = Len(buffer) - 2 + Len(stream)
        /\ \A i \in 1..Len(buffer) - 2 + Len(stream) :
             left[i] = IF i <= Len(buffer) - 2 THEN AfterLine(buffer)[i]
                       ELSE stream[i - (Len(buffer) - 2)]
    BY <1>4, ConcatProperties
  <1>6. LinesFrom(all, m)
    OBVIOUS
  <1> HIDE DEF all, left
  <1>7. Len(left) = Len(all) - 2 /\ \A i \in 1..Len(left) : left[i] = all[i + 2]
    <2>1. Len(left) = Len(all) - 2
      BY <1>1, <1>2, <1>5
    <2>2. ASSUME NEW i \in 1..Len(left) PROVE left[i] = all[i + 2]
      <3>1. CASE i <= Len(buffer) - 2
        BY <1>1, <1>2, <1>4, <1>5, <3>1
      <3>2. CASE i > Len(buffer) - 2
        <4>1. left[i] = stream[i - (Len(buffer) - 2)]
          <5>1. i \in 1..Len(buffer) - 2 + Len(stream) /\ ~(i <= Len(buffer) - 2)
            BY <1>1, <1>5, <3>2
          <5> QED BY <1>5, <5>1
        <4>2. all[i + 2] = stream[(i + 2) - Len(buffer)]
          BY <1>1, <1>2, <1>4, <1>5, <3>2
        <4>3. i - (Len(buffer) - 2) = (i + 2) - Len(buffer)
          BY <1>1, <1>5
        <4> QED BY <4>1, <4>2, <4>3
      <3> QED BY <1>1, <1>5, <3>1, <3>2
    <2> QED BY <2>1, <2>2
  <1>8. LinesFrom(left, m + 1)
    <2>1. SUFFICES ASSUME NEW j \in 0..Len(left)
                   PROVE  /\ 2 * j + 1 <= Len(left) => left[2 * j + 1] = <<m + 1 + j, "body">>
                          /\ 2 * j + 2 <= Len(left) => left[2 * j + 2] = <<m + 1 + j, "end">>
      BY DEF LinesFrom
    <2>2. Len(all) \in Nat /\ Len(left) \in Nat /\ j \in Nat
      BY <1>1, <1>2, <1>4, <1>5
    <2>3. j + 1 \in 0..Len(all)
          /\ 2 * (j + 1) + 1 = 2 * j + 3 /\ 2 * (j + 1) + 2 = 2 * j + 4
          /\ m + (j + 1) = m + 1 + j
      BY <1>7, <2>2
    <2>4. /\ 2 * j + 3 <= Len(all) => all[2 * j + 3] = <<m + 1 + j, "body">>
          /\ 2 * j + 4 <= Len(all) => all[2 * j + 4] = <<m + 1 + j, "end">>
      BY <1>6, <2>3 DEF LinesFrom
    <2>5. /\ 2 * j + 1 <= Len(left) => left[2 * j + 1] = all[2 * j + 3]
          /\ 2 * j + 2 <= Len(left) => left[2 * j + 2] = all[2 * j + 4]
      <3> DEFINE a == 2 * j + 1
                 b == 2 * j + 2
      <3>1. a \in Nat \ {0} /\ b \in Nat \ {0} /\ a + 2 = 2 * j + 3 /\ b + 2 = 2 * j + 4
        BY <2>2
      <3> HIDE DEF a, b
      <3>2. a <= Len(left) => left[a] = all[a + 2]
        BY <1>7, <2>2, <3>1
      <3>3. b <= Len(left) => left[b] = all[b + 2]
        BY <1>7, <2>2, <3>1
      <3> QED BY <3>1, <3>2, <3>3 DEF a, b
    <2> QED BY <1>7, <2>2, <2>4, <2>5
  <1> QED BY <1>4, <1>8 DEF left

-----------------------------------------------------------------------------
(* Types *)

\* There is one session.
LEMMA OneSession == SessionIds = {1} /\ id \in SessionIds /\ id = 1
  BY DEF SessionIds, id

\* The lines taken out of a buffer of bytes are bytes.
LEMMA LineTypes ==
  ASSUME NEW bytes \in Seq(Byte)
  PROVE  FirstLine(bytes) \in Seq(Byte) /\ AfterLine(bytes) \in Seq(Byte)
  <1> DEFINE n == Len(bytes)
             e == EndOfLine(bytes)
  <1>1. n \in Nat /\ e \in 0..n /\ \A i \in 1..n : bytes[i] \in Byte
    BY LenProperties, ElementOfSeq, EndOfLineFacts
  <1>2. (\A i \in 1..e : bytes[i] \in Byte) /\ (\A i \in e + 1..n : bytes[i] \in Byte)
    <2> HIDE DEF n, e
    <2> QED BY <1>1
  <1>3. SubSeq(bytes, 1, e) \in Seq(Byte)
    <2> HIDE DEF n, e
    <2> QED BY <1>1, <1>2, SubSeqProperties
  <1>4. SubSeq(bytes, e + 1, n) \in Seq(Byte)
    <2> HIDE DEF n, e
    <2> QED BY <1>1, <1>2, SubSeqProperties
  <1> QED BY <1>3, <1>4 DEF FirstLine, AfterLine

\* The numbers of more texts include those of fewer.
LEMMA SentGrows ==
  ASSUME NEW n \in Nat
  PROVE  /\ \A q \in Seq(0..n) : q \in Seq(0..n + 1)
         /\ \A q \in Seq(1..n) : q \in Seq(1..n + 1)
  <1>1. 0..n \subseteq 0..n + 1 /\ 1..n \subseteq 1..n + 1
    OBVIOUS
  <1>2. ASSUME NEW q \in Seq(0..n) PROVE q \in Seq(0..n + 1)
    BY <1>1, SeqMonotonic
  <1>3. ASSUME NEW q \in Seq(1..n) PROVE q \in Seq(1..n + 1)
    BY <1>1, SeqMonotonic
  <1> QED BY <1>2, <1>3

\* The session sends the next text.
LEMMA SendEffect ==
  ASSUME TypeOK, Send([Nothing EXCEPT ![id] = <<sent + 1>>])
  PROVE  /\ outgoing'[id] # <<>>
         /\ Len(outgoing'[id]) = Len(outgoing[id]) + 1
         /\ \A i \in 1..Len(outgoing[id]) : outgoing'[id][i] = outgoing[id][i]
         /\ outgoing'[id][Len(outgoing[id]) + 1] = sent + 1
         /\ writing'[id] = IF outgoing[id] = <<>> THEN Started(id) ELSE writing[id]
         /\ outgoing' \in [SessionIds -> Seq(0..sent + 1)]
         /\ writing' \in [SessionIds -> {"idle", "pending", "done", "failed"}]
  <1> DEFINE added == [Nothing EXCEPT ![id] = <<sent + 1>>]
  <1>1. added = [s \in SessionIds |-> <<sent + 1>>]
    BY OneSession DEF Nothing
  <1>2. outgoing[id] \in Seq(0..sent + 1) /\ sent + 1 \in 0..sent + 1
    BY OneSession, SentGrows DEF TypeOK
  <1>3. outgoing[id] \o <<sent + 1>> = Append(outgoing[id], sent + 1)
        /\ Append(outgoing[id], sent + 1) \in Seq(0..sent + 1)
    BY <1>2, AppendIsConcat, AppendProperties
  <1> HIDE DEF added
  <1>4. outgoing' = [s \in SessionIds |-> outgoing[s] \o added[s]]
        /\ writing' = [s \in SessionIds |->
                         IF outgoing[s] = <<>> /\ added[s] # <<>>
                         THEN Started(s) ELSE writing[s]]
    BY DEF Send, added
  <1>5. outgoing' = [s \in SessionIds |-> Append(outgoing[id], sent + 1)]
    BY <1>1, <1>3, <1>4, OneSession
  <1>6. writing' = [s \in SessionIds |-> IF outgoing[id] = <<>> THEN Started(id)
                                         ELSE writing[id]]
    BY <1>1, <1>4, OneSession
  <1>7. outgoing' \in [SessionIds -> Seq(0..sent + 1)]
    BY <1>3, <1>5
  <1>8. writing' \in [SessionIds -> {"idle", "pending", "done", "failed"}]
    BY <1>6, OneSession DEF Started, TypeOK
  <1>9. writing'[id] = IF outgoing[id] = <<>> THEN Started(id) ELSE writing[id]
    BY <1>6, OneSession
  <1>10. outgoing'[id] = Append(outgoing[id], sent + 1)
    BY <1>5, OneSession
  <1>11. /\ Append(outgoing[id], sent + 1) # <<>>
         /\ Len(Append(outgoing[id], sent + 1)) = Len(outgoing[id]) + 1
         /\ \A i \in 1..Len(outgoing[id]) :
              Append(outgoing[id], sent + 1)[i] = outgoing[id][i]
         /\ Append(outgoing[id], sent + 1)[Len(outgoing[id]) + 1] = sent + 1
    BY <1>2, AppendProperties
  <1> QED BY <1>7, <1>8, <1>9, <1>10, <1>11

\* The answer of the read handler is a Send.
LEMMA RespondEffect ==
  ASSUME Respond(id, Nothing, <<sent + 1>>)
  PROVE  /\ Send([Nothing EXCEPT ![id] = <<sent + 1>>])
         /\ reading' = [reading EXCEPT ![id] = Started(id)]
         /\ UNCHANGED <<nextSessionId, socket>>
  <1>1. Nothing[id] \o <<sent + 1>> = <<sent + 1>>
    BY OneSession DEF Nothing
  <1>2. [Nothing EXCEPT ![id] = @ \o <<sent + 1>>] = [Nothing EXCEPT ![id] = <<sent + 1>>]
    BY <1>1
  <1> QED BY <1>2 DEF Respond

\* Where the session is in its life, and the operations that it has in flight.
\* A write is in flight if and only if the queue of an open session has an entry,
\* and what is pending is pending on an open socket.
SessionInv ==
  /\ nextSessionId = 1 <=> socket[id] = "none"
  /\ nextSessionId = 1 =>
       /\ reading[id] = "idle" /\ writing[id] = "idle" /\ outgoing[id] = <<>>
       /\ sent = 0 /\ handled = <<>> /\ received = <<>>
       /\ shown = <<>> /\ screenBuffer = <<>> /\ downstream = <<>>
  /\ writing[id] # "idle" => outgoing[id] # <<>>
  /\ socket[id] = "open" /\ outgoing[id] # <<>> => writing[id] # "idle"
  /\ writing[id] = "pending" => socket[id] = "open"
  /\ reading[id] = "pending" => socket[id] = "open"
  /\ Len(answers) = Len(handled)

\* Every step keeps the types.  What is written is at the front of the queue, so
\* there is a text to put on the stream.
LEMMA TypeStep ==
  ASSUME TypeOK, SessionInv, [Next]_vars
  PROVE  TypeOK'
  <1> USE OneSession DEF TypeOK
  <1>1. CASE TypeLine
    <2>1. typed' \in 0..MaxTyped
      BY <1>1 DEF TypeLine
    <2>2. upstream' \in Seq(Byte)
      <3>1. Bytes(typed + 1) \in Seq(Byte)
        <4>1. typed + 1 \in Nat
          OBVIOUS
        <4> QED BY <4>1, LineBytes
      <3>2. upstream \o Bytes(typed + 1) \in Seq(Byte)
        BY <3>1, ConcatProperties
      <3> QED BY <1>1, <3>2 DEF TypeLine
    <2>3. link' \in {"up", "shut", "reset"}
      BY <1>1 DEF TypeLine
    <2> QED BY <1>1, <2>1, <2>2, <2>3 DEF TypeLine, brokerVars, sessionVars
  <1>2. CASE TypeFails
    BY <1>2 DEF TypeFails, streamVars, brokerVars, sessionVars
  <1>3. CASE TypeExit
    BY <1>3 DEF TypeExit, brokerVars, sessionVars
  <1>4. CASE EndOfInput
    BY <1>4 DEF EndOfInput, streamVars, brokerVars, sessionVars
  <1>5. CASE ClientReceives
    <2>1. screenBuffer' \in Seq(Byte) /\ downstream' \in Seq(Byte)
      <3>1. PICK n \in 1..Len(downstream) :
              /\ screenBuffer' = screenBuffer \o SubSeq(downstream, 1, n)
              /\ downstream' = SubSeq(downstream, n + 1, Len(downstream))
        BY <1>5 DEF ClientReceives
      <3> QED BY <3>1, BytesMove
    <2> QED BY <1>5, <2>1 DEF ClientReceives, brokerVars, sessionVars
  <1>6. CASE ShowLine
    <2>1. screenBuffer' \in Seq(Byte) /\ shown' \in Seq(Seq(Byte))
      BY <1>6, LineTypes, AppendProperties DEF ShowLine
    <2> QED BY <1>6, <2>1 DEF ShowLine, streamVars, brokerVars, sessionVars
  <1>7. CASE ReaderEnds
    BY <1>7 DEF ReaderEnds, streamVars, brokerVars, sessionVars
  <1>8. CASE Connection
    <2>1. <<0>> \in Seq(0..sent)
      BY AppendProperties, EmptySeq
    <2>2. /\ nextSessionId' \in 1..MaxSession + 1
          /\ socket' \in [SessionIds -> {"none", "open", "closed"}]
          /\ reading' \in [SessionIds -> {"idle", "pending", "ready", "failed"}]
          /\ writing' \in [SessionIds -> {"idle", "pending", "done", "failed"}]
          /\ outgoing' \in [SessionIds -> Seq(0..sent)]
      BY <1>8, <2>1 DEF Connection, Accept
    <2> QED BY <1>8, <2>2 DEF Connection, streamVars, clientVars, ghostsUnchanged
  <1>9. CASE SessionReceives
    <2>1. received' \in Seq(Byte) /\ upstream' \in Seq(Byte)
      <3>1. PICK n \in 1..Len(upstream) :
              /\ received' = received \o SubSeq(upstream, 1, n)
              /\ upstream' = SubSeq(upstream, n + 1, Len(upstream))
        BY <1>9 DEF SessionReceives
      <3> QED BY <3>1, BytesMove
    <2>2. /\ nextSessionId' \in 1..MaxSession + 1
          /\ socket' \in [SessionIds -> {"none", "open", "closed"}]
          /\ reading' \in [SessionIds -> {"idle", "pending", "ready", "failed"}]
          /\ writing' \in [SessionIds -> {"idle", "pending", "done", "failed"}]
          /\ outgoing' \in [SessionIds -> Seq(0..sent)]
      BY <1>9 DEF SessionReceives, LineArrives, ReadEnds, sessionVars
    <2> QED BY <1>9, <2>1, <2>2 DEF SessionReceives, clientVars, ghostsUnchanged
  <1>10. CASE SessionReadFails
    BY <1>10 DEF SessionReadFails, ReadFails, ReadEnds, streamVars, clientVars, ghostsUnchanged
  <1>11. CASE SessionWrites
    <2>1. downstream' \in Seq(Byte)
      <3>1. CASE link = "up"
        <4>0. outgoing[id] # <<>>
          BY <1>11 DEF SessionWrites, WriteCompletes, WriteEnds, SessionInv
        <4>1. Head(outgoing[id]) \in Nat
          BY <4>0, HeadTailProperties
        <4>2. Bytes(Head(outgoing[id])) \in Seq(Byte)
          BY <4>1, LineBytes
        <4>3. downstream \o Bytes(Head(outgoing[id])) \in Seq(Byte)
          BY <4>2, ConcatProperties
        <4> QED BY <1>11, <3>1, <4>3 DEF SessionWrites
      <3>2. CASE link # "up"
        BY <1>11, <3>2 DEF SessionWrites
      <3> QED BY <3>1, <3>2
    <2> QED BY <1>11, <2>1 DEF SessionWrites, WriteCompletes, WriteEnds, clientVars, ghostsUnchanged
  <1>12. CASE SessionWriteFails
    BY <1>12 DEF SessionWriteFails, WriteFails, WriteEnds, streamVars, clientVars, ghostsUnchanged
  <1>13. CASE Handle
    <2>1. /\ Send([Nothing EXCEPT ![id] = <<sent + 1>>])
          /\ reading' = [reading EXCEPT ![id] = Started(id)]
          /\ UNCHANGED <<nextSessionId, socket>>
      BY <1>13, RespondEffect DEF Handle
    <2>2. outgoing' \in [SessionIds -> Seq(0..sent')]
          /\ writing' \in [SessionIds -> {"idle", "pending", "done", "failed"}]
          /\ sent' \in Nat
      BY <1>13, <2>1, SendEffect DEF Handle
    <2>3. reading' \in [SessionIds -> {"idle", "pending", "ready", "failed"}]
      BY <2>1 DEF Started
    <2>4. answers' \in Seq(1..sent')
      <3>1. answers \in Seq(1..sent + 1) /\ sent + 1 \in 1..sent + 1
        BY SentGrows
      <3> QED BY <1>13, <3>1, AppendProperties DEF Handle
    <2>5. handled' \in Seq(Seq(Byte)) /\ received' \in Seq(Byte)
      BY <1>13, LineTypes, AppendProperties, EmptySeq DEF Handle
    <2> QED BY <1>13, <2>1, <2>2, <2>3, <2>4, <2>5 DEF Handle, streamVars, clientVars
  <1>14. CASE Written
    <2>1. outgoing' \in [SessionIds -> Seq(0..sent)]
      <3>1. outgoing[id] # <<>>
        BY <1>14 DEF Written, WriteDone, SessionInv
      <3>2. Tail(outgoing[id]) \in Seq(0..sent)
        BY <3>1, HeadTailProperties
      <3> QED BY <1>14, <3>2 DEF Written, WriteDone
    <2>2. writing' \in [SessionIds -> {"idle", "pending", "done", "failed"}]
      BY <1>14 DEF Written, WriteDone, Started
    <2> QED BY <1>14, <2>1, <2>2 DEF Written, WriteDone, streamVars, clientVars, ghostsUnchanged
  <1>15. CASE Disconnect
    <2>1. /\ UNCHANGED <<nextSessionId, outgoing>>
          /\ socket' \in [SessionIds -> {"none", "open", "closed"}]
          /\ reading' \in [SessionIds -> {"idle", "pending", "ready", "failed"}]
          /\ writing' \in [SessionIds -> {"idle", "pending", "done", "failed"}]
      BY <1>15 DEF Disconnect, ReadError, WriteError, CloseSocket, Aborted
    <2>2. received' \in Seq(Byte)
      BY <1>15, EmptySeq DEF Disconnect
    <2> QED BY <1>15, <2>1, <2>2 DEF Disconnect, streamVars, clientVars, ghostsUnchanged
  <1>16. CASE Message
    <2>1. outgoing' \in [SessionIds -> Seq(0..sent')]
          /\ writing' \in [SessionIds -> {"idle", "pending", "done", "failed"}]
          /\ sent' \in Nat
      BY <1>16, SendEffect DEF Message
    <2>2. answers' \in Seq(1..sent')
      BY <1>16, SentGrows DEF Message
    <2> QED BY <1>16, <2>1, <2>2 DEF Message, streamVars, clientVars
  <1>17. CASE BrokerDies
    <2>1. outgoing' \in [SessionIds -> Seq(0..sent)] /\ received' \in Seq(Byte)
      BY <1>17, EmptySeq DEF BrokerDies, Nothing
    <2> QED BY <1>17, <2>1 DEF BrokerDies, clientVars, ghostsUnchanged
  <1>18. CASE Reset
    BY <1>18 DEF Reset, clientVars, brokerVars, sessionVars
  <1>19. CASE UNCHANGED vars
    BY <1>19 DEF vars, streamVars, clientVars, brokerVars, sessionVars
  <1>20. CASE Close
    BY <1>20 DEF Close, brokerVars, sessionVars
  <1>21. CASE AwaitBytes
    BY <1>21 DEF AwaitBytes, streamVars, brokerVars, sessionVars
  <1> QED
    BY <1>1, <1>2, <1>3, <1>4, <1>5, <1>6, <1>7, <1>8, <1>9, <1>10, <1>11, <1>12,
       <1>13, <1>14, <1>15, <1>16, <1>17, <1>18, <1>19, <1>20, <1>21
    DEF Next, User, Reader, Network, Handlers

\* Nothing can be read before there is something to read.
LEMMA NothingToRead ==
  ASSUME SessionInv, nextSessionId = 1
  PROVE  ~ClientReceives /\ ~ShowLine
  <1>1. Len(downstream) = 0
    BY EmptySeq DEF SessionInv
  <1>2. ~HasLine(screenBuffer)
    <2>1. screenBuffer = <<>> /\ screenBuffer \in Seq(Byte) /\ Len(screenBuffer) = 0
      BY EmptySeq DEF SessionInv
    <2>2. EndOfLine(screenBuffer) \in 0..0
      BY <2>1, EndOfLineFacts
    <2> QED BY <2>2 DEF HasLine
  <1> QED BY <1>1, <1>2 DEF ClientReceives, ShowLine

\* Every step keeps the state of the session consistent.
LEMMA SessionStep ==
  ASSUME TypeOK, SessionInv, [Next]_vars
  PROVE  SessionInv'
  <1> USE OneSession
  <1>1. CASE TypeLine
    BY <1>1 DEF TypeLine, SessionInv, brokerVars, sessionVars
  <1>2. CASE TypeFails
    BY <1>2 DEF TypeFails, SessionInv, streamVars, brokerVars, sessionVars
  <1>3. CASE TypeExit
    BY <1>3 DEF TypeExit, SessionInv, brokerVars, sessionVars
  <1>4. CASE EndOfInput
    BY <1>4 DEF EndOfInput, SessionInv, streamVars, brokerVars, sessionVars
  <1>5. CASE ClientReceives
    <2>1. nextSessionId # 1
      BY <1>5, NothingToRead
    <2> QED BY <1>5, <2>1 DEF ClientReceives, SessionInv, brokerVars, sessionVars
  <1>6. CASE ShowLine
    <2>1. nextSessionId # 1
      BY <1>6, NothingToRead
    <2> QED BY <1>6, <2>1 DEF ShowLine, SessionInv, streamVars, brokerVars, sessionVars
  <1>7. CASE ReaderEnds
    BY <1>7 DEF ReaderEnds, SessionInv, streamVars, brokerVars, sessionVars
  <1>8. CASE Connection
    <2>1. /\ nextSessionId = 1 /\ nextSessionId' = 2
          /\ socket'[id] = "open" /\ reading'[id] = "pending" /\ writing'[id] = "pending"
          /\ outgoing'[id] = <<0>>
      BY <1>8 DEF Connection, Accept, TypeOK
    <2> QED BY <1>8, <2>1 DEF Connection, SessionInv, ghostsUnchanged
  <1>9. CASE SessionReceives
    <2>1. nextSessionId # 1 /\ socket[id] = "open"
      BY <1>9 DEF SessionReceives, SessionInv
    <2>2. /\ UNCHANGED <<nextSessionId, socket, writing, outgoing>>
          /\ reading'[id] \in {"pending", "ready"}
      BY <1>9 DEF SessionReceives, LineArrives, ReadEnds, sessionVars, TypeOK
    <2> QED BY <1>9, <2>1, <2>2 DEF SessionReceives, SessionInv, clientVars, ghostsUnchanged
  <1>10. CASE SessionReadFails
    <2>1. /\ UNCHANGED <<nextSessionId, socket, writing, outgoing>>
          /\ reading[id] = "pending" /\ reading'[id] = "failed"
      BY <1>10 DEF SessionReadFails, ReadFails, ReadEnds, TypeOK
    <2> QED BY <1>10, <2>1 DEF SessionReadFails, SessionInv, streamVars, clientVars, ghostsUnchanged
  <1>11. CASE SessionWrites
    <2>1. /\ UNCHANGED <<nextSessionId, socket, reading, outgoing>>
          /\ writing[id] = "pending" /\ writing'[id] = "done"
      BY <1>11 DEF SessionWrites, WriteCompletes, WriteEnds, TypeOK
    <2> QED BY <1>11, <2>1 DEF SessionWrites, SessionInv, clientVars, ghostsUnchanged
  <1>12. CASE SessionWriteFails
    <2>1. /\ UNCHANGED <<nextSessionId, socket, reading, outgoing>>
          /\ writing[id] = "pending" /\ writing'[id] = "failed"
      BY <1>12 DEF SessionWriteFails, WriteFails, WriteEnds, TypeOK
    <2> QED BY <1>12, <2>1
        DEF SessionWriteFails, SessionInv, streamVars, clientVars, ghostsUnchanged
  <1>13. CASE Handle
    <2>1. /\ Send([Nothing EXCEPT ![id] = <<sent + 1>>])
          /\ reading' = [reading EXCEPT ![id] = Started(id)]
          /\ UNCHANGED <<nextSessionId, socket>>
      BY <1>13, RespondEffect DEF Handle
    <2>2. nextSessionId # 1 /\ socket[id] # "none"
      BY <1>13 DEF Handle, SessionInv
    <2>3. /\ outgoing'[id] # <<>>
          /\ writing'[id] = IF outgoing[id] = <<>> THEN Started(id) ELSE writing[id]
          /\ reading'[id] = Started(id)
      BY <2>1, SendEffect DEF TypeOK
    <2>4. Len(answers') = Len(handled')
      <3>1. answers \in Seq(1..sent + 1) /\ sent + 1 \in 1..sent + 1
        BY SentGrows DEF TypeOK
      <3>2. Len(answers') = Len(answers) + 1
        BY <1>13, <3>1, AppendProperties DEF Handle
      <3>3. Len(handled') = Len(handled) + 1
        BY <1>13, LineTypes, AppendProperties DEF Handle, TypeOK
      <3> QED BY <3>2, <3>3 DEF SessionInv
    <2> QED BY <2>1, <2>2, <2>3, <2>4 DEF SessionInv, Started
  <1>14. CASE Written
    <2>1. /\ UNCHANGED <<nextSessionId, socket, reading>>
          /\ writing[id] = "done" /\ outgoing'[id] = Tail(outgoing[id])
          /\ writing'[id] = IF Tail(outgoing[id]) = <<>> THEN "idle" ELSE Started(id)
      BY <1>14 DEF Written, WriteDone, TypeOK
    <2>2. nextSessionId # 1
      BY <2>1 DEF SessionInv
    <2> QED BY <1>14, <2>1, <2>2 DEF Written, SessionInv, Started, ghostsUnchanged
  <1>15. CASE Disconnect
    <2>1. /\ UNCHANGED <<nextSessionId, outgoing>>
          /\ socket'[id] = "closed"
          /\ reading[id] # "idle" \/ writing[id] # "idle"
          /\ writing'[id] \in {"idle", "done", "failed"} /\ reading'[id] # "pending"
          /\ writing[id] = "idle" => writing'[id] = "idle"
      <3>1. CASE ReadError(id)
        BY <3>1 DEF ReadError, CloseSocket, Aborted, TypeOK
      <3>2. CASE WriteError(id)
        BY <3>2 DEF WriteError, CloseSocket, Aborted, TypeOK
      <3> QED BY <1>15, <3>1, <3>2 DEF Disconnect
    <2>2. nextSessionId # 1
      BY <2>1 DEF SessionInv
    <2> QED BY <1>15, <2>1, <2>2 DEF Disconnect, SessionInv, ghostsUnchanged
  <1>16. CASE Message
    <2>1. nextSessionId # 1 /\ socket[id] # "none"
      BY <1>16 DEF Message, SessionInv
    <2>2. /\ outgoing'[id] # <<>>
          /\ writing'[id] = IF outgoing[id] = <<>> THEN Started(id) ELSE writing[id]
      BY <1>16, SendEffect DEF Message
    <2> QED BY <1>16, <2>1, <2>2 DEF Message, SessionInv, Started
  <1>17. CASE BrokerDies
    <2>1. /\ nextSessionId' = 2 /\ socket'[id] = "closed"
          /\ reading'[id] = "idle" /\ writing'[id] = "idle" /\ outgoing'[id] = <<>>
      BY <1>17 DEF BrokerDies, Nothing, TypeOK
    <2> QED BY <1>17, <2>1 DEF BrokerDies, SessionInv, ghostsUnchanged
  <1>18. CASE Reset
    BY <1>18 DEF Reset, SessionInv, clientVars, brokerVars, sessionVars
  <1>19. CASE UNCHANGED vars
    BY <1>19 DEF vars, SessionInv, streamVars, clientVars, brokerVars, sessionVars
  <1>20. CASE Close
    BY <1>20 DEF Close, SessionInv, brokerVars, sessionVars
  <1>21. CASE AwaitBytes
    BY <1>21 DEF AwaitBytes, SessionInv, streamVars, brokerVars, sessionVars
  <1> QED
    BY <1>1, <1>2, <1>3, <1>4, <1>5, <1>6, <1>7, <1>8, <1>9, <1>10, <1>11, <1>12,
       <1>13, <1>14, <1>15, <1>16, <1>17, <1>18, <1>19, <1>20, <1>21
    DEF Next, User, Reader, Network, Handlers

-----------------------------------------------------------------------------
(* From the queue of the session to the screen *)

\* The texts that were written to the stream: those queued, without what is still
\* in the queue.  The one at its front is written when its handler waits to run.
TextsWritten == sent + 1 - Len(outgoing[id]) + (IF writing[id] = "done" THEN 1 ELSE 0)

\* The queue ends with the last text; the buffer of the client and the stream
\* hold the lines that follow those shown; and while the socket of the session is
\* open and the connection up they hold every byte that was written and is not shown.
ScreenInv ==
  /\ \A i \in 1..Len(outgoing[id]) : outgoing[id][i] = sent - Len(outgoing[id]) + i
  /\ LinesFrom(screenBuffer \o downstream, Len(shown))
  /\ socket[id] = "open" /\ link = "up" =>
       2 * Len(shown) + Len(screenBuffer) + Len(downstream) = 2 * TextsWritten
  /\ TextsShownInOrder

\* A step that leaves the texts alone, and opens nothing.
LEMMA ScreenFrame ==
  ASSUME ScreenInv,
         UNCHANGED <<outgoing, sent, screenBuffer, downstream, shown>>,
         socket'[id] = "open" /\ link' = "up" =>
           /\ socket[id] = "open" /\ link = "up"
           /\ writing'[id] = "done" <=> writing[id] = "done"
  PROVE  ScreenInv'
  BY DEF ScreenInv, TextsWritten, TextsShownInOrder, LinesFrom

\* A text is queued.
LEMMA ScreenSend ==
  ASSUME TypeOK, SessionInv, ScreenInv,
         Send([Nothing EXCEPT ![id] = <<sent + 1>>]), sent' = sent + 1,
         UNCHANGED <<socket, link, screenBuffer, downstream, shown>>
  PROVE  ScreenInv'
  <1> DEFINE n == Len(outgoing[id])
  <1>1. n \in Nat /\ sent \in Nat
    BY OneSession, LenProperties DEF TypeOK
  <1>2. /\ Len(outgoing'[id]) = n + 1
        /\ \A i \in 1..n : outgoing'[id][i] = outgoing[id][i]
        /\ outgoing'[id][n + 1] = sent + 1
        /\ writing'[id] = IF outgoing[id] = <<>> THEN Started(id) ELSE writing[id]
    BY SendEffect
  <1>3. \A i \in 1..n : outgoing[id][i] = sent - n + i
    BY DEF ScreenInv
  <1>4. \A i \in 1..Len(outgoing'[id]) :
          outgoing'[id][i] = sent' - Len(outgoing'[id]) + i
    <2> HIDE DEF n
    <2> QED BY <1>1, <1>2, <1>3
  <1>5. writing'[id] = "done" <=> writing[id] = "done"
    BY <1>2 DEF Started, SessionInv
  <1>6. TextsWritten' = TextsWritten
    <2>1. Len(outgoing'[id]) = n + 1 /\ sent' = sent + 1
      BY <1>2
    <2>2. sent' + 1 - Len(outgoing'[id]) = sent + 1 - n
      <3> HIDE DEF n
      <3> QED BY <1>1, <2>1
    <2> QED BY <1>5, <2>2 DEF TextsWritten
  <1> QED BY <1>4, <1>6 DEF ScreenInv, TextsShownInOrder, LinesFrom

\* Every step keeps ScreenInv.
LEMMA ScreenStep ==
  ASSUME TypeOK, SessionInv, ScreenInv, [Next]_vars
  PROVE  ScreenInv'
  <1> USE OneSession
  <1>1. CASE TypeLine
    BY <1>1, ScreenFrame DEF TypeLine, brokerVars, sessionVars
  <1>2. CASE TypeFails
    BY <1>2, ScreenFrame DEF TypeFails, streamVars, brokerVars, sessionVars
  <1>3. CASE TypeExit
    BY <1>3, ScreenFrame DEF TypeExit, brokerVars, sessionVars
  <1>4. CASE EndOfInput
    BY <1>4, ScreenFrame DEF EndOfInput, streamVars, brokerVars, sessionVars
  <1>5. CASE ClientReceives
    <2>1. PICK n \in 1..Len(downstream) :
            /\ screenBuffer' = screenBuffer \o SubSeq(downstream, 1, n)
            /\ downstream' = SubSeq(downstream, n + 1, Len(downstream))
      BY <1>5 DEF ClientReceives
    <2>2. /\ screenBuffer' \o downstream' = screenBuffer \o downstream
          /\ Len(screenBuffer') + Len(downstream') = Len(screenBuffer) + Len(downstream)
          /\ screenBuffer' \in Seq(Byte) /\ downstream' \in Seq(Byte)
      BY <2>1, BytesMove DEF TypeOK
    <2>3. UNCHANGED <<outgoing, sent, shown, socket, writing, link>>
      BY <1>5 DEF ClientReceives, brokerVars, sessionVars
    <2>4. LinesFrom(screenBuffer' \o downstream', Len(shown'))
      BY <2>2, <2>3 DEF ScreenInv
    <2>5. 2 * Len(shown') + Len(screenBuffer') + Len(downstream')
            = 2 * Len(shown) + Len(screenBuffer) + Len(downstream)
      <3>1. /\ Len(shown) \in Nat /\ Len(screenBuffer) \in Nat /\ Len(downstream) \in Nat
            /\ Len(screenBuffer') \in Nat /\ Len(downstream') \in Nat
        BY <2>2, LenProperties DEF TypeOK
      <3>2. Len(screenBuffer') + Len(downstream') = Len(screenBuffer) + Len(downstream)
        BY <2>2
      <3>3. Len(shown') = Len(shown)
        BY <2>3
      <3> QED BY <3>1, <3>2, <3>3
    <2>6. TextsWritten' = TextsWritten
      BY <2>3 DEF TextsWritten
    <2> QED BY <2>3, <2>4, <2>5, <2>6 DEF ScreenInv, TextsShownInOrder
  <1>6. CASE ShowLine
    <2> DEFINE m == Len(shown)
    <2>1. /\ HasLine(screenBuffer)
          /\ shown' = Append(shown, FirstLine(screenBuffer))
          /\ screenBuffer' = AfterLine(screenBuffer)
          /\ UNCHANGED <<outgoing, sent, downstream, socket, writing, link>>
      BY <1>6 DEF ShowLine, streamVars, brokerVars, sessionVars
    <2>2. m \in Nat /\ Len(screenBuffer) \in Nat /\ Len(downstream) \in Nat
      BY LenProperties DEF TypeOK
    <2>3. LinesFrom(screenBuffer \o downstream, m)
      BY DEF ScreenInv
    <2>4. /\ Len(screenBuffer) >= 2
          /\ FirstLine(screenBuffer) = Bytes(m)
          /\ Len(AfterLine(screenBuffer)) = Len(screenBuffer) - 2
          /\ LinesFrom(AfterLine(screenBuffer) \o downstream, m + 1)
      BY <2>1, <2>2, <2>3, NextLineFirst DEF TypeOK
    <2>5. /\ Len(shown') = m + 1
          /\ \A k \in 1..m : shown'[k] = shown[k]
          /\ shown'[m + 1] = Bytes(m)
          /\ DOMAIN shown' = 1..m + 1 /\ DOMAIN shown = 1..m
      <3>1. FirstLine(screenBuffer) \in Seq(Byte)
        BY LineTypes DEF TypeOK
      <3>2. shown' \in Seq(Seq(Byte))
        BY <2>1, <3>1, AppendProperties DEF TypeOK
      <3> QED BY <2>1, <2>4, <3>1, <3>2, AppendProperties, LenProperties DEF TypeOK
    <2>6. TextsShownInOrder'
      <3>1. \A k \in 1..m : shown[k] = Bytes(k - 1)
        BY <2>5 DEF ScreenInv, TextsShownInOrder
      <3>2. (m + 1) - 1 = m
        BY <2>2
      <3>3. \A k \in 1..m + 1 : shown'[k] = Bytes(k - 1)
        <4> HIDE DEF m
        <4> QED BY <2>2, <2>5, <3>1, <3>2
      <3> QED BY <2>5, <3>3 DEF TextsShownInOrder
    <2>7. 2 * Len(shown') + Len(screenBuffer') + Len(downstream')
            = 2 * Len(shown) + Len(screenBuffer) + Len(downstream)
      BY <2>1, <2>2, <2>4, <2>5
    <2>8. TextsWritten' = TextsWritten
      BY <2>1 DEF TextsWritten
    <2>9. LinesFrom(screenBuffer' \o downstream', Len(shown'))
      BY <2>1, <2>4, <2>5
    <2> QED BY <2>1, <2>6, <2>7, <2>8, <2>9 DEF ScreenInv
  <1>7. CASE ReaderEnds
    BY <1>7, ScreenFrame DEF ReaderEnds, streamVars, brokerVars, sessionVars
  <1>8. CASE Connection
    <2>1. /\ outgoing'[id] = <<0>> /\ writing'[id] = "pending"
          /\ UNCHANGED <<sent, screenBuffer, downstream, shown>>
      BY <1>8 DEF Connection, Accept, TypeOK, streamVars, clientVars, ghostsUnchanged
    <2>2. sent = 0 /\ shown = <<>> /\ screenBuffer = <<>> /\ downstream = <<>>
      BY <1>8 DEF Connection, Accept, SessionInv
    <2>3. Len(outgoing'[id]) = 1 /\ outgoing'[id][1] = 0
      BY <2>1
    <2>4. \A i \in 1..Len(outgoing'[id]) :
            outgoing'[id][i] = sent' - Len(outgoing'[id]) + i
      BY <2>1, <2>2, <2>3
    <2>5. 2 * Len(shown') + Len(screenBuffer') + Len(downstream') = 2 * TextsWritten'
      BY <2>1, <2>2, <2>3 DEF TextsWritten
    <2> QED BY <2>1, <2>4, <2>5 DEF ScreenInv, TextsShownInOrder
  <1>9. CASE SessionReceives
    <2>1. UNCHANGED <<socket, writing, outgoing>>
      BY <1>9 DEF SessionReceives, LineArrives, ReadEnds, sessionVars
    <2> QED BY <1>9, <2>1, ScreenFrame DEF SessionReceives, clientVars, ghostsUnchanged
  <1>10. CASE SessionReadFails
    BY <1>10, ScreenFrame
    DEF SessionReadFails, ReadFails, ReadEnds, streamVars, clientVars, ghostsUnchanged
  <1>11. CASE SessionWrites
    <2> DEFINE n == Len(outgoing[id])
               text == Head(outgoing[id])
    <2>1. /\ UNCHANGED <<socket, outgoing, sent, screenBuffer, shown, link>>
          /\ writing[id] = "pending" /\ writing'[id] = "done" /\ socket[id] = "open"
      BY <1>11 DEF SessionWrites, WriteCompletes, WriteEnds, TypeOK, SessionInv, clientVars,
         ghostsUnchanged
    <2>2. n \in Nat \ {0} /\ text = sent - n + 1 /\ text \in Nat
      <3>1. outgoing[id] \in Seq(0..sent) /\ outgoing[id] # <<>>
        BY <2>1 DEF SessionInv, TypeOK
      <3>2. n \in Nat \ {0} /\ text = outgoing[id][1]
        BY <3>1, EmptySeq
      <3>3. text = sent - n + 1
        <4> HIDE DEF n
        <4>1. \A i \in 1..n : outgoing[id][i] = sent - n + i
          BY DEF n, ScreenInv
        <4> QED BY <3>2, <4>1
      <3>4. text \in 0..sent
        <4>1. 1 \in 1..Len(outgoing[id])
          BY <3>2
        <4> HIDE DEF text
        <4> QED BY <3>1, <3>2, <4>1, ElementOfSeq
      <3> QED BY <3>2, <3>3, <3>4 DEF TypeOK
    <2>3. CASE link # "up"
      BY <1>11, <2>1, <2>3, ScreenFrame DEF SessionWrites
    <2>4. CASE link = "up"
      <3> DEFINE all == screenBuffer \o downstream
                 k == text - Len(shown)
      <3>1. downstream' = downstream \o Bytes(text)
        BY <1>11, <2>4 DEF SessionWrites
      <3>2. /\ Len(shown) \in Nat /\ Len(screenBuffer) \in Nat /\ Len(downstream) \in Nat
            /\ sent \in Nat
        BY LenProperties DEF TypeOK
      <3>3. all \in Seq(Byte) /\ Len(all) = Len(screenBuffer) + Len(downstream)
        BY ConcatProperties DEF TypeOK
      <3>4. 2 * Len(shown) + Len(screenBuffer) + Len(downstream) = 2 * text
        <4>1. TextsWritten = text
          <5>1. sent + 1 - n + 0 = text
            <6> HIDE DEF n, text
            <6> QED BY <2>2, <3>2
          <5> QED BY <2>1, <5>1 DEF TextsWritten
        <4> QED BY <2>1, <2>4, <4>1 DEF ScreenInv
      <3>5. k \in Nat /\ Len(all) = 2 * k /\ Len(shown) + k = text
        <4>1. text \in Nat
          BY <2>2
        <4> HIDE DEF all, text
        <4> QED BY <3>2, <3>3, <3>4, <4>1
      <3>6. LinesFrom(all, Len(shown))
        BY DEF ScreenInv
      <3>7. LinesFrom(all \o Bytes(text), Len(shown))
        <4> HIDE DEF all, k
        <4>1. LinesFrom(all \o Bytes(Len(shown) + k), Len(shown))
          BY <3>2, <3>3, <3>5, <3>6, LineAdded
        <4> QED BY <3>5, <4>1
      <3>8. Bytes(text) \in Seq(Byte) /\ Len(Bytes(text)) = 2
        BY <2>2, LineBytes
      <3>9. screenBuffer \o (downstream \o Bytes(text)) = all \o Bytes(text)
        BY <3>8, BytesAssociate DEF TypeOK
      <3>10. Len(downstream') = Len(downstream) + 2
        <4>1. downstream \in Seq(Byte)
          BY DEF TypeOK
        <4>2. Len(downstream \o Bytes(text)) = Len(downstream) + Len(Bytes(text))
          BY <3>8, <4>1, ConcatProperties
        <4> QED BY <3>1, <3>8, <4>2
      <3>11. TextsWritten' = text + 1
        <4>1. sent + 1 - n + 1 = text + 1
          <5> HIDE DEF n, text
          <5> QED BY <2>2, <3>2
        <4> QED BY <2>1, <4>1 DEF TextsWritten
      <3>12. 2 * Len(shown') + Len(screenBuffer') + Len(downstream') = 2 * TextsWritten'
        <4>1. Len(shown') = Len(shown) /\ Len(screenBuffer') = Len(screenBuffer)
          BY <2>1
        <4>2. text \in Nat
          BY <2>2
        <4> HIDE DEF text
        <4> QED BY <3>2, <3>4, <3>10, <3>11, <4>1, <4>2
      <3>13. LinesFrom(screenBuffer' \o downstream', Len(shown'))
        BY <2>1, <3>1, <3>7, <3>9
      <3> QED BY <2>1, <3>12, <3>13 DEF ScreenInv, TextsShownInOrder
    <2> QED BY <2>3, <2>4
  <1>12. CASE SessionWriteFails
    <2>1. writing[id] = "pending" /\ writing'[id] = "failed"
      BY <1>12 DEF SessionWriteFails, WriteFails, WriteEnds, TypeOK
    <2> QED BY <1>12, <2>1, ScreenFrame
        DEF SessionWriteFails, WriteFails, WriteEnds, streamVars, clientVars, ghostsUnchanged
  <1>13. CASE Handle
    BY <1>13, RespondEffect, ScreenSend DEF Handle, streamVars, clientVars
  <1>14. CASE Written
    <2> DEFINE n == Len(outgoing[id])
    <2>1. /\ UNCHANGED <<socket, sent, screenBuffer, downstream, shown, link>>
          /\ writing[id] = "done" /\ outgoing'[id] = Tail(outgoing[id])
          /\ writing'[id] # "done"
      BY <1>14 DEF Written, WriteDone, Started, TypeOK, streamVars, clientVars, ghostsUnchanged
    <2>2. n \in Nat \ {0} /\ Len(outgoing'[id]) = n - 1
          /\ \A i \in 1..n - 1 : outgoing'[id][i] = outgoing[id][i + 1]
      <3>1. outgoing[id] \in Seq(0..sent) /\ outgoing[id] # <<>>
        BY <2>1 DEF SessionInv, TypeOK
      <3>2. n \in Nat \ {0}
        BY <3>1, EmptySeq
      <3>3. /\ Len(Tail(outgoing[id])) = n - 1
            /\ \A i \in 1..Len(Tail(outgoing[id])) : Tail(outgoing[id])[i] = outgoing[id][i + 1]
        BY <3>1, HeadTailProperties
      <3> QED BY <2>1, <3>2, <3>3
    <2>3. \A i \in 1..Len(outgoing'[id]) :
            outgoing'[id][i] = sent' - Len(outgoing'[id]) + i
      <3>1. \A i \in 1..n : outgoing[id][i] = sent - n + i
        BY DEF ScreenInv
      <3>2. sent \in Nat
        BY DEF TypeOK
      <3> HIDE DEF n
      <3>3. ASSUME NEW i \in 1..n - 1 PROVE outgoing'[id][i] = sent - (n - 1) + i
        <4>1. i + 1 \in 1..n
          BY <2>2
        <4>2. outgoing[id][i + 1] = sent - n + (i + 1)
          BY <3>1, <4>1
        <4> QED BY <2>2, <3>2, <4>2
      <3> QED BY <2>1, <2>2, <3>3
    <2>4. TextsWritten' = TextsWritten
      <3>1. sent \in Nat
        BY DEF TypeOK
      <3>2. sent + 1 - (n - 1) + 0 = sent + 1 - n + 1
        <4> HIDE DEF n
        <4> QED BY <2>2, <3>1
      <3>3. Len(outgoing'[id]) = n - 1
        BY <2>2
      <3> QED BY <2>1, <3>2, <3>3 DEF TextsWritten
    <2> QED BY <2>1, <2>3, <2>4 DEF ScreenInv, TextsShownInOrder, LinesFrom
  <1>15. CASE Disconnect
    <2>1. UNCHANGED outgoing /\ socket'[id] = "closed"
      BY <1>15 DEF Disconnect, ReadError, WriteError, CloseSocket, TypeOK
    <2> QED BY <1>15, <2>1, ScreenFrame DEF Disconnect, streamVars, clientVars, ghostsUnchanged
  <1>16. CASE Message
    BY <1>16, ScreenSend DEF Message, streamVars, clientVars
  <1>17. CASE BrokerDies
    <2>1. /\ outgoing'[id] = <<>> /\ socket'[id] = "closed"
          /\ UNCHANGED <<screenBuffer, downstream, shown>>
      BY <1>17 DEF BrokerDies, Nothing, TypeOK, clientVars
    <2>2. \A i \in 1..Len(outgoing'[id]) :
            outgoing'[id][i] = sent' - Len(outgoing'[id]) + i
      BY <2>1
    <2>3. LinesFrom(screenBuffer' \o downstream', Len(shown'))
      BY <2>1 DEF ScreenInv
    <2> QED BY <2>1, <2>2, <2>3 DEF ScreenInv, TextsShownInOrder
  <1>18. CASE Reset
    BY <1>18, ScreenFrame DEF Reset, clientVars, brokerVars, sessionVars
  <1>19. CASE UNCHANGED vars
    BY <1>19, ScreenFrame DEF vars, streamVars, clientVars, brokerVars, sessionVars
  <1>20. CASE Close
    BY <1>20, ScreenFrame DEF Close, brokerVars, sessionVars
  <1>21. CASE AwaitBytes
    BY <1>21, ScreenFrame DEF AwaitBytes, streamVars, brokerVars, sessionVars
  <1> QED
    BY <1>1, <1>2, <1>3, <1>4, <1>5, <1>6, <1>7, <1>8, <1>9, <1>10, <1>11, <1>12,
       <1>13, <1>14, <1>15, <1>16, <1>17, <1>18, <1>19, <1>20, <1>21
    DEF Next, User, Reader, Network, Handlers

-----------------------------------------------------------------------------
(* From the user to the handler of a line *)

\* At most one line is on its way.  The session holds what was typed and is not
\* handled, in its streambuf or on the stream, until it is closed; and as long as
\* it reads, or has a line to handle, what it holds starts with the next line.
RequestInv ==
  /\ typed <= Len(handled) + 1
  /\ Len(received) + Len(upstream) <= 2 * (typed - Len(handled))
  /\ socket[id] # "closed" =>
       Len(received) + Len(upstream) = 2 * (typed - Len(handled))
  /\ socket[id] = "none" \/ reading[id] \in {"pending", "ready"} =>
       LinesFrom(received \o upstream, Len(handled) + 1)
  /\ reading[id] = "ready" => HasLine(received)
  /\ LinesHandledInOrder

\* A step that leaves the lines alone, and neither opens the socket nor starts a
\* read on it that was not there.
LEMMA RequestFrame ==
  ASSUME RequestInv,
         UNCHANGED <<typed, handled, received, upstream>>,
         socket'[id] # "closed" => socket[id] # "closed",
         socket'[id] = "none" \/ reading'[id] \in {"pending", "ready"} =>
           socket[id] = "none" \/ reading[id] \in {"pending", "ready"},
         reading'[id] = "ready" => reading[id] = "ready"
  PROVE  RequestInv'
  BY DEF RequestInv, LinesHandledInOrder

\* A user who waits has typed at most as many lines as were answered.
LEMMA UserHasAnswers ==
  ASSUME TypeOK, SessionInv, UserWaits, TypeLine
  PROVE  typed <= Len(handled)
  <1>1. Len(answers) \in Nat /\ DOMAIN answers = 1..Len(answers)
    BY LenProperties DEF TypeOK
  <1>2. IsFiniteSet(1..Len(answers)) /\ Cardinality(1..Len(answers)) = Len(answers)
    <2>1. ASSUME NEW n \in Nat
          PROVE  IsFiniteSet(1..n) /\ Cardinality(1..n) = IF 1 > n THEN 0 ELSE n - 1 + 1
      BY FS_Interval
    <2>2. ASSUME NEW n \in Nat
          PROVE  (IF 1 > n THEN 0 ELSE n - 1 + 1) = n
      OBVIOUS
    <2> QED BY <1>1, <2>1, <2>2
  <1>3. Answered \subseteq 1..Len(answers)
    BY <1>1 DEF Answered
  <1>4. Cardinality(Answered) <= Cardinality(1..Len(answers))
    BY <1>2, <1>3, FS_Subset
  <1>5. Cardinality(Answered) = typed
    BY DEF TypeLine
  <1> QED BY <1>2, <1>4, <1>5 DEF SessionInv

\* A line is typed: nothing else is on its way.
LEMMA RequestType ==
  ASSUME TypeOK, SessionInv, RequestInv, UserWaits, TypeLine
  PROVE  RequestInv'
  <1> DEFINE h == Len(handled)
             all == received \o upstream
  <1>1. /\ typed' = typed + 1
        /\ UNCHANGED <<handled, received, socket, reading>>
      BY DEF TypeLine, brokerVars, sessionVars
  <1>2. h \in Nat /\ typed \in Nat /\ Len(received) \in Nat /\ Len(upstream) \in Nat
    BY LenProperties DEF TypeOK
  <1>3. typed = h /\ Len(received) + Len(upstream) = 0
    <2>1. typed <= h
      BY UserHasAnswers
    <2>2. Len(received) + Len(upstream) <= 2 * (typed - h)
      BY DEF RequestInv
    <2> HIDE DEF h
    <2> QED BY <1>2, <2>1, <2>2
  <1>4. typed' <= Len(handled') + 1
    BY <1>1, <1>2, <1>3
  <1>5. CASE socket[id] = "closed"
    <2>1. upstream' = upstream
      BY <1>5 DEF TypeLine
    <2>2. Len(received') + Len(upstream') <= 2 * (typed' - Len(handled'))
      <3>1. Len(received') + Len(upstream') = 0 /\ Len(handled') = h
        BY <1>1, <1>3, <2>1
      <3> HIDE DEF h
      <3> QED BY <1>1, <1>2, <1>3, <3>1
    <2> QED BY <1>1, <1>4, <1>5, <2>1, <2>2 DEF RequestInv, LinesHandledInOrder
  <1>6. CASE socket[id] # "closed"
    <2>1. upstream' = upstream \o Bytes(typed + 1)
      BY <1>6 DEF TypeLine
    <2>2. Bytes(typed + 1) \in Seq(Byte) /\ Len(Bytes(typed + 1)) = 2
      <3>1. typed + 1 \in Nat
        BY <1>2
      <3> QED BY <3>1, LineBytes
    <2>3. Len(upstream') = Len(upstream) + 2
      <3>1. upstream \in Seq(Byte)
        BY DEF TypeOK
      <3>2. Len(upstream \o Bytes(typed + 1)) = Len(upstream) + Len(Bytes(typed + 1))
        BY <2>2, <3>1, ConcatProperties
      <3> QED BY <2>1, <2>2, <3>2
    <2>4. Len(received') + Len(upstream') = 2 * (typed' - Len(handled'))
      <3>1. Len(received') = Len(received) /\ Len(handled') = h
        BY <1>1
      <3> HIDE DEF h
      <3> QED BY <1>1, <1>2, <1>3, <2>3, <3>1
    <2>5. ASSUME socket[id] = "none" \/ reading[id] \in {"pending", "ready"}
          PROVE  LinesFrom(received' \o upstream', Len(handled') + 1)
      <3>1. LinesFrom(all, h + 1)
        BY <2>5 DEF RequestInv
      <3>2. all \in Seq(Byte) /\ Len(all) = 2 * 0
        BY <1>3, ConcatProperties DEF TypeOK
      <3>3. LinesFrom(all \o Bytes(h + 1 + 0), h + 1)
        <4>1. h + 1 \in Nat
          BY <1>2
        <4> HIDE DEF all, h
        <4> QED BY <3>1, <3>2, <4>1, LineAdded
      <3>4. h + 1 + 0 = typed + 1
        BY <1>2, <1>3
      <3>5. received \o (upstream \o Bytes(typed + 1)) = all \o Bytes(typed + 1)
        BY <2>2, BytesAssociate DEF TypeOK
      <3> QED BY <1>1, <2>1, <3>3, <3>4, <3>5
    <2>6. Len(received') + Len(upstream') <= 2 * (typed' - Len(handled'))
      <3>1. Len(received') = Len(received) /\ Len(handled') = h
        BY <1>1
      <3> HIDE DEF h
      <3> QED BY <1>1, <1>2, <1>3, <2>3, <3>1
    <2> QED BY <1>1, <1>4, <2>4, <2>5, <2>6 DEF RequestInv, LinesHandledInOrder
  <1> QED BY <1>5, <1>6

\* Bytes arrive at the session; they may complete a line.
LEMMA RequestReceive ==
  ASSUME TypeOK, RequestInv, SessionReceives
  PROVE  RequestInv'
  <1>1. PICK n \in 1..Len(upstream) :
          /\ received' = received \o SubSeq(upstream, 1, n)
          /\ upstream' = SubSeq(upstream, n + 1, Len(upstream))
    BY DEF SessionReceives
  <1>2. /\ received' \o upstream' = received \o upstream
        /\ Len(received') + Len(upstream') = Len(received) + Len(upstream)
    BY <1>1, BytesMove DEF TypeOK
  <1>3. UNCHANGED <<typed, handled, socket>>
    BY DEF SessionReceives, LineArrives, ReadEnds, sessionVars, clientVars, ghostsUnchanged
  <1>4. reading[id] = "pending" /\ (reading'[id] = "ready" => HasLine(received'))
    BY OneSession DEF SessionReceives, LineArrives, ReadEnds, sessionVars, TypeOK
  <1> QED BY <1>2, <1>3, <1>4 DEF RequestInv, LinesHandledInOrder

\* The handler of a line: it was the only one, so nothing is lost with the
\* streambuf.
LEMMA RequestHandle ==
  ASSUME TypeOK, RequestInv, Handle
  PROVE  RequestInv'
  <1> DEFINE h == Len(handled)
  <1>1. h \in Nat /\ typed \in Nat /\ Len(received) \in Nat /\ Len(upstream) \in Nat
    BY LenProperties DEF TypeOK
  <1>2. /\ reading[id] = "ready" /\ received' = <<>>
        /\ handled' = Append(handled, FirstLine(received))
        /\ reading'[id] \in {"pending", "failed"}
        /\ UNCHANGED <<typed, upstream, socket>>
    BY OneSession, RespondEffect DEF Handle, Started, TypeOK, streamVars, clientVars
  <1>3. HasLine(received) /\ LinesFrom(received \o upstream, h + 1)
    BY <1>2 DEF RequestInv
  <1>4. Len(received) >= 2 /\ FirstLine(received) = Bytes(h + 1)
    <2>1. h + 1 \in Nat
      BY <1>1
    <2> HIDE DEF h
    <2> QED BY <1>3, <2>1, NextLineFirst DEF TypeOK
  <1>5. typed = h + 1 /\ Len(upstream) = 0
    <2>1. typed <= h + 1 /\ Len(received) + Len(upstream) <= 2 * (typed - h)
      BY DEF RequestInv
    <2>2. Len(received) >= 2
      BY <1>4
    <2> HIDE DEF h
    <2> QED BY <1>1, <2>1, <2>2
  <1>6. /\ Len(handled') = h + 1
        /\ \A k \in 1..h : handled'[k] = handled[k]
        /\ handled'[h + 1] = Bytes(h + 1)
        /\ DOMAIN handled' = 1..h + 1 /\ DOMAIN handled = 1..h
    <2>1. FirstLine(received) \in Seq(Byte)
      BY LineTypes DEF TypeOK
    <2>2. handled' \in Seq(Seq(Byte))
      BY <1>2, <2>1, AppendProperties DEF TypeOK
    <2> QED BY <1>2, <1>4, <2>1, <2>2, AppendProperties, LenProperties DEF TypeOK
  <1>7. LinesHandledInOrder'
    <2>1. \A k \in 1..h : handled[k] = Bytes(k)
      BY <1>6 DEF RequestInv, LinesHandledInOrder
    <2>2. \A k \in 1..h + 1 : handled'[k] = Bytes(k)
      <3> HIDE DEF h
      <3> QED BY <1>1, <1>6, <2>1
    <2> QED BY <1>6, <2>2 DEF LinesHandledInOrder
  <1>8. Len(received') + Len(upstream') = 0 /\ typed' - Len(handled') = 0
    BY <1>1, <1>2, <1>5, <1>6
  <1>9. LinesFrom(received' \o upstream', Len(handled') + 1)
    <2>1. received' \o upstream' = upstream
      BY <1>2, ConcatEmptySeq DEF TypeOK
    <2> QED BY <1>5, <2>1 DEF LinesFrom
  <1>10. typed' <= Len(handled') + 1
    BY <1>1, <1>2, <1>5, <1>6
  <1> QED BY <1>2, <1>7, <1>8, <1>9, <1>10 DEF RequestInv

\* The session is closed; what is in its streambuf may be dropped.
LEMMA RequestDisconnect ==
  ASSUME TypeOK, RequestInv, Disconnect
  PROVE  RequestInv'
  <1>1. UNCHANGED <<typed, upstream, handled>> /\ socket'[id] = "closed"
    BY OneSession
    DEF Disconnect, ReadError, WriteError, CloseSocket, TypeOK, streamVars, clientVars,
        ghostsUnchanged
  <1>2. CASE reading[id] = "failed"
    <2>1. received' = <<>> /\ reading'[id] \in {"idle", "failed"}
      BY <1>2, OneSession
      DEF Disconnect, ReadError, WriteError, Aborted, TypeOK
    <2>2. Len(received) \in Nat /\ Len(upstream) \in Nat /\ Len(handled) \in Nat
          /\ typed \in Nat
      BY LenProperties DEF TypeOK
    <2>3. Len(received') + Len(upstream') <= 2 * (typed' - Len(handled'))
      <3>1. Len(received') = 0
        BY <2>1
      <3>2. Len(received) + Len(upstream) <= 2 * (typed - Len(handled))
        BY DEF RequestInv
      <3> QED BY <1>1, <2>2, <3>1, <3>2
    <2> QED BY <1>1, <2>1, <2>3 DEF RequestInv, LinesHandledInOrder
  <1>3. CASE reading[id] # "failed"
    <2>1. received' = received
      BY <1>3 DEF Disconnect
    <2>2. reading'[id] = Aborted(reading[id])
      BY <1>3, OneSession DEF Disconnect, ReadError, WriteError, TypeOK
    <2> QED BY <1>1, <2>1, <2>2, RequestFrame DEF Aborted
  <1> QED BY <1>2, <1>3

\* Every step keeps RequestInv, if the user waits.
LEMMA RequestStep ==
  ASSUME TypeOK, SessionInv, RequestInv, UserWaits, [Next]_vars
  PROVE  RequestInv'
  <1> USE OneSession
  <1>1. CASE TypeLine
    BY <1>1, RequestType
  <1>2. CASE TypeFails
    BY <1>2, RequestFrame DEF TypeFails, streamVars, brokerVars, sessionVars
  <1>3. CASE TypeExit
    BY <1>3, RequestFrame DEF TypeExit, brokerVars, sessionVars
  <1>4. CASE EndOfInput
    BY <1>4, RequestFrame DEF EndOfInput, streamVars, brokerVars, sessionVars
  <1>5. CASE ClientReceives
    BY <1>5, RequestFrame DEF ClientReceives, brokerVars, sessionVars
  <1>6. CASE ShowLine
    BY <1>6, RequestFrame DEF ShowLine, streamVars, brokerVars, sessionVars
  <1>7. CASE ReaderEnds
    BY <1>7, RequestFrame DEF ReaderEnds, streamVars, brokerVars, sessionVars
  <1>8. CASE Connection
    <2>1. socket[id] = "none" /\ socket'[id] = "open" /\ reading'[id] = "pending"
      BY <1>8 DEF Connection, Accept, SessionInv, TypeOK
    <2> QED BY <1>8, <2>1, RequestFrame DEF Connection, streamVars, clientVars, ghostsUnchanged
  <1>9. CASE SessionReceives
    BY <1>9, RequestReceive
  <1>10. CASE SessionReadFails
    <2>1. UNCHANGED socket /\ reading'[id] = "failed"
      BY <1>10 DEF SessionReadFails, ReadFails, ReadEnds, TypeOK
    <2> QED BY <1>10, <2>1, RequestFrame
        DEF SessionReadFails, streamVars, clientVars, ghostsUnchanged
  <1>11. CASE SessionWrites
    BY <1>11, RequestFrame
    DEF SessionWrites, WriteCompletes, WriteEnds, clientVars, ghostsUnchanged
  <1>12. CASE SessionWriteFails
    BY <1>12, RequestFrame
    DEF SessionWriteFails, WriteFails, WriteEnds, streamVars, clientVars, ghostsUnchanged
  <1>13. CASE Handle
    BY <1>13, RequestHandle
  <1>14. CASE Written
    BY <1>14, RequestFrame DEF Written, WriteDone, streamVars, clientVars, ghostsUnchanged
  <1>15. CASE Disconnect
    BY <1>15, RequestDisconnect
  <1>16. CASE Message
    BY <1>16, RequestFrame DEF Message, streamVars, clientVars
  <1>17. CASE BrokerDies
    <2>1. /\ socket'[id] = "closed" /\ reading'[id] = "idle" /\ received' = <<>>
          /\ UNCHANGED <<typed, upstream, handled>>
      BY <1>17 DEF BrokerDies, TypeOK, clientVars, ghostsUnchanged
    <2>2. Len(received) \in Nat /\ Len(upstream) \in Nat /\ Len(handled) \in Nat
          /\ typed \in Nat
      BY LenProperties DEF TypeOK
    <2>3. Len(received') + Len(upstream') <= 2 * (typed' - Len(handled'))
      <3>1. Len(received') = 0
        BY <2>1
      <3>2. Len(received) + Len(upstream) <= 2 * (typed - Len(handled))
        BY DEF RequestInv
      <3> QED BY <2>1, <2>2, <3>1, <3>2
    <2> QED BY <2>1, <2>3 DEF RequestInv, LinesHandledInOrder
  <1>18. CASE Reset
    BY <1>18, RequestFrame DEF Reset, clientVars, brokerVars, sessionVars
  <1>19. CASE UNCHANGED vars
    BY <1>19, RequestFrame DEF vars, streamVars, clientVars, brokerVars, sessionVars
  <1>20. CASE Close
    BY <1>20, RequestFrame DEF Close, brokerVars, sessionVars
  <1>21. CASE AwaitBytes
    BY <1>21, RequestFrame DEF AwaitBytes, streamVars, brokerVars, sessionVars
  <1> QED
    BY <1>1, <1>2, <1>3, <1>4, <1>5, <1>6, <1>7, <1>8, <1>9, <1>10, <1>11, <1>12,
       <1>13, <1>14, <1>15, <1>16, <1>17, <1>18, <1>19, <1>20, <1>21
    DEF Next, User, Reader, Network, Handlers

-----------------------------------------------------------------------------
(* The theorems *)

\* At the start nothing has been sent either way.
LEMMA InitInv == Init => TypeOK /\ SessionInv /\ ScreenInv /\ RequestInv
  <1> SUFFICES ASSUME Init PROVE TypeOK /\ SessionInv /\ ScreenInv /\ RequestInv
    OBVIOUS
  <1> USE OneSession DEF Init, SessionInit
  <1>1. TypeOK
    <2>1. /\ <<>> \in Seq(Byte) /\ <<>> \in Seq(Seq(Byte))
          /\ <<>> \in Seq(0..sent) /\ <<>> \in Seq(1..sent)
      BY EmptySeq
    <2>2. /\ socket \in [SessionIds -> {"none", "open", "closed"}]
          /\ reading \in [SessionIds -> {"idle", "pending", "ready", "failed"}]
          /\ writing \in [SessionIds -> {"idle", "pending", "done", "failed"}]
          /\ outgoing \in [SessionIds -> Seq(0..sent)]
      BY <2>1
    <2> QED BY <2>1, <2>2 DEF TypeOK
  <1>2. /\ socket[id] = "none" /\ reading[id] = "idle" /\ writing[id] = "idle"
        /\ outgoing[id] = <<>>
    OBVIOUS
  <1>3. SessionInv
    BY <1>2 DEF SessionInv
  <1>4. \A m \in Nat : LinesFrom(<<>> \o <<>>, m)
    <2>1. <<>> \in Seq(Byte) /\ <<>> \o <<>> = <<>> /\ Len(<<>>) = 0
      BY EmptySeq, ConcatEmptySeq
    <2> QED BY <2>1 DEF LinesFrom
  <1>5. ScreenInv
    BY <1>2, <1>4 DEF ScreenInv, TextsShownInOrder
  <1>6. RequestInv
    BY <1>2, <1>4 DEF RequestInv, LinesHandledInOrder
  <1> QED BY <1>1, <1>3, <1>5, <1>6

\* Both ends of the connection, the streams and the buffers keep their types, for
\* any number of lines and messages and whatever the user does.
THEOREM ConversationTypeCorrect == Spec => []TypeOK
  <1>1. Init => TypeOK /\ SessionInv
    BY InitInv
  <1>2. TypeOK /\ SessionInv /\ [Next]_vars => (TypeOK /\ SessionInv)'
    BY TypeStep, SessionStep
  <1> QED BY <1>1, <1>2, PTL DEF Spec

\* The client shows the texts of the broker whole, once and in order, however the
\* stream is cut and whatever the user does: the streambuf that the console client
\* keeps between two reads, and the one write in flight of the session.
THEOREM TextsKeepOrder == Spec => []TextsShownInOrder
  <1>1. Init => TypeOK /\ SessionInv /\ ScreenInv
    BY InitInv
  <1>2. TypeOK /\ SessionInv /\ ScreenInv /\ [Next]_vars
          => (TypeOK /\ SessionInv /\ ScreenInv)'
    BY TypeStep, SessionStep, ScreenStep
  <1>3. ScreenInv => TextsShownInOrder
    BY DEF ScreenInv
  <1> QED BY <1>1, <1>2, <1>3, PTL DEF Spec

\* For a user who waits for each answer, the broker runs the lines that were
\* typed, whole, once and in order: the streambuf that Session::Read throws away
\* then never holds a byte of another line.
THEOREM RequestsKeepOrder ==
  ASSUME UserWaits
  PROVE  Spec => []LinesHandledInOrder
  <1>1. Init => TypeOK /\ SessionInv /\ RequestInv
    BY InitInv
  <1>2. TypeOK /\ SessionInv /\ RequestInv /\ [Next]_vars
          => (TypeOK /\ SessionInv /\ RequestInv)'
    BY TypeStep, SessionStep, RequestStep
  <1>3. RequestInv => LinesHandledInOrder
    BY DEF RequestInv
  <1> QED BY <1>1, <1>2, <1>3, PTL DEF Spec
=============================================================================
