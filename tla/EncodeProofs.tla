---------------------------- MODULE EncodeProofs -----------------------------
(***************************************************************************)
(* Proofs about Encode, for strings of any length, any first capacity of   *)
(* the buffer and any calls of realloc that fail.                          *)
(*                                                                         *)
(* The buffer comes first, by itself: whatever the sizes of the writes and *)
(* the calls of realloc that fail, the bytes written stay in the block,    *)
(* the block is not twice as large as needed, and a test that returns true *)
(* has all its bytes.  The buffer of Encode is that of GrowBuffer, whose   *)
(* invariant is taken over: it needs that what the library writes are      *)
(* bytes, which the generator's characters are.  What was asked for and    *)
(* the writes to come make the encoding.  Then a hash keeps every byte     *)
(* since hash_str, as a function from strings to sequences of words, is    *)
(* injective.                                                              *)
(***************************************************************************)
EXTENDS Encode, TLAPS

-----------------------------------------------------------------------------
(* The buffer by itself: the behaviours of GrowBuffer.                     *)

\* The capacity is that of the block; while it grows, the new one is less
\* than twice what is needed; and what was asked for is in the buffer or
\* under way, unless an error was noted.
BufferInv ==
    /\ capacity = size /\ capacity > 0
    /\ Len(data) <= capacity
    /\ NoWaste
    /\ pc = "grow" => newCapacity < 2 * (Len(data) + Len(pending))
    /\ ~error => asked = data \o pending

IInv == TypeOK /\ BufferInv /\ WholeOrFalse

-----------------------------------------------------------------------------
\* The empty sequence, and what joining sequences of bytes gives.
LEMMA EmptySeq == <<>> \in Seq(Byte) /\ Len(<<>>) = 0
  OBVIOUS

LEMMA JoinedType ==
    ASSUME NEW s \in Seq(Byte), NEW t \in Seq(Byte)
    PROVE  /\ s \o t \in Seq(Byte)
           /\ Len(s \o t) = Len(s) + Len(t)
           /\ s \o <<>> = s
  OBVIOUS

\* The empty buffer satisfies the invariant.
LEMMA InitInv == Init => IInv
<1> SUFFICES ASSUME Init PROVE IInv
  OBVIOUS
<1>1. data = <<>> /\ pending = <<>> /\ asked = <<>> /\ pc = "encode"
      /\ capacity = InitialCapacity /\ size = InitialCapacity
  BY DEF Init
<1>2. TypeOK
  BY <1>1, EmptySeq, CapacityAssumption DEF Init, TypeOK
<1>3. BufferInv
  <2>1. asked = data \o pending
    BY <1>1, EmptySeq, JoinedType
  <2> QED
    BY <2>1, <1>1, EmptySeq, CapacityAssumption DEF BufferInv, NoWaste
<1> QED
  BY <1>1, <1>2, <1>3 DEF IInv, WholeOrFalse

\* Every step preserves it.
LEMMA StepInv == IInv /\ [Next]_vars => IInv'
<1> SUFFICES ASSUME IInv, [Next]_vars PROVE IInv'
  OBVIOUS
<1> USE DEF IInv, TypeOK
<1>1. CASE BufferWrite
  <2>1. PICK bytes \in Seq(Byte) :
           /\ pc = "encode"
           /\ asked' = asked \o bytes
           /\ IF Len(data) + Len(bytes) > capacity
              THEN /\ pc' = "grow"
                   /\ pending' = bytes
                   /\ newCapacity' = capacity * 2
                   /\ UNCHANGED data
              ELSE /\ data' = data \o bytes
                   /\ UNCHANGED <<pc, pending, newCapacity>>
           /\ UNCHANGED <<capacity, size, error, stops, returned>>
    BY <1>1 DEF BufferWrite, Write
  <2> DEFINE n == Len(bytes)
  <2>2. n \in Nat
    OBVIOUS
  <2>3. bytes \in Seq(Byte) /\ Len(bytes) = n
    OBVIOUS
  <2>4. pending = <<>>
    BY <2>1
  <2> HIDE DEF n
  <2>5. CASE Len(data) + n > capacity
    <3>1. pc' = "grow" /\ pending' = bytes /\ newCapacity' = capacity * 2
          /\ data' = data /\ asked' = asked \o bytes
      BY <2>1, <2>5 DEF n
    <3>2. n > 0
      BY <2>5, <2>2 DEF BufferInv
    <3>3. TypeOK'
      BY <3>1, <3>2, <2>1, <2>3
    <3>4. BufferInv'
      <4>1. ~error => asked' = data' \o pending'
        BY <3>1, <2>3, <2>4 DEF BufferInv
      <4>2. NoWaste'
        BY <3>1, <2>1 DEF BufferInv, NoWaste
      <4>3. newCapacity' < 2 * (Len(data') + Len(pending'))
        <5>1. Len(data) \in Nat
          OBVIOUS
        <5> QED
          BY <5>1, <3>1, <2>2, <2>3, <2>5
      <4> QED
        BY <4>1, <4>2, <4>3, <3>1, <2>1 DEF BufferInv
    <3> QED
      BY <3>1, <3>3, <3>4 DEF WholeOrFalse
  <2>6. CASE ~(Len(data) + n > capacity)
    <3>1. pc' = "encode" /\ pending' = <<>> /\ newCapacity' = newCapacity
          /\ data' = data \o bytes /\ asked' = asked \o bytes
      BY <2>1, <2>4, <2>6 DEF n
    <3>2. TypeOK'
      <4>1. data' \in Seq(Byte) /\ asked' \in Seq(Byte)
        BY <3>1, <2>3, JoinedType
      <4>2. pending' \in Seq(Byte)
        BY <3>1, EmptySeq
      <4> QED
        BY <4>1, <4>2, <3>1, <2>1
    <3>3. Len(data') = Len(data) + n
      BY <3>1, <2>3, JoinedType
    <3>4. ~error => asked' = data' \o pending'
      BY <3>1, <2>3, <2>4 DEF BufferInv
    <3>5. NoWaste'
      BY <3>3, <2>1, <2>2 DEF BufferInv, NoWaste
    <3>6. Len(data') <= capacity' /\ capacity' = capacity /\ size' = size
      BY <3>3, <2>1, <2>6
    <3>7. BufferInv'
      BY <3>1, <3>4, <3>5, <3>6, <2>1 DEF BufferInv
    <3> QED
      BY <3>1, <3>2, <3>7 DEF WholeOrFalse
  <2> QED
    BY <2>5, <2>6
<1>2. CASE Double
  BY <1>2 DEF Double, TooSmall, BufferInv, NoWaste, WholeOrFalse
<1>3. CASE Reallocate
  <2>1. Len(data') = Len(data) + Len(pending) /\ data' \in Seq(Byte)
    BY <1>3 DEF Reallocate
  <2>2. TypeOK'
    BY <1>3, <2>1 DEF Reallocate
  <2>3. ~error => asked' = data' \o pending'
    BY <1>3, <2>1 DEF Reallocate, BufferInv
  <2>4. capacity' < 2 * Len(data') /\ Len(data') <= capacity' /\ capacity' > 0
    BY <1>3, <2>1 DEF Reallocate, TooSmall, BufferInv
  <2> QED
    BY <1>3, <2>2, <2>3, <2>4 DEF Reallocate, BufferInv, NoWaste, WholeOrFalse
<1>4. CASE ReallocateFails
  BY <1>4 DEF ReallocateFails, BufferInv, NoWaste, WholeOrFalse
<1>5. CASE Finish
  <2>1. pending = <<>> /\ data \o pending = data
    BY <1>5 DEF Finish
  <2> QED
    BY <1>5, <2>1 DEF Finish, BufferInv, NoWaste, WholeOrFalse
<1>6. CASE UNCHANGED vars
  BY <1>6 DEF vars, BufferInv, NoWaste, WholeOrFalse
<1> QED
  BY <1>1, <1>2, <1>3, <1>4, <1>5, <1>6 DEF Next, Done

-----------------------------------------------------------------------------
\* The invariant holds in every state of every behaviour.
THEOREM Invariant == Spec => []IInv
  BY InitInv, StepInv, PTL DEF Spec

\* The variables of the buffer keep their types, and bytes are under way
\* only while it grows.
THEOREM TypeCorrect == Spec => []TypeOK
  BY Invariant, PTL DEF IInv

\* memcpy of buffer_write stays in the block, whichever calls of realloc
\* failed before.
THEOREM StaysInBlock == Spec => []InBlock
<1>1. IInv => InBlock
  BY DEF IInv, TypeOK, BufferInv, InBlock
<1> QED
  BY <1>1, Invariant, PTL

\* The capacity is less than twice the bytes held once the buffer has grown.
THEOREM LittleWaste == Spec => []NoWaste
<1>1. IInv => NoWaste
  BY DEF IInv, BufferInv
<1> QED
  BY <1>1, Invariant, PTL

\* cmp-write and ubj-write return true only of a buffer that holds all the
\* library has written, in order.
THEOREM AllOrNothing == Spec => []WholeOrFalse
  BY Invariant, PTL DEF IInv

-----------------------------------------------------------------------------
(* hash_str and core.hash, as functions of a string.                       *)

LEMMA WordsLength ==
    ASSUME NEW s \in Seq(Byte)
    PROVE  /\ Len(WordsOf(s)) = (Len(s) + 3) \div 4
           /\ (Len(s) + 3) \div 4 \in Nat
           /\ \A k \in 1..((Len(s) + 3) \div 4) :
                  WordsOf(s)[k] = IF 4 * k <= Len(s) THEN WordAt(s, k)
                                                     ELSE LastWord(s)
<1>1. Len(s) \in Nat
    OBVIOUS
<1>2. (Len(s) + 3) \div 4 \in Nat
    BY <1>1
<1> QED BY <1>2 DEF WordsOf

LEMMA Appended ==
    ASSUME NEW S, NEW a \in Seq(S), NEW e \in S
    PROVE  /\ Append(a, e) \in Seq(S)
           /\ Len(Append(a, e)) = Len(a) + 1
           /\ Append(a, e)[Len(a) + 1] = e
    OBVIOUS

LEMMA Concatenated ==
    ASSUME NEW S, NEW a \in Seq(S), NEW b \in Seq(S)
    PROVE  /\ \A k \in 1..Len(a) : (a \o b)[k] = a[k]
           /\ \A k \in 1..Len(b) : (a \o b)[Len(a) + k] = b[k]
    OBVIOUS

\* What is mixed in first is the length, and the words follow.
LEMMA HashParts ==
    ASSUME NEW s \in Seq(Byte)
    PROVE  /\ HashStr(Initial, s)[2] = Len(s)
           /\ \A k \in 1..((Len(s) + 3) \div 4) :
                  HashStr(Initial, s)[2 + k] = WordsOf(s)[k]
<1> DEFINE words == WordsOf(s)
<1> DEFINE Mixed == {"initial"} \cup {Len(s)} \cup
                    {words[k] : k \in 1..((Len(s) + 3) \div 4)}
<1>1. Initial \in Seq(Mixed) /\ Len(Initial) = 1
    BY DEF Initial
<1>2. Len(s) \in Mixed
    OBVIOUS
<1>3. words \in Seq(Mixed) /\ Len(words) = (Len(s) + 3) \div 4
    <2>1. (Len(s) + 3) \div 4 \in Nat /\ Len(words) = (Len(s) + 3) \div 4
        BY WordsLength
    <2>2. words = [k \in 1..((Len(s) + 3) \div 4) |-> words[k]]
        BY DEF WordsOf
    <2> HIDE DEF words
    <2> QED BY <2>1, <2>2
<1> HIDE DEF Mixed, words
<1>4. /\ HashU32(Initial, Len(s)) \in Seq(Mixed)
      /\ Len(HashU32(Initial, Len(s))) = 2
      /\ HashU32(Initial, Len(s))[2] = Len(s)
    <2>1. /\ Append(Initial, Len(s)) \in Seq(Mixed)
          /\ Len(Append(Initial, Len(s))) = Len(Initial) + 1
          /\ Append(Initial, Len(s))[Len(Initial) + 1] = Len(s)
        BY <1>1, <1>2, Appended
    <2>2. Len(Initial) + 1 = 2
        BY <1>1
    <2> QED BY <2>1, <2>2 DEF HashU32
<1>5. HashStr(Initial, s) = HashU32(Initial, Len(s)) \o words
    BY DEF HashStr, words
<1> DEFINE head == HashU32(Initial, Len(s))
<1>6. /\ \A k \in 1..2 : HashStr(Initial, s)[k] = head[k]
      /\ \A k \in 1..Len(words) : HashStr(Initial, s)[2 + k] = words[k]
    <2>1. head \in Seq(Mixed) /\ Len(head) = 2
        BY <1>4
    <2>2. HashStr(Initial, s) = head \o words
        BY <1>5
    <2> HIDE DEF head
    <2>3. /\ \A k \in 1..Len(head) : (head \o words)[k] = head[k]
          /\ \A k \in 1..Len(words) : (head \o words)[Len(head) + k] = words[k]
        <3>1. head \in Seq(Mixed) /\ words \in Seq(Mixed)
            BY <1>3, <2>1
        <3>2. \A k \in 1..Len(head) : (head \o words)[k] = head[k]
            BY <3>1, Concatenated
        <3>3. \A k \in 1..Len(words) : (head \o words)[Len(head) + k] = words[k]
            BY <3>1, Concatenated
        <3> QED BY <3>2, <3>3
    <2> QED BY <2>1, <2>2, <2>3
<1>7. HashStr(Initial, s)[2] = Len(s)
    BY <1>4, <1>6
<1>8. \A k \in 1..((Len(s) + 3) \div 4) :
         HashStr(Initial, s)[2 + k] = WordsOf(s)[k]
    <2>1. words = WordsOf(s)
        BY DEF words
    <2> HIDE DEF head
    <2> QED BY <1>3, <1>6, <2>1
<1> QED BY <1>7, <1>8

\* Two strings of the same length and the same words are the same: every
\* byte is in a word.
LEMMA WordsKeepBytes ==
    ASSUME NEW s \in Seq(Byte), NEW t \in Seq(Byte), Len(s) = Len(t),
           \A k \in 1..((Len(s) + 3) \div 4) : WordsOf(s)[k] = WordsOf(t)[k]
    PROVE  s = t
<1>1. Len(s) \in Nat /\ DOMAIN s = 1..Len(s) /\ DOMAIN t = 1..Len(s)
    OBVIOUS
<1>2. ASSUME NEW j \in 1..Len(s) PROVE s[j] = t[j]
    <2> DEFINE k == (j + 3) \div 4
    <2>1. k \in 1..((Len(s) + 3) \div 4)
        BY <1>1
    <2>2. WordsOf(s)[k] = WordsOf(t)[k]
        BY <2>1
    <2>3. CASE 4 * k <= Len(s)
        <3>1. WordAt(s, k) = WordAt(t, k)
            BY <2>1, <2>2, <2>3, WordsLength
        <3>2. j \in {4 * k - 3, 4 * k - 2, 4 * k - 1, 4 * k}
            BY <1>1
        <3> QED BY <3>1, <3>2 DEF WordAt
    <2>4. CASE 4 * k > Len(s)
        <3> DEFINE left == Len(s) % 4
        <3> DEFINE from == Len(s) - left
        <3>1. LastWord(s) = LastWord(t)
            BY <1>1, <2>1, <2>2, <2>4, WordsLength
        <3>2. left \in 1..3 /\ j \in from + 1..from + left
            BY <1>1, <2>4
        <3> QED BY <3>1, <3>2 DEF LastWord
    <2> QED BY <1>1, <2>3, <2>4
<1> QED BY <1>1, <1>2

LEMMA HashInjective ==
    ASSUME NEW s \in Seq(Byte), NEW t \in Seq(Byte),
           HashStr(Initial, s) = HashStr(Initial, t)
    PROVE  s = t
<1>1. Len(s) = Len(t)
    BY HashParts
<1>2. \A k \in 1..((Len(s) + 3) \div 4) : WordsOf(s)[k] = WordsOf(t)[k]
    BY <1>1, HashParts
<1> QED BY <1>1, <1>2, WordsKeepBytes

\* Where the windows are whole core.hash mixes in the same words.
LEMMA WholeWindowsAgree ==
    ASSUME NEW s \in Seq(Byte), WholeWindows(s), NEW behind
    PROVE  CoreHash(Initial, s, behind) = HashStr(Initial, s)
<1>1. Len(s) \in Nat /\ Len(s) > 0 /\ Len(s) % 4 = 0
    BY DEF WholeWindows
<1>2. PICK n \in Nat : n > 0 /\ Len(s) = 4 * n
    BY <1>1
<1>3. LastWindow(s) = n /\ (Len(s) + 3) \div 4 = n
    BY <1>2 DEF LastWindow
<1>4. ASSUME NEW k \in 1..n
      PROVE  Copied(Window(s, k), behind) = WordAt(s, k)
    <2>1. 4 * k <= Len(s) /\ 4 * k - 3 \in 1..Len(s)
        BY <1>2
    <2>2. PICK a \in Nat : a = 4 * k - 3
        BY <2>1
    <2>3. Window(s, k) = SubSeq(s, a, a + 3)
        BY <2>1, <2>2 DEF Window
    <2>4. SubSeq(s, a, a + 3) = [j \in 1..4 |-> s[a + j - 1]]
        BY <1>1, <2>1, <2>2
    <2>5. /\ Len(Window(s, k)) = 4
          /\ \A j \in 1..4 : Window(s, k)[j] = s[4 * k - 4 + j]
        BY <2>2, <2>3, <2>4
    <2>6. Copied(Window(s, k), behind) = [j \in 1..4 |-> s[4 * k - 4 + j]]
        BY <2>5 DEF Copied
    <2> QED BY <2>6 DEF WordAt
<1>5. WordsOf(s) = [k \in 1..LastWindow(s) |-> Copied(Window(s, k), behind)]
    BY <1>2, <1>3, <1>4 DEF WordsOf
<1> QED BY <1>5 DEF CoreHash, HashStr

-----------------------------------------------------------------------------
(* The inductive invariant.                                                *)

Entry == [str : Seq(Byte), len : Nat]

\* The string under construction is whole as far as it goes.
StringInv ==
    /\ length \in Nat
    /\ str \in Seq(Byte)
    /\ Len(str) <= length
    /\ Generator!WellFormedString(str, Len(str))

\* What has been generated, and that no more than two are.
ObjectInv ==
    /\ object \in Seq(Entry)
    /\ Len(object) <= 2
    /\ kind # "none" => Len(object) < 2
    /\ \A k \in DOMAIN object :
           Generator!WellFormedString(object[k].str, object[k].len)

\* What was asked for and the writes to come, for a key and a value.
Split(m1, s1, m2, s2) ==
    \/ writes = <<<<129>>, m1, s1, m2, s2>> /\ asked = <<>>
    \/ writes = <<m1, s1, m2, s2>> /\ asked = <<129>>
    \/ writes = <<s1, m2, s2>> /\ asked = <<129>> \o m1
    \/ writes = <<m2, s2>> /\ asked = <<129>> \o m1 \o s1
    \/ writes = <<s2>> /\ asked = <<129>> \o m1 \o s1 \o m2
    \/ writes = <<>> /\ asked = <<129>> \o m1 \o s1 \o m2 \o s2

\* Nothing is written before the object is whole.
WritesInv ==
    /\ Len(object) < 2 => writes = <<>> /\ asked = <<>> /\ pc = "encode"
    /\ Len(object) = 2 => Split(Marked(object[1]), object[1].str,
                                Marked(object[2]), object[2].str)

\* A hash is of what is in the buffer at the end.
HashInv ==
    pc = "done" /\ returned =>
        /\ writes = <<>>
        /\ hash = HashStr(Initial, data)
        /\ zigHash \in CoreHashes(data)

EncodeInv == StringInv /\ ObjectInv /\ WritesInv /\ HashInv

-----------------------------------------------------------------------------
LEMMA EmptyString ==
    <<>> \in Seq(Byte) /\ Len(<<>>) = 0 /\ Generator!WellFormedString(<<>>, 0)
    BY DEF Generator!WellFormedString

\* A character of one byte, or of two, behind a whole string.
LEMMA PutOne ==
    ASSUME NEW s \in Seq(Byte), Generator!WellFormedString(s, Len(s)),
           NEW c \in 1..127
    PROVE  /\ s \o <<c>> \in Seq(Byte)
           /\ Append(s, c) = s \o <<c>>
           /\ Len(s \o <<c>>) = Len(s) + 1
           /\ Generator!WellFormedString(s \o <<c>>, Len(s \o <<c>>))
<1>1. c \in Byte /\ s \o <<c>> = Append(s, c)
    BY DEF Byte
<1>2. /\ Append(s, c) \in Seq(Byte)
      /\ Len(Append(s, c)) = Len(s) + 1
      /\ \A k \in 1..Len(s) : Append(s, c)[k] = s[k]
      /\ Append(s, c)[Len(s) + 1] = c
    BY <1>1
<1>3. ASSUME NEW k \in 1..(Len(s) + 1), NEW t, t = Append(s, c)
      PROVE  \/ Generator!IsAscii(t[k])
             \/ /\ Generator!IsLead(t[k]) /\ k < Len(s) + 1
                /\ Generator!IsTail(t[k + 1])
             \/ Generator!IsTail(t[k]) /\ k > 1 /\ Generator!IsLead(t[k - 1])
    <2>1. CASE k = Len(s) + 1
        BY <1>2, <1>3, <2>1 DEF Generator!IsAscii
    <2>2. CASE k \in 1..Len(s)
        <3>1. \/ Generator!IsAscii(s[k])
              \/ /\ Generator!IsLead(s[k]) /\ k < Len(s)
                 /\ Generator!IsTail(s[k + 1])
              \/ Generator!IsTail(s[k]) /\ k > 1 /\ Generator!IsLead(s[k - 1])
            BY <2>2 DEF Generator!WellFormedString
        <3> QED BY <1>2, <1>3, <2>2, <3>1
    <2> QED BY <2>1, <2>2
<1> QED BY <1>1, <1>2, <1>3 DEF Generator!WellFormedString

LEMMA PutTwo ==
    ASSUME NEW s \in Seq(Byte), Generator!WellFormedString(s, Len(s)),
           NEW a \in 194..223, NEW b \in 128..191
    PROVE  /\ s \o <<a, b>> \in Seq(Byte)
           /\ Len(s \o <<a, b>>) = Len(s) + 2
           /\ Generator!WellFormedString(s \o <<a, b>>, Len(s \o <<a, b>>))
<1>1. /\ s \o <<a, b>> \in Seq(Byte)
      /\ Len(s \o <<a, b>>) = Len(s) + 2
      /\ \A k \in 1..Len(s) : (s \o <<a, b>>)[k] = s[k]
      /\ (s \o <<a, b>>)[Len(s) + 1] = a
      /\ (s \o <<a, b>>)[Len(s) + 2] = b
    BY DEF Byte
<1>2. ASSUME NEW k \in 1..(Len(s) + 2), NEW t, t = s \o <<a, b>>
      PROVE  \/ Generator!IsAscii(t[k])
             \/ /\ Generator!IsLead(t[k]) /\ k < Len(s) + 2
                /\ Generator!IsTail(t[k + 1])
             \/ Generator!IsTail(t[k]) /\ k > 1 /\ Generator!IsLead(t[k - 1])
    <2>1. CASE k = Len(s) + 1
        BY <1>1, <1>2, <2>1 DEF Generator!IsLead, Generator!IsTail
    <2>2. CASE k = Len(s) + 2
        <3>1. k - 1 = Len(s) + 1 /\ k > 1
            BY <2>2
        <3> QED BY <1>1, <1>2, <2>2, <3>1 DEF Generator!IsLead, Generator!IsTail
    <2>3. CASE k \in 1..Len(s)
        <3>1. \/ Generator!IsAscii(s[k])
              \/ /\ Generator!IsLead(s[k]) /\ k < Len(s)
                 /\ Generator!IsTail(s[k + 1])
              \/ Generator!IsTail(s[k]) /\ k > 1 /\ Generator!IsLead(s[k - 1])
            BY <2>3 DEF Generator!WellFormedString
        <3> QED BY <1>1, <1>2, <2>3, <3>1
    <2> QED BY <2>1, <2>2, <2>3
<1> QED BY <1>1, <1>2 DEF Generator!WellFormedString

\* A code point of Latin-1 is a lead byte and a tail.
LEMMA Utf8Bytes ==
    ASSUME NEW cp \in 161..255
    PROVE  /\ 192 + cp \div 64 \in 194..223
           /\ 128 + (cp % 64) \in 128..191
    OBVIOUS

\* The lengths drawn are natural.
LEMMA LengthType == \A x \in Generator!RandomInverse(MaxString) : x \in Nat
    BY StringAssumption DEF Generator!RandomInverse

LEMMA MarkedType ==
    ASSUME NEW e \in Entry
    PROVE  Marked(e) \in Seq(Byte)
<1>1. e.len \in Nat
    BY DEF Entry
<1>2. /\ (e.len \div 256) % 256 \in Byte
      /\ e.len % 256 \in Byte
    BY <1>1 DEF Byte
<1>3. CASE e.len < 32
    <2>1. 160 + e.len \in Byte
        BY <1>1, <1>3 DEF Byte
    <2> QED BY <1>3, <2>1 DEF Marked
<1>4. CASE e.len >= 32 /\ e.len < 256
    <2>1. 217 \in Byte /\ e.len \in Byte
        BY <1>1, <1>4 DEF Byte
    <2> QED BY <1>1, <1>4, <2>1 DEF Marked
<1>5. CASE e.len >= 256
    <2>1. 218 \in Byte
        BY DEF Byte
    <2> DEFINE high == (e.len \div 256) % 256
    <2> DEFINE low == e.len % 256
    <2>2. Marked(e) = <<218, high, low>>
        BY <1>1, <1>5 DEF Marked
    <2>3. high \in Byte /\ low \in Byte
        BY <1>2
    <2> HIDE DEF high, low
    <2> QED BY <2>1, <2>2, <2>3
<1> QED BY <1>1, <1>3, <1>4, <1>5

\* The object of two entries, and what is in them.
LEMMA Entries ==
    ASSUME ObjectInv, Len(object) = 2
    PROVE  /\ object[1] \in Entry /\ object[2] \in Entry
           /\ object[1].str \in Seq(Byte) /\ object[2].str \in Seq(Byte)
           /\ Marked(object[1]) \in Seq(Byte)
           /\ Marked(object[2]) \in Seq(Byte)
<1>1. object[1] \in Entry /\ object[2] \in Entry
    BY DEF ObjectInv
<1>2. object[1].str \in Seq(Byte) /\ object[2].str \in Seq(Byte)
    BY <1>1 DEF Entry
<1> QED BY <1>1, <1>2, MarkedType

LEMMA Header == <<129>> \in Seq(Byte)
    BY DEF Byte

\* The next write is one of the five, and takes its place in what is asked.
LEMMA NextWrite ==
    ASSUME NEW m1 \in Seq(Byte), NEW s1 \in Seq(Byte),
           NEW m2 \in Seq(Byte), NEW s2 \in Seq(Byte),
           Split(m1, s1, m2, s2), writes # <<>>,
           writes' = Tail(writes), asked' = asked \o Head(writes)
    PROVE  Head(writes) \in Seq(Byte) /\ Split(m1, s1, m2, s2)'
<1>1. CASE writes = <<<<129>>, m1, s1, m2, s2>> /\ asked = <<>>
    <2>1. Head(writes) = <<129>> /\ Tail(writes) = <<m1, s1, m2, s2>>
        BY <1>1
    <2>2. asked' = <<129>>
        BY <1>1, <2>1
    <2> QED BY <2>1, <2>2, Header DEF Split
<1>2. CASE writes = <<m1, s1, m2, s2>> /\ asked = <<129>>
    <2>1. Head(writes) = m1 /\ Tail(writes) = <<s1, m2, s2>>
        BY <1>2
    <2> QED BY <1>2, <2>1 DEF Split
<1>3. CASE writes = <<s1, m2, s2>> /\ asked = <<129>> \o m1
    <2>1. Head(writes) = s1 /\ Tail(writes) = <<m2, s2>>
        BY <1>3
    <2> QED BY <1>3, <2>1 DEF Split
<1>4. CASE writes = <<m2, s2>> /\ asked = <<129>> \o m1 \o s1
    <2>1. Head(writes) = m2 /\ Tail(writes) = <<s2>>
        BY <1>4
    <2> QED BY <1>4, <2>1 DEF Split
<1>5. CASE writes = <<s2>> /\ asked = <<129>> \o m1 \o s1 \o m2
    <2>1. Head(writes) = s2 /\ Tail(writes) = <<>>
        BY <1>5
    <2> QED BY <1>5, <2>1 DEF Split
<1> QED BY <1>1, <1>2, <1>3, <1>4, <1>5 DEF Split

-----------------------------------------------------------------------------
(* Every step preserves the invariant.                                     *)

LEMMA EncodeInvInit == EncodeInit => EncodeInv
<1> SUFFICES ASSUME EncodeInit PROVE EncodeInv
    OBVIOUS
<1>1. StringInv
    BY EmptyString DEF EncodeInit, Generator!Init, StringInv
<1>2. ObjectInv
    BY DEF EncodeInit, Generator!Init, ObjectInv
<1>3. WritesInv
    BY DEF EncodeInit, Init, WritesInv
<1>4. HashInv
    BY DEF EncodeInit, Init, HashInv
<1> QED BY <1>1, <1>2, <1>3, <1>4 DEF EncodeInv

\* A function that generates a string is called.
LEMMA NewInv ==
    ASSUME EncodeInv, NewKey \/ NewString
    PROVE  EncodeInv'
<1>1. /\ Len(object) < 2
      /\ length' \in Nat /\ str' = <<>>
      /\ UNCHANGED <<vars, object, writes, hashVars>>
    <2>1. CASE NewKey
        <3>1. length' \in KeyLengths /\ object = <<>>
            BY <2>1 DEF NewKey, Generator!StartKey
        <3>2. length' \in Nat
            BY <3>1, StringAssumption
        <3> QED BY <2>1, <3>1, <3>2 DEF NewKey, Generator!StartKey
    <2>2. CASE NewString
        BY <2>2, LengthType DEF NewString, Generator!StartString
    <2> QED BY <2>1, <2>2
<1>2. StringInv'
    BY <1>1, EmptyString DEF StringInv
<1>3. ObjectInv'
    BY <1>1 DEF EncodeInv, ObjectInv
<1>4. WritesInv' /\ HashInv'
    BY <1>1 DEF EncodeInv, WritesInv, HashInv, Split, vars, hashVars
<1> QED BY <1>2, <1>3, <1>4 DEF EncodeInv

\* A character is put behind the others, if there is room for it.
LEMMA PutInv ==
    ASSUME EncodeInv, PutCharacter
    PROVE  EncodeInv'
<1>1. UNCHANGED <<vars, object, writes, hashVars>>
    BY DEF PutCharacter
<1>2. UNCHANGED <<kind, length>> /\ kind # "none"
    BY DEF PutCharacter, Generator!PutCharacter, Generator!PutKeyLetter,
           Generator!PutSpace, Generator!PutAscii, Generator!PutCodePoint,
           Generator!Put, Generator!InLoop
<1>3. /\ str \in Seq(Byte) /\ length \in Nat
      /\ Generator!WellFormedString(str, Len(str))
    BY DEF EncodeInv, StringInv
<1>4. \/ Len(str) < length /\ \E c \in 1..127 : str' = str \o <<c>>
      \/ /\ length - Len(str) >= 2
         /\ \E a \in 194..223, b \in 128..191 : str' = str \o <<a, b>>
    <2>1. CASE Generator!PutKeyLetter
        <3>1. PICK c \in Letters \cap (97..122) : str' = str \o <<c>>
            BY <2>1 DEF Generator!PutKeyLetter, Generator!Put
        <3>2. c \in 1..127
            BY StringAssumption
        <3> QED BY <2>1, <3>1, <3>2
                DEF Generator!PutKeyLetter, Generator!InLoop
    <2>2. CASE Generator!PutSpace
        <3>1. str' = Append(str, 32)
            BY <2>2 DEF Generator!PutSpace
        <3>2. 32 \in 1..127
            OBVIOUS
        <3>3. Append(str, 32) = str \o <<32>>
            BY <1>3, <3>2, PutOne
        <3>4. Len(str) < length
            BY <2>2 DEF Generator!PutSpace, Generator!InLoop
        <3> QED BY <3>1, <3>2, <3>3, <3>4
    <2>3. CASE Generator!PutAscii
        <3>1. PICK c \in Specials \cup Printables \cup Letters :
                  str' = str \o <<c>>
            BY <2>3 DEF Generator!PutAscii, Generator!Put
        <3>2. c \in 1..127
            BY StringAssumption
        <3> QED BY <2>3, <3>1, <3>2 DEF Generator!PutAscii, Generator!InLoop
    <2>4. CASE Generator!PutCodePoint
        <3>1. PICK cp \in CodePoints : str' = str \o Generator!Utf8(cp)
            BY <2>4 DEF Generator!PutCodePoint, Generator!Put
        <3>2. str' = str \o <<192 + cp \div 64, 128 + (cp % 64)>>
            BY <3>1 DEF Generator!Utf8
        <3>3. cp \in 161..255
            BY StringAssumption
        <3>4. /\ 192 + cp \div 64 \in 194..223
              /\ 128 + (cp % 64) \in 128..191
            BY <3>3, Utf8Bytes
        <3>5. \E a \in 194..223, b \in 128..191 : str' = str \o <<a, b>>
            BY <3>2, <3>4
        <3> QED BY <2>4, <3>5 DEF Generator!PutCodePoint
    <2> QED BY <2>1, <2>2, <2>3, <2>4
            DEF PutCharacter, Generator!PutCharacter
<1>5. /\ str' \in Seq(Byte)
      /\ Generator!WellFormedString(str', Len(str'))
      /\ Len(str') <= length
    <2>1. ASSUME NEW c \in 1..127, str' = str \o <<c>>, Len(str) < length
          PROVE  <1>5
        <3>1. /\ str \o <<c>> \in Seq(Byte)
              /\ Len(str \o <<c>>) = Len(str) + 1
              /\ Generator!WellFormedString(str \o <<c>>, Len(str \o <<c>>))
            BY <1>3, PutOne
        <3> QED BY <1>3, <2>1, <3>1
    <2>2. ASSUME NEW a \in 194..223, NEW b \in 128..191,
                 str' = str \o <<a, b>>, length - Len(str) >= 2
          PROVE  <1>5
        <3>1. /\ str \o <<a, b>> \in Seq(Byte)
              /\ Len(str \o <<a, b>>) = Len(str) + 2
              /\ Generator!WellFormedString(str \o <<a, b>>,
                                            Len(str \o <<a, b>>))
            BY <1>3, PutTwo
        <3> QED BY <1>3, <2>2, <3>1
    <2> QED BY <1>4, <2>1, <2>2
<1>6. StringInv'
    BY <1>2, <1>3, <1>5 DEF StringInv
<1>7. ObjectInv'
    BY <1>1, <1>2 DEF EncodeInv, ObjectInv
<1>8. WritesInv' /\ HashInv'
    BY <1>1 DEF EncodeInv, WritesInv, HashInv, Split, vars, hashVars
<1> QED BY <1>6, <1>7, <1>8 DEF EncodeInv

\* The string returned is whole, and the second one starts the encoding.
LEMMA KeepInv ==
    ASSUME EncodeInv, KeepString
    PROVE  EncodeInv'
<1> DEFINE e == [str |-> str, len |-> length]
<1>1. /\ object' = Append(object, e)
      /\ writes' = IF Len(object') = 2 THEN WritesOf(object') ELSE <<>>
      /\ kind' = "none" /\ length' = 0 /\ str' = <<>>
      /\ UNCHANGED <<vars, hashVars>>
    BY DEF KeepString
<1>2. Len(object) < 2 /\ Len(str) = length
    BY DEF KeepString, Generator!Complete, EncodeInv, StringInv, ObjectInv
<1>3. e \in Entry /\ Generator!WellFormedString(e.str, e.len)
    BY <1>2 DEF EncodeInv, StringInv, Entry
<1>4. StringInv'
    BY <1>1, EmptyString DEF StringInv
<1>5. object \in Seq(Entry)
    BY DEF EncodeInv, ObjectInv
<1> HIDE DEF e
<1>6. /\ object' \in Seq(Entry)
      /\ Len(object') = Len(object) + 1
      /\ \A k \in 1..Len(object) : object'[k] = object[k]
      /\ object'[Len(object) + 1] = e
    BY <1>1, <1>3, <1>5
<1>7. ObjectInv'
    <2>1. ASSUME NEW k \in DOMAIN object'
          PROVE  Generator!WellFormedString(object'[k].str, object'[k].len)
        <3>1. CASE k = Len(object) + 1
            BY <1>3, <1>6, <3>1
        <3>2. CASE k \in 1..Len(object)
            BY <1>5, <1>6, <3>2 DEF EncodeInv, ObjectInv
        <3> QED BY <1>5, <1>6, <3>1, <3>2
    <2> QED BY <1>1, <1>2, <1>5, <1>6, <2>1 DEF ObjectInv
<1>8. WritesInv'
    <2>1. asked' = <<>> /\ pc' = "encode"
        BY <1>1, <1>2 DEF EncodeInv, WritesInv, vars
    <2>2. CASE Len(object') = 2
        <3>1. writes' = <<<<129>>, Marked(object[1])', object[1].str',
                          Marked(object[2])', object[2].str'>>
            BY <1>1, <2>2 DEF WritesOf
        <3> QED BY <2>1, <2>2, <3>1 DEF WritesInv, Split
    <2>3. CASE Len(object') < 2
        BY <1>1, <2>1, <2>3 DEF WritesInv
    <2> QED BY <1>5, <1>6, <2>1, <2>2, <2>3 DEF WritesInv
<1>9. HashInv'
    BY <1>1, <1>2 DEF EncodeInv, WritesInv, HashInv, vars
<1> QED BY <1>4, <1>7, <1>8, <1>9 DEF EncodeInv

\* A write asks for its bytes.
LEMMA WriteInv ==
    ASSUME EncodeInv, WriteNext
    PROVE  EncodeInv' /\ BufferWrite
<1>1. /\ writes # <<>> /\ writes' = Tail(writes)
      /\ asked' = asked \o Head(writes)
      /\ pc = "encode" /\ pc' \in {"encode", "grow"}
      /\ UNCHANGED <<stringVars, object, hashVars>>
    BY DEF WriteNext, Write
<1>2. Len(object) = 2
    <2>1. object \in Seq(Entry) /\ Len(object) <= 2
        BY DEF EncodeInv, ObjectInv
    <2>2. ~(Len(object) < 2)
        BY <1>1 DEF EncodeInv, WritesInv
    <2>3. PICK n \in Nat : n = Len(object)
        BY <2>1
    <2> QED BY <2>1, <2>2, <2>3
<1>3. Split(Marked(object[1]), object[1].str,
            Marked(object[2]), object[2].str)
    BY <1>2 DEF EncodeInv, WritesInv
<1>4. ObjectInv
    BY DEF EncodeInv
<1>5. PICK m1 \in Seq(Byte), s1 \in Seq(Byte),
           m2 \in Seq(Byte), s2 \in Seq(Byte) :
          /\ m1 = Marked(object[1]) /\ s1 = object[1].str
          /\ m2 = Marked(object[2]) /\ s2 = object[2].str
    BY <1>2, <1>4, Entries
<1>6. Split(m1, s1, m2, s2)
    BY <1>3, <1>5
<1>7. Head(writes) \in Seq(Byte) /\ Split(m1, s1, m2, s2)'
    BY <1>1, <1>6, NextWrite
<1>8. WritesInv'
    <2>1. Split(Marked(object[1]), object[1].str,
                Marked(object[2]), object[2].str)'
        BY <1>1, <1>5, <1>7
    <2> QED BY <1>1, <1>2, <2>1 DEF WritesInv
<1>9. StringInv' /\ ObjectInv'
    BY <1>1 DEF EncodeInv, StringInv, ObjectInv, stringVars
<1>10. HashInv'
    BY <1>1 DEF HashInv
<1>11. BufferWrite
    BY <1>7 DEF WriteNext, BufferWrite
<1> QED BY <1>8, <1>9, <1>10, <1>11 DEF EncodeInv

\* The steps of the buffer leave what was asked alone.
LEMMA GrowInv ==
    ASSUME EncodeInv, Grow
    PROVE  EncodeInv'
<1>1. /\ pc = "grow" /\ pc' \in {"grow", "encode"} /\ asked' = asked
      /\ UNCHANGED <<stringVars, object, writes, hashVars>>
    BY DEF Grow, Double, Reallocate, ReallocateFails
<1>2. StringInv' /\ ObjectInv'
    BY <1>1 DEF EncodeInv, StringInv, ObjectInv, stringVars
<1>3. WritesInv' /\ HashInv'
    BY <1>1 DEF EncodeInv, WritesInv, Split, HashInv
<1> QED BY <1>2, <1>3 DEF EncodeInv

\* A test that returns true has made all the writes.
LEMMA HashResultInv ==
    ASSUME EncodeInv, HashResult
    PROVE  EncodeInv'
<1>1. /\ Len(object) = 2
      /\ writes = <<>> \/ error
      /\ returned' = ~error
      /\ UNCHANGED <<data, asked, stringVars, object, writes>>
      /\ returned' => /\ hash' = HashStr(Initial, data)
                      /\ zigHash' \in CoreHashes(data)
    BY DEF HashResult, Finish
<1>2. StringInv' /\ ObjectInv'
    BY <1>1 DEF EncodeInv, StringInv, ObjectInv, stringVars
<1>3. WritesInv'
    <2>1. object' = object /\ writes' = writes /\ asked' = asked
        BY <1>1
    <2>2. Split(Marked(object[1]), object[1].str,
                Marked(object[2]), object[2].str)
        BY <1>1 DEF EncodeInv, WritesInv
    <2>3. Split(Marked(object[1]), object[1].str,
                Marked(object[2]), object[2].str)'
        BY <2>1, <2>2 DEF Split
    <2>4. Len(object') = 2 /\ ~(Len(object') < 2)
        BY <1>1, <2>1
    <2> QED BY <2>3, <2>4 DEF WritesInv
<1>4. HashInv'
    BY <1>1 DEF HashInv
<1> QED BY <1>2, <1>3, <1>4 DEF EncodeInv

LEMMA EncodeInvNext == EncodeInv /\ [EncodeNext]_encodeVars => EncodeInv'
<1> SUFFICES ASSUME EncodeInv, [EncodeNext]_encodeVars PROVE EncodeInv'
    OBVIOUS
<1>1. CASE UNCHANGED encodeVars
    BY <1>1 DEF encodeVars, vars, stringVars, hashVars, EncodeInv, StringInv,
                ObjectInv, WritesInv, Split, HashInv
<1>2. CASE EncodeNext
    BY <1>1, <1>2, NewInv, PutInv, KeepInv, WriteInv, GrowInv, HashResultInv
       DEF EncodeNext, EncodeDone
<1> QED BY <1>1, <1>2

\* Every step is one of the buffer or leaves it alone.
LEMMA EncodeStepIsStep ==
    EncodeInv /\ [EncodeNext]_encodeVars => [Next]_vars
<1> SUFFICES ASSUME EncodeInv, [EncodeNext]_encodeVars PROVE [Next]_vars
    OBVIOUS
<1>1. CASE WriteNext
    BY <1>1, WriteInv DEF Next
<1>2. CASE Grow
    BY <1>2 DEF Grow, Next
<1>3. CASE HashResult
    BY <1>3 DEF HashResult, Next
<1>4. CASE NewKey \/ NewString \/ PutCharacter \/ KeepString
    BY <1>4 DEF NewKey, NewString, PutCharacter, KeepString
<1>5. CASE EncodeDone \/ UNCHANGED encodeVars
    BY <1>5 DEF EncodeDone, encodeVars
<1> QED BY <1>1, <1>2, <1>3, <1>4, <1>5 DEF EncodeNext

-----------------------------------------------------------------------------
(* What is hashed.                                                         *)

LEMMA NearbyDiffers ==
    ASSUME NEW s \in Seq(Byte), Len(s) > 0, NEW other \in Nearby(s)
    PROVE  other \in Seq(Byte) /\ other # s
<1>1. CASE \E k \in {j \in 1..Len(s) : s[j] # 0} : other = [s EXCEPT ![k] = 0]
    <2>1. PICK k \in 1..Len(s) : s[k] # 0 /\ other = [s EXCEPT ![k] = 0]
        BY <1>1
    <2>2. 0 \in Byte
        BY DEF Byte
    <2>3. other \in Seq(Byte) /\ other[k] = 0
        BY <2>1, <2>2
    <2> QED BY <2>1, <2>3
<1>2. CASE other = SubSeq(s, 1, Len(s) - 1)
    <2>1. Len(s) \in Nat /\ Len(s) - 1 \in Nat
        OBVIOUS
    <2>2. PICK n \in Nat : n = Len(s) - 1
        BY <2>1
    <2>3. SubSeq(s, 1, n) = [j \in 1..n |-> s[j]]
        BY <2>1, <2>2
    <2>4. \A j \in 1..n : s[j] \in Byte
        BY <2>2
    <2>5. other = [j \in 1..n |-> s[j]]
        BY <1>2, <2>2, <2>3
    <2>6. other \in Seq(Byte) /\ Len(other) = n
        BY <2>4, <2>5
    <2> QED BY <2>2, <2>6
<1>3. CASE other = Append(s, 0)
    <2>1. 0 \in Byte
        BY DEF Byte
    <2>2. other \in Seq(Byte) /\ Len(other) = Len(s) + 1
        BY <1>3, <2>1
    <2> QED BY <2>2
<1> QED BY <1>1, <1>2, <1>3 DEF Nearby

\* A test that returns true has the whole encoding in its buffer.
LEMMA HashedIsEncoding ==
    ASSUME IInv, EncodeInv, pc = "done", returned
    PROVE  /\ data = Encoding(object)
           /\ data \in Seq(Byte) /\ Len(data) > 0
           /\ hash = HashStr(Initial, data)
           /\ zigHash \in CoreHashes(data)
<1>1. /\ writes = <<>> /\ hash = HashStr(Initial, data)
      /\ zigHash \in CoreHashes(data)
    BY DEF EncodeInv, HashInv
<1>2. data = asked /\ data \in Seq(Byte)
    BY DEF IInv, WholeOrFalse, TypeOK
<1>3. Len(object) = 2
    <2>1. object \in Seq(Entry) /\ Len(object) <= 2
        BY DEF EncodeInv, ObjectInv
    <2>2. ~(Len(object) < 2)
        BY DEF EncodeInv, WritesInv
    <2>3. PICK n \in Nat : n = Len(object)
        BY <2>1
    <2> QED BY <2>1, <2>2, <2>3
<1>4. Split(Marked(object[1]), object[1].str,
            Marked(object[2]), object[2].str)
    BY <1>3 DEF EncodeInv, WritesInv
<1>5. asked = <<129>> \o Marked(object[1]) \o object[1].str
                  \o Marked(object[2]) \o object[2].str
    BY <1>1, <1>4 DEF Split
<1>6. data = Encoding(object)
    BY <1>2, <1>5 DEF Encoding
<1>7. Len(data) > 0
    <2>1. ObjectInv
        BY DEF EncodeInv
    <2>2. PICK m1 \in Seq(Byte), s1 \in Seq(Byte),
               m2 \in Seq(Byte), s2 \in Seq(Byte) :
              /\ m1 = Marked(object[1]) /\ s1 = object[1].str
              /\ m2 = Marked(object[2]) /\ s2 = object[2].str
        BY <1>3, <2>1, Entries
    <2>3. data = <<129>> \o m1 \o s1 \o m2 \o s2
        BY <1>2, <1>5, <2>2
    <2> QED BY <2>3, Header
<1> QED BY <1>1, <1>2, <1>6, <1>7

-----------------------------------------------------------------------------
\* The buffer of the encoder is the growable buffer: every behaviour of the
\* whole is one of GrowBuffer, whose theorems so apply to it.
THEOREM EncodeUsesBuffer == EncodeSpec => Spec
<1>1. EncodeInit => Init
    BY DEF EncodeInit
<1> QED BY <1>1, EncodeInvInit, EncodeInvNext, EncodeStepIsStep, PTL
        DEF EncodeSpec, Spec

THEOREM EncodeInvariant == EncodeSpec => [](EncodeInv /\ IInv)
BY EncodeInvInit, EncodeInvNext, EncodeUsesBuffer, Invariant, PTL
   DEF EncodeSpec

\* random_key and random_string stay in their blocks and return strings that
\* are as long as they say, without a null and in UTF-8, whatever is drawn.
THEOREM StringsWellFormed == EncodeSpec => []WellFormed
<1>1. EncodeInv => WellFormed
    BY DEF EncodeInv, StringInv, ObjectInv, WellFormed
<1> QED BY <1>1, EncodeInvariant, PTL

\* run_test of cmp-write and ubj-write hashes the whole encoding, and no
\* string that is nearly the encoding has the same hash.
THEOREM HashTellsApart == EncodeSpec => []HashKeepsAll
<1>1. ASSUME IInv, EncodeInv, pc = "done", returned
      PROVE  /\ data = Encoding(object)
             /\ \A other \in Nearby(Encoding(object)) :
                    HashStr(Initial, other) # hash
    <2>1. /\ data = Encoding(object)
          /\ data \in Seq(Byte) /\ Len(data) > 0
          /\ hash = HashStr(Initial, data)
        BY <1>1, HashedIsEncoding
    <2>2. ASSUME NEW other \in Nearby(data)
          PROVE  HashStr(Initial, other) # hash
        <3>1. other \in Seq(Byte) /\ other # data
            BY <2>1, NearbyDiffers
        <3> QED BY <2>1, <3>1, HashInjective
    <2> QED BY <2>1, <2>2
<1>2. IInv /\ EncodeInv => HashKeepsAll
    BY <1>1 DEF HashKeepsAll
<1> QED BY <1>2, EncodeInvariant, PTL

\* core.hash of the tests in Zig is hash_str on strings whose length is a
\* multiple of four and not zero.
THEOREM ZigHashAgrees == EncodeSpec => []ZigAgrees
<1>1. ASSUME IInv, EncodeInv, pc = "done", returned, WholeWindows(data)
      PROVE  zigHash = hash
    <2>1. /\ data \in Seq(Byte)
          /\ hash = HashStr(Initial, data)
          /\ zigHash \in CoreHashes(data)
        BY <1>1, HashedIsEncoding
    <2>2. \E behind \in {0, 255} : zigHash = CoreHash(Initial, data, behind)
        BY <1>1, <2>1 DEF CoreHashes
    <2> QED BY <1>1, <2>1, <2>2, WholeWindowsAgree
<1>2. IInv /\ EncodeInv => ZigAgrees
    BY <1>1 DEF ZigAgrees
<1> QED BY <1>2, EncodeInvariant, PTL

\* memcpy stays in the block, and a test that returns true has hashed all
\* that the library wrote.
THEOREM EncodeStaysInBlock == EncodeSpec => []InBlock
BY EncodeUsesBuffer, StaysInBlock, PTL

THEOREM EncodeAllOrNothing == EncodeSpec => []WholeOrFalse
BY EncodeUsesBuffer, AllOrNothing, PTL
=============================================================================
