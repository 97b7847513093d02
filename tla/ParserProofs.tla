---------------------------- MODULE ParserProofs ----------------------------
(***************************************************************************)
(* Proofs about the parser tests: about Readers, for any set of tests and  *)
(* documents of any size and nesting, and about SaxParser, the callbacks   *)
(* of one of them, for every number of slots and every nesting below it.   *)
(*                                                                         *)
(* Readers: a number that the test fetches is the number written, of       *)
(* whatever type it was written as; strlen finds the length; and every     *)
(* loop has counted what is behind it and names the elements of maps only. *)
(* So while nothing was wrong a test that visits maps in order has hashed  *)
(* exactly what hash-object does.  An error under way has a fault behind   *)
(* it.  And a test that checks for errors is never in its walk with a      *)
(* fault behind it and no error under way: it is on its way out, and what  *)
(* it is on its way to return is false.                                    *)
(*                                                                         *)
(* SaxParser: everything follows from SlotsInStep, which is almost         *)
(* inductive by itself: the open compounds occupy neighbouring slots in    *)
(* order.  What it needs besides is that nesting stays below MaxNesting,   *)
(* so that even with the root in slot 1 the deepest compound has a slot.   *)
(***************************************************************************)
EXTENDS Readers, SaxParser, SequenceTheorems, TLAPS

Checking == reader \in ErrorChecking

\* The loop has counted the elements behind it, and a map entry under way is
\* among neither those nor the ones to come.
Counting(loop) ==
    /\ loop.named = loop.map
    /\ ~loop.map => loop.at = "next"
    /\ \/ loop.at = "next" /\ loop.count + loop.left = loop.size
       \/ loop.at = "value" /\ loop.count + loop.left + 1 = loop.size

GoodLoops == {loop \in Loops : Counting(loop)}

SameHash == reader \in Matching /\ fault = "none" => mixed = due

ErrorHasFault ==
    /\ error # "none" => fault # "none"
    /\ pc \in {"parse", "root"} => fault = "none"
    /\ pc = "done" /\ fault = "none" => returned
    /\ error = "state" => "state" \in {Test.short, Test.alien}

FaultHasError ==
    Checking /\ pc = "walk" /\ fault # "none" =>
        \/ error = "return" /\ Test.nested
        \/ error = "state" /\ Test.result = "state"

IInv ==
    /\ TypeOK
    /\ stack \in Seq(GoodLoops)
    /\ SameHash /\ ErrorHasFault /\ FaultHasError /\ FaultSeen

-----------------------------------------------------------------------------
(* What a test sees of numbers and strings.                                *)

LEMMA ModSmall ==
    ASSUME NEW n \in Nat \ {0}, NEW v \in 0..(n - 1)
    PROVE  v % n = v
OBVIOUS

LEMMA ModNegative ==
    ASSUME NEW n \in Nat \ {0}, NEW v \in (-n)..(-1)
    PROVE  v % n = v + n
OBVIOUS

LEMMA Halves ==
    ASSUME NEW n \in Nat \ {0}, n % 2 = 0
    PROVE  n \div 2 \in Nat \ {0} /\ n = 2 * (n \div 2)
OBVIOUS

\* The member of a type that holds the number is the number.
LEMMA MemberFact ==
    ASSUME NEW type \in Types, NEW v \in Int, Holds(type, v)
    PROVE  Member(type, Payload(type, v)) = v
<1> DEFINE n == Values[type.width]
           h == n \div 2
<1>1. n \in Nat \ {0} /\ n % 2 = 0
    BY ValuesAssumption DEF Types
<1>2. h \in Nat \ {0} /\ n = 2 * h
    BY <1>1, Halves
<1> HIDE DEF h
<1>3. CASE type.signed
    <2>1. -h <= v /\ v < h
        BY <1>2, <1>3 DEF Holds, Lowest, h
    <2>2. CASE v >= 0
        <3>1. v % n = v
            BY <2>1, <2>2, <1>2, ModSmall
        <3> QED BY <3>1, <2>1, <1>2, <1>3 DEF Member, Payload, h
    <2>3. CASE v < 0
        <3>1. v % n = v + n
            BY <2>1, <2>3, <1>2, ModNegative
        <3>2. v + n >= h /\ (v + n) - n = v
            BY <2>1, <1>2
        <3>3. Payload(type, v) = v + n
            BY <3>1 DEF Payload
        <3>4. Member(type, Payload(type, v)) = (v + n) - n
            BY <3>2, <3>3, <1>3 DEF Member, h
        <3> QED BY <3>2, <3>4
    <2> QED BY <2>1, <2>2, <2>3
<1>4. CASE ~type.signed
    <2>1. 0 <= v /\ v < n
        BY <1>2, <1>4 DEF Holds, Lowest
    <2>2. v % n = v
        BY <2>1, <1>1, ModSmall
    <2> QED BY <2>2, <1>4 DEF Member, Payload
<1> QED BY <1>3, <1>4 DEF Types

Formats == {"messagepack", "binn", "ubjson", "bson", "json"}

\* Whatever type a number is written as holds it.
LEMMA FormsHold ==
    ASSUME NEW format \in Formats, NEW v \in Numbers, NEW type \in Forms(format, v)
    PROVE  type \in Types /\ Holds(type, v) /\ v \in Int
<1>1. Values[64] \in Nat \ {0} /\ Values[64] % 2 = 0
    BY ValuesAssumption DEF Widths
<1>2. v \in Int /\ -(Values[64] \div 2) <= v /\ v <= Values[64] \div 2 - 1
    BY <1>1, Halves, NumbersAssumption
<1>3. Holds(Type(TRUE, 64), v)
    BY <1>1, <1>2, Halves DEF Holds, Lowest, Type
<1>4. \A signed \in BOOLEAN, width \in Widths : Type(signed, width) \in Types
    BY DEF Type, Types
<1>5. CASE format \in {"messagepack", "binn"}
    BY <1>2, <1>5 DEF Forms
<1>6. CASE format = "ubjson"
    BY <1>2, <1>4, <1>6 DEF Forms, Widths
<1>7. CASE format = "bson"
    <2>1. type = Type(TRUE, IF Holds(Type(TRUE, 32), v) THEN 32 ELSE 64)
        BY <1>7 DEF Forms
    <2>2. CASE Holds(Type(TRUE, 32), v)
        BY <2>1, <2>2, <1>2, <1>4 DEF Widths
    <2>3. CASE ~Holds(Type(TRUE, 32), v)
        BY <2>1, <2>3, <1>2, <1>3, <1>4 DEF Widths
    <2> QED BY <2>2, <2>3
<1>8. CASE format = "json"
    BY <1>2, <1>3, <1>4, <1>8 DEF Forms, Widths
<1> QED BY <1>5, <1>6, <1>7, <1>8 DEF Formats

\* A number is hashed alike as a signed and as an unsigned one if it is both.
LEMMA SameNumber ==
    ASSUME NEW how, NEW format \in Formats, NEW v \in Numbers,
           NEW type \in Forms(format, v)
    PROVE  /\ HashInt(type, Fetched(how, type, v)) = HashI64(v)
           /\ v >= 0 => HashI64(v) = HashU64(v)
<1>1. type \in Types /\ Holds(type, v) /\ v \in Int
    BY FormsHold
<1>2. Fetched(how, type, v) = v
    BY <1>1, MemberFact DEF Fetched
<1>3. Values[64] \in Nat \ {0} /\ Values[64] % 2 = 0
    BY ValuesAssumption DEF Widths
<1>4. v < Values[64]
    BY <1>3, Halves, NumbersAssumption
<1>5. v >= 0 => v % Values[64] = v
    BY <1>1, <1>3, <1>4, ModSmall
<1>6. v >= 0 => HashI64(v) = HashU64(v)
    BY <1>5 DEF HashI64
<1>7. ~type.signed => v >= 0
    BY <1>1 DEF Holds, Lowest
<1> QED BY <1>2, <1>6, <1>7 DEF HashInt

\* strlen finds the terminator, as no other byte is null.
LEMMA SameBytes ==
    ASSUME NEW how, NEW S, 0 \notin S, NEW s \in Seq(S)
    PROVE  Bytes(how, s) = s
<1>1. Len(s) \in Nat /\ \A k \in 1..Len(s) : s[k] \in S
    OBVIOUS
<1>2. /\ Len(Block(s)) = Len(s) + 1 /\ Block(s)[Len(s) + 1] = 0
      /\ \A k \in 1..Len(s) : Block(s)[k] = s[k]
      /\ Block(s) \in Seq(S \cup {0})
    <2>1. s \in Seq(S \cup {0})
        BY <1>1
    <2> QED BY <2>1, AppendProperties DEF Block
<1>3. /\ Len(s) \in 0..(Len(Block(s)) - 1) /\ Block(s)[Len(s) + 1] = 0
      /\ \A k \in 1..Len(s) : Block(s)[k] # 0
    BY <1>1, <1>2
<1>4. ASSUME NEW n \in 0..(Len(Block(s)) - 1), Block(s)[n + 1] = 0
      PROVE  n >= Len(s)
    <2>1. n + 1 \in 1..(Len(s) + 1) /\ n \in Nat
        BY <1>1, <1>2, <1>4
    <2>2. n + 1 \notin 1..Len(s)
        BY <1>3, <1>4
    <2> QED BY <2>1, <2>2, <1>1
<1>5. StrLen(Block(s)) = Len(s)
    <2>1. ASSUME NEW n \in 0..(Len(Block(s)) - 1), Block(s)[n + 1] = 0,
                 \A k \in 1..n : Block(s)[k] # 0
          PROVE  n = Len(s)
        BY <2>1, <1>1, <1>2, <1>4
    <2> QED BY <1>3, <2>1 DEF StrLen
<1>6. SubSeq(Block(s), 1, Len(s)) = s
    <2>1. SubSeq(Block(s), 1, Len(s)) = [k \in 1..Len(s) |-> Block(s)[k]]
        BY <1>1, <1>2
    <2> QED BY <2>1, <1>1, <1>2
<1> QED BY <1>5, <1>6 DEF Bytes

-----------------------------------------------------------------------------
(* The table of tests.                                                     *)

Hows == {"return", "state", "throw", "stop", "undefined", "skip", "never"}

\* A loop that asks for the state asks in arrays and in maps.
Asks(test) ==
    "state" \in {test.short, test.alien} =>
        "element" \in test.asks /\ ("value" \in test.asks \/ "key" \in test.asks)

LEMMA TestFacts ==
    ASSUME NEW r \in DOMAIN Tests
    PROVE  /\ Tests[r].short \in Hows \ {"skip"}
           /\ Tests[r].alien \in Hows
           /\ Asks(Tests[r])
           /\ Tests[r].reads.format \in Formats
BY DEF Tests, Hows, Asks, Reads, Formats, CmpRead, MpackRead, MpackNode,
       MsgpackCUnpack, MsgpackCppUnpack, BinnLoad, LibbsonIter, MongoCxxObj,
       JanssonLoad, JanssonOrderedLoad, RapidjsonDom, RapidjsonSax, UbjRead,
       JsonParser, YajlTree, YajlParse, ZigpakRead

\* What makes the hash of a test one that matches.
LEMMA MatchingFacts ==
    ASSUME NEW r \in Matching
    PROVE  Tests[r].order = "document" /\ Tests[r].reads.size \in {"header", "counted"}
BY DEF Matching, Tests, Reads, CmpRead, MpackRead, MpackNode, MsgpackCUnpack,
       MsgpackCppUnpack, BinnLoad, LibbsonIter, MongoCxxObj, JanssonLoad,
       JanssonOrderedLoad, RapidjsonDom, RapidjsonSax, UbjRead, JsonParser,
       YajlTree, YajlParse, ZigpakRead

\* What makes a test one that checks for errors.
Checks(test, how) ==
    /\ how \in {"return", "state", "throw", "stop", "never"}
    /\ how = "return" => test.nested
    /\ how \in {"state", "stop"} => test.result = "state"

LEMMA CheckingFacts ==
    ASSUME NEW r \in ErrorChecking
    PROVE  /\ Checks(Tests[r], Tests[r].short) /\ Checks(Tests[r], Tests[r].alien)
           /\ Tests[r].whole /\ ~Tests[r].gaveUp => Tests[r].result = "state"
BY DEF ErrorChecking, Checks, Tests, CmpRead, MpackRead, MpackNode,
       MsgpackCUnpack, MsgpackCppUnpack, JanssonLoad, JanssonOrderedLoad,
       JsonParser, YajlTree, YajlParse

-----------------------------------------------------------------------------
(* The stack of loops.                                                     *)

LEMMA LoopFields ==
    ASSUME NEW loop \in Loops
    PROVE  /\ loop.map \in BOOLEAN /\ loop.at \in {"next", "value"}
           /\ loop.size \in Nat /\ loop.left \in Nat /\ loop.count \in Nat
BY DEF Loops

\* Changing a field leaves the others alone.
LEMMA SetAt ==
    ASSUME NEW loop \in Loops, NEW at \in {"next", "value"}
    PROVE  LET new == [loop EXCEPT !.at = at] IN
           /\ new \in Loops /\ new.at = at
           /\ new.map = loop.map /\ new.named = loop.named
           /\ new.size = loop.size /\ new.left = loop.left /\ new.count = loop.count
BY Zenon DEF Loops

LEMMA SetLeft ==
    ASSUME NEW loop \in Loops, NEW left \in Nat
    PROVE  LET new == [loop EXCEPT !.left = left] IN
           /\ new \in Loops /\ new.left = left
           /\ new.map = loop.map /\ new.named = loop.named
           /\ new.size = loop.size /\ new.at = loop.at /\ new.count = loop.count
BY Zenon DEF Loops

LEMMA SetCount ==
    ASSUME NEW loop \in Loops, NEW count \in Nat
    PROVE  LET new == [loop EXCEPT !.count = count] IN
           /\ new \in Loops /\ new.count = count
           /\ new.map = loop.map /\ new.named = loop.named
           /\ new.size = loop.size /\ new.left = loop.left /\ new.at = loop.at
BY Zenon DEF Loops

\* Behind a value the loop has counted one more.
LEMMA PassedGood ==
    ASSUME NEW loop \in GoodLoops,
           IF loop.map THEN loop.at = "value" ELSE loop.left > 0
    PROVE  Passed(loop) \in GoodLoops
<1>1. loop \in Loops /\ Counting(loop)
    BY DEF GoodLoops
<1>2. PICK more \in Nat : more = loop.count + 1
    BY <1>1, LoopFields
<1>3. PICK counted \in Loops :
          /\ counted = [loop EXCEPT !.count = more] /\ counted.count = more
          /\ counted.map = loop.map /\ counted.named = loop.named
          /\ counted.size = loop.size /\ counted.left = loop.left
          /\ counted.at = loop.at
    BY <1>1, SetCount
<1>4. CASE loop.map
    <2>1. PICK new \in Loops :
              /\ new = [counted EXCEPT !.at = "next"] /\ new.at = "next"
              /\ new.map = counted.map /\ new.named = counted.named
              /\ new.size = counted.size /\ new.left = counted.left
              /\ new.count = counted.count
        BY SetAt
    <2>2. Passed(loop) = new
        BY <1>2, <1>3, <1>4, <2>1, Zenon DEF Passed
    <2>3. loop.count + loop.left + 1 = loop.size
        BY <1>1, <1>4 DEF Counting
    <2>4. more + loop.left = loop.size
        BY <1>1, <1>2, <2>3, LoopFields
    <2>5. Counting(new)
        BY <1>1, <1>3, <2>1, <2>4, Zenon DEF Counting
    <2> QED BY <2>1, <2>2, <2>5, Zenon DEF GoodLoops
<1>5. CASE ~loop.map
    <2>1. PICK less \in Nat : less = loop.left - 1
        BY <1>1, <1>5, LoopFields
    <2>2. PICK new \in Loops :
              /\ new = [counted EXCEPT !.left = less] /\ new.left = less
              /\ new.map = counted.map /\ new.named = counted.named
              /\ new.size = counted.size /\ new.at = counted.at
              /\ new.count = counted.count
        BY SetLeft
    <2>3. Passed(loop) = new
        BY <1>2, <1>3, <1>5, <2>1, <2>2, Zenon DEF Passed
    <2>4. loop.at = "next" /\ loop.count + loop.left = loop.size
        BY <1>1, <1>5 DEF Counting
    <2>5. more + less = loop.size
        BY <1>1, <1>2, <2>1, <2>4, LoopFields
    <2>6. Counting(new)
        BY <1>1, <1>3, <2>2, <2>4, <2>5, Zenon DEF Counting
    <2> QED BY <2>2, <2>3, <2>6, Zenon DEF GoodLoops
<1> QED BY <1>4, <1>5

\* Behind a key the entry is under way.
LEMMA KeyedGood ==
    ASSUME NEW loop \in GoodLoops, loop.map, loop.at = "next", loop.left > 0
    PROVE  [loop EXCEPT !.at = "value", !.left = @ - 1] \in GoodLoops
<1>1. loop \in Loops /\ Counting(loop)
    BY DEF GoodLoops
<1>2. PICK less \in Nat : less = loop.left - 1
    BY <1>1, LoopFields
<1>3. PICK keyed \in Loops :
          /\ keyed = [loop EXCEPT !.at = "value"] /\ keyed.at = "value"
          /\ keyed.map = loop.map /\ keyed.named = loop.named
          /\ keyed.size = loop.size /\ keyed.left = loop.left
          /\ keyed.count = loop.count
    BY <1>1, SetAt
<1>4. PICK new \in Loops :
          /\ new = [keyed EXCEPT !.left = less] /\ new.left = less
          /\ new.map = keyed.map /\ new.named = keyed.named
          /\ new.size = keyed.size /\ new.at = keyed.at /\ new.count = keyed.count
    BY SetLeft
<1>5. [loop EXCEPT !.at = "value", !.left = @ - 1] = new
    BY <1>2, <1>3, <1>4, Zenon
<1>6. loop.count + loop.left = loop.size
    BY <1>1 DEF Counting
<1>7. loop.count + less + 1 = loop.size
    BY <1>1, <1>2, <1>6, LoopFields
<1>8. Counting(new)
    BY <1>1, <1>3, <1>4, <1>7, Zenon DEF Counting
<1> QED BY <1>4, <1>5, <1>8, Zenon DEF GoodLoops

LEMMA LoopGood ==
    ASSUME NEW map \in BOOLEAN, NEW n \in 1..MaxCount
    PROVE  Loop(map, map, n) \in GoodLoops
BY ReaderAssumption DEF Loop, Loops, GoodLoops, Counting

\* The root is taken for an array exactly if it is one.
LEMMA RootNamed ==
    ASSUME NEW map \in BOOLEAN, NEW first \in FirstNames(map)
    PROVE  Named(map, first) = map
<1>1. CASE map
    <2>1. first \in Keys /\ Len(first) \in 2..10
        BY <1>1, TextsAssumption DEF FirstNames
    <2>2. first # Zero
        BY <2>1 DEF Zero
    <2> QED BY <1>1, <2>2 DEF Named
<1>2. CASE ~map
    BY <1>2 DEF FirstNames, Named
<1> QED BY <1>1, <1>2

GoodStack == TypeOK /\ stack \in Seq(GoodLoops)

LEMMA TopType ==
    ASSUME GoodStack, pc = "walk"
    PROVE  /\ Len(stack) \in Nat \ {0} /\ Top \in GoodLoops /\ Outer \in Seq(GoodLoops)
           /\ Len(Outer) = Len(stack) - 1
           /\ \A loop \in GoodLoops : /\ WithTop(loop) \in Seq(GoodLoops)
                                       /\ WithTop(loop) # <<>>
                                       /\ Len(WithTop(loop)) = Len(stack)
<1>1. stack \in Seq(GoodLoops) /\ stack # <<>>
    BY DEF GoodStack, TypeOK
<1>2. Len(stack) \in Nat \ {0} /\ Top \in GoodLoops
    BY <1>1, EmptySeq DEF Top
<1>3. PICK n \in Nat : n = Len(stack) - 1
    BY <1>2
<1>4. SubSeq(stack, 1, n) = [k \in 1..n |-> stack[k]]
    BY <1>2, <1>3
<1>5. \A k \in 1..n : stack[k] \in GoodLoops
    BY <1>1, <1>2, <1>3
<1>6. Outer \in Seq(GoodLoops) /\ Len(Outer) = Len(stack) - 1
    BY <1>3, <1>4, <1>5 DEF Outer
<1>7. ASSUME NEW loop \in GoodLoops
      PROVE  /\ WithTop(loop) \in Seq(GoodLoops) /\ WithTop(loop) # <<>>
             /\ Len(WithTop(loop)) = Len(stack)
    <2>1. <<loop>> \in Seq(GoodLoops) /\ Len(<<loop>>) = 1
        OBVIOUS
    <2>2. WithTop(loop) \in Seq(GoodLoops) /\ Len(WithTop(loop)) = Len(Outer) + 1
        BY <1>6, <2>1, ConcatProperties DEF WithTop
    <2> QED BY <1>2, <1>6, <2>2, EmptySeq
<1> QED BY <1>2, <1>6, <1>7

\* A sequence of good loops is one of loops.
LEMMA GoodAreLoops == ASSUME NEW s \in Seq(GoodLoops) PROVE s \in Seq(Loops)
<1>1. \A k \in 1..Len(s) : s[k] \in Loops
    BY DEF GoodLoops
<1> QED BY <1>1

\* Whether the end of a loop is the end of the walk.
LEMMA LeaveType ==
    ASSUME GoodStack, pc = "walk", NEW result \in BOOLEAN, Leave(result)
    PROVE  /\ stack' \in Seq(GoodLoops) /\ Len(stack') < Len(stack)
           /\ pc' \in {"walk", "done"} /\ (pc' = "walk" <=> stack' # <<>>)
           /\ pc' = "done" => returned' = result
           /\ pc' = "walk" => returned' = returned
<1>1. /\ Len(stack) \in Nat \ {0} /\ Outer \in Seq(GoodLoops)
      /\ Len(Outer) = Len(stack) - 1
    BY TopType
<1>2. Outer = <<>> <=> Len(Outer) = 0
    BY <1>1, EmptySeq, SMTT(30)
<1>3. Outer = <<>> <=> Len(stack) = 1
    BY <1>1, <1>2
<1> QED BY <1>1, <1>3 DEF Leave

\* The same of the innermost loop.
LEMMA PassedType ==
    ASSUME GoodStack, AtValue
    PROVE  /\ Passed(Top) \in GoodLoops /\ pc = "walk"
           /\ WithTop(Passed(Top)) \in Seq(GoodLoops)
           /\ WithTop(Passed(Top)) # <<>>
           /\ Len(WithTop(Passed(Top))) = Len(stack)
<1>1. pc = "walk" /\ Top \in GoodLoops
    BY TopType DEF AtValue, Walking
<1>2. IF Top.map THEN Top.at = "value" ELSE Top.left > 0
    BY DEF AtValue
<1>3. Passed(Top) \in GoodLoops
    BY <1>1, <1>2, PassedGood
<1> QED BY <1>1, <1>3, TopType

LEMMA KeyType ==
    ASSUME GoodStack, AtKey
    PROVE  [Top EXCEPT !.at = "value", !.left = @ - 1] \in GoodLoops /\ pc = "walk"
<1>1. pc = "walk" /\ Top \in GoodLoops
    BY TopType DEF AtKey, Walking
<1>2. Top.map /\ Top.at = "next" /\ Top.left > 0
    BY DEF AtKey
<1> QED BY <1>1, <1>2, KeyedGood

-----------------------------------------------------------------------------
LEMMA InvInit == Init => IInv
<1> SUFFICES ASSUME Init PROVE IInv
    OBVIOUS
<1>1. returned \in BOOLEAN
    BY Zenon DEF Init
<1>2. TypeOK
    BY <1>1 DEF Init, TypeOK
<1>3. stack \in Seq(GoodLoops)
    BY DEF Init
<1> QED BY <1>2, <1>3 DEF Init, IInv, SameHash, ErrorHasFault, FaultHasError,
                FaultSeen, FaultReported

LEMMA InvParse == IInv /\ (Parse \/ ReadRoot) => IInv'
<1> SUFFICES ASSUME IInv, Parse \/ ReadRoot PROVE IInv'
    OBVIOUS
<1>1. CASE Parse
    BY <1>1 DEF Parse, IInv, TypeOK, SameHash, ErrorHasFault, FaultHasError,
                FaultSeen, FaultReported, Checking, Test
<1>2. CASE ReadRoot
    <2>0. PICK map \in BOOLEAN, n \in 1..MaxCount : \E first \in FirstNames(map) :
              stack' = <<Loop(map, Named(map, first), n)>>
        BY <1>2 DEF ReadRoot
    <2>1. PICK first \in FirstNames(map) :
              stack' = <<Loop(map, Named(map, first), n)>>
        BY <2>0
    <2>2. Loop(map, Named(map, first), n) \in GoodLoops
        BY RootNamed, LoopGood
    <2>3. stack' \in Seq(GoodLoops) /\ stack' # <<>>
        BY <2>1, <2>2
    <2>4. TypeOK'
        BY <1>2, <2>3, GoodAreLoops DEF ReadRoot, IInv, TypeOK
    <2> QED BY <1>2, <2>3, <2>4
            DEF ReadRoot, IInv, SameHash, ErrorHasFault, FaultHasError,
                FaultSeen, FaultReported, Checking, Test
<1> QED BY <1>1, <1>2

LEMMA InvParseShort == IInv /\ ParseShort => IInv'
<1> SUFFICES ASSUME IInv, ParseShort PROVE IInv'
    OBVIOUS
<1>0. /\ TypeOK /\ pc = "parse" /\ fault' = "short" /\ pc' = "done"
      /\ stack = <<>> /\ UNCHANGED <<reader, stack, due, error>>
      /\ Test.whole /\ Test' = Test /\ error = "none"
      /\ stack \in Seq(GoodLoops)
    BY DEF IInv, ErrorHasFault, TypeOK, ParseShort, Test
<1>1. returned' \in BOOLEAN
    BY Zenon DEF ParseShort
<1>2. TypeOK'
    BY <1>0, <1>1 DEF TypeOK, Faults
<1>3. FaultSeen'
    <2> SUFFICES ASSUME reader \in ErrorChecking PROVE ~returned'
        BY <1>0 DEF FaultSeen, FaultReported
    <2>1. ~Test.gaveUp => Test.result = "state"
        BY <1>0, CheckingFacts DEF Test
    <2> QED BY <2>1 DEF ParseShort
<1> QED BY <1>0, <1>2, <1>3 DEF IInv, SameHash, ErrorHasFault, FaultHasError

\* Mixing the same into both hashes keeps them the same.
LEMMA MixSame ==
    ASSUME SameHash, UNCHANGED <<reader, fault>>, NEW own, NEW his, Mix(own, his),
           reader \in Matching => own = his
    PROVE  SameHash'
BY DEF SameHash, Mix

\* A step of the walk with nothing wrong keeps the rest of the invariant.
LEMMA InvWalk ==
    ASSUME IInv, pc = "walk", error = "none",
           UNCHANGED <<reader, pc, fault, error, returned>>,
           stack' \in Seq(GoodLoops), stack' # <<>>, SameHash'
    PROVE  IInv'
<1>1. TypeOK'
    BY GoodAreLoops DEF IInv, TypeOK
<1>2. Test' = Test
    BY DEF Test
<1> QED BY <1>1, <1>2 DEF IInv, ErrorHasFault, FaultHasError, FaultSeen, FaultReported, Checking

\* The tests hash the same keys: all those of a map, and none of an array.
LEMMA InvKey == IInv /\ ReadKey => IInv'
<1> SUFFICES ASSUME IInv, ReadKey PROVE IInv'
    OBVIOUS
<1>0. GoodStack /\ AtKey /\ pc = "walk" /\ error = "none" /\ SameHash
      /\ reader \in DOMAIN Tests
    BY ReaderAssumption DEF IInv, GoodStack, TypeOK, ReadKey, AtKey, Walking
<1>1. stack' \in Seq(GoodLoops) /\ stack' # <<>>
    BY <1>0, KeyType, TopType DEF ReadKey
<1>2. PICK key \in Keys : \E visited \in Visited(key) :
          Mix(IF Top.named THEN HashStr(Bytes(Test.reads.key, visited)) ELSE <<>>,
              HashStr(key))
    BY DEF ReadKey
<1>3. PICK visited \in Visited(key) :
          Mix(IF Top.named THEN HashStr(Bytes(Test.reads.key, visited)) ELSE <<>>,
              HashStr(key))
    BY <1>2
<1>4. Top.named
    BY <1>0, TopType DEF AtKey, GoodLoops, Counting
<1>5. reader \in Matching => visited = key
    BY MatchingFacts DEF Visited, Test
<1>6. Bytes(Test.reads.key, key) = key
    <2>1. key \in Seq(97..122)
        BY TextsAssumption
    <2>2. 0 \notin 97..122
        OBVIOUS
    <2> QED BY <2>1, <2>2, SameBytes
<1>7. SameHash'
    BY <1>0, <1>3, <1>4, <1>5, <1>6, MixSame DEF ReadKey
<1> QED BY <1>0, <1>1, <1>7, InvWalk DEF ReadKey

\* The tests hash the same of a value that is not a container.
LEMMA InvElement ==
    ASSUME IInv, NEW own, NEW his, ReadElement(own, his),
           reader \in Matching => own = his
    PROVE  IInv'
<1>0. GoodStack /\ AtValue /\ pc = "walk" /\ error = "none" /\ SameHash
    BY DEF IInv, GoodStack, ReadElement, AtValue, Walking
<1>1. stack' \in Seq(GoodLoops) /\ stack' # <<>>
    BY <1>0, PassedType DEF ReadElement
<1>2. SameHash'
    BY <1>0, MixSame DEF ReadElement
<1> QED BY <1>0, <1>1, <1>2, InvWalk DEF ReadElement

LEMMA InvValue ==
    IInv /\ (ReadNil \/ ReadBool \/ ReadReal \/ ReadInt \/ ReadUint \/ ReadStr) => IInv'
<1> SUFFICES ASSUME IInv,
                    ReadNil \/ ReadBool \/ ReadReal \/ ReadInt \/ ReadUint \/ ReadStr
             PROVE  IInv'
    OBVIOUS
<1>0. Test.reads.format \in Formats
    BY ReaderAssumption, TestFacts DEF IInv, TypeOK, Test
<1>1. CASE ReadNil \/ ReadBool \/ ReadReal
    BY <1>1, InvElement DEF ReadNil, ReadBool, ReadReal
<1>2. CASE ReadInt
    <2>1. PICK v \in Numbers : \E type \in Forms(Test.reads.format, v) :
              ReadElement(HashRead(type, v), HashI64(v))
        BY <1>2 DEF ReadInt
    <2>2. PICK type \in Forms(Test.reads.format, v) :
              ReadElement(HashRead(type, v), HashI64(v))
        BY <2>1
    <2>3. HashRead(type, v) = HashI64(v)
        BY <1>0, SameNumber DEF HashRead
    <2> QED BY <2>2, <2>3, InvElement
<1>3. CASE ReadUint
    <2>1. PICK v \in Numbers : \E type \in Forms(Test.reads.format, v) :
              v >= 0 /\ ReadElement(HashRead(type, v), HashU64(v))
        BY <1>3 DEF ReadUint
    <2>2. PICK type \in Forms(Test.reads.format, v) :
              v >= 0 /\ ReadElement(HashRead(type, v), HashU64(v))
        BY <2>1
    <2>3. HashRead(type, v) = HashU64(v)
        BY <1>0, <2>2, SameNumber DEF HashRead
    <2> QED BY <2>2, <2>3, InvElement
<1>4. CASE ReadStr
    <2>1. PICK str \in Texts :
              ReadElement(HashStr(Bytes(Test.reads.text, str)), HashStr(str))
        BY <1>4 DEF ReadStr
    <2>2. Bytes(Test.reads.text, str) = str
        <3>1. str \in Seq(1..255)
            BY TextsAssumption
        <3>2. 0 \notin 1..255
            OBVIOUS
        <3> QED BY <3>1, <3>2, SameBytes
    <2> QED BY <2>1, <2>2, InvElement
<1> QED BY <1>1, <1>2, <1>3, <1>4

LEMMA InvContainer == IInv /\ ReadContainer => IInv'
<1> SUFFICES ASSUME IInv, ReadContainer PROVE IInv'
    OBVIOUS
<1>0. GoodStack /\ AtValue /\ pc = "walk" /\ error = "none"
    BY DEF IInv, GoodStack, ReadContainer, AtValue, Walking
<1>1. PICK map \in BOOLEAN, n \in 1..MaxCount :
          stack' = WithTop(Passed(Top)) \o <<Loop(map, map, n)>>
    BY DEF ReadContainer
<1>2. WithTop(Passed(Top)) \in Seq(GoodLoops)
    BY <1>0, PassedType
<1>3. /\ <<Loop(map, map, n)>> \in Seq(GoodLoops)
      /\ Len(<<Loop(map, map, n)>>) = 1
    BY LoopGood
<1>4. /\ stack' \in Seq(GoodLoops)
      /\ Len(stack') = Len(WithTop(Passed(Top))) + 1
    BY <1>1, <1>2, <1>3, ConcatProperties
<1>5. stack' # <<>>
    BY <1>2, <1>4, EmptySeq
<1>6. SameHash'
    BY DEF IInv, SameHash, ReadContainer
<1> QED BY <1>0, <1>4, <1>5, <1>6, InvWalk DEF ReadContainer

LEMMA ResultType == Result \in BOOLEAN
BY Zenon DEF Result

\* The size hashed at the end of a container, from its header or counted by
\* the loop, is the one hash-object hashes.
LEMMA InvEnd == IInv /\ EndContainer => IInv'
<1> SUFFICES ASSUME IInv, EndContainer PROVE IInv'
    OBVIOUS
<1>0. /\ TypeOK /\ GoodStack /\ pc = "walk" /\ error = "none" /\ Leave(Result)
      /\ UNCHANGED <<reader, fault, error>> /\ Test' = Test
    BY DEF IInv, GoodStack, EndContainer, AtEnd, Walking, Test
<1>1. /\ stack' \in Seq(GoodLoops)
      /\ pc' \in {"walk", "done"} /\ (pc' = "walk" <=> stack' # <<>>)
      /\ pc' = "done" => returned' = Result
      /\ pc' = "walk" => returned' = returned
    BY <1>0, ResultType, LeaveType
<1>2. returned' \in BOOLEAN
    BY <1>0, <1>1, ResultType DEF TypeOK
<1>3. TypeOK'
    BY <1>0, <1>1, <1>2, GoodAreLoops DEF TypeOK
<1>4. SameHash'
    <2>1. Top \in Loops /\ Counting(Top)
        BY <1>0, TopType DEF GoodLoops
    <2>2. Top.count = Top.size
        BY <2>1 DEF EndContainer, AtEnd, Loops, Counting
    <2>3. reader \in Matching => Test.reads.size \in {"header", "counted"}
        BY MatchingFacts DEF Test
    <2>4. reader \in Matching => HashSize = HashU32(Top.size)
        BY <2>2, <2>3 DEF HashSize
    <2> QED BY <2>4, <1>0, MixSame DEF EndContainer, IInv
<1>5. ErrorHasFault'
    BY <1>0, <1>1 DEF IInv, ErrorHasFault, Result
<1>6. Checking => fault = "none"
    BY <1>0 DEF IInv, FaultHasError
<1> QED BY <1>0, <1>1, <1>3, <1>4, <1>5, <1>6
        DEF IInv, FaultHasError, FaultSeen, FaultReported, Checking

\* A test that checks leaves the walk with false, or an error under way.
LEMMA InvFault == ASSUME IInv, NEW kind \in Faults, MeetFault(kind) PROVE IInv'
<1>0. /\ TypeOK /\ GoodStack /\ pc = "walk" /\ error = "none" /\ fault = "none"
      /\ fault' = kind /\ kind # "none" /\ React(Test[kind])
      /\ UNCHANGED <<reader, due>> /\ Test' = Test
      /\ reader \in DOMAIN Tests
    BY ReaderAssumption
       DEF IInv, GoodStack, TypeOK, MeetFault, AtValue, AtKey, Walking, Faults, Test
<1>1. \/ /\ pc' = "walk" /\ error' = Test[kind] /\ error' \in {"return", "state"}
         /\ UNCHANGED <<pc, returned>>
         /\ stack' = stack \/ (AtValue /\ stack' = WithTop(Passed(Top)))
      \/ /\ pc' = "done" /\ stack' = <<>> /\ error' = error
         /\ returned' \in BOOLEAN
         /\ \/ Test[kind] = "throw" /\ returned' = FALSE
            \/ Test[kind] = "stop" /\ returned' = (Test.result = "true")
            \/ Test[kind] = "undefined"
      \/ /\ Test[kind] = "skip" /\ stack' = WithTop(Passed(Top))
         /\ UNCHANGED <<error, pc, returned>>
    BY <1>0, Zenon DEF React, Abandon
<1>2. stack' \in Seq(GoodLoops) /\ (pc' = "walk" <=> stack' # <<>>)
    <2>1. CASE Test[kind] = "skip" /\ stack' = WithTop(Passed(Top)) /\ pc' = pc
        <3>1. kind # "short"
            BY <2>1, <1>0, TestFacts DEF Test
        <3>2. AtValue
            BY <3>1 DEF MeetFault
        <3> QED BY <2>1, <3>2, <1>0, PassedType
    <2>2. CASE pc' = "walk" /\ AtValue /\ stack' = WithTop(Passed(Top))
        BY <2>2, <1>0, PassedType
    <2>3. CASE pc' = "walk" /\ stack' = stack
        BY <2>3, <1>0 DEF GoodStack, TypeOK
    <2>4. CASE pc' = "done" /\ stack' = <<>>
        BY <2>4
    <2> QED BY <1>1, <2>1, <2>2, <2>3, <2>4
<1>3. returned' \in BOOLEAN
    BY <1>0, <1>1 DEF TypeOK
<1>4. pc' \in {"walk", "done"} /\ error' \in {"none", "return", "state"}
    BY <1>0, <1>1
<1>5. TypeOK'
    BY <1>0, <1>2, <1>3, <1>4, GoodAreLoops DEF TypeOK
<1>6. SameHash' /\ ErrorHasFault'
    <2>1. error' = "state" => "state" \in {Test.short, Test.alien}
        BY <1>0, <1>1 DEF Faults
    <2> QED BY <1>0, <1>4, <2>1 DEF SameHash, ErrorHasFault
<1>7. ASSUME reader \in ErrorChecking
      PROVE  /\ pc' = "walk" => \/ error' = "return" /\ Test.nested
                                \/ error' = "state" /\ Test.result = "state"
             /\ pc' = "done" => ~returned'
    <2>1. Checks(Test, Test[kind])
        BY <1>0, <1>7, CheckingFacts DEF Test, Faults
    <2> QED BY <1>0, <1>1, <2>1 DEF Checks
<1>8. FaultHasError' /\ FaultSeen'
    BY <1>0, <1>7 DEF FaultHasError, FaultSeen, FaultReported, Checking
<1> QED BY <1>2, <1>5, <1>6, <1>8 DEF IInv

\* A loop that does not ask any more, with the library in its error state, is
\* that of a map behind its last value.
LEMMA LastTurn ==
    ASSUME IInv, pc = "walk", error = "state", ~Noticed
    PROVE  Top.left = 0
<1>1. Asks(Test) /\ "state" \in {Test.short, Test.alien}
    BY ReaderAssumption, TestFacts DEF IInv, TypeOK, ErrorHasFault, Test
<1>2. Top \in Loops
    BY TopType DEF IInv, GoodStack, GoodLoops
<1>3. ~(Top.left > 0)
    BY <1>1 DEF Noticed, Asks
<1> QED BY <1>2, <1>3 DEF Loops

\* Every step with an error under way leaves a loop.
LEMMA OnTheWayOut ==
    ASSUME IInv, ReturnFailure \/ ReturnState \/ GoOnInError
    PROVE  \E result \in BOOLEAN :
              /\ Leave(result)
              /\ \/ error = "return" /\ result = FALSE
                    /\ error' = (IF Test.nested THEN error ELSE "none")
                 \/ error = "state" /\ result = Result /\ error' = error
<1>1. CASE ReturnFailure
    BY <1>1, Zenon DEF ReturnFailure
<1>2. CASE ReturnState
    BY <1>2, ResultType, Zenon DEF ReturnState
<1>3. CASE GoOnInError
    <2>1. Top.left = 0
        BY <1>3, LastTurn DEF GoOnInError
    <2>2. ~(Top.left > 0)
        BY <2>1
    <2> QED BY <1>3, <2>2, ResultType, Zenon DEF GoOnInError
<1> QED BY <1>1, <1>2, <1>3

LEMMA InvReturn == IInv /\ (ReturnFailure \/ ReturnState \/ GoOnInError) => IInv'
<1> SUFFICES ASSUME IInv, ReturnFailure \/ ReturnState \/ GoOnInError PROVE IInv'
    OBVIOUS
<1>0. /\ TypeOK /\ GoodStack /\ pc = "walk" /\ error # "none" /\ fault # "none"
      /\ UNCHANGED <<reader, due, fault>> /\ Test' = Test
    BY DEF IInv, GoodStack, ErrorHasFault, ReturnFailure, ReturnState, GoOnInError, Test
<1>1. PICK result \in BOOLEAN :
          /\ Leave(result)
          /\ \/ error = "return" /\ result = FALSE
                /\ error' = (IF Test.nested THEN error ELSE "none")
             \/ error = "state" /\ result = Result /\ error' = error
    BY OnTheWayOut
<1>2. /\ stack' \in Seq(GoodLoops)
      /\ pc' \in {"walk", "done"} /\ (pc' = "walk" <=> stack' # <<>>)
      /\ pc' = "done" => returned' = result
      /\ pc' = "walk" => returned' = returned
    BY <1>0, <1>1, LeaveType
<1>3. returned' \in BOOLEAN
    BY <1>0, <1>2 DEF TypeOK
<1>4. error' \in {"none", "return", "state"}
    BY <1>1
<1>5. TypeOK'
    BY <1>0, <1>2, <1>3, <1>4, GoodAreLoops DEF TypeOK
<1>6. SameHash' /\ ErrorHasFault'
    BY <1>0, <1>1, <1>2 DEF IInv, SameHash, ErrorHasFault
<1>7. FaultHasError' /\ FaultSeen'
    BY <1>0, <1>1, <1>2
       DEF IInv, FaultHasError, FaultSeen, FaultReported, Checking, Result
<1> QED BY <1>2, <1>5, <1>6, <1>7 DEF IInv

LEMMA InvNext == IInv /\ [Next]_vars => IInv'
<1> SUFFICES ASSUME IInv, [Next]_vars PROVE IInv'
    OBVIOUS
<1>1. CASE \E kind \in Faults : MeetFault(kind)
    BY <1>1, InvFault
<1>2. CASE UNCHANGED vars
    BY <1>2 DEF vars, IInv, TypeOK, SameHash, ErrorHasFault, FaultHasError,
                FaultSeen, FaultReported, Checking, Test
<1> QED BY <1>1, <1>2, InvParse, InvParseShort, InvKey, InvValue, InvContainer,
           InvEnd, InvReturn
        DEF Next, Done

LEMMA Invariant == Spec => []IInv
BY InvInit, InvNext, PTL DEF Spec

-----------------------------------------------------------------------------
\* The variables of the walk keep their types, and the walk is over exactly
\* when no loop is left.
THEOREM TypeCorrect == Spec => []TypeOK
<1>1. IInv => TypeOK
    BY DEF IInv
<1> QED BY <1>1, Invariant, PTL

\* Every test but zigpak-read and Jansson's in its default mode hashes every
\* good document as hash-object does: for words of any width, numbers written
\* as any type of the format that holds them, and strings of any length.
THEOREM SameHashes == Spec => []Agreement
<1>1. IInv => Agreement
    BY DEF IInv, Agreement, HashesMatch, SameHash, ErrorHasFault
<1> QED BY <1>1, Invariant, PTL

\* The tests that check for errors never return true of a bad document.
THEOREM FaultsSeen == Spec => []FaultSeen
<1>1. IInv => FaultSeen
    BY DEF IInv
<1> QED BY <1>1, Invariant, PTL

\* After an error each of their steps leaves a loop.
THEOREM ExitEarly == Spec => EarlyExit
<1>1. ASSUME IInv, Next, fault # "none", reader \in ErrorChecking
      PROVE  Len(stack') < Len(stack) \/ UNCHANGED vars
    <2>1. pc # "walk" \/ error # "none"
        BY <1>1 DEF IInv, FaultHasError, Checking
    <2>2. pc \notin {"parse", "root"}
        BY <1>1 DEF IInv, ErrorHasFault
    <2>3. CASE ReturnFailure \/ ReturnState \/ GoOnInError
        <3>1. pc = "walk" /\ GoodStack
            BY <1>1, <2>3 DEF ReturnFailure, ReturnState, GoOnInError, IInv, GoodStack
        <3> QED BY <1>1, <2>3, <3>1, OnTheWayOut, LeaveType
    <2>4. CASE Done
        BY <2>4 DEF Done
    <2>5. ~\E kind \in Faults : MeetFault(kind)
        BY <1>1 DEF MeetFault
    <2>6. ~(AtKey \/ AtValue \/ AtEnd)
        BY <2>1 DEF AtKey, AtValue, AtEnd, Walking
    <2>7. ~(ReadKey \/ ReadNil \/ ReadBool \/ ReadReal \/ ReadInt \/ ReadUint
            \/ ReadStr \/ ReadContainer \/ EndContainer)
        BY <2>6 DEF ReadKey, ReadNil, ReadBool, ReadReal, ReadInt, ReadUint, ReadStr,
                    ReadElement, ReadContainer, EndContainer
    <2>8. ~(Parse \/ ParseShort \/ ReadRoot)
        BY <2>2 DEF Parse, ParseShort, ReadRoot
    <2> QED BY <1>1, <2>3, <2>4, <2>5, <2>7, <2>8 DEF Next
<1>2. IInv /\ [Next]_vars
        => [fault # "none" /\ reader \in ErrorChecking
                => Len(stack') < Len(stack)]_vars
    BY <1>1
<1> QED BY <1>2, Invariant, PTL DEF Spec, EarlyExit

-----------------------------------------------------------------------------
(* The callbacks of yajl-parse: counting children.                         *)

Nested ==
    /\ Level <= MaxNesting
    /\ ~begun => open = <<>> /\ depth = -1

ParserInv ==
    /\ ParserTypeOK
    /\ Nested
    /\ SlotsInStep
    /\ CountsMatch
    /\ NeverCanceled

-----------------------------------------------------------------------------
(* Sequences of counts.                                                    *)

LEMMA LevelType == ASSUME ParserTypeOK PROVE Level \in Nat /\ (open # <<>> => Level > 0)
BY EmptySeq DEF ParserTypeOK, Level

\* One more child of the innermost compound.
LEMMA CountedFacts ==
    ASSUME ParserTypeOK, open # <<>>
    PROVE  /\ CountedChild \in Seq(Nat) /\ Len(CountedChild) = Level
           /\ CountedChild[Level] = open[Level] + 1
           /\ \A k \in 1..(Level - 1) : CountedChild[k] = open[k]
<1>1. Level \in Nat /\ Level > 0 /\ Level \in 1..Len(open)
    BY LevelType DEF ParserTypeOK, Level
<1>2. open \in Seq(Nat) /\ open[Level] \in Nat
    BY <1>1 DEF ParserTypeOK
<1>3. CountedChild \in Seq(Nat) /\ Len(CountedChild) = Len(open)
    BY <1>1, <1>2 DEF CountedChild
<1>4. CountedChild[Level] = open[Level] + 1
    BY <1>1, <1>2 DEF CountedChild
<1>5. ASSUME NEW k \in 1..(Level - 1) PROVE CountedChild[k] = open[k]
    <2>1. k \in 1..Len(open) /\ k # Level
        BY <1>1 DEF Level
    <2> QED BY <2>1, <1>1, <1>2 DEF CountedChild
<1> QED BY <1>3, <1>4, <1>5 DEF Level

\* Opening a compound, and closing one.
LEMMA OpenedFacts ==
    ASSUME NEW s \in Seq(Nat)
    PROVE  /\ Append(s, 0) \in Seq(Nat) /\ Len(Append(s, 0)) = Len(s) + 1
           /\ Append(s, 0)[Len(s) + 1] = 0
           /\ \A k \in 1..Len(s) : Append(s, 0)[k] = s[k]
BY AppendProperties

LEMMA ClosedFacts ==
    ASSUME NEW s \in Seq(Nat), Len(s) > 0
    PROVE  /\ SubSeq(s, 1, Len(s) - 1) \in Seq(Nat)
           /\ Len(SubSeq(s, 1, Len(s) - 1)) = Len(s) - 1
           /\ \A k \in 1..(Len(s) - 1) : SubSeq(s, 1, Len(s) - 1)[k] = s[k]
<1>1. PICK n \in Nat : n = Len(s) - 1
    OBVIOUS
<1>2. \A k \in 1..n : s[k] \in Nat
    BY <1>1
<1>3. SubSeq(s, 1, n) = [k \in 1..n |-> s[k]]
    BY <1>1
<1>4. /\ SubSeq(s, 1, n) \in Seq(Nat) /\ Len(SubSeq(s, 1, n)) = n
      /\ \A k \in 1..n : SubSeq(s, 1, n)[k] = s[k]
    BY <1>2, <1>3
<1> QED BY <1>1, <1>4

-----------------------------------------------------------------------------
LEMMA ParserInvInit == ParserInit => ParserInv
<1> SUFFICES ASSUME ParserInit PROVE ParserInv
    OBVIOUS
<1>1. children \in [Indices -> Nat]
    BY NestingAssumption DEF ParserInit
<1>2. open \in Seq(Nat) /\ Len(open) = 0
    BY DEF ParserInit
<1>3. ParserTypeOK
    <2>1. begun \in BOOLEAN
        BY Zenon DEF ParserInit
    <2>2. depth \in -1..(Slots - 1)
        BY NestingAssumption DEF ParserInit
    <2> QED BY <1>1, <1>2, <2>1, <2>2 DEF ParserInit, ParserTypeOK
<1>4. Nested /\ SlotsInStep /\ CountsMatch /\ NeverCanceled
    BY <1>2, NestingAssumption
       DEF ParserInit, Nested, SlotsInStep, CountsMatch, NeverCanceled, Level
<1> QED BY <1>3, <1>4 DEF ParserInv

\* A scalar is counted in the slot of the innermost compound.
LEMMA ParserInvScalar == ParserInv /\ ParseScalar => ParserInv'
<1> SUFFICES ASSUME ParserInv, ParseScalar PROVE ParserInv'
    OBVIOUS
<1>0. /\ ParserTypeOK /\ Level \in Nat /\ Level > 0 /\ Level <= MaxNesting
      /\ open # <<>> /\ open' = CountedChild /\ status = "parsing"
      /\ children' = Increment(children, depth) /\ begun
      /\ UNCHANGED <<depth, hashed, ended, begun, status>>
    BY LevelType DEF ParserInv, ParseScalar, InCompound, Nested
<1>1. PICK skew \in {0, 1} : Counts(skew)
    BY <1>0 DEF ParserInv, SlotsInStep
<1>2. depth = Level - 1 + skew /\ depth \in Indices
    BY <1>0, <1>1, NestingAssumption DEF Counts, Indices
<1>3. /\ children' \in [Indices -> Nat]
      /\ children'[depth] = children[depth] + 1
      /\ \A k \in Indices : k # depth => children'[k] = children[k]
    BY <1>0, <1>2 DEF ParserTypeOK, Increment
<1>4. Level' = Level /\ open' \in Seq(Nat)
    BY <1>0, CountedFacts DEF Level
<1>5. Counts(skew)'
    <2> SUFFICES ASSUME NEW k \in 1..Level
                 PROVE  children'[k - 1 + skew] = CountedChild[k]
        BY <1>0, <1>2, <1>4 DEF Counts
    <2>1. k - 1 + skew \in Indices /\ children[k - 1 + skew] = open[k]
        BY <1>0, <1>1, NestingAssumption DEF Counts, Indices
    <2>2. CASE k = Level
        BY <2>1, <2>2, <1>0, <1>2, <1>3, CountedFacts
    <2>3. CASE k # Level
        BY <2>1, <2>3, <1>0, <1>2, <1>3, CountedFacts
    <2> QED BY <2>2, <2>3
<1>6. ParserTypeOK'
    BY <1>0, <1>3, <1>4 DEF ParserTypeOK
<1> QED BY <1>0, <1>1, <1>4, <1>5, <1>6
        DEF ParserInv, Nested, SlotsInStep, CountsMatch, NeverCanceled

\* The root takes slot 0 or slot 1.
LEMMA ParserInvRoot == ParserInv /\ ParseStartRoot => ParserInv'
<1> SUFFICES ASSUME ParserInv, ParseStartRoot PROVE ParserInv'
    OBVIOUS
<1>0. /\ ParserTypeOK /\ depth = -1 /\ status = "parsing" /\ MaxNesting > 0
      /\ open' = <<0>> /\ begun' = TRUE /\ UNCHANGED <<hashed, ended>>
    BY DEF ParserInv, Nested, ParseStartRoot
<1>1. PICK d \in {depth, depth + 1} : EnterCompound(d, children)
    BY DEF ParseStartRoot
<1>2. d + 1 \in {0, 1} /\ d + 1 < Slots /\ d + 1 \in Indices
    BY <1>0, <1>1, NestingAssumption DEF Indices
<1>3. /\ depth' = d + 1 /\ UNCHANGED status
      /\ children' = [children EXCEPT ![d + 1] = 0]
    BY <1>1, <1>2, NestingAssumption DEF EnterCompound
<1>4. open' \in Seq(Nat) /\ Level' = 1 /\ open'[1] = 0
    BY <1>0 DEF Level
<1>5. children' \in [Indices -> Nat] /\ children'[d + 1] = 0
    BY <1>0, <1>2, <1>3 DEF ParserTypeOK
<1>6. Counts(d + 1)'
    BY <1>2, <1>3, <1>4, <1>5 DEF Counts
<1>7. ParserTypeOK'
    <2>1. depth' \in -1..(Slots - 1)
        BY <1>2, <1>3, NestingAssumption DEF Indices
    <2>2. begun' \in BOOLEAN
        BY <1>0, Zenon
    <2> QED BY <1>0, <1>3, <1>4, <1>5, <2>1, <2>2 DEF ParserTypeOK
<1>8. NeverCanceled' /\ CountsMatch'
    BY <1>0, <1>3 DEF ParserInv, NeverCanceled, CountsMatch
<1>9. Nested'
    BY <1>0, <1>4, NestingAssumption DEF Nested
<1>10. SlotsInStep'
    BY <1>2, <1>6 DEF SlotsInStep
<1> QED BY <1>7, <1>8, <1>9, <1>10 DEF ParserInv

\* A nested compound is counted in its parent and takes the next slot.
LEMMA ParserInvCompound == ParserInv /\ ParseStartCompound => ParserInv'
<1> SUFFICES ASSUME ParserInv, ParseStartCompound PROVE ParserInv'
    OBVIOUS
<1> DEFINE counted == Increment(children, depth)
<1>0. /\ ParserTypeOK /\ Level \in Nat /\ Level > 0 /\ Level < MaxNesting
      /\ open # <<>> /\ open' = Append(CountedChild, 0)
      /\ status = "parsing" /\ begun
      /\ EnterCompound(depth, counted)
      /\ UNCHANGED <<hashed, ended, begun>>
    BY LevelType DEF ParserInv, ParseStartCompound, InCompound, Nested
<1>1. PICK skew \in {0, 1} : Counts(skew)
    BY <1>0 DEF ParserInv, SlotsInStep
<1>2. /\ depth = Level - 1 + skew /\ depth \in Indices
      /\ depth + 1 \in Indices /\ depth + 1 < Slots
    BY <1>0, <1>1, NestingAssumption DEF Counts, Indices
<1>3. /\ depth' = depth + 1 /\ UNCHANGED status
      /\ children' = [counted EXCEPT ![depth + 1] = 0]
    BY <1>0, <1>2, NestingAssumption DEF EnterCompound, Indices
<1>4. /\ counted \in [Indices -> Nat]
      /\ counted[depth] = children[depth] + 1
      /\ \A k \in Indices : k # depth => counted[k] = children[k]
    BY <1>0, <1>2 DEF ParserTypeOK, Increment
<1> HIDE DEF counted
<1>5. /\ children' \in [Indices -> Nat]
      /\ children'[depth + 1] = 0
      /\ \A k \in Indices : k # depth + 1 => children'[k] = counted[k]
    BY <1>2, <1>3, <1>4
<1>6. /\ open' \in Seq(Nat) /\ Level' = Level + 1 /\ open'[Level + 1] = 0
      /\ \A k \in 1..Level : open'[k] = CountedChild[k]
    BY <1>0, CountedFacts, OpenedFacts DEF Level
<1>7. Counts(skew)'
    <2>1. depth' = Level' - 1 + skew
        BY <1>0, <1>2, <1>3, <1>6
    <2>2. ASSUME NEW k \in 1..(Level + 1)
          PROVE  children'[k - 1 + skew] = open'[k]
        <3>1. CASE k = Level + 1
            <4>1. k - 1 + skew = depth + 1
                BY <3>1, <1>0, <1>2, NestingAssumption DEF Indices
            <4> QED BY <4>1, <3>1, <1>5, <1>6
        <3>2. CASE k = Level
            <4>1. k - 1 + skew = depth /\ depth # depth + 1
                BY <3>2, <1>0, <1>2, NestingAssumption DEF Indices
            <4>2. children[depth] = open[k]
                BY <4>1, <3>2, <1>0, <1>1 DEF Counts
            <4> QED BY <4>1, <4>2, <3>2, <1>0, <1>2, <1>4, <1>5, <1>6, CountedFacts
        <3>3. CASE k < Level
            <4>1. /\ k - 1 + skew \in Indices
                  /\ k - 1 + skew # depth /\ k - 1 + skew # depth + 1
                BY <3>3, <1>0, <1>2, NestingAssumption DEF Indices
            <4>2. children[k - 1 + skew] = open[k]
                BY <3>3, <1>0, <1>1 DEF Counts
            <4> QED BY <4>1, <4>2, <3>3, <1>0, <1>4, <1>5, <1>6, CountedFacts
        <3>4. k = Level + 1 \/ k = Level \/ k < Level
            BY <1>0
        <3> QED BY <3>1, <3>2, <3>3, <3>4
    <2> QED BY <2>1, <2>2, <1>6 DEF Counts
<1>8. ParserTypeOK'
    <2>1. depth' \in -1..(Slots - 1)
        BY <1>2, <1>3, NestingAssumption DEF Indices
    <2> QED BY <1>0, <1>3, <1>5, <1>6, <2>1 DEF ParserTypeOK
<1>9. Nested' /\ CountsMatch' /\ NeverCanceled'
    BY <1>0, <1>3, <1>6, NestingAssumption
       DEF ParserInv, Nested, CountsMatch, NeverCanceled
<1> QED BY <1>1, <1>7, <1>8, <1>9 DEF ParserInv, SlotsInStep

\* The count hashed is that of the slot of the compound that ends.
LEMMA ParserInvEnd == ParserInv /\ ParseEndCompound => ParserInv'
<1> SUFFICES ASSUME ParserInv, ParseEndCompound PROVE ParserInv'
    OBVIOUS
<1>0. /\ ParserTypeOK /\ open \in Seq(Nat) /\ Level = Len(open)
      /\ Level \in Nat /\ Level > 0 /\ Level <= MaxNesting
      /\ open' = SubSeq(open, 1, Level - 1)
      /\ status = "parsing" /\ begun
      /\ hashed' = children[depth] /\ depth' = depth - 1
      /\ ended' = open[Level]
      /\ UNCHANGED <<children, begun, status>>
    BY LevelType DEF ParserInv, ParserTypeOK, ParseEndCompound, InCompound, Nested, Level
<1>1. PICK skew \in {0, 1} : Counts(skew)
    BY <1>0 DEF ParserInv, SlotsInStep
<1>2. depth = Level - 1 + skew /\ depth \in Indices
    BY <1>0, <1>1, NestingAssumption DEF Counts, Indices
<1>3. children[depth] = open[Level] /\ open[Level] \in Nat
    BY <1>0, <1>1, <1>2 DEF Counts
<1>4. /\ open' \in Seq(Nat) /\ Level' = Level - 1
      /\ \A k \in 1..(Level - 1) : open'[k] = open[k]
    BY <1>0, ClosedFacts DEF Level
<1>5. Counts(skew)'
    BY <1>0, <1>1, <1>2, <1>4 DEF Counts
<1>6. ParserTypeOK'
    <2>1. depth' \in -1..(Slots - 1)
        BY <1>0, <1>2, NestingAssumption DEF Indices
    <2>2. hashed' \in Nat /\ ended' \in Nat
        BY <1>0, <1>3
    <2> QED BY <1>0, <1>4, <2>1, <2>2 DEF ParserTypeOK
<1>7. Nested' /\ CountsMatch' /\ NeverCanceled'
    BY <1>0, <1>3, <1>4, NestingAssumption
       DEF ParserInv, Nested, CountsMatch, NeverCanceled
<1> QED BY <1>1, <1>5, <1>6, <1>7 DEF ParserInv, SlotsInStep

LEMMA ParserInvNext == ParserInv /\ [ParserNext]_parserVars => ParserInv'
<1> SUFFICES ASSUME ParserInv, [ParserNext]_parserVars PROVE ParserInv'
    OBVIOUS
<1>1. CASE CompleteParse
    <2>1. status' \in {"ok", "error"} /\ UNCHANGED <<parser, document>>
        BY <1>1 DEF CompleteParse
    <2> QED BY <2>1 DEF ParserInv, ParserTypeOK, Nested, SlotsInStep, CountsMatch,
                        NeverCanceled, Level, parser, document
<1>2. CASE UNCHANGED parserVars
    BY <1>2 DEF parserVars, ParserInv, ParserTypeOK, Nested, SlotsInStep, Counts, CountsMatch,
                NeverCanceled, Level
<1> QED BY <1>1, <1>2, ParserInvScalar, ParserInvRoot, ParserInvCompound, ParserInvEnd
        DEF ParserNext, Stopped

LEMMA ParserInvariant == ParserSpec => []ParserInv
BY ParserInvInit, ParserInvNext, PTL DEF ParserSpec

-----------------------------------------------------------------------------
\* The variables of the parser keep their types: depth never leaves the array
\* by more than the -1 it starts from.
THEOREM ParserTypeCorrect == ParserSpec => []ParserTypeOK
<1>1. ParserInv => ParserTypeOK
    BY DEF ParserInv
<1> QED BY <1>1, ParserInvariant, PTL

\* Every compound is hashed with the number of its children.
THEOREM HashedCounts == ParserSpec => []CountsMatch
<1>1. ParserInv => CountsMatch
    BY DEF ParserInv
<1> QED BY <1>1, ParserInvariant, PTL

\* While a compound is open every callback touches a slot of the array.
THEOREM NoUnderflowInside == ParserSpec => []InBounds
<1>1. ParserInv => InBounds
    <2> SUFFICES ASSUME ParserInv, InCompound PROVE depth \in Indices
        BY DEF InBounds
    <2>1. /\ Level \in Nat /\ Level > 0 /\ Level <= MaxNesting
          /\ status = "parsing" /\ begun
        BY LevelType DEF ParserInv, InCompound, Nested
    <2>2. PICK skew \in {0, 1} : Counts(skew)
        BY <2>1 DEF ParserInv, SlotsInStep
    <2> QED BY <2>1, <2>2, NestingAssumption DEF Counts, Indices
<1> QED BY <1>1, ParserInvariant, PTL

\* No document within the generator's nesting is canceled.
THEOREM AcceptsGenerated == ParserSpec => []NeverCanceled
<1>1. ParserInv => NeverCanceled
    BY DEF ParserInv
<1> QED BY <1>1, ParserInvariant, PTL
=============================================================================
