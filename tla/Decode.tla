------------------------------- MODULE Decode -------------------------------
(***************************************************************************)
(* What a parser test of src/ gets to see of a value, and what it hashes   *)
(* of it: the numbers and strings of a document, as the format has them,   *)
(* as the library hands them over, as the test fetches them, and as        *)
(* src/common/hash.h takes them in.                                        *)
(*                                                                         *)
(* A number is written as one of the types of the format that hold it.     *)
(* Which one is left to the library that writes: the test must cope with   *)
(* each.  A string comes with its length, or as a block with a null behind *)
(* it that the test has to look for.                                       *)
(***************************************************************************)
EXTENDS Integers, Sequences

CONSTANTS
    Values,             \* how many values a word of each width has
    Numbers, Texts, Keys    \* the integers, strings and keys considered

Widths == {8, 16, 32, 64}

ASSUME ValuesAssumption ==
    /\ Values \in [Widths -> Nat \ {0}]
    /\ \A width \in Widths : Values[width] % 2 = 0

\* The generator makes signed integers of 64 bits, and unsigned ones that
\* fit a signed one.
ASSUME NumbersAssumption ==
    Numbers \subseteq -(Values[64] \div 2)..(Values[64] \div 2 - 1)

\* It makes no null, and keys of 2 to 10 lowercase letters.
ASSUME TextsAssumption ==
    /\ Texts \subseteq Seq(1..255)
    /\ Keys \subseteq Seq(97..122)
    /\ \A key \in Keys : Len(key) \in 2..10

-----------------------------------------------------------------------------
(* hash.h: what each function mixes in.  Hash goes into hash_str.          *)

Word(n) == <<"word", n>>
Text(bytes) == <<"text", bytes>>

HashU32(n) == <<Word(n)>>

\* The upper half goes first.
HashU64(u) == <<Word(u \div Values[32]), Word(u % Values[32])>>

\* The signed number is taken as an unsigned one of as many bits.
HashI64(v) == HashU64(v % Values[64])

HashStr(bytes) == <<Word(Len(bytes)), Text(bytes)>>
HashNil == HashU32(0) \o HashStr(<<110, 105, 108>>)     \* "nil"
HashBool(b) == HashU32(IF b THEN 1 ELSE 0)
HashDouble == HashU32(43013)

-----------------------------------------------------------------------------
(* Numbers.                                                                *)

Types == [signed : BOOLEAN, width : Widths]
Type(signed, width) == [signed |-> signed, width |-> width]

Lowest(type) == IF type.signed THEN -(Values[type.width] \div 2) ELSE 0
Holds(type, v) == Lowest(type) <= v /\ v < Lowest(type) + Values[type.width]

\* The types each format may have a number as.  The BSON programs take the
\* smaller one that holds it; a number in JSON has no type until it is parsed.
Forms(format, v) ==
    CASE format \in {"messagepack", "binn"} -> {type \in Types : Holds(type, v)}
      [] format = "ubjson" ->
            {type \in {Type(FALSE, 8)} \cup {Type(TRUE, w) : w \in Widths} :
                Holds(type, v)}
      [] format = "bson" ->
            {Type(TRUE, IF Holds(Type(TRUE, 32), v) THEN 32 ELSE 64)}
      [] format = "json" -> {Type(TRUE, 64)}

\* The bits of the number in the data.
Payload(type, v) == v % Values[type.width]

MemberUnsigned(type, bits) ==       \* mutant: a signed number fetched unsigned
    bits

\* The number that the member of that type of a union is.
Member(type, bits) ==
    IF type.signed /\ bits >= Values[type.width] \div 2
    THEN bits - Values[type.width]
    ELSE bits

\* The number as the test has it: fetched from the union by its type, or
\* handed over by the library as a number of 64 bits.
Fetched(how, type, v) ==
    IF how = "member" THEN Member(type, Payload(type, v)) ELSE v

HashInt(type, n) == IF type.signed THEN HashI64(n) ELSE HashU64(n)

-----------------------------------------------------------------------------
(* Strings.                                                                *)

\* The string in memory, with its terminator.
Block(bytes) == Append(bytes, 0)

StrLenWithNull(block) ==            \* mutant: the terminator is counted
    CHOOSE n \in 1..Len(block) :
        block[n] = 0 /\ \A k \in 1..(n - 1) : block[k] # 0

StrLen(block) ==
    CHOOSE n \in 0..(Len(block) - 1) :
        block[n + 1] = 0 /\ \A k \in 1..n : block[k] # 0

\* The bytes the test hashes: as many as the library says, or as strlen finds.
Bytes(how, bytes) ==
    IF how = "strlen" THEN SubSeq(Block(bytes), 1, StrLen(Block(bytes))) ELSE bytes

-----------------------------------------------------------------------------
(* How a test reads a document.                                            *)
(*   format   the format of the document                                   *)
(*   ints     how the test comes by an integer: "member" or "value"        *)
(*   text     how it comes by the length of a string: "given" or "strlen"  *)
(*   key      ... and of a key                                             *)
(*   size     the size hashed at the end of a container: that of its       *)
(*            header, what the loop counted, or none                       *)

Reads(format, ints, text, key, size) ==
    [format |-> format, ints |-> ints, text |-> text, key |-> key, size |-> size]
=============================================================================
