------------------------------- MODULE Strings -------------------------------
(***************************************************************************)
(* The strings of the object generator, src/common/generator.c: random_key *)
(* and random_string, which write a string into a block of one byte more   *)
(* than its length, a character at a time.                                 *)
(*                                                                         *)
(* What random_next returns is open: every draw is a choice, and the odds  *)
(* are left out.  A step is a turn of the loop.                            *)
(***************************************************************************)
EXTENDS Integers, Sequences

CONSTANTS
    MaxString,          \* the maximum given to random_inverse: 1000
    KeyLengths,         \* the lengths of keys considered, of 2 to 10
    Gaps,               \* the distances of spaces considered, of 2 to 9
    Letters, Specials, Printables,  \* the characters considered
    CodePoints          \* those of two bytes

VARIABLES
    kind,               \* "none", "key" or "str": what is being generated
    length, str,        \* of random_key and random_string; i is Len(str)
    ascii, spaces, nextSpace    \* of random_string

stringVars == <<kind, length, str, ascii, spaces, nextSpace>>

\* bits: how many the maximum has.
Bits(max) == CHOOSE b \in 1..31 : 2^(b - 1) <= max /\ max < 2^b

\* random_inverse(max): what it may return.
RandomInverse(max) ==
    IF max <= 1 THEN 0..max
    ELSE LET bits == Bits(max) IN
         UNION {0..(max \div div - 1 + 2^(bits \div 3) - 1) :
                    div \in 1..2^((bits * 2) \div 3)}

Init ==
    /\ kind = "none"
    /\ length = 0 /\ str = <<>>
    /\ ascii = TRUE /\ spaces = FALSE /\ nextSpace = 0

\* random_key is called.
StartKey ==
    /\ kind' = "key"
    /\ length' \in KeyLengths
    /\ str' = <<>>
    /\ UNCHANGED <<ascii, spaces, nextSpace>>

\* random_string is called, with the length random_type has drawn.
StartString ==
    /\ kind' = "str"
    /\ length' \in RandomInverse(MaxString)
    /\ str' = <<>>
    /\ ascii' \in BOOLEAN
    /\ spaces' \in {length' > 50, TRUE}
    /\ nextSpace' \in Gaps

InLoop == kind # "none" /\ Len(str) < length

\* A character is written; the last two of random_string count the space down.
Put(bytes) ==
    /\ str' = str \o bytes
    /\ nextSpace' = IF kind = "str" /\ spaces THEN nextSpace - 1 ELSE nextSpace
    /\ UNCHANGED <<kind, length, ascii, spaces>>

SpaceIsDue == spaces /\ nextSpace = 0

PutKeyLetter ==
    /\ InLoop /\ kind = "key"
    /\ \E c \in Letters \cap (97..122) : Put(<<c>>)

PutSpace ==
    /\ InLoop /\ kind = "str" /\ SpaceIsDue
    /\ str' = Append(str, 32)
    /\ nextSpace' \in Gaps
    /\ UNCHANGED <<kind, length, ascii, spaces>>

\* One that needs to be escaped, any printable one, or a letter.
PutAscii ==
    /\ InLoop /\ kind = "str" /\ ~SpaceIsDue
    /\ \E c \in Specials \cup Printables \cup Letters : Put(<<c>>)

\* The two bytes of a code point in UTF-8.
Utf8(cp) == <<192 + cp \div 64, 128 + (cp % 64)>>

PutCodePointTight ==    \* mutant: does not ask for room for the second byte
    /\ InLoop /\ kind = "str" /\ ~SpaceIsDue
    /\ ~ascii
    /\ \E cp \in CodePoints : Put(Utf8(cp))

PutCodePoint ==
    /\ InLoop /\ kind = "str" /\ ~SpaceIsDue
    /\ ~ascii /\ length - Len(str) >= 2
    /\ \E cp \in CodePoints : Put(Utf8(cp))

\* The function returns, the terminating null behind the characters.
Complete == kind # "none" /\ Len(str) >= length

PutCharacter == PutKeyLetter \/ PutSpace \/ PutAscii \/ PutCodePoint

-----------------------------------------------------------------------------
(* Properties.                                                             *)

\* How far a string is UTF-8: what the bytes of a character may be.
IsAscii(b) == b \in 1..127
IsLead(b)  == b \in 194..223
IsTail(b)  == b \in 128..191

\* A string of the generator fills its block: as many bytes as the length
\* says and no more, no null before its end, which lets the tests choose
\* between length and terminator, and in UTF-8, no character cut off.
WellFormedString(s, len) ==
    /\ Len(s) = len
    /\ \A k \in 1..Len(s) :
        \/ IsAscii(s[k])
        \/ IsLead(s[k]) /\ k < Len(s) /\ IsTail(s[k + 1])
        \/ IsTail(s[k]) /\ k > 1 /\ IsLead(s[k - 1])
=============================================================================
