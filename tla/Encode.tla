------------------------------- MODULE Encode -------------------------------
(***************************************************************************)
(* From a generated object to the hash of its encoding: the strings of     *)
(* generator.c are written by cmp-write or ubj-write into the growable     *)
(* buffer of buffer.h, and run_test hashes the buffer with hash_str.       *)
(*                                                                         *)
(* The object is a map of one entry, a key and a string.  An encoding is   *)
(* a header, and a marker that tells the length in front of every string,  *)
(* each of which is a write of its own.  That is the format as cmp has it; *)
(* ubj differs in the bytes only, and in going on after a failed write.    *)
(* zigpak-write hashes the same bytes with core.hash, from a buffer of the *)
(* Zig library.                                                            *)
(***************************************************************************)
EXTENDS GrowBuffer, Hash

CONSTANTS              \* of Strings
    MaxString, KeyLengths, Gaps, Letters, Specials, Printables, CodePoints

ASSUME StringAssumption ==
    /\ MaxString \in Nat
    /\ KeyLengths \subseteq 2..10 /\ Gaps \subseteq 2..9
    /\ Letters \subseteq (65..90) \cup (97..122)
    /\ Specials \subseteq {10, 34, 92} /\ Printables \subseteq 33..126
    /\ CodePoints \subseteq 161..255

VARIABLES
    kind, length, str, ascii, spaces, nextSpace,    \* of Strings
    object,             \* the key and the value generated, with their lengths
    writes,             \* the writes the library has yet to make
    hash,               \* what run_test has put in *hash_out
    zigHash             \* the hash core.hash computes of the same bytes

Generator == INSTANCE Strings

stringVars == <<kind, length, str, ascii, spaces, nextSpace>>
hashVars == <<hash, zigHash>>
encodeVars == <<vars, stringVars, object, writes, hashVars>>

\* The marker of a string and its length.
Marked(s) ==
    IF s.len < 32 THEN <<160 + s.len>>
    ELSE IF s.len < 256 THEN <<217, s.len>>
    ELSE <<218, (s.len \div 256) % 256, s.len % 256>>

\* The bytes of a map of one entry, and the writes that make them.
Encoding(o) ==
    <<129>> \o Marked(o[1]) \o o[1].str \o Marked(o[2]) \o o[2].str
WritesOf(o) ==
    <<<<129>>, Marked(o[1]), o[1].str, Marked(o[2]), o[2].str>>

EncodeInit ==
    /\ Init
    /\ Generator!Init
    /\ object = <<>> /\ writes = <<>>
    /\ hash = <<>> /\ zigHash = <<>>

-----------------------------------------------------------------------------
(* benchmark_object_create: random_key for the key, then the value.        *)

NewKey ==
    /\ object = <<>> /\ kind = "none"
    /\ Generator!StartKey
    /\ UNCHANGED <<vars, object, writes, hashVars>>

NewString ==
    /\ Len(object) = 1 /\ kind = "none"
    /\ Generator!StartString
    /\ UNCHANGED <<vars, object, writes, hashVars>>

PutCharacter ==
    /\ Generator!PutCharacter
    /\ UNCHANGED <<vars, object, writes, hashVars>>

\* The function returns, and the object holds the string.
KeepString ==
    /\ Generator!Complete
    /\ object' = Append(object, [str |-> str, len |-> length])
    /\ writes' = IF Len(object') = 2 THEN WritesOf(object') ELSE <<>>
    /\ kind' = "none" /\ length' = 0 /\ str' = <<>>
    /\ ascii' = TRUE /\ spaces' = FALSE /\ nextSpace' = 0
    /\ UNCHANGED <<vars, hashVars>>

-----------------------------------------------------------------------------
(* run_test.                                                               *)

WriteNext ==
    /\ writes # <<>>
    /\ Write(Head(writes))
    /\ writes' = Tail(writes)
    /\ UNCHANGED <<stringVars, object, hashVars>>

Grow ==
    /\ Double \/ Reallocate \/ ReallocateFails
    /\ UNCHANGED <<stringVars, object, writes, hashVars>>

\* *hash_out, as go() has initialised it.
Initial == <<"initial">>

Panic == <<"panic">>

\* What core.hash yields of the bytes: undefined for some, a panic or any
\* bytes behind a window that is too short.
CoreHashes(bytes) ==
    {CoreHash(Initial, bytes, behind) : behind \in {0, 255}}
        \cup (IF WholeWindows(bytes) THEN {} ELSE {Panic})

\* All is written, or the library has stopped at a failure.
HashResult ==
    /\ Len(object) = 2
    /\ writes = <<>> \/ (error /\ stops)
    /\ Finish
    /\ IF returned'
       THEN /\ hash' = HashStr(Initial, data)
            /\ zigHash' \in CoreHashes(data)
       ELSE UNCHANGED hashVars
    /\ UNCHANGED <<stringVars, object, writes>>

EncodeDone == Done /\ UNCHANGED encodeVars

EncodeNext ==
    \/ NewKey \/ NewString \/ PutCharacter \/ KeepString
    \/ WriteNext \/ Grow \/ HashResult \/ EncodeDone

EncodeSpec == EncodeInit /\ [][EncodeNext]_encodeVars

\* A call of buffer_write, once begun, runs to its end.
FairEncode == EncodeSpec /\ WF_encodeVars(Grow)

-----------------------------------------------------------------------------
(* Properties.                                                             *)

\* random_string and random_key never write behind the block, whose last
\* byte is for the terminator, and what they return is whole: see
\* WellFormedString of Strings.
WellFormed ==
    /\ Len(str) <= length
    /\ \A k \in DOMAIN object :
           Generator!WellFormedString(object[k].str, object[k].len)

\* The strings that differ least from an encoding: a byte of another value,
\* the last one missing, a null behind it.
Nearby(s) ==
    {[s EXCEPT ![k] = 0] : k \in {j \in 1..Len(s) : s[j] # 0}}
        \cup {SubSeq(s, 1, Len(s) - 1), Append(s, 0)}

\* What run_test hashes is the encoding of the object to the last byte, and
\* its hash tells it from those that differ least: no word and no byte is
\* left out, and the length makes the padding of the last word unambiguous.
HashKeepsAll ==
    pc = "done" /\ returned =>
        /\ data = Encoding(object)
        /\ \A other \in Nearby(Encoding(object)) :
               HashStr(Initial, other) # hash

\* core.hash agrees with hash_str on the strings whose windows are whole.
ZigAgrees ==
    pc = "done" /\ returned /\ WholeWindows(data) => zigHash = hash
=============================================================================
