-------------------------------- MODULE Hash --------------------------------
(***************************************************************************)
(* src/common/hash.h: how a string is hashed, and core.hash of             *)
(* src/common/core.zig, which the tests in Zig use instead.                *)
(*                                                                         *)
(* A hash is the sequence of what has been mixed into it: that two         *)
(* sequences may collide in 32 bits is left out.  A word is its four       *)
(* bytes, the least significant first.                                     *)
(***************************************************************************)
EXTENDS Integers, Sequences

\* hash_u32: hash * 31 ^ val.
HashU32(hash, val) == Append(hash, val)

\* The four bytes read at str + 4 * (k - 1).
WordAt(str, k) ==
    <<str[4 * k - 3], str[4 * k - 2], str[4 * k - 1], str[4 * k]>>

\* The switch that falls through: the remaining one to three bytes.
LastWord(str) ==
    LET left == Len(str) % 4
        from == Len(str) - left
    IN  <<str[from + 1], IF left >= 2 THEN str[from + 2] ELSE 0,
          IF left = 3 THEN str[from + 3] ELSE 0, 0>>

\* The words of a string, zero-padded.
WordsOf(str) ==
    [k \in 1..((Len(str) + 3) \div 4) |->
        IF 4 * k <= Len(str) THEN WordAt(str, k) ELSE LastWord(str)]

HashStrNoLength(hash, str) ==   \* mutant: the length is not mixed in
    hash \o WordsOf(str)

\* hash_str.
HashStr(hash, str) == HashU32(hash, Len(str)) \o WordsOf(str)

-----------------------------------------------------------------------------
(* core.hash of a slice.  std.mem.window, of four bytes that advance by    *)
(* four, yields a shorter last window when the length is no multiple of    *)
(* four, and one empty window of an empty slice.                           *)

LastWindow(str) == IF Len(str) > 4 THEN (Len(str) + 3) \div 4 ELSE 1

Window(str, k) ==
    SubSeq(str, 4 * k - 3, IF 4 * k <= Len(str) THEN 4 * k ELSE Len(str))

\* @memcpy needs a window as long as the buffer.  A shorter one is a panic
\* in a safe build; otherwise what is copied is undefined, taken to be the
\* window and behind it either the zeros of the buffer or other memory.
Copied(window, behind) ==
    [j \in 1..4 |-> IF j <= Len(window) THEN window[j] ELSE behind]

CoreHashBig(hash, str, behind) ==   \* mutant: the words are read big-endian
    HashU32(hash, Len(str)) \o
        [k \in 1..LastWindow(str) |->
            LET w == Copied(Window(str, k), behind)
            IN  <<w[4], w[3], w[2], w[1]>>]

CoreHash(hash, str, behind) ==
    HashU32(hash, Len(str)) \o
        [k \in 1..LastWindow(str) |-> Copied(Window(str, k), behind)]

\* What every window of the slice is four bytes long of.
WholeWindows(str) == Len(str) > 0 /\ Len(str) % 4 = 0
=============================================================================
