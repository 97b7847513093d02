----------------------------- MODULE GrowBuffer -----------------------------
(***************************************************************************)
(* src/common/buffer.h: the growable buffer of the encoders whose library  *)
(* has none, cmp-write and ubj-write, and what they do with its failures.  *)
(*                                                                         *)
(* cmp passes a failed write on and its test gives up.  ubj does not look  *)
(* at what its write callback returns and writes on into the same buffer;  *)
(* the test notes the failure in error_occurred.  So a buffer is used     *)
(* after a failed write, and must be what it was before it.                *)
(*                                                                         *)
(* A write that does not fit doubles the capacity, more than once if need  *)
(* be; the loop is a step per turn.                                        *)
(***************************************************************************)
EXTENDS Integers, Sequences

CONSTANT InitialCapacity    \* 4096

ASSUME CapacityAssumption == InitialCapacity \in Nat \ {0}

Byte == 0..255

VARIABLES
    data, capacity,     \* of buffer_t; Len(data) is its count
    size,               \* ghost: the size of the block data points to
    pc,                 \* "encode", "grow" within buffer_write, or "done"
    pending,            \* the bytes of the write under way
    newCapacity,        \* new_capacity
    asked,              \* ghost: all the library has asked to be written
    error,              \* error_occurred, or what the write returned to cmp
    stops,              \* whether the library stops at an error: cmp does
    returned            \* what run_test returns

vars == <<data, capacity, size, pc, pending, newCapacity, asked, error, stops,
          returned>>

\* buffer_init.  That its malloc fails is left out: nothing looks at it.
Init ==
    /\ data = <<>>
    /\ capacity = InitialCapacity /\ size = InitialCapacity
    /\ pc = "encode"
    /\ pending = <<>> /\ newCapacity = 0
    /\ asked = <<>>
    /\ error = FALSE
    /\ stops \in BOOLEAN
    /\ returned = FALSE

\* The library writes some bytes: buffer_write looks whether they fit.
Write(bytes) ==
    /\ pc = "encode" /\ ~(error /\ stops)
    /\ asked' = asked \o bytes
    /\ IF Len(data) + Len(bytes) > capacity
       THEN /\ pc' = "grow"
            /\ pending' = bytes
            /\ newCapacity' = capacity * 2
            /\ UNCHANGED data
       ELSE /\ data' = data \o bytes
            /\ UNCHANGED <<pc, pending, newCapacity>>
    /\ UNCHANGED <<capacity, size, error, stops, returned>>

BufferWrite == \E bytes \in Seq(Byte) : Write(bytes)

TooSmall == Len(data) + Len(pending) > newCapacity

DoubleCapacity ==       \* mutant: new_capacity is computed from capacity
    /\ pc = "grow" /\ TooSmall
    /\ newCapacity' = capacity * 2
    /\ UNCHANGED <<data, capacity, size, pc, pending, asked, error, stops,
                   returned>>

\* The while loop.
Double ==
    /\ pc = "grow" /\ TooSmall
    /\ newCapacity' = newCapacity * 2
    /\ UNCHANGED <<data, capacity, size, pc, pending, asked, error, stops,
                   returned>>

ReallocateQuietly ==    \* mutant: what realloc returns is not looked at
    /\ pc = "grow" /\ ~TooSmall
    /\ pc' = "encode" /\ pending' = <<>>
    /\ UNCHANGED <<data, capacity, size, newCapacity, asked, error, stops,
                   returned>>

\* realloc succeeds: the bytes move along, and the new ones go behind them.
Reallocate ==
    /\ pc = "grow" /\ ~TooSmall
    /\ size' = newCapacity /\ capacity' = newCapacity
    /\ data' = data \o pending
    /\ pc' = "encode" /\ pending' = <<>>
    /\ UNCHANGED <<newCapacity, asked, error, stops, returned>>

ReallocateFailsLate ==  \* mutant: the capacity is set before realloc
    /\ pc = "grow" /\ ~TooSmall
    /\ error' = TRUE
    /\ capacity' = newCapacity
    /\ pc' = "encode" /\ pending' = <<>>
    /\ UNCHANGED <<data, size, newCapacity, asked, stops, returned>>

\* realloc fails and leaves the block alone; buffer_write returns false.
ReallocateFails ==
    /\ pc = "grow" /\ ~TooSmall
    /\ error' = TRUE
    /\ pc' = "encode" /\ pending' = <<>>
    /\ UNCHANGED <<data, capacity, size, newCapacity, asked, stops, returned>>

\* The walk of the object ends, or ends early; run_test asks for the error.
Finish ==
    /\ pc = "encode"
    /\ pc' = "done"
    /\ returned' = ~error
    /\ UNCHANGED <<data, capacity, size, pending, newCapacity, asked, error,
                   stops>>

Done == pc = "done" /\ UNCHANGED vars

Next ==
    \/ BufferWrite \/ Double \/ Reallocate \/ ReallocateFails
    \/ Finish \/ Done

Spec == Init /\ [][Next]_vars

\* A call of buffer_write, once begun, runs to its end.
FairSpec == Spec /\ WF_vars(Double \/ Reallocate \/ ReallocateFails)

-----------------------------------------------------------------------------
(* Properties.                                                             *)

TypeOK ==
    /\ data \in Seq(Byte) /\ pending \in Seq(Byte) /\ asked \in Seq(Byte)
    /\ capacity \in Nat /\ size \in Nat /\ newCapacity \in Nat
    /\ pc \in {"encode", "grow", "done"}
    /\ pc = "grow" <=> pending # <<>>
    /\ error \in BOOLEAN /\ stops \in BOOLEAN /\ returned \in BOOLEAN

\* memcpy stays in the block, after any number of growths and of failures.
InBlock == Len(data) <= size

\* The buffer never takes twice what it holds, but for the first block.
NoWaste == capacity = InitialCapacity \/ capacity < 2 * Len(data)

\* run_test hashes what the library has written, all of it and in order, or
\* returns false: a failed write is not forgotten by the writes after it.
WholeOrFalse == pc = "done" /\ returned => data = asked

\* The loop ends: every write succeeds or fails.
WritesEnd == [](pc = "grow" => <>(pc = "encode"))
=============================================================================
