------------------------------ MODULE Generator ------------------------------
(***************************************************************************)
(* src/common/generator.c: object_create, which builds the random object   *)
(* that every benchmark encodes or compares its hash with.                *)
(*                                                                         *)
(* object_init grows a tree of separate allocations and keeps the sum of   *)
(* the space a flat copy will need; object_copy then walks the tree again  *)
(* and moves it into one chunk of that size, with a pool pointer that only *)
(* advances; object_teardown walks it a third time and frees it.  The two  *)
(* size computations are written apart, in different terms, and nothing    *)
(* compares the pool pointer with the end of the chunk.                    *)
(*                                                                         *)
(* The recursion of the three walks is a stack here: a frame is a block of *)
(* objects and the next one of it to visit.  A value is its type and, for  *)
(* strings and containers, its length and the block it points to.  Which   *)
(* types and lengths the random numbers pick is left open.                 *)
(***************************************************************************)
EXTENDS Integers, Sequences

CONSTANTS
    Size,               \* the size argument, 1..5 for the benchmarks
    LengthBase,         \* the 3 that container lengths start from
    DepthLimit,         \* the 31 below which a container may be picked
    StrLengths,         \* the lengths of random strings considered
    Keys,               \* the map keys considered ...
    KeyLength,          \*   ... and the length of each
    MaxContents,        \* bound: containers are picked up to this total_size
    SizeofObject,       \* sizeof(object_t)
    Alignment           \* __alignof__(object_t)

ASSUME LengthAssumption ==
    /\ Size \in Nat /\ DepthLimit \in Nat \ {0}
    /\ LengthBase \in Nat /\ LengthBase >= 2
    /\ StrLengths \subseteq Nat
    /\ KeyLength \in [Keys -> Nat \ {0}]

ASSUME LayoutAssumption ==
    /\ Alignment \in Nat \ {0}
    /\ SizeofObject \in Nat \ {0}
    /\ SizeofObject % Alignment = 0

VARIABLES
    pc,                 \* the phase of object_create
    blocks,             \* every malloc of object_init that was kept, in order
    live,               \* the blocks not freed
    stray,              \* strings allocated for keys that were not unique
    totalSize,          \* total_size
    chunk,              \* what has been placed in the flat copy, in order
    pool,               \* the pool pointer, as an offset into the chunk
    stack               \* the frames of the walk under way

vars == <<pc, blocks, live, stray, totalSize, chunk, pool, stack>>

Containers == {"array", "map"}
Types == {"scalar", "str"} \cup Containers

\* An object_t: null until it is initialised; to is the block it points to.
Null == [type |-> "null", l |-> 0, to |-> 0]
Scalar == [type |-> "scalar", l |-> 0, to |-> 0]
Object(type, l, to) == [type |-> type, l |-> l, to |-> to]

\* A block of n objects, or of the bytes of a string with its terminator.
ObjectBlock(n) == [bytes |-> n * SizeofObject, text |-> "none",
                   cells |-> [k \in 1..n |-> Null]]
StringBlock(l, text) == [bytes |-> l + 1, text |-> text, cells |-> <<>>]

\* object_align.
ObjectAlign(n) == ((n + Alignment - 1) \div Alignment) * Alignment

Frame(block) == [block |-> block, next |-> 1]

Init ==
    /\ pc = "init"
    /\ blocks = <<ObjectBlock(1)>>
    /\ live = {1}
    /\ stray = 0
    /\ totalSize = ObjectAlign(SizeofObject)
    /\ chunk = <<>>
    /\ pool = 0
    /\ stack = <<Frame(1)>>

-----------------------------------------------------------------------------
(* Walking a tree of blocks.                                               *)

Top == stack[Len(stack)]
Below == SubSeq(stack, 1, Len(stack) - 1)

AtCell == stack # <<>> /\ Top.next <= Len(blocks[Top.block].cells)
AtReturn == stack # <<>> /\ Top.next > Len(blocks[Top.block].cells)

Cell == blocks[Top.block].cells[Top.next]

\* The object that the block of the top frame belongs to: the cell the frame
\* below has just stepped over.
OwnerType ==
    IF Len(stack) < 2 THEN "root"
    ELSE LET caller == stack[Len(stack) - 1]
         IN blocks[caller.block].cells[caller.next - 1].type

Advance == Below \o <<[Top EXCEPT !.next = @ + 1]>>
Descend(block) == Advance \o <<Frame(block)>>

-----------------------------------------------------------------------------
(* object_init.                                                            *)

Depth == Len(stack) - 1

\* The cells at odd places of a map hold its keys.
AtKey == OwnerType = "map" /\ Top.next % 2 = 1

InitValue == pc = "init" /\ AtCell /\ ~AtKey

\* The current cell gets an object that points to a new block.
Store(object, block) ==
    /\ blocks' = Append([blocks EXCEPT ![Top.block].cells[Top.next] = object],
                        block)
    /\ live' = live \cup {Len(blocks) + 1}

\* nil, bool, int, uint and double: nothing is allocated.  random_type never
\* picks one at depth 0, where a random number is at most 2 modulo 2.
InitScalar ==
    /\ InitValue
    /\ Depth > 0
    /\ blocks' = [blocks EXCEPT ![Top.block].cells[Top.next] = Scalar]
    /\ stack' = Advance
    /\ UNCHANGED <<pc, live, stray, totalSize, chunk, pool>>

InitString ==
    /\ InitValue
    /\ Depth > 0
    /\ \E l \in StrLengths :
          /\ Store(Object("str", l, Len(blocks) + 1), StringBlock(l, "value"))
          /\ totalSize' = totalSize + ObjectAlign(l + 1)
    /\ stack' = Advance
    /\ UNCHANGED <<pc, stray, chunk, pool>>

\* random_type: the length of a container is near 3, doubled for every level
\* of the size still below it, and halved for a map.
Lengths(type) ==
    LET len == LengthBase * 2^(IF Size > Depth THEN Size - Depth ELSE 0)
    IN IF type = "map" THEN {n \div 2 : n \in len..(2 * len - 1)}
                       ELSE len..(2 * len - 1)

InitContainerMapSize ==     \* mutant: the keys of a map are not counted
    /\ InitValue
    /\ Depth < DepthLimit
    /\ \E type \in Containers : \E l \in Lengths(type) :
          LET n == IF type = "map" THEN 2 * l ELSE l
              new == Len(blocks) + 1
          IN /\ totalSize + n * SizeofObject <= MaxContents
             /\ Store(Object(type, l, new), ObjectBlock(n))
             /\ totalSize' = totalSize + ObjectAlign(l * SizeofObject)
             /\ stack' = Descend(new)
    /\ UNCHANGED <<pc, stray, chunk, pool>>

InitContainer ==
    /\ InitValue
    /\ Depth < DepthLimit
    /\ \E type \in Containers : \E l \in Lengths(type) :
          LET n == IF type = "map" THEN 2 * l ELSE l
              new == Len(blocks) + 1
          IN /\ totalSize + n * SizeofObject <= MaxContents
             /\ Store(Object(type, l, new), ObjectBlock(n))
             /\ totalSize' = totalSize + ObjectAlign(n * SizeofObject)
             /\ stack' = Descend(new)
    /\ UNCHANGED <<pc, stray, chunk, pool>>

\* The keys before the current one in its map.
KeysBefore ==
    LET cells == blocks[Top.block].cells
    IN {blocks[cells[j].to].text : j \in {j \in 1..(Top.next - 1) : j % 2 = 1}}

\* One turn of the loop that looks for an unused key: the last attempt, if
\* there was one, is freed, and the new one kept if it is unique.
InitKeyLeaking ==           \* mutant: free(key) is forgotten in the loop
    /\ pc = "init" /\ AtCell /\ AtKey
    /\ \E key \in Keys :
          IF key \in KeysBefore
          THEN /\ stray' = stray + 1
               /\ UNCHANGED <<blocks, live, totalSize, stack>>
          ELSE /\ Store(Object("str", KeyLength[key], Len(blocks) + 1),
                        StringBlock(KeyLength[key], key))
               /\ UNCHANGED stray
               /\ totalSize' = totalSize + ObjectAlign(KeyLength[key] + 1)
               /\ stack' = Advance
    /\ stray < 2
    /\ UNCHANGED <<pc, chunk, pool>>

InitKeyAnyway ==            \* mutant: only the key before is compared
    /\ pc = "init" /\ AtCell /\ AtKey
    /\ \E key \in Keys :
          /\ Store(Object("str", KeyLength[key], Len(blocks) + 1),
                   StringBlock(KeyLength[key], key))
          /\ totalSize' = totalSize + ObjectAlign(KeyLength[key] + 1)
    /\ stray' = 0
    /\ stack' = Advance
    /\ UNCHANGED <<pc, chunk, pool>>

InitKey ==
    /\ pc = "init" /\ AtCell /\ AtKey
    /\ \E key \in Keys :
          IF key \in KeysBefore
          THEN /\ stray' = 1
               /\ UNCHANGED <<blocks, live, totalSize, stack>>
          ELSE /\ Store(Object("str", KeyLength[key], Len(blocks) + 1),
                        StringBlock(KeyLength[key], key))
               /\ stray' = 0
               /\ totalSize' = totalSize + ObjectAlign(KeyLength[key] + 1)
               /\ stack' = Advance
    /\ UNCHANGED <<pc, chunk, pool>>

InitReturn ==
    /\ pc = "init" /\ AtReturn
    /\ stack' = Below
    /\ UNCHANGED <<pc, blocks, live, stray, totalSize, chunk, pool>>

-----------------------------------------------------------------------------
(* object_copy.  A frame of this walk is a block of the tree together with *)
(* the place in the chunk it is copied to.                                 *)

CopyFrame(block, to) == [block |-> block, next |-> 1, to |-> to]

\* A place in the chunk: where it starts, and what is there.
Place(block) == [off |-> pool, block |-> block]

\* The chunk is allocated and the pool pointer set behind the root object.
AllocatePool ==
    /\ pc = "init" /\ stack = <<>>
    /\ pc' = "copy"
    /\ chunk' = <<Place(ObjectBlock(1))>>
    /\ pool' = ObjectAlign(SizeofObject)
    /\ stack' = <<CopyFrame(1, 1)>>
    /\ UNCHANGED <<blocks, live, stray, totalSize>>

\* *dest = *src, with the pointer of the copy going to a new place.
CopyTo(object, place) ==
    chunk' = Append([chunk EXCEPT ![Top.to].block.cells[Top.next] = object],
                    place)

CopyScalar ==
    /\ pc = "copy" /\ AtCell /\ Cell.type = "scalar"
    /\ chunk' = [chunk EXCEPT ![Top.to].block.cells[Top.next] = Cell]
    /\ stack' = Advance
    /\ UNCHANGED <<pc, blocks, live, stray, totalSize, pool>>

CopyString ==
    /\ pc = "copy" /\ AtCell /\ Cell.type = "str"
    /\ CopyTo([Cell EXCEPT !.to = Len(chunk) + 1], Place(blocks[Cell.to]))
    /\ pool' = pool + ObjectAlign(Cell.l + 1)
    /\ stack' = Advance
    /\ UNCHANGED <<pc, blocks, live, stray, totalSize>>

\* dest->children keeps the pointer of *src unless it is set: the mutant
\* leaves the copy pointing into the tree.
CopyContainerShallow ==
    /\ pc = "copy" /\ AtCell /\ Cell.type \in Containers
    /\ LET n == IF Cell.type = "map" THEN 2 * Cell.l ELSE Cell.l
           new == Len(chunk) + 1
       IN /\ CopyTo(Cell, Place(ObjectBlock(n)))
          /\ pool' = pool + ObjectAlign(SizeofObject * n)
          /\ stack' = Advance
    /\ UNCHANGED <<pc, blocks, live, stray, totalSize>>

CopyContainer ==
    /\ pc = "copy" /\ AtCell /\ Cell.type \in Containers
    /\ LET n == IF Cell.type = "map" THEN 2 * Cell.l ELSE Cell.l
           new == Len(chunk) + 1
       IN /\ CopyTo([Cell EXCEPT !.to = new], Place(ObjectBlock(n)))
          /\ pool' = pool + ObjectAlign(SizeofObject * n)
          /\ stack' = Advance \o <<CopyFrame(Cell.to, new)>>
    /\ UNCHANGED <<pc, blocks, live, stray, totalSize>>

CopyReturn ==
    /\ pc = "copy" /\ AtReturn
    /\ stack' = Below
    /\ UNCHANGED <<pc, blocks, live, stray, totalSize, chunk, pool>>

-----------------------------------------------------------------------------
(* object_teardown of the tree, then free(src).                            *)

StartTeardown ==
    /\ pc = "copy" /\ stack = <<>>
    /\ pc' = "teardown"
    /\ stack' = <<Frame(1)>>
    /\ UNCHANGED <<blocks, live, stray, totalSize, chunk, pool>>

TeardownCellNoKeys ==       \* mutant: the map's cells are not counted twice
    /\ pc = "teardown" /\ AtCell
    /\ live' = IF Cell.type = "str" /\ ~AtKey THEN live \ {Cell.to} ELSE live
    /\ stack' = IF Cell.type \in Containers THEN Descend(Cell.to) ELSE Advance
    /\ UNCHANGED <<pc, blocks, stray, totalSize, chunk, pool>>

TeardownCell ==
    /\ pc = "teardown" /\ AtCell
    /\ live' = IF Cell.type = "str" THEN live \ {Cell.to} ELSE live
    /\ stack' = IF Cell.type \in Containers THEN Descend(Cell.to) ELSE Advance
    /\ UNCHANGED <<pc, blocks, stray, totalSize, chunk, pool>>

\* The children of a container are freed after them.
TeardownReturn ==
    /\ pc = "teardown" /\ AtReturn
    /\ live' = live \ {Top.block}
    /\ stack' = Below
    /\ pc' = IF Len(stack) = 1 THEN "done" ELSE pc
    /\ UNCHANGED <<blocks, stray, totalSize, chunk, pool>>

-----------------------------------------------------------------------------
Done == pc = "done" /\ UNCHANGED vars

Next ==
    \/ InitScalar \/ InitString \/ InitContainer \/ InitKey \/ InitReturn
    \/ AllocatePool
    \/ CopyScalar \/ CopyString \/ CopyContainer \/ CopyReturn
    \/ StartTeardown \/ TeardownCell \/ TeardownReturn
    \/ Done

Spec == Init /\ [][Next]_vars

-----------------------------------------------------------------------------
(* Properties.                                                             *)

Objects == [type : Types \cup {"null"}, l : Nat, to : Nat]

TypeOK ==
    /\ pc \in {"init", "copy", "teardown", "done"}
    /\ \A b \in DOMAIN blocks :
          /\ blocks[b].bytes \in Nat
          /\ blocks[b].cells \in Seq(Objects)
    /\ live \subseteq DOMAIN blocks
    /\ stray \in {0, 1}
    /\ totalSize \in Nat /\ pool \in Nat
    /\ \A p \in DOMAIN chunk : chunk[p].off \in Nat
    /\ \A f \in DOMAIN stack : stack[f].block \in DOMAIN blocks

\* The copy stays within the chunk, and when it ends it has used it up: the
\* size added up by object_init is what object_copy advances over.
FitsChunk ==
    /\ pc = "copy" => pool <= totalSize
    /\ pc \in {"teardown", "done"} => pool = totalSize
    /\ \A p \in DOMAIN chunk :
          /\ chunk[p].off + chunk[p].block.bytes <=
                IF p = Len(chunk) THEN pool ELSE chunk[p + 1].off
          /\ chunk[p].off % Alignment = 0

\* The chunk is "stored depth-first": place p is the copy of the p-th block
\* of the tree, pointers included, so that the object handed out refers to
\* nothing outside the chunk and says what the tree said.
DepthFirstCopy ==
    pc \in {"teardown", "done"} =>
        /\ Len(chunk) = Len(blocks)
        /\ \A p \in DOMAIN chunk : chunk[p].block = blocks[p]

\* The walks read no block that has been freed; in the end every block of
\* the tree is freed, and so is every key that was tried in vain.
FreedOnce ==
    /\ \A f \in DOMAIN stack : stack[f].block \in live
    /\ pc = "teardown" /\ AtCell /\ Cell.type # "scalar" => Cell.to \in live
    /\ pc = "done" => live = {} /\ stray = 0

\* "we make sure we don't have duplicate keys": in every map of the tree the
\* keys set so far differ, however deep the values between them.
KeysOf(b) == {j \in DOMAIN blocks[b].cells :
                 j % 2 = 1 /\ blocks[b].cells[j].type = "str"}
UniqueKeys ==
    \A b \in DOMAIN blocks : \A c \in DOMAIN blocks[b].cells :
        LET map == blocks[b].cells[c]
        IN map.type = "map" =>
              \A j, k \in KeysOf(map.to) :
                  j # k => blocks[blocks[map.to].cells[j].to].text
                             # blocks[blocks[map.to].cells[k].to].text
=============================================================================
