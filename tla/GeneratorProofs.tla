--------------------------- MODULE GeneratorProofs ---------------------------
(***************************************************************************)
(* Proofs about Generator, whatever the tree that random_type picks.       *)
(*                                                                         *)
(* The three walks of object_create meet the blocks in one order.  The     *)
(* inductive invariant says which: N[b][i] is the number of blocks a walk  *)
(* has reached at cell i of block b, and the object of that cell points to *)
(* block N[b][i] + 1.  object_init allocates in this order (Growing),      *)
(* object_copy places in it (Copying), so that place p is block p, and     *)
(* object_teardown frees what it has left behind (Freeing).  f sums the    *)
(* sizes in the same order (Layout): totalSize is the sum of all of them,  *)
(* pool that of the places so far.  The theorems are at the end.           *)
(***************************************************************************)
EXTENDS Generator, SequenceTheorems, TLAPS

-----------------------------------------------------------------------------
(* Types.                                                                  *)

Texts == {"none", "value"} \cup Keys
Block == [bytes : Nat, text : Texts, cells : Seq(Objects)]
Placed == [off : Nat, block : Block]
CopyFrames == [block : Nat, next : Nat, to : Nat]
Frames == [block : Nat, next : Nat] \cup CopyFrames

StateTypes ==
    /\ pc \in {"init", "copy", "teardown", "done"}
    /\ blocks \in Seq(Block)
    /\ live \subseteq DOMAIN blocks
    /\ stray \in {0, 1}
    /\ totalSize \in Nat /\ pool \in Nat
    /\ chunk \in Seq(Placed)
    /\ stack \in Seq(Frames)
    /\ \A g \in DOMAIN stack : stack[g].block \in DOMAIN blocks

LEMMA NewBlocks ==
    /\ Null \in Objects /\ Scalar \in Objects
    /\ \A n \in Nat : /\ ObjectBlock(n) \in Block /\ ObjectBlock(n).text = "none"
                      /\ ObjectBlock(n).bytes = n * SizeofObject
                      /\ Len(ObjectBlock(n).cells) = n
                      /\ DOMAIN ObjectBlock(n).cells = 1..n
                      /\ \A k \in 1..n : ObjectBlock(n).cells[k] = Null
    /\ \A l \in Nat, text \in Texts :
          /\ StringBlock(l, text) \in Block /\ StringBlock(l, text).bytes = l + 1
          /\ StringBlock(l, text).text = text
          /\ StringBlock(l, text).cells = <<>>
    /\ \A type \in Types, l, to \in Nat :
          /\ Object(type, l, to) \in Objects
          /\ Object(type, l, to).type = type
          /\ Object(type, l, to).l = l
          /\ Object(type, l, to).to = to
<1>1. Null \in Objects /\ Scalar \in Objects
    BY DEF Null, Scalar, Objects, Types
<1>2. ASSUME NEW n \in Nat
      PROVE  /\ ObjectBlock(n) \in Block /\ ObjectBlock(n).text = "none"
             /\ ObjectBlock(n).bytes = n * SizeofObject
             /\ Len(ObjectBlock(n).cells) = n
             /\ DOMAIN ObjectBlock(n).cells = 1..n
             /\ \A k \in 1..n : ObjectBlock(n).cells[k] = Null
    <2>1. [k \in 1..n |-> Null] \in Seq(Objects)
        BY <1>1
    <2>2. n * SizeofObject \in Nat
        BY LayoutAssumption
    <2> QED BY <2>1, <2>2 DEF ObjectBlock, Block, Texts
<1>3. ASSUME NEW l \in Nat, NEW text \in Texts
      PROVE  /\ StringBlock(l, text) \in Block /\ StringBlock(l, text).bytes = l + 1
             /\ StringBlock(l, text).text = text
             /\ StringBlock(l, text).cells = <<>>
    <2>1. <<>> \in Seq(Objects)
        OBVIOUS
    <2> QED BY <2>1 DEF StringBlock, Block
<1>4. ASSUME NEW type \in Types, NEW l \in Nat, NEW to \in Nat
      PROVE  /\ Object(type, l, to) \in Objects
             /\ Object(type, l, to).type = type
             /\ Object(type, l, to).l = l
             /\ Object(type, l, to).to = to
    BY DEF Object, Objects
<1> QED BY <1>1, <1>2, <1>3, <1>4

\* Moving the stack.
LEMMA StackFacts ==
    ASSUME stack \in Seq(Frames), stack # <<>>
    PROVE  /\ Len(stack) \in Nat \ {0}
           /\ Top \in Frames
           /\ Below \in Seq(Frames) /\ Len(Below) = Len(stack) - 1
           /\ \A g \in 1..(Len(stack) - 1) : Below[g] = stack[g]
           /\ Below = <<>> <=> Len(stack) = 1
           /\ Advance \in Seq(Frames) /\ Len(Advance) = Len(stack)
           /\ \A g \in 1..(Len(stack) - 1) : Advance[g] = stack[g]
           /\ Advance[Len(stack)].block = Top.block
           /\ Advance[Len(stack)].next = Top.next + 1
           /\ Top \in CopyFrames =>
                  Advance[Len(stack)] \in CopyFrames /\ Advance[Len(stack)].to = Top.to
<1>1. Len(stack) \in Nat \ {0} /\ Top \in Frames
    BY EmptySeq, ElementOfSeq DEF Top
<1>2. /\ Below \in Seq(Frames) /\ Len(Below) = Len(stack) - 1
      /\ \A g \in 1..(Len(stack) - 1) : Below[g] = stack[g]
    <2> DEFINE last == Len(stack) - 1
               sub == SubSeq(stack, 1, last)
    <2>1. last \in Int /\ 1 \in Int /\ \A g \in 1..last : stack[g] \in Frames
        BY <1>1, ElementOfSeq
    <2> HIDE DEF last
    <2>2. /\ sub \in Seq(Frames)
          /\ Len(sub) = IF 1 <= last THEN last - 1 + 1 ELSE 0
          /\ \A g \in 1..(last - 1 + 1) : sub[g] = stack[1 + g - 1]
        BY <2>1, SubSeqProperties
    <2>3. Below = sub
        BY DEF Below, last
    <2> HIDE DEF sub
    <2>4. last \in Nat
        BY <1>1 DEF last
    <2>5. Len(sub) = last
        BY <2>2, <2>4
    <2>6. ASSUME NEW g \in 1..last PROVE sub[g] = stack[g]
        <3>1. g \in 1..(last - 1 + 1) /\ 1 + g - 1 = g
            BY <2>4
        <3>2. sub[g] = stack[1 + g - 1]
            BY <2>2, <3>1
        <3> QED BY <3>1, <3>2
    <2> QED BY <2>2, <2>3, <2>5, <2>6 DEF last
<1>3. Below = <<>> <=> Len(stack) = 1
    BY <1>1, <1>2
<1> DEFINE f == [Top EXCEPT !.next = @ + 1]
<1>4. f \in Frames /\ f.block = Top.block /\ f.next = Top.next + 1
    BY <1>1 DEF Frames, CopyFrames
<1>5. <<f>> \in Seq(Frames) /\ Len(<<f>>) = 1 /\ <<f>>[1] = f
    BY <1>4
<1>6. Advance = Below \o <<f>>
    BY DEF Advance
<1>7. Top \in CopyFrames => f \in CopyFrames /\ f.to = Top.to
    BY DEF CopyFrames
<1> HIDE DEF f
<1>8. /\ Below \o <<f>> \in Seq(Frames)
      /\ Len(Below \o <<f>>) = Len(Below) + 1
      /\ \A g \in 1..Len(Below) : (Below \o <<f>>)[g] = Below[g]
      /\ (Below \o <<f>>)[Len(Below) + 1] = f
    BY <1>2, <1>5, ConcatProperties
<1> QED BY <1>1, <1>2, <1>3, <1>4, <1>6, <1>7, <1>8

LEMMA Pushed ==
    ASSUME NEW s \in Seq(Frames), NEW f \in Frames
    PROVE  /\ s \o <<f>> \in Seq(Frames) /\ Len(s \o <<f>>) = Len(s) + 1
           /\ \A g \in 1..Len(s) : (s \o <<f>>)[g] = s[g]
           /\ (s \o <<f>>)[Len(s) + 1] = f
<1>1. <<f>> \in Seq(Frames) /\ Len(<<f>>) = 1 /\ <<f>>[1] = f
    OBVIOUS
<1>2. Len(s) \in Nat
    OBVIOUS
<1> QED BY <1>1, <1>2, ConcatProperties

-----------------------------------------------------------------------------
(* The three ways a walk moves, and where it is.                           *)

Advanced ==
    /\ stack' \in Seq(Frames) /\ Len(stack') = Len(stack)
    /\ \A g \in 1..(Len(stack) - 1) : stack'[g] = stack[g]
    /\ stack'[Len(stack)].block = Top.block
    /\ stack'[Len(stack)].next = Top.next + 1

Entered(block) ==
    /\ stack' \in Seq(Frames) /\ Len(stack') = Len(stack) + 1
    /\ \A g \in 1..(Len(stack) - 1) : stack'[g] = stack[g]
    /\ stack'[Len(stack)].block = Top.block
    /\ stack'[Len(stack)].next = Top.next + 1
    /\ stack'[Len(stack) + 1].block = block
    /\ stack'[Len(stack) + 1].next = 1

Returned ==
    /\ stack' \in Seq(Frames) /\ Len(stack') = Len(stack) - 1
    /\ \A g \in 1..(Len(stack) - 1) : stack'[g] = stack[g]

LEMMA Moves ==
    ASSUME stack \in Seq(Frames), stack # <<>>
    PROVE  /\ stack' = Advance => Advanced
           /\ \A f \in Frames : stack' = Advance \o <<f>> /\ f.next = 1 => Entered(f.block)
           /\ stack' = Below => Returned
<1>1. stack' = Advance => Advanced
    BY StackFacts DEF Advanced
<1>2. stack' = Below => Returned
    BY StackFacts DEF Returned
<1>3. ASSUME NEW f \in Frames, stack' = Advance \o <<f>>, f.next = 1 PROVE Entered(f.block)
    <2>1. /\ Advance \in Seq(Frames) /\ Len(Advance) = Len(stack) /\ Len(stack) \in Nat \ {0}
          /\ \A g \in 1..(Len(stack) - 1) : Advance[g] = stack[g]
          /\ Advance[Len(stack)].block = Top.block
          /\ Advance[Len(stack)].next = Top.next + 1
        BY StackFacts
    <2> DEFINE adv == Advance
    <2> HIDE DEF adv
    <2>2. /\ adv \in Seq(Frames) /\ Len(adv) = Len(stack) /\ stack' = adv \o <<f>>
          /\ \A g \in 1..(Len(stack) - 1) : adv[g] = stack[g]
          /\ adv[Len(stack)].block = Top.block
          /\ adv[Len(stack)].next = Top.next + 1
        BY <2>1, <1>3 DEF adv
    <2>3. /\ adv \o <<f>> \in Seq(Frames) /\ Len(adv \o <<f>>) = Len(stack) + 1
          /\ \A g \in 1..Len(stack) : (adv \o <<f>>)[g] = adv[g]
          /\ (adv \o <<f>>)[Len(stack) + 1] = f
        <3>1. /\ adv \o <<f>> \in Seq(Frames) /\ Len(adv \o <<f>>) = Len(adv) + 1
              /\ \A g \in 1..Len(adv) : (adv \o <<f>>)[g] = adv[g]
              /\ (adv \o <<f>>)[Len(adv) + 1] = f
            BY <2>2, <1>3, Pushed
        <3> QED BY <2>2, <3>1
    <2> QED BY <2>1, <2>2, <2>3, <1>3 DEF Entered
<1> QED BY <1>1, <1>2, <1>3

\* N[b][i] is the number of blocks a walk has reached when it is at cell i of
\* block b: blocks are numbered in the order of a walk.
Numbers == [Nat -> [Nat -> Nat]]

\* A walk that has reached n blocks.
WalkInv(N, n) ==
    /\ n \in Nat
    /\ \A g \in DOMAIN stack :
          /\ stack[g].block \in DOMAIN blocks
          /\ stack[g].block <= n
          /\ stack[g].next \in 1..(Len(blocks[stack[g].block].cells) + 1)
    /\ \A g, h \in DOMAIN stack : g < h => stack[g].block < stack[h].block
    /\ \A g \in 1..(Len(stack) - 1) :
          /\ stack[g].next >= 2
          /\ blocks[stack[g].block].cells[stack[g].next - 1].type \in Containers
          /\ blocks[stack[g].block].cells[stack[g].next - 1].to = stack[g + 1].block
    /\ stack # <<>> => stack[1].block = 1 /\ n = N[Top.block][Top.next]
    /\ stack = <<>> => n = N[1][2]

\* Only the cell under the walk may change.
KeepCells ==
    /\ blocks' \in Seq(Block) /\ DOMAIN blocks \subseteq DOMAIN blocks'
    /\ \A c \in DOMAIN blocks :
          /\ Len(blocks'[c].cells) = Len(blocks[c].cells)
          /\ \A j \in DOMAIN blocks[c].cells :
                ~(c = Top.block /\ j = Top.next) =>
                    blocks'[c].cells[j] = blocks[c].cells[j]

LEMMA TopFacts ==
    ASSUME StateTypes, NEW N, NEW n, WalkInv(N, n), stack # <<>>
    PROVE  /\ Len(stack) \in Nat \ {0} /\ DOMAIN stack = 1..Len(stack)
           /\ Len(stack) \in DOMAIN stack /\ Top = stack[Len(stack)]
           /\ Top.block \in DOMAIN blocks /\ DOMAIN blocks = 1..Len(blocks)
           /\ Len(blocks) \in Nat
           /\ blocks[Top.block] \in Block
           /\ DOMAIN blocks[Top.block].cells = 1..Len(blocks[Top.block].cells)
           /\ Len(blocks[Top.block].cells) \in Nat
           /\ Top.next \in 1..(Len(blocks[Top.block].cells) + 1)
           /\ AtCell => Top.next \in DOMAIN blocks[Top.block].cells /\ Cell \in Objects
           /\ AtReturn => Top.next = Len(blocks[Top.block].cells) + 1
           /\ Top.block <= n
           /\ AtCell \/ AtReturn
<1>1. Len(stack) \in Nat \ {0} /\ DOMAIN stack = 1..Len(stack) /\ Len(stack) \in DOMAIN stack
    BY EmptySeq, LenProperties DEF StateTypes
<1>2. Top = stack[Len(stack)]
    BY DEF Top
<1>3. Top.block \in DOMAIN blocks /\ Top.block <= n
      /\ Top.next \in 1..(Len(blocks[Top.block].cells) + 1)
    BY <1>1, <1>2 DEF WalkInv
<1>4. /\ DOMAIN blocks = 1..Len(blocks) /\ Len(blocks) \in Nat
      /\ \A b \in DOMAIN blocks : blocks[b] \in Block
    BY LenProperties, ElementOfSeq DEF StateTypes
<1>5. blocks[Top.block].cells \in Seq(Objects)
    BY <1>3, <1>4 DEF Block
<1>6. /\ DOMAIN blocks[Top.block].cells = 1..Len(blocks[Top.block].cells)
      /\ Len(blocks[Top.block].cells) \in Nat
      /\ \A i \in 1..Len(blocks[Top.block].cells) : blocks[Top.block].cells[i] \in Objects
    BY <1>5, LenProperties, ElementOfSeq
<1> QED BY <1>1, <1>2, <1>3, <1>4, <1>6 DEF AtCell, AtReturn, Cell

LEMMA BlockFacts ==
    ASSUME StateTypes
    PROVE  /\ DOMAIN blocks = 1..Len(blocks) /\ Len(blocks) \in Nat
           /\ DOMAIN stack = 1..Len(stack) /\ Len(stack) \in Nat
           /\ DOMAIN chunk = 1..Len(chunk) /\ Len(chunk) \in Nat
           /\ \A g \in DOMAIN stack : stack[g].next \in Nat
           /\ \A b \in DOMAIN blocks :
                 /\ blocks[b] \in Block
                 /\ DOMAIN blocks[b].cells = 1..Len(blocks[b].cells)
                 /\ Len(blocks[b].cells) \in Nat
                 /\ \A i \in DOMAIN blocks[b].cells :
                       /\ blocks[b].cells[i] \in Objects
                       /\ blocks[b].cells[i].type \in Types \cup {"null"}
                       /\ blocks[b].cells[i].to \in Nat
                       /\ blocks[b].cells[i].l \in Nat
<1>1. /\ DOMAIN blocks = 1..Len(blocks) /\ Len(blocks) \in Nat
      /\ DOMAIN stack = 1..Len(stack) /\ Len(stack) \in Nat
      /\ DOMAIN chunk = 1..Len(chunk) /\ Len(chunk) \in Nat
      /\ \A b \in DOMAIN blocks : blocks[b] \in Block
      /\ \A g \in DOMAIN stack : stack[g] \in Frames
    BY LenProperties, ElementOfSeq DEF StateTypes
<1>2. \A g \in DOMAIN stack : stack[g].next \in Nat
    BY <1>1 DEF Frames, CopyFrames
<1>3. ASSUME NEW b \in DOMAIN blocks
      PROVE  /\ DOMAIN blocks[b].cells = 1..Len(blocks[b].cells)
             /\ Len(blocks[b].cells) \in Nat
             /\ \A i \in DOMAIN blocks[b].cells : blocks[b].cells[i] \in Objects
    <2>1. blocks[b].cells \in Seq(Objects)
        BY <1>1 DEF Block
    <2> QED BY <2>1, LenProperties, ElementOfSeq
<1>4. \A o \in Objects : o.type \in Types \cup {"null"} /\ o.to \in Nat /\ o.l \in Nat
    BY DEF Objects
<1> QED BY <1>1, <1>2, <1>3, <1>4

LEMMA WalkFrames ==
    ASSUME StateTypes, NEW N, NEW n, WalkInv(N, n)
    PROVE  /\ n \in Nat
           /\ \A g \in 1..Len(stack) :
                 /\ stack[g].block \in DOMAIN blocks /\ stack[g].block \in Nat
                 /\ stack[g].block <= n
                 /\ stack[g].next \in 1..(Len(blocks[stack[g].block].cells) + 1)
           /\ \A g, h \in 1..Len(stack) : g < h => stack[g].block < stack[h].block
           /\ \A g \in 1..(Len(stack) - 1) :
                 /\ g + 1 \in 1..Len(stack)
                 /\ stack[g].next >= 2
                 /\ stack[g].next - 1 \in DOMAIN blocks[stack[g].block].cells
                 /\ blocks[stack[g].block].cells[stack[g].next - 1].type \in Containers
                 /\ blocks[stack[g].block].cells[stack[g].next - 1].to = stack[g + 1].block
<1>1. DOMAIN stack = 1..Len(stack) /\ Len(stack) \in Nat
    BY BlockFacts
<1>2. n \in Nat
      /\ \A g \in 1..Len(stack) :
             /\ stack[g].block \in DOMAIN blocks
             /\ stack[g].block <= n
             /\ stack[g].next \in 1..(Len(blocks[stack[g].block].cells) + 1)
    BY <1>1 DEF WalkInv
<1>3. \A g \in 1..Len(stack) : stack[g].block \in Nat
    BY <1>2, BlockFacts
<1>4. \A g, h \in 1..Len(stack) : g < h => stack[g].block < stack[h].block
    BY <1>1 DEF WalkInv
<1>5. \A g \in 1..(Len(stack) - 1) :
         /\ stack[g].next >= 2
         /\ blocks[stack[g].block].cells[stack[g].next - 1].type \in Containers
         /\ blocks[stack[g].block].cells[stack[g].next - 1].to = stack[g + 1].block
    BY DEF WalkInv
<1>6. ASSUME NEW g \in 1..(Len(stack) - 1)
      PROVE  /\ g + 1 \in 1..Len(stack)
             /\ stack[g].next - 1 \in DOMAIN blocks[stack[g].block].cells
    <2>1. g \in 1..Len(stack) /\ g + 1 \in 1..Len(stack)
        BY <1>1
    <2>2. stack[g].next >= 2 /\ stack[g].block \in DOMAIN blocks
          /\ stack[g].next \in 1..(Len(blocks[stack[g].block].cells) + 1)
        BY <1>2, <1>5, <2>1
    <2>3. /\ DOMAIN blocks[stack[g].block].cells = 1..Len(blocks[stack[g].block].cells)
          /\ Len(blocks[stack[g].block].cells) \in Nat
        BY <2>2, BlockFacts
    <2> QED BY <2>1, <2>2, <2>3
<1> QED BY <1>2, <1>3, <1>4, <1>5, <1>6

LEMMA WalkAdvance ==
    ASSUME StateTypes, NEW N, NEW n, WalkInv(N, n), AtCell, KeepCells, Advanced,
           NEW M, NEW m \in Nat, m >= n, NEW b, b = Top.block, NEW i, i = Top.next,
           m = M[b][i + 1]
    PROVE  WalkInv(M, m)'
<1>0. stack # <<>> /\ stack' # <<>> /\ stack' \in Seq(Frames)
    BY TopFacts DEF AtCell, Advanced
<1> DEFINE k == Len(stack)
<1>1. /\ k = Len(stack) /\ k \in Nat \ {0} /\ DOMAIN stack = 1..k /\ DOMAIN stack' = 1..k /\ Len(stack') = k
      /\ b \in DOMAIN blocks /\ i \in 1..Len(blocks[b].cells)
      /\ Len(blocks[b].cells) \in Nat /\ n \in Nat
      /\ stack[k].block = b /\ stack[k].next = i
      /\ stack'[k].block = b /\ stack'[k].next = i + 1
      /\ \A g \in 1..(k - 1) : stack'[g] = stack[g]
    BY <1>0, TopFacts, LenProperties DEF Advanced, WalkInv
<1> HIDE DEF k
<1>2. \A g \in 1..k : stack'[g].block = stack[g].block
    BY <1>1
<1>3. ASSUME NEW g \in 1..k
      PROVE  /\ stack'[g].block \in DOMAIN blocks'
             /\ stack'[g].block <= m
             /\ stack'[g].next \in 1..(Len(blocks'[stack'[g].block].cells) + 1)
    <2>1. /\ stack[g].block \in DOMAIN blocks /\ stack[g].block <= n
          /\ stack[g].next \in 1..(Len(blocks[stack[g].block].cells) + 1)
          /\ stack[g].block \in Nat
        BY <1>1, WalkFrames
    <2>2. Len(blocks'[stack[g].block].cells) = Len(blocks[stack[g].block].cells)
        BY <2>1 DEF KeepCells
    <2>3. stack'[g].block \in DOMAIN blocks' /\ stack'[g].block <= m
        <3>1. stack'[g].block = stack[g].block
            BY <1>2
        <3>2. DOMAIN blocks \subseteq DOMAIN blocks'
            BY DEF KeepCells
        <3>3. stack[g].block <= m
            BY <2>1, <1>1
        <3> QED BY <2>1, <3>1, <3>2, <3>3
    <2>4. CASE g = k
        BY <2>2, <2>3, <2>4, <1>1
    <2>5. CASE g # k
        <3>1. stack'[g] = stack[g]
            BY SMTT(20), <2>5, <1>1
        <3> QED BY <2>1, <2>2, <2>3, <3>1
    <2> QED BY <2>4, <2>5
<1>4. \A g, h \in 1..k : g < h => stack'[g].block < stack'[h].block
    BY <1>1, <1>2 DEF WalkInv
<1>5. ASSUME NEW g \in 1..(k - 1)
      PROVE  /\ stack'[g].next >= 2
             /\ blocks'[stack'[g].block].cells[stack'[g].next - 1].type \in Containers
             /\ blocks'[stack'[g].block].cells[stack'[g].next - 1].to = stack'[g + 1].block
    <2> DEFINE c == stack[g].block
               j == stack[g].next - 1
    <2>1. /\ stack'[g] = stack[g] /\ stack[g].next >= 2 /\ g < k /\ g \in 1..k /\ g + 1 \in 1..k
          /\ c \in DOMAIN blocks /\ stack[g].next \in 1..(Len(blocks[c].cells) + 1)
          /\ blocks[c].cells[j].type \in Containers
          /\ blocks[c].cells[j].to = stack[g + 1].block
          /\ stack'[g + 1].block = stack[g + 1].block
          /\ j \in DOMAIN blocks[c].cells
        <3>1. g \in 1..(Len(stack) - 1) /\ g < k /\ g \in 1..k /\ g + 1 \in 1..k
            BY <1>1
        <3>2. stack'[g] = stack[g] /\ stack'[g + 1].block = stack[g + 1].block
            BY <1>1, <1>2, <3>1
        <3> QED BY <1>1, <3>1, <3>2, WalkFrames
    <2>2. c # b
        <3>1. \A x, y \in 1..k : x < y => stack[x].block < stack[y].block
            BY <1>1, WalkFrames
        <3>2. k \in 1..k
            BY <1>1
        <3>3. c < stack[k].block
            BY <2>1, <3>1, <3>2
        <3>4. c \in Nat
            BY <2>1, BlockFacts
        <3> QED BY <3>3, <3>4, <1>1
    <2>3. j \in DOMAIN blocks[c].cells
        BY <2>1
    <2>4. blocks'[c].cells[j] = blocks[c].cells[j]
        BY <2>1, <2>2, <2>3 DEF KeepCells
    <2> QED BY <2>1, <2>4
<1>6. stack'[1].block = 1 /\ m = M[Top'.block][Top'.next]
    BY <1>0, <1>1, <1>2 DEF WalkInv, Top
<1> QED BY <1>0, <1>1, <1>3, <1>4, <1>5, <1>6 DEF WalkInv

LEMMA WalkEnter ==
    ASSUME StateTypes, NEW N, NEW n, WalkInv(N, n), AtCell, KeepCells,
           NEW e, Entered(e), e \in DOMAIN blocks', e > n, e \in Nat,
           NEW M, NEW m \in Nat, m >= e, m = M[e][1],
           blocks'[Top.block].cells[Top.next].type \in Containers,
           blocks'[Top.block].cells[Top.next].to = e
    PROVE  WalkInv(M, m)'
<1>0. stack # <<>> /\ stack' # <<>> /\ stack' \in Seq(Frames)
    BY TopFacts DEF AtCell, Entered
<1> DEFINE k == Len(stack)
           b == Top.block
           i == Top.next
<1>1. /\ k = Len(stack) /\ k \in Nat \ {0} /\ DOMAIN stack = 1..k
      /\ DOMAIN stack' = 1..(k + 1) /\ Len(stack') = k + 1
      /\ b \in DOMAIN blocks /\ i \in 1..Len(blocks[b].cells)
      /\ Len(blocks[b].cells) \in Nat /\ n \in Nat
      /\ stack[k].block = b /\ stack[k].next = i
      /\ stack'[k].block = b /\ stack'[k].next = i + 1
      /\ stack'[k + 1].block = e /\ stack'[k + 1].next = 1
      /\ \A g \in 1..(k - 1) : stack'[g] = stack[g]
      /\ blocks'[b].cells[i].type \in Containers /\ blocks'[b].cells[i].to = e
    BY <1>0, TopFacts, LenProperties DEF Entered, WalkInv
<1> HIDE DEF k, b, i
<1>2. \A g \in 1..k : stack'[g].block = stack[g].block
    BY SMTT(20), <1>1
<1>3. ASSUME NEW g \in 1..(k + 1)
      PROVE  /\ stack'[g].block \in DOMAIN blocks'
             /\ stack'[g].block <= m
             /\ stack'[g].next \in 1..(Len(blocks'[stack'[g].block].cells) + 1)
    <2>1. CASE g \in 1..k
        <3>1. /\ stack[g].block \in DOMAIN blocks /\ stack[g].block <= n
              /\ stack[g].next \in 1..(Len(blocks[stack[g].block].cells) + 1)
              /\ stack[g].block \in Nat
            BY <1>1, <2>1, WalkFrames
        <3>2. Len(blocks'[stack[g].block].cells) = Len(blocks[stack[g].block].cells)
            BY <3>1 DEF KeepCells
        <3>3. stack'[g].block \in DOMAIN blocks' /\ stack'[g].block <= m
            <4>1. stack'[g].block = stack[g].block
                BY <2>1, <1>2
            <4>2. stack[g].block <= m
                BY <3>1, <1>1
            <4> QED BY <3>1, <4>1, <4>2 DEF KeepCells
        <3>4. CASE g = k
            BY <3>2, <3>3, <3>4, <1>1
        <3>5. CASE g # k
            <4>1. g \in 1..(k - 1)
                BY <3>5, <2>1, <1>1
            <4>2. stack'[g] = stack[g]
                BY <4>1, <1>1
            <4> QED BY <3>1, <3>2, <3>3, <4>2
        <3> QED BY <3>4, <3>5
    <2>2. CASE g = k + 1
        <3>1. Len(blocks'[e].cells) \in Nat
            <4>1. blocks' \in Seq(Block)
                BY DEF KeepCells
            <4>2. blocks'[e] \in Block
                BY <4>1, ElementOfSeq, LenProperties
            <4>3. blocks'[e].cells \in Seq(Objects)
                BY <4>2 DEF Block
            <4> QED BY <4>3, LenProperties
        <3> QED BY <2>2, <3>1, <1>1
    <2> QED BY <2>1, <2>2, <1>1
<1>4. ASSUME NEW g \in 1..(k + 1), NEW h \in 1..(k + 1), g < h
      PROVE  stack'[g].block < stack'[h].block
    <2>1. g \in 1..k /\ stack[g].block <= n /\ stack[g].block \in Nat
        <3>1. g \in 1..k /\ g \in 1..Len(stack)
            BY <1>1, <1>4
        <3> QED BY <3>1, WalkFrames, BlockFacts
    <2>2. CASE h \in 1..k
        BY <2>1, <2>2, <1>1, <1>2, <1>4, WalkFrames
    <2>3. CASE h = k + 1
        BY <2>1, <2>3, <1>1, <1>2
    <2> QED BY <2>2, <2>3, <1>1
<1>5. ASSUME NEW g \in 1..k
      PROVE  /\ stack'[g].next >= 2
             /\ blocks'[stack'[g].block].cells[stack'[g].next - 1].type \in Containers
             /\ blocks'[stack'[g].block].cells[stack'[g].next - 1].to = stack'[g + 1].block
    <2>1. CASE g = k
        BY <2>1, <1>1
    <2>2. CASE g # k
        <3> DEFINE c == stack[g].block
                   j == stack[g].next - 1
        <3>0. g \in 1..(k - 1)
            BY <2>2, <1>1
        <3>1. /\ stack'[g] = stack[g] /\ stack[g].next >= 2
              /\ c \in DOMAIN blocks
              /\ blocks[c].cells[j].type \in Containers
              /\ blocks[c].cells[j].to = stack[g + 1].block
              /\ stack'[g + 1].block = stack[g + 1].block
              /\ j \in DOMAIN blocks[c].cells
            BY <3>0, <1>1, <1>2, WalkFrames
        <3>2. c # b
            <4>1. \A x, y \in 1..k : x < y => stack[x].block < stack[y].block
                BY <1>1, WalkFrames
            <4>2. k \in 1..k /\ g < k
                BY <3>0, <1>1
            <4>3. c < stack[k].block
                BY <4>1, <4>2
            <4>4. c \in Nat
                BY <3>1, BlockFacts
            <4> QED BY <4>3, <4>4, <1>1
        <3>4. blocks'[c].cells[j] = blocks[c].cells[j]
            BY <3>1, <3>2 DEF KeepCells, b
        <3> QED BY <3>1, <3>4
    <2> QED BY <2>1, <2>2
<1>6. stack'[1].block = 1 /\ m = M[Top'.block][Top'.next]
    <2>1. stack[1].block = 1
        BY <1>0 DEF WalkInv
    <2>2. Top' = stack'[k + 1]
        BY <1>1 DEF Top
    <2> QED BY <2>1, <2>2, <1>1, <1>2
<1>7. /\ m \in Nat /\ DOMAIN stack' = 1..(k + 1) /\ Len(stack') - 1 = k
      /\ stack' # <<>>
    BY <1>0, <1>1
<1>8. /\ \A g \in DOMAIN stack' :
            /\ stack'[g].block \in DOMAIN blocks'
            /\ stack'[g].block <= m
            /\ stack'[g].next \in 1..(Len(blocks'[stack'[g].block].cells) + 1)
      /\ \A g, h \in DOMAIN stack' : g < h => stack'[g].block < stack'[h].block
    BY <1>3, <1>4, <1>7, Zenon
<1>9. \A g \in 1..(Len(stack') - 1) :
            /\ stack'[g].next >= 2
            /\ blocks'[stack'[g].block].cells[stack'[g].next - 1].type \in Containers
            /\ blocks'[stack'[g].block].cells[stack'[g].next - 1].to = stack'[g + 1].block
    BY <1>5, <1>7, Zenon
<1> QED BY <1>6, <1>7, <1>8, <1>9, Zenon DEF WalkInv

LEMMA WalkReturn ==
    ASSUME StateTypes, NEW N, NEW n, WalkInv(N, n), stack # <<>>, Returned,
           UNCHANGED blocks, NEW M,
           Len(stack) > 1 =>
               n = M[stack[Len(stack) - 1].block][stack[Len(stack) - 1].next],
           Len(stack) = 1 => n = M[1][2]
    PROVE  WalkInv(M, n)'
<1> DEFINE k == Len(stack)
<1>1. /\ k = Len(stack) /\ k \in Nat \ {0} /\ DOMAIN stack = 1..k
      /\ stack' \in Seq(Frames) /\ DOMAIN stack' = 1..(k - 1) /\ Len(stack') = k - 1
      /\ \A g \in 1..(k - 1) : stack'[g] = stack[g]
      /\ stack' = <<>> <=> k = 1
      /\ n \in Nat
    BY TopFacts, LenProperties DEF Returned, WalkInv
<1> HIDE DEF k
<1>0. \A g \in 1..(k - 1) : g \in 1..k
    BY <1>1
<1>2. ASSUME NEW g \in 1..(k - 1)
      PROVE  /\ stack'[g].block \in DOMAIN blocks
             /\ stack'[g].block <= n
             /\ stack'[g].next \in 1..(Len(blocks[stack'[g].block].cells) + 1)
    <2>1. stack'[g] = stack[g] /\ g \in 1..Len(stack)
        BY <1>0, <1>1
    <2> QED BY <2>1, WalkFrames
<1>3. ASSUME NEW g \in 1..(k - 1), NEW h \in 1..(k - 1), g < h
      PROVE  stack'[g].block < stack'[h].block
    <2>1. /\ stack'[g] = stack[g] /\ g \in 1..Len(stack)
          /\ stack'[h] = stack[h] /\ h \in 1..Len(stack)
        BY <1>0, <1>1
    <2> QED BY <2>1, <1>3, WalkFrames
<1>4. ASSUME NEW g \in 1..(k - 1 - 1)
      PROVE  /\ stack'[g].next >= 2
             /\ blocks[stack'[g].block].cells[stack'[g].next - 1].type \in Containers
             /\ blocks[stack'[g].block].cells[stack'[g].next - 1].to = stack'[g + 1].block
    <2>1. g \in 1..(k - 1) /\ g + 1 \in 1..(k - 1)
        BY <1>1
    <2> QED BY <1>1, <2>1, WalkFrames
<1>5. stack' # <<>> => stack'[1].block = 1 /\ n = M[Top'.block][Top'.next]
    <2> SUFFICES ASSUME k > 1 PROVE stack'[1].block = 1 /\ n = M[Top'.block][Top'.next]
        BY <1>1
    <2>1. stack[1].block = 1
        BY DEF WalkInv
    <2>2. Top' = stack[k - 1]
        BY <1>1 DEF Top
    <2> QED BY <2>1, <2>2, <1>1
<1>6. stack' = <<>> => n = M[1][2]
    BY <1>1
<1> QED BY <1>1, <1>2, <1>3, <1>4, <1>5, <1>6 DEF WalkInv

-----------------------------------------------------------------------------
(* Setting the cell under the walk, with a new block or without.           *)

KeepShape ==
    /\ blocks' \in Seq(Block) /\ DOMAIN blocks \subseteq DOMAIN blocks'
    /\ \A c \in DOMAIN blocks :
          /\ blocks'[c].bytes = blocks[c].bytes
          /\ blocks'[c].text = blocks[c].text
          /\ Len(blocks'[c].cells) = Len(blocks[c].cells)
          /\ DOMAIN blocks'[c].cells = DOMAIN blocks[c].cells

CellSet(object) ==
    /\ KeepCells /\ KeepShape
    /\ blocks'[Top.block].cells[Top.next] = object

Extended(block) ==
    /\ Len(blocks') = Len(blocks) + 1
    /\ DOMAIN blocks' = 1..(Len(blocks) + 1)
    /\ blocks'[Len(blocks) + 1] = block

LEMMA SetFacts ==
    ASSUME StateTypes, NEW N, NEW n, WalkInv(N, n), AtCell, NEW object \in Objects
    PROVE  /\ blocks' = [blocks EXCEPT ![Top.block].cells[Top.next] = object] =>
                CellSet(object) /\ Len(blocks') = Len(blocks)
           /\ \A block \in Block :
                 blocks' = Append([blocks EXCEPT ![Top.block].cells[Top.next] = object],
                                  block) =>
                     CellSet(object) /\ Extended(block)
<1> DEFINE b == Top.block
           i == Top.next
           t == [blocks EXCEPT ![b].cells[i] = object]
<1>0. /\ b \in DOMAIN blocks /\ i \in DOMAIN blocks[b].cells /\ blocks \in Seq(Block)
      /\ DOMAIN blocks = 1..Len(blocks) /\ Len(blocks) \in Nat
    BY TopFacts DEF AtCell, StateTypes
<1>1. /\ t \in Seq(Block) /\ Len(t) = Len(blocks)
      /\ \A c \in DOMAIN blocks : c # b => t[c] = blocks[c]
      /\ t[b].bytes = blocks[b].bytes /\ t[b].text = blocks[b].text
      /\ Len(t[b].cells) = Len(blocks[b].cells)
      /\ t[b].cells[i] = object
      /\ \A j \in DOMAIN blocks[b].cells : j # i => t[b].cells[j] = blocks[b].cells[j]
    <2> DEFINE cells == [blocks[b].cells EXCEPT ![i] = object]
               new == [blocks[b] EXCEPT !.cells = cells]
    <2> HIDE DEF b, i
    <2>1. blocks[b] \in Block /\ b \in 1..Len(blocks)
        BY <1>0, BlockFacts
    <2>2. /\ cells \in Seq(Objects) /\ Len(cells) = Len(blocks[b].cells)
          /\ \A j \in 1..Len(blocks[b].cells) :
                cells[j] = IF j = i THEN object ELSE blocks[b].cells[j]
        <3>1. blocks[b].cells \in Seq(Objects) /\ i \in 1..Len(blocks[b].cells)
            BY <1>0, <2>1, LenProperties DEF Block
        <3> QED BY <3>1, ExceptSeq
    <2>3. t = [blocks EXCEPT ![b] = new]
        OBVIOUS
    <2> HIDE DEF cells
    <2>4. /\ new \in Block /\ new.bytes = blocks[b].bytes /\ new.text = blocks[b].text
          /\ new.cells = cells
        BY <2>1, <2>2 DEF Block
    <2> HIDE DEF new, t
    <2>5. /\ t \in Seq(Block) /\ Len(t) = Len(blocks)
          /\ \A c \in 1..Len(blocks) : t[c] = IF c = b THEN new ELSE blocks[c]
        BY <1>0, <2>1, <2>3, <2>4, ExceptSeq
    <2>6. t[b] = new /\ DOMAIN blocks[b].cells = 1..Len(blocks[b].cells)
        BY <1>0, <2>1, <2>5, BlockFacts
    <2> QED BY <1>0, <2>1, <2>2, <2>4, <2>5, <2>6
<1> HIDE DEF t
<1>2. ASSUME blocks' \in Seq(Block), Len(blocks') >= Len(blocks),
             \A c \in DOMAIN blocks : blocks'[c] = t[c]
      PROVE  CellSet(object)
    <2>1. DOMAIN blocks \subseteq DOMAIN blocks'
        BY <1>0, <1>2, LenProperties
    <2>2. ASSUME NEW c \in DOMAIN blocks
          PROVE  /\ blocks'[c].bytes = blocks[c].bytes
                 /\ blocks'[c].text = blocks[c].text
                 /\ Len(blocks'[c].cells) = Len(blocks[c].cells)
                 /\ DOMAIN blocks'[c].cells = DOMAIN blocks[c].cells
                 /\ \A j \in DOMAIN blocks[c].cells :
                        ~(c = b /\ j = i) => blocks'[c].cells[j] = blocks[c].cells[j]
        <3>1. blocks[c].cells \in Seq(Objects) /\ blocks'[c].cells \in Seq(Objects)
            <4>1. blocks[c] \in Block /\ blocks'[c] \in Block
                BY <1>0, <1>2, <2>1, ElementOfSeq, LenProperties
            <4> QED BY <4>1 DEF Block
        <3>2. Len(blocks'[c].cells) = Len(blocks[c].cells)
            BY <1>1, <1>2
        <3>3. DOMAIN blocks'[c].cells = DOMAIN blocks[c].cells
            BY <3>1, <3>2, LenProperties
        <3> QED BY <1>1, <1>2, <3>2, <3>3
    <2>3. blocks'[b].cells[i] = object
        BY <1>0, <1>1, <1>2
    <2> QED BY <1>2, <2>1, <2>2, <2>3 DEF CellSet, KeepCells, KeepShape
<1>3. ASSUME blocks' = t PROVE CellSet(object) /\ Len(blocks') = Len(blocks)
    BY <1>0, <1>1, <1>2, <1>3
<1>4. ASSUME NEW block \in Block, blocks' = Append(t, block)
      PROVE  CellSet(object) /\ Extended(block)
    <2>1. /\ Append(t, block) \in Seq(Block) /\ Len(Append(t, block)) = Len(t) + 1
          /\ \A k \in 1..Len(t) : Append(t, block)[k] = t[k]
          /\ Append(t, block)[Len(t) + 1] = block
        BY <1>1, AppendProperties
    <2>2. CellSet(object)
        BY <1>0, <1>1, <1>2, <1>4, <2>1
    <2>3. DOMAIN blocks' = 1..(Len(blocks) + 1)
        BY <1>0, <1>1, <1>4, <2>1, LenProperties
    <2> QED BY <2>1, <2>2, <2>3, <1>1, <1>4 DEF Extended
<1> QED BY <1>3, <1>4 DEF t

-----------------------------------------------------------------------------
(* The tree that object_init grows.                                        *)

\* The cell has the number of the next block, which is of the size it says.
Points(N, b, i) ==
    LET c == blocks[b].cells[i] IN
    c.type # "scalar" =>
        /\ c.to = N[b][i] + 1 /\ c.to \in DOMAIN blocks
        /\ c.type = "str" => blocks[c.to].bytes = c.l + 1
        /\ c.type \in Containers =>
              /\ Len(blocks[c.to].cells) = IF c.type = "map" THEN 2 * c.l ELSE c.l
              /\ blocks[c.to].bytes = Len(blocks[c.to].cells) * SizeofObject
              /\ blocks[c.to].text = "none"

\* How many blocks are reached behind the cell.
Passes(N, b, i) ==
    LET c == blocks[b].cells[i] IN
    /\ c.type = "scalar" => N[b][i + 1] = N[b][i]
    /\ c.type = "str" => N[b][i + 1] = c.to
    /\ c.type \in Containers =>
          N[b][i + 1] = N[c.to][Len(blocks[c.to].cells) + 1]

On(b) == \E g \in DOMAIN stack : stack[g].block = b
Open(b, i) ==
    \E g \in 1..(Len(stack) - 1) : stack[g].block = b /\ stack[g].next = i + 1

Root ==
    /\ 1 \in DOMAIN blocks /\ Len(blocks[1].cells) = 1
    /\ blocks[1].bytes = SizeofObject /\ blocks[1].text = "none"

Unset(b, i) ==
    \E g \in DOMAIN stack : stack[g].block = b /\ i >= stack[g].next

CellOK(N, b, i) ==
    /\ blocks[b].cells[i].type = "null" <=> Unset(b, i)
    /\ ~Unset(b, i) => Points(N, b, i)
    /\ ~Unset(b, i) /\ ~Open(b, i) =>
          /\ Passes(N, b, i)
          /\ blocks[b].cells[i].type \in Containers => ~On(blocks[b].cells[i].to)

InitTree(N) ==
    /\ N \in Numbers
    /\ Root
    /\ \A b \in DOMAIN blocks : N[b][1] = b
    /\ \A b \in DOMAIN blocks : \A i \in DOMAIN blocks[b].cells : CellOK(N, b, i)

\* A cell that does not change points to what it did.
LEMMA PointsKept ==
    ASSUME StateTypes, KeepShape, NEW N, NEW M, NEW c \in DOMAIN blocks,
           NEW j \in DOMAIN blocks[c].cells,
           blocks'[c].cells[j] = blocks[c].cells[j],
           M[c][j] = N[c][j], Points(N, c, j)
    PROVE  Points(M, c, j)'
BY DEF Points, KeepShape

LEMMA PassesKept ==
    ASSUME StateTypes, KeepShape, NEW N, NEW M, NEW c \in DOMAIN blocks,
           NEW j \in DOMAIN blocks[c].cells,
           blocks'[c].cells[j] = blocks[c].cells[j],
           M[c][j] = N[c][j], M[c][j + 1] = N[c][j + 1],
           Points(N, c, j), Passes(N, c, j),
           blocks[c].cells[j].type \in Containers =>
               LET e == blocks[c].cells[j].to IN
               M[e][Len(blocks[e].cells) + 1] = N[e][Len(blocks[e].cells) + 1]
    PROVE  Passes(M, c, j)'
<1>1. CASE blocks[c].cells[j].type \in Containers
    <2>1. blocks[c].cells[j].type # "scalar" /\ blocks[c].cells[j].type # "str"
        BY <1>1 DEF Containers
    <2>2. blocks[c].cells[j].to \in DOMAIN blocks
        BY <2>1 DEF Points
    <2>3. Len(blocks'[blocks[c].cells[j].to].cells) = Len(blocks[blocks[c].cells[j].to].cells)
        BY <2>2 DEF KeepShape
    <2> QED BY <1>1, <2>1, <2>3 DEF Passes
<1>2. CASE blocks[c].cells[j].type \notin Containers
    BY <1>2 DEF Passes
<1> QED BY <1>1, <1>2

-----------------------------------------------------------------------------
(* What a move of the walk opens and closes.                               *)

LEMMA AfterAdvance ==
    ASSUME StateTypes, NEW N, NEW n, WalkInv(N, n), AtCell, Advanced
    PROVE  /\ \A c : On(c)' <=> On(c)
           /\ \A c : \A j \in Nat : Open(c, j)' <=> Open(c, j)
           /\ \A c : \A j \in Nat :
                 Unset(c, j)' <=> Unset(c, j) /\ ~(c = Top.block /\ j = Top.next)
<1> DEFINE k == Len(stack)
           b == Top.block
           i == Top.next
<1>1. /\ k = Len(stack) /\ k \in Nat \ {0} /\ DOMAIN stack = 1..k
      /\ DOMAIN stack' = 1..k /\ Len(stack') = k
      /\ stack[k].block = b /\ stack[k].next = i /\ i \in Nat
      /\ stack'[k].block = b /\ stack'[k].next = i + 1
      /\ \A g \in 1..(k - 1) : stack'[g] = stack[g]
    <2>1. stack # <<>> /\ stack' \in Seq(Frames)
        BY DEF AtCell, Advanced
    <2> QED BY <2>1, TopFacts, LenProperties DEF Advanced
<1>2. \A g \in 1..k : stack[g].next \in Nat
    BY <1>1, BlockFacts
<1>3. \A g \in 1..k : g # k => stack[g].block # b
    <2>1. \A x, y \in 1..k : x < y => stack[x].block < stack[y].block
        BY <1>1, WalkFrames
    <2>2. \A x \in 1..k : stack[x].block \in Nat
        BY <1>1, WalkFrames
    <2> HIDE DEF k, b
    <2> QED BY <2>1, <2>2, <1>1
<1> HIDE DEF k, b, i
<1>4. ASSUME NEW c PROVE On(c)' <=> On(c)
    <2>1. \A g \in 1..k : stack'[g].block = stack[g].block
        BY <1>1
    <2> QED BY <1>1, <2>1 DEF On
<1>5. ASSUME NEW c, NEW j \in Nat PROVE Open(c, j)' <=> Open(c, j)
    BY <1>1 DEF Open
<1>6. ASSUME NEW c, NEW j \in Nat
      PROVE  Unset(c, j)' <=> Unset(c, j) /\ ~(c = b /\ j = i)
    <2>1. CASE c = b
        <3>1. Unset(c, j)' <=> j >= i + 1
            BY <2>1, <1>1, <1>3 DEF Unset
        <3>2. Unset(c, j) <=> j >= i
            BY <2>1, <1>1, <1>3 DEF Unset
        <3> QED BY <3>1, <3>2, <2>1, <1>1
    <2>2. CASE c # b
        BY SMTT(20), <2>2, <1>1 DEF Unset
    <2> QED BY <2>1, <2>2
<1> QED BY <1>4, <1>5, <1>6 DEF b, i

LEMMA AfterEnter ==
    ASSUME StateTypes, NEW N, NEW n, WalkInv(N, n), AtCell, NEW e, e \in Nat, e > n, Entered(e)
    PROVE  /\ \A c : On(c)' <=> On(c) \/ c = e
           /\ ~On(e)
           /\ \A c : \A j \in Nat :
                 Open(c, j)' <=> Open(c, j) \/ (c = Top.block /\ j = Top.next)
           /\ \A c : \A j \in Nat \ {0} :
                 Unset(c, j)' <=> \/ Unset(c, j) /\ ~(c = Top.block /\ j = Top.next)
                                  \/ c = e
<1> DEFINE k == Len(stack)
           b == Top.block
           i == Top.next
<1>1. /\ k = Len(stack) /\ k \in Nat \ {0} /\ DOMAIN stack = 1..k
      /\ DOMAIN stack' = 1..(k + 1) /\ Len(stack') = k + 1
      /\ stack[k].block = b /\ stack[k].next = i /\ i \in Nat
      /\ stack'[k].block = b /\ stack'[k].next = i + 1
      /\ stack'[k + 1].block = e /\ stack'[k + 1].next = 1
      /\ \A g \in 1..(k - 1) : stack'[g] = stack[g]
    <2>1. stack # <<>> /\ stack' \in Seq(Frames)
        BY DEF AtCell, Entered
    <2> QED BY <2>1, TopFacts, LenProperties DEF Entered
<1>2. \A g \in 1..k : stack[g].next \in Nat
    BY <1>1, BlockFacts
<1>3. /\ \A g \in 1..k : g # k => stack[g].block # b
      /\ \A g \in 1..k : stack[g].block # e
    <2>1. \A x, y \in 1..k : x < y => stack[x].block < stack[y].block
        BY <1>1, WalkFrames
    <2>2. \A x \in 1..k : stack[x].block \in Nat /\ stack[x].block <= n /\ n \in Nat
        BY <1>1, WalkFrames
    <2> HIDE DEF k, b
    <2> QED BY <2>1, <2>2, <1>1
<1> HIDE DEF k, b, i
<1>4. ASSUME NEW c PROVE On(c)' <=> On(c) \/ c = e
    <2>1. \A g \in 1..k : stack'[g].block = stack[g].block
        BY <1>1
    <2>2. On(c)' <=> \E g \in 1..(k + 1) : stack'[g].block = c
        BY <1>1 DEF On
    <2>3. On(c) <=> \E g \in 1..k : stack[g].block = c
        BY <1>1 DEF On
    <2>4. \A g : g \in 1..(k + 1) <=> g \in 1..k \/ g = k + 1
        BY <1>1
    <2> QED BY <1>1, <2>1, <2>2, <2>3, <2>4
<1>5. ~On(e)
    BY <1>1, <1>3 DEF On
<1>6. ASSUME NEW c, NEW j \in Nat PROVE Open(c, j)' <=> Open(c, j) \/ (c = b /\ j = i)
    <2>1. Open(c, j)' <=> \E g \in 1..k : stack'[g].block = c /\ stack'[g].next = j + 1
        BY <1>1 DEF Open
    <2>2. Open(c, j) <=> \E g \in 1..(k - 1) : stack[g].block = c /\ stack[g].next = j + 1
        BY <1>1 DEF Open
    <2>3. \A g : g \in 1..k <=> g \in 1..(k - 1) \/ g = k
        BY <1>1
    <2>4. i + 1 = j + 1 <=> i = j
        BY <1>1
    <2> QED BY <1>1, <2>1, <2>2, <2>3, <2>4
<1>7. ASSUME NEW c, NEW j \in Nat \ {0}
      PROVE  Unset(c, j)' <=> (Unset(c, j) /\ ~(c = b /\ j = i)) \/ c = e
    <2>1. CASE c = b
        <3>1. Unset(c, j)' <=> j >= i + 1
            <4>1. \A g \in 1..(k + 1) : stack'[g].block = b <=> g = k
                BY <1>1, <1>3
            <4> QED BY <2>1, <1>1, <4>1 DEF Unset
        <3>2. Unset(c, j) <=> j >= i
            BY <2>1, <1>1, <1>3 DEF Unset
        <3>3. b # e
            BY <1>1, <1>3
        <3> QED BY <3>1, <3>2, <3>3, <2>1, <1>1
    <2>2. CASE c = e
        <3>1. j >= stack'[k + 1].next /\ k + 1 \in DOMAIN stack'
            BY <1>1
        <3> QED BY <3>1, <2>2, <1>1 DEF Unset
    <2>3. CASE c # b /\ c # e
        <3>1. \A g : /\ g \in DOMAIN stack' /\ stack'[g].block = c => g \in 1..(k - 1)
                     /\ g \in DOMAIN stack /\ stack[g].block = c => g \in 1..(k - 1)
            BY <2>3, <1>1
        <3>2. \A g \in 1..(k - 1) : g \in DOMAIN stack' /\ g \in DOMAIN stack
            BY <1>1
        <3> QED BY <3>1, <3>2, <2>3, <1>1 DEF Unset
    <2> QED BY <2>1, <2>2, <2>3
<1> QED BY <1>4, <1>5, <1>6, <1>7 DEF b, i

LEMMA AfterReturn ==
    ASSUME StateTypes, NEW N, NEW n, WalkInv(N, n), AtReturn, Returned
    PROVE  /\ \A c : On(c)' <=> On(c) /\ c # Top.block
           /\ \A c \in DOMAIN blocks : \A j \in DOMAIN blocks[c].cells :
                 /\ Unset(c, j)' <=> Unset(c, j)
                 /\ Open(c, j)' <=>
                        /\ Open(c, j)
                        /\ ~(/\ Len(stack) > 1
                             /\ c = stack[Len(stack) - 1].block
                             /\ j = stack[Len(stack) - 1].next - 1)
<1> DEFINE k == Len(stack)
           b == Top.block
           i == Top.next
<1>1. /\ k = Len(stack) /\ k \in Nat \ {0} /\ DOMAIN stack = 1..k
      /\ DOMAIN stack' = 1..(k - 1) /\ Len(stack') = k - 1
      /\ stack[k].block = b /\ stack[k].next = i /\ i \in Nat
      /\ b \in DOMAIN blocks /\ i = Len(blocks[b].cells) + 1
      /\ Len(blocks[b].cells) \in Nat
      /\ DOMAIN blocks[b].cells = 1..Len(blocks[b].cells)
      /\ \A g \in 1..(k - 1) : stack'[g] = stack[g]
    <2>1. stack # <<>> /\ stack' \in Seq(Frames)
        BY DEF AtReturn, Returned
    <2> QED BY <2>1, TopFacts, LenProperties DEF Returned
<1>2. /\ \A g \in 1..k : stack[g].next \in Nat
      /\ \A c \in DOMAIN blocks :
            DOMAIN blocks[c].cells = 1..Len(blocks[c].cells) /\ Len(blocks[c].cells) \in Nat
    BY <1>1, BlockFacts
<1>3. /\ \A g \in 1..k : g # k => stack[g].block # b
      /\ \A g, h \in 1..k : stack[g].block = stack[h].block => g = h
    <2>1. \A x, y \in 1..k : x < y => stack[x].block < stack[y].block
        BY <1>1, WalkFrames
    <2>2. \A x \in 1..k : stack[x].block \in Nat
        BY <1>1, WalkFrames
    <2> HIDE DEF k, b
    <2> QED BY <2>1, <2>2, <1>1
<1> HIDE DEF k, b, i
<1>0. \A g : g \in 1..k <=> g \in 1..(k - 1) \/ g = k
    BY <1>1
<1>4. ASSUME NEW c PROVE On(c)' <=> On(c) /\ c # b
    BY SMTT(20), <1>0, <1>1, <1>3 DEF On
<1>5. ASSUME NEW c \in DOMAIN blocks, NEW j \in DOMAIN blocks[c].cells
      PROVE  Unset(c, j)' <=> Unset(c, j)
    <2>1. c = b => ~(j >= i)
        BY <1>1
    <2> QED BY <2>1, <1>0, <1>1 DEF Unset
<1>6. ASSUME NEW c \in DOMAIN blocks, NEW j \in DOMAIN blocks[c].cells
      PROVE  Open(c, j)' <=>
                 Open(c, j) /\ ~(k > 1 /\ c = stack[k - 1].block /\ j = stack[k - 1].next - 1)
    <2>1. Open(c, j)' <=> \E g \in 1..(k - 1 - 1) : stack[g].block = c /\ stack[g].next = j + 1
        <3>1. \A g \in 1..(k - 1 - 1) : g \in 1..(k - 1)
            BY <1>1
        <3> QED BY <3>1, <1>1 DEF Open
    <2>2. Open(c, j) <=> \E g \in 1..(k - 1) : stack[g].block = c /\ stack[g].next = j + 1
        BY <1>1 DEF Open
    <2>3. \A g : g \in 1..(k - 1) <=> g \in 1..(k - 1 - 1) \/ (k > 1 /\ g = k - 1)
        BY <1>1
    <2>4. k > 1 => /\ k - 1 \in 1..k
                   /\ j = stack[k - 1].next - 1 <=> stack[k - 1].next = j + 1
        <3>1. j \in Nat
            BY <1>2
        <3> QED BY SMTT(20), <3>1, <1>1, <1>2
    <2>5. \A g \in 1..(k - 1 - 1) : k > 1 => stack[g].block # stack[k - 1].block
        <3>1. \A g \in 1..(k - 1 - 1) : g \in 1..k /\ k - 1 \in 1..k /\ g # k - 1
            BY <1>1
        <3> QED BY <3>1, <1>3
    <2> QED BY <2>1, <2>2, <2>3, <2>4, <2>5
<1> QED BY <1>4, <1>5, <1>6 DEF b, i, k

\* When one cell of the tree is set, or closed, the others stay as they are.
KeepOthers(N, M, b, i) ==
    /\ \A c \in DOMAIN blocks : \A j \in Nat : ~(c = b /\ j = i + 1) => M[c][j] = N[c][j]
    /\ \A c \in DOMAIN blocks : On(c)' => On(c)
    /\ \A c \in DOMAIN blocks : \A j \in DOMAIN blocks[c].cells :
          ~(c = b /\ j = i) =>
              /\ blocks'[c].cells[j] = blocks[c].cells[j]
              /\ Unset(c, j)' <=> Unset(c, j)
              /\ Open(c, j)' <=> Open(c, j)

LEMMA TreeStep ==
    ASSUME StateTypes, KeepShape, NEW N, NEW M, InitTree(N),
           NEW b, NEW i, i \in Nat, On(b), Unset(b, i + 1), KeepOthers(N, M, b, i)
    PROVE  \A c \in DOMAIN blocks : \A j \in DOMAIN blocks[c].cells :
               ~(c = b /\ j = i) => CellOK(M, c, j)'
<1> SUFFICES ASSUME NEW c \in DOMAIN blocks, NEW j \in DOMAIN blocks[c].cells,
                    ~(c = b /\ j = i)
             PROVE  CellOK(M, c, j)'
    OBVIOUS
<1>0. /\ \A x \in DOMAIN blocks : \A k \in Nat : ~(x = b /\ k = i + 1) => M[x][k] = N[x][k]
      /\ \A x \in DOMAIN blocks : On(x)' => On(x)
      /\ blocks'[c].cells[j] = blocks[c].cells[j]
      /\ Unset(c, j)' <=> Unset(c, j)
      /\ Open(c, j)' <=> Open(c, j)
    BY DEF KeepOthers
<1>1. /\ blocks[c].cells[j].type = "null" <=> Unset(c, j)
      /\ ~Unset(c, j) => Points(N, c, j)
      /\ ~Unset(c, j) /\ ~Open(c, j) =>
            /\ Passes(N, c, j)
            /\ blocks[c].cells[j].type \in Containers => ~On(blocks[c].cells[j].to)
    BY DEF InitTree, CellOK
<1>2. j \in Nat /\ j + 1 \in Nat /\ (j + 1 = i + 1 => j = i)
    BY BlockFacts
<1>3. ASSUME ~Unset(c, j) PROVE Points(M, c, j)'
    <2>1. M[c][j] = N[c][j]
        BY <1>0, <1>2, <1>3
    <2> QED BY <1>0, <1>1, <1>3, <2>1, PointsKept
<1>4. ASSUME ~Unset(c, j), ~Open(c, j)
      PROVE  /\ Passes(M, c, j)'
             /\ blocks[c].cells[j].type \in Containers => ~On(blocks[c].cells[j].to)'
    <2>1. M[c][j] = N[c][j]
        BY <1>0, <1>2, <1>4
    <2>2. M[c][j + 1] = N[c][j + 1]
        BY <1>0, <1>2
    <2>3. ASSUME blocks[c].cells[j].type \in Containers
          PROVE  LET e == blocks[c].cells[j].to IN
                 /\ e \in DOMAIN blocks /\ ~On(e)
                 /\ M[e][Len(blocks[e].cells) + 1] = N[e][Len(blocks[e].cells) + 1]
        <3>1. blocks[c].cells[j].type # "scalar"
            BY <2>3 DEF Containers
        <3>2. blocks[c].cells[j].to \in DOMAIN blocks
            BY <1>1, <1>4, <3>1 DEF Points
        <3>3. ~On(blocks[c].cells[j].to)
            BY <1>1, <1>4, <2>3
        <3>4. \A e \in DOMAIN blocks : Len(blocks[e].cells) + 1 \in Nat
            BY BlockFacts
        <3> QED BY <1>0, <3>2, <3>3, <3>4
    <2>4. Passes(M, c, j)'
        BY <1>1, <1>4, <2>1, <2>2, <2>3, <1>0, PassesKept
    <2> QED BY <1>0, <2>3, <2>4
<1> QED BY <1>0, <1>1, <1>3, <1>4 DEF CellOK

-----------------------------------------------------------------------------
(* Sizes.  f[p] is the size of the first p blocks.                         *)

LEMMA AlignFacts ==
    ASSUME NEW n \in Nat
    PROVE  /\ ObjectAlign(n) \in Nat /\ ObjectAlign(n) >= n
           /\ \E q \in Nat : ObjectAlign(n) = q * Alignment
<1>1. Alignment \in Nat \ {0}
    BY LayoutAssumption
<1>2. ((n + Alignment - 1) \div Alignment) \in Nat
    BY <1>1
<1>3. ((n + Alignment - 1) \div Alignment) * Alignment >= n
    BY <1>1
<1>4. \A q \in Nat : q * Alignment \in Nat
    BY <1>1
<1> QED BY <1>2, <1>3, <1>4 DEF ObjectAlign

LEMMA Multiples ==
    ASSUME NEW p \in Nat, NEW q \in Nat
    PROVE  /\ p * Alignment + q * Alignment = (p + q) * Alignment
           /\ (p * Alignment) % Alignment = 0
BY LayoutAssumption

Sums(f) ==
    /\ f \in [Nat -> Nat] /\ f[0] = 0
    /\ \A p \in DOMAIN blocks : f[p] = f[p - 1] + ObjectAlign(blocks[p].bytes)
    /\ \A p, q \in 0..Len(blocks) : p <= q => f[p] <= f[q]
    /\ \A p \in 0..Len(blocks) : \E q \in Nat : f[p] = q * Alignment
    /\ totalSize = f[Len(blocks)]

LEMMA SumsKept ==
    ASSUME StateTypes, KeepShape, Len(blocks') = Len(blocks), UNCHANGED totalSize,
           NEW f, Sums(f)
    PROVE  Sums(f)'
<1>1. DOMAIN blocks' = DOMAIN blocks
    BY LenProperties, BlockFacts DEF KeepShape
<1> QED BY <1>1 DEF Sums, KeepShape

LEMMA SumsExtended ==
    ASSUME StateTypes, KeepShape, NEW block \in Block, Extended(block),
           totalSize' = totalSize + ObjectAlign(block.bytes), NEW f, Sums(f)
    PROVE  \E h : Sums(h)'
<1>1. PICK L : L = Len(blocks)
    OBVIOUS
<1>2. /\ L \in Nat /\ DOMAIN blocks = 1..L /\ DOMAIN blocks' = 1..(L + 1)
      /\ Len(blocks') = L + 1 /\ blocks'[L + 1] = block
      /\ \A p \in 1..L : blocks'[p].bytes = blocks[p].bytes
    BY <1>1, BlockFacts DEF KeepShape, Extended
<1>3. PICK a : a = ObjectAlign(block.bytes)
    OBVIOUS
<1>4. a \in Nat /\ \E q \in Nat : a = q * Alignment
    BY <1>3, AlignFacts DEF Block
<1>5. /\ f \in [Nat -> Nat] /\ f[0] = 0
      /\ \A p \in 1..L : f[p] = f[p - 1] + ObjectAlign(blocks[p].bytes)
      /\ \A p, q \in 0..L : p <= q => f[p] <= f[q]
      /\ \A p \in 0..L : \E q \in Nat : f[p] = q * Alignment
      /\ totalSize = f[L]
    BY <1>1, <1>2 DEF Sums
<1> DEFINE h == [f EXCEPT ![L + 1] = f[L] + a]
<1>6. /\ h \in [Nat -> Nat] /\ h[L + 1] = f[L] + a /\ f[L] \in Nat
      /\ \A p \in 0..L : h[p] = f[p] /\ f[p] \in Nat
    <2>1. L \in Nat /\ L + 1 \in Nat /\ \A p \in 0..L : p \in Nat /\ p # L + 1
        BY <1>2
    <2>2. f[L] \in Nat /\ f[L] + a \in Nat
        BY <1>4, <1>5, <2>1
    <2> HIDE DEF Sums
    <2> QED BY <1>5, <2>1, <2>2
<1> HIDE DEF h
<1>7. ASSUME NEW p \in 1..(L + 1)
      PROVE  h[p] = h[p - 1] + ObjectAlign(blocks'[p].bytes)
    <2>1. CASE p \in 1..L
        <3>1. p - 1 \in 0..L /\ p \in 0..L
            BY <1>2, <2>1
        <3> QED BY <2>1, <3>1, <1>2, <1>5, <1>6
    <2>2. CASE p = L + 1
        <3>1. p - 1 = L /\ L \in 0..L
            BY <1>2, <2>2
        <3>2. h[p - 1] = f[L] /\ ObjectAlign(blocks'[p].bytes) = a
            BY <3>1, <2>2, <1>2, <1>3, <1>6
        <3> QED BY <3>2, <2>2, <1>6
    <2> QED BY <2>1, <2>2, <1>2
<1>8. ASSUME NEW p \in 0..(L + 1), NEW q \in 0..(L + 1), p <= q PROVE h[p] <= h[q]
    <2>1. CASE q \in 0..L
        <3>1. p \in 0..L
            BY <1>2, <1>8, <2>1
        <3> QED BY <2>1, <3>1, <1>5, <1>6, <1>8
    <2>2. CASE q = L + 1 /\ p \in 0..L
        <3>1. L \in 0..L /\ p <= L
            BY <1>2, <2>2
        <3>2. f[p] <= f[L] /\ f[p] \in Nat
            BY <3>1, <2>2, <1>5, <1>6
        <3> QED BY <3>2, <2>2, <1>4, <1>6
    <2>3. CASE q = L + 1 /\ p = L + 1
        BY <2>3, <1>4, <1>6
    <2> QED BY <2>1, <2>2, <2>3, <1>2
<1>9. ASSUME NEW p \in 0..(L + 1) PROVE \E q \in Nat : h[p] = q * Alignment
    <2>1. CASE p \in 0..L
        BY <2>1, <1>5, <1>6
    <2>2. CASE p = L + 1
        <3>1. PICK q \in Nat : f[L] = q * Alignment
            BY <1>2, <1>5
        <3>2. PICK r \in Nat : a = r * Alignment
            BY <1>4
        <3>3. q * Alignment + r * Alignment = (q + r) * Alignment /\ q + r \in Nat
            BY Multiples
        <3>4. h[p] = (q + r) * Alignment
            BY <2>2, <3>1, <3>2, <3>3, <1>6
        <3> QED BY <3>3, <3>4
    <2> QED BY <2>1, <2>2, <1>2
<1>10. h[0] = 0 /\ totalSize' = h[L + 1]
    BY <1>2, <1>3, <1>5, <1>6
<1> QED BY <1>2, <1>6, <1>7, <1>8, <1>9, <1>10 DEF Sums

-----------------------------------------------------------------------------
(* The steps of object_init keep the tree.                                 *)

Renumbered(N, M, b, j, v) ==
    /\ M \in Numbers /\ M[b][j] = v
    /\ \A c, k \in Nat : ~(c = b /\ k = j) => M[c][k] = N[c][k]

LEMMA Renumber ==
    ASSUME NEW N \in Numbers, NEW b \in Nat, NEW j \in Nat, NEW v \in Nat
    PROVE  \E M : Renumbered(N, M, b, j, v)
<1> DEFINE r == [N[b] EXCEPT ![j] = v]
           M == [N EXCEPT ![b] = r]
<1>1. N \in [Nat -> [Nat -> Nat]]
    BY DEF Numbers
<1>2. r \in [Nat -> Nat] /\ r[j] = v /\ \A k \in Nat : k # j => r[k] = N[b][k]
    BY <1>1
<1> HIDE DEF r
<1>3. M \in Numbers /\ M[b] = r /\ \A c \in Nat : c # b => M[c] = N[c]
    BY <1>1, <1>2 DEF Numbers
<1> HIDE DEF M
<1> QED BY <1>2, <1>3 DEF Renumbered

LEMMA CellFacts ==
    ASSUME StateTypes, NEW N, NEW n, WalkInv(N, n), AtCell
    PROVE  /\ Top.block \in DOMAIN blocks /\ Top.block \in Nat
           /\ Top.next \in DOMAIN blocks[Top.block].cells /\ Top.next \in Nat \ {0}
           /\ On(Top.block) /\ Unset(Top.block, Top.next) /\ Unset(Top.block, Top.next + 1)
           /\ n \in Nat /\ n = N[Top.block][Top.next]
<1>1. stack # <<>>
    BY DEF AtCell
<1>2. /\ Top.block \in DOMAIN blocks /\ Top.block \in Nat
      /\ Top.next \in DOMAIN blocks[Top.block].cells /\ Top.next \in Nat \ {0}
      /\ Len(stack) \in DOMAIN stack /\ stack[Len(stack)] = Top
    BY <1>1, TopFacts, BlockFacts
<1>3. Top.next >= Top.next /\ Top.next + 1 >= Top.next
    BY <1>2
<1>4. On(Top.block) /\ Unset(Top.block, Top.next) /\ Unset(Top.block, Top.next + 1)
    BY <1>2, <1>3 DEF On, Unset
<1> QED BY <1>1, <1>2, <1>4 DEF WalkInv

LEMMA SetTree ==
    ASSUME StateTypes, NEW N, NEW M \in Numbers, InitTree(N), WalkInv(N, Len(blocks)), AtCell,
           NEW object, CellSet(object), NEW b, b = Top.block, NEW i, i = Top.next,
           \A c \in DOMAIN blocks : \A j \in Nat : ~(c = b /\ j = i + 1) => M[c][j] = N[c][j],
           \A c \in DOMAIN blocks : On(c)' => On(c),
           \A c \in DOMAIN blocks : \A j \in DOMAIN blocks[c].cells :
               ~(c = b /\ j = i) =>
                   (Unset(c, j)' <=> Unset(c, j)) /\ (Open(c, j)' <=> Open(c, j)),
           CellOK(M, b, i)',
           \A c \in DOMAIN blocks' :
               c \notin DOMAIN blocks =>
                   M[c][1] = c /\ \A j \in DOMAIN blocks'[c].cells : CellOK(M, c, j)'
    PROVE  InitTree(M)'
<1>1. /\ b \in DOMAIN blocks /\ i \in Nat \ {0} /\ On(b) /\ Unset(b, i + 1)
      /\ i \in DOMAIN blocks[b].cells
    BY CellFacts
<1>2. KeepShape /\ KeepCells
    BY DEF CellSet
<1>3. Root'
    BY <1>2 DEF Root, KeepShape, InitTree
<1>4. ASSUME NEW c \in DOMAIN blocks PROVE M[c][1] = c
    BY <1>1 DEF InitTree
<1>5. ASSUME NEW c \in DOMAIN blocks, NEW j \in DOMAIN blocks[c].cells
      PROVE  CellOK(M, c, j)'
    <2>1. CASE c = b /\ j = i
        BY <2>1
    <2>2. CASE ~(c = b /\ j = i)
        <3>1. KeepOthers(N, M, b, i)
            BY <1>2 DEF KeepCells, KeepOthers
        <3> QED BY <1>1, <1>2, <2>2, <3>1, TreeStep
    <2> QED BY <2>1, <2>2
<1>6. \A c \in DOMAIN blocks : DOMAIN blocks'[c].cells = DOMAIN blocks[c].cells
    BY <1>2 DEF KeepShape
<1> QED BY <1>3, <1>4, <1>5, <1>6 DEF InitTree

TreeInv(N) == InitTree(N) /\ WalkInv(N, Len(blocks))

LEMMA ScalarTree ==
    ASSUME StateTypes, NEW N, TreeInv(N), AtCell, Advanced, CellSet(Scalar),
           Len(blocks') = Len(blocks)
    PROVE  \E M : TreeInv(M)'
<1>0. InitTree(N) /\ WalkInv(N, Len(blocks)) /\ N \in Numbers
    BY DEF TreeInv, InitTree
<1>1. PICK L, b, i : L = Len(blocks) /\ b = Top.block /\ i = Top.next
    OBVIOUS
<1>2. /\ L \in Nat /\ b \in Nat /\ b \in DOMAIN blocks /\ i \in Nat \ {0}
      /\ i \in DOMAIN blocks[b].cells /\ L = N[b][i]
      /\ DOMAIN blocks = 1..L /\ DOMAIN blocks' = 1..L
      /\ \A c \in DOMAIN blocks : DOMAIN blocks[c].cells \subseteq Nat
    <2>1. /\ L \in Nat /\ b \in DOMAIN blocks /\ i \in Nat \ {0} /\ L = N[b][i]
          /\ i \in DOMAIN blocks[b].cells /\ DOMAIN blocks = 1..L
          /\ \A c \in DOMAIN blocks : DOMAIN blocks[c].cells \subseteq Nat
        BY <1>0, <1>1, CellFacts, BlockFacts
    <2>2. DOMAIN blocks' = 1..L
        BY <1>1, LenProperties DEF CellSet, KeepShape
    <2> QED BY <2>1, <2>2
<1>30. PICK M : Renumbered(N, M, b, i + 1, L)
    <2>1. i + 1 \in Nat
        BY <1>2
    <2> QED BY <1>0, <1>2, <2>1, Renumber
<1>3. /\ M \in Numbers /\ M[b][i + 1] = L
      /\ \A c, k \in Nat : ~(c = b /\ k = i + 1) => M[c][k] = N[c][k]
    BY <1>30 DEF Renumbered
<1>4. /\ \A c : On(c)' <=> On(c)
      /\ \A c : \A j \in Nat : Open(c, j)' <=> Open(c, j)
      /\ \A c : \A j \in Nat : Unset(c, j)' <=> Unset(c, j) /\ ~(c = b /\ j = i)
    BY <1>0, <1>1, AfterAdvance
<1>5. blocks'[b].cells[i] = Scalar /\ Scalar.type = "scalar"
    BY <1>1 DEF CellSet, Scalar
<1>6. CellOK(M, b, i)'
    <2>1. ~Unset(b, i)'
        BY <1>2, <1>4
    <2>2. M[b][i + 1] = M[b][i]
        BY <1>2, <1>3
    <2> QED BY <2>1, <2>2, <1>5 DEF CellOK, Points, Passes, Containers
<1>7. InitTree(M)'
    BY <1>0, <1>1, <1>2, <1>3, <1>4, <1>6, SetTree
<1>8. WalkInv(M, L)'
    <2>1. KeepCells /\ L >= L
        BY <1>2 DEF CellSet
    <2> QED BY <2>1, <1>0, <1>1, <1>2, <1>3, WalkAdvance
<1> QED BY <1>1, <1>7, <1>8 DEF TreeInv

LEMMA LeafTree ==
    ASSUME StateTypes, NEW N, TreeInv(N), AtCell, Advanced, NEW object, CellSet(object),
           NEW block, Extended(block), object.type = "str", object.to = Len(blocks) + 1,
           block.bytes = object.l + 1, block.cells = <<>>
    PROVE  \E M : TreeInv(M)'
<1>0. InitTree(N) /\ WalkInv(N, Len(blocks)) /\ N \in Numbers
    BY DEF TreeInv, InitTree
<1>1. PICK L, b, i : L = Len(blocks) /\ b = Top.block /\ i = Top.next
    OBVIOUS
<1>2. /\ L \in Nat /\ b \in Nat /\ b \in DOMAIN blocks /\ i \in Nat \ {0}
      /\ i \in DOMAIN blocks[b].cells /\ L = N[b][i]
      /\ DOMAIN blocks = 1..L /\ DOMAIN blocks' = 1..(L + 1) /\ Len(blocks') = L + 1
      /\ blocks'[L + 1] = block
      /\ \A c \in DOMAIN blocks : DOMAIN blocks[c].cells \subseteq Nat
    BY <1>0, <1>1, CellFacts, BlockFacts, LenProperties DEF Extended
<1>3. PICK K : Renumbered(N, K, b, i + 1, L + 1)
    <2>1. L + 1 \in Nat /\ i + 1 \in Nat
        BY <1>2
    <2> QED BY <1>0, <1>2, <2>1, Renumber
<1>30. PICK M : Renumbered(K, M, L + 1, 1, L + 1)
    <2>1. L + 1 \in Nat /\ 1 \in Nat /\ K \in Numbers
        BY <1>2, <1>3 DEF Renumbered
    <2> QED BY <2>1, <1>3, Renumber
<1>31. /\ M \in Numbers /\ M[b][i + 1] = L + 1 /\ M[L + 1][1] = L + 1
       /\ \A c \in DOMAIN blocks : \A k \in Nat : ~(c = b /\ k = i + 1) => M[c][k] = N[c][k]
    <2>1. \A c \in DOMAIN blocks : c \in Nat /\ c # L + 1
        BY <1>2
    <2>2. i + 1 \in Nat
        BY <1>2
    <2> QED BY <1>2, <1>3, <1>30, <2>1, <2>2 DEF Renumbered
<1>4. /\ \A c : On(c)' <=> On(c)
      /\ \A c : \A j \in Nat : Open(c, j)' <=> Open(c, j)
      /\ \A c : \A j \in Nat : Unset(c, j)' <=> Unset(c, j) /\ ~(c = b /\ j = i)
    BY <1>0, <1>1, AfterAdvance
<1>5. blocks'[b].cells[i] = object
    BY <1>1 DEF CellSet
<1>6. CellOK(M, b, i)'
    <2>1. ~Unset(b, i)'
        BY <1>2, <1>4
    <2>2. M[b][i] = L
        <3>1. i # i + 1
            BY <1>2
        <3> QED BY <3>1, <1>2, <1>31
    <2>3. Points(M, b, i)'
        <3>1. object.type \notin Containers /\ L + 1 \in DOMAIN blocks'
            BY <1>2 DEF Containers
        <3> QED BY <2>2, <3>1, <1>1, <1>2, <1>5 DEF Points
    <2>4. Passes(M, b, i)'
        BY <1>1, <1>5, <1>31 DEF Passes, Containers
    <2> QED BY <2>1, <2>3, <2>4, <1>5 DEF CellOK, Containers
<1>61. ASSUME NEW c \in DOMAIN blocks', c \notin DOMAIN blocks
       PROVE  M[c][1] = c /\ \A j \in DOMAIN blocks'[c].cells : CellOK(M, c, j)'
    <2>1. c = L + 1
        BY <1>2, <1>61
    <2>2. DOMAIN blocks'[c].cells = {}
        BY <2>1, <1>2
    <2> QED BY <2>1, <2>2, <1>31
<1>7. InitTree(M)'
    <2>1. /\ \A c \in DOMAIN blocks : On(c)' => On(c)
          /\ \A c \in DOMAIN blocks : \A j \in DOMAIN blocks[c].cells :
                ~(c = b /\ j = i) =>
                    (Unset(c, j)' <=> Unset(c, j)) /\ (Open(c, j)' <=> Open(c, j))
        BY <1>2, <1>4
    <2>2. \A c \in DOMAIN blocks : \A j \in Nat :
              ~(c = b /\ j = i + 1) => M[c][j] = N[c][j]
        BY <1>31
    <2>3. \A c \in DOMAIN blocks' :
              c \notin DOMAIN blocks =>
                  M[c][1] = c /\ \A j \in DOMAIN blocks'[c].cells : CellOK(M, c, j)'
        BY <1>61
    <2>4. M \in Numbers /\ b = Top.block /\ i = Top.next
        BY <1>1, <1>31
    <2> QED BY <1>0, <1>6, <2>1, <2>2, <2>3, <2>4, SetTree
<1>8. WalkInv(M, L + 1)'
    <2>1. KeepCells /\ L + 1 >= L /\ L + 1 \in Nat
        BY <1>2 DEF CellSet
    <2> QED BY <2>1, <1>0, <1>1, <1>2, <1>31, WalkAdvance
<1> QED BY <1>2, <1>7, <1>8 DEF TreeInv

LEMMA ContainerTree ==
    ASSUME StateTypes, NEW N, TreeInv(N), AtCell, Entered(Len(blocks) + 1),
           NEW object, CellSet(object), NEW block, Extended(block),
           object.type \in Containers, object.to = Len(blocks) + 1,
           Len(block.cells) = IF object.type = "map" THEN 2 * object.l ELSE object.l,
           block.bytes = Len(block.cells) * SizeofObject, block.text = "none",
           \A j \in DOMAIN block.cells : j \in Nat \ {0} /\ block.cells[j] = Null
    PROVE  \E M : TreeInv(M)'
<1>0. InitTree(N) /\ WalkInv(N, Len(blocks)) /\ N \in Numbers
    BY DEF TreeInv, InitTree
<1>1. PICK L, b, i : L = Len(blocks) /\ b = Top.block /\ i = Top.next
    OBVIOUS
<1>2. /\ L \in Nat /\ b \in Nat /\ b \in DOMAIN blocks /\ i \in Nat \ {0}
      /\ i \in DOMAIN blocks[b].cells /\ L = N[b][i]
      /\ DOMAIN blocks = 1..L /\ DOMAIN blocks' = 1..(L + 1) /\ Len(blocks') = L + 1
      /\ blocks'[L + 1] = block /\ L + 1 \in Nat /\ L + 1 > L /\ Entered(L + 1)
      /\ \A c \in DOMAIN blocks : DOMAIN blocks[c].cells = 1..Len(blocks[c].cells)
    BY <1>0, <1>1, CellFacts, BlockFacts, LenProperties DEF Extended
<1>3. PICK M : Renumbered(N, M, L + 1, 1, L + 1)
    BY <1>0, <1>2, Renumber
<1>31. /\ M \in Numbers /\ M[L + 1][1] = L + 1
       /\ \A c \in DOMAIN blocks : \A k \in Nat : M[c][k] = N[c][k]
    <2>1. \A c \in DOMAIN blocks : c \in Nat /\ c # L + 1
        BY <1>2
    <2> QED BY <1>2, <1>3, <2>1 DEF Renumbered
<1>4. /\ \A c : On(c)' <=> On(c) \/ c = L + 1
      /\ \A c : \A j \in Nat : Open(c, j)' <=> Open(c, j) \/ (c = b /\ j = i)
      /\ \A c : \A j \in Nat \ {0} :
            Unset(c, j)' <=> (Unset(c, j) /\ ~(c = b /\ j = i)) \/ c = L + 1
    BY <1>0, <1>1, <1>2, AfterEnter
<1>5. blocks'[b].cells[i] = object
    BY <1>1 DEF CellSet
<1>6. CellOK(M, b, i)'
    <2>1. ~Unset(b, i)' /\ Open(b, i)'
        <3>1. b # L + 1
            BY <1>2
        <3> QED BY <3>1, <1>2, <1>4
    <2>3. Points(M, b, i)'
        <3>1. object.type # "str" /\ L + 1 \in DOMAIN blocks' /\ M[b][i] = L
            BY <1>2, <1>31 DEF Containers
        <3> QED BY <3>1, <1>1, <1>2, <1>5 DEF Points
    <2>4. object.type # "null"
        BY DEF Containers
    <2> QED BY <2>1, <2>3, <2>4, <1>5 DEF CellOK
<1>61. ASSUME NEW c \in DOMAIN blocks', c \notin DOMAIN blocks
       PROVE  M[c][1] = c /\ \A j \in DOMAIN blocks'[c].cells : CellOK(M, c, j)'
    <2>1. c = L + 1
        BY <1>2, <1>61
    <2>2. ASSUME NEW j \in DOMAIN blocks'[c].cells PROVE CellOK(M, c, j)'
        <3>1. blocks'[c].cells[j] = Null /\ j \in Nat \ {0}
            BY <2>1, <1>2
        <3>2. Unset(c, j)'
            BY <2>1, <3>1, <1>4
        <3> QED BY <3>1, <3>2 DEF CellOK, Null
    <2> QED BY <2>1, <2>2, <1>31
<1>7. InitTree(M)'
    <2>1. /\ \A c \in DOMAIN blocks : c # L + 1
          /\ \A c \in DOMAIN blocks : \A j \in DOMAIN blocks[c].cells : j \in Nat \ {0}
        <3>1. L \in Nat /\ DOMAIN blocks = 1..L
            BY <1>2
        <3>2. \A c \in DOMAIN blocks : c # L + 1
            BY <3>1
        <3>3. ASSUME NEW c \in DOMAIN blocks, NEW j \in DOMAIN blocks[c].cells
              PROVE  j \in Nat \ {0}
            BY BlockFacts
        <3> QED BY <3>2, <3>3
    <2>2. \A c \in DOMAIN blocks : \A j \in DOMAIN blocks[c].cells :
              ~(c = b /\ j = i) =>
                  (Unset(c, j)' <=> Unset(c, j)) /\ (Open(c, j)' <=> Open(c, j))
        BY <1>4, <2>1
    <2>3. \A c \in DOMAIN blocks : On(c)' => On(c)
        BY <1>4, <2>1
    <2> QED BY <1>0, <1>1, <1>31, <1>6, <1>61, <2>2, <2>3, SetTree
<1>8. WalkInv(M, L + 1)'
    <2>1. KeepCells /\ L + 1 >= L + 1 /\ L + 1 \in DOMAIN blocks'
        BY <1>2 DEF CellSet
    <2>2. blocks'[Top.block].cells[Top.next] = object
        BY DEF CellSet
    <2>3. /\ blocks'[Top.block].cells[Top.next].type \in Containers
          /\ blocks'[Top.block].cells[Top.next].to = L + 1
        BY <2>2, <1>1
    <2>4. WalkInv(N, L)
        BY <1>0, <1>1
    <2> QED BY <2>1, <2>3, <2>4, <1>2, <1>31, WalkEnter
<1> QED BY <1>2, <1>7, <1>8 DEF TreeInv

LEMMA ReturnTree ==
    ASSUME StateTypes, NEW N, TreeInv(N), AtReturn, Returned, UNCHANGED blocks
    PROVE  \E M : TreeInv(M)'
<1>0. InitTree(N) /\ WalkInv(N, Len(blocks)) /\ N \in Numbers /\ stack # <<>>
    BY DEF TreeInv, InitTree, AtReturn
<1>1. PICK L, b, k : L = Len(blocks) /\ b = Top.block /\ k = Len(stack)
    OBVIOUS
<1>2. /\ L \in Nat /\ b \in Nat /\ b \in DOMAIN blocks /\ k \in Nat \ {0}
      /\ Top.next = Len(blocks[b].cells) + 1 /\ L = N[b][Top.next]
      /\ Len(blocks[b].cells) \in Nat /\ DOMAIN stack = 1..k /\ stack[k] = Top
      /\ Len(blocks') = L
      /\ \A c \in DOMAIN blocks :
            /\ DOMAIN blocks[c].cells = 1..Len(blocks[c].cells)
            /\ Len(blocks[c].cells) \in Nat /\ c \in Nat
    <2>1. /\ k \in Nat \ {0} /\ DOMAIN stack = 1..k /\ stack[k] = Top
          /\ b \in DOMAIN blocks /\ Top.next = Len(blocks[b].cells) + 1
        BY <1>0, <1>1, TopFacts
    <2>2. L = N[b][Top.next]
        BY <1>0, <1>1 DEF WalkInv
    <2>3. /\ L \in Nat /\ DOMAIN blocks = 1..L /\ Len(blocks') = L
          /\ \A c \in DOMAIN blocks :
                /\ DOMAIN blocks[c].cells = 1..Len(blocks[c].cells)
                /\ Len(blocks[c].cells) \in Nat
        BY <1>1, BlockFacts
    <2> QED BY <2>1, <2>2, <2>3
<1>3. KeepShape
    BY DEF KeepShape, StateTypes
<1>4. /\ \A c : On(c)' <=> On(c) /\ c # b
      /\ \A c \in DOMAIN blocks : \A j \in DOMAIN blocks[c].cells :
            /\ Unset(c, j)' <=> Unset(c, j)
            /\ Open(c, j)' <=> Open(c, j) /\ ~(/\ k > 1
                                               /\ c = stack[k - 1].block
                                               /\ j = stack[k - 1].next - 1)
    BY <1>0, <1>1, AfterReturn
<1>5. ASSUME NEW M, M \in Numbers, \A c \in DOMAIN blocks : M[c][1] = c,
             \A c \in DOMAIN blocks : \A j \in DOMAIN blocks[c].cells : CellOK(M, c, j)'
      PROVE  InitTree(M)'
    BY <1>0, <1>5 DEF InitTree, Root
<1>6. CASE k = 1
    <2>1. KeepOthers(N, N, b, Top.next)
        <3>1. \A c \in DOMAIN blocks : On(c)' => On(c)
            BY <1>4
        <3>2. \A c \in DOMAIN blocks : \A j \in DOMAIN blocks[c].cells :
                  (Unset(c, j)' <=> Unset(c, j)) /\ (Open(c, j)' <=> Open(c, j))
            BY <1>4, <1>6
        <3> QED BY <3>1, <3>2 DEF KeepOthers
    <2>2. On(b) /\ Unset(b, Top.next + 1) /\ Top.next \in Nat
        <3>1. k \in DOMAIN stack /\ stack[k].block = b /\ Top.next + 1 >= stack[k].next
            BY <1>1, <1>2
        <3> QED BY <3>1, <1>2 DEF On, Unset
    <2>3. PICK i : i = Top.next
        OBVIOUS
    <2>4. \A c \in DOMAIN blocks : \A j \in DOMAIN blocks[c].cells :
               ~(c = b /\ j = i) => CellOK(N, c, j)'
        BY <1>0, <1>3, <2>1, <2>2, <2>3, TreeStep
    <2>5. InitTree(N)'
        <3>1. \A c \in DOMAIN blocks : \A j \in DOMAIN blocks[c].cells : ~(c = b /\ j = i)
            BY <1>2, <2>3
        <3>2. \A c \in DOMAIN blocks : N[c][1] = c
            BY <1>0 DEF InitTree
        <3> QED BY <1>0, <1>5, <2>4, <3>1, <3>2
    <2>6. L = N[1][2]
        <3>1. b = 1 /\ Top.next = 2
            <4>1. stack[1].block = 1 /\ Len(blocks[1].cells) = 1
                BY <1>0 DEF WalkInv, InitTree, Root
            <4>2. stack[1] = Top
                BY <1>2, <1>6
            <4>3. b = 1
                BY <4>1, <4>2, <1>1
            <4> QED BY <4>1, <4>3, <1>2
        <3> QED BY <3>1, <1>2
    <2>7. WalkInv(N, L)'
        BY <1>0, <1>1, <1>6, <2>6, WalkReturn
    <2> QED BY <1>2, <2>5, <2>7 DEF TreeInv
<1>7. CASE k > 1
    <2>0. PICK c, i : c = stack[k - 1].block /\ i = stack[k - 1].next - 1
        OBVIOUS
    <2>1. /\ k - 1 \in 1..k /\ c \in DOMAIN blocks /\ c # b /\ c \in Nat
          /\ i \in DOMAIN blocks[c].cells /\ i \in Nat \ {0}
          /\ stack[k - 1].next = i + 1
          /\ blocks[c].cells[i].type \in Containers /\ blocks[c].cells[i].to = b
        <3>1. k - 1 \in 1..(Len(stack) - 1) /\ k - 1 \in 1..Len(stack) /\ k \in 1..Len(stack)
              /\ k - 1 < k /\ k - 1 + 1 = k
            BY <1>1, <1>2, <1>7
        <3>2. \A g, h \in 1..Len(stack) : g < h => stack[g].block < stack[h].block
            BY <1>0, WalkFrames
        <3>3. /\ c \in DOMAIN blocks /\ c \in Nat /\ i \in DOMAIN blocks[c].cells
              /\ blocks[c].cells[i].type \in Containers
              /\ blocks[c].cells[i].to = stack[k - 1 + 1].block
              /\ stack[k - 1].next >= 2 /\ stack[k - 1].next \in Nat
            BY <1>0, <1>2, <2>0, <3>1, WalkFrames, BlockFacts
        <3>4. c < b
            BY <1>1, <1>2, <2>0, <3>1, <3>2
        <3>5. /\ i \in Nat \ {0} /\ stack[k - 1].next = i + 1
            BY <2>0, <3>3
        <3>6. blocks[c].cells[i].to = b
            BY <1>1, <1>2, <3>1, <3>3
        <3>7. c # b
            BY <1>2, <3>3, <3>4
        <3> QED BY <1>1, <3>1, <3>3, <3>5, <3>6, <3>7
    <2>2. PICK M : Renumbered(N, M, c, i + 1, L)
        <3>1. i + 1 \in Nat
            BY <2>1
        <3> QED BY <1>0, <1>2, <2>1, <3>1, Renumber
    <2>3. /\ M \in Numbers /\ M[c][i + 1] = L
          /\ \A x \in DOMAIN blocks : \A y \in Nat : ~(x = c /\ y = i + 1) => M[x][y] = N[x][y]
        BY <1>2, <2>2 DEF Renumbered
    <2>4. KeepOthers(N, M, c, i)
        <3>1. \A x \in DOMAIN blocks : On(x)' => On(x)
            BY <1>4
        <3>2. \A x \in DOMAIN blocks : \A y \in DOMAIN blocks[x].cells :
                  ~(x = c /\ y = i) =>
                      (Unset(x, y)' <=> Unset(x, y)) /\ (Open(x, y)' <=> Open(x, y))
            BY <1>4, <2>0
        <3> QED BY <3>1, <3>2, <2>3 DEF KeepOthers
    <2>5. On(c) /\ Unset(c, i + 1)
        <3>1. k - 1 \in DOMAIN stack /\ i + 1 >= stack[k - 1].next
            BY <1>2, <2>1
        <3> QED BY <3>1, <2>0 DEF On, Unset
    <2>6. \A x \in DOMAIN blocks : \A y \in DOMAIN blocks[x].cells :
               ~(x = c /\ y = i) => CellOK(M, x, y)'
        BY <1>0, <1>3, <2>1, <2>4, <2>5, TreeStep
    <2>7. CellOK(M, c, i)'
        <3>1. blocks[c].cells[i].type \notin {"null", "str", "scalar"}
            BY <2>1 DEF Containers
        <3>2. ~Unset(c, i) /\ Points(N, c, i)
            BY <1>0, <2>1, <3>1 DEF InitTree, CellOK
        <3>3. Points(M, c, i)'
            <4>1. i # i + 1 /\ i \in Nat
                BY <2>1
            <4>2. M[c][i] = N[c][i]
                BY <2>1, <2>3, <4>1
            <4> QED BY <1>3, <2>1, <3>2, <4>2, PointsKept
        <3>4. Passes(M, c, i)'
            <4>1. M[b][Len(blocks[b].cells) + 1] = L
                BY SMTT(20), <1>2, <2>1, <2>3
            <4> QED BY <2>1, <2>3, <3>1, <4>1 DEF Passes
        <3>5. ~On(b)' /\ ~Unset(c, i)'
            BY <1>4, <2>1, <3>2
        <3> QED BY <2>1, <3>1, <3>3, <3>4, <3>5 DEF CellOK
    <2>8. InitTree(M)'
        <3>1. \A x \in DOMAIN blocks : \A y \in DOMAIN blocks[x].cells : CellOK(M, x, y)'
            BY <2>6, <2>7
        <3>2. \A x \in DOMAIN blocks : M[x][1] = x
            <4>1. \A x \in DOMAIN blocks : N[x][1] = x
                BY <1>0 DEF InitTree
            <4>2. 1 # i + 1 /\ 1 \in Nat
                BY <2>1
            <4> QED BY <2>3, <4>1, <4>2
        <3> QED BY <1>5, <2>3, <3>1, <3>2
    <2>9. WalkInv(M, L)'
        BY SMTT(20), <1>0, <1>1, <1>7, <2>0, <2>1, <2>3, WalkReturn
    <2> QED BY <1>2, <2>8, <2>9 DEF TreeInv
<1> QED BY <1>2, <1>6, <1>7

-----------------------------------------------------------------------------
(* Keys.                                                                   *)

\* A cell that points to the block under the walk is the one below it.
LEMMA OwnerOfTop ==
    ASSUME StateTypes, NEW N, TreeInv(N), AtCell,
           NEW x \in DOMAIN blocks, NEW y \in DOMAIN blocks[x].cells,
           blocks[x].cells[y].type = "map", blocks[x].cells[y].to = Top.block
    PROVE  OwnerType = "map"
<1>0. InitTree(N) /\ WalkInv(N, Len(blocks)) /\ stack # <<>>
    BY DEF TreeInv, AtCell
<1>1. PICK k : k = Len(stack)
    OBVIOUS
<1>2. k \in Nat \ {0} /\ DOMAIN stack = 1..k /\ stack[k] = Top /\ y \in Nat
    BY <1>0, <1>1, TopFacts, BlockFacts
<1>3. /\ blocks[x].cells[y].type = "null" <=> Unset(x, y)
      /\ ~Unset(x, y) /\ ~Open(x, y) =>
            (blocks[x].cells[y].type \in Containers => ~On(blocks[x].cells[y].to))
    BY <1>0 DEF InitTree, CellOK
<1>4. On(Top.block)
    BY <1>0, CellFacts
<1>5. PICK g \in 1..(Len(stack) - 1) : stack[g].block = x /\ stack[g].next = y + 1
    BY <1>3, <1>4 DEF Open, Containers
<1>6. /\ g \in 1..k /\ g + 1 \in 1..k
      /\ blocks[x].cells[stack[g].next - 1].to = stack[g + 1].block
    <2>1. g \in 1..k /\ g + 1 \in 1..k
        BY <1>1, <1>2
    <2>2. blocks[stack[g].block].cells[stack[g].next - 1].to = stack[g + 1].block
        BY <1>0, WalkFrames
    <2> QED BY <2>1, <2>2, <1>5
<1>7. stack[g].next - 1 = y
    BY <1>2, <1>5
<1>8. stack[g + 1].block = stack[k].block
    BY <1>2, <1>6, <1>7
<1>9. g + 1 = k
    <2>1. \A u, v \in 1..k : u < v => stack[u].block < stack[v].block
        BY <1>0, <1>1, WalkFrames
    <2>2. \A u \in 1..k : stack[u].block \in Nat
        BY <1>0, <1>1, WalkFrames
    <2>3. g + 1 < k \/ g + 1 = k
        BY <1>2, <1>6
    <2>4. k \in 1..k
        BY <1>2
    <2>5. g + 1 < k => stack[g + 1].block < stack[k].block
        BY <1>6, <2>1, <2>4
    <2> QED BY <1>8, <2>2, <2>3, <2>4, <2>5
<1>10. Len(stack) >= 2 /\ Len(stack) - 1 = g
    BY <1>1, <1>2, <1>6, <1>9
<1> QED BY <1>5, <1>7, <1>10 DEF OwnerType

KeysDiffer(e) ==
    \A j, k \in KeysOf(e) :
        j # k => blocks[blocks[e].cells[j].to].text # blocks[blocks[e].cells[k].to].text

MapsDiffer ==
    \A b \in DOMAIN blocks : \A c \in DOMAIN blocks[b].cells : \A e :
        blocks[b].cells[c].type = "map" /\ e = blocks[b].cells[c].to => KeysDiffer(e)

LEMMA UniqueIsDiffer == UniqueKeys <=> MapsDiffer
<1>1. ASSUME UniqueKeys PROVE MapsDiffer
    <2> SUFFICES ASSUME NEW b \in DOMAIN blocks, NEW c \in DOMAIN blocks[b].cells, NEW e,
                        blocks[b].cells[c].type = "map", e = blocks[b].cells[c].to
                 PROVE  KeysDiffer(e)
        BY DEF MapsDiffer
    <2> QED BY <1>1 DEF UniqueKeys, KeysDiffer
<1>2. ASSUME MapsDiffer PROVE UniqueKeys
    <2>1. ASSUME NEW b \in DOMAIN blocks, NEW c \in DOMAIN blocks[b].cells,
                 blocks[b].cells[c].type = "map"
          PROVE  KeysDiffer(blocks[b].cells[c].to)
        BY <1>2, <2>1 DEF MapsDiffer
    <2> QED BY <2>1 DEF UniqueKeys, KeysDiffer
<1> QED BY <1>1, <1>2

LEMMA UniqueSame ==
    ASSUME UniqueKeys, UNCHANGED blocks
    PROVE  UniqueKeys'
<1>1. (UniqueKeys <=> MapsDiffer) /\ (UniqueKeys' <=> MapsDiffer')
    BY UniqueIsDiffer, PTL
<1>2. ASSUME NEW e, KeysDiffer(e) PROVE KeysDiffer(e)'
    BY <1>2 DEF KeysDiffer, KeysOf
<1>3. MapsDiffer => MapsDiffer'
    BY <1>2 DEF MapsDiffer
<1> QED BY <1>1, <1>3

LEMMA UniqueKept ==
    ASSUME StateTypes, NEW N, TreeInv(N), UniqueKeys, AtCell, NEW object, CellSet(object),
           object.type = "map" => object.to \in DOMAIN blocks' /\ object.to \notin DOMAIN blocks,
           \A c \in DOMAIN blocks' : c \notin DOMAIN blocks =>
               \A j \in DOMAIN blocks'[c].cells : blocks'[c].cells[j] = Null,
           object.type = "str" /\ AtKey => blocks'[object.to].text \notin KeysBefore
    PROVE  UniqueKeys'
<1>0. InitTree(N) /\ WalkInv(N, Len(blocks)) /\ KeepCells /\ KeepShape
    BY DEF TreeInv, CellSet
<1>1. PICK b, i : b = Top.block /\ i = Top.next
    OBVIOUS
<1>2. /\ b \in DOMAIN blocks /\ i \in DOMAIN blocks[b].cells /\ i \in Nat
      /\ blocks'[b].cells[i] = object
      /\ \A c \in DOMAIN blocks :
            /\ DOMAIN blocks'[c].cells = DOMAIN blocks[c].cells
            /\ \A j \in DOMAIN blocks[c].cells :
                  ~(c = b /\ j = i) => blocks'[c].cells[j] = blocks[c].cells[j]
      /\ \A c \in DOMAIN blocks : blocks'[c].text = blocks[c].text
    BY <1>0, <1>1, CellFacts DEF CellSet, KeepCells, KeepShape
<1>20. UniqueKeys' <=> MapsDiffer'
    BY UniqueIsDiffer, PTL
<1>3. SUFFICES ASSUME NEW x \in DOMAIN blocks', NEW y \in DOMAIN blocks'[x].cells, NEW e,
                      blocks'[x].cells[y].type = "map", e = blocks'[x].cells[y].to
               PROVE  KeysDiffer(e)'
    BY <1>20 DEF MapsDiffer
<1>30. SUFFICES ASSUME NEW j \in KeysOf(e)', NEW k \in KeysOf(e)', j # k
                PROVE  blocks'[blocks'[e].cells[j].to].text
                          # blocks'[blocks'[e].cells[k].to].text
    BY DEF KeysDiffer
<1>4. \A l \in KeysOf(e)' : /\ l \in DOMAIN blocks'[e].cells
                            /\ l % 2 = 1 /\ blocks'[e].cells[l].type = "str"
    BY DEF KeysOf
<1>5. Null.type = "null"
    BY DEF Null
<1>6. x \in DOMAIN blocks
    BY <1>3, <1>5
\* Keys that were there point to blocks that were there.
<1>7. ASSUME NEW d \in DOMAIN blocks, NEW l \in DOMAIN blocks[d].cells,
             blocks[d].cells[l].type = "str"
      PROVE  /\ blocks[d].cells[l].to \in DOMAIN blocks
             /\ ~Unset(d, l)
    BY <1>0, <1>7 DEF InitTree, CellOK, Points
<1>8. CASE x = b /\ y = i
    <2>1. e \in DOMAIN blocks' /\ e \notin DOMAIN blocks
        BY <1>2, <1>3, <1>8
    <2>2. j \in DOMAIN blocks'[e].cells /\ blocks'[e].cells[j].type = "str"
        BY <1>4
    <2> QED BY <1>5, <2>1, <2>2
<1>9. CASE ~(x = b /\ y = i)
    <2>1. /\ y \in DOMAIN blocks[x].cells /\ blocks[x].cells[y] = blocks'[x].cells[y]
          /\ blocks[x].cells[y].type = "map" /\ blocks[x].cells[y].to = e
        BY <1>2, <1>3, <1>6, <1>9
    <2>2. e \in DOMAIN blocks
        BY <1>0, <1>6, <2>1 DEF InitTree, CellOK, Points
    <2>3. \A u, v \in KeysOf(e) : u # v => blocks[blocks[e].cells[u].to].text
                                              # blocks[blocks[e].cells[v].to].text
        BY ZenonT(30), <1>6, <2>1 DEF UniqueKeys
    <2>4. ASSUME NEW l \in KeysOf(e)', ~(e = b /\ l = i)
          PROVE  /\ l \in KeysOf(e) /\ blocks'[e].cells[l] = blocks[e].cells[l]
                 /\ blocks'[blocks'[e].cells[l].to].text = blocks[blocks[e].cells[l].to].text
                 /\ ~Unset(e, l)
        <3>1. /\ l \in DOMAIN blocks[e].cells /\ blocks'[e].cells[l] = blocks[e].cells[l]
              /\ l % 2 = 1 /\ blocks[e].cells[l].type = "str"
            BY <1>2, <1>4, <2>2, <2>4
        <3>2. blocks[e].cells[l].to \in DOMAIN blocks /\ ~Unset(e, l)
            BY <1>7, <2>2, <3>1
        <3> QED BY <1>2, <3>1, <3>2 DEF KeysOf
    <2>5. ASSUME NEW l \in KeysOf(e)', e = b, l # i, i \in KeysOf(e)'
          PROVE  blocks'[blocks'[e].cells[l].to].text # blocks'[blocks'[e].cells[i].to].text
        <3>1. OwnerType = "map"
            BY <1>1, <1>6, <2>1, <2>5, OwnerOfTop
        <3>2. AtKey /\ object.type = "str"
            BY <1>1, <1>2, <1>4, <2>5, <3>1 DEF AtKey
        <3>3. blocks'[blocks'[e].cells[i].to].text \notin KeysBefore
            BY <1>2, <2>5, <3>2
        <3>4. /\ l \in KeysOf(e) /\ ~Unset(e, l)
              /\ blocks'[blocks'[e].cells[l].to].text = blocks[blocks[e].cells[l].to].text
            BY <2>4, <2>5
        <3>5. l \in 1..(Top.next - 1) /\ l % 2 = 1
            <4>1. l \in DOMAIN blocks[e].cells /\ l % 2 = 1 /\ l \in Nat /\ l >= 1
                BY <2>2, <3>4, BlockFacts DEF KeysOf
            <4>2. ~(l >= i)
                <5>1. Len(stack) \in DOMAIN stack /\ stack[Len(stack)] = Top
                    <6>1. stack # <<>>
                        BY DEF AtCell
                    <6> QED BY <6>1, <1>0, TopFacts
                <5> QED BY <1>1, <2>5, <3>4, <5>1 DEF Unset
            <4> QED BY <4>1, <4>2, <1>1, <1>2
        <3>6. blocks[blocks[e].cells[l].to].text \in KeysBefore
            BY <1>1, <2>5, <3>5 DEF KeysBefore
        <3> QED BY <3>3, <3>4, <3>6
    <2>6. CASE e = b /\ j = i
        BY <2>5, <2>6, <1>3, <1>30
    <2>7. CASE e = b /\ k = i
        BY <2>5, <2>7, <1>3, <1>30
    <2>8. CASE ~(e = b /\ j = i) /\ ~(e = b /\ k = i)
        <3>1. /\ j \in KeysOf(e)
              /\ blocks'[blocks'[e].cells[j].to].text = blocks[blocks[e].cells[j].to].text
            BY <2>4, <2>8
        <3>2. /\ k \in KeysOf(e)
              /\ blocks'[blocks'[e].cells[k].to].text = blocks[blocks[e].cells[k].to].text
            BY <2>4, <2>8
        <3>3. j # k
            BY <1>30
        <3> QED BY <2>3, <3>1, <3>2, <3>3
    <2> QED BY <2>6, <2>7, <2>8
<1> QED BY <1>8, <1>9

-----------------------------------------------------------------------------
(* The inductive invariant.                                                *)

\* Where the blocks lie in the chunk.
Layout(f) ==
    /\ Sums(f)
    /\ Len(chunk) <= Len(blocks) /\ pool = f[Len(chunk)]
    /\ \A p \in DOMAIN chunk :
          chunk[p].off = f[p - 1] /\ chunk[p].block.bytes = blocks[p].bytes

Growing(N) ==
    /\ TreeInv(N) /\ live = DOMAIN blocks /\ chunk = <<>>
    /\ stray = 1 => AtCell /\ AtKey

\* The tree when object_init has returned.
Whole(N) ==
    /\ N \in Numbers /\ Root /\ N[1][2] = Len(blocks)
    /\ \A b \in DOMAIN blocks : N[b][1] = b
    /\ \A b \in DOMAIN blocks : \A i \in DOMAIN blocks[b].cells :
          blocks[b].cells[i].type # "null" /\ Points(N, b, i) /\ Passes(N, b, i)

\* Place p holds what has been copied of block p.
PlaceOK(p) ==
    /\ chunk[p].block.text = blocks[p].text
    /\ Len(chunk[p].block.cells) = Len(blocks[p].cells)
    /\ \A i \in DOMAIN blocks[p].cells :
          chunk[p].block.cells[i] = IF Unset(p, i) THEN Null ELSE blocks[p].cells[i]

Copying(N) ==
    /\ Whole(N) /\ WalkInv(N, Len(chunk)) /\ chunk # <<>>
    /\ live = DOMAIN blocks /\ stray = 0
    /\ \A g \in DOMAIN stack : stack[g] \in CopyFrames /\ stack[g].to = stack[g].block
    /\ \A p \in DOMAIN chunk : PlaceOK(p)

Copied ==
    /\ Len(chunk) = Len(blocks)
    /\ \A p \in DOMAIN chunk : chunk[p].block = blocks[p]

\* Blocks the walk has not reached and those it is in are not freed yet.
Freeing(N, n) ==
    /\ Whole(N) /\ Copied /\ stray = 0 /\ stack # <<>>
    /\ WalkInv(N, n)
    /\ live = {b \in DOMAIN blocks : b > n \/ On(b)}

IInv ==
    /\ StateTypes /\ UniqueKeys
    /\ \E f : Layout(f)
    /\ pc = "init" => \E N : Growing(N)
    /\ pc = "copy" => \E N : Copying(N)
    /\ pc = "teardown" => \E N, n : Freeing(N, n)
    /\ pc = "done" => live = {} /\ stray = 0 /\ stack = <<>> /\ Copied

\* The block of the root object.
LEMMA RootBlock ==
    /\ ObjectBlock(1) \in Block /\ ObjectBlock(1).text = "none"
    /\ ObjectBlock(1).bytes = SizeofObject /\ Len(ObjectBlock(1).cells) = 1
    /\ DOMAIN ObjectBlock(1).cells = {1} /\ ObjectBlock(1).cells[1] = Null
<1>1. \A n \in Nat : /\ ObjectBlock(n) \in Block /\ ObjectBlock(n).text = "none"
                    /\ ObjectBlock(n).bytes = n * SizeofObject
                    /\ Len(ObjectBlock(n).cells) = n
                    /\ DOMAIN ObjectBlock(n).cells = 1..n
                    /\ \A k \in 1..n : ObjectBlock(n).cells[k] = Null
    BY NewBlocks
<1>2. 1 \in Nat /\ 1 \in 1..1 /\ 1..1 = {1}
    OBVIOUS
<1>3. 1 * SizeofObject = SizeofObject
    BY LayoutAssumption
<1> QED BY <1>1, <1>2, <1>3

LEMMA InitHolds == Init => IInv
<1> SUFFICES ASSUME Init PROVE IInv
    OBVIOUS
<1>2. PICK new : new = ObjectBlock(1)
    OBVIOUS
<1>3. /\ blocks = <<new>> /\ stack = <<Frame(1)>> /\ live = {1} /\ stray = 0
      /\ totalSize = ObjectAlign(SizeofObject) /\ chunk = <<>> /\ pool = 0 /\ pc = "init"
    BY <1>2 DEF Init
<1>4. /\ new \in Block /\ new.text = "none" /\ new.bytes = SizeofObject
      /\ Len(new.cells) = 1 /\ DOMAIN new.cells = {1} /\ new.cells[1] = Null
    BY <1>2, RootBlock
<1>5. /\ blocks \in Seq(Block) /\ Len(blocks) = 1 /\ DOMAIN blocks = {1} /\ blocks[1] = new
    BY <1>3, <1>4
<1>6. /\ stack \in Seq(Frames) /\ Len(stack) = 1 /\ DOMAIN stack = {1} /\ stack # <<>>
      /\ stack[1].block = 1 /\ stack[1].next = 1 /\ Top = stack[1]
    <2>1. Frame(1) \in Frames /\ Frame(1).block = 1 /\ Frame(1).next = 1
        BY DEF Frame, Frames, CopyFrames
    <2> QED BY <2>1, <1>3 DEF Top
<1>7. ObjectAlign(SizeofObject) \in Nat
      /\ \E q \in Nat : ObjectAlign(SizeofObject) = q * Alignment
    BY AlignFacts, LayoutAssumption
<1>8. StateTypes
    <2>1. chunk \in Seq(Placed) /\ totalSize \in Nat
        BY <1>3, <1>7
    <2> QED BY <2>1, <1>3, <1>5, <1>6 DEF StateTypes
<1>9. UniqueKeys
    <2>1. \A b \in DOMAIN blocks : \A c \in DOMAIN blocks[b].cells : blocks[b].cells[c] = Null
        BY <1>4, <1>5
    <2>2. Null.type # "map"
        BY DEF Null
    <2> QED BY <2>1, <2>2 DEF UniqueKeys
<1>10. \E f : Layout(f)
    <2>1. PICK a \in Nat : a = ObjectAlign(SizeofObject) /\ \E q \in Nat : a = q * Alignment
        BY <1>7
    <2> DEFINE f == [p \in Nat |-> IF p = 0 THEN 0 ELSE a]
    <2>2. f \in [Nat -> Nat] /\ f[0] = 0 /\ f[1] = a
        BY <2>1
    <2> HIDE DEF f
    <2>3. \A p \in 0..1 : p = 0 \/ p = 1
        OBVIOUS
    <2>4. \A p, q \in 0..1 : p <= q => f[p] <= f[q]
        BY <2>1, <2>2, <2>3
    <2>5. \A p \in 0..1 : \E q \in Nat : f[p] = q * Alignment
        <3>1. 0 = 0 * Alignment /\ 0 \in Nat
            BY LayoutAssumption
        <3> QED BY <2>1, <2>2, <2>3, <3>1
    <2>6. \A p \in DOMAIN blocks : f[p] = f[p - 1] + ObjectAlign(blocks[p].bytes)
        <3>1. f[1] = f[1 - 1] + a
            BY <2>1, <2>2
        <3> QED BY <3>1, <2>1, <1>4, <1>5
    <2>7. Sums(f)
        BY <1>3, <1>5, <2>1, <2>2, <2>4, <2>5, <2>6 DEF Sums
    <2> QED BY <2>2, <2>7, <1>3, <1>5 DEF Layout
<1>11. \E N : Growing(N)
    <2> DEFINE N == [x \in Nat |-> [y \in Nat |-> 1]]
    <2>1. N \in Numbers /\ N[1][1] = 1
        BY DEF Numbers
    <2> HIDE DEF N
    <2>2. Root
        BY <1>4, <1>5 DEF Root
    <2>3. CellOK(N, 1, 1)
        <3>1. Unset(1, 1)
            BY <1>6 DEF Unset
        <3> QED BY <3>1, <1>4, <1>5 DEF CellOK, Null
    <2>4. InitTree(N)
        BY <2>1, <2>2, <2>3, <1>4, <1>5 DEF InitTree
    <2>5. WalkInv(N, 1)
        BY <2>1, <1>4, <1>5, <1>6 DEF WalkInv
    <2> QED BY <2>4, <2>5, <1>3, <1>5 DEF Growing, TreeInv
<1> QED BY <1>3, <1>8, <1>9, <1>10, <1>11 DEF IInv

-----------------------------------------------------------------------------
(* object_init.                                                            *)

\* While the tree grows nothing is in the chunk.
LEMMA LayoutOfTree ==
    ASSUME StateTypes', chunk = <<>>, UNCHANGED <<chunk, pool>>,
           NEW f, Layout(f), NEW h, Sums(h)'
    PROVE  Layout(h)'
<1>1. Len(blocks') \in Nat
    BY LenProperties DEF StateTypes
<1>2. chunk' = <<>> /\ Len(chunk') = 0 /\ pool' = 0 /\ DOMAIN chunk' = {}
    BY DEF Layout, Sums
<1>3. h[0] = 0
    BY DEF Sums
<1> QED BY <1>1, <1>2, <1>3 DEF Layout

LEMMA GrowingStep ==
    ASSUME IInv, pc = "init", UNCHANGED <<pc, chunk, pool>>, blocks' \in Seq(Block),
           totalSize' \in Nat, stray' = 0, live' = DOMAIN blocks', stack' \in Seq(Frames),
           UniqueKeys', \E f : Sums(f)', \E N : TreeInv(N)'
    PROVE  IInv'
<1>1. PICK N : TreeInv(N)'
    OBVIOUS
<1>2. PICK f : Layout(f)
    BY DEF IInv
<1>3. PICK h : Sums(h)'
    OBVIOUS
<1>4. chunk = <<>> /\ StateTypes
    BY DEF IInv, Growing
<1>5. \A g \in DOMAIN stack' : stack'[g].block \in DOMAIN blocks'
    BY <1>1 DEF TreeInv, WalkInv
<1>6. StateTypes'
    BY <1>4, <1>5 DEF StateTypes
<1>7. Layout(h)'
    BY <1>2, <1>3, <1>4, <1>6, LayoutOfTree
<1>8. Growing(N)'
    BY <1>1, <1>4 DEF Growing
<1> QED BY <1>6, <1>7, <1>8 DEF IInv

LEMMA StepScalar == IInv /\ InitScalar => IInv'
<1> SUFFICES ASSUME IInv, InitScalar PROVE IInv'
    OBVIOUS
<1>1. /\ pc = "init" /\ AtCell /\ ~AtKey /\ stack' = Advance
      /\ blocks' = [blocks EXCEPT ![Top.block].cells[Top.next] = Scalar]
      /\ UNCHANGED <<pc, live, stray, totalSize, chunk, pool>>
    BY DEF InitScalar, InitValue
<1>2. PICK N, f : Growing(N) /\ Layout(f)
    BY <1>1 DEF IInv
<1>3. StateTypes /\ UniqueKeys /\ TreeInv(N) /\ WalkInv(N, Len(blocks)) /\ stack # <<>>
    BY <1>1, <1>2 DEF IInv, Growing, TreeInv, AtCell
<1>4. Advanced
    BY <1>1, <1>3, Moves DEF StateTypes
<1>5. CellSet(Scalar) /\ Len(blocks') = Len(blocks)
    BY <1>1, <1>3, NewBlocks, SetFacts
<1>6. \E M : TreeInv(M)'
    BY <1>1, <1>3, <1>4, <1>5, ScalarTree
<1>7. \E h : Sums(h)'
    <2>1. KeepShape /\ Sums(f) /\ UNCHANGED totalSize
        BY <1>1, <1>2, <1>5 DEF CellSet, Layout
    <2> QED BY <2>1, <1>3, <1>5, SumsKept
<1>8. DOMAIN blocks' = DOMAIN blocks /\ blocks' \in Seq(Block)
    BY <1>3, <1>5, LenProperties DEF CellSet, KeepShape, StateTypes
<1>9. UniqueKeys'
    <2>1. Scalar.type = "scalar"
        BY DEF Scalar
    <2> QED BY <2>1, <1>1, <1>3, <1>5, <1>8, UniqueKept
<1>10. stray' = 0 /\ live' = DOMAIN blocks' /\ totalSize' \in Nat /\ stack' \in Seq(Frames)
    BY <1>1, <1>2, <1>3, <1>4, <1>8 DEF Growing, StateTypes, Advanced
<1> QED BY <1>1, <1>6, <1>7, <1>8, <1>9, <1>10, GrowingStep

\* A string is stored with its block.
LEMMA StepLeaf ==
    ASSUME IInv, pc = "init", AtCell, NEW l \in Nat, NEW text \in Texts,
           Store(Object("str", l, Len(blocks) + 1), StringBlock(l, text)),
           totalSize' = totalSize + ObjectAlign(l + 1), stack' = Advance,
           UNCHANGED <<pc, chunk, pool>>, stray' = 0,
           AtKey => text \notin KeysBefore
    PROVE  IInv'
<1>1. PICK object, block : /\ object = Object("str", l, Len(blocks) + 1)
                           /\ block = StringBlock(l, text)
    OBVIOUS
<1>2. PICK N, f : Growing(N) /\ Layout(f)
    BY DEF IInv
<1>3. /\ StateTypes /\ UniqueKeys /\ TreeInv(N) /\ WalkInv(N, Len(blocks)) /\ stack # <<>>
      /\ Len(blocks) \in Nat /\ DOMAIN blocks = 1..Len(blocks)
    BY <1>2, BlockFacts DEF IInv, Growing, TreeInv, AtCell
<1>4. Advanced
    BY <1>3, Moves DEF StateTypes
<1>5. /\ object \in Objects /\ object.type = "str" /\ object.l = l
      /\ object.to = Len(blocks) + 1
      /\ block \in Block /\ block.bytes = l + 1 /\ block.text = text /\ block.cells = <<>>
    <2>1. "str" \in Types /\ Len(blocks) + 1 \in Nat
        BY <1>3 DEF Types
    <2>2. /\ object \in Objects /\ object.type = "str" /\ object.l = l
          /\ object.to = Len(blocks) + 1
        BY SMTT(20), <2>1, <1>1, NewBlocks
    <2>3. /\ block \in Block /\ block.bytes = l + 1 /\ block.text = text
          /\ block.cells = <<>>
        BY <1>1, NewBlocks
    <2> QED BY <2>2, <2>3
<1>6. CellSet(object) /\ Extended(block)
    <2>1. blocks' = Append([blocks EXCEPT ![Top.block].cells[Top.next] = object], block)
        BY <1>1 DEF Store
    <2> QED BY <2>1, <1>3, <1>5, SetFacts
<1>7. \E M : TreeInv(M)'
    BY <1>3, <1>4, <1>5, <1>6, LeafTree
<1>8. KeepShape /\ Sums(f) /\ blocks' \in Seq(Block)
    BY <1>2, <1>6 DEF CellSet, KeepShape, Layout
<1>9. \E h : Sums(h)'
    BY <1>3, <1>5, <1>6, <1>8, SumsExtended
<1>10. UniqueKeys'
    <2>1. \A c \in DOMAIN blocks' : c \notin DOMAIN blocks =>
              \A j \in DOMAIN blocks'[c].cells : blocks'[c].cells[j] = Null
        <3>1. \A c \in DOMAIN blocks' : c \notin DOMAIN blocks => c = Len(blocks) + 1
            BY <1>3, <1>6 DEF Extended
        <3> QED BY <3>1, <1>5, <1>6 DEF Extended
    <2>2. blocks'[object.to].text = text
        BY <1>5, <1>6 DEF Extended
    <2> QED BY <2>1, <2>2, <1>3, <1>5, <1>6, UniqueKept
<1>11. live' = DOMAIN blocks' /\ totalSize' \in Nat /\ stack' \in Seq(Frames)
    <2>1. live' = DOMAIN blocks \cup {Len(blocks) + 1}
        BY <1>2 DEF Store, Growing
    <2>2. DOMAIN blocks' = 1..(Len(blocks) + 1)
        BY <1>6 DEF Extended
    <2>3. ObjectAlign(l + 1) \in Nat /\ totalSize \in Nat
        <3>1. l + 1 \in Nat
            OBVIOUS
        <3> QED BY <3>1, <1>3, AlignFacts DEF StateTypes
    <2> QED BY <2>1, <2>2, <2>3, <1>3, <1>4 DEF Advanced
<1> QED BY <1>7, <1>8, <1>9, <1>10, <1>11, GrowingStep

LEMMA StepString == IInv /\ InitString => IInv'
<1> SUFFICES ASSUME IInv, InitString PROVE IInv'
    OBVIOUS
<1>1. /\ pc = "init" /\ AtCell /\ ~AtKey /\ stack' = Advance
      /\ UNCHANGED <<pc, stray, chunk, pool>>
    BY DEF InitString, InitValue
<1>2. PICK l \in StrLengths :
          /\ Store(Object("str", l, Len(blocks) + 1), StringBlock(l, "value"))
          /\ totalSize' = totalSize + ObjectAlign(l + 1)
    BY DEF InitString
<1>3. stray' = 0
    BY <1>1 DEF IInv, StateTypes, Growing
<1>4. l \in Nat /\ "value" \in Texts
    BY LengthAssumption DEF Texts
<1> QED BY <1>1, <1>2, <1>3, <1>4, StepLeaf

\* A key that was found before is drawn again.
LEMMA WalkSame ==
    ASSUME UNCHANGED <<blocks, stack>>, NEW N, NEW n, WalkInv(N, n)
    PROVE  WalkInv(N, n)'
BY DEF WalkInv, Top

LEMMA TreeSame ==
    ASSUME UNCHANGED <<blocks, stack>>, NEW N, TreeInv(N)
    PROVE  TreeInv(N)'
<1>1. WalkInv(N, Len(blocks))'
    <2>1. WalkInv(N, Len(blocks))
        BY DEF TreeInv
    <2> QED BY <2>1 DEF WalkInv, Top
<1>2. Root' <=> Root
    BY DEF Root
<1>3. ASSUME NEW b \in DOMAIN blocks, NEW i \in DOMAIN blocks[b].cells
      PROVE  CellOK(N, b, i)'
    <2>1. CellOK(N, b, i)
        BY DEF TreeInv, InitTree
    <2>2. (Unset(b, i)' <=> Unset(b, i)) /\ (Open(b, i)' <=> Open(b, i))
        BY DEF Unset, Open
    <2>3. On(blocks[b].cells[i].to)' <=> On(blocks[b].cells[i].to)
        BY DEF On
    <2>4. Points(N, b, i)' <=> Points(N, b, i)
        BY DEF Points
    <2>5. Passes(N, b, i)' <=> Passes(N, b, i)
        BY DEF Passes
    <2> QED BY <2>1, <2>2, <2>3, <2>4, <2>5 DEF CellOK
<1>4. InitTree(N)'
    BY <1>2, <1>3 DEF TreeInv, InitTree
<1> QED BY <1>1, <1>4 DEF TreeInv

LEMMA StepVain ==
    ASSUME IInv, pc = "init", AtCell, AtKey, stray' = 1,
           UNCHANGED <<pc, blocks, live, totalSize, chunk, pool, stack>>
    PROVE  IInv'
<1>1. PICK N, f : Growing(N) /\ Layout(f)
    BY DEF IInv
<1>2. StateTypes' /\ UniqueKeys'
    BY UniqueSame DEF IInv, StateTypes
<1>3. Layout(f)'
    BY <1>1 DEF Layout, Sums
<1>4. AtCell' /\ AtKey'
    BY DEF AtCell, AtKey, OwnerType, Top
<1>5. TreeInv(N)'
    BY <1>1, TreeSame DEF Growing
<1>6. Growing(N)'
    BY <1>1, <1>4, <1>5 DEF Growing
<1> QED BY <1>2, <1>3, <1>6 DEF IInv

LEMMA StepKey == IInv /\ InitKey => IInv'
<1> SUFFICES ASSUME IInv, InitKey PROVE IInv'
    OBVIOUS
<1>1. pc = "init" /\ AtCell /\ AtKey /\ UNCHANGED <<pc, chunk, pool>>
    BY DEF InitKey
<1>2. PICK key \in Keys :
          IF key \in KeysBefore
          THEN /\ stray' = 1
               /\ UNCHANGED <<blocks, live, totalSize, stack>>
          ELSE /\ Store(Object("str", KeyLength[key], Len(blocks) + 1),
                        StringBlock(KeyLength[key], key))
               /\ stray' = 0
               /\ totalSize' = totalSize + ObjectAlign(KeyLength[key] + 1)
               /\ stack' = Advance
    BY DEF InitKey
<1>3. CASE key \in KeysBefore
    BY <1>1, <1>2, <1>3, StepVain
<1>4. CASE key \notin KeysBefore
    <2>1. KeyLength[key] \in Nat /\ key \in Texts
        BY LengthAssumption DEF Texts
    <2> QED BY <1>1, <1>2, <1>4, <2>1, StepLeaf
<1> QED BY <1>3, <1>4

LEMMA LengthsNat ==
    ASSUME NEW type, NEW l \in Lengths(type), Len(stack) \in Nat \ {0}
    PROVE  l \in Nat
<1>1. PICK e : e = IF Size > Depth THEN Size - Depth ELSE 0
    OBVIOUS
<1>2. Depth \in Nat /\ Size \in Nat
    BY LengthAssumption DEF Depth
<1>3. e \in Nat
    BY <1>1, <1>2
<1>4. 2^e \in Int
    BY <1>3
<1>5. PICK d : d = 2^e
    OBVIOUS
<1>6. PICK len : len = LengthBase * d
    OBVIOUS
<1>7. len \in Int
    BY <1>4, <1>5, <1>6, LengthAssumption
<1>8. Lengths(type) = IF type = "map" THEN {n \div 2 : n \in len..(2 * len - 1)}
                                      ELSE len..(2 * len - 1)
    BY <1>1, <1>5, <1>6 DEF Lengths
<1>9. \A n \in len..(2 * len - 1) : n \in Nat /\ n \div 2 \in Nat
    BY <1>7
<1> QED BY <1>8, <1>9

LEMMA StepContainer == IInv /\ InitContainer => IInv'
<1> SUFFICES ASSUME IInv, InitContainer PROVE IInv'
    OBVIOUS
<1>1. pc = "init" /\ AtCell /\ ~AtKey /\ UNCHANGED <<pc, stray, chunk, pool>>
    BY DEF InitContainer, InitValue
<1>20. PICK type \in Containers : \E l \in Lengths(type) : \E n :
          /\ n = IF type = "map" THEN 2 * l ELSE l
          /\ Store(Object(type, l, Len(blocks) + 1), ObjectBlock(n))
          /\ totalSize' = totalSize + ObjectAlign(n * SizeofObject)
          /\ stack' = Descend(Len(blocks) + 1)
    BY DEF InitContainer
<1>21. PICK l \in Lengths(type) : \E n :
          /\ n = IF type = "map" THEN 2 * l ELSE l
          /\ Store(Object(type, l, Len(blocks) + 1), ObjectBlock(n))
          /\ totalSize' = totalSize + ObjectAlign(n * SizeofObject)
          /\ stack' = Descend(Len(blocks) + 1)
    BY <1>20
<1>2. PICK n :
          /\ n = IF type = "map" THEN 2 * l ELSE l
          /\ Store(Object(type, l, Len(blocks) + 1), ObjectBlock(n))
          /\ totalSize' = totalSize + ObjectAlign(n * SizeofObject)
          /\ stack' = Descend(Len(blocks) + 1)
    BY <1>21
<1>3. PICK L, object, block : /\ L = Len(blocks)
                              /\ object = Object(type, l, L + 1) /\ block = ObjectBlock(n)
    OBVIOUS
<1>4. PICK N, f : Growing(N) /\ Layout(f)
    BY <1>1 DEF IInv
<1>5. /\ StateTypes /\ UniqueKeys /\ TreeInv(N) /\ WalkInv(N, L) /\ stack # <<>>
      /\ WalkInv(N, Len(blocks)) /\ L \in Nat /\ DOMAIN blocks = 1..L
    BY <1>1, <1>3, <1>4, BlockFacts DEF IInv, Growing, TreeInv, AtCell
<1>6. l \in Nat /\ n \in Nat
    <2>1. Len(stack) \in Nat \ {0}
        BY <1>5, TopFacts
    <2>2. l \in Nat
        BY <2>1, LengthsNat
    <2> QED BY <1>2, <2>2
<1>7. /\ object \in Objects /\ object.type = type /\ object.l = l /\ object.to = L + 1
      /\ type # "str" /\ type \in Containers
    <2>1. type \in Types /\ type # "str" /\ L + 1 \in Nat
        BY <1>5 DEF Types, Containers
    <2> QED BY <2>1, <1>3, <1>6, NewBlocks
<1>8. /\ block \in Block /\ block.text = "none" /\ block.bytes = n * SizeofObject
      /\ Len(block.cells) = n /\ DOMAIN block.cells = 1..n
      /\ \A j \in 1..n : block.cells[j] = Null
    BY <1>3, <1>6, NewBlocks
<1>9. CellSet(object) /\ Extended(block)
    <2>1. blocks' = Append([blocks EXCEPT ![Top.block].cells[Top.next] = object], block)
        BY <1>2, <1>3 DEF Store
    <2> QED BY <2>1, <1>1, <1>5, <1>7, <1>8, SetFacts
<1>10. Entered(L + 1)
    <2>1. Frame(L + 1) \in Frames /\ Frame(L + 1).next = 1 /\ Frame(L + 1).block = L + 1
        BY <1>5 DEF Frame, Frames, CopyFrames
    <2>2. stack' = Advance \o <<Frame(L + 1)>>
        BY <1>2, <1>3 DEF Descend
    <2>3. Entered(Frame(L + 1).block)
        BY <2>1, <2>2, <1>5, Moves DEF StateTypes
    <2> QED BY <2>1, <2>3
<1>11. \E M : TreeInv(M)'
    <2>1. Entered(Len(blocks) + 1) /\ object.to = Len(blocks) + 1
        BY <1>3, <1>7, <1>10
    <2>2. \A j \in DOMAIN block.cells : j \in Nat \ {0} /\ block.cells[j] = Null
        BY <1>6, <1>8
    <2>3. Len(block.cells) = IF object.type = "map" THEN 2 * object.l ELSE object.l
        BY <1>2, <1>7, <1>8
    <2>4. object.type \in Containers /\ block.bytes = Len(block.cells) * SizeofObject
        BY <1>7, <1>8
    <2> QED BY <1>1, <1>5, <1>8, <1>9, <2>1, <2>2, <2>3, <2>4, ContainerTree
<1>12. KeepShape /\ Sums(f) /\ blocks' \in Seq(Block) /\ DOMAIN blocks' = 1..(L + 1)
    BY <1>3, <1>4, <1>9 DEF CellSet, KeepShape, Layout, Extended
<1>13. \E h : Sums(h)'
    <2>1. totalSize' = totalSize + ObjectAlign(block.bytes)
        BY <1>2, <1>8
    <2> QED BY <1>5, <1>8, <1>9, <1>12, <2>1, SumsExtended
<1>14. UniqueKeys'
    <2>1. \A c \in DOMAIN blocks' : c \notin DOMAIN blocks =>
              \A j \in DOMAIN blocks'[c].cells : blocks'[c].cells[j] = Null
        <3>1. \A c \in DOMAIN blocks' : c \notin DOMAIN blocks => c = L + 1
            BY <1>5, <1>12
        <3>2. blocks'[L + 1] = block
            BY <1>3, <1>9 DEF Extended
        <3> QED BY <3>1, <3>2, <1>8
    <2>2. object.to \in DOMAIN blocks' /\ object.to \notin DOMAIN blocks
        BY <1>5, <1>7, <1>12
    <2> QED BY <1>1, <1>5, <1>7, <1>9, <2>1, <2>2, UniqueKept
<1>15. stray' = 0 /\ live' = DOMAIN blocks' /\ totalSize' \in Nat /\ stack' \in Seq(Frames)
    <2>1. live' = DOMAIN blocks \cup {L + 1}
        BY <1>2, <1>3, <1>4 DEF Store, Growing
    <2>2. n * SizeofObject \in Nat
        BY <1>6, LayoutAssumption
    <2>3. ObjectAlign(n * SizeofObject) \in Nat /\ totalSize \in Nat
        BY <1>5, <2>2, AlignFacts DEF StateTypes
    <2>4. stray' = 0
        BY <1>1, <1>4, <1>5 DEF StateTypes, Growing
    <2>5. live' = DOMAIN blocks' /\ totalSize' \in Nat
        BY <1>2, <1>5, <1>12, <2>1, <2>3
    <2>6. stack' \in Seq(Frames)
        BY <1>10 DEF Entered
    <2> QED BY <2>4, <2>5, <2>6
<1> QED BY <1>1, <1>11, <1>12, <1>13, <1>14, <1>15, GrowingStep

LEMMA StepInitReturn == IInv /\ InitReturn => IInv'
<1> SUFFICES ASSUME IInv, InitReturn PROVE IInv'
    OBVIOUS
<1>1. /\ pc = "init" /\ AtReturn /\ stack' = Below
      /\ UNCHANGED <<pc, blocks, live, stray, totalSize, chunk, pool>>
    BY DEF InitReturn
<1>2. PICK N, f : Growing(N) /\ Layout(f)
    BY <1>1 DEF IInv
<1>3. StateTypes /\ UniqueKeys /\ TreeInv(N) /\ stack # <<>> /\ WalkInv(N, Len(blocks))
    BY <1>1, <1>2 DEF IInv, Growing, TreeInv, AtReturn
<1>4. Returned
    BY <1>1, <1>3, Moves DEF StateTypes
<1>5. \E M : TreeInv(M)'
    BY <1>1, <1>3, <1>4, ReturnTree
<1>6. UniqueKeys'
    BY <1>1, <1>3, UniqueSame
<1>7. Sums(f)'
    BY <1>1, <1>2 DEF Layout, Sums
<1>8. ~AtCell
    BY <1>1, <1>3, TopFacts DEF AtCell
<1>9. /\ blocks' \in Seq(Block) /\ totalSize' \in Nat /\ stray' = 0
      /\ live' = DOMAIN blocks' /\ stack' \in Seq(Frames)
    BY <1>1, <1>2, <1>3, <1>4, <1>8 DEF StateTypes, Growing, Returned
<1> QED BY <1>1, <1>5, <1>6, <1>7, <1>9, GrowingStep

-----------------------------------------------------------------------------
(* Walking the whole tree, which stays as it is.                           *)

LEMMA WholeSame ==
    ASSUME NEW N, Whole(N), UNCHANGED blocks
    PROVE  Whole(N)'
<1>1. Root' <=> Root
    BY DEF Root
<1>2. \A b \in DOMAIN blocks : \A i \in DOMAIN blocks[b].cells :
          Points(N, b, i)' /\ Passes(N, b, i)'
    <2> SUFFICES ASSUME NEW b \in DOMAIN blocks, NEW i \in DOMAIN blocks[b].cells
                 PROVE  Points(N, b, i)' /\ Passes(N, b, i)'
        OBVIOUS
    <2>1. Points(N, b, i)'
        BY DEF Whole, Points
    <2>2. Passes(N, b, i)'
        BY DEF Whole, Passes
    <2> QED BY <2>1, <2>2
<1> QED BY <1>1, <1>2 DEF Whole

\* What the cell under the walk says about the blocks behind it.
LEMMA WholeCell ==
    ASSUME StateTypes, NEW N, NEW n, Whole(N), WalkInv(N, n), AtCell
    PROVE  /\ n \in Nat /\ n = N[Top.block][Top.next] /\ Cell \in Objects /\ Cell.type \in Types
           /\ Cell.type = "scalar" => N[Top.block][Top.next + 1] = n
           /\ Cell.type # "scalar" =>
                  Cell.to = n + 1 /\ n + 1 \in DOMAIN blocks /\ N[n + 1][1] = n + 1
           /\ Cell.type = "str" =>
                  N[Top.block][Top.next + 1] = n + 1 /\ blocks[n + 1].bytes = Cell.l + 1
           /\ Cell.type \in Containers =>
                  /\ Len(blocks[n + 1].cells) = IF Cell.type = "map" THEN 2 * Cell.l
                                                                     ELSE Cell.l
                  /\ blocks[n + 1].bytes = Len(blocks[n + 1].cells) * SizeofObject
                  /\ blocks[n + 1].text = "none"
<1>1. PICK b, i : b = Top.block /\ i = Top.next
    OBVIOUS
<1>2. /\ b \in DOMAIN blocks /\ i \in DOMAIN blocks[b].cells /\ n \in Nat /\ n = N[b][i]
      /\ Cell = blocks[b].cells[i]
    BY <1>1, CellFacts DEF Cell
<1>3. Cell.type # "null" /\ Points(N, b, i) /\ Passes(N, b, i)
    BY <1>2 DEF Whole
<1>4. Cell \in Objects /\ Cell.type \in Types
    BY <1>2, <1>3, BlockFacts
<1>5. Cell.type = "scalar" => N[b][i + 1] = n
    BY <1>2, <1>3 DEF Passes
<1>6. Cell.type # "scalar" => Cell.to = n + 1 /\ n + 1 \in DOMAIN blocks
    BY <1>2, <1>3 DEF Points
<1>7. n + 1 \in DOMAIN blocks => N[n + 1][1] = n + 1
    BY DEF Whole
<1>8. Cell.type = "str" => N[b][i + 1] = n + 1 /\ blocks[n + 1].bytes = Cell.l + 1
    BY <1>2, <1>3, <1>6 DEF Points, Passes
<1>9. Cell.type \in Containers =>
          /\ Len(blocks[n + 1].cells) = IF Cell.type = "map" THEN 2 * Cell.l ELSE Cell.l
          /\ blocks[n + 1].bytes = Len(blocks[n + 1].cells) * SizeofObject
          /\ blocks[n + 1].text = "none"
    <2> SUFFICES ASSUME Cell.type \in Containers
                 PROVE  /\ Len(blocks[n + 1].cells) =
                               IF Cell.type = "map" THEN 2 * Cell.l ELSE Cell.l
                        /\ blocks[n + 1].bytes = Len(blocks[n + 1].cells) * SizeofObject
                        /\ blocks[n + 1].text = "none"
        OBVIOUS
    <2>1. Cell.type # "scalar"
        BY DEF Containers
    <2> QED BY <2>1, <1>2, <1>3, <1>6 DEF Points
<1> QED BY <1>1, <1>2, <1>4, <1>5, <1>6, <1>7, <1>8, <1>9

LEMMA WholeKeeps ==
    ASSUME StateTypes, UNCHANGED blocks
    PROVE  KeepCells
BY DEF KeepCells, StateTypes

LEMMA WholeAdvance ==
    ASSUME StateTypes, NEW N, NEW n, Whole(N), WalkInv(N, n), AtCell, Advanced, UNCHANGED blocks
    PROVE  /\ Cell.type = "scalar" => WalkInv(N, n)'
           /\ Cell.type = "str" => WalkInv(N, n + 1)'
<1>1. PICK b, i : b = Top.block /\ i = Top.next
    OBVIOUS
<1>2. KeepCells
    BY WholeKeeps
<1>3. ASSUME Cell.type = "scalar" PROVE WalkInv(N, n)'
    <2>1. n \in Nat /\ n >= n /\ n = N[b][i + 1]
        BY <1>1, <1>3, WholeCell
    <2> QED BY <1>1, <1>2, <2>1, WalkAdvance
<1>4. ASSUME Cell.type = "str" PROVE WalkInv(N, n + 1)'
    <2>1. n \in Nat /\ n + 1 \in Nat /\ n + 1 >= n /\ n + 1 = N[b][i + 1]
        <3>1. n \in Nat /\ n + 1 = N[b][i + 1]
            BY <1>1, <1>4, WholeCell
        <3> QED BY <3>1
    <2> QED BY <1>1, <1>2, <2>1, WalkAdvance
<1> QED BY <1>3, <1>4

LEMMA WholeEnter ==
    ASSUME StateTypes, NEW N, NEW n, Whole(N), WalkInv(N, n), AtCell,
           Cell.type \in Containers, Entered(Cell.to), UNCHANGED blocks
    PROVE  WalkInv(N, n + 1)'
<1>1. KeepCells
    BY WholeKeeps
<1>2. /\ n \in Nat /\ Cell.to = n + 1 /\ n + 1 \in DOMAIN blocks /\ N[n + 1][1] = n + 1
    <2>1. Cell.type # "scalar"
        BY DEF Containers
    <2> QED BY <2>1, WholeCell
<1>3. PICK e : e = n + 1
    OBVIOUS
<1>4. Entered(e) /\ e \in DOMAIN blocks' /\ e > n /\ e \in Nat /\ e >= e /\ e = N[e][1]
    BY <1>2, <1>3
<1>5. /\ blocks'[Top.block].cells[Top.next].type \in Containers
      /\ blocks'[Top.block].cells[Top.next].to = e
    BY <1>2, <1>3 DEF Cell
<1>6. WalkInv(N, e)'
    BY <1>1, <1>4, <1>5, WalkEnter
<1> QED BY <1>3, <1>6

LEMMA WholeReturn ==
    ASSUME StateTypes, NEW N, NEW n, Whole(N), WalkInv(N, n), AtReturn, Returned,
           UNCHANGED blocks
    PROVE  WalkInv(N, n)'
<1>0. stack # <<>>
    BY DEF AtReturn
<1>1. PICK b, k : b = Top.block /\ k = Len(stack)
    OBVIOUS
<1>2. /\ k \in Nat \ {0} /\ stack[k] = Top /\ b \in DOMAIN blocks
      /\ Top.next = Len(blocks[b].cells) + 1
    BY <1>0, <1>1, TopFacts
<1>3. n = N[b][Len(blocks[b].cells) + 1]
    BY <1>0, <1>1, <1>2 DEF WalkInv
<1>4. CASE k = 1
    <2>1. stack[1].block = 1 /\ Len(blocks[1].cells) = 1
        BY <1>0 DEF WalkInv, Whole, Root
    <2>2. b = 1
        BY <1>1, <1>2, <1>4, <2>1
    <2>3. n = N[1][2]
        <3>0. Len(blocks[b].cells) = 1
            BY <2>1, <2>2, Zenon
        <3>1. Len(blocks[b].cells) + 1 = 2
            BY <3>0
        <3> QED BY <1>3, <2>2, <3>1
    <2> QED BY <1>0, <1>1, <1>4, <2>3, WalkReturn
<1>5. CASE k > 1
    <2>0. PICK c, i : c = stack[k - 1].block /\ i = stack[k - 1].next - 1
        OBVIOUS
    <2>1. /\ c \in DOMAIN blocks /\ i \in DOMAIN blocks[c].cells
          /\ blocks[c].cells[i].type \in Containers
          /\ blocks[c].cells[i].to = b /\ stack[k - 1].next = i + 1
        <3>1. k - 1 \in 1..(Len(stack) - 1) /\ k - 1 \in 1..Len(stack) /\ k - 1 + 1 = k
            BY <1>1, <1>2, <1>5
        <3>2. /\ c \in DOMAIN blocks /\ i \in DOMAIN blocks[c].cells
              /\ blocks[c].cells[i].type \in Containers
              /\ blocks[c].cells[i].to = stack[k - 1 + 1].block
            BY <2>0, <3>1, WalkFrames
        <3>3. stack[k - 1].next \in Nat
            BY <3>1, BlockFacts
        <3> QED BY <1>1, <1>2, <2>0, <3>1, <3>2, <3>3
    <2>2. n = N[c][i + 1]
        <3>1. Passes(N, c, i)
            BY <2>1 DEF Whole
        <3> QED BY <1>3, <2>1, <3>1 DEF Passes
    <2>3. n = N[stack[Len(stack) - 1].block][stack[Len(stack) - 1].next]
        BY <1>1, <2>0, <2>1, <2>2
    <2>4. Len(stack) # 1
        BY <1>1, <1>2, <1>5
    <2> QED BY <1>0, <2>3, <2>4, WalkReturn
<1> QED BY <1>2, <1>4, <1>5

-----------------------------------------------------------------------------
(* object_copy.                                                            *)

LEMMA StepAllocate == IInv /\ AllocatePool => IInv'
<1> SUFFICES ASSUME IInv, AllocatePool PROVE IInv'
    OBVIOUS
<1>1. /\ pc = "init" /\ stack = <<>> /\ pc' = "copy" /\ stack' = <<CopyFrame(1, 1)>>
      /\ chunk' = <<Place(ObjectBlock(1))>> /\ pool' = ObjectAlign(SizeofObject)
      /\ UNCHANGED <<blocks, live, stray, totalSize>>
    BY DEF AllocatePool
<1>2. PICK N, f : Growing(N) /\ Layout(f)
    BY <1>1 DEF IInv
<1>3. /\ StateTypes /\ UniqueKeys /\ InitTree(N) /\ WalkInv(N, Len(blocks))
      /\ DOMAIN blocks = 1..Len(blocks) /\ Len(blocks) \in Nat
    BY <1>1, <1>2, BlockFacts DEF IInv, Growing, TreeInv
<1>4. \A b, i : ~Unset(b, i) /\ ~Open(b, i)
    <2>1. DOMAIN stack = {} /\ Len(stack) = 0
        BY <1>1
    <2>2. 1..(0 - 1) = {}
        OBVIOUS
    <2> QED BY <2>1, <2>2 DEF Unset, Open
<1>5. Whole(N)
    BY <1>1, <1>3, <1>4 DEF Whole, InitTree, CellOK, WalkInv
<1>6. Whole(N)'
    BY <1>1, <1>5, WholeSame
<1>7. PICK new : new = ObjectBlock(1)
    OBVIOUS
<1>8. /\ new \in Block /\ new.text = "none" /\ new.bytes = SizeofObject
      /\ Len(new.cells) = 1 /\ DOMAIN new.cells = {1} /\ new.cells[1] = Null
    BY <1>7, RootBlock
<1>9. pool = 0 /\ f[0] = 0 /\ chunk = <<>>
    BY <1>2 DEF Growing, Layout, Sums
<1>10. /\ chunk' \in Seq(Placed) /\ Len(chunk') = 1 /\ DOMAIN chunk' = {1}
       /\ chunk'[1].off = 0 /\ chunk'[1].block = new /\ chunk' # <<>>
    <2>1. Place(new) \in Placed /\ Place(new).off = 0 /\ Place(new).block = new
        BY <1>8, <1>9 DEF Place, Placed
    <2> QED BY <2>1, <1>1, <1>7
<1>11. /\ stack' \in Seq(Frames) /\ Len(stack') = 1 /\ DOMAIN stack' = {1} /\ stack' # <<>>
       /\ stack'[1] \in CopyFrames
       /\ stack'[1].block = 1 /\ stack'[1].next = 1 /\ stack'[1].to = 1 /\ Top' = stack'[1]
    <2>1. /\ CopyFrame(1, 1) \in Frames /\ CopyFrame(1, 1) \in CopyFrames /\ CopyFrame(1, 1).block = 1
          /\ CopyFrame(1, 1).next = 1 /\ CopyFrame(1, 1).to = 1
        BY DEF CopyFrame, Frames, CopyFrames
    <2> QED BY <2>1, <1>1 DEF Top
<1>12. /\ 1 \in DOMAIN blocks /\ Len(blocks[1].cells) = 1 /\ blocks[1].bytes = SizeofObject
       /\ blocks[1].text = "none" /\ N[1][1] = 1 /\ DOMAIN blocks[1].cells = {1}
    <2>1. /\ 1 \in DOMAIN blocks /\ Len(blocks[1].cells) = 1
          /\ blocks[1].bytes = SizeofObject /\ blocks[1].text = "none" /\ N[1][1] = 1
        BY <1>5 DEF Whole, Root
    <2>2. DOMAIN blocks[1].cells = 1..1
        BY <1>3, <2>1, BlockFacts
    <2> QED BY <2>1, <2>2
<1>13. WalkInv(N, 1)'
    BY <1>1, <1>11, <1>12 DEF WalkInv
<1>14. PlaceOK(1)'
    <2>1. Unset(1, 1)'
        BY <1>11 DEF Unset
    <2> QED BY <2>1, <1>1, <1>8, <1>10, <1>12 DEF PlaceOK
<1>15. Copying(N)'
    <2>1. live = DOMAIN blocks /\ stray = 0
        BY <1>1, <1>2, <1>3 DEF Growing, AtCell, StateTypes
    <2> QED BY <1>1, <1>6, <1>10, <1>11, <1>13, <1>14, <2>1 DEF Copying
<1>16. ObjectAlign(SizeofObject) \in Nat
    BY AlignFacts, LayoutAssumption
<1>17. Layout(f)'
    <2>1. Sums(f) /\ Sums(f)'
        BY <1>1, <1>2 DEF Layout, Sums
    <2>2. f[1] = f[1 - 1] + ObjectAlign(SizeofObject)
        BY <2>1, <1>12 DEF Sums
    <2>3. f[1] = pool'
        BY <2>2, <1>1, <1>9, <1>16
    <2>4. 1 <= Len(blocks')
        BY <1>1, <1>3, <1>12
    <2>5. f[1 - 1] = 0
        BY <1>9
    <2> QED BY <2>1, <2>3, <2>4, <2>5, <1>1, <1>8, <1>10, <1>12 DEF Layout
<1>18. StateTypes'
    BY <1>1, <1>3, <1>10, <1>11, <1>12, <1>16 DEF StateTypes
<1>19. UniqueKeys'
    BY <1>1, <1>3, UniqueSame
<1> QED BY <1>1, <1>15, <1>17, <1>18, <1>19 DEF IInv

\* Setting the cell of the copy.
CellCopied(object) ==
    /\ \A p \in DOMAIN chunk :
          /\ chunk'[p].off = chunk[p].off
          /\ chunk'[p].block.bytes = chunk[p].block.bytes
          /\ chunk'[p].block.text = chunk[p].block.text
          /\ Len(chunk'[p].block.cells) = Len(chunk[p].block.cells)
          /\ \A i \in DOMAIN chunk[p].block.cells :
                chunk'[p].block.cells[i] =
                    IF p = Top.to /\ i = Top.next THEN object ELSE chunk[p].block.cells[i]

LEMMA CopyFacts ==
    ASSUME chunk \in Seq(Placed), Top.to \in DOMAIN chunk,
           Top.next \in DOMAIN chunk[Top.to].block.cells, NEW object \in Objects
    PROVE  /\ chunk' = [chunk EXCEPT ![Top.to].block.cells[Top.next] = object] =>
                CellCopied(object) /\ chunk' \in Seq(Placed) /\ Len(chunk') = Len(chunk)
           /\ \A place \in Placed :
                 CopyTo(object, place) =>
                     /\ CellCopied(object) /\ chunk' \in Seq(Placed)
                     /\ Len(chunk') = Len(chunk) + 1 /\ chunk'[Len(chunk) + 1] = place
<1> DEFINE b == Top.to
           i == Top.next
           t == [chunk EXCEPT ![b].block.cells[i] = object]
           cells == [chunk[b].block.cells EXCEPT ![i] = object]
           block == [chunk[b].block EXCEPT !.cells = cells]
           new == [chunk[b] EXCEPT !.block = block]
<1>0. DOMAIN chunk = 1..Len(chunk) /\ Len(chunk) \in Nat /\ b \in 1..Len(chunk)
    BY LenProperties
<1>1. \A p \in DOMAIN chunk :
          /\ chunk[p] \in Placed /\ chunk[p].block \in Block
          /\ chunk[p].block.cells \in Seq(Objects)
          /\ DOMAIN chunk[p].block.cells = 1..Len(chunk[p].block.cells)
    <2>1. \A p \in DOMAIN chunk :
              /\ chunk[p] \in Placed /\ chunk[p].block \in Block
              /\ chunk[p].block.cells \in Seq(Objects)
        <3>1. \A p \in DOMAIN chunk : chunk[p] \in Placed
            BY <1>0, ElementOfSeq
        <3> QED BY <3>1 DEF Placed, Block
    <2> QED BY <2>1, LenProperties
<1>2. /\ cells \in Seq(Objects) /\ Len(cells) = Len(chunk[b].block.cells)
      /\ \A j \in 1..Len(chunk[b].block.cells) :
            cells[j] = IF j = i THEN object ELSE chunk[b].block.cells[j]
    <2> HIDE DEF b, i
    <2>1. chunk[b].block.cells \in Seq(Objects) /\ i \in 1..Len(chunk[b].block.cells)
        BY <1>1 DEF b, i
    <2> QED BY <2>1, ExceptSeq
<1>3. t = [chunk EXCEPT ![b] = new]
    OBVIOUS
<1> HIDE DEF cells
<1>4. /\ block \in Block /\ block.bytes = chunk[b].block.bytes
      /\ block.text = chunk[b].block.text /\ block.cells = cells
    BY <1>1, <1>2 DEF Block
<1> HIDE DEF block
<1>5. new \in Placed /\ new.off = chunk[b].off /\ new.block = block
    BY <1>1, <1>4 DEF Placed
<1> HIDE DEF new, t
<1>6. /\ t \in Seq(Placed) /\ Len(t) = Len(chunk)
      /\ \A p \in 1..Len(chunk) : t[p] = IF p = b THEN new ELSE chunk[p]
    BY <1>0, <1>3, <1>5, ExceptSeq
<1>7. ASSUME \A p \in 1..Len(chunk) : chunk'[p] = t[p]
      PROVE  CellCopied(object)
    <2>1. \A p \in DOMAIN chunk : chunk'[p] = IF p = b THEN new ELSE chunk[p]
        BY <1>0, <1>6, <1>7
    <2>2. ASSUME NEW p \in DOMAIN chunk, p = b
          PROVE  /\ chunk'[p].off = chunk[p].off
                 /\ chunk'[p].block.bytes = chunk[p].block.bytes
                 /\ chunk'[p].block.text = chunk[p].block.text
                 /\ Len(chunk'[p].block.cells) = Len(chunk[p].block.cells)
                 /\ \A j \in DOMAIN chunk[p].block.cells :
                       chunk'[p].block.cells[j] =
                           IF j = i THEN object ELSE chunk[p].block.cells[j]
        BY <2>1, <2>2, <1>1, <1>2, <1>4, <1>5
    <2>3. \A p \in DOMAIN chunk : p # b => chunk'[p] = chunk[p]
        BY <2>1
    <2> HIDE DEF b, i
    <2>4. CellCopied(object)
        BY <2>2, <2>3 DEF CellCopied, b, i
    <2> QED BY <2>4
<1>8. ASSUME chunk' = t
      PROVE  CellCopied(object) /\ chunk' \in Seq(Placed) /\ Len(chunk') = Len(chunk)
    BY <1>6, <1>7, <1>8
<1>9. ASSUME NEW place \in Placed, chunk' = Append(t, place)
      PROVE  /\ CellCopied(object) /\ chunk' \in Seq(Placed)
             /\ Len(chunk') = Len(chunk) + 1 /\ chunk'[Len(chunk) + 1] = place
    <2>1. /\ Append(t, place) \in Seq(Placed) /\ Len(Append(t, place)) = Len(t) + 1
          /\ \A k \in 1..Len(t) : Append(t, place)[k] = t[k]
          /\ Append(t, place)[Len(t) + 1] = place
        BY <1>6, AppendProperties
    <2> QED BY <1>6, <1>7, <1>9, <2>1
<1> QED BY <1>8, <1>9 DEF t, CopyTo

\* A frame of this walk is copied to the place of the same number.
InPlace == \A g \in DOMAIN stack : stack[g] \in CopyFrames /\ stack[g].to = stack[g].block

LEMMA CopyMoves ==
    ASSUME stack \in Seq(Frames), stack # <<>>, InPlace
    PROVE  /\ stack' = Advance => InPlace'
           /\ \A e \in Nat : stack' = Advance \o <<CopyFrame(e, e)>> => Entered(e) /\ InPlace'
           /\ stack' = Below => InPlace'
<1>0. PICK k : k = Len(stack)
    OBVIOUS
<1>1. /\ k \in Nat \ {0} /\ DOMAIN stack = 1..k /\ Top = stack[k]
      /\ Advance \in Seq(Frames) /\ Len(Advance) = k /\ DOMAIN Advance = 1..k
      /\ \A g \in 1..(k - 1) : Advance[g] = stack[g]
      /\ Advance[k].block = Top.block
      /\ Top \in CopyFrames => Advance[k] \in CopyFrames /\ Advance[k].to = Top.to
      /\ Below \in Seq(Frames) /\ Len(Below) = k - 1 /\ DOMAIN Below = 1..(k - 1)
      /\ \A g \in 1..(k - 1) : Below[g] = stack[g]
    BY <1>0, StackFacts, LenProperties DEF Top
<1>2. \A g \in 1..k : stack[g] \in CopyFrames /\ stack[g].to = stack[g].block
    BY <1>1 DEF InPlace
<1>3. \A g \in 1..k : Advance[g] \in CopyFrames /\ Advance[g].to = Advance[g].block
    <2>1. \A g \in 1..(k - 1) : g \in 1..k
        BY <1>1
    <2>2. k \in 1..k /\ \A g \in 1..k : g = k \/ g \in 1..(k - 1)
        BY <1>1
    <2> QED BY <2>1, <2>2, <1>1, <1>2
<1>4. stack' = Advance => InPlace'
    BY <1>1, <1>3 DEF InPlace
<1>5. stack' = Below => InPlace'
    <2>1. \A g \in 1..(k - 1) : g \in 1..k
        BY <1>1
    <2> QED BY <2>1, <1>1, <1>2 DEF InPlace
<1>6. ASSUME NEW e \in Nat, stack' = Advance \o <<CopyFrame(e, e)>>
      PROVE  Entered(e) /\ InPlace'
    <2>1. PICK f, adv : f = CopyFrame(e, e) /\ adv = Advance
        OBVIOUS
    <2>2. f \in CopyFrames /\ f \in Frames /\ f.block = e /\ f.next = 1 /\ f.to = e
        BY <2>1 DEF CopyFrame, Frames, CopyFrames
    <2>3. Entered(f.block)
        BY <1>6, <2>1, <2>2, Moves
    <2>4. /\ adv \o <<f>> \in Seq(Frames) /\ Len(adv \o <<f>>) = k + 1
          /\ \A g \in 1..k : (adv \o <<f>>)[g] = adv[g]
          /\ (adv \o <<f>>)[k + 1] = f
        <3>1. adv \in Seq(Frames) /\ Len(adv) = k
            BY <1>1, <2>1
        <3> QED BY <3>1, <2>2, Pushed
    <2>5. stack' = adv \o <<f>> /\ DOMAIN stack' = 1..(k + 1)
        BY <1>1, <1>6, <2>1, <2>4, LenProperties
    <2>6. \A g \in 1..(k + 1) : g \in 1..k \/ g = k + 1
        BY <1>1
    <2>7. InPlace'
        BY <1>3, <2>1, <2>2, <2>4, <2>5, <2>6 DEF InPlace
    <2> QED BY <2>2, <2>3, <2>7
<1> QED BY <1>4, <1>5, <1>6

LEMMA CopyContext ==
    ASSUME IInv, pc = "copy", AtCell, NEW N, NEW f, Copying(N), Layout(f)
    PROVE  /\ StateTypes /\ Whole(N) /\ WalkInv(N, Len(chunk)) /\ InPlace
           /\ chunk \in Seq(Placed) /\ DOMAIN chunk = 1..Len(chunk) /\ Len(chunk) \in Nat
           /\ DOMAIN blocks = 1..Len(blocks) /\ Len(blocks) \in Nat
           /\ Len(chunk) <= Len(blocks)
           /\ Top.block \in DOMAIN blocks /\ Top.next \in DOMAIN blocks[Top.block].cells
           /\ Top.to = Top.block /\ Top.to \in DOMAIN chunk
           /\ Top.next \in DOMAIN chunk[Top.to].block.cells
           /\ \A p \in DOMAIN chunk :
                 DOMAIN chunk[p].block.cells = DOMAIN blocks[p].cells
<1>1. /\ StateTypes /\ Whole(N) /\ WalkInv(N, Len(chunk)) /\ InPlace /\ stack # <<>>
      /\ chunk \in Seq(Placed) /\ \A p \in DOMAIN chunk : PlaceOK(p)
    BY DEF IInv, Copying, InPlace, StateTypes, AtCell
<1>2. /\ DOMAIN chunk = 1..Len(chunk) /\ Len(chunk) \in Nat /\ Len(chunk) <= Len(blocks)
      /\ DOMAIN blocks = 1..Len(blocks) /\ Len(blocks) \in Nat
    BY <1>1, BlockFacts DEF Layout
<1>3. /\ Top.block \in DOMAIN blocks /\ Top.next \in DOMAIN blocks[Top.block].cells
      /\ Top.block \in Nat /\ Top.block <= Len(chunk)
      /\ Top = stack[Len(stack)] /\ Len(stack) \in DOMAIN stack
    <2>1. Top.block <= Len(chunk) /\ Top = stack[Len(stack)] /\ Len(stack) \in DOMAIN stack
        BY <1>1, TopFacts
    <2> QED BY <1>1, <2>1, CellFacts
<1>4. Top.to = Top.block
    BY <1>1, <1>3 DEF InPlace
<1>5. Top.block \in DOMAIN chunk
    BY <1>2, <1>3
<1>6. ASSUME NEW p \in DOMAIN chunk
      PROVE  DOMAIN chunk[p].block.cells = DOMAIN blocks[p].cells
    <2>1. p \in DOMAIN blocks
        BY <1>2
    <2>2. DOMAIN blocks[p].cells = 1..Len(blocks[p].cells)
        BY <1>1, <2>1, BlockFacts
    <2>3. chunk[p].block.cells \in Seq(Objects)
        <3>1. chunk[p] \in Placed
            BY <1>1, <1>2, ElementOfSeq
        <3> QED BY <3>1 DEF Placed, Block
    <2>4. Len(chunk[p].block.cells) = Len(blocks[p].cells)
        BY <1>1 DEF PlaceOK
    <2> QED BY <2>2, <2>3, <2>4, LenProperties
<1> QED BY <1>1, <1>2, <1>3, <1>4, <1>5, <1>6

\* Places that were there before the cell was copied.
LEMMA OldPlaces ==
    ASSUME IInv, pc = "copy", AtCell, NEW N, NEW f, Copying(N), Layout(f),
           CellCopied(Cell), UNCHANGED blocks,
           \A p \in DOMAIN chunk : \A i \in DOMAIN blocks[p].cells :
              Unset(p, i)' <=> Unset(p, i) /\ ~(p = Top.block /\ i = Top.next)
    PROVE  \A p \in DOMAIN chunk : PlaceOK(p)'
<1> SUFFICES ASSUME NEW p \in DOMAIN chunk PROVE PlaceOK(p)'
    OBVIOUS
<1>1. /\ chunk[p].block.text = blocks[p].text
      /\ Len(chunk[p].block.cells) = Len(blocks[p].cells)
      /\ \A i \in DOMAIN blocks[p].cells :
            chunk[p].block.cells[i] = IF Unset(p, i) THEN Null ELSE blocks[p].cells[i]
    BY DEF Copying, PlaceOK
<1>2. DOMAIN chunk[p].block.cells = DOMAIN blocks[p].cells /\ Top.to = Top.block
    BY CopyContext
<1>3. /\ chunk'[p].block.text = blocks[p].text
      /\ Len(chunk'[p].block.cells) = Len(blocks[p].cells)
      /\ \A i \in DOMAIN blocks[p].cells :
            chunk'[p].block.cells[i] =
                IF p = Top.block /\ i = Top.next THEN Cell ELSE chunk[p].block.cells[i]
    BY <1>1, <1>2 DEF CellCopied
<1>4. p = Top.block => Cell = blocks[p].cells[Top.next]
    BY DEF Cell
<1>5. ASSUME NEW i \in DOMAIN blocks[p].cells
      PROVE  chunk'[p].block.cells[i] = IF Unset(p, i)' THEN Null ELSE blocks[p].cells[i]
    <2>1. Unset(p, i)' <=> Unset(p, i) /\ ~(p = Top.block /\ i = Top.next)
        OBVIOUS
    <2>2. CASE p = Top.block /\ i = Top.next
        BY <1>3, <1>4, <2>1, <2>2
    <2>3. CASE ~(p = Top.block /\ i = Top.next)
        BY <1>1, <1>3, <2>1, <2>3
    <2> QED BY <2>2, <2>3
<1> QED BY <1>3, <1>5 DEF PlaceOK

LEMMA CopyingStep ==
    ASSUME IInv, pc = "copy", UNCHANGED <<pc, blocks, live, stray, totalSize>>,
           chunk' \in Seq(Placed), chunk' # <<>>, pool' \in Nat, stack' \in Seq(Frames), InPlace',
           NEW N, Copying(N), NEW n, n = Len(chunk'), WalkInv(N, n)',
           \A p \in DOMAIN chunk' : PlaceOK(p)',
           NEW f, Layout(f)'
    PROVE  IInv'
<1>1. Whole(N)' /\ live = DOMAIN blocks /\ stray = 0
    BY WholeSame DEF Copying
<1>2. Copying(N)'
    BY <1>1 DEF Copying, InPlace
<1>3. \A g \in DOMAIN stack' : stack'[g].block \in DOMAIN blocks'
    BY DEF WalkInv
<1>4. StateTypes'
    BY <1>3 DEF StateTypes, IInv
<1>5. UniqueKeys'
    BY UniqueSame DEF IInv
<1> QED BY <1>2, <1>4, <1>5 DEF IInv

LEMMA StepCopyScalar == IInv /\ CopyScalar => IInv'
<1> SUFFICES ASSUME IInv, CopyScalar PROVE IInv'
    OBVIOUS
<1>1. /\ pc = "copy" /\ AtCell /\ Cell.type = "scalar" /\ stack' = Advance
      /\ chunk' = [chunk EXCEPT ![Top.to].block.cells[Top.next] = Cell]
      /\ UNCHANGED <<pc, blocks, live, stray, totalSize, pool>>
    BY DEF CopyScalar
<1>2. PICK N, f : Copying(N) /\ Layout(f)
    BY <1>1 DEF IInv
<1>3. PICK n : n = Len(chunk)
    OBVIOUS
<1>4. /\ StateTypes /\ Whole(N) /\ WalkInv(N, n) /\ InPlace /\ stack # <<>>
      /\ chunk \in Seq(Placed) /\ DOMAIN chunk = 1..n /\ n \in Nat /\ n <= Len(blocks)
      /\ Top.to \in DOMAIN chunk /\ Top.next \in DOMAIN chunk[Top.to].block.cells
      /\ DOMAIN blocks = 1..Len(blocks) /\ Len(blocks) \in Nat
    BY <1>1, <1>2, <1>3, CopyContext DEF AtCell
<1>5. Advanced /\ InPlace'
    BY <1>1, <1>4, Moves, CopyMoves DEF StateTypes
<1>6. CellCopied(Cell) /\ chunk' \in Seq(Placed) /\ Len(chunk') = n
    <2>1. Cell \in Objects
        BY <1>1, <1>4, WholeCell
    <2> QED BY <2>1, <1>1, <1>3, <1>4, CopyFacts
<1>7. DOMAIN chunk' = 1..n /\ chunk' # <<>> /\ \A p \in 1..n : p \in DOMAIN blocks
    <2>1. DOMAIN chunk' = 1..n
        BY <1>6, LenProperties
    <2> QED BY <2>1, <1>2, <1>4 DEF Copying
<1>8. \A p \in DOMAIN chunk' : PlaceOK(p)'
    <2>1. \A p \in DOMAIN chunk : \A i \in DOMAIN blocks[p].cells :
              Unset(p, i)' <=> Unset(p, i) /\ ~(p = Top.block /\ i = Top.next)
        <3>1. \A p \in DOMAIN chunk : DOMAIN blocks[p].cells \subseteq Nat
            BY <1>4, <1>7, BlockFacts
        <3>2. \A p : \A i \in Nat :
                  Unset(p, i)' <=> Unset(p, i) /\ ~(p = Top.block /\ i = Top.next)
            BY <1>1, <1>4, <1>5, AfterAdvance
        <3> QED BY <3>1, <3>2
    <2> QED BY <2>1, <1>1, <1>2, <1>4, <1>6, <1>7, OldPlaces
<1>9. WalkInv(N, n)'
    BY <1>1, <1>4, <1>5, WholeAdvance
<1>10. Layout(f)'
    <2>1. Sums(f)'
        BY <1>1, <1>2 DEF Layout, Sums
    <2>2. \A p \in DOMAIN chunk' :
              chunk'[p].off = f[p - 1] /\ chunk'[p].block.bytes = blocks[p].bytes
        BY <1>2, <1>4, <1>6, <1>7 DEF CellCopied, Layout
    <2> QED BY <2>1, <2>2, <1>1, <1>2, <1>3, <1>4, <1>6 DEF Layout
<1>11. pool' \in Nat /\ stack' \in Seq(Frames)
    BY <1>1, <1>4, <1>5 DEF StateTypes, Advanced
<1> QED BY <1>1, <1>2, <1>5, <1>6, <1>7, <1>8, <1>9, <1>10, <1>11, CopyingStep

\* A place is added behind the others.
LEMMA PlaceAdded ==
    ASSUME IInv, pc = "copy", AtCell, NEW N, NEW f, Copying(N), Layout(f),
           NEW n, n = Len(chunk), n + 1 \in DOMAIN blocks, NEW block \in Block,
           Cell \in Objects, CopyTo(Cell, Place(block)),
           block.bytes = blocks[n + 1].bytes, block.text = blocks[n + 1].text,
           Len(block.cells) = Len(blocks[n + 1].cells),
           \A i \in DOMAIN blocks[n + 1].cells :
              block.cells[i] = IF Unset(n + 1, i)' THEN Null ELSE blocks[n + 1].cells[i],
           \A p \in DOMAIN chunk : \A i \in DOMAIN blocks[p].cells :
              Unset(p, i)' <=> Unset(p, i) /\ ~(p = Top.block /\ i = Top.next),
           pool' = pool + ObjectAlign(block.bytes),
           UNCHANGED <<pc, blocks, live, stray, totalSize>>,
           stack' \in Seq(Frames), InPlace', WalkInv(N, n + 1)'
    PROVE  IInv'
<1>1. /\ StateTypes /\ chunk \in Seq(Placed) /\ DOMAIN chunk = 1..n /\ n \in Nat
      /\ Top.to \in DOMAIN chunk /\ Top.next \in DOMAIN chunk[Top.to].block.cells
      /\ DOMAIN blocks = 1..Len(blocks) /\ Len(blocks) \in Nat /\ n <= Len(blocks)
    BY CopyContext
<1>2. PICK place : place = Place(block)
    OBVIOUS
<1>3. place \in Placed /\ place.off = pool /\ place.block = block
    BY <1>1, <1>2 DEF Place, Placed, StateTypes
<1>4. /\ CellCopied(Cell) /\ chunk' \in Seq(Placed) /\ Len(chunk') = n + 1
      /\ chunk'[n + 1] = place
    <2>1. CopyTo(Cell, place)
        BY <1>2
    <2> QED BY <1>1, <1>3, <2>1, CopyFacts
<1>5. DOMAIN chunk' = 1..(n + 1) /\ chunk' # <<>>
    <2>1. DOMAIN chunk' = 1..(n + 1)
        BY <1>4, LenProperties
    <2> QED BY <2>1, <1>1
<1>6. \A p \in DOMAIN chunk : PlaceOK(p)'
    BY <1>4, OldPlaces
<1>7. \A p \in DOMAIN chunk' : p \in DOMAIN chunk \/ p = n + 1
    BY <1>1, <1>5
<1>8. PICK e : e = n + 1
    OBVIOUS
<1>9. PlaceOK(e)'
    <2>1. /\ chunk'[e].block = block /\ blocks'[e] = blocks[e]
          /\ block.text = blocks[e].text /\ Len(block.cells) = Len(blocks[e].cells)
          /\ \A i \in DOMAIN blocks[e].cells :
                block.cells[i] = IF Unset(e, i)' THEN Null ELSE blocks[e].cells[i]
        BY <1>3, <1>4, <1>8
    <2> QED BY <2>1 DEF PlaceOK
<1>10. \A p \in DOMAIN chunk' : PlaceOK(p)'
    BY <1>6, <1>7, <1>8, <1>9
<1>11. ObjectAlign(block.bytes) \in Nat
    BY AlignFacts DEF Block
<1>12. f[e] = f[n] + ObjectAlign(block.bytes) /\ f[n] = pool /\ f[n] \in Nat
    <2>1. f[e] = f[e - 1] + ObjectAlign(blocks[e].bytes) /\ f[n] = pool
        BY <1>8 DEF Layout, Sums
    <2>2. e - 1 = n
        BY <1>1, <1>8
    <2>3. ObjectAlign(blocks[e].bytes) = ObjectAlign(block.bytes)
        BY <1>8
    <2> QED BY <2>1, <2>2, <2>3, <1>1 DEF StateTypes
<1>13. Layout(f)'
    <2>1. Sums(f)'
        BY DEF Layout, Sums
    <2>2. ASSUME NEW p \in DOMAIN chunk'
          PROVE  chunk'[p].off = f[p - 1] /\ chunk'[p].block.bytes = blocks[p].bytes
        <3>1. CASE p \in DOMAIN chunk
            BY <3>1, <1>4 DEF CellCopied, Layout
        <3>2. CASE p = e
            <4>1. e - 1 = n
                BY <1>1, <1>8
            <4> QED BY <3>2, <4>1, <1>3, <1>4, <1>8, <1>12
        <3> QED BY <3>1, <3>2, <1>7, <1>8
    <2>3. pool' = f[Len(chunk')] /\ Len(chunk') <= Len(blocks')
        BY <1>1, <1>4, <1>8, <1>12
    <2> QED BY <2>1, <2>2, <2>3 DEF Layout
<1>14. pool' \in Nat /\ e = Len(chunk') /\ WalkInv(N, e)'
    BY <1>1, <1>4, <1>8, <1>11 DEF StateTypes
<1> QED BY <1>4, <1>5, <1>10, <1>13, <1>14, CopyingStep

LEMMA StepCopyString == IInv /\ CopyString => IInv'
<1> SUFFICES ASSUME IInv, CopyString PROVE IInv'
    OBVIOUS
<1>1. /\ pc = "copy" /\ AtCell /\ Cell.type = "str" /\ stack' = Advance
      /\ CopyTo([Cell EXCEPT !.to = Len(chunk) + 1], Place(blocks[Cell.to]))
      /\ pool' = pool + ObjectAlign(Cell.l + 1)
      /\ UNCHANGED <<pc, blocks, live, stray, totalSize>>
    BY DEF CopyString
<1>2. PICK N, f : Copying(N) /\ Layout(f)
    BY <1>1 DEF IInv
<1>3. PICK n : n = Len(chunk)
    OBVIOUS
<1>4. /\ StateTypes /\ Whole(N) /\ WalkInv(N, n) /\ InPlace /\ stack # <<>>
      /\ DOMAIN chunk = 1..n /\ n \in Nat /\ n <= Len(blocks)
      /\ DOMAIN blocks = 1..Len(blocks) /\ Len(blocks) \in Nat
    BY <1>1, <1>2, <1>3, CopyContext DEF AtCell
<1>5. /\ Cell \in Objects /\ Cell.to = n + 1 /\ n + 1 \in DOMAIN blocks
      /\ blocks[n + 1].bytes = Cell.l + 1
    BY <1>1, <1>4, WholeCell
<1>6. Advanced /\ InPlace'
    BY <1>1, <1>4, Moves, CopyMoves DEF StateTypes
<1>7. PICK block : block = blocks[n + 1]
    OBVIOUS
<1>8. block \in Block
    BY <1>4, <1>5, <1>7, BlockFacts
<1>9. CopyTo(Cell, Place(block)) /\ pool' = pool + ObjectAlign(block.bytes)
    <2>1. [Cell EXCEPT !.to = Len(chunk) + 1] = Cell
        BY <1>3, <1>5 DEF Objects
    <2>2. blocks[Cell.to] = block
        BY <1>5, <1>7
    <2> QED BY <2>1, <2>2, <1>1, <1>5, <1>7
<1>10. \A p : \A i \in Nat :
           Unset(p, i)' <=> Unset(p, i) /\ ~(p = Top.block /\ i = Top.next)
    BY <1>1, <1>4, <1>6, AfterAdvance
<1>11. \A b \in DOMAIN blocks : DOMAIN blocks[b].cells \subseteq Nat
    BY <1>4, BlockFacts
<1>12. \A i : ~Unset(n + 1, i)
    <2>1. \A g \in DOMAIN stack : stack[g].block <= n /\ stack[g].block \in Nat
        BY <1>4, WalkFrames, BlockFacts
    <2>2. \A g \in DOMAIN stack : stack[g].block # n + 1
        BY <2>1, <1>4
    <2> QED BY <2>2 DEF Unset
<1>13. \A i \in DOMAIN blocks[n + 1].cells :
           block.cells[i] = IF Unset(n + 1, i)' THEN Null ELSE blocks[n + 1].cells[i]
    BY <1>5, <1>7, <1>10, <1>11, <1>12
<1>14. \A p \in DOMAIN chunk : \A i \in DOMAIN blocks[p].cells :
           Unset(p, i)' <=> Unset(p, i) /\ ~(p = Top.block /\ i = Top.next)
    <2>1. \A p \in DOMAIN chunk : p \in DOMAIN blocks
        BY <1>4
    <2> QED BY <2>1, <1>10, <1>11
<1>15. WalkInv(N, n + 1)' /\ stack' \in Seq(Frames)
    BY <1>1, <1>4, <1>6, WholeAdvance DEF Advanced
<1> QED BY <1>1, <1>2, <1>3, <1>5, <1>6, <1>7, <1>8, <1>9, <1>13, <1>14, <1>15, PlaceAdded

LEMMA StepCopyContainer == IInv /\ CopyContainer => IInv'
<1> SUFFICES ASSUME IInv, CopyContainer PROVE IInv'
    OBVIOUS
<1>1. pc = "copy" /\ AtCell /\ Cell.type \in Containers
      /\ UNCHANGED <<pc, blocks, live, stray, totalSize>>
    BY DEF CopyContainer
<1>2. PICK N, f : Copying(N) /\ Layout(f)
    BY <1>1 DEF IInv
<1>3. PICK n, s, e : /\ n = Len(chunk) /\ e = n + 1
                     /\ s = IF Cell.type = "map" THEN 2 * Cell.l ELSE Cell.l
    OBVIOUS
<1>4. /\ StateTypes /\ Whole(N) /\ WalkInv(N, n) /\ InPlace /\ stack # <<>>
      /\ DOMAIN chunk = 1..n /\ n \in Nat /\ n <= Len(blocks)
      /\ DOMAIN blocks = 1..Len(blocks) /\ Len(blocks) \in Nat
    BY <1>1, <1>2, <1>3, CopyContext DEF AtCell
<1>5. /\ Cell \in Objects /\ Cell.to = e /\ e \in DOMAIN blocks /\ Len(blocks[e].cells) = s
      /\ blocks[e].bytes = s * SizeofObject /\ blocks[e].text = "none" /\ e \in Nat /\ e > n
    <2>1. Cell.type # "scalar"
        BY <1>1 DEF Containers
    <2>2. Cell \in Objects /\ Cell.to = n + 1 /\ n + 1 \in DOMAIN blocks
        BY <1>1, <1>4, <2>1, WholeCell
    <2>3. /\ Len(blocks[n + 1].cells) = IF Cell.type = "map" THEN 2 * Cell.l ELSE Cell.l
          /\ blocks[n + 1].bytes = Len(blocks[n + 1].cells) * SizeofObject
          /\ blocks[n + 1].text = "none"
        BY <1>1, <1>4, WholeCell
    <2>4. e \in Nat /\ e > n
        BY <1>3, <1>4
    <2> QED BY <2>2, <2>3, <2>4, <1>3
<1>6. s \in Nat /\ DOMAIN blocks[e].cells = 1..s
    BY <1>4, <1>5, BlockFacts
<1>7. PICK block : block = ObjectBlock(s)
    OBVIOUS
<1>8. /\ block \in Block /\ block.text = "none" /\ block.bytes = s * SizeofObject
      /\ Len(block.cells) = s /\ \A i \in 1..s : block.cells[i] = Null
    BY <1>6, <1>7, NewBlocks
<1>9. /\ CopyTo(Cell, Place(block)) /\ pool' = pool + ObjectAlign(block.bytes)
      /\ stack' = Advance \o <<CopyFrame(e, e)>>
    <2>1. /\ CopyTo([Cell EXCEPT !.to = e], Place(block))
          /\ pool' = pool + ObjectAlign(SizeofObject * s)
          /\ stack' = Advance \o <<CopyFrame(Cell.to, e)>>
        BY <1>3, <1>7 DEF CopyContainer
    <2>2. [Cell EXCEPT !.to = e] = Cell
        BY <1>5 DEF Objects
    <2>3. SizeofObject * s = s * SizeofObject
        BY <1>6, LayoutAssumption
    <2> QED BY <2>1, <2>2, <2>3, <1>5, <1>8
<1>10. Entered(e) /\ InPlace'
    BY <1>4, <1>5, <1>9, CopyMoves DEF StateTypes
<1>11. \A p : \A i \in Nat \ {0} :
           Unset(p, i)' <=> \/ Unset(p, i) /\ ~(p = Top.block /\ i = Top.next)
                            \/ p = e
    BY <1>1, <1>4, <1>5, <1>10, AfterEnter
<1>12. \A i \in DOMAIN blocks[e].cells :
           block.cells[i] = IF Unset(e, i)' THEN Null ELSE blocks[e].cells[i]
    <2>1. \A i \in 1..s : i \in Nat \ {0}
        BY <1>6
    <2> QED BY <2>1, <1>6, <1>8, <1>11
<1>13. \A p \in DOMAIN chunk : \A i \in DOMAIN blocks[p].cells :
           Unset(p, i)' <=> Unset(p, i) /\ ~(p = Top.block /\ i = Top.next)
    <2>1. \A p \in DOMAIN chunk : p \in DOMAIN blocks /\ p # e
        BY <1>4, <1>5
    <2>2. \A b \in DOMAIN blocks : \A i \in DOMAIN blocks[b].cells : i \in Nat \ {0}
        <3>1. \A b \in DOMAIN blocks : /\ DOMAIN blocks[b].cells = 1..Len(blocks[b].cells)
                                       /\ Len(blocks[b].cells) \in Nat
            BY <1>4, BlockFacts
        <3> QED BY <3>1
    <2> QED BY <2>1, <2>2, <1>11
<1>14. WalkInv(N, n + 1)' /\ stack' \in Seq(Frames)
    <2>1. Entered(Cell.to)
        BY <1>5, <1>10
    <2> QED BY <2>1, <1>1, <1>4, WholeEnter DEF Entered
<1>15. /\ block.bytes = blocks[n + 1].bytes /\ block.text = blocks[n + 1].text
       /\ Len(block.cells) = Len(blocks[n + 1].cells) /\ n + 1 \in DOMAIN blocks
       /\ \A i \in DOMAIN blocks[n + 1].cells :
              block.cells[i] = IF Unset(n + 1, i)' THEN Null ELSE blocks[n + 1].cells[i]
    BY <1>3, <1>5, <1>8, <1>12
<1> QED BY <1>1, <1>2, <1>3, <1>5, <1>8, <1>9, <1>10, <1>13, <1>14, <1>15, PlaceAdded

LEMMA StepCopyReturn == IInv /\ CopyReturn => IInv'
<1> SUFFICES ASSUME IInv, CopyReturn PROVE IInv'
    OBVIOUS
<1>1. /\ pc = "copy" /\ AtReturn /\ stack' = Below
      /\ UNCHANGED <<pc, blocks, live, stray, totalSize, chunk, pool>>
    BY DEF CopyReturn
<1>2. PICK N, f : Copying(N) /\ Layout(f)
    BY <1>1 DEF IInv
<1>3. PICK n : n = Len(chunk)
    OBVIOUS
<1>4. /\ StateTypes /\ Whole(N) /\ WalkInv(N, n) /\ InPlace /\ stack # <<>> /\ chunk # <<>>
      /\ DOMAIN chunk = 1..Len(chunk) /\ DOMAIN blocks = 1..Len(blocks)
      /\ Len(chunk) \in Nat /\ Len(blocks) \in Nat /\ Len(chunk) <= Len(blocks)
    BY <1>1, <1>2, <1>3, BlockFacts DEF AtReturn, Copying, IInv, InPlace, Layout
<1>5. Returned /\ InPlace'
    BY <1>1, <1>4, Moves, CopyMoves DEF StateTypes
<1>6. WalkInv(N, n)'
    BY <1>1, <1>4, <1>5, WholeReturn
<1>7. \A c \in DOMAIN blocks : \A j \in DOMAIN blocks[c].cells :
          Unset(c, j)' <=> Unset(c, j)
    BY <1>1, <1>4, <1>5, AfterReturn
<1>8. ASSUME NEW p \in DOMAIN chunk' PROVE PlaceOK(p)'
    <2>1. p \in DOMAIN chunk /\ p \in DOMAIN blocks
        BY <1>1, <1>4
    <2>2. PlaceOK(p)
        BY <1>2, <2>1 DEF Copying
    <2>3. \A i \in DOMAIN blocks[p].cells : Unset(p, i)' <=> Unset(p, i)
        BY <2>1, <1>7
    <2> QED BY <1>1, <2>2, <2>3 DEF PlaceOK
<1>9. Layout(f)'
    BY <1>1, <1>2 DEF Layout, Sums
<1>10. /\ chunk' \in Seq(Placed) /\ chunk' # <<>> /\ pool' \in Nat
       /\ stack' \in Seq(Frames) /\ n = Len(chunk')
    BY <1>1, <1>3, <1>4, <1>5 DEF StateTypes, Returned
<1> QED BY <1>1, <1>2, <1>5, <1>6, <1>8, <1>9, <1>10, CopyingStep

-----------------------------------------------------------------------------
(* object_teardown.                                                        *)

LEMMA StepStartTeardown == IInv /\ StartTeardown => IInv'
<1> SUFFICES ASSUME IInv, StartTeardown PROVE IInv'
    OBVIOUS
<1>1. /\ pc = "copy" /\ stack = <<>> /\ pc' = "teardown" /\ stack' = <<Frame(1)>>
      /\ UNCHANGED <<blocks, live, stray, totalSize, chunk, pool>>
    BY DEF StartTeardown
<1>2. PICK N, f : Copying(N) /\ Layout(f)
    BY <1>1 DEF IInv
<1>3. /\ StateTypes /\ UniqueKeys /\ Whole(N) /\ live = DOMAIN blocks /\ stray = 0
      /\ DOMAIN chunk = 1..Len(chunk) /\ DOMAIN blocks = 1..Len(blocks)
      /\ Len(blocks) \in Nat
    BY <1>2, BlockFacts DEF IInv, Copying
<1>4. Len(chunk) = Len(blocks)
    BY <1>1, <1>2 DEF Copying, WalkInv, Whole
<1>5. ASSUME NEW p \in DOMAIN chunk PROVE chunk[p].block = blocks[p]
    <2>1. PICK x, y : x = chunk[p].block /\ y = blocks[p]
        OBVIOUS
    <2>2. x \in Block /\ y \in Block
        <3>1. chunk[p] \in Placed
            BY <1>3, ElementOfSeq DEF StateTypes
        <3>2. p \in DOMAIN blocks
            BY <1>3, <1>4
        <3> QED BY <2>1, <3>1, <3>2, <1>3, BlockFacts DEF Placed
    <2>3. x.bytes = y.bytes
        BY <1>2, <2>1 DEF Layout
    <2>4. PlaceOK(p)
        BY <1>2 DEF Copying
    <2>5. \A i : ~Unset(p, i)
        BY <1>1 DEF Unset
    <2>6. /\ x.text = y.text /\ Len(x.cells) = Len(y.cells)
          /\ \A i \in DOMAIN y.cells : x.cells[i] = y.cells[i]
        BY <2>1, <2>4, <2>5 DEF PlaceOK
    <2>7. x.cells \in Seq(Objects) /\ y.cells \in Seq(Objects)
        BY <2>2 DEF Block
    <2>8. x.cells = y.cells
        <3>1. DOMAIN y.cells = 1..Len(y.cells)
            BY <2>7, LenProperties
        <3> QED BY <2>6, <2>7, <3>1, SeqEqual
    <2>9. x = y
        BY <2>2, <2>3, <2>6, <2>8 DEF Block
    <2> QED BY <2>1, <2>9
<1>6. /\ stack' \in Seq(Frames) /\ Len(stack') = 1 /\ DOMAIN stack' = {1} /\ stack' # <<>>
      /\ stack'[1].block = 1 /\ stack'[1].next = 1 /\ Top' = stack'[1]
    <2>1. Frame(1) \in Frames /\ Frame(1).block = 1 /\ Frame(1).next = 1
        BY DEF Frame, Frames
    <2> QED BY <2>1, <1>1 DEF Top
<1>7. 1 \in DOMAIN blocks /\ Len(blocks[1].cells) = 1 /\ N[1][1] = 1
    BY <1>3 DEF Whole, Root
<1>8. WalkInv(N, 1)'
    BY <1>1, <1>6, <1>7 DEF WalkInv
<1>9. \A b : On(b)' <=> b = 1
    BY <1>6 DEF On
<1>10. live' = {b \in DOMAIN blocks' : b > 1 \/ On(b)'}
    <2>1. \A b \in DOMAIN blocks : b > 1 \/ b = 1
        BY <1>3
    <2> QED BY <2>1, <1>1, <1>3, <1>9
<1>11. Freeing(N, 1)'
    <2>1. Whole(N)'
        BY <1>1, <1>3, WholeSame
    <2>2. Copied'
        BY <1>1, <1>4, <1>5 DEF Copied
    <2> QED BY <2>1, <2>2, <1>1, <1>3, <1>6, <1>8, <1>10 DEF Freeing
<1>12. StateTypes'
    BY <1>1, <1>3, <1>6, <1>7 DEF StateTypes
<1>13. UniqueKeys'
    BY <1>1, <1>3, UniqueSame
<1>14. Layout(f)'
    BY <1>1, <1>2 DEF Layout, Sums
<1> QED BY <1>1, <1>11, <1>12, <1>13, <1>14 DEF IInv

LEMMA FreeingStep ==
    ASSUME IInv, pc = "teardown", UNCHANGED <<pc, blocks, stray, totalSize, chunk, pool>>,
           stack' \in Seq(Frames), stack' # <<>>, NEW N, NEW n, Freeing(N, n),
           NEW m, WalkInv(N, m)',
           live' = {b \in DOMAIN blocks : b > m \/ On(b)'}
    PROVE  IInv'
<1>1. Whole(N)'
    BY WholeSame DEF Freeing
<1>2. Copied' /\ stray' = 0
    BY DEF Copied, Freeing
<1>3. Freeing(N, m)'
    BY <1>1, <1>2 DEF Freeing
<1>4. \A g \in DOMAIN stack' : stack'[g].block \in DOMAIN blocks'
    BY DEF WalkInv
<1>5. StateTypes'
    <2>1. live' \subseteq DOMAIN blocks'
        OBVIOUS
    <2> QED BY <2>1, <1>4 DEF StateTypes, IInv
<1>6. UniqueKeys'
    BY UniqueSame DEF IInv
<1>7. PICK f : Layout(f)
    BY DEF IInv
<1>8. Layout(f)'
    BY <1>7 DEF Layout, Sums
<1> QED BY <1>3, <1>5, <1>6, <1>8 DEF IInv

LEMMA StepTeardownCell == IInv /\ TeardownCell => IInv'
<1> SUFFICES ASSUME IInv, TeardownCell PROVE IInv'
    OBVIOUS
<1>1. /\ pc = "teardown" /\ AtCell
      /\ live' = IF Cell.type = "str" THEN live \ {Cell.to} ELSE live
      /\ stack' = IF Cell.type \in Containers THEN Descend(Cell.to) ELSE Advance
      /\ UNCHANGED <<pc, blocks, stray, totalSize, chunk, pool>>
    BY DEF TeardownCell
<1>2. PICK N, n : Freeing(N, n)
    BY <1>1 DEF IInv
<1>3. /\ StateTypes /\ Whole(N) /\ WalkInv(N, n) /\ stack # <<>> /\ n \in Nat
      /\ live = {b \in DOMAIN blocks : b > n \/ On(b)}
      /\ DOMAIN blocks = 1..Len(blocks) /\ Len(blocks) \in Nat
    BY <1>2, BlockFacts DEF IInv, Freeing, WalkInv
<1>4. /\ Cell.type \in Types
      /\ Cell.type # "scalar" => Cell.to = n + 1 /\ n + 1 \in DOMAIN blocks
    BY <1>1, <1>3, WholeCell
<1>5. \A b : On(b) => b \in Nat /\ b <= n
    BY <1>3, WalkFrames, BlockFacts DEF On
<1>6. CASE Cell.type = "scalar"
    <2>1. stack' = Advance /\ live' = live
        BY <1>1, <1>6 DEF Containers
    <2>2. Advanced
        BY <2>1, <1>3, Moves DEF StateTypes
    <2>3. WalkInv(N, n)'
        BY <1>1, <1>3, <1>6, <2>2, WholeAdvance
    <2>4. \A b : On(b)' <=> On(b)
        BY <1>1, <1>3, <2>2, AfterAdvance
    <2>5. stack' \in Seq(Frames) /\ stack' # <<>>
        BY <2>2, <1>3, TopFacts DEF Advanced
    <2>6. live' = {b \in DOMAIN blocks : b > n \/ On(b)'}
        BY <2>1, <2>4, <1>3
    <2> QED BY <1>1, <1>2, <2>3, <2>5, <2>6, FreeingStep
<1>7. CASE Cell.type = "str"
    <2>1. stack' = Advance /\ live' = live \ {n + 1}
        BY <1>1, <1>4, <1>7 DEF Containers
    <2>2. Advanced
        BY <2>1, <1>3, Moves DEF StateTypes
    <2>3. WalkInv(N, n + 1)'
        BY <1>1, <1>3, <1>7, <2>2, WholeAdvance
    <2>4. \A b : On(b)' <=> On(b)
        BY <1>1, <1>3, <2>2, AfterAdvance
    <2>5. stack' \in Seq(Frames) /\ stack' # <<>>
        BY <2>2, <1>3, TopFacts DEF Advanced
    <2>6. live' = {b \in DOMAIN blocks : b > n + 1 \/ On(b)'}
        <3>1. \A b \in DOMAIN blocks :
                  (b > n \/ On(b)) /\ b # n + 1 <=> b > n + 1 \/ On(b)
            <4>1. \A b \in DOMAIN blocks : b > n /\ b # n + 1 <=> b > n + 1
                BY <1>3
            <4>2. \A b \in DOMAIN blocks : On(b) => b # n + 1
                BY <1>3, <1>5
            <4> QED BY <4>1, <4>2
        <3> QED BY <3>1, <2>1, <2>4, <1>3
    <2> QED BY <1>1, <1>2, <2>3, <2>5, <2>6, FreeingStep
<1>8. CASE Cell.type \in Containers
    <2>0. PICK e : e = n + 1
        OBVIOUS
    <2>1. /\ stack' = Advance \o <<Frame(e)>> /\ live' = live
          /\ Cell.to = e /\ e \in DOMAIN blocks /\ e \in Nat /\ e > n
        BY <1>1, <1>3, <1>4, <1>8, <2>0 DEF Containers, Descend
    <2>2. Entered(e)
        <3>1. Frame(e) \in Frames /\ Frame(e).next = 1 /\ Frame(e).block = e
            BY <2>1 DEF Frame, Frames
        <3>2. Entered(Frame(e).block)
            BY <2>1, <3>1, <1>3, Moves DEF StateTypes
        <3> QED BY <3>1, <3>2
    <2>3. WalkInv(N, e)'
        <3>1. Entered(Cell.to)
            BY <2>1, <2>2
        <3>2. WalkInv(N, n + 1)'
            BY <1>1, <1>3, <1>8, <3>1, WholeEnter
        <3> QED BY <2>0, <3>2
    <2>4. \A b : On(b)' <=> On(b) \/ b = e
        BY <1>1, <1>3, <2>1, <2>2, AfterEnter
    <2>5. stack' \in Seq(Frames) /\ stack' # <<>>
        BY <2>2, <1>3, TopFacts DEF Entered
    <2>6. live' = {b \in DOMAIN blocks : b > e \/ On(b)'}
        <3>1. \A b \in DOMAIN blocks : b > n <=> b > e \/ b = e
            BY <1>3, <2>0
        <3> QED BY <3>1, <2>1, <2>4, <1>3
    <2> QED BY <1>1, <1>2, <2>3, <2>5, <2>6, FreeingStep
<1> QED BY <1>4, <1>6, <1>7, <1>8 DEF Types

LEMMA StepTeardownReturn == IInv /\ TeardownReturn => IInv'
<1> SUFFICES ASSUME IInv, TeardownReturn PROVE IInv'
    OBVIOUS
<1>1. /\ pc = "teardown" /\ AtReturn /\ live' = live \ {Top.block} /\ stack' = Below
      /\ pc' = IF Len(stack) = 1 THEN "done" ELSE pc
      /\ UNCHANGED <<blocks, stray, totalSize, chunk, pool>>
    BY DEF TeardownReturn
<1>2. PICK N, n : Freeing(N, n)
    BY <1>1 DEF IInv
<1>3. /\ StateTypes /\ Whole(N) /\ WalkInv(N, n) /\ stack # <<>> /\ n \in Nat
      /\ live = {b \in DOMAIN blocks : b > n \/ On(b)} /\ Copied /\ stray = 0
      /\ DOMAIN blocks = 1..Len(blocks) /\ Len(blocks) \in Nat
    BY <1>2, BlockFacts DEF IInv, Freeing, WalkInv
<1>4. Returned
    BY <1>1, <1>3, Moves DEF StateTypes
<1>5. WalkInv(N, n)'
    BY <1>1, <1>3, <1>4, WholeReturn
<1>6. \A b : On(b)' <=> On(b) /\ b # Top.block
    BY <1>1, <1>3, <1>4, AfterReturn
<1>7. live' = {b \in DOMAIN blocks : b > n \/ On(b)'}
    <2>1. Top.block <= n /\ Top.block \in Nat
        BY <1>3, TopFacts
    <2>2. \A b \in DOMAIN blocks : b > n => b # Top.block
        BY <2>1, <1>3
    <2> QED BY <2>2, <1>1, <1>3, <1>6
<1>8. CASE Len(stack) # 1
    <2>1. stack' \in Seq(Frames) /\ stack' # <<>> /\ pc' = pc
        <3>1. Len(stack) \in Nat \ {0} /\ Len(stack') = Len(stack) - 1
            BY <1>3, <1>4, TopFacts DEF Returned
        <3> QED BY <3>1, <1>1, <1>4, <1>8 DEF Returned
    <2> QED BY <1>1, <1>2, <1>5, <1>7, <2>1, FreeingStep
<1>9. CASE Len(stack) = 1
    <2>1. stack' \in Seq(Frames) /\ stack' = <<>> /\ pc' = "done"
        BY <1>1, <1>4, <1>9 DEF Returned
    <2>2. n = Len(blocks)
        BY <1>1, <1>3, <1>5, <2>1 DEF WalkInv, Whole
    <2>3. live' = {}
        <3>1. \A b : ~On(b)'
            BY <2>1 DEF On
        <3>2. \A b \in DOMAIN blocks : ~(b > n)
            BY <1>3, <2>2
        <3> QED BY <3>1, <3>2, <1>7
    <2>4. Copied' /\ stray' = 0
        BY <1>1, <1>3 DEF Copied
    <2>5. StateTypes'
        BY <1>1, <1>3, <2>1, <2>3 DEF StateTypes
    <2>6. UniqueKeys'
        BY <1>1, UniqueSame DEF IInv
    <2>7. \E f : Layout(f)'
        <3>1. PICK f : Layout(f)
            BY DEF IInv
        <3>2. Layout(f)'
            BY <1>1, <3>1 DEF Layout, Sums
        <3> QED BY <3>2
    <2> QED BY <2>1, <2>3, <2>4, <2>5, <2>6, <2>7 DEF IInv
<1> QED BY <1>8, <1>9

-----------------------------------------------------------------------------
(* Steps that change nothing, and the inductive invariant.                 *)

LEMMA StepStutter == IInv /\ UNCHANGED vars => IInv'
<1> SUFFICES ASSUME IInv, UNCHANGED vars PROVE IInv'
    OBVIOUS
<1>1. UNCHANGED <<pc, blocks, live, stray, totalSize, chunk, pool, stack>>
    BY DEF vars
<1>2. StateTypes' /\ UniqueKeys'
    BY <1>1, UniqueSame DEF IInv, StateTypes
<1>3. \E f : Layout(f)'
    <2>1. PICK f : Layout(f)
        BY DEF IInv
    <2>2. Layout(f)'
        BY <1>1, <2>1 DEF Layout, Sums
    <2> QED BY <2>2
<1>4. pc = "init" => \E N : Growing(N)'
    <2> SUFFICES ASSUME pc = "init" PROVE \E N : Growing(N)'
        OBVIOUS
    <2>1. PICK N : Growing(N)
        BY DEF IInv
    <2>2. TreeInv(N)'
        BY <1>1, <2>1, TreeSame DEF Growing
    <2>4. (AtCell' <=> AtCell) /\ (AtKey' <=> AtKey)
        BY <1>1 DEF AtCell, AtKey, OwnerType, Top
    <2>5. Growing(N)'
        BY <1>1, <2>1, <2>2, <2>4 DEF Growing
    <2> QED BY <2>5
<1>5. pc = "copy" => \E N : Copying(N)'
    <2> SUFFICES ASSUME pc = "copy" PROVE \E N : Copying(N)'
        OBVIOUS
    <2>1. PICK N : Copying(N)
        BY DEF IInv
    <2>2. Whole(N)'
        BY <1>1, <2>1, WholeSame DEF Copying
    <2>3. WalkInv(N, Len(chunk))'
        <3>1. WalkInv(N, Len(chunk))
            BY <2>1 DEF Copying
        <3> QED BY <1>1, <3>1 DEF WalkInv, Top
    <2>4. \A p \in DOMAIN chunk' : PlaceOK(p)'
        <3>1. \A p \in DOMAIN chunk : PlaceOK(p)
            BY <2>1 DEF Copying
        <3> QED BY <1>1, <3>1 DEF PlaceOK, Unset
    <2>5. Copying(N)'
        BY <1>1, <2>1, <2>2, <2>3, <2>4 DEF Copying
    <2> QED BY <2>5
<1>6. pc = "teardown" => \E N, n : Freeing(N, n)'
    <2> SUFFICES ASSUME pc = "teardown" PROVE \E N, n : Freeing(N, n)'
        OBVIOUS
    <2>1. PICK N, n : Freeing(N, n)
        BY DEF IInv
    <2>2. Whole(N)'
        BY <1>1, <2>1, WholeSame DEF Freeing
    <2>3. WalkInv(N, n)'
        BY <1>1, <2>1, WalkSame DEF Freeing
    <2>4. Copied' /\ live' = {b \in DOMAIN blocks' : b > n \/ On(b)'}
        BY <1>1, <2>1 DEF Freeing, Copied, On
    <2>5. Freeing(N, n)'
        BY <1>1, <2>1, <2>2, <2>3, <2>4 DEF Freeing
    <2> QED BY <2>5
<1>7. pc = "done" => live' = {} /\ stray' = 0 /\ stack' = <<>> /\ Copied'
    BY <1>1 DEF IInv, Copied
<1> QED BY <1>1, <1>2, <1>3, <1>4, <1>5, <1>6, <1>7 DEF IInv

LEMMA Invariant == Spec => []IInv
<1>1. Init => IInv
    BY InitHolds
<1>2. IInv /\ [Next]_vars => IInv'
    BY StepScalar, StepString, StepContainer, StepKey, StepInitReturn, StepAllocate,
       StepCopyScalar, StepCopyString, StepCopyContainer, StepCopyReturn,
       StepStartTeardown, StepTeardownCell, StepTeardownReturn, StepStutter
       DEF Next, Done
<1> QED BY <1>1, <1>2, PTL DEF Spec

-----------------------------------------------------------------------------
(* The theorems, for every Size, DepthLimit, bound on the tree, set of     *)
(* keys, length of strings and keys, and size and alignment of an object.  *)

\* The state of object_create keeps its types: every block and frame is one
\* that malloc returned, and at most one key tried in vain is outstanding.
THEOREM TypeCorrect == Spec => []TypeOK
<1>1. IInv => TypeOK
    <2> SUFFICES ASSUME IInv PROVE TypeOK
        OBVIOUS
    <2>1. StateTypes
        BY DEF IInv
    <2>2. \A b \in DOMAIN blocks : blocks[b].bytes \in Nat /\ blocks[b].cells \in Seq(Objects)
        BY <2>1, BlockFacts DEF Block
    <2>3. ASSUME NEW p \in DOMAIN chunk PROVE chunk[p].off \in Nat
        <3>1. chunk[p] \in Placed
            BY <2>1, BlockFacts, ElementOfSeq DEF StateTypes
        <3> QED BY <3>1 DEF Placed
    <2> QED BY <2>1, <2>2, <2>3 DEF TypeOK, StateTypes
<1> QED BY <1>1, Invariant, PTL

\* object_copy never moves the pool pointer past the chunk that object_init
\* sized, every copied block lies behind the one before it and aligned, and
\* the walk that ends has used the chunk up: the sums of the two functions,
\* written in different terms, are of the same blocks in the same order.
THEOREM ChunkFits == Spec => []FitsChunk
<1>1. IInv => FitsChunk
    <2> SUFFICES ASSUME IInv PROVE FitsChunk
        OBVIOUS
    <2>1. PICK f : Layout(f)
        BY DEF IInv
    <2>2. /\ StateTypes /\ Sums(f) /\ f \in [Nat -> Nat] /\ f[0] = 0
          /\ DOMAIN blocks = 1..Len(blocks) /\ Len(blocks) \in Nat
          /\ DOMAIN chunk = 1..Len(chunk) /\ Len(chunk) \in Nat
          /\ Len(chunk) <= Len(blocks) /\ pool = f[Len(chunk)]
          /\ totalSize = f[Len(blocks)]
          /\ \A p, q \in 0..Len(blocks) : p <= q => f[p] <= f[q]
        BY <2>1, BlockFacts DEF IInv, Layout, Sums
    <2>3. pool <= totalSize
        BY <2>2
    <2>4. pc \in {"teardown", "done"} => pool = totalSize
        <3>1. pc \in {"teardown", "done"} => Len(chunk) = Len(blocks)
            BY DEF IInv, Freeing, Copied
        <3> QED BY <2>2, <3>1
    <2>5. ASSUME NEW p \in DOMAIN chunk
          PROVE  /\ chunk[p].off + chunk[p].block.bytes <=
                       IF p = Len(chunk) THEN pool ELSE chunk[p + 1].off
                 /\ chunk[p].off % Alignment = 0
        <3>1. p \in DOMAIN blocks /\ p - 1 \in 0..Len(blocks) /\ p \in Nat
            <4>1. /\ DOMAIN blocks = 1..Len(blocks) /\ Len(blocks) \in Nat
                  /\ p \in 1..Len(chunk) /\ Len(chunk) \in Nat
                  /\ Len(chunk) <= Len(blocks)
                BY <2>2
            <4> QED BY <4>1
        <3>2. PICK n : n = blocks[p].bytes
            OBVIOUS
        <3>3. n \in Nat
            BY <2>2, <3>1, <3>2, BlockFacts DEF Block
        <3>4. chunk[p].off = f[p - 1] /\ chunk[p].block.bytes = n
            BY <2>1, <3>2 DEF Layout
        <3>5. f[p] = f[p - 1] + ObjectAlign(n)
            BY <2>2, <3>1, <3>2 DEF Sums
        <3>6. f[p - 1] + n <= f[p]
            <4>1. ObjectAlign(n) \in Nat /\ ObjectAlign(n) >= n
                BY <3>3, AlignFacts
            <4>2. f[p - 1] \in Nat
                BY <2>2, <3>1
            <4> QED BY <3>3, <3>5, <4>1, <4>2
        <3>7. (IF p = Len(chunk) THEN pool ELSE chunk[p + 1].off) = f[p]
            <4>1. CASE p = Len(chunk)
                BY <4>1, <2>2
            <4>2. CASE p # Len(chunk)
                <5>1. p + 1 \in DOMAIN chunk /\ (p + 1) - 1 = p
                    <6>1. /\ p \in 1..Len(chunk) /\ Len(chunk) \in Nat
                          /\ DOMAIN chunk = 1..Len(chunk)
                        BY <2>2
                    <6> QED BY <4>2, <6>1
                <5>2. chunk[p + 1].off = f[(p + 1) - 1]
                    BY <2>1, <5>1 DEF Layout
                <5> QED BY <4>2, <5>1, <5>2
            <4> QED BY <4>1, <4>2
        <3>8. f[p - 1] % Alignment = 0
            <4>1. PICK q \in Nat : f[p - 1] = q * Alignment
                BY <2>2, <3>1 DEF Sums
            <4>2. (q * Alignment) % Alignment = 0
                BY Multiples
            <4> QED BY <4>1, <4>2
        <3> QED BY <3>4, <3>6, <3>7, <3>8
    <2> QED BY <2>3, <2>4, <2>5 DEF FitsChunk
<1> QED BY <1>1, Invariant, PTL

\* When object_copy is done, place p of the chunk holds block p of the tree,
\* pointers included: both walks meet the blocks in the same order.
THEOREM CopyIsTree == Spec => []DepthFirstCopy
<1>1. IInv => DepthFirstCopy
    BY DEF IInv, Freeing, Copied, DepthFirstCopy
<1> QED BY <1>1, Invariant, PTL

\* No walk visits a freed block, object_teardown frees none twice, and when
\* it is done it has freed all of them, the keys tried in vain included.
THEOREM TreeFreedOnce == Spec => []FreedOnce
<1>1. IInv => FreedOnce
    <2> SUFFICES ASSUME IInv PROVE FreedOnce
        OBVIOUS
    <2>1. StateTypes
        BY DEF IInv
    <2>2. CASE pc \in {"init", "copy"}
        <3>1. live = DOMAIN blocks
            BY <2>2 DEF IInv, Growing, Copying
        <3>2. \A g \in DOMAIN stack : stack[g].block \in live
            BY <2>1, <3>1 DEF StateTypes
        <3> QED BY <2>2, <3>2 DEF FreedOnce
    <2>3. CASE pc = "teardown"
        <3>1. PICK N, n : Freeing(N, n)
            BY <2>3 DEF IInv
        <3>2. /\ Whole(N) /\ WalkInv(N, n)
              /\ live = {b \in DOMAIN blocks : b > n \/ On(b)}
            BY <3>1 DEF Freeing
        <3>3. \A g \in DOMAIN stack : stack[g].block \in live
            BY <2>1, <3>2 DEF StateTypes, On
        <3>4. ASSUME AtCell, Cell.type # "scalar" PROVE Cell.to \in live
            <4>1. n \in Nat /\ Cell.to = n + 1 /\ n + 1 \in DOMAIN blocks
                BY <2>1, <3>2, <3>4, WholeCell
            <4>2. n + 1 > n
                BY <4>1
            <4> QED BY <3>2, <4>1, <4>2
        <3> QED BY <2>3, <3>3, <3>4 DEF FreedOnce
    <2>4. CASE pc = "done"
        <3>1. live = {} /\ stray = 0 /\ stack = <<>>
            BY <2>4 DEF IInv
        <3> QED BY <2>4, <3>1 DEF FreedOnce
    <2> QED BY <2>1, <2>2, <2>3, <2>4 DEF StateTypes
<1> QED BY <1>1, Invariant, PTL

\* The keys of every map differ, however deep the values that object_init
\* grows between one key and the next.
THEOREM KeysUnique == Spec => []UniqueKeys
<1>1. IInv => UniqueKeys
    BY DEF IInv
<1> QED BY <1>1, Invariant, PTL
=============================================================================
