---------------------------- MODULE WritersProofs ----------------------------
(***************************************************************************)
(* Proofs about Writers, for any set of programs and objects of any size   *)
(* and nesting.                                                            *)
(*                                                                         *)
(* AllFreed speaks of the end only.  The invariant says at every point     *)
(* what is held: the documents on the stack that were made, and the output *)
(* or, where containers are documents, the root once it is off the stack.  *)
(* WholeOrFalse needs that a program which notices failures knows of every *)
(* one at every point: as an error, or as a document that is missing.  A   *)
(* missing document cannot be completed, so that it is still on the stack. *)
(***************************************************************************)
EXTENDS Writers, FiniteSetTheorems, SequenceTheorems, TLAPS

MadeIn(s)    == {k \in DOMAIN s : s[k].doc = "made"}
MissingIn(s) == {k \in DOMAIN s : s[k].doc = "missing"}

\* The output, or the document of the root.
Output == IF pc = "finish" \/ (pc \in {"root", "walk"} /\ It.builds = "nothing")
          THEN 1 ELSE 0

HeldAreMade ==
    pc # "done" =>
        /\ held >= Cardinality(MadeIn(stack)) + Output
        /\ It.loses = "nothing" => held = Cardinality(MadeIn(stack)) + Output

DocsOfKind ==
    \A k \in DOMAIN stack :
        /\ stack[k].doc = "none" <=> It.builds = "nothing"
        /\ stack[k].doc = "missing" => It.builds = "late"

StackInWalk ==
    /\ pc \in {"open", "root", "finish"} => stack = <<>>
    /\ pc = "finish" => ended

\* A loop whose document is missing is never at its end.
MissingIsOpen ==
    Walking /\ Top.doc = "missing" => Top.left > 0 \/ Top.at = "value"

Noticing == It.fails \in {"return", "state", "flag", "throw", "crash"}

KnowsFailure ==
    Noticing /\ pc # "done" =>
        /\ failed <=> error # "none" \/ MissingIn(stack) # {}
        /\ ok

ErrorOfKind == It.fails \in {"return", "throw"} => error \in {"none", "return"}

Shape == DocsOfKind /\ StackInWalk /\ MissingIsOpen

IInv == /\ TypeOK /\ Shape /\ HeldAreMade
        /\ KnowsFailure /\ ErrorOfKind
        /\ WholeOrFalse /\ AllFreed

-----------------------------------------------------------------------------
(* The table of programs.                                                  *)

\* What holds of every program.
Consistent(p) ==
    /\ p.fails \in {"return", "state", "flag", "throw", "dropped", "crash",
                    "undefined"}
    /\ p.passes \in 1..2
    /\ p.builds \in {"nothing", "checked", "late"}
    /\ p.builds = "late" => p.fails = "return"
    /\ p.builds = "late" => p.closes = "inner"
    /\ p.opens = "state" => p.builds = "nothing" /\ p.fails = "state"
    /\ p.fails \in {"return", "state", "flag", "throw", "crash"} =>
           p.passes = 1 /\ p.opens \in {"none", "state", "crash"}
    /\ p.fails = "throw" => p.loses = "nothing"

Looks(p) ==
    /\ p.fails \in {"return", "state", "flag", "throw", "crash"}
    /\ p.ends # "unchecked"

LEMMA ProgramFacts ==
    ASSUME NEW w \in DOMAIN Programs
    PROVE  /\ Consistent(Programs[w])
           /\ w \in Checking => Looks(Programs[w])
<1>1. /\ Consistent(CmpWrite) /\ Looks(CmpWrite)
      /\ Consistent(MsgpackCPack) /\ Looks(MsgpackCPack)
      /\ Consistent(MsgpackCppPack) /\ Looks(MsgpackCppPack)
      /\ Consistent(MongoCxxBuilder) /\ Looks(MongoCxxBuilder)
      /\ Consistent(RapidjsonWrite) /\ Looks(RapidjsonWrite)
      /\ Consistent(UbjWrite) /\ Looks(UbjWrite)
      /\ Consistent(JsonBuilder) /\ Looks(JsonBuilder)
      /\ Consistent(YajlGen) /\ Looks(YajlGen)
    BY DEF Consistent, Looks, Plain, CmpWrite, MsgpackCPack, MsgpackCppPack,
           MongoCxxBuilder, RapidjsonWrite, UbjWrite, JsonBuilder, YajlGen
<1>2. /\ Consistent(MpackWrite) /\ Looks(MpackWrite)
      /\ Consistent(MpackFile) /\ Looks(MpackFile)
    BY DEF Consistent, Looks, Plain, CmpWrite, MpackWrite, MpackFile
<1>3. /\ Consistent(BinnWrite) /\ Looks(BinnWrite)
      /\ Consistent(JanssonDump) /\ Looks(JanssonDump)
      /\ Consistent(BinnFile)
    BY DEF Consistent, Looks, Plain, CmpWrite, BinnWrite, JanssonDump, BinnFile
<1>4. /\ Consistent(LibbsonAppend) /\ Consistent(LibbsonFile)
      /\ Consistent(ZigpakWrite)
      /\ Consistent(RapidjsonFile) /\ Consistent(UbjFile)
    BY DEF Consistent, Plain, CmpWrite, LibbsonAppend, LibbsonFile, ZigpakWrite,
           RapidjsonFile, UbjFile
<1> QED BY <1>1, <1>2, <1>3, <1>4 DEF Programs, Checking

LEMMA ItFacts ==
    ASSUME writer \in Writers
    PROVE  /\ Consistent(It)
           /\ writer \in Checking => Looks(It)
BY WriterAssumption, ProgramFacts DEF It

-----------------------------------------------------------------------------
(* The stack of loops.                                                     *)

LEMMA MadeCount ==
    ASSUME NEW s \in Seq(Loops)
    PROVE  IsFiniteSet(MadeIn(s)) /\ Cardinality(MadeIn(s)) \in Nat
<1>1. IsFiniteSet(1..Len(s))
    BY FS_Interval
<1>2. MadeIn(s) \in SUBSET (1..Len(s))
    BY DEF MadeIn
<1>3. IsFiniteSet(MadeIn(s))
    BY <1>1, <1>2, FS_Subset
<1> QED BY <1>3, FS_CardinalityType

LEMMA NoneMade == Cardinality(MadeIn(<<>>)) = 0 /\ MissingIn(<<>>) = {}
<1>1. MadeIn(<<>>) = {} /\ MissingIn(<<>>) = {}
    BY DEF MadeIn, MissingIn
<1> QED BY <1>1, FS_EmptySet

LEMMA TopType ==
    ASSUME stack \in Seq(Loops), stack # <<>>
    PROVE  /\ Len(stack) \in Nat \ {0} /\ Top \in Loops
           /\ Outer \in Seq(Loops) /\ Len(Outer) = Len(stack) - 1
           /\ \A k \in 1..Len(Outer) : Outer[k] = stack[k]
<1>1. Len(stack) \in Nat \ {0} /\ Top \in Loops
    BY EmptySeq DEF Top
<1>2. PICK n \in Nat : n = Len(stack) - 1
    BY <1>1
<1>3. SubSeq(stack, 1, n) = [k \in 1..n |-> stack[k]]
    BY <1>1, <1>2
<1>4. \A k \in 1..n : stack[k] \in Loops
    BY <1>1, <1>2
<1> QED BY <1>1, <1>2, <1>3, <1>4 DEF Outer

\* The loop of the innermost function goes on.
LEMMA WithTopStack ==
    ASSUME stack \in Seq(Loops), stack # <<>>,
           NEW loop \in Loops, loop.doc = Top.doc
    PROVE  /\ WithTop(loop) \in Seq(Loops) /\ Len(WithTop(loop)) = Len(stack)
           /\ WithTop(loop)[Len(stack)] = loop
           /\ MadeIn(WithTop(loop)) = MadeIn(stack)
           /\ MissingIn(WithTop(loop)) = MissingIn(stack)
           /\ \A k \in 1..Len(stack) : WithTop(loop)[k].doc = stack[k].doc
<1>1. /\ Len(stack) \in Nat \ {0} /\ Outer \in Seq(Loops)
      /\ Len(Outer) = Len(stack) - 1
      /\ \A k \in 1..Len(Outer) : Outer[k] = stack[k]
    BY TopType
<1>2. <<loop>> \in Seq(Loops) /\ Len(<<loop>>) = 1 /\ <<loop>>[1] = loop
    OBVIOUS
<1>3. /\ WithTop(loop) \in Seq(Loops) /\ Len(WithTop(loop)) = Len(stack)
      /\ \A k \in 1..Len(stack) :
             WithTop(loop)[k] = IF k < Len(stack) THEN stack[k] ELSE loop
    BY <1>1, <1>2, ConcatProperties DEF WithTop
<1>4. \A k \in 1..Len(stack) : WithTop(loop)[k].doc = stack[k].doc
    BY <1>3 DEF Top
<1>5. DOMAIN WithTop(loop) = 1..Len(stack) /\ DOMAIN stack = 1..Len(stack)
    BY <1>3
<1> HIDE DEF WithTop
<1> QED BY <1>1, <1>3, <1>4, <1>5 DEF MadeIn, MissingIn

\* A function is called for a container.
LEMMA PushStack ==
    ASSUME NEW s \in Seq(Loops), NEW loop \in Loops
    PROVE  /\ Append(s, loop) \in Seq(Loops) /\ Append(s, loop) # <<>>
           /\ Len(Append(s, loop)) = Len(s) + 1
           /\ Append(s, loop)[Len(s) + 1] = loop
           /\ \A k \in 1..Len(s) : Append(s, loop)[k] = s[k]
           /\ Cardinality(MadeIn(Append(s, loop))) = Cardinality(MadeIn(s))
                + (IF loop.doc = "made" THEN 1 ELSE 0)
           /\ MissingIn(Append(s, loop)) # {} <=>
                  MissingIn(s) # {} \/ loop.doc = "missing"
<1>1. /\ Append(s, loop) \in Seq(Loops)
      /\ Len(Append(s, loop)) = Len(s) + 1 /\ Len(s) \in Nat
      /\ Append(s, loop)[Len(s) + 1] = loop
      /\ \A k \in 1..Len(s) : Append(s, loop)[k] = s[k]
    OBVIOUS
<1>2. Append(s, loop) # <<>>
    BY <1>1
<1> DEFINE t == Append(s, loop)
<1>3. DOMAIN t = 1..Len(s) + 1 /\ DOMAIN s = 1..Len(s)
    BY <1>1
<1>4. Cardinality(MadeIn(t)) =
          Cardinality(MadeIn(s)) + (IF loop.doc = "made" THEN 1 ELSE 0)
    <2>1. IsFiniteSet(MadeIn(s))
        BY MadeCount
    <2>2. CASE loop.doc = "made"
        <3>1. MadeIn(t) = MadeIn(s) \cup {Len(s) + 1}
            BY <1>1, <1>3, <2>2 DEF MadeIn
        <3>2. Len(s) + 1 \notin MadeIn(s)
            BY <1>1, <1>3 DEF MadeIn
        <3> QED BY <3>1, <3>2, <2>1, <2>2, FS_AddElement
    <2>3. CASE loop.doc # "made"
        <3>1. MadeIn(t) = MadeIn(s)
            BY <1>1, <1>3, <2>3 DEF MadeIn
        <3> QED BY <3>1, <2>1, <2>3, FS_CardinalityType
    <2> QED BY <2>2, <2>3
<1>5. MissingIn(t) # {} <=> MissingIn(s) # {} \/ loop.doc = "missing"
    BY <1>1, <1>3 DEF MissingIn
<1> QED BY <1>1, <1>2, <1>4, <1>5

\* A function returns.
LEMMA PopStack ==
    ASSUME stack \in Seq(Loops), stack # <<>>
    PROVE  /\ Outer \in Seq(Loops) /\ Len(Outer) = Len(stack) - 1
           /\ Cardinality(MadeIn(Outer)) = Cardinality(MadeIn(stack))
                - (IF Top.doc = "made" THEN 1 ELSE 0)
           /\ Top.doc # "missing" =>
                  (MissingIn(Outer) # {} <=> MissingIn(stack) # {})
<1>1. /\ Len(stack) \in Nat \ {0} /\ Top \in Loops /\ Outer \in Seq(Loops)
      /\ Len(Outer) = Len(stack) - 1
      /\ \A k \in 1..Len(Outer) : Outer[k] = stack[k]
    BY TopType
<1>2. DOMAIN stack = 1..Len(stack) /\ DOMAIN Outer = 1..Len(stack) - 1
    BY <1>1
<1>3. Cardinality(MadeIn(Outer)) =
          Cardinality(MadeIn(stack)) - (IF Top.doc = "made" THEN 1 ELSE 0)
    <2>1. IsFiniteSet(MadeIn(stack)) /\ Cardinality(MadeIn(stack)) \in Nat
        BY MadeCount
    <2>2. MadeIn(Outer) = MadeIn(stack) \ {Len(stack)}
        BY <1>1, <1>2 DEF MadeIn
    <2>3. Len(stack) \in MadeIn(stack) <=> Top.doc = "made"
        BY <1>1, <1>2 DEF MadeIn, Top
    <2>4. Cardinality(MadeIn(stack) \ {Len(stack)}) =
              IF Len(stack) \in MadeIn(stack)
              THEN Cardinality(MadeIn(stack)) - 1 ELSE Cardinality(MadeIn(stack))
        BY <2>1, FS_RemoveElement
    <2> QED BY <2>1, <2>2, <2>3, <2>4
<1>4. ASSUME Top.doc # "missing"
      PROVE  MissingIn(Outer) # {} <=> MissingIn(stack) # {}
    BY <1>1, <1>2, <1>4 DEF MissingIn, Top
<1> QED BY <1>1, <1>3, <1>4

\* The loop after the value at hand.
LEMMA CountedType ==
    ASSUME stack \in Seq(Loops), AtValue
    PROVE  /\ Counted(Top) \in Loops /\ Counted(Top).doc = Top.doc
           /\ stack # <<>> /\ Top \in Loops
           /\ ~Top.map => Top.left > 0
<1>1. stack # <<>> /\ Top \in Loops
    BY TopType DEF AtValue, Walking
<1>2. CASE Top.map
    BY <1>1, <1>2 DEF Counted, Loops
<1>3. CASE ~Top.map
    <2>1. Top.left > 0 /\ Top.left - 1 \in Nat
        BY <1>1, <1>3 DEF AtValue, Loops
    <2> QED BY <1>1, <1>3, <2>1 DEF Counted, Loops
<1> QED BY <1>1, <1>2, <1>3

-----------------------------------------------------------------------------
(* What a call does to what is known of failures.                          *)

Errors == {"none", "return", "state", "flag"}

LEMMA EmitFacts ==
    ASSUME TypeOK, Emit \/ NoCall
    PROVE  /\ calls' \in Nat /\ failed' \in BOOLEAN /\ error' \in Errors
           /\ Noticing => \/ failed' = failed /\ error' = error
                          \/ failed' = TRUE /\ error' # "none"
           /\ It.fails \in {"return", "throw"} => error' = error
<1>1. failed' \in BOOLEAN
    BY Zenon DEF Emit, NoCall, TypeOK
<1>2. calls' \in Nat
    BY DEF Emit, NoCall, TypeOK
<1>3. error' \in Errors
    <2>1. error \in Errors
        BY DEF TypeOK, Errors
    <2> QED BY <2>1 DEF Emit, NoCall, Errors
<1> QED BY <1>1, <1>2, <1>3 DEF Emit, NoCall, Noticing

\* What the call for a container leaves in the loop over its elements.
BegunWith(loop) ==
    /\ loop.left > 0
    /\ loop.doc = "none" <=> It.builds = "nothing"
    /\ loop.doc = "missing" => It.builds = "late"
    /\ held' = held + (IF loop.doc = "made" THEN 1 ELSE 0)
    /\ calls' \in Nat /\ failed' \in BOOLEAN /\ error' \in Errors
    /\ Noticing =>
          \/ failed' = failed /\ error' = error /\ loop.doc # "missing"
          \/ failed' = TRUE /\ error' # "none"
          \/ failed' = TRUE /\ loop.doc = "missing"
    /\ It.fails \in {"return", "throw"} => error' = error

LEMMA BeginFacts ==
    ASSUME TypeOK, NEW below \in Seq(Loops), Begin(below)
    PROVE  \E loop \in Loops : stack' = Append(below, loop) /\ BegunWith(loop)
<1>1. PICK map \in BOOLEAN, n \in 1..MaxCount :
       \/ /\ It.builds = "nothing"
          /\ Emit \/ NoCall
          /\ stack' = Append(below, Loop(map, n, "none"))
          /\ UNCHANGED held
       \/ /\ It.builds # "nothing"
          /\ Emit
          /\ stack' = Append(below, Loop(map, n, "made"))
          /\ held' = held + 1
       \/ /\ It.builds = "late"
          /\ calls' = calls + 1 /\ failed' = TRUE
          /\ stack' = Append(below, Loop(map, n, "missing"))
          /\ UNCHANGED <<error, held>>
    BY Zenon DEF Begin
<1>2. \A doc \in {"none", "made", "missing"} :
          /\ Loop(map, n, doc) \in Loops /\ Loop(map, n, doc).left > 0
          /\ Loop(map, n, doc).doc = doc
    BY WriterAssumption DEF Loop, Loops
<1>3. held \in Nat /\ calls \in Nat /\ error \in Errors
    BY DEF TypeOK, Errors
<1>4. CASE /\ It.builds = "nothing"
           /\ Emit \/ NoCall
           /\ stack' = Append(below, Loop(map, n, "none"))
           /\ UNCHANGED held
    <2> DEFINE loop == Loop(map, n, "none")
    <2>1. /\ loop \in Loops /\ loop.left > 0 /\ loop.doc = "none"
        BY <1>2
    <2> HIDE DEF loop
    <2>2. failed' \in BOOLEAN
        BY <1>4, EmitFacts, Zenon
    <2>3. /\ calls' \in Nat /\ error' \in Errors
          /\ Noticing => \/ failed' = failed /\ error' = error
                         \/ failed' = TRUE /\ error' # "none"
          /\ It.fails \in {"return", "throw"} => error' = error
        BY <1>4, EmitFacts, Zenon
    <2>4. held' = held + (IF loop.doc = "made" THEN 1 ELSE 0)
        BY <1>3, <1>4, <2>1
    <2>5. loop.doc # "missing" /\ It.builds = "nothing"
        BY <1>4, <2>1
    <2>6. Noticing =>
              \/ failed' = failed /\ error' = error /\ loop.doc # "missing"
              \/ failed' = TRUE /\ error' # "none"
              \/ failed' = TRUE /\ loop.doc = "missing"
        BY <2>3, <2>5, Zenon
    <2>7. BegunWith(loop)
        BY <2>1, <2>2, <2>3, <2>4, <2>5, <2>6, Zenon DEF BegunWith
    <2> QED BY <1>4, <2>1, <2>7 DEF loop
<1>5. CASE /\ It.builds # "nothing" /\ Emit
           /\ stack' = Append(below, Loop(map, n, "made"))
           /\ held' = held + 1
    <2> DEFINE loop == Loop(map, n, "made")
    <2>1. /\ loop \in Loops /\ loop.left > 0 /\ loop.doc = "made"
        BY <1>2
    <2> HIDE DEF loop
    <2>2. failed' \in BOOLEAN
        BY <1>5, EmitFacts, Zenon
    <2>3. BegunWith(loop)
        BY <1>5, <2>1, EmitFacts, <2>2 DEF BegunWith
    <2> QED BY <1>5, <2>1, <2>3 DEF loop
<1>6. CASE /\ It.builds = "late"
           /\ calls' = calls + 1 /\ failed' = TRUE
           /\ stack' = Append(below, Loop(map, n, "missing"))
           /\ UNCHANGED <<error, held>>
    <2> DEFINE loop == Loop(map, n, "missing")
    <2>1. /\ loop \in Loops /\ loop.left > 0 /\ loop.doc = "missing"
        BY <1>2
    <2> HIDE DEF loop
    <2>2. failed' \in BOOLEAN
        BY <1>6, Zenon
    <2>3. BegunWith(loop)
        BY <1>3, <1>6, <2>1, <2>2 DEF BegunWith
    <2> QED BY <1>6, <2>1, <2>3 DEF loop
<1> QED BY <1>1, <1>4, <1>5, <1>6

\* The end of a file: the last one, or the next is opened.
LEMMA NextFileFacts ==
    ASSUME TypeOK, NEW result \in BOOLEAN, NextFile(result)
    PROVE  /\ pc' \in {"open", "done"} /\ pass' \in 1..2 /\ ok' \in BOOLEAN
           /\ returned' \in {"none", "true", "false", "crashed"}
           /\ Noticing => /\ pc' = "done"
                          /\ returned' = "true" <=> ok /\ result
<1>1. Consistent(It) /\ pass \in 1..2 /\ ok \in BOOLEAN
    BY ItFacts DEF TypeOK
<1>2. It.passes \in 1..2 /\ (Noticing => It.passes = 1)
    BY <1>1 DEF Consistent, Noticing
<1>3. ok' \in BOOLEAN
    BY <1>1, Zenon DEF NextFile
<1>4. \/ /\ pass < It.passes /\ pc' = "open" /\ pass' = pass + 1
         /\ returned' = returned
      \/ /\ pc' = "done" /\ pass' = pass
         /\ returned' = IF ok /\ result THEN "true" ELSE "false"
    BY Zenon DEF NextFile
<1>5. pass' \in 1..2 /\ pc' \in {"open", "done"}
    BY <1>1, <1>2, <1>4
<1>6. returned' \in {"none", "true", "false", "crashed"}
    BY <1>4 DEF TypeOK
<1>7. Noticing => ~(pass < It.passes)
    BY <1>1, <1>2
<1> QED BY <1>3, <1>4, <1>5, <1>6, <1>7

-----------------------------------------------------------------------------
(* The invariant: the beginning, and what steps have in common.            *)

LEMMA InvInit == Init => IInv
<1> SUFFICES ASSUME Init PROVE IInv
    OBVIOUS
<1>1. TypeOK
    <2>1. ended \in BOOLEAN /\ failed \in BOOLEAN /\ ok \in BOOLEAN
        BY Zenon DEF Init
    <2> QED BY <2>1 DEF Init, TypeOK
<1>2. Cardinality(MadeIn(stack)) = 0 /\ MissingIn(stack) = {}
    BY NoneMade DEF Init
<1>3. HeldAreMade
    BY <1>2 DEF Init, HeldAreMade, Output
<1> QED BY <1>1, <1>2, <1>3
        DEF Init, IInv, Shape, DocsOfKind, StackInWalk, MissingIsOpen, Walking,
            KnowsFailure, ErrorOfKind, WholeOrFalse, AllFreed

\* A step into or within the walk.
LEMMA WalkStep ==
    ASSUME IInv, pc \in {"root", "walk"}, pc' = "walk",
           UNCHANGED <<writer, pass, ended, ok, returned>>,
           stack' \in Seq(Loops), calls' \in Nat, failed' \in BOOLEAN,
           error' \in Errors, DocsOfKind', MissingIsOpen', ErrorOfKind',
           held' \in Int,
           held' - held = Cardinality(MadeIn(stack'))
                              - Cardinality(MadeIn(stack)),
           Noticing => (failed' <=> error' # "none" \/ MissingIn(stack') # {})
    PROVE  IInv'
<1>1. It' = It
    BY DEF It
<1>2. /\ Cardinality(MadeIn(stack)) \in Nat /\ Cardinality(MadeIn(stack')) \in Nat
    BY MadeCount DEF IInv, TypeOK
<1>3. Output' = Output /\ Output \in {0, 1} /\ held \in Nat
    BY <1>1 DEF Output, IInv, TypeOK
<1>4. HeldAreMade' /\ held' \in Nat
    BY <1>1, <1>2, <1>3 DEF IInv, HeldAreMade
<1>5. TypeOK'
    BY <1>4 DEF IInv, TypeOK, Errors
<1>6. StackInWalk'
    BY DEF StackInWalk
<1>7. KnowsFailure'
    BY <1>1 DEF IInv, KnowsFailure, Noticing
<1>8. WholeOrFalse' /\ AllFreed'
    BY <1>4 DEF WholeOrFalse, AllFreed
<1> QED BY <1>4, <1>5, <1>6, <1>7, <1>8 DEF IInv, Shape

\* A step that ends the program.
LEMMA LastStep ==
    ASSUME TypeOK', DocsOfKind', ErrorOfKind', WholeOrFalse', AllFreed',
           pc' = "done"
    PROVE  IInv'
<1>1. StackInWalk' /\ MissingIsOpen' /\ HeldAreMade' /\ KnowsFailure'
    BY DEF StackInWalk, MissingIsOpen, Walking, HeldAreMade, KnowsFailure
<1> QED BY <1>1 DEF IInv, Shape

\* A step between the files, or between a file and its walk.
LEMMA OuterStep ==
    ASSUME TypeOK', pc' \in {"open", "root", "finish"}, stack' = <<>>,
           pc' = "finish" => ended',
           held' >= Output', It'.loses = "nothing" => held' = Output',
           Noticing' => ok' /\ (failed' <=> error' # "none"),
           ErrorOfKind'
    PROVE  IInv'
<1>1. Cardinality(MadeIn(stack')) = 0 /\ MissingIn(stack') = {}
    BY NoneMade
<1>2. HeldAreMade'
    <2>1. held' \in Nat /\ Output' \in {0, 1}
        BY DEF TypeOK, Output
    <2> QED BY <1>1, <2>1 DEF HeldAreMade
<1>3. KnowsFailure'
    BY <1>1 DEF KnowsFailure
<1>4. Shape'
    BY DEF Shape, DocsOfKind, StackInWalk, MissingIsOpen, Walking
<1>5. WholeOrFalse' /\ AllFreed'
    BY DEF WholeOrFalse, AllFreed, TypeOK
<1> QED BY <1>2, <1>3, <1>4, <1>5 DEF IInv

-----------------------------------------------------------------------------
(* The steps.                                                              *)

LEMMA InvOpen == IInv /\ (OpenOutput \/ OpenFails) => IInv'
<1> SUFFICES ASSUME IInv, OpenOutput \/ OpenFails PROVE IInv'
    OBVIOUS
<1>0. /\ TypeOK /\ pc = "open" /\ stack = <<>> /\ It' = It /\ Consistent(It)
      /\ writer' = writer /\ calls' = calls /\ ended' = FALSE
    BY ItFacts
       DEF IInv, TypeOK, Shape, StackInWalk, OpenOutput, OpenFails, It
<1>1. /\ held >= 0 /\ held \in Nat
      /\ It.loses = "nothing" => held = 0
    BY <1>0, NoneMade DEF IInv, HeldAreMade, Output, TypeOK
<1>2. Noticing => ok /\ (failed <=> error # "none")
    BY <1>0, NoneMade DEF IInv, KnowsFailure
<1>3. CASE OpenOutput
    <2>1. held' \in Nat /\ held' >= Output'
          /\ (It.loses = "nothing" => held' = Output')
        BY <1>0, <1>1, <1>3 DEF OpenOutput, Output
    <2>2. TypeOK'
        BY <1>0, <1>3, <2>1 DEF OpenOutput, TypeOK
    <2> QED BY <1>0, <1>2, <1>3, <2>1, <2>2, OuterStep
            DEF OpenOutput, Noticing, IInv, ErrorOfKind
<1>4. CASE OpenFails /\ It.opens = "state"
    <2>1. /\ pc' = "root" /\ error' = "state" /\ held' = held + 1
          /\ failed' = TRUE
          /\ UNCHANGED <<stack, pass, ok, returned>>
        BY <1>4 DEF OpenFails
    <2>2. It.builds = "nothing" /\ It.fails = "state"
        BY <1>0, <1>4 DEF Consistent
    <2>3. Output' = 1
        BY <1>0, <2>1, <2>2 DEF Output
    <2>0. failed' \in BOOLEAN /\ ended' \in BOOLEAN
        BY <1>0, <2>1, Zenon
    <2>4. TypeOK'
        BY <1>0, <1>1, <2>0, <2>1 DEF TypeOK
    <2>5. /\ ErrorOfKind' /\ held' >= Output'
          /\ It'.loses = "nothing" => held' = Output'
          /\ Noticing' => ok' /\ (failed' <=> error' # "none")
        BY <1>0, <1>1, <1>2, <2>1, <2>2, <2>3 DEF ErrorOfKind, Noticing
    <2> QED BY <1>0, <2>1, <2>4, <2>5, OuterStep
<1>5. CASE OpenFails /\ It.opens \in {"return", "noted"}
    <2>1. /\ failed' = TRUE /\ NextFile(FALSE)
          /\ UNCHANGED <<stack, error, held>>
        BY <1>5 DEF OpenFails
    <2>2. /\ pc' \in {"open", "done"} /\ pass' \in 1..2 /\ ok' \in BOOLEAN
          /\ returned' \in {"none", "true", "false", "crashed"}
        BY <1>0, <2>1, NextFileFacts
    <2>3. ~Noticing /\ writer \notin Checking
        BY <1>0, <1>5, ItFacts DEF Consistent, Noticing, Looks, TypeOK
    <2>4. TypeOK'
        BY <1>0, <2>1, <2>2 DEF TypeOK
    <2>5. ErrorOfKind'
        BY <1>0, <2>1 DEF IInv, ErrorOfKind
    <2>6. CASE pc' = "open"
        <3>1. Output' = 0
            BY <2>6 DEF Output
        <3>2. ~Noticing'
            BY <1>0, <2>3 DEF Noticing
        <3> QED BY <1>0, <1>1, <2>1, <2>4, <2>5, <2>6, <3>1, <3>2, OuterStep
    <2>7. CASE pc' = "done"
        <3>1. WholeOrFalse' /\ AllFreed' /\ DocsOfKind'
            BY <1>0, <1>1, <2>1, <2>3 DEF WholeOrFalse, AllFreed, DocsOfKind
        <3> QED BY <2>4, <2>5, <2>7, <3>1, LastStep
    <2> QED BY <2>2, <2>6, <2>7
<1>6. CASE OpenFails /\ It.opens = "crash"
    <2>1. /\ failed' = TRUE /\ pc' = "done" /\ returned' = "crashed"
          /\ UNCHANGED <<stack, error, held, pass, ok>>
        BY <1>6 DEF OpenFails, Crash
    <2>2. TypeOK'
        BY <1>0, <2>1 DEF TypeOK
    <2>3. WholeOrFalse' /\ AllFreed' /\ DocsOfKind' /\ ErrorOfKind'
        BY <1>0, <1>1, <2>1
           DEF IInv, WholeOrFalse, AllFreed, DocsOfKind, ErrorOfKind
    <2> QED BY <2>1, <2>2, <2>3, LastStep
<1> QED BY <1>3, <1>4, <1>5, <1>6 DEF OpenFails

LEMMA InvRoot == IInv /\ EncodeRoot => IInv'
<1> SUFFICES ASSUME IInv, EncodeRoot PROVE IInv'
    OBVIOUS
<1>0. /\ TypeOK /\ pc = "root" /\ stack = <<>> /\ error # "return" /\ It' = It
      /\ pc' = "walk" /\ UNCHANGED <<writer, pass, ended, ok, returned>>
    BY DEF IInv, Shape, StackInWalk, EncodeRoot, AtRoot, It
<1>1. <<>> \in Seq(Loops)
    OBVIOUS
<1>2. PICK loop \in Loops : stack' = Append(<<>>, loop) /\ BegunWith(loop)
    BY <1>0, <1>1, BeginFacts DEF EncodeRoot
<1>3. /\ stack' \in Seq(Loops) /\ Len(stack') = 1 /\ stack'[1] = loop
      /\ Cardinality(MadeIn(stack')) = (IF loop.doc = "made" THEN 1 ELSE 0)
      /\ MissingIn(stack') # {} <=> loop.doc = "missing"
    <2>1. PICK s \in Seq(Loops) : s = <<>>
        BY <1>1
    <2>2. Len(s) = 0 /\ stack' = Append(s, loop)
        BY <1>2, <2>1
    <2>3. Cardinality(MadeIn(s)) = 0 /\ MissingIn(s) = {}
        BY <2>1, NoneMade
    <2>4. /\ Append(s, loop) \in Seq(Loops)
          /\ Len(Append(s, loop)) = Len(s) + 1
          /\ Append(s, loop)[Len(s) + 1] = loop
          /\ Cardinality(MadeIn(Append(s, loop))) = Cardinality(MadeIn(s))
                + (IF loop.doc = "made" THEN 1 ELSE 0)
          /\ MissingIn(Append(s, loop)) # {} <=>
                  MissingIn(s) # {} \/ loop.doc = "missing"
        BY PushStack, Zenon
    <2> QED BY <2>2, <2>3, <2>4
<1>4. Cardinality(MadeIn(stack)) = 0 /\ MissingIn(stack) = {} /\ held \in Nat
    BY <1>0, NoneMade DEF TypeOK
<1>5. held' \in Int
      /\ held' - held = Cardinality(MadeIn(stack')) - Cardinality(MadeIn(stack))
    BY <1>2, <1>3, <1>4 DEF BegunWith
<1>6. DocsOfKind'
    BY <1>0, <1>2, <1>3 DEF DocsOfKind, BegunWith
<1>7. MissingIsOpen'
    BY <1>2, <1>3 DEF MissingIsOpen, Top, BegunWith
<1>8. Noticing => (failed' <=> error' # "none" \/ MissingIn(stack') # {})
    BY <1>0, <1>2, <1>3, <1>4 DEF BegunWith, IInv, KnowsFailure
<1>9. ErrorOfKind'
    BY <1>0, <1>2 DEF BegunWith, IInv, ErrorOfKind
<1> QED BY <1>0, <1>2, <1>3, <1>5, <1>6, <1>7, <1>8, <1>9, WalkStep
        DEF BegunWith

\* A key or a scalar: the loop goes on.
LEMMA InvElement == IInv /\ (EncodeKey \/ EncodeScalar) => IInv'
<1> SUFFICES ASSUME IInv, EncodeKey \/ EncodeScalar PROVE IInv'
    OBVIOUS
<1>0. /\ TypeOK /\ pc = "walk" /\ pc' = "walk" /\ stack # <<>> /\ It' = It
      /\ error # "return" /\ stack \in Seq(Loops)
      /\ UNCHANGED <<writer, pass, ended, ok, held, returned>>
    BY DEF IInv, TypeOK, EncodeKey, EncodeScalar, AtKey, AtValue, Walking, It
<1>1. PICK loop \in Loops :
          /\ stack' = WithTop(loop) /\ loop.doc = Top.doc
          /\ loop.doc = "missing" => loop.at = "value"
    <2>1. CASE EncodeKey
        <3>1. Top \in Loops /\ Top.left > 0
            BY <1>0, <2>1, TopType DEF EncodeKey, AtKey
        <3>2. Top.left - 1 \in Nat
            BY <3>1 DEF Loops
        <3> DEFINE loop == [Top EXCEPT !.at = "value", !.left = @ - 1]
        <3>3. loop \in Loops /\ loop.doc = Top.doc /\ loop.at = "value"
            BY <3>1, <3>2 DEF Loops
        <3> QED BY <2>1, <3>3 DEF EncodeKey
    <2>2. CASE EncodeScalar
        BY <1>0, <2>2, CountedType DEF EncodeScalar
    <2> QED BY <2>1, <2>2
<1>2. /\ stack' \in Seq(Loops) /\ Len(stack') = Len(stack)
      /\ stack'[Len(stack)] = loop
      /\ MadeIn(stack') = MadeIn(stack) /\ MissingIn(stack') = MissingIn(stack)
      /\ \A k \in 1..Len(stack) : stack'[k].doc = stack[k].doc
    BY <1>0, <1>1, WithTopStack
<1>3. Emit \/ NoCall
    BY DEF EncodeKey, EncodeScalar
<1>4. /\ calls' \in Nat /\ failed' \in BOOLEAN /\ error' \in Errors
      /\ Noticing => \/ failed' = failed /\ error' = error
                     \/ failed' = TRUE /\ error' # "none"
      /\ It.fails \in {"return", "throw"} => error' = error
    BY <1>0, <1>3, EmitFacts
<1>5. /\ held' \in Int
      /\ held' - held = Cardinality(MadeIn(stack')) - Cardinality(MadeIn(stack))
    BY <1>0, <1>2, MadeCount DEF TypeOK
<1>6. DocsOfKind'
    BY <1>0, <1>2 DEF IInv, Shape, DocsOfKind
<1>7. MissingIsOpen'
    BY <1>1, <1>2 DEF MissingIsOpen, Top
<1>8. Noticing => (failed' <=> error' # "none" \/ MissingIn(stack') # {})
    BY <1>0, <1>2, <1>4 DEF IInv, KnowsFailure
<1>9. ErrorOfKind'
    BY <1>0, <1>4 DEF IInv, ErrorOfKind
<1> QED BY <1>0, <1>2, <1>4, <1>5, <1>6, <1>7, <1>8, <1>9, WalkStep

LEMMA InvContainer == IInv /\ EncodeContainer => IInv'
<1> SUFFICES ASSUME IInv, EncodeContainer PROVE IInv'
    OBVIOUS
<1>0. /\ TypeOK /\ pc = "walk" /\ pc' = "walk" /\ stack # <<>> /\ It' = It
      /\ error # "return" /\ stack \in Seq(Loops) /\ AtValue
      /\ UNCHANGED <<writer, pass, ended, ok, returned>>
    BY DEF IInv, TypeOK, EncodeContainer, AtValue, Walking, It
<1> DEFINE below == WithTop(Counted(Top))
<1>1. /\ below \in Seq(Loops) /\ Len(below) = Len(stack)
      /\ MadeIn(below) = MadeIn(stack) /\ MissingIn(below) = MissingIn(stack)
      /\ \A k \in 1..Len(stack) : below[k].doc = stack[k].doc
    BY <1>0, CountedType, WithTopStack
<1>2. Begin(below)
    BY DEF EncodeContainer
<1> HIDE DEF below
<1>3. PICK loop \in Loops : stack' = Append(below, loop) /\ BegunWith(loop)
    BY <1>0, <1>1, <1>2, BeginFacts
<1>4. /\ stack' \in Seq(Loops) /\ Len(stack') = Len(stack) + 1
      /\ stack'[Len(stack) + 1] = loop
      /\ \A k \in 1..Len(stack) : stack'[k] = below[k]
      /\ Cardinality(MadeIn(stack')) = Cardinality(MadeIn(stack))
             + (IF loop.doc = "made" THEN 1 ELSE 0)
      /\ MissingIn(stack') # {} <=> MissingIn(stack) # {} \/ loop.doc = "missing"
    BY <1>1, <1>3, PushStack
<1>5. Cardinality(MadeIn(stack)) \in Nat /\ held \in Nat
    BY <1>0, MadeCount DEF TypeOK
<1>6. /\ held' \in Int
      /\ held' - held = Cardinality(MadeIn(stack')) - Cardinality(MadeIn(stack))
    BY <1>3, <1>4, <1>5 DEF BegunWith
<1>7. DocsOfKind'
    <2>1. \A k \in DOMAIN stack' : k \in 1..Len(stack) \/ k = Len(stack) + 1
        BY <1>0, <1>4
    <2> QED BY <1>0, <1>1, <1>3, <1>4, <2>1
            DEF IInv, Shape, DocsOfKind, BegunWith
<1>8. MissingIsOpen'
    BY <1>3, <1>4 DEF MissingIsOpen, Top, BegunWith
<1>9. Noticing => (failed' <=> error' # "none" \/ MissingIn(stack') # {})
    BY <1>0, <1>3, <1>4 DEF BegunWith, IInv, KnowsFailure
<1>10. ErrorOfKind'
    BY <1>0, <1>3 DEF BegunWith, IInv, ErrorOfKind
<1> QED BY <1>0, <1>3, <1>4, <1>6, <1>7, <1>8, <1>9, <1>10, WalkStep
        DEF BegunWith

\* The document of a container that comes to its end is not missing, and so
\* no failure is forgotten with it.
LEMMA InvEnd == IInv /\ EndContainer => IInv'
<1> SUFFICES ASSUME IInv, EndContainer PROVE IInv'
    OBVIOUS
<1>0. /\ TypeOK /\ pc = "walk" /\ stack # <<>> /\ It' = It
      /\ stack \in Seq(Loops) /\ error # "return" /\ stack' = Outer
      /\ Top.doc # "missing"
      /\ Emit \/ NoCall
      /\ UNCHANGED <<writer, pass, ok, returned>>
    <2>1. Walking /\ Top.at = "next" /\ Top.left = 0
        BY DEF EndContainer, AtEnd
    <2> QED BY <2>1
            DEF IInv, TypeOK, Shape, MissingIsOpen, EndContainer, Walking, It
<1>1. /\ Outer \in Seq(Loops) /\ Len(Outer) = Len(stack) - 1
      /\ Len(stack) \in Nat \ {0} /\ Top \in Loops
      /\ \A k \in 1..Len(Outer) : Outer[k] = stack[k]
    BY <1>0, TopType
<1>2. /\ Cardinality(MadeIn(stack')) = Cardinality(MadeIn(stack))
             - (IF Top.doc = "made" THEN 1 ELSE 0)
      /\ MissingIn(stack') # {} <=> MissingIn(stack) # {}
    BY <1>0, PopStack
<1>3. /\ calls' \in Nat /\ failed' \in BOOLEAN /\ error' \in Errors
      /\ Noticing => \/ failed' = failed /\ error' = error
                     \/ failed' = TRUE /\ error' # "none"
      /\ It.fails \in {"return", "throw"} => error' = error
    BY <1>0, EmitFacts
<1>4. Noticing => (failed' <=> error' # "none" \/ MissingIn(stack') # {})
    BY <1>0, <1>2, <1>3 DEF IInv, KnowsFailure
<1>5. ErrorOfKind'
    BY <1>0, <1>3 DEF IInv, ErrorOfKind
<1>6. /\ Cardinality(MadeIn(stack)) \in Nat /\ held \in Nat
      /\ Cardinality(MadeIn(stack')) \in Nat
    BY <1>0, <1>1, MadeCount DEF TypeOK
<1>7. CASE Len(stack) = 1
    <2>1. stack' = <<>>
        BY <1>0, <1>1, <1>7, EmptySeq
    <2>2. pc' = "finish" /\ ended' = TRUE /\ held' = held
        BY <1>7 DEF EndContainer
    <2>3. (IF Top.doc = "made" THEN 1 ELSE 0) + Output = 1
        <3>1. Top.doc = "none" <=> It.builds = "nothing"
            BY <1>0, <1>1 DEF IInv, Shape, DocsOfKind, Top
        <3> QED BY <1>0, <1>1, <3>1 DEF Output, Loops
    <2>4. Output \in {0, 1} /\ Output' = 1
        BY <2>2 DEF Output
    <2>5. Cardinality(MadeIn(stack)) + Output = 1
        BY <1>2, <1>6, <2>1, <2>3, <2>4, NoneMade
    <2>6. held' >= Output' /\ (It'.loses = "nothing" => held' = Output')
        BY <1>0, <1>6, <2>2, <2>4, <2>5 DEF IInv, HeldAreMade
    <2>7. Noticing' => ok' /\ (failed' <=> error' # "none")
        BY <1>0, <1>4, <2>1, NoneMade DEF IInv, KnowsFailure, Noticing
    <2>8. ended' \in BOOLEAN
        BY <2>2, Zenon
    <2>9. TypeOK'
        BY <1>0, <1>3, <1>6, <2>1, <2>2, <2>8 DEF TypeOK, Errors
    <2> QED BY <1>5, <2>1, <2>2, <2>6, <2>7, <2>9, OuterStep
<1>8. CASE Len(stack) # 1
    <2>1. /\ held' = IF Top.doc = "made" THEN held - 1 ELSE held
          /\ pc' = "walk" /\ ended' = ended
        BY <1>0, <1>8 DEF EndContainer
    <2>2. held' \in Int
          /\ held' - held = Cardinality(MadeIn(stack')) - Cardinality(MadeIn(stack))
        BY <1>2, <1>6, <2>1
    <2>3. DocsOfKind'
        BY <1>0, <1>1 DEF IInv, Shape, DocsOfKind
    <2>4. MissingIsOpen'
        <3>1. stack[Len(stack) - 1].doc # "missing"
            BY <1>1, <1>8 DEF EndContainer
        <3> QED BY <1>0, <1>1, <1>8, <3>1 DEF MissingIsOpen, Top
    <2> QED BY <1>0, <1>1, <1>3, <1>4, <1>5, <2>1, <2>2, <2>3, <2>4, WalkStep
<1> QED BY <1>7, <1>8

LEMMA InvCallFails == IInv /\ CallFails => IInv'
<1> SUFFICES ASSUME IInv, CallFails PROVE IInv'
    OBVIOUS
<1>0. /\ TypeOK /\ pc \in {"root", "walk"} /\ It' = It /\ Consistent(It)
      /\ failed' = TRUE /\ failed' \in BOOLEAN
      /\ UNCHANGED <<writer, calls, pass, ended, ok>>
    <2>1. failed' \in BOOLEAN
        BY Zenon DEF CallFails
    <2> QED BY <2>1, ItFacts
        DEF IInv, TypeOK, CallFails, AtRoot, AtKey, AtValue, AtEnd, Walking, It
<1>1. CASE It.fails = "return"
    <2>1. /\ error' = "return" /\ UNCHANGED <<stack, pc, returned>>
          /\ held' \in {held, held + 1}
          /\ It.loses = "nothing" => held' = held
        BY <1>1 DEF CallFails
    <2>2. held \in Nat /\ held' \in Nat /\ held' >= held
        BY <1>0, <2>1 DEF TypeOK
    <2>3. TypeOK'
        BY <1>0, <2>1, <2>2 DEF TypeOK
    <2>4. Shape'
        BY <1>0, <2>1
           DEF IInv, Shape, DocsOfKind, StackInWalk, MissingIsOpen, Walking
    <2>5. Output' = Output /\ Output \in Nat /\ Cardinality(MadeIn(stack)) \in Nat
        BY <1>0, <2>1, MadeCount DEF Output, TypeOK
    <2>6. HeldAreMade'
        BY <1>0, <2>1, <2>2, <2>5 DEF IInv, HeldAreMade
    <2>7. KnowsFailure' /\ ErrorOfKind'
        BY <1>0, <2>1 DEF IInv, KnowsFailure, ErrorOfKind, Noticing
    <2>8. WholeOrFalse' /\ AllFreed'
        BY <1>0, <2>1, <2>2 DEF WholeOrFalse, AllFreed
    <2> QED BY <2>3, <2>4, <2>6, <2>7, <2>8 DEF IInv
<1>2. CASE It.fails = "throw"
    <2>1. /\ pc' = "done" /\ returned' = "false" /\ stack' = <<>> /\ held' = 0
          /\ error' = error
        BY <1>2 DEF CallFails
    <2>2. TypeOK'
        BY <1>0, <2>1 DEF TypeOK
    <2>3. WholeOrFalse' /\ AllFreed' /\ DocsOfKind' /\ ErrorOfKind'
        BY <1>0, <2>1
           DEF IInv, WholeOrFalse, AllFreed, DocsOfKind, ErrorOfKind
    <2> QED BY <2>1, <2>2, <2>3, LastStep
<1>3. CASE It.fails \in {"crash", "undefined"}
    <2>1. /\ pc' = "done" /\ returned' = "crashed"
          /\ UNCHANGED <<stack, error, held>>
        BY <1>3 DEF CallFails, Crash
    <2>2. TypeOK'
        BY <1>0, <2>1 DEF TypeOK
    <2>3. WholeOrFalse' /\ AllFreed' /\ DocsOfKind' /\ ErrorOfKind'
        BY <1>0, <2>1
           DEF IInv, Shape, WholeOrFalse, AllFreed, DocsOfKind, ErrorOfKind,
               TypeOK
    <2> QED BY <2>1, <2>2, <2>3, LastStep
<1> QED BY <1>1, <1>2, <1>3 DEF CallFails

LEMMA InvReturn == IInv /\ ReturnFailure => IInv'
<1> SUFFICES ASSUME IInv, ReturnFailure PROVE IInv'
    OBVIOUS
<1>0. /\ TypeOK /\ pc = "walk" /\ pc' = "walk" /\ stack # <<>> /\ It' = It
      /\ error = "return" /\ stack \in Seq(Loops) /\ stack' = Outer
      /\ held' = (IF Top.doc = "made" THEN held - 1 ELSE held)
      /\ UNCHANGED <<writer, calls, pass, ended, failed, error, ok, returned>>
    BY DEF IInv, TypeOK, ReturnFailure, It
<1>1. /\ Outer \in Seq(Loops) /\ Len(Outer) = Len(stack) - 1
      /\ Len(stack) \in Nat \ {0}
      /\ \A k \in 1..Len(Outer) : Outer[k] = stack[k]
    BY <1>0, TopType
<1>2. Cardinality(MadeIn(stack')) =
          Cardinality(MadeIn(stack)) - (IF Top.doc = "made" THEN 1 ELSE 0)
    BY <1>0, PopStack
<1>3. /\ Cardinality(MadeIn(stack)) \in Nat /\ held \in Nat
      /\ Cardinality(MadeIn(stack')) \in Nat
    BY <1>0, <1>1, MadeCount DEF TypeOK
<1>4. /\ held' \in Int
      /\ held' - held = Cardinality(MadeIn(stack')) - Cardinality(MadeIn(stack))
    BY <1>0, <1>2, <1>3
<1>5. DocsOfKind'
    BY <1>0, <1>1 DEF IInv, Shape, DocsOfKind
<1>6. MissingIsOpen'
    BY <1>0 DEF MissingIsOpen, Walking
<1>7. Noticing => (failed' <=> error' # "none" \/ MissingIn(stack') # {})
    BY <1>0 DEF IInv, KnowsFailure
<1>8. ErrorOfKind'
    BY <1>0 DEF IInv, ErrorOfKind
<1>9. calls' \in Nat /\ failed' \in BOOLEAN /\ error' \in Errors
    BY <1>0 DEF TypeOK, Errors
<1> QED BY <1>0, <1>1, <1>4, <1>5, <1>6, <1>7, <1>8, <1>9, WalkStep

LEMMA InvGiveUp == IInv /\ GiveUp => IInv'
<1> SUFFICES ASSUME IInv, GiveUp PROVE IInv'
    OBVIOUS
<1>0. /\ TypeOK /\ pc \in {"root", "walk"} /\ error = "return" /\ stack = <<>>
      /\ It' = It /\ pc' = "done" /\ returned' = "false"
      /\ held' = (IF It.builds # "nothing" \/ It.loses = "output"
                  THEN held ELSE held - 1)
      /\ UNCHANGED <<writer, stack, calls, pass, ended, failed, error, ok>>
    BY DEF IInv, TypeOK, GiveUp, It
<1>1. Cardinality(MadeIn(stack)) = 0 /\ held \in Nat
    BY <1>0, NoneMade DEF TypeOK
<1>2. /\ held >= (IF It.builds = "nothing" THEN 1 ELSE 0)
      /\ It.loses = "nothing" =>
             held = (IF It.builds = "nothing" THEN 1 ELSE 0)
    BY <1>0, <1>1 DEF IInv, HeldAreMade, Output
<1>3. held' \in Nat /\ (It.loses = "nothing" => held' = 0)
    BY <1>0, <1>1, <1>2
<1>4. TypeOK'
    BY <1>0, <1>3 DEF TypeOK
<1>5. writer \in Checking => failed
    BY <1>0, ItFacts DEF IInv, KnowsFailure, Noticing, Looks, TypeOK
<1>6. WholeOrFalse' /\ AllFreed' /\ DocsOfKind' /\ ErrorOfKind'
    BY <1>0, <1>3, <1>5
       DEF IInv, WholeOrFalse, AllFreed, DocsOfKind, ErrorOfKind
<1> QED BY <1>0, <1>4, <1>6, LastStep

\* The end of a file, whatever came of it.
LEMMA InvFinish == IInv /\ (Finish \/ FinishFails) => IInv'
<1> SUFFICES ASSUME IInv, Finish \/ FinishFails PROVE IInv'
    OBVIOUS
<1>0. /\ TypeOK /\ pc = "finish" /\ stack = <<>> /\ stack' = <<>> /\ ended
      /\ It' = It /\ UNCHANGED <<writer, calls, ended, error>>
    BY DEF IInv, TypeOK, Shape, StackInWalk, Finish, FinishFails, Crash, It
<1>1. Cardinality(MadeIn(stack)) = 0 /\ MissingIn(stack) = {} /\ Output = 1
    BY <1>0, NoneMade DEF Output
<1>2. /\ held \in Nat /\ held >= 1
      /\ It.loses = "nothing" => held = 1
    BY <1>0, <1>1 DEF IInv, HeldAreMade, TypeOK
<1>3. Noticing => ok /\ (failed <=> error # "none")
    BY <1>0, <1>1 DEF IInv, KnowsFailure
<1>4. writer \in Checking => Noticing /\ It.ends # "unchecked"
    BY <1>0, ItFacts DEF Looks, Noticing, TypeOK
<1>5. ErrorOfKind'
    BY <1>0 DEF IInv, ErrorOfKind
<1>6. DocsOfKind'
    BY <1>0 DEF DocsOfKind
\* The next file, or the end of a program that returns.
<1>7. ASSUME NEW result \in BOOLEAN, NextFile(result),
             failed' \in BOOLEAN, held' \in Nat,
             It.loses = "nothing" => held' = 0,
             writer \in Checking => (result <=> ~failed')
      PROVE  IInv'
    <2>1. /\ pc' \in {"open", "done"} /\ pass' \in 1..2 /\ ok' \in BOOLEAN
          /\ returned' \in {"none", "true", "false", "crashed"}
          /\ Noticing => /\ pc' = "done"
                         /\ returned' = "true" <=> ok /\ result
        BY <1>0, <1>7, NextFileFacts
    <2>2. TypeOK'
        BY <1>0, <1>7, <2>1 DEF TypeOK
    <2>3. CASE pc' = "open"
        <3>1. ~Noticing' /\ Output' = 0
            BY <1>0, <2>1, <2>3 DEF Noticing, Output
        <3> QED BY <1>0, <1>5, <1>7, <2>2, <2>3, <3>1, OuterStep
    <2>4. CASE pc' = "done"
        <3>1. writer \in Checking => (returned' = "true" <=> ~failed')
            BY <1>3, <1>4, <1>7, <2>1
        <3>2. WholeOrFalse'
            BY <1>0, <3>1 DEF WholeOrFalse
        <3>3. AllFreed'
            BY <1>0, <1>7 DEF AllFreed
        <3> QED BY <1>5, <1>6, <2>2, <2>4, <3>2, <3>3, LastStep
    <2> QED BY <2>1, <2>3, <2>4
<1>8. CASE Finish
    <2>1. /\ NextFile(error = "none") /\ failed' = failed
          /\ held' = IF \/ It.loses = "file"
                        \/ It.loses = "output" /\ error # "none"
                     THEN held ELSE held - 1
        BY <1>8 DEF Finish
    <2>2. held' \in Nat /\ (It.loses = "nothing" => held' = 0)
        BY <1>2, <2>1
    <2>3. failed' \in BOOLEAN /\ (error = "none") \in BOOLEAN
        BY <1>0, <2>1 DEF TypeOK
    <2>4. writer \in Checking => ((error = "none") <=> ~failed')
        BY <1>3, <1>4, <2>1
    <2> QED BY <1>7, <2>1, <2>2, <2>3, <2>4
<1>9. CASE FinishFails
    <2>1. failed' = TRUE /\ failed' \in BOOLEAN
        BY <1>9, Zenon DEF FinishFails
    <2>2. CASE It.ends = "checked" /\ NextFile(FALSE) /\ held' = held - 1
        <3>1. held' \in Nat /\ (It.loses = "nothing" => held' = 0)
            BY <1>2, <2>2
        <3> QED BY <1>7, <2>1, <2>2, <3>1
    <2>3. CASE /\ It.ends = "unchecked" /\ NextFile(TRUE)
               /\ held' = IF It.loses = "file" THEN held ELSE held - 1
        <3>1. held' \in Nat /\ (It.loses = "nothing" => held' = 0)
            BY <1>2, <2>3
        <3> QED BY <1>4, <1>7, <2>1, <2>3, <3>1
    <2>4. CASE Crash /\ UNCHANGED <<pass, ok>>
        <3>1. pc' = "done" /\ returned' = "crashed" /\ held' = held
              /\ UNCHANGED <<pass, ok>>
            BY <2>4 DEF Crash
        <3>2. TypeOK'
            BY <1>0, <2>1, <3>1 DEF TypeOK
        <3>3. WholeOrFalse' /\ AllFreed'
            BY <1>0, <1>2, <2>1, <3>1 DEF WholeOrFalse, AllFreed
        <3> QED BY <1>5, <1>6, <3>1, <3>2, <3>3, LastStep
    <2> QED BY <1>9, <2>2, <2>3, <2>4 DEF FinishFails
<1> QED BY <1>8, <1>9

LEMMA InvNext == IInv /\ [Next]_vars => IInv'
<1> SUFFICES ASSUME IInv, [Next]_vars PROVE IInv'
    OBVIOUS
<1>1. CASE UNCHANGED vars
    <2>1. It' = It /\ stack' = stack /\ pc' = pc
        BY <1>1 DEF vars, It
    <2> QED BY <1>1, <2>1
            DEF vars, IInv, TypeOK, Shape, DocsOfKind, StackInWalk,
                MissingIsOpen, Walking, Top, HeldAreMade, Output, KnowsFailure,
                Noticing, ErrorOfKind, WholeOrFalse, AllFreed
<1> QED BY <1>1, InvOpen, InvRoot, InvElement, InvContainer, InvEnd,
           InvCallFails, InvReturn, InvGiveUp, InvFinish DEF Next, Done

LEMMA Invariant == Spec => []IInv
BY InvInit, InvNext, PTL DEF Spec

-----------------------------------------------------------------------------
\* The variables of the walk keep their types; nothing is freed that is not
\* held.
THEOREM TypeCorrect == Spec => []TypeOK
<1>1. IInv => TypeOK
    BY DEF IInv
<1> QED BY <1>1, Invariant, PTL

\* cmp-write and all the programs that look at what their library tells them
\* return true if and only if no call has failed, wherever it fails, for
\* objects of any size and nesting.
THEOREM TrueMeansWhole == Spec => []WholeOrFalse
<1>1. IInv => WholeOrFalse
    BY DEF IInv
<1> QED BY <1>1, Invariant, PTL

\* The programs that free what they have made do so however many documents
\* of binn, Jansson or json-builder are under construction when one fails.
THEOREM EveryDocumentFreed == Spec => []AllFreed
<1>1. IInv => AllFreed
    BY DEF IInv
<1> QED BY <1>1, Invariant, PTL

\* The programs that return what failed, or throw, make no call once they
\* notice a failure.
THEOREM NoCallAfterFailure == Spec => ExitsEarly
<1>1. ASSUME IInv, [Next]_vars, failed, It.fails \in {"return", "throw"},
             ~Unnoticed
      PROVE  UNCHANGED calls
    <2>1. pc # "done" => error = "return"
        <3> SUFFICES ASSUME pc # "done" PROVE error = "return"
            OBVIOUS
        <3>1. error # "none" \/ MissingIn(stack) # {}
            BY <1>1 DEF IInv, KnowsFailure, Noticing
        <3>2. error # "none"
            BY <1>1, <3>1 DEF Unnoticed, MissingIn
        <3> QED BY <1>1, <3>2 DEF IInv, ErrorOfKind
    <2>2. CASE pc = "done"
        BY <1>1, <2>2
           DEF Next, OpenOutput, OpenFails, EncodeRoot, EncodeKey,
               EncodeScalar, EncodeContainer, EndContainer, CallFails,
               ReturnFailure, GiveUp, Finish, FinishFails, Done, AtRoot,
               AtKey, AtValue, AtEnd, Walking, vars
    <2>3. CASE error = "return"
        BY <1>1, <2>3
           DEF Next, OpenOutput, OpenFails, EncodeRoot, EncodeKey,
               EncodeScalar, EncodeContainer, EndContainer, CallFails,
               ReturnFailure, GiveUp, Finish, FinishFails, Done, AtRoot,
               AtKey, AtValue, AtEnd, Walking, vars
    <2> QED BY <2>1, <2>2, <2>3
<1>2. IInv /\ [Next]_vars =>
          [failed /\ It.fails \in {"return", "throw"} /\ ~Unnoticed
               => UNCHANGED calls]_vars
    BY <1>1
<1> QED BY <1>2, Invariant, PTL DEF Spec, ExitsEarly
=============================================================================
