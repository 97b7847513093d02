---------------------------- MODULE ProcessProofs ----------------------------
(***************************************************************************)
(* Proofs about Process, for every number of fragments, every command line *)
(* and every kind of test program.                                         *)
(*                                                                         *)
(* The harness comes first, by itself.  Its reported numbers are right     *)
(* because of what holds inside the timed loop: as soon as any time has    *)
(* passed there has been a counted run, and hash_result is that of the     *)
(* last one alone.  That a run of it is a BenchRun rests on the arguments  *)
(* left in argv being the sizes that are not done.                         *)
(*                                                                         *)
(* A process is a harness with memory, so that all that is proved of       *)
(* Harness holds of it.  What is allocated is at any time the fragments    *)
(* the loops have made and not freed, the test data between setup_test and *)
(* teardown_test, the copy of a run_test under way, and what is lost.      *)
(* That the fragments are freed once each rests on the shuffle leaving a   *)
(* permutation.                                                            *)
(***************************************************************************)
EXTENDS Process, SequenceTheorems, TLAPS

-----------------------------------------------------------------------------
(* The harness by itself: the behaviours of Harness.                       *)

\* Inside go(), which has consumed the size at the head of argv but not
\* removed it.
InGo == pc \in {"setup", "warm", "timed", "report"}

\* The timed loop: it counts the runs, and the last one left its hash.
Loop ==
    /\ pc \in {"timed", "report"} => total = calls
    /\ pc \in {"timed", "report"} /\ elapsed > 0 =>
          total > 0 /\ hash = [seed |-> "initial", runs |-> 1]
    /\ pc = "report" => elapsed > WorkTime

\* argv holds the sizes not done, and go() only runs on one.
Rest(words, from) ==
    /\ Len(sizes) = from + Len(words)
    /\ \A k \in 1..Len(words) : Atoi[words[k]] = sizes[from + k]

ArgvIsRest ==
    /\ pc = "start" => done = 0 /\ sizes = SizesOf(argv)
    /\ pc = "args" \/ InGo => Len(sizes) > 0 /\ Rest(argv, done)
    /\ InGo => argv # <<>>
    /\ exit = "none" <=> pc # "exited"

IInv ==
    /\ TypeOK
    /\ Loop
    /\ Measured
    /\ FixtureHeld
    /\ ArgvIsRest

-----------------------------------------------------------------------------
LEMMA AtoiType == Atoi \in [DOMAIN Atoi -> Int]
BY DEF Atoi

LEMMA TailFacts ==
    ASSUME NEW s \in Seq(DOMAIN Atoi), s # <<>>
    PROVE  /\ Head(s) \in DOMAIN Atoi /\ Head(s) = s[1]
           /\ Tail(s) \in Seq(DOMAIN Atoi)
           /\ Len(s) > 0 /\ Len(Tail(s)) = Len(s) - 1
           /\ \A k \in 1..Len(Tail(s)) : Tail(s)[k] = s[k + 1]
OBVIOUS

\* The sizes read off a sequence of words.
LEMMA WordsFacts ==
    ASSUME NEW s \in Seq(DOMAIN Atoi)
    PROVE  /\ Words(s) \in Seq(Int) /\ Len(Words(s)) = Len(s)
           /\ \A k \in 1..Len(s) : Words(s)[k] = Atoi[s[k]]
<1>1. \A k \in 1..Len(s) : s[k] \in DOMAIN Atoi
    OBVIOUS
<1>2. Words(s) = [k \in 1..Len(s) |-> Atoi[s[k]]]
    BY DEF Words
<1>3. \A k \in 1..Len(s) : Atoi[s[k]] \in Int
    BY <1>1, AtoiType
<1> QED BY <1>2, <1>3

LEMMA HashTypes ==
    /\ NoHash \in Hash
    /\ \A seed \in {"zero", "initial"} : [seed |-> seed, runs |-> 1] \in Hash
    /\ NoReport \in [elapsed : Nat, total : Nat, calls : Nat, hash : Hash]
    /\ <<>> \in Seq(Int)
<1>1. NoHash \in Hash
    BY DEF NoHash, Hash
<1>2. \A seed \in {"zero", "initial"} : [seed |-> seed, runs |-> 1] \in Hash
    BY DEF Hash
<1>3. NoReport \in [elapsed : Nat, total : Nat, calls : Nat, hash : Hash]
    BY <1>1 DEF NoReport
<1> QED BY <1>1, <1>2, <1>3

-----------------------------------------------------------------------------
LEMMA InvInit == Init => IInv
<1> SUFFICES ASSUME Init PROVE IInv
    OBVIOUS
<1>1. argv \in Seq(DOMAIN Atoi)
    BY ArgumentAssumption DEF Init
<1>2. sizes \in Seq(Int)
    <2>1. CASE HasFlag(argv)
        BY <1>1, <2>1, TailFacts, WordsFacts DEF Init, SizesOf, HasFlag
    <2>2. CASE ~HasFlag(argv)
        BY <1>1, <2>2, WordsFacts DEF Init, SizesOf
    <2> QED BY <2>1, <2>2
<1>3. TypeOK
    BY <1>1, <1>2, HashTypes DEF Init, TypeOK
<1>4. Loop /\ FixtureHeld /\ Measured
    BY DEF Init, Loop, FixtureHeld, Measured
<1>5. ArgvIsRest
    BY DEF Init, ArgvIsRest, InGo
<1> QED BY <1>3, <1>4, <1>5 DEF IInv

LEMMA InvParseFlag == IInv /\ ParseFlag => IInv'
<1> SUFFICES ASSUME IInv, ParseFlag PROVE IInv'
    OBVIOUS
<1>1. argv' \in Seq(DOMAIN Atoi)
    BY TailFacts DEF IInv, TypeOK, ParseFlag, HasFlag
<1>2. TypeOK'
    BY <1>1 DEF IInv, TypeOK, ParseFlag, HasFlag, outVars, loopVars
<1>3. Loop' /\ Measured' /\ FixtureHeld'
    BY DEF IInv, Loop, Measured, FixtureHeld, ArgvIsRest,
           ParseFlag, outVars, loopVars
<1>4. ArgvIsRest'
    <2>1. done' = 0 /\ UNCHANGED sizes /\ sizes = Words(argv')
        BY DEF IInv, ArgvIsRest, ParseFlag, SizesOf, outVars
    <2>2. /\ Len(sizes) = Len(argv')
          /\ \A k \in 1..Len(argv') : Atoi[argv'[k]] = sizes[k]
        BY <1>1, <2>1, WordsFacts
    <2>3. argv' # <<>> => Len(argv') > 0
        BY <1>1
    <2>4. CASE argv' = <<>>
        BY <2>4, <2>1 DEF ParseFlag, ArgvIsRest, InGo
    <2>5. CASE argv' # <<>>
        <3>1. Rest(argv, done)'
            BY <2>1, <2>2, <1>1 DEF Rest
        <3> QED BY <3>1, <2>1, <2>2, <2>3, <2>5
                DEF ParseFlag, ArgvIsRest, InGo, IInv
    <2> QED BY <2>4, <2>5
<1> QED BY <1>2, <1>3, <1>4 DEF IInv

\* The ways out of the process.
LEMMA InvExit ==
    IInv /\ (NoMoreArgs \/ RejectSize \/ CallFails \/ ReportCrash) => IInv'
<1> SUFFICES ASSUME IInv, NoMoreArgs \/ RejectSize \/ CallFails \/ ReportCrash
             PROVE  IInv'
    OBVIOUS
<1>1. TypeOK'
    BY DEF IInv, TypeOK, NoMoreArgs, RejectSize, CallFails, ReportCrash, Exit,
           outVars, loopVars
<1>2. Loop' /\ Measured'
    BY DEF IInv, Loop, Measured, NoMoreArgs, RejectSize,
           CallFails, ReportCrash, Exit, outVars, loopVars
<1>3. FixtureHeld'
    BY DEF IInv, FixtureHeld, ArgvIsRest, NoMoreArgs, RejectSize, CallFails,
           ReportCrash, Exit
<1>4. ArgvIsRest'
    BY DEF IInv, ArgvIsRest, InGo, NoMoreArgs, RejectSize, CallFails,
           ReportCrash, Exit
<1> QED BY <1>1, <1>2, <1>3, <1>4 DEF IInv

\* The steps of the loops, which leave the arguments alone.
LEMMA InvLoop ==
    /\ IInv
    /\ AcceptSize \/ SetupBenchmark \/ WarmRun \/ WarmCheck \/ TimedRun
          \/ TimedCheck
    => IInv'
<1> SUFFICES ASSUME IInv, AcceptSize \/ SetupBenchmark \/ WarmRun \/ WarmCheck
                              \/ TimedRun \/ TimedCheck
             PROVE  IInv'
    OBVIOUS
<1>0. UNCHANGED <<argv, sizes, done, exit, report, rows, isBenchmark,
                  resultOnly, fragments>>
    BY DEF AcceptSize, SetupBenchmark, WarmRun, WarmCheck, TimedRun, TimedCheck,
           outVars
<1>1. TypeOK'
    <2>1. CASE WarmRun \/ TimedRun
        <3>1. hash' \in Hash
            BY <2>1, HashTypes DEF WarmRun, TimedRun, RunTest
        <3>2. i' \in Nat /\ elapsed' \in Nat
            BY <2>1, TimeAssumption
               DEF IInv, TypeOK, WarmRun, TimedRun, RunTest
        <3>3. total' \in Nat /\ calls' \in Nat
            BY <2>1 DEF IInv, TypeOK, WarmRun, TimedRun
        <3>4. UNCHANGED <<pc, fixture>>
            BY <2>1 DEF WarmRun, TimedRun
        <3> QED BY <1>0, <3>1, <3>2, <3>3, <3>4 DEF IInv, TypeOK
    <2>2. CASE AcceptSize \/ SetupBenchmark \/ WarmCheck \/ TimedCheck
        <3>1. hash' \in Hash
            BY <2>2, HashTypes DEF IInv, TypeOK, AcceptSize, SetupBenchmark,
                                   WarmCheck, TimedCheck, loopVars
        <3>2. i' \in Nat /\ elapsed' \in Nat /\ total' \in Nat /\ calls' \in Nat
            BY <2>2 DEF IInv, TypeOK, AcceptSize, SetupBenchmark, WarmCheck,
                        TimedCheck, loopVars
        <3>3. /\ pc' \in {"setup", "warm", "timed", "report"}
              /\ fixture' \in BOOLEAN
            BY <2>2 DEF IInv, TypeOK, AcceptSize, SetupBenchmark, WarmCheck,
                        TimedCheck
        <3> QED BY <1>0, <3>1, <3>2, <3>3 DEF IInv, TypeOK
    <2> QED BY <2>1, <2>2
<1>2. Loop'
    <2>1. CASE TimedRun
        BY <2>1, TimeAssumption DEF IInv, TypeOK, Loop, TimedRun, RunTest
    <2>2. CASE AcceptSize \/ SetupBenchmark \/ WarmRun \/ WarmCheck \/ TimedCheck
        BY <2>2 DEF IInv, TypeOK, Loop, AcceptSize, SetupBenchmark, WarmRun,
                    WarmCheck, TimedCheck, loopVars
    <2> QED BY <2>1, <2>2
<1>3. Measured'
    BY <1>0 DEF IInv, Measured
<1>4. FixtureHeld'
    BY <1>0 DEF IInv, FixtureHeld, ArgvIsRest, AcceptSize, SetupBenchmark,
                WarmRun, WarmCheck, TimedRun, TimedCheck
<1>5. ArgvIsRest'
    BY <1>0 DEF IInv, ArgvIsRest, Rest, InGo, AcceptSize, SetupBenchmark,
                WarmRun, WarmCheck, TimedRun, TimedCheck
<1> QED BY <1>1, <1>2, <1>3, <1>4, <1>5 DEF IInv

\* A size is completed.
LEMMA InvComplete == IInv /\ (SetupFileCreator \/ Report) => IInv'
<1> SUFFICES ASSUME IInv, SetupFileCreator \/ Report PROVE IInv'
    OBVIOUS
<1>0. /\ InGo /\ argv \in Seq(DOMAIN Atoi) /\ argv # <<>> /\ done \in Nat
      /\ pc' = "args" /\ argv' = Tail(argv) /\ done' = done + 1
      /\ UNCHANGED <<sizes, isBenchmark, resultOnly, fragments, exit, loopVars>>
      /\ fixture' = FALSE
    BY DEF IInv, TypeOK, ArgvIsRest, InGo, SetupFileCreator, Report, ReturnTrue
<1>1. TypeOK'
    <2>1. argv' \in Seq(DOMAIN Atoi) /\ ObjectSize \in Int
        BY <1>0, TailFacts, AtoiType DEF ObjectSize
    <2>2. rows' \in Seq(Int)
        <3>1. CASE SetupFileCreator
            BY <3>1 DEF IInv, TypeOK, SetupFileCreator
        <3>2. CASE Report
            <4>1. rows \in Seq(Int)
                BY DEF IInv, TypeOK
            <4>2. rows' = rows \/ rows' = Append(rows, ObjectSize)
                BY <3>2 DEF Report
            <4>3. Append(rows, ObjectSize) \in Seq(Int)
                BY <2>1, <4>1, AppendProperties
            <4> QED BY <4>1, <4>2, <4>3
        <3> QED BY <3>1, <3>2
    <2>3. report' \in [elapsed : Nat, total : Nat, calls : Nat, hash : Hash]
        <3>1. CASE SetupFileCreator
            BY <3>1 DEF IInv, TypeOK, SetupFileCreator
        <3>2. CASE Report
            BY <3>2 DEF IInv, TypeOK, Report
        <3> QED BY <3>1, <3>2
    <2>4. /\ i' \in Nat /\ elapsed' \in Nat /\ total' \in Nat /\ calls' \in Nat
          /\ hash' \in Hash
        BY <1>0 DEF IInv, TypeOK, loopVars
    <2>5. UNCHANGED <<sizes, isBenchmark, resultOnly, fragments, exit>>
        BY <1>0
    <2>6. pc' = "args" /\ done' \in Nat
        BY <1>0
    <2>7. fixture' \in BOOLEAN
        BY <1>0, Zenon
    <2> QED BY <2>1, <2>2, <2>3, <2>4, <2>5, <2>6, <2>7 DEF IInv, TypeOK
<1>2. Loop'
    BY <1>0 DEF Loop
<1>3. Measured'
    <2>1. CASE SetupFileCreator
        BY <2>1 DEF IInv, Measured, SetupFileCreator
    <2>2. CASE Report
        <3>1. elapsed > WorkTime /\ elapsed > 0 /\ pc = "report"
            BY <2>2, TimeAssumption DEF IInv, TypeOK, Loop, Report
        <3> QED BY <3>1, <2>2 DEF IInv, Loop, Measured, Report
    <2> QED BY <2>1, <2>2
<1>4. FixtureHeld'
    BY <1>0 DEF IInv, FixtureHeld, ArgvIsRest, InGo
<1>5. ArgvIsRest'
    <2>1. /\ Len(argv) \in Nat /\ Len(Tail(argv)) = Len(argv) - 1
          /\ \A k \in 1..Len(Tail(argv)) : Tail(argv)[k] = argv[k + 1]
        BY <1>0, TailFacts
    <2>2. Rest(argv, done)
        BY <1>0 DEF IInv, ArgvIsRest
    <2>3. Len(sizes) = (done + 1) + Len(Tail(argv))
        BY <1>0, <2>1, <2>2 DEF Rest
    <2>4. ASSUME NEW k \in 1..Len(Tail(argv))
          PROVE  Atoi[Tail(argv)[k]] = sizes[(done + 1) + k]
        <3>1. k + 1 \in 1..Len(argv) /\ done + (k + 1) = (done + 1) + k
            BY <1>0, <2>1
        <3>2. Atoi[argv[k + 1]] = sizes[done + (k + 1)]
            BY <3>1, <2>2 DEF Rest
        <3> QED BY <2>1, <3>1, <3>2
    <2>5. Rest(argv, done)'
        BY <1>0, <2>3, <2>4 DEF Rest
    <2> QED BY <2>5, <1>0 DEF IInv, ArgvIsRest, InGo
<1> QED BY <1>1, <1>2, <1>3, <1>4, <1>5 DEF IInv

LEMMA InvNext == IInv /\ [Next]_vars => IInv'
<1> SUFFICES ASSUME IInv, [Next]_vars PROVE IInv'
    OBVIOUS
<1>1. CASE UNCHANGED vars
    BY <1>1 DEF vars, IInv, TypeOK, Loop, Measured, FixtureHeld,
                ArgvIsRest, Rest, InGo
<1> QED BY <1>1, InvParseFlag, InvExit, InvLoop, InvComplete
        DEF Next, Step, Exited

LEMMA Invariant == Spec => []IInv
BY InvInit, InvNext, PTL DEF Spec

-----------------------------------------------------------------------------
\* The variables of the harness keep their types.
THEOREM TypeCorrect == Spec => []TypeOK
<1>1. IInv => TypeOK
    BY DEF IInv
<1> QED BY <1>1, Invariant, PTL

\* What is reported was measured for more than WORK_TIME over the runs
\* counted, at least one.
THEOREM MeasuredLongEnough == Spec => []Measured
<1>1. IInv => Measured
    BY DEF IInv
<1> QED BY <1>1, Invariant, PTL

\* setup_test and teardown_test balance.
THEOREM FixturesBalance == Spec => []FixtureHeld
<1>1. IInv => FixtureHeld
    BY DEF IInv
<1> QED BY <1>1, Invariant, PTL

-----------------------------------------------------------------------------
LEMMA RefinesInit == IInv /\ Init => Outside!Init
BY DEF IInv, TypeOK, Init, Outside!Init

\* Completing a size is Complete, exiting is ExitSuccess or ExitFailure, and
\* everything else happens inside.
LEMMA RefinesNext == IInv /\ [Next]_vars => [Outside!Next]_(Outside!vars)
<1> SUFFICES ASSUME IInv, [Next]_vars PROVE [Outside!Next]_(Outside!vars)
    OBVIOUS
<1>0. /\ argv \in Seq(DOMAIN Atoi) /\ sizes \in Seq(Int) /\ done \in Nat
      /\ exit = "none" <=> pc # "exited"
    BY DEF IInv, TypeOK, ArgvIsRest
<1>1. CASE ParseFlag
    <2>1. CASE argv' = <<>>
        <3>1. sizes = Words(<<>>)
            BY <1>1, <2>1 DEF IInv, ArgvIsRest, ParseFlag, SizesOf
        <3>2. sizes = <<>>
            BY <3>1, <1>0, WordsFacts, EmptySeq
        <3> QED BY <3>2, <1>0, <1>1, <2>1
                DEF ParseFlag, outVars, Outside!Next, Outside!ExitFailure
    <2>2. CASE argv' # <<>>
        BY <2>2, <1>1 DEF ParseFlag, outVars, Outside!vars
    <2> QED BY <2>1, <2>2
<1>2. CASE NoMoreArgs
    <2>1. done = Len(sizes) /\ sizes # <<>>
        BY <1>0, <1>2 DEF IInv, ArgvIsRest, Rest, NoMoreArgs
    <2> QED BY <2>1, <1>0, <1>2
            DEF NoMoreArgs, Exit, outVars, Outside!Next, Outside!ExitSuccess
<1>3. CASE RejectSize \/ CallFails \/ ReportCrash
    <2>1. argv # <<>> /\ (pc = "args" \/ InGo)
        BY <1>3 DEF IInv, ArgvIsRest, InGo, RejectSize, CallFails, ReportCrash
    <2>2. done < Len(sizes)
        BY <2>1, <1>0, TailFacts DEF IInv, ArgvIsRest, Rest
    <2> QED BY <2>2, <1>0, <1>3
            DEF RejectSize, CallFails, ReportCrash, Exit, outVars, InGo,
                Outside!Next, Outside!ExitFailure
<1>4. CASE SetupFileCreator \/ Report
    <2>1. argv # <<>> /\ InGo
        BY <1>4 DEF IInv, ArgvIsRest, InGo, SetupFileCreator, Report
    <2>2. done < Len(sizes) /\ ObjectSize = sizes[done + 1]
        BY <2>1, <1>0, TailFacts DEF IInv, ArgvIsRest, Rest, ObjectSize
    <2>3. rows' \in {rows, Append(rows, sizes[done + 1])}
        BY <2>2, <1>4 DEF SetupFileCreator, Report
    <2> QED BY <2>1, <2>2, <2>3, <1>0, <1>4
            DEF SetupFileCreator, Report, ReturnTrue, InGo, Outside!Next,
                Outside!Complete
<1>5. CASE AcceptSize \/ SetupBenchmark \/ WarmRun \/ WarmCheck \/ TimedRun
             \/ TimedCheck
    BY <1>5 DEF AcceptSize, SetupBenchmark, WarmRun, WarmCheck, TimedRun,
                TimedCheck, outVars, Outside!vars
<1>6. CASE UNCHANGED vars
    BY <1>6 DEF vars, Outside!vars
<1> QED BY <1>1, <1>2, <1>3, <1>4, <1>5, <1>6 DEF Next, Step, Exited

\* From the outside the harness is a BenchRun, whatever the test does.
THEOREM HarnessImplementsBenchRun == Spec => ImplementsBenchRun
<1>1. Init /\ [][Next]_vars /\ []IInv =>
          Outside!Init /\ [][Outside!Next]_(Outside!vars)
    BY RefinesInit, RefinesNext, PTL
<1> QED BY <1>1, Invariant, PTL DEF Spec, ImplementsBenchRun

-----------------------------------------------------------------------------
(* The process.                                                            *)

\* The fragments allocated, by how far the loops over them are.
HeldBlobs ==
    CASE stage = "none"    -> {}
      [] stage = "alloc"   -> {Blob(k) : k \in 1..step - 1}
      [] stage = "shuffle" -> {Blob(k) : k \in Blobs}
      [] OTHER             -> {Blob(memory[k]) : k \in step..MemoryCount}

TestBlocks ==
    IF pc \in {"warm", "timed", "report"} THEN Of(SetupBlocks) ELSE {}

CopyBlocks == IF run # "out" /\ Copies THEN Of({"copy"}) ELSE {}

HeapInv ==
    /\ ~misused
    /\ exit # "failure" =>
           heap = HeldBlobs \cup TestBlocks \cup CopyBlocks \cup Leaked

\* The entries of memory[] are the blobs made, each once.
MemoryInv ==
    /\ memory \in [Blobs -> 0..MemoryCount]
    /\ step \in 1..MemoryCount + 1
    /\ stage = "none" => step = 1
    /\ stage \in {"alloc", "shuffle"} => step \in Blobs
    /\ stage = "alloc" => \A k \in 1..step - 1 : memory[k] = k
    /\ stage \in {"shuffle", "free", "go"} =>
           /\ \A k \in Blobs : memory[k] \in Blobs
           /\ \A j, k \in Blobs : memory[j] = memory[k] => j = k
           /\ \A n \in Blobs : \E k \in Blobs : memory[k] = n

\* Where the process is, in its own terms and in those of the harness.
StageInv ==
    /\ stage \in {"none", "alloc", "shuffle", "free", "go"}
    /\ run \in {"out", "begun", "read"}
    /\ pc = "start" => stage = "none"
    /\ stage \in {"alloc", "shuffle", "free"} => pc = "args"
    /\ pc = "args" => stage # "none"
    /\ InGo => stage = "go" /\ ObjectSize \in 1..5
    /\ run # "out" => InBatch
    /\ isBenchmark <=> program # "creator"

\* The test data is as setup_test has made it, and so is the copy until it
\* is parsed.
DataInv ==
    pc \in {"warm", "timed", "report"} =>
        /\ contents = Fresh(ObjectSize)
        /\ run = "begun" /\ Copies => copy = contents
        /\ parsed # Nothing => parsed = Fresh(ObjectSize)

PInv ==
    /\ IInv
    /\ StageInv
    /\ MemoryInv
    /\ HeapInv
    /\ DataInv

-----------------------------------------------------------------------------
\* Every step of a process is a step of the harness or none.
LEMMA ProcessStepIsStep == [ProcessNext]_processVars => [Next]_vars
<1> SUFFICES ASSUME [ProcessNext]_processVars PROVE [Next]_vars
    OBVIOUS
<1>1. CASE UNCHANGED processVars
    BY <1>1 DEF processVars
<1>2. CASE AllocBlob \/ Swap \/ FreeHalf \/ FreeRest \/ InSituCopy \/ Parse
    BY <1>2 DEF AllocBlob, Swap, FreeHalf, FreeRest, InSituCopy, Parse
<1>3. CASE Start \/ Finish \/ NextSize \/ Setup \/ SetupFails \/ Create
              \/ RunSucceeds \/ RunFails \/ ReadClock \/ TearDown \/ Crash
    BY <1>3 DEF Start, Finish, NextSize, Setup, SetupFails, Create,
                RunSucceeds, RunFails, ReadClock, TearDown, Crash, Next, Step
<1>4. CASE Exited /\ UNCHANGED processVars
    BY <1>4 DEF Exited
<1> QED BY <1>1, <1>2, <1>3, <1>4 DEF ProcessNext, ProcessStep

\* A process is a harness: what it does with memory only adds to it.
THEOREM ProcessImplementsHarness == ProcessSpec => Spec
<1>1. ProcessInit => Init
    BY DEF ProcessInit
<1> QED BY <1>1, ProcessStepIsStep, PTL DEF ProcessSpec, Spec

\* The whole process, seen from the outside, is a run as BuildZig composes it.
THEOREM ProcessImplementsBenchRun == ProcessSpec => ImplementsBenchRun
BY ProcessImplementsHarness, HarnessImplementsBenchRun, PTL

-----------------------------------------------------------------------------
LEMMA BlockFacts ==
    /\ \A a, m, b, n : Block(a, m) = Block(b, n) => a = b /\ m = n
    /\ \A m, n : Blob(m) = Blob(n) => m = n
    /\ \A m, b, n : Blob(m) = Block(b, n) => b = "blob"
<1>1. \A a, m, b, n : Block(a, m) = Block(b, n) => a = b /\ m = n
    BY DEF Block
<1> QED BY <1>1 DEF Blob

LEMMA FreshFacts == \A size \in 1..5 : Fresh(size) # Nothing
BY DEF Fresh, Nothing

LEMMA HalfFacts == Half \in Nat /\ Half < MemoryCount
BY ProcessAssumption DEF Half

\* Which kinds of blocks there are.
LEMMA KindFacts ==
    /\ TeardownBlocks \subseteq SetupBlocks
    /\ "blob" \notin SetupBlocks /\ "copy" \notin SetupBlocks
    /\ program # "hash-object" => TeardownBlocks = SetupBlocks
    /\ program = "hash-object" => /\ SetupBlocks = {"object", "insitu_data"}
                                  /\ TeardownBlocks = {"object"}
BY DEF TeardownBlocks, SetupBlocks

LEMMA ProcessInvInit == ProcessInit => PInv
<1> SUFFICES ASSUME ProcessInit PROVE PInv
    OBVIOUS
<1>1. IInv
    BY InvInit DEF ProcessInit
<1>2. pc = "start" /\ done = 0 /\ exit = "none"
    BY DEF ProcessInit, Init
<1>3. StageInv
    BY <1>2 DEF ProcessInit, StageInv, InGo
<1>4. MemoryInv
    BY ProcessAssumption DEF ProcessInit, MemoryInv, Blobs
<1>5. HeapInv
    BY <1>2 DEF ProcessInit, HeapInv, HeldBlobs, TestBlocks, CopyBlocks, Leaked
<1>6. DataInv
    BY <1>2 DEF ProcessInit, DataInv
<1> QED BY <1>1, <1>3, <1>4, <1>5, <1>6 DEF PInv
-----------------------------------------------------------------------------
(* The loops over the fragments, of which the harness sees nothing.        *)

LEMMA ProcessInvAlloc == PInv /\ AllocBlob => PInv'
<1> SUFFICES ASSUME PInv, AllocBlob PROVE PInv'
    OBVIOUS
<1>0. /\ stage = "alloc" /\ pc = "args" /\ step \in Blobs /\ run = "out"
      /\ memory' = [memory EXCEPT ![step] = step]
      /\ heap' = heap \cup {Blob(step)} /\ UNCHANGED <<misused, vars>>
      /\ UNCHANGED <<program, contents, copy, parsed, run>>
      /\ IF step < MemoryCount THEN step' = step + 1 /\ stage' = "alloc"
         ELSE step' = 1 /\ stage' = "shuffle"
      /\ step \in Int /\ MemoryCount \in Nat \ {0}
    BY ProcessAssumption DEF PInv, StageInv, MemoryInv, AllocBlob, Malloc,
       Advance, testVars, InBatch, Blobs
<1>1. IInv'
    BY <1>0, InvNext DEF PInv
<1>2. StageInv'
    BY <1>0 DEF PInv, StageInv, vars, InGo, InBatch, ObjectSize
<1>3. MemoryInv'
    <2>1. memory' \in [Blobs -> 0..MemoryCount]
        BY <1>0 DEF PInv, MemoryInv, Blobs
    <2>2. \A k \in 1..step : memory'[k] = k
        BY <1>0 DEF PInv, MemoryInv, Blobs
    <2> QED BY <1>0, <2>1, <2>2 DEF MemoryInv, Blobs
<1>4. HeapInv'
    <2>1. HeldBlobs = {Blob(k) : k \in 1..step - 1}
        BY <1>0 DEF HeldBlobs
    <2>2. HeldBlobs' = {Blob(k) : k \in 1..step}
        BY <1>0 DEF HeldBlobs, Blobs
    <2>3. HeldBlobs' = HeldBlobs \cup {Blob(step)}
        BY <1>0, <2>1, <2>2 DEF Blobs
    <2>4. UNCHANGED <<TestBlocks, CopyBlocks, Leaked, exit>>
        BY <1>0 DEF vars, TestBlocks, CopyBlocks, Leaked, Of, SetupBlocks,
                    Copies
    <2> QED BY <1>0, <2>3, <2>4 DEF PInv, HeapInv
<1>5. DataInv'
    BY <1>0 DEF DataInv, vars
<1> QED BY <1>1, <1>2, <1>3, <1>4, <1>5 DEF PInv

\* The shuffle leaves a permutation.
LEMMA ProcessInvSwap == PInv /\ Swap => PInv'
<1> SUFFICES ASSUME PInv, Swap PROVE PInv'
    OBVIOUS
<1>0. /\ stage = "shuffle" /\ pc = "args" /\ step \in Blobs /\ run = "out"
      /\ UNCHANGED <<heap, misused, vars>>
      /\ UNCHANGED <<program, contents, copy, parsed, run>>
      /\ IF step < MemoryCount THEN step' = step + 1 /\ stage' = "shuffle"
         ELSE step' = 1 /\ stage' = "free"
      /\ step \in Int /\ MemoryCount \in Nat \ {0}
    BY ProcessAssumption DEF PInv, StageInv, MemoryInv, Swap, Advance,
       testVars, InBatch, Blobs
<1>1. IInv'
    BY <1>0, InvNext DEF PInv
<1>2. StageInv'
    BY <1>0 DEF PInv, StageInv, vars, InGo, InBatch, ObjectSize
<1>a. PICK j \in step..MemoryCount :
          memory' = [memory EXCEPT ![step] = memory[j], ![j] = memory[step]]
    BY DEF Swap
<1>b. j \in Blobs
    BY <1>0, <1>a DEF Blobs
<1>c. /\ memory \in [Blobs -> 0..MemoryCount]
      /\ \A k \in Blobs : memory[k] \in Blobs
      /\ \A a, b \in Blobs : memory[a] = memory[b] => a = b
      /\ \A n \in Blobs : \E k \in Blobs : memory[k] = n
    BY <1>0 DEF PInv, MemoryInv
<1>d. /\ memory' \in [Blobs -> 0..MemoryCount]
      /\ \A k \in Blobs : memory'[k] = IF k = j THEN memory[step]
                                       ELSE IF k = step THEN memory[j]
                                       ELSE memory[k]
    BY <1>0, <1>a, <1>b, <1>c
<1>e. \A a, b \in Blobs : memory'[a] = memory'[b] => a = b
    BY <1>0, <1>b, <1>c, <1>d
<1>f. ASSUME NEW n \in Blobs PROVE \E k \in Blobs : memory'[k] = n
    <2>1. PICK k \in Blobs : memory[k] = n
        BY <1>c
    <2>2. CASE k = j
        BY <1>0, <1>d, <2>1, <2>2
    <2>3. CASE k = step
        BY <1>0, <1>b, <1>d, <2>1, <2>3
    <2>4. CASE k # j /\ k # step
        BY <1>d, <2>1, <2>4
    <2> QED BY <2>2, <2>3, <2>4
<1>g. \A k \in Blobs : memory'[k] \in Blobs
    BY <1>0, <1>b, <1>c, <1>d
<1>3. MemoryInv'
    <2>1. /\ step' \in 1..MemoryCount + 1
          /\ stage' = "shuffle" => step' \in Blobs
        BY <1>0 DEF Blobs
    <2>2. stage' \notin {"none", "alloc"}
        BY <1>0
    <2>3. UNCHANGED <<Blobs, MemoryCount>>
        BY DEF Blobs
    <2> QED BY <2>1, <2>2, <2>3, <1>d, <1>e, <1>f, <1>g DEF MemoryInv
<1>4. HeapInv'
    <2>1. HeldBlobs = {Blob(n) : n \in Blobs}
        BY <1>0 DEF HeldBlobs
    <2>2. HeldBlobs' = {Blob(n) : n \in Blobs}
        <3>1. CASE step < MemoryCount
            BY <3>1, <1>0 DEF HeldBlobs
        <3>2. CASE ~(step < MemoryCount)
            <4>1. HeldBlobs' = {Blob(memory'[k]) : k \in Blobs}
                BY <3>2, <1>0 DEF HeldBlobs, Blobs
            <4> QED BY <4>1, <1>f, <1>g
        <3> QED BY <3>1, <3>2
    <2>3. UNCHANGED <<TestBlocks, CopyBlocks, Leaked, exit>>
        BY <1>0 DEF vars, TestBlocks, CopyBlocks, Leaked, Of, SetupBlocks,
                    Copies
    <2> QED BY <1>0, <2>1, <2>2, <2>3 DEF PInv, HeapInv
<1>5. DataInv'
    BY <1>0 DEF DataInv, vars
<1> QED BY <1>1, <1>2, <1>3, <1>4, <1>5 DEF PInv
\* A blob is freed, first of those held: the loops go through memory[] once.
LEMMA ProcessInvFreeBlob ==
    ASSUME PInv, stage \in {"free", "go"}, pc = "args", step \in Blobs,
           Free({Blob(memory[step])}), step' = step + 1, stage' = stage,
           UNCHANGED <<vars, program, memory, testVars>>
    PROVE  PInv'
<1>0. /\ run = "out" /\ exit = "none" /\ step \in Int /\ MemoryCount \in Nat
      /\ UNCHANGED <<program, contents, copy, parsed, run, memory>>
      /\ heap' = heap \ {Blob(memory[step])}
    BY ProcessAssumption DEF PInv, StageInv, InBatch, testVars, Blobs, IInv,
       ArgvIsRest, Free
<1>1. IInv'
    BY <1>0, InvNext DEF PInv
<1>2. StageInv'
    BY <1>0 DEF PInv, StageInv, vars, InGo, InBatch, ObjectSize
<1>3. MemoryInv'
    <2>1. /\ step' \in 1..MemoryCount + 1
          /\ stage' \notin {"none", "alloc", "shuffle"}
        BY <1>0 DEF Blobs
    <2> QED BY <1>0, <2>1 DEF PInv, MemoryInv, Blobs
<1>4. HeapInv'
    <2>1. /\ HeldBlobs = {Blob(memory[k]) : k \in step..MemoryCount}
          /\ HeldBlobs' = {Blob(memory[k]) : k \in step + 1..MemoryCount}
        BY <1>0 DEF HeldBlobs
    <2>2. \A k \in step + 1..MemoryCount : memory[k] # memory[step]
        <3>1. \A j, k \in Blobs : memory[j] = memory[k] => j = k
            BY DEF PInv, MemoryInv
        <3> QED BY <3>1, <1>0 DEF Blobs
    <2>3. HeldBlobs' = HeldBlobs \ {Blob(memory[step])}
        BY <2>1, <2>2, <1>0, BlockFacts DEF Blobs
    <2>4. Blob(memory[step]) \in HeldBlobs
        BY <2>1, <1>0 DEF Blobs
    <2>5. TestBlocks = {} /\ CopyBlocks = {}
        BY <1>0 DEF TestBlocks, CopyBlocks
    <2>6. UNCHANGED <<TestBlocks, CopyBlocks, Leaked, exit>>
        BY <1>0 DEF vars, TestBlocks, CopyBlocks, Leaked, Of, SetupBlocks,
                    Copies
    <2>7. Blob(memory[step]) \notin Leaked
        BY BlockFacts DEF Leaked
    <2>8. heap = HeldBlobs \cup TestBlocks \cup CopyBlocks \cup Leaked
        BY <1>0 DEF PInv, HeapInv
    <2>9. ~misused'
        BY <2>4, <2>8 DEF PInv, HeapInv, Free
    <2> QED BY <1>0, <2>3, <2>4, <2>5, <2>6, <2>7, <2>8, <2>9 DEF HeapInv
<1>5. DataInv'
    BY <1>0 DEF DataInv, vars
<1> QED BY <1>1, <1>2, <1>3, <1>4, <1>5 DEF PInv

LEMMA ProcessInvFree == PInv /\ (FreeHalf \/ FreeRest) => PInv'
<1> SUFFICES ASSUME PInv, FreeHalf \/ FreeRest PROVE PInv'
    OBVIOUS
<1>0. step \in 1..MemoryCount + 1 /\ MemoryCount \in Nat \ {0}
    BY ProcessAssumption DEF PInv, MemoryInv
<1>1. CASE FreeHalf /\ step <= Half
    <2>1. step \in Blobs /\ pc = "args"
        BY <1>0, <1>1, HalfFacts DEF Blobs, FreeHalf, PInv, StageInv
    <2> QED BY <2>1, <1>1, ProcessInvFreeBlob DEF FreeHalf
<1>2. CASE FreeRest
    <2>1. step \in Blobs
        BY <1>0, <1>2 DEF Blobs, FreeRest
    <2> QED BY <2>1, <1>2, ProcessInvFreeBlob DEF FreeRest
<1>3. CASE FreeHalf /\ ~(step <= Half)
    <2>0. /\ stage = "free" /\ stage' = "go" /\ pc = "args"
          /\ UNCHANGED <<step, heap, misused, vars, program, memory, testVars>>
        BY <1>3 DEF FreeHalf, PInv, StageInv
    <2>1. IInv'
        BY <2>0, InvNext DEF PInv
    <2>2. StageInv'
        BY <2>0 DEF PInv, StageInv, vars, testVars, InGo, InBatch, ObjectSize
    <2>3. MemoryInv'
        BY <2>0 DEF PInv, MemoryInv, Blobs
    <2>4. HeapInv'
        <3>1. UNCHANGED <<TestBlocks, CopyBlocks, Leaked, exit>>
            BY <2>0 DEF vars, testVars, TestBlocks, CopyBlocks, Leaked, Of,
                        SetupBlocks, Copies
        <3>2. HeldBlobs' = HeldBlobs
            BY <2>0 DEF HeldBlobs
        <3> QED BY <2>0, <3>1, <3>2 DEF PInv, HeapInv
    <2>5. DataInv'
        BY <2>0 DEF DataInv, vars
    <2> QED BY <2>1, <2>2, <2>3, <2>4, <2>5 DEF PInv
<1> QED BY <1>1, <1>2, <1>3
-----------------------------------------------------------------------------
(* The steps of main() and go(): the fragments stay as they are.           *)

\* What a step that leaves the loops over the fragments alone keeps.
LEMMA MemoryKept ==
    ASSUME MemoryInv, UNCHANGED <<memory, step>>,
           stage' = stage \/ (stage = "none" /\ stage' = "alloc" /\ step = 1)
    PROVE  MemoryInv'
<1>1. CASE stage' = stage
    BY <1>1 DEF MemoryInv, Blobs
<1>2. CASE stage = "none" /\ stage' = "alloc" /\ step = 1
    <2>1. 1 \in Blobs /\ \A k \in 1..step' - 1 : memory'[k] = k
        BY <1>2, ProcessAssumption DEF Blobs
    <2> QED BY <1>2, <2>1 DEF MemoryInv, Blobs
<1> QED BY <1>1, <1>2

LEMMA ProcessInvStart == PInv /\ Start => PInv'
<1> SUFFICES ASSUME PInv, Start PROVE PInv'
    OBVIOUS
<1>0. /\ pc = "start" /\ stage = "none" /\ run = "out" /\ exit # "failure"
      /\ UNCHANGED <<program, step, memory, heap, misused>>
      /\ UNCHANGED <<contents, copy, parsed, run, isBenchmark, done>>
      /\ pc' \in {"args", "exited"}
      /\ pc' = "exited" => exit' = "failure"
      /\ pc' = "args" => exit' = exit
      /\ stage' = IF pc' = "exited" THEN "none" ELSE "alloc"
    BY DEF PInv, StageInv, InBatch, Start, ParseFlag, testVars, outVars, IInv,
           ArgvIsRest
<1>1. IInv'
    BY InvNext DEF PInv, Start, Next, Step
<1>2. StageInv'
    BY <1>0 DEF PInv, StageInv, InGo
<1>3. MemoryInv'
    BY <1>0, MemoryKept DEF PInv, MemoryInv
<1>4. HeapInv'
    <2>1. CASE pc' = "exited"
        BY <2>1, <1>0 DEF PInv, HeapInv
    <2>2. CASE pc' = "args"
        <3>1. step = 1
            BY <1>0 DEF PInv, MemoryInv
        <3>2. HeldBlobs = {} /\ HeldBlobs' = {}
            BY <1>0, <2>2, <3>1 DEF HeldBlobs
        <3>3. UNCHANGED <<TestBlocks, CopyBlocks, Leaked>>
            BY <1>0, <2>2 DEF TestBlocks, CopyBlocks, Leaked
        <3> QED BY <1>0, <3>2, <3>3 DEF PInv, HeapInv
    <2> QED BY <1>0, <2>1, <2>2
<1>5. DataInv'
    BY <1>0 DEF DataInv
<1> QED BY <1>1, <1>2, <1>3, <1>4, <1>5 DEF PInv

\* The ways out of the process.
LEMMA ProcessInvExit ==
    PInv /\ (Finish \/ SetupFails \/ RunFails \/ Crash \/ NextSize) => PInv'
<1> SUFFICES ASSUME PInv, Finish \/ SetupFails \/ RunFails \/ Crash \/ NextSize
             PROVE  PInv'
    OBVIOUS
<1>0. /\ UNCHANGED <<program, stage, step, memory, isBenchmark, done, argv>>
      /\ pc # "start" /\ pc' \in {"exited", "setup"}
    BY DEF Finish, SetupFails, RunFails, Crash, NextSize, NoMoreArgs, Exit,
           CallFails, ReportCrash, AcceptSize, RejectSize, heapVars, outVars
<1>1. IInv'
    BY InvNext DEF PInv, Finish, SetupFails, RunFails, Crash, NextSize, Next,
                   Step
<1>2. run' \in {"out", "begun", "read"} /\ run' = "out"
    <2>1. CASE RunFails
        BY <2>1 DEF RunFails, FreeCopy, PInv, StageInv
    <2>2. CASE Finish \/ SetupFails \/ Crash \/ NextSize
        BY <2>2 DEF Finish, SetupFails, Crash, NextSize, testVars, PInv,
           StageInv, InBatch, NoMoreArgs, CallFails, ReportCrash, AcceptSize,
           RejectSize
    <2> QED BY <2>1, <2>2
<1>3. StageInv'
    <2>1. CASE NextSize
        BY <1>0, <1>2, <2>1 DEF PInv, StageInv, NextSize, AcceptSize,
           RejectSize, Exit, InGo, InBatch, ObjectSize
    <2>2. CASE Finish \/ SetupFails \/ RunFails \/ Crash
        <3>1. pc' = "exited" /\ stage = "go"
            BY <2>2 DEF Finish, SetupFails, RunFails, Crash, NoMoreArgs, Exit,
               CallFails, ReportCrash, PInv, StageInv, InGo
        <3> QED BY <1>0, <1>2, <3>1 DEF PInv, StageInv, InGo, InBatch
    <2> QED BY <2>1, <2>2
<1>4. MemoryInv'
    BY <1>0, MemoryKept DEF PInv
<1>5. HeapInv'
    <2>1. CASE Finish \/ NextSize \/ Crash
        <3>1. UNCHANGED <<heap, misused>>
            BY <2>1 DEF Finish, NextSize, Crash, heapVars
        <3>2. CASE exit' = "failure"
            BY <3>1, <3>2 DEF PInv, HeapInv
        <3>3. CASE exit' # "failure"
            <4>1. exit # "failure" /\ pc = "args" /\ pc' # "report"
                BY <2>1, <3>3, <1>0 DEF Finish, NextSize, Crash, NoMoreArgs,
                   AcceptSize, RejectSize, ReportCrash, Exit, PInv, IInv,
                   ArgvIsRest
            <4>2. UNCHANGED <<HeldBlobs, Leaked>>
                BY <1>0 DEF HeldBlobs, Leaked
            <4>3. UNCHANGED CopyBlocks /\ TestBlocks = {} /\ TestBlocks' = {}
                BY <1>0, <1>2, <4>1 DEF PInv, StageInv, InBatch, CopyBlocks,
                                        TestBlocks
            <4> QED BY <3>1, <4>1, <4>2, <4>3 DEF PInv, HeapInv
        <3> QED BY <3>2, <3>3
    <2>2. CASE SetupFails
        BY <2>2 DEF SetupFails, CallFails, Exit, Malloc, PInv, HeapInv
    <2>3. CASE RunFails
        <3>1. exit' = "failure"
            BY <2>3 DEF RunFails, CallFails, Exit
        <3>2. ~misused'
            <4>1. CASE run = "read" /\ Copies
                <5>1. exit # "failure"
                    BY <2>3 DEF RunFails, CallFails, PInv, IInv, ArgvIsRest
                <5>2. Of({"copy"}) \subseteq heap
                    BY <4>1, <5>1 DEF PInv, HeapInv, CopyBlocks
                <5> QED BY <2>3, <4>1, <5>2 DEF RunFails, FreeCopy, Free, PInv,
                                                HeapInv
            <4>2. CASE ~(run = "read" /\ Copies)
                BY <2>3, <4>2 DEF RunFails, FreeCopy, PInv, HeapInv
            <4> QED BY <4>1, <4>2
        <3> QED BY <3>1, <3>2 DEF HeapInv
    <2> QED BY <2>1, <2>2, <2>3
<1>6. DataInv'
    BY <1>0 DEF DataInv
<1> QED BY <1>1, <1>3, <1>4, <1>5, <1>6 DEF PInv
\* In go() the process has neither failed nor is it in a loop over fragments.
LEMMA InGoFacts ==
    ASSUME PInv, InGo
    PROVE  /\ exit = "none" /\ stage = "go" /\ ObjectSize \in 1..5
           /\ heap = HeldBlobs \cup TestBlocks \cup CopyBlocks \cup Leaked
           /\ ~misused
           /\ done \in Nat
BY DEF PInv, StageInv, HeapInv, IInv, TypeOK, ArgvIsRest, InGo

LEMMA ProcessInvSetup == PInv /\ Setup => PInv'
<1> SUFFICES ASSUME PInv, Setup PROVE PInv'
    OBVIOUS
<1>0. /\ UNCHANGED <<program, stage, step, memory, isBenchmark, done, argv>>
      /\ UNCHANGED <<exit, run, copy, misused>>
      /\ pc = "setup" /\ pc' = "warm" /\ run = "out" /\ InGo
      /\ contents' = Fresh(ObjectSize) /\ parsed' = Nothing
      /\ heap' = heap \cup Of(SetupBlocks)
    BY DEF Setup, SetupBenchmark, Malloc, outVars, PInv, StageInv, InBatch,
           InGo
<1>1. IInv'
    BY InvNext DEF PInv, Setup, Next, Step
<1>2. UNCHANGED ObjectSize
    BY <1>0 DEF ObjectSize
<1>3. StageInv'
    BY <1>0, <1>2, InGoFacts DEF PInv, StageInv, InGo
<1>4. MemoryInv'
    BY <1>0, MemoryKept DEF PInv
<1>5. HeapInv'
    <2>1. TestBlocks = {} /\ TestBlocks' = Of(SetupBlocks)
        BY <1>0 DEF TestBlocks, Of, SetupBlocks
    <2>2. UNCHANGED <<HeldBlobs, CopyBlocks, Leaked>>
        BY <1>0 DEF HeldBlobs, CopyBlocks, Leaked, Copies
    <2> QED BY <1>0, <2>1, <2>2, InGoFacts DEF HeapInv
<1>6. DataInv'
    BY <1>0, <1>2 DEF DataInv
<1> QED BY <1>1, <1>3, <1>4, <1>5, <1>6 DEF PInv

LEMMA ProcessInvCreate == PInv /\ Create => PInv'
<1> SUFFICES ASSUME PInv, Create PROVE PInv'
    OBVIOUS
<1>0. /\ UNCHANGED <<program, heapVars, testVars, isBenchmark, exit>>
      /\ UNCHANGED <<stage, step, memory, heap, misused>>
      /\ pc = "setup" /\ pc' = "args" /\ run = "out" /\ InGo
      /\ run' = "out" /\ program # "hash-object"
    BY DEF Create, SetupFileCreator, ReturnTrue, PInv, StageInv, InBatch, InGo,
           heapVars, testVars
<1>1. IInv'
    BY InvNext DEF PInv, Create, Next, Step
<1>3. StageInv'
    BY <1>0, InGoFacts DEF PInv, StageInv, InGo
<1>4. MemoryInv'
    BY <1>0, MemoryKept DEF PInv
<1>5. HeapInv'
    <2>1. TestBlocks = {} /\ TestBlocks' = {}
        BY <1>0 DEF TestBlocks
    <2>2. UNCHANGED <<HeldBlobs, CopyBlocks, Leaked>>
        BY <1>0 DEF HeldBlobs, CopyBlocks, Leaked
    <2> QED BY <1>0, <2>1, <2>2, InGoFacts DEF HeapInv
<1>6. DataInv'
    BY <1>0 DEF DataInv
<1> QED BY <1>1, <1>3, <1>4, <1>5, <1>6 DEF PInv

LEMMA ProcessInvCopy == PInv /\ InSituCopy => PInv'
<1> SUFFICES ASSUME PInv, InSituCopy PROVE PInv'
    OBVIOUS
<1>0. /\ UNCHANGED <<program, stage, step, memory, contents, parsed, misused>>
      /\ UNCHANGED vars
      /\ pc \in {"warm", "timed"} /\ run = "out" /\ run' = "begun" /\ InGo
      /\ InBatch
    BY DEF InSituCopy, InBatch, InGo, Malloc
<1>1. IInv'
    BY <1>0, InvNext DEF PInv
<1>2. UNCHANGED <<pc, i, exit, done, isBenchmark, argv, ObjectSize>>
    BY <1>0 DEF vars, ObjectSize
<1>3. StageInv'
    BY <1>0, <1>2, InGoFacts DEF PInv, StageInv, InGo, InBatch
<1>4. MemoryInv'
    BY <1>0, MemoryKept DEF PInv
<1>5. HeapInv'
    <2>1. UNCHANGED <<HeldBlobs, TestBlocks, Leaked>>
        BY <1>0, <1>2 DEF HeldBlobs, TestBlocks, Leaked, Of, SetupBlocks
    <2>2. CopyBlocks = {} /\ CopyBlocks' = IF Copies THEN Of({"copy"}) ELSE {}
        BY <1>0, <1>2 DEF CopyBlocks, Copies, Of
    <2>3. heap' = heap \cup CopyBlocks'
        BY <2>2 DEF InSituCopy, Malloc
    <2> QED BY <1>0, <1>2, <2>1, <2>2, <2>3, InGoFacts DEF HeapInv
<1>6. DataInv'
    <2>1. Copies' => copy' = contents
        BY <1>0 DEF InSituCopy, Copies
    <2> QED BY <1>0, <1>2, <2>1 DEF PInv, DataInv
<1> QED BY <1>1, <1>3, <1>4, <1>5, <1>6 DEF PInv

\* What is parsed in place is the copy.
LEMMA ProcessInvParse == PInv /\ Parse => PInv'
<1> SUFFICES ASSUME PInv, Parse PROVE PInv'
    OBVIOUS
<1>0. /\ UNCHANGED <<program, heapVars, vars>>
      /\ UNCHANGED <<stage, step, memory, heap, misused>>
      /\ run = "begun" /\ run' = "read" /\ InBatch /\ InGo
      /\ pc \in {"warm", "timed"}
    BY DEF Parse, PInv, StageInv, InBatch, InGo, heapVars
<1>1. IInv'
    BY <1>0, InvNext DEF PInv
<1>2. UNCHANGED <<pc, i, exit, done, isBenchmark, argv, ObjectSize>>
    BY <1>0 DEF vars, ObjectSize
<1>3. StageInv'
    BY <1>0, <1>2, InGoFacts DEF PInv, StageInv, InGo, InBatch
<1>4. MemoryInv'
    BY <1>0, MemoryKept DEF PInv
<1>5. HeapInv'
    <2>1. UNCHANGED <<HeldBlobs, TestBlocks, CopyBlocks, Leaked>>
        BY <1>0, <1>2 DEF HeldBlobs, TestBlocks, CopyBlocks, Leaked, Of,
                          SetupBlocks, Copies
    <2> QED BY <1>0, <1>2, <2>1, InGoFacts DEF HeapInv
<1>6. DataInv'
    <2>1. contents = Fresh(ObjectSize) /\ (Copies => copy = contents)
        BY <1>0 DEF PInv, DataInv
    <2>2. program = "insitu" => ReadsCopy
        BY <2>1, FreshFacts, InGoFacts, <1>0 DEF ReadsCopy, Copies
    <2>3. ReadsCopy => copy = contents
        BY <2>1 DEF ReadsCopy, Copies
    <2>4. parsed' = Fresh(ObjectSize)
        BY <2>1, <2>3 DEF Parse
    <2>5. UNCHANGED contents
        BY <2>2 DEF Parse
    <2> QED BY <1>0, <1>2, <2>1, <2>4, <2>5 DEF DataInv
<1> QED BY <1>1, <1>3, <1>4, <1>5, <1>6 DEF PInv

LEMMA ProcessInvRun == PInv /\ RunSucceeds => PInv'
<1> SUFFICES ASSUME PInv, RunSucceeds PROVE PInv'
    OBVIOUS
<1>0. /\ UNCHANGED <<program, stage, step, memory, contents, parsed>>
      /\ UNCHANGED <<pc, isBenchmark, done, argv, exit>>
      /\ run = "read" /\ run' = "out" /\ InGo
      /\ pc \in {"warm", "timed"}
    BY DEF RunSucceeds, WarmRun, TimedRun, FreeCopy, InGo, outVars
<1>1. IInv'
    BY InvNext DEF PInv, RunSucceeds, Next, Step
<1>2. UNCHANGED ObjectSize
    BY <1>0 DEF ObjectSize
<1>3. StageInv'
    BY <1>0, <1>2, InGoFacts DEF PInv, StageInv, InGo
<1>4. MemoryInv'
    BY <1>0, MemoryKept DEF PInv
<1>5. HeapInv'
    <2>1. UNCHANGED <<HeldBlobs, TestBlocks, Leaked>>
        BY <1>0 DEF HeldBlobs, TestBlocks, Leaked, Of, SetupBlocks
    <2>2. CopyBlocks' = {} /\ CopyBlocks = IF Copies THEN Of({"copy"}) ELSE {}
        BY <1>0 DEF CopyBlocks
    <2>3. CopyBlocks \cap (HeldBlobs \cup TestBlocks \cup Leaked) = {}
        <3>1. \A b \in CopyBlocks : b.what = "copy"
            BY <2>2 DEF Of, Block
        <3>2. \A b \in HeldBlobs : b.what = "blob"
            BY <1>0, InGoFacts DEF HeldBlobs, Blob, Block
        <3>3. \A b \in TestBlocks : b.what # "copy"
            BY <1>0, KindFacts DEF TestBlocks, Of, Block
        <3>4. \A b \in Leaked : b.what # "copy"
            BY DEF Leaked, Block
        <3> QED BY <3>1, <3>2, <3>3, <3>4
    <2>4. heap' = heap \ CopyBlocks
        BY <2>2 DEF RunSucceeds, FreeCopy, Free
    <2>5. ~misused'
        BY <1>0, <2>2, InGoFacts DEF RunSucceeds, FreeCopy, Free
    <2> QED BY <1>0, <2>1, <2>2, <2>3, <2>4, <2>5, InGoFacts DEF HeapInv
<1>6. DataInv'
    BY <1>0, <1>2 DEF PInv, DataInv
<1> QED BY <1>1, <1>3, <1>4, <1>5, <1>6 DEF PInv

LEMMA ProcessInvClock == PInv /\ ReadClock => PInv'
<1> SUFFICES ASSUME PInv, ReadClock PROVE PInv'
    OBVIOUS
<1>0. /\ UNCHANGED <<program, stage, step, memory, heap, misused>>
      /\ UNCHANGED <<contents, copy, parsed, run>>
      /\ UNCHANGED <<isBenchmark, done, argv, exit>>
      /\ pc \in {"warm", "timed"} /\ pc' \in {"warm", "timed", "report"}
      /\ run = "out" /\ InGo
    <2>1. i = Iterations[ObjectSize] /\ i \in Nat
        BY DEF ReadClock, WarmCheck, TimedCheck, PInv, IInv, TypeOK
    <2>2. ~(i < Iterations[ObjectSize])
        BY <2>1
    <2> QED BY <2>2 DEF ReadClock, WarmCheck, TimedCheck, heapVars, testVars,
                        outVars, PInv, StageInv, InBatch, InGo
<1>1. IInv'
    BY InvNext DEF PInv, ReadClock, Next, Step
<1>2. UNCHANGED ObjectSize
    BY <1>0 DEF ObjectSize
<1>3. StageInv'
    BY <1>0, <1>2, InGoFacts DEF PInv, StageInv, InGo
<1>4. MemoryInv'
    BY <1>0, MemoryKept DEF PInv
<1>5. HeapInv'
    <2>1. UNCHANGED <<HeldBlobs, TestBlocks, CopyBlocks, Leaked>>
        BY <1>0 DEF HeldBlobs, TestBlocks, CopyBlocks, Leaked, Of, SetupBlocks,
                    Copies
    <2> QED BY <1>0, <2>1, InGoFacts DEF HeapInv
<1>6. DataInv'
    BY <1>0, <1>2 DEF PInv, DataInv
<1> QED BY <1>1, <1>3, <1>4, <1>5, <1>6 DEF PInv

\* What teardown_test does not free is lost from here on.
LEMMA ProcessInvTearDown == PInv /\ TearDown => PInv'
<1> SUFFICES ASSUME PInv, TearDown PROVE PInv'
    OBVIOUS
<1>0. /\ UNCHANGED <<program, stage, step, memory>>
      /\ UNCHANGED <<contents, copy, parsed, run>>
      /\ UNCHANGED <<isBenchmark, exit>>
      /\ pc = "report" /\ pc' = "args" /\ done' = done + 1
      /\ run = "out" /\ InGo
      /\ heap' = heap \ Of(TeardownBlocks)
    BY DEF TearDown, Report, ReturnTrue, Free, testVars, PInv, StageInv,
           InBatch, InGo
<1>1. IInv'
    BY InvNext DEF PInv, TearDown, Next, Step
<1>3. StageInv'
    BY <1>0, InGoFacts DEF PInv, StageInv, InGo
<1>4. MemoryInv'
    BY <1>0, MemoryKept DEF PInv
<1>5. HeapInv'
    <2>1. UNCHANGED HeldBlobs
        BY <1>0 DEF HeldBlobs
    <2>2. CopyBlocks = {} /\ CopyBlocks' = {}
        BY <1>0 DEF CopyBlocks
    <2>3. TestBlocks = Of(SetupBlocks) /\ TestBlocks' = {}
        BY <1>0 DEF TestBlocks
    <2>4. Of(TeardownBlocks) \subseteq heap
        BY <2>3, <1>0, InGoFacts, KindFacts DEF Of
    <2>5. ~misused'
        BY <2>4, <1>0, InGoFacts DEF TearDown, Free
    <2>6. HeldBlobs \cap Of(TeardownBlocks) = {}
        <3>1. \A b \in HeldBlobs : b.what = "blob"
            BY <1>0, InGoFacts DEF HeldBlobs, Blob, Block
        <3>2. \A b \in Of(TeardownBlocks) : b.what # "blob"
            BY KindFacts DEF Of, Block
        <3> QED BY <3>1, <3>2
    <2>7. Leaked' = (Of(SetupBlocks) \cup Leaked) \ Of(TeardownBlocks)
        <3>1. CASE program = "hash-object"
            <4>1. /\ Leaked = {Block("insitu_data", n) : n \in 0..done - 1}
                  /\ Leaked' = {Block("insitu_data", n) : n \in 0..done}
                BY <3>1, <1>0, InGoFacts DEF Leaked
            <4>2. Leaked' = Leaked \cup {Block("insitu_data", done)}
                BY <4>1, <1>0, InGoFacts
            <4>3. /\ Of(SetupBlocks) = {Block("object", done),
                                        Block("insitu_data", done)}
                  /\ Of(TeardownBlocks) = {Block("object", done)}
                BY <3>1, KindFacts DEF Of
            <4>4. Block("object", done) \notin Leaked'
                BY <4>1, BlockFacts
            <4>5. Block("insitu_data", done) # Block("object", done)
                BY BlockFacts
            <4> QED BY <4>2, <4>3, <4>4, <4>5
        <3>2. CASE program # "hash-object"
            BY <3>2, <1>0, KindFacts DEF Leaked
        <3> QED BY <3>1, <3>2
    <2> QED BY <1>0, <2>1, <2>2, <2>3, <2>5, <2>6, <2>7, InGoFacts DEF HeapInv
<1>6. DataInv'
    BY <1>0 DEF DataInv
<1> QED BY <1>1, <1>3, <1>4, <1>5, <1>6 DEF PInv

LEMMA ProcessInvNext == PInv /\ [ProcessNext]_processVars => PInv'
<1> SUFFICES ASSUME PInv, UNCHANGED processVars PROVE PInv'
    BY ProcessInvStart, ProcessInvAlloc, ProcessInvSwap, ProcessInvFree,
       ProcessInvExit, ProcessInvSetup, ProcessInvCreate, ProcessInvCopy,
       ProcessInvParse, ProcessInvRun, ProcessInvClock, ProcessInvTearDown
    DEF ProcessNext, ProcessStep
<1>0. /\ UNCHANGED <<program, stage, step, memory, heap, misused>>
      /\ UNCHANGED <<contents, copy, parsed, run>>
      /\ UNCHANGED vars
    BY DEF processVars, heapVars, testVars
<1>1. IInv'
    BY <1>0, InvNext DEF PInv
<1>2. UNCHANGED <<pc, i, exit, done, isBenchmark, argv, ObjectSize>>
    BY <1>0 DEF vars, ObjectSize
<1>3. StageInv'
    BY <1>0, <1>2 DEF PInv, StageInv, InGo, InBatch
<1>4. MemoryInv'
    BY <1>0, MemoryKept DEF PInv
<1>5. HeapInv'
    <2>1. UNCHANGED <<HeldBlobs, TestBlocks, CopyBlocks, Leaked>>
        BY <1>0, <1>2 DEF HeldBlobs, TestBlocks, CopyBlocks, Leaked, Of,
                          SetupBlocks, Copies
    <2> QED BY <1>0, <1>2, <2>1 DEF PInv, HeapInv
<1>6. DataInv'
    BY <1>0, <1>2 DEF PInv, DataInv, Copies
<1> QED BY <1>1, <1>3, <1>4, <1>5, <1>6 DEF PInv

LEMMA ProcessInvariant == ProcessSpec => []PInv
BY ProcessInvInit, ProcessInvNext, PTL DEF ProcessSpec

\* The loop that frees the fragments has come to its end before the exit.
LEMMA SuccessAfterLoop == ProcessSpec => [](exit = "success" => HeldBlobs = {})
<1> DEFINE Freed == exit = "success" => HeldBlobs = {}
<1>1. ProcessInit => Freed
    BY DEF ProcessInit, Init
<1>2. PInv /\ Freed /\ [ProcessNext]_processVars => Freed'
    <2> SUFFICES ASSUME PInv, Freed, [ProcessNext]_processVars,
                        exit' = "success"
                 PROVE  HeldBlobs' = {}
        OBVIOUS
    <2>1. CASE Finish
        <3>1. stage' = "go" /\ UNCHANGED <<step, memory>>
            BY <2>1 DEF Finish, heapVars
        <3>2. step > MemoryCount /\ step \in Int /\ MemoryCount \in Int
            BY <2>1, ProcessAssumption DEF Finish, PInv, MemoryInv
        <3> QED BY <3>1, <3>2 DEF HeldBlobs
    <2>2. CASE UNCHANGED processVars
        BY <2>2 DEF processVars, heapVars, vars, HeldBlobs
    <2>3. CASE ProcessStep /\ ~Finish
        <3>1. pc # "exited"
            BY <2>3 DEF ProcessStep, PInv, StageInv, Start, AllocBlob, Swap,
               FreeHalf, FreeRest, NextSize, Setup, SetupFails, Create,
               InSituCopy, Parse, RunSucceeds, RunFails, ReadClock, TearDown,
               Crash, ParseFlag, AcceptSize, RejectSize, SetupBenchmark,
               CallFails, SetupFileCreator, InBatch, WarmRun, TimedRun,
               WarmCheck, TimedCheck, Report, ReportCrash
        <3>2. exit = "none"
            BY <3>1 DEF PInv, IInv, ArgvIsRest
        <3>3. exit' # "success"
            BY <3>2, <2>3 DEF ProcessStep, Start, AllocBlob, Swap, vars,
               FreeHalf, FreeRest, NextSize, Setup, SetupFails, Create,
               InSituCopy, Parse, RunSucceeds, RunFails, ReadClock, TearDown,
               Crash, ParseFlag, AcceptSize, RejectSize, SetupBenchmark,
               CallFails, SetupFileCreator, Exit, ReturnTrue, WarmRun,
               TimedRun, WarmCheck, TimedCheck, Report, ReportCrash
        <3> QED BY <3>3
    <2> QED BY <2>1, <2>2, <2>3 DEF ProcessNext
<1> QED BY <1>1, <1>2, ProcessInvariant, PTL DEF ProcessSpec

-----------------------------------------------------------------------------
\* However the fragments are shuffled, nothing is freed twice or that was not
\* allocated, and a run that succeeds has freed all but what hash-object leaks.
THEOREM HeapIsBalanced == ProcessSpec => []HeapBalanced
<1>1. PInv /\ (exit = "success" => HeldBlobs = {}) => HeapBalanced
    <2> SUFFICES ASSUME PInv, exit = "success", HeldBlobs = {}
                 PROVE  heap = Leaked
        BY DEF PInv, HeapInv, HeapBalanced
    <2>1. heap = HeldBlobs \cup TestBlocks \cup CopyBlocks \cup Leaked
        BY DEF PInv, HeapInv
    <2>2. pc = "exited" /\ run = "out"
        BY DEF PInv, IInv, ArgvIsRest, StageInv, InBatch
    <2> QED BY <2>1, <2>2 DEF TestBlocks, CopyBlocks
<1> QED BY <1>1, ProcessInvariant, SuccessAfterLoop, PTL

\* Every run of a size parses what setup_test has made, intact, also the runs
\* of a parser that writes into what it parses.
THEOREM EveryRunPristine == ProcessSpec => []ParsesPristine
<1>1. PInv => ParsesPristine
    BY DEF PInv, DataInv, ParsesPristine
<1> QED BY <1>1, ProcessInvariant, PTL
=============================================================================
