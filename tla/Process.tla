------------------------------ MODULE Process -------------------------------
(***************************************************************************)
(* A test program as a whole: main() and go() of Harness, composed with    *)
(* what they leave open there, the memory.  fragment_memory() fills the    *)
(* heap and frees half of it at random (benchmark.c), setup_test loads or  *)
(* generates what the test works on, and every run_test of a parser works  *)
(* on a copy of its own (benchmark.h), since some parsers write into what  *)
(* they parse.                                                             *)
(*                                                                         *)
(* Every step is one of Harness with its effect on the memory, or one of   *)
(* fragment_memory or of run_test which Harness does not see.  That malloc *)
(* fails is left out, but for the copy, where run_test looks.              *)
(***************************************************************************)
EXTENDS Harness

CONSTANTS
    MemoryCount,        \* MEMORY_COUNT
    Programs            \* the kinds of test programs considered

\* How the programs treat their data.
\*   "copied"       a parser that reads its copy
\*   "insitu"       rapidjson-insitu-*: parses its copy in place
\*   "original"     yajl-parse, mongo-cxx-obj: copies, and reads file_data
\*   "uncopied"     zigpak-read, hash-data: makes no copy
\*   "hash-object"  copies insitu_data, and hashes an object
\*   "encoder"      encodes an object
\*   "creator"      a file creator
ASSUME ProcessAssumption ==
    /\ MemoryCount \in Nat \ {0}
    /\ Programs \subseteq {"copied", "insitu", "original", "uncopied",
                           "hash-object", "encoder", "creator"}

VARIABLES
    program,            \* the kind of program this is
    stage,              \* where fragment_memory and the freeing are
    step,               \* i of their loops
    memory,             \* memory[], the numbers of its blobs
    heap,               \* the blocks allocated
    misused,            \* ghost: a block was freed that is not allocated
    contents,           \* what the test data of setup_test is
    copy,               \* what data of run_test is
    parsed,             \* ghost: what the last run has parsed
    run                 \* how far run_test is

testVars == <<contents, copy, parsed, run>>
heapVars == <<stage, step, memory, heap, misused>>
processVars == <<vars, program, heapVars, testVars>>

Blobs == 1..MemoryCount
Half == MemoryCount \div 2

\* A blob, or a block of the n-th call of go().
Block(what, n) == [what |-> what, n |-> n]
Blob(n) == Block("blob", n)

Nothing == [size |-> 0, altered |-> FALSE]
Fresh(size) == [size |-> size, altered |-> FALSE]

\* The blocks setup_test allocates, and those teardown_test frees.
SetupBlocks ==
    CASE program = "hash-object" -> {"object", "insitu_data"}
      [] program = "encoder"     -> {"object"}
      [] program = "creator"     -> {}
      [] OTHER                   -> {"data"}
TeardownBlocks ==
    IF program = "hash-object" THEN {"object"} ELSE SetupBlocks

Of(kinds) == {Block(what, done) : what \in kinds}

\* Whether run_test calls benchmark_in_situ_copy.
Copies == program \in {"copied", "insitu", "original", "hash-object"}

Malloc(blocks) == heap' = heap \cup blocks /\ UNCHANGED misused

Free(blocks) ==
    /\ heap' = heap \ blocks
    /\ misused' = (misused \/ ~(blocks \subseteq heap))

ProcessInit ==
    /\ Init
    /\ program \in Programs
    /\ isBenchmark <=> program # "creator"
    /\ stage = "none" /\ step = 1
    /\ memory = [k \in Blobs |-> 0]
    /\ heap = {} /\ misused = FALSE
    /\ contents = Nothing /\ copy = Nothing /\ parsed = Nothing
    /\ run = "out"

-----------------------------------------------------------------------------
(* main(): the arguments, and the fragments around the loop over them.      *)

Start ==
    /\ ParseFlag
    /\ stage' = IF pc' = "exited" THEN stage ELSE "alloc"
    /\ UNCHANGED <<program, step, memory, heap, misused, testVars>>

\* The next turn of a loop over all the blobs, or on to what comes after it.
Advance(after) ==
    IF step < MemoryCount THEN step' = step + 1 /\ UNCHANGED stage
    ELSE step' = 1 /\ stage' = after

AllocBlob ==
    /\ stage = "alloc"
    /\ memory' = [memory EXCEPT ![step] = step]
    /\ Malloc({Blob(step)})
    /\ Advance("shuffle")
    /\ UNCHANGED <<vars, program, testVars>>

SwapInOrder ==          \* mutant: l is taken after memory[i] is overwritten
    /\ stage = "shuffle"
    /\ \E j \in step..MemoryCount :
           memory' = [memory EXCEPT ![step] = memory[j]]
    /\ Advance("free")
    /\ UNCHANGED <<vars, program, heap, misused, testVars>>

\* A turn of the shuffle.
Swap ==
    /\ stage = "shuffle"
    /\ \E j \in step..MemoryCount :
           memory' = [memory EXCEPT ![step] = memory[j], ![j] = memory[step]]
    /\ Advance("free")
    /\ UNCHANGED <<vars, program, heap, misused, testVars>>

\* The first half is freed before the sizes are looked at.
FreeHalf ==
    /\ stage = "free"
    /\ IF step <= Half
       THEN Free({Blob(memory[step])}) /\ step' = step + 1 /\ UNCHANGED stage
       ELSE stage' = "go" /\ UNCHANGED <<step, heap, misused>>
    /\ UNCHANGED <<vars, program, memory, testVars>>

\* free_fragmented_memory, once no size is left.
FreeRest ==
    /\ stage = "go" /\ pc = "args" /\ argv = <<>>
    /\ step <= MemoryCount
    /\ Free({Blob(memory[step])}) /\ step' = step + 1
    /\ UNCHANGED <<vars, program, stage, memory, testVars>>

Finish ==
    /\ stage = "go" /\ step > MemoryCount
    /\ NoMoreArgs
    /\ UNCHANGED <<program, heapVars, testVars>>

NextSize ==
    /\ stage = "go"
    /\ AcceptSize \/ RejectSize
    /\ UNCHANGED <<program, heapVars, testVars>>

-----------------------------------------------------------------------------
(* go(), and the functions of the test it calls.                           *)

Setup ==
    /\ SetupBenchmark
    /\ Malloc(Of(SetupBlocks))
    /\ contents' = Fresh(ObjectSize) /\ parsed' = Nothing
    /\ UNCHANGED <<program, stage, step, memory, copy, run>>

\* load_file fails: no file, or it cannot be read, which leaks the data.
SetupFails ==
    /\ pc = "setup"
    /\ CallFails
    /\ \E lost \in SUBSET (SetupBlocks \cap {"data"}) : Malloc(Of(lost))
    /\ UNCHANGED <<program, stage, step, memory, testVars>>

\* A file creator frees all it has used within setup_test.
Create ==
    /\ SetupFileCreator
    /\ UNCHANGED <<program, heapVars, testVars>>

InBatch == pc \in {"warm", "timed"} /\ i < Iterations[ObjectSize]

\* run_test: benchmark_in_situ_copy.
InSituCopy ==
    /\ InBatch /\ run = "out"
    /\ run' = "begun"
    /\ IF Copies
       THEN Malloc(Of({"copy"})) /\ copy' = contents
       ELSE UNCHANGED <<heap, misused, copy>>
    /\ UNCHANGED <<vars, program, stage, step, memory, contents, parsed>>

ReadsCopyUnlessInSitu == \* mutant: parses file_data in place
    program = "copied" /\ copy # Nothing

\* What it parses, hashes or encodes: its copy, or what setup_test has made.
ReadsCopy == program \in {"copied", "insitu"} /\ copy # Nothing

\* Parsing in place leaves the pieces of strings in the text.
Parse ==
    /\ run = "begun"
    /\ parsed' = IF ReadsCopy THEN copy ELSE contents
    /\ LET altered == [parsed' EXCEPT !.altered = TRUE]
       IN  IF program # "insitu" THEN UNCHANGED <<contents, copy>>
           ELSE IF ReadsCopy THEN copy' = altered /\ UNCHANGED contents
           ELSE contents' = altered /\ UNCHANGED copy
    /\ run' = "read"
    /\ UNCHANGED <<vars, program, heapVars>>

\* benchmark_in_situ_free, whether it succeeds or not.
FreeCopy ==
    /\ run' = "out" /\ copy' = Nothing
    /\ IF Copies THEN Free(Of({"copy"})) ELSE UNCHANGED <<heap, misused>>

RunSucceeds ==
    /\ run = "read"
    /\ WarmRun \/ TimedRun
    /\ FreeCopy
    /\ UNCHANGED <<program, stage, step, memory, contents, parsed>>

\* The copy fails, or the library reports an error.
RunFails ==
    /\ run = "read" \/ (run = "out" /\ Copies)
    /\ pc # "setup"
    /\ CallFails
    /\ IF run = "read" THEN FreeCopy
       ELSE UNCHANGED <<run, copy, heap, misused>>
    /\ UNCHANGED <<program, stage, step, memory, contents, parsed>>

ReadClock ==
    /\ WarmCheck \/ TimedCheck
    /\ UNCHANGED <<program, heapVars, testVars>>

\* The row is written, and teardown_test called.
TearDown ==
    /\ Report
    /\ Free(Of(TeardownBlocks))
    /\ UNCHANGED <<program, stage, step, memory, testVars>>

Crash ==
    /\ ReportCrash
    /\ UNCHANGED <<program, heapVars, testVars>>

-----------------------------------------------------------------------------
ProcessStep ==
    \/ Start \/ AllocBlob \/ Swap \/ FreeHalf \/ FreeRest \/ Finish
    \/ NextSize \/ Setup \/ SetupFails \/ Create
    \/ InSituCopy \/ Parse \/ RunSucceeds \/ RunFails
    \/ ReadClock \/ TearDown \/ Crash

ProcessNext ==
    \/ ProcessStep
    \/ Exited /\ UNCHANGED processVars

ProcessSpec == ProcessInit /\ [][ProcessNext]_processVars

FairProcess == ProcessSpec /\ WF_processVars(ProcessStep)

-----------------------------------------------------------------------------
(* Properties.                                                             *)

\* The insitu_data of hash-object, one of every size: no teardown frees it.
Leaked ==
    IF program = "hash-object"
    THEN {Block("insitu_data", n) : n \in 0..done - 1} ELSE {}

\* Nothing is freed twice or that was not allocated, however the blobs were
\* shuffled; and a successful run has freed all it has allocated but for
\* what hash-object leaks.
HeapBalanced ==
    /\ ~misused
    /\ exit = "success" => heap = Leaked

\* Every run of a size parses what setup_test has made for that size, as
\* intact as for the first run: what one parses in place is gone with it.
ParsesPristine ==
    parsed # Nothing /\ pc \in {"warm", "timed", "report"} =>
        parsed = Fresh(ObjectSize)
=============================================================================
