------------------------------- MODULE Harness -------------------------------
(***************************************************************************)
(* src/common/benchmark.c: main() and go(), which every test program is    *)
(* linked with.  A test program supplies setup_test, run_test,             *)
(* teardown_test and is_benchmark (benchmark.h); what they do is left open *)
(* here: each call succeeds or fails, and a run_test takes some time.      *)
(*                                                                         *)
(* A test is a benchmark, timed, or a file creator, whose work is all in   *)
(* setup_test.  Time is counted in ticks; WARM_TIME is a quarter of        *)
(* WORK_TIME.                                                              *)
(***************************************************************************)
EXTENDS Integers, Sequences

CONSTANTS
    CommandLines,       \* the argument vectors considered, as words
    WorkTime,           \* WORK_TIME, in ticks
    MaxRun,             \* the longest run_test, in ticks
    FirstBatch,         \* the iterations between looks at the clock for the
    Growth              \*   largest size, and their factor per smaller size

ASSUME TimeAssumption ==
    /\ WorkTime \in Nat \ {0} /\ MaxRun \in Nat \ {0}
    /\ FirstBatch \in Nat \ {0} /\ Growth \in Nat \ {0}

\* atoi of the words used: 0 for one that is no number.  object_size is a
\* size_t, so that a negative number is a large one: out of range like 6.
Atoi == [w \in {"-r", "x", "0", "1", "2", "3", "4", "5", "6", "-1"} |->
            CASE w = "1" -> 1 [] w = "2" -> 2 [] w = "3" -> 3
              [] w = "4" -> 4 [] w = "5" -> 5 [] w \in {"6", "-1"} -> 6
              [] OTHER -> 0]

ASSUME ArgumentAssumption == CommandLines \subseteq Seq(DOMAIN Atoi)

WarmTime == WorkTime \div 4

\* `iterations`: shifted left by 3 for every size below 5, one shift being a
\* factor of Growth.
Iterations ==
    LET g == Growth IN
    <<FirstBatch * g * g * g * g, FirstBatch * g * g * g, FirstBatch * g * g,
      FirstBatch * g, FirstBatch>>

\* hash_result is the seed it was set to and the number of run_test calls
\* that have hashed into it since.
Hash == [seed : {"none", "zero", "initial"}, runs : Nat]

VARIABLES
    pc,                 \* where the process is
    isBenchmark,        \* is_benchmark() of the program
    argv,               \* the arguments not yet consumed
    resultOnly,         \* result_only: -r was given
    fixture,            \* whether setup_test's data is held
    fragments,          \* the blobs of fragment_memory: "none", "half", "freed"
    i,                  \* calls of run_test since the clock was last read
    elapsed,            \* ticks since start_time
    total,              \* total_iterations
    calls,              \* ghost: timed calls of run_test for this size
    hash,               \* hash_result
    sizes, done,        \* ghost: the sizes given, and how many are completed
    rows,               \* the sizes of the rows appended to results.csv
    report,             \* what was reported last
    exit                \* exit status

loopVars == <<i, elapsed, total, calls, hash>>
outVars  == <<sizes, done, rows, report>>
vars == <<pc, isBenchmark, argv, resultOnly, fixture, fragments, i, elapsed,
          total, calls, hash, sizes, done, rows, report, exit>>

NoHash == [seed |-> "none", runs |-> 0]
NoReport == [elapsed |-> 0, total |-> 0, calls |-> 0, hash |-> NoHash]

TypeOK ==
    /\ pc \in {"start", "args", "setup", "warm", "timed", "report", "exited"}
    /\ isBenchmark \in BOOLEAN
    /\ argv \in Seq(DOMAIN Atoi)
    /\ resultOnly \in BOOLEAN
    /\ fixture \in BOOLEAN
    /\ fragments \in {"none", "half", "freed"}
    /\ i \in Nat /\ elapsed \in Nat /\ total \in Nat /\ calls \in Nat
    /\ hash \in Hash
    /\ sizes \in Seq(Int) /\ done \in Nat
    /\ rows \in Seq(Int)
    /\ report \in [elapsed : Nat, total : Nat, calls : Nat, hash : Hash]
    /\ exit \in {"none", "success", "failure"}

Words(words) == [k \in DOMAIN words |-> Atoi[words[k]]]

\* The sizes on the command line, what follows a leading -r.
HasFlag(words) == words # <<>> /\ Head(words) = "-r"
SizesOf(words) == Words(IF HasFlag(words) THEN Tail(words) ELSE words)

Init ==
    /\ pc = "start"
    /\ isBenchmark \in BOOLEAN
    /\ argv \in CommandLines
    /\ resultOnly = FALSE
    /\ fixture = FALSE
    /\ fragments = "none"
    /\ i = 0 /\ elapsed = 0 /\ total = 0 /\ calls = 0
    /\ hash = NoHash
    /\ sizes = SizesOf(argv) /\ done = 0
    /\ rows = <<>>
    /\ report = NoReport
    /\ exit = "none"

-----------------------------------------------------------------------------
(* main().                                                                 *)

\* The process exits: nothing is torn down on the way out.
Exit(status) ==
    /\ pc' = "exited"
    /\ exit' = status
    /\ UNCHANGED <<isBenchmark, resultOnly, fixture, outVars, loopVars>>

ParseFlagAllowsNone ==      \* mutant: no size is no error
    /\ pc = "start"
    /\ resultOnly' = HasFlag(argv)
    /\ argv' = IF HasFlag(argv) THEN Tail(argv) ELSE argv
    /\ pc' = "args" /\ fragments' = "half"
    /\ UNCHANGED <<isBenchmark, fixture, exit, outVars, loopVars>>

\* Consumes -r, refuses to go on without a size, and fragments the memory.
ParseFlag ==
    /\ pc = "start"
    /\ resultOnly' = HasFlag(argv)
    /\ argv' = IF HasFlag(argv) THEN Tail(argv) ELSE argv
    /\ IF argv' = <<>>
       THEN /\ pc' = "exited" /\ exit' = "failure"
            /\ UNCHANGED fragments
       ELSE /\ pc' = "args" /\ fragments' = "half"
            /\ UNCHANGED exit
    /\ UNCHANGED <<isBenchmark, fixture, outVars, loopVars>>

\* The loop condition of main: no size is left.
NoMoreArgs ==
    /\ pc = "args"
    /\ argv = <<>>
    /\ fragments' = "freed"
    /\ Exit("success")
    /\ UNCHANGED argv

ObjectSize == Atoi[Head(argv)]

RejectSizeContinue ==       \* mutant: skipped, but argv is not advanced
    /\ pc = "args"
    /\ argv # <<>>
    /\ ObjectSize \notin 1..5
    /\ UNCHANGED vars

RejectSize ==
    /\ pc = "args"
    /\ argv # <<>>
    /\ ObjectSize \notin 1..5
    /\ Exit("failure")
    /\ UNCHANGED <<argv, fragments>>

AcceptSize ==
    /\ pc = "args"
    /\ argv # <<>>
    /\ ObjectSize \in 1..5
    /\ pc' = "setup"
    /\ UNCHANGED <<isBenchmark, argv, resultOnly, fixture, fragments, loopVars,
                   outVars, exit>>

-----------------------------------------------------------------------------
(* go().                                                                   *)

\* A call of setup_test or run_test returns false: go() and main() return
\* at once, without teardown_test and without freeing the fragments.
CallFails ==
    /\ pc \in {"setup", "warm", "timed"}
    /\ pc # "setup" => i < Iterations[ObjectSize]
    /\ Exit("failure")
    /\ UNCHANGED <<argv, fragments>>

\* go() returns true and the loop of main takes the next argument.
ReturnTrue ==
    /\ pc' = "args"
    /\ argv' = Tail(argv)
    /\ done' = done + 1
    /\ UNCHANGED <<isBenchmark, resultOnly, fragments, sizes, exit>>

\* A file creator has done its work in setup_test.
SetupFileCreator ==
    /\ pc = "setup"
    /\ ~isBenchmark
    /\ fixture' = FALSE         \* teardown_test
    /\ ReturnTrue
    /\ UNCHANGED <<loopVars, rows, report>>

SetupBenchmark ==
    /\ pc = "setup"
    /\ isBenchmark
    /\ fixture' = TRUE
    /\ pc' = "warm"
    /\ i' = 0 /\ elapsed' = 0 /\ hash' = NoHash
    /\ UNCHANGED <<isBenchmark, argv, resultOnly, fragments, total, calls,
                   outVars, exit>>

\* run_test succeeds: it hashes into *hash_out and takes a while.
RunTest(seed) ==
    /\ i < Iterations[ObjectSize]
    /\ i' = i + 1
    /\ hash' = [seed |-> seed, runs |-> 1]
    /\ \E ticks \in 1..MaxRun : elapsed' = elapsed + ticks

WarmRun ==
    /\ pc = "warm"
    /\ RunTest("zero")
    /\ UNCHANGED <<pc, isBenchmark, argv, resultOnly, fixture, fragments, total,
                   calls, outVars, exit>>

\* The batch is over: the clock is read, and the warm-up goes on or ends.
WarmCheck ==
    /\ pc = "warm"
    /\ i = Iterations[ObjectSize]
    /\ i' = 0
    /\ IF elapsed > WarmTime
       THEN /\ pc' = "timed"
            /\ total' = 0 /\ calls' = 0 /\ elapsed' = 0
       ELSE UNCHANGED <<pc, total, calls, elapsed>>
    /\ UNCHANGED <<isBenchmark, argv, resultOnly, fixture, fragments, hash,
                   outVars, exit>>

TimedRun ==
    /\ pc = "timed"
    /\ RunTest("initial")
    /\ total' = total + 1
    /\ calls' = calls + 1
    /\ UNCHANGED <<pc, isBenchmark, argv, resultOnly, fixture, fragments,
                   outVars, exit>>

TimedCheckWarmTime ==       \* mutant: the limit of the warm-up is used
    /\ pc = "timed"
    /\ i = Iterations[ObjectSize]
    /\ i' = 0
    /\ pc' = IF elapsed > WarmTime THEN "report" ELSE pc
    /\ UNCHANGED <<isBenchmark, argv, resultOnly, fixture, fragments, elapsed,
                   total, calls, hash, outVars, exit>>

TimedCheck ==
    /\ pc = "timed"
    /\ i = Iterations[ObjectSize]
    /\ i' = 0
    /\ pc' = IF elapsed > WorkTime THEN "report" ELSE pc
    /\ UNCHANGED <<isBenchmark, argv, resultOnly, fixture, fragments, elapsed,
                   total, calls, hash, outVars, exit>>

ReportNoTeardown ==         \* mutant: only file creators tear down
    /\ pc = "report"
    /\ report' = [elapsed |-> elapsed, total |-> total, calls |-> calls,
                  hash |-> hash]
    /\ \/ UNCHANGED rows
       \/ ~resultOnly /\ rows' = Append(rows, ObjectSize)
    /\ ReturnTrue
    /\ UNCHANGED <<loopVars, fixture>>

\* Prints the result; without -r also appends the row, which is lost if the
\* disk is full: neither fprintf nor fclose is looked at.  Then tears down.
Report ==
    /\ pc = "report"
    /\ report' = [elapsed |-> elapsed, total |-> total, calls |-> calls,
                  hash |-> hash]
    /\ \/ UNCHANGED rows
       \/ ~resultOnly /\ rows' = Append(rows, ObjectSize)
    /\ fixture' = FALSE
    /\ ReturnTrue
    /\ UNCHANGED loopVars

\* fopen of results.csv fails: fprintf is given a null pointer, which ends
\* the process.
ReportCrash ==
    /\ pc = "report"
    /\ ~resultOnly
    /\ Exit("failure")
    /\ UNCHANGED <<argv, fragments>>

-----------------------------------------------------------------------------
Exited == pc = "exited" /\ UNCHANGED vars

Step ==
    \/ ParseFlag \/ NoMoreArgs \/ RejectSize \/ AcceptSize
    \/ CallFails \/ SetupFileCreator \/ SetupBenchmark
    \/ WarmRun \/ WarmCheck \/ TimedRun \/ TimedCheck
    \/ Report \/ ReportCrash

Next == Step \/ Exited

Spec == Init /\ [][Next]_vars

FairSpec == Spec /\ WF_vars(Step)

-----------------------------------------------------------------------------
(* Properties.                                                             *)

\* What go() reports was measured as it says: for longer than WORK_TIME, over
\* exactly the calls of run_test made since the clock was started, at least
\* one, none of the warm-up among them.  The hash is that of one run started
\* from HASH_INITIAL_VALUE, which makes the hashes of formats comparable.
Measured ==
    report # NoReport =>
        /\ report.elapsed > WorkTime
        /\ report.total = report.calls
        /\ report.total > 0
        /\ report.hash = [seed |-> "initial", runs |-> 1]

\* run_test is called only on what setup_test made and teardown_test has not
\* freed, two sizes never hold their data at once, and a successful run
\* leaves neither test data nor fragments behind.
FixtureHeld ==
    /\ pc \in {"warm", "timed", "report"} => fixture
    /\ pc \in {"start", "args", "setup"} => ~fixture
    /\ exit = "success" => ~fixture /\ fragments = "freed"

Outside == INSTANCE BenchRun

\* From the outside the harness is a run as BuildZig takes it to be.
ImplementsBenchRun == Outside!Init /\ [][Outside!Next]_(Outside!vars)

\* The time limits end both loops: every run of a test program exits.
Terminates == <>(exit # "none")
=============================================================================
