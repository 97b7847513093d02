------------------------------ MODULE BuildZig ------------------------------
(***************************************************************************)
(* The build graph of build.zig, run by `zig build benchmark` and `zig     *)
(* build zigpak`: the run queue of RunQueue on the graph that build()      *)
(* wires, composed with what its steps do to the disk.                     *)
(*                                                                         *)
(* The steps share three things: the directory build/, which an EnsurePath *)
(* step makes; the data files build/data-N.mp, which one run of mpack-file *)
(* writes and the readers load; and results.csv, to which every benchmark  *)
(* appends a row per object size.  None of these is named to the build     *)
(* system as an input or an output: that a reader finds a whole data file  *)
(* rests on the edges alone, and for zigpak-read on the queue alone.       *)
(*                                                                         *)
(* Each executable is one step here: the objects it is linked from are     *)
(* compiled by steps of their own, which only come before it.              *)
(***************************************************************************)
EXTENDS Integers, Sequences, FiniteSets, SequencesExt

CONSTANTS
    Opt,                \* -Doptimize: "Speed" or "Size"
    Kept,               \* the benchmarks kept, in the order they are appended
    Targets,            \* what `zig build` was asked for
    Workers,            \* steps the build runner keeps running
    NoStep

\* defaultTestObjectSizes: the sizes every benchmark is run with.
TestSizes == IF Opt = "Size" THEN <<2>> ELSE <<2, 4>>

\* The arguments of the run of mpack-file.
DataSizes == <<1, 2, 3, 4, 5>>

\* The calls of createRunBenchmark, in the order of build().
Calls ==
    <<"hash-object", "hash-data", "mpack-write", "mpack-read", "mpack-node",
      "mpack-tracking-write", "mpack-tracking-read", "mpack-utf8-read",
      "mpack-utf8-node", "zigpak-read", "zigpak-write">>

Benchmarks == {Calls[k] : k \in DOMAIN Calls}
Place(b)   == CHOOSE k \in DOMAIN Calls : Calls[k] = b

Built   == {Kept[i] : i \in DOMAIN Kept}
Zigpaks == Built \cap {"zigpak-read", "zigpak-write"}

\* The benchmarks whose run is made to depend on the run of mpack-file.
DependOnData == Built \cap
    {"mpack-write", "mpack-read", "mpack-node", "mpack-tracking-write",
     "mpack-tracking-read", "mpack-utf8-read", "mpack-utf8-node"}

\* The benchmarks whose setup_test loads a data file.
Readers == {"mpack-read", "mpack-node", "mpack-tracking-read",
            "mpack-utf8-read", "mpack-utf8-node", "zigpak-read"}

-----------------------------------------------------------------------------
(* The steps and the edges made by build() outside the queue.              *)

Exe(b)    == <<"exe", b>>
Run(b)    == <<"run", b>>
Extra(b)  == <<"extra", b>>      \* the second run of a zigpak benchmark
SetupData == Run("mpack-file")
BuildDir  == <<"mkdir", "build">>
RunQ      == <<"queue", "run queue">>
Top(t)    == <<"top", t>>

QueuedRuns == {Run(b) : b \in Built}
ExtraRuns  == {Extra(b) : b \in Zigpaks}
BenchRuns  == QueuedRuns \cup ExtraRuns
Runs       == BenchRuns \cup {SetupData}
Exes       == {Exe(b) : b \in Built \cup {"mpack-file"}}

Steps == Runs \cup Exes \cup {BuildDir, RunQ, Top("benchmark"), Top("zigpak")}

\* An instance keeps some of the calls of createRunBenchmark, in their order.
ASSUME BuildAssumption ==
    /\ Opt \in {"Speed", "Size"}
    /\ Kept \in Seq(Benchmarks)
    /\ \A i, j \in DOMAIN Kept : i < j => Place(Kept[i]) < Place(Kept[j])
    /\ Targets \subseteq {"benchmark", "zigpak"}
    /\ Workers \in Nat \ {0}
    /\ NoStep \notin Steps

\* addRunArtifact makes a run depend on its executable.
UsesUndeclared == [s \in Steps |->      \* mutant: no dependOn(setupMsgpackData)
    CASE s = SetupData        -> {Exe("mpack-file"), BuildDir}
      [] s \in BenchRuns      -> {Exe(s[2])}
      [] s = Top("benchmark") -> {RunQ}
      [] s = Top("zigpak")    -> ExtraRuns
      [] OTHER                -> {}]

UsesNoDir == [s \in Steps |->           \* mutant: no dependOn(buildDir)
    CASE s = SetupData        -> {Exe("mpack-file")}
      [] s \in BenchRuns      -> {Exe(s[2])} \cup
            (IF s[1] = "run" /\ s[2] \in DependOnData THEN {SetupData} ELSE {})
      [] s = Top("benchmark") -> {RunQ}
      [] s = Top("zigpak")    -> ExtraRuns
      [] OTHER                -> {}]

Uses == [s \in Steps |->
    CASE s = SetupData        -> {Exe("mpack-file"), BuildDir}
      [] s \in BenchRuns      -> {Exe(s[2])} \cup
            (IF s[1] = "run" /\ s[2] \in DependOnData THEN {SetupData} ELSE {})
      [] s = Top("benchmark") -> {RunQ}
      [] s = Top("zigpak")    -> ExtraRuns
      [] OTHER                -> {}]

-----------------------------------------------------------------------------
VARIABLES
    phase, appended, last, deps, state,     \* of the run queue and the runner
    dir,                \* build/ exists
    data,               \* of each size, what build/data-N.mp holds: "absent",
                        \*   "partial" or "complete"
    at,                 \* of each run, how many of its sizes are done
    busy,               \* of each run, whether it is inside a size: mpack-file
                        \*   has the file open, a reader has loaded it
    seen,               \* of each run, what the data files it loaded held
    csv,                \* results.csv: <<run, size>> of each row
    lost                \* ghost: whether a row of the queue was lost

queueVars == <<phase, appended, last, deps, state>>
diskVars  == <<dir, data, csv, lost>>
runVars   == <<at, busy, seen>>
vars      == <<phase, appended, last, deps, state, dir, data, at, busy, seen,
               csv, lost>>

Queue == [i \in DOMAIN Kept |-> Run(Kept[i])]

Q == INSTANCE RunQueue WITH
        QueueStep <- RunQ, Wanted <- {Top(t) : t \in Targets}

\* What an earlier build left: nothing, the directory alone, all the files,
\* or those a run of mpack-file had written when it was killed at size k.
LeftBehind ==
    {[n \in ToSet(DataSizes) |-> c] : c \in {"absent", "complete"}} \cup
    {[n \in ToSet(DataSizes) |-> CASE n < k -> "complete"
                                   [] n = k -> "partial"
                                   [] n > k -> "absent"] : k \in ToSet(DataSizes)}

Init ==
    /\ Q!Init
    /\ data \in LeftBehind
    /\ dir \in {TRUE, \E n \in DOMAIN data : data[n] # "absent"}
    /\ at = [r \in Runs |-> 0]
    /\ busy = [r \in Runs |-> FALSE]
    /\ seen = [r \in Runs |-> {}]
    /\ csv = <<>>
    /\ lost = FALSE

-----------------------------------------------------------------------------
(* Configuration, and the parts of the runner that touch no file.          *)

Configure ==
    /\ Q!AppendNext \/ Q!Finalize \/ Q!Plan
    /\ UNCHANGED <<diskVars, runVars>>

StartUnready(s) ==          \* mutant: started without looking at its edges
    /\ phase = "make" /\ state[s] = "precheck_done"
    /\ state' = [state EXCEPT ![s] = "running"]
    /\ UNCHANGED <<phase, appended, last, deps, diskVars, runVars>>

Start(s) == Q!Start(s) /\ UNCHANGED <<diskVars, runVars>>

GiveUp(s) == Q!GiveUp(s) /\ UNCHANGED <<diskVars, runVars>>

\* A compilation ends; the queue's step and the top-level ones do nothing.
EndCompile(s) ==
    /\ s \in Exes
    /\ Q!Succeed(s) \/ Q!Fail(s)
    /\ UNCHANGED <<diskVars, runVars>>

EndEmpty(s) ==
    /\ s \notin Exes \cup Runs \cup {BuildDir}
    /\ Q!Succeed(s)
    /\ UNCHANGED <<diskVars, runVars>>

-----------------------------------------------------------------------------
(* EnsurePath.make: makePath creates the directory, or returns an error.   *)

MakePath ==
    /\ \/ Q!Succeed(BuildDir) /\ dir' = TRUE
       \/ Q!Fail(BuildDir) /\ UNCHANGED dir
    /\ UNCHANGED <<data, csv, lost, runVars>>

-----------------------------------------------------------------------------
(* The run of mpack-file: setup_test opens, writes and closes each file.   *)

\* mpack_writer_init_file truncates the file; it fails without the directory
\* and the process exits with EXIT_FAILURE.
OpenData ==
    LET n == DataSizes[at[SetupData] + 1] IN
    /\ state[SetupData] = "running"
    /\ at[SetupData] < Len(DataSizes)
    /\ ~busy[SetupData]
    /\ IF dir
       THEN /\ data' = [data EXCEPT ![n] = "partial"]
            /\ busy' = [busy EXCEPT ![SetupData] = TRUE]
            /\ UNCHANGED queueVars
       ELSE /\ Q!Fail(SetupData)
            /\ UNCHANGED <<data, busy>>
    /\ UNCHANGED <<dir, csv, lost, at, seen>>

\* mpack_writer_destroy flushes and closes it.
CloseData ==
    LET n == DataSizes[at[SetupData] + 1] IN
    /\ state[SetupData] = "running"
    /\ busy[SetupData]
    /\ data' = [data EXCEPT ![n] = "complete"]
    /\ busy' = [busy EXCEPT ![SetupData] = FALSE]
    /\ at' = [at EXCEPT ![SetupData] = @ + 1]
    /\ UNCHANGED <<queueVars, dir, csv, lost, seen>>

-----------------------------------------------------------------------------
(* The run of a benchmark.                                                 *)

\* setup_test of a reader: load_file fails if the file is not there, and is
\* content with whatever part of it is.
LoadData(r) ==
    LET content == data[TestSizes[at[r] + 1]] IN
    /\ r \in BenchRuns
    /\ r[2] \in Readers
    /\ state[r] = "running"
    /\ at[r] < Len(TestSizes)
    /\ ~busy[r]
    /\ seen' = [seen EXCEPT ![r] = @ \cup {content}]
    /\ IF content = "absent"
       THEN Q!Fail(r) /\ UNCHANGED busy
       ELSE busy' = [busy EXCEPT ![r] = TRUE] /\ UNCHANGED queueVars
    /\ UNCHANGED <<diskVars, at>>

ReportRowSameSize(r) ==     \* mutant: main() does not go on to the next size
    /\ r \in BenchRuns
    /\ state[r] = "running"
    /\ at[r] < Len(TestSizes)
    /\ r[2] \in Readers => busy[r]
    /\ csv' = Append(csv, <<r, TestSizes[at[r] + 1]>>)
    /\ busy' = [busy EXCEPT ![r] = FALSE]
    /\ UNCHANGED <<queueVars, dir, data, seen, at, lost>>

\* go() appends the row of one size when its timed loop is over.  It does not
\* look at what fprintf and fclose return: a row lost to a full disk changes
\* nothing else.
ReportRow(r) ==
    /\ r \in BenchRuns
    /\ state[r] = "running"
    /\ at[r] < Len(TestSizes)
    /\ r[2] \in Readers => busy[r]
    /\ \/ csv' = Append(csv, <<r, TestSizes[at[r] + 1]>>) /\ UNCHANGED lost
       \/ lost' = (lost \/ r \in QueuedRuns) /\ UNCHANGED csv
    /\ at' = [at EXCEPT ![r] = @ + 1]
    /\ busy' = [busy EXCEPT ![r] = FALSE]
    /\ UNCHANGED <<queueVars, dir, data, seen>>

\* main() has run out of sizes and returns EXIT_SUCCESS.
Sizes(r) == IF r = SetupData THEN DataSizes ELSE TestSizes

ExitSuccess(r) ==
    /\ r \in Runs
    /\ at[r] = Len(Sizes(r))
    /\ Q!Succeed(r)
    /\ UNCHANGED <<diskVars, runVars>>

ExitFailureIgnored(r) ==    \* mutant: main() ignores what go() returns
    /\ r \in Runs
    /\ at[r] < Len(Sizes(r))
    /\ Q!Succeed(r)
    /\ UNCHANGED <<diskVars, runVars>>

\* A size fails: out of memory, no space, an error of the library, a signal.
\* Rows and files already written stay.
ExitFailure(r) ==
    /\ r \in Runs
    /\ at[r] < Len(Sizes(r))
    /\ Q!Fail(r)
    /\ UNCHANGED <<diskVars, runVars>>

-----------------------------------------------------------------------------
StepAction(s) ==
    \/ Start(s) \/ GiveUp(s)
    \/ EndCompile(s) \/ EndEmpty(s)
    \/ s = BuildDir /\ MakePath
    \/ s = SetupData /\ (OpenData \/ CloseData)
    \/ LoadData(s) \/ ReportRow(s)
    \/ ExitSuccess(s) \/ ExitFailure(s)

Done == Q!Done /\ UNCHANGED <<diskVars, runVars>>

Next == Configure \/ (\E s \in Steps : StepAction(s)) \/ Done

Spec == Init /\ [][Next]_vars

\* Every step that may go on does: processes are scheduled, and a benchmark
\* measures each size for a bounded time.
FairSpec ==
    /\ Spec
    /\ WF_vars(Configure)
    /\ \A s \in Steps : WF_vars(StepAction(s))

-----------------------------------------------------------------------------
(* Properties.                                                             *)

\* What the steps do to the disk never makes the build take a step that the
\* run queue and the runner would not: the theorems of RunQueue hold here.
ImplementsRunQueue == Q!Spec

\* The run of mpack-file never fails for want of build/: on a fresh checkout,
\* and whatever else the targets have running, the directory comes first, and
\* no data file is anywhere else.
DirFirst ==
    /\ state[SetupData] \in {"running", "success", "failure"} => dir
    /\ (\E n \in DOMAIN data : data[n] # "absent") => dir

\* A reader of the queue finds the data files whole.  mpack-read and its kin
\* have an edge to the run of mpack-file; zigpak-read has none and depends on
\* the members of the queue before it.
QueuedReadsWhole ==
    \A r \in QueuedRuns : seen[r] \subseteq {"complete"}

Position(b) == CHOOSE i \in DOMAIN Kept : Kept[i] = b

\* The rows the queue appends to results.csv come in the order of the queue
\* and, within a benchmark, of the sizes, and none comes twice.
RowsInOrder ==
    \A m, n \in DOMAIN csv :
        m < n /\ csv[m][1] \in QueuedRuns /\ csv[n][1] \in QueuedRuns =>
            LET i == Position(csv[m][1][2])
                j == Position(csv[n][1][2])
            IN i < j \/ (i = j /\ csv[m][2] < csv[n][2])

\* `zig build benchmark` reports success only with a row of every benchmark
\* and size in results.csv, if no append is lost.
SuccessMeansRows ==
    state[Top("benchmark")] = "success" /\ ~lost =>
        \A r \in QueuedRuns, n \in ToSet(TestSizes) : <<r, n>> \in ToSet(csv)

\* The build ends: every target is built or reported as failed.
TargetsSettle ==
    \A t \in Targets : <>(state[Top(t)] \in Q!Settled)

\* zig build zigpak is described as "Run zigpak benchmark" and builds what
\* its benchmarks need: a run of it never finds a data file missing.
ZigpakFindsData ==
    \A r \in ExtraRuns : "absent" \notin seen[r]
=============================================================================
