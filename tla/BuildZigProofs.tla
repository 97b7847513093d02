--------------------------- MODULE BuildZigProofs ---------------------------
(***************************************************************************)
(* Proofs about BuildZig, for every choice of benchmarks, every target and *)
(* every number of steps kept running.                                     *)
(*                                                                         *)
(* The build takes the steps of the run queue and the runner alone, so     *)
(* that the invariant of RunQueueProofs holds of it.  The rest of the      *)
(* argument is about the disk, and rests on one fact of the runner: a step *)
(* that has started has found the steps it depends on done.  The directory *)
(* is there before mpack-file by an edge, and so are the data files before *)
(* most readers.  For zigpak-read they are because the queue has run a     *)
(* benchmark with such an edge before it.                                  *)
(*                                                                         *)
(* Last, each run is one of BenchRun, so that what Harness implements is   *)
(* what the build composes.                                                *)
(***************************************************************************)
EXTENDS BuildZig, TLAPS

P == INSTANCE RunQueueProofs WITH
        QueueStep <- RunQ, Wanted <- {Top(t) : t \in Targets}

-----------------------------------------------------------------------------
(* The steps and the edges.                                                *)

\* A step is known by its kind and its name.
LEMMA Names ==
    /\ \A b, c : /\ Run(b) = Run(c) => b = c
                 /\ Exe(b) = Exe(c) => b = c
                 /\ Extra(b) = Extra(c) => b = c
                 /\ Top(b) = Top(c) => b = c
                 /\ Run(b) # Exe(c) /\ Run(b) # Extra(c) /\ Run(b) # Top(c)
                 /\ Exe(b) # Extra(c) /\ Exe(b) # Top(c) /\ Extra(b) # Top(c)
    /\ \A b : /\ BuildDir \notin {Run(b), Exe(b), Extra(b), Top(b), RunQ}
              /\ RunQ \notin {Run(b), Exe(b), Extra(b), Top(b)}
    /\ \A b : /\ Run(b)[1] = "run" /\ Run(b)[2] = b
              /\ Extra(b)[1] = "extra" /\ Extra(b)[2] = b
BY DEF Run, Exe, Extra, Top, BuildDir, RunQ

\* The calls of createRunBenchmark, and the place of each.
LEMMA CallsFacts ==
    /\ DOMAIN Calls = 1..11
    /\ Benchmarks = {"hash-object", "hash-data", "mpack-write", "mpack-read",
         "mpack-node", "mpack-tracking-write", "mpack-tracking-read",
         "mpack-utf8-read", "mpack-utf8-node", "zigpak-read", "zigpak-write"}
    /\ "mpack-file" \notin Benchmarks
    /\ \A b \in Benchmarks : Place(b) \in 1..11
<1>1. DOMAIN Calls = 1..11
    BY DEF Calls
<1>2. Benchmarks = {"hash-object", "hash-data", "mpack-write", "mpack-read",
         "mpack-node", "mpack-tracking-write", "mpack-tracking-read",
         "mpack-utf8-read", "mpack-utf8-node", "zigpak-read", "zigpak-write"}
    BY <1>1 DEF Benchmarks, Calls
<1>3. \A b \in Benchmarks : Place(b) \in 1..11
    <2> TAKE b \in Benchmarks
    <2>1. \E k \in DOMAIN Calls : Calls[k] = b
        BY DEF Benchmarks
    <2> QED BY <2>1, <1>1 DEF Place
<1> QED BY <1>1, <1>2, <1>3

\* The benchmarks of the instance are distinct and none is mpack-file.
LEMMA OrderFacts ==
    /\ Len(Kept) \in Nat /\ DOMAIN Kept = 1..Len(Kept)
    /\ \A i \in DOMAIN Kept : Kept[i] \in Benchmarks /\ Kept[i] # "mpack-file"
    /\ \A i, j \in DOMAIN Kept : Kept[i] = Kept[j] => i = j
    /\ Built \subseteq Benchmarks /\ "mpack-file" \notin Built
    /\ Zigpaks \subseteq Built /\ DependOnData \subseteq Built
<1>1. Len(Kept) \in Nat /\ DOMAIN Kept = 1..Len(Kept)
      /\ \A i \in DOMAIN Kept : Kept[i] \in Benchmarks
    BY BuildAssumption
<1>2. \A i, j \in DOMAIN Kept : Kept[i] = Kept[j] => i = j
    <2> SUFFICES ASSUME NEW i \in DOMAIN Kept, NEW j \in DOMAIN Kept,
                        Kept[i] = Kept[j], i < j
                 PROVE  FALSE
        BY <1>1
    <2>1. Place(Kept[i]) < Place(Kept[j])
        BY BuildAssumption
    <2>2. Place(Kept[i]) \in 1..11
        BY <1>1, CallsFacts
    <2> QED BY <2>1, <2>2
<1>3. Built \subseteq Benchmarks
    BY <1>1 DEF Built
<1> QED BY <1>1, <1>2, <1>3, CallsFacts DEF Zigpaks, DependOnData

\* The kinds of steps are apart.
LEMMA StepFacts ==
    /\ SetupData \in Runs /\ SetupData \notin BenchRuns
    /\ QueuedRuns \subseteq BenchRuns /\ BenchRuns \subseteq Runs
    /\ Runs \subseteq Steps
    /\ \A s \in Runs : s \notin Exes /\ s # BuildDir /\ s # RunQ
                       /\ \A t : s # Top(t)
    /\ BuildDir \in Steps /\ BuildDir \notin Exes
    /\ RunQ \in Steps /\ RunQ \notin Exes
    /\ Top("benchmark") \in Steps /\ Top("zigpak") \in Steps
    /\ \A t : Top(t) \notin Exes
<1>1. SetupData \notin BenchRuns
    BY Names, OrderFacts DEF SetupData, BenchRuns, QueuedRuns, ExtraRuns
<1>2. \A s \in Runs : s \notin Exes /\ s # BuildDir /\ s # RunQ
                       /\ \A t : s # Top(t)
    BY Names DEF Runs, BenchRuns, QueuedRuns, ExtraRuns, SetupData, Exes
<1>3. BuildDir \notin Exes /\ RunQ \notin Exes /\ \A t : Top(t) \notin Exes
    BY Names DEF Exes
<1> QED BY <1>1, <1>2, <1>3 DEF Steps, Runs, BenchRuns

\* The edges of build() are between steps; the ones the proofs rest on.
LEMMA UsesFacts ==
    /\ Uses \in [Steps -> SUBSET Steps]
    /\ BuildDir \in Uses[SetupData]
    /\ \A b \in DependOnData : SetupData \in Uses[Run(b)]
    /\ RunQ \in Uses[Top("benchmark")]
<1>1. SetupData \in Steps /\ Uses[SetupData] = {Exe("mpack-file"), BuildDir}
    BY StepFacts DEF Uses
<1>2. ASSUME NEW s \in BenchRuns
      PROVE  /\ s \in Steps
             /\ Uses[s] = {Exe(s[2])} \cup
                   (IF s[1] = "run" /\ s[2] \in DependOnData
                    THEN {SetupData} ELSE {})
    BY StepFacts DEF Uses
<1>3. \A b \in DependOnData : SetupData \in Uses[Run(b)]
    <2> TAKE b \in DependOnData
    <2>1. Run(b) \in BenchRuns
        BY OrderFacts DEF BenchRuns, QueuedRuns
    <2> QED BY <2>1, <1>2, Names
<1>4. Uses[Top("benchmark")] = {RunQ}
    <2>1. /\ Top("benchmark") \in Steps
          /\ Top("benchmark") # SetupData /\ Top("benchmark") \notin BenchRuns
        BY StepFacts
    <2>2. Top("benchmark") # Top("zigpak")
        BY Names
    <2> QED BY <2>1, <2>2 DEF Uses
<1>5. ASSUME NEW s \in Steps PROVE Uses[s] \subseteq Steps
    <2>1. CASE s = SetupData
        BY <2>1, <1>1, StepFacts DEF Steps, Exes
    <2>2. CASE s \in BenchRuns
        <3>1. s[2] \in Built
            BY <2>2, Names, OrderFacts DEF BenchRuns, QueuedRuns, ExtraRuns
        <3>2. Exe(s[2]) \in Steps
            BY <3>1 DEF Steps, Exes
        <3> QED BY <2>2, <1>2, <3>2, StepFacts
    <2>3. CASE s \notin Runs
        <3>1. ExtraRuns \subseteq Steps
            BY StepFacts DEF BenchRuns
        <3>2. s # SetupData /\ s \notin BenchRuns
            BY <2>3, StepFacts
        <3>3. Uses[s] \in {{RunQ}, ExtraRuns, {}}
            BY <3>2 DEF Uses
        <3> QED BY <3>1, <3>3, StepFacts
    <2> QED BY <2>1, <2>2, <2>3 DEF Runs
<1>6. Uses = [s \in Steps |-> Uses[s]]
    BY DEF Uses
<1> QED BY <1>1, <1>3, <1>4, <1>5, <1>6

\* The queue of the runs is a queue in the sense of RunQueue.
LEMMA QueueFacts ==
    /\ DOMAIN Queue = DOMAIN Kept /\ Len(Queue) = Len(Kept)
    /\ \A i \in DOMAIN Kept : Queue[i] = Run(Kept[i]) /\ Queue[i] \in QueuedRuns
    /\ \A r \in QueuedRuns : \E i \in DOMAIN Kept : r = Queue[i]
    /\ P!QueueAssumption /\ P!GraphAssumption
<1>1. DOMAIN Queue = DOMAIN Kept
      /\ \A i \in DOMAIN Kept : Queue[i] = Run(Kept[i])
    BY DEF Queue
<1>2. \A i \in DOMAIN Kept : Queue[i] \in QueuedRuns
    BY <1>1 DEF QueuedRuns, Built
<1>3. \A r \in QueuedRuns : \E i \in DOMAIN Kept : r = Queue[i]
    BY <1>1 DEF QueuedRuns, Built
<1>4. Queue \in Seq(Steps) /\ Len(Queue) = Len(Kept)
    <2>1. \A i \in 1..Len(Kept) : Queue[i] \in Steps
        BY <1>1, <1>2, StepFacts, OrderFacts
    <2>2. Queue = [i \in 1..Len(Kept) |-> Queue[i]]
        BY OrderFacts DEF Queue
    <2>3. Len(Kept) \in Nat
        BY OrderFacts
    <2> QED BY <2>1, <2>2, <2>3
<1>5. P!QueueAssumption
    <2>1. \A i, j \in DOMAIN Queue : Queue[i] = Queue[j] => i = j
        BY <1>1, Names, OrderFacts
    <2>2. RunQ \in Steps \ P!Members
        BY <1>1, Names, StepFacts DEF P!Members
    <2>3. NoStep \notin Steps
        BY BuildAssumption
    <2> QED BY <1>4, <2>1, <2>2, <2>3 DEF P!QueueAssumption
<1>6. P!GraphAssumption
    <2>1. {Top(t) : t \in Targets} \subseteq Steps
        BY BuildAssumption, StepFacts
    <2>2. Workers \in Nat \ {0}
        BY BuildAssumption
    <2> QED BY <2>1, <2>2, UsesFacts DEF P!GraphAssumption
<1> QED BY <1>1, <1>2, <1>3, <1>4, <1>5, <1>6
-----------------------------------------------------------------------------
(* The build takes the steps of the queue and the runner alone.            *)

\* The build begins as the queue does.
LEMMA QueueInit == Init => Q!Init
BY DEF Init

\* Every step of it is one of the queue or the runner, or is none of theirs.
LEMMA QueueStep == ASSUME [Next]_vars PROVE [Q!Next]_(Q!vars)
<1>1. CASE Configure
    BY <1>1 DEF Configure, Q!Next
<1>2. ASSUME NEW s \in Steps, StepAction(s)
      PROVE  \/ Q!StepAction(s) \/ UNCHANGED Q!vars
    <2>1. SetupData \in Steps /\ BuildDir \in Steps
        BY StepFacts
    <2>2. CASE Start(s) \/ GiveUp(s) \/ EndCompile(s) \/ EndEmpty(s)
        BY <2>2 DEF Start, GiveUp, EndCompile, EndEmpty, Q!StepAction
    <2>3. CASE s = BuildDir /\ MakePath
        BY <2>3 DEF MakePath, Q!StepAction
    <2>4. CASE s = SetupData /\ OpenData
        BY <2>4 DEF OpenData, Q!StepAction, queueVars, Q!vars
    <2>5. CASE s = SetupData /\ CloseData
        BY <2>5 DEF CloseData, queueVars, Q!vars
    <2>6. CASE LoadData(s)
        BY <2>6 DEF LoadData, Q!StepAction, queueVars, Q!vars
    <2>7. CASE ReportRow(s)
        BY <2>7 DEF ReportRow, queueVars, Q!vars
    <2>8. CASE ExitSuccess(s) \/ ExitFailure(s)
        BY <2>8 DEF ExitSuccess, ExitFailure, Q!StepAction
    <2> QED BY <1>2, <2>2, <2>3, <2>4, <2>5, <2>6, <2>7, <2>8 DEF StepAction
<1>3. CASE Done
    BY <1>3 DEF Done, Q!Next
<1>4. CASE UNCHANGED vars
    BY <1>4 DEF vars, Q!vars
<1> QED BY <1>1, <1>2, <1>3, <1>4 DEF Next, Q!Next

\* Whatever the steps do to the disk, the build is one of the run queue.
THEOREM BuildImplementsQueue == Spec => ImplementsRunQueue
BY QueueInit, QueueStep, PTL DEF Spec, ImplementsRunQueue, Q!Spec

\* The definitions the theorems of RunQueueProofs are about are the same.
LEMMA SameInit == Q!Init => P!Init
BY DEF Q!Init, P!Init

LEMMA SameCardinality == \A S : Q!Cardinality(S) = P!Cardinality(S)
BY DEF Q!Cardinality, P!Cardinality

LEMMA SameReach == Q!Needed = P!Needed
BY SameCardinality DEF Q!Needed, P!Needed, Q!Reach, P!Reach

LEMMA SameStep == ASSUME [Q!Next]_(Q!vars) PROVE [P!Next]_(P!vars)
<1>1. CASE Q!AppendNext \/ Q!Finalize
    BY <1>1 DEF Q!AppendNext, Q!Finalize, Q!Enqueue, Q!DependOn, P!Next,
                P!AppendNext, P!Finalize, P!Enqueue, P!DependOn
<1>2. CASE Q!Plan
    BY <1>2, SameReach DEF Q!Plan, P!Plan, P!Next
<1>3. ASSUME NEW s \in Steps, Q!StepAction(s) PROVE P!StepAction(s)
    BY <1>3, SameCardinality
    DEF Q!StepAction, Q!Start, Q!Succeed, Q!Fail, Q!GiveUp, Q!Ready,
                Q!Doomed, Q!Running, P!StepAction, P!Start, P!Succeed, P!Fail,
                P!GiveUp, P!Ready, P!Doomed, P!Running
<1>4. CASE Q!Done
    BY <1>4 DEF Q!Done, P!Done, P!Next, Q!Settled, P!Settled, Q!vars, P!vars
<1>5. CASE UNCHANGED Q!vars
    BY <1>5 DEF Q!vars, P!vars
<1> QED BY <1>1, <1>2, <1>3, <1>4, <1>5 DEF Q!Next, P!Next

\* What holds of every run queue holds of the build.
LEMMA QueueInvariant == Spec => []P!IInv
<1>1. P!Spec => []P!IInv
    BY QueueFacts, P!Invariant
<1>2. Spec => P!Spec
    BY BuildImplementsQueue, SameInit, SameStep, PTL
    DEF ImplementsRunQueue, Q!Spec, P!Spec
<1> QED BY <1>1, <1>2

-----------------------------------------------------------------------------
(* The runner's part of a step: what starts, and what stays.               *)

\* The edges of build() are in the graph, and a step that has started has
\* found the steps it uses done.
UsesFirst ==
    \A s \in Steps : \A d \in Uses[s] :
        /\ d \in deps[s]
        /\ Q!HasStarted(s) => state[d] = "success"

LEMMA RunnerTypes ==
    P!IInv => /\ deps \in [Steps -> SUBSET Steps]
              /\ state \in [Steps -> P!States]
              /\ phase # "make" => \A s \in Steps : state[s] = "precheck_unstarted"
BY DEF P!IInv, P!TypeOK, P!Idle

\* A success is for good, what has started stays started, and a step starts
\* when the steps it depends on have succeeded.
LEMMA RunnerStep ==
    ASSUME P!IInv, [Q!Next]_(Q!vars), NEW s \in Steps
    PROVE  /\ deps[s] \subseteq deps'[s]
           /\ state[s] = "success" => state'[s] = "success"
           /\ Q!HasStarted(s) => Q!HasStarted(s)'
           /\ Q!HasStarted(s)' /\ ~Q!HasStarted(s) =>
                  /\ state'[s] = "running"
                  /\ \A d \in deps[s] : state[d] = "success"
                  /\ deps'[s] = deps[s]
<1> USE DEF Q!HasStarted
<1>0. /\ deps \in [Steps -> SUBSET Steps]
      /\ state \in [Steps -> P!States]
      /\ phase # "make" => \A t \in Steps : state[t] = "precheck_unstarted"
    BY RunnerTypes
<1>1. CASE Q!AppendNext
    BY <1>1, <1>0 DEF Q!AppendNext, Q!Enqueue, Q!DependOn
<1>2. CASE Q!Finalize
    BY <1>2, <1>0 DEF Q!Finalize, Q!DependOn
<1>3. CASE Q!Plan
    BY <1>3, <1>0 DEF Q!Plan
<1>4. ASSUME NEW t \in Steps, Q!StepAction(t)
      PROVE  /\ UNCHANGED deps
             /\ state[s] = "success" => state'[s] = "success"
             /\ Q!HasStarted(s) => Q!HasStarted(s)'
             /\ Q!HasStarted(s)' /\ ~Q!HasStarted(s) =>
                  /\ state'[s] = "running"
                  /\ \A d \in deps[s] : state[d] = "success"
    BY <1>4, <1>0 DEF Q!StepAction, Q!Start, Q!Succeed, Q!Fail, Q!GiveUp,
                      Q!Ready
<1>5. CASE Q!Done \/ UNCHANGED Q!vars
    BY <1>5 DEF Q!Done, Q!vars
<1> QED BY <1>1, <1>2, <1>3, <1>4, <1>5 DEF Q!Next

LEMMA UsesFirstInit == Init => UsesFirst
<1> SUFFICES ASSUME Init PROVE UsesFirst
    OBVIOUS
<1>1. deps = Uses /\ \A s \in Steps : state[s] = "precheck_unstarted"
    BY DEF Init, Q!Init
<1> QED BY <1>1 DEF UsesFirst, Q!HasStarted

LEMMA UsesFirstStep ==
    ASSUME P!IInv, UsesFirst, [Q!Next]_(Q!vars)
    PROVE  UsesFirst'
<1> SUFFICES ASSUME NEW s \in Steps, NEW d \in Uses[s]
             PROVE  d \in deps'[s] /\ (Q!HasStarted(s)' => state'[d] = "success")
    BY DEF UsesFirst
<1>1. d \in Steps
    BY UsesFacts
<1>2. d \in deps[s] /\ (Q!HasStarted(s) => state[d] = "success")
    BY DEF UsesFirst
<1>3. deps[s] \subseteq deps'[s]
    BY RunnerStep
<1>4. state[d] = "success" => state'[d] = "success"
    BY <1>1, RunnerStep
<1>5. Q!HasStarted(s)' /\ ~Q!HasStarted(s) => state[d] = "success"
    BY <1>2, RunnerStep
<1> QED BY <1>2, <1>3, <1>4, <1>5

-----------------------------------------------------------------------------
(* What the runs do to the disk.                                           *)

Contents == {"absent", "partial", "complete"}

DiskTypes ==
    /\ dir \in BOOLEAN
    /\ data \in [1..5 -> Contents]
    /\ at \in [Runs -> Nat]
    /\ busy \in [Runs -> BOOLEAN]
    /\ seen \in [Runs -> SUBSET Contents]
    /\ csv \in Seq(Runs \X Nat)
    /\ lost \in BOOLEAN

\* A run goes through its sizes, is inside a size only while it has one, has
\* done nothing before it starts, and succeeds when it has done them all.
Progress ==
    \A r \in Runs :
        /\ at[r] <= Len(Sizes(r))
        /\ busy[r] => at[r] < Len(Sizes(r))
        /\ at[r] > 0 => Q!HasStarted(r)
        /\ state[r] = "success" => at[r] = Len(Sizes(r))

\* The directory is there once its step has succeeded or anything is in it,
\* and the files mpack-file has closed are whole.
DataInv ==
    /\ state[BuildDir] = "success" => dir
    /\ (\E n \in DOMAIN data : data[n] # "absent") => dir
    /\ \A n \in 1..at[SetupData] : data[n] = "complete"

\* The sizes a run is given: those of the benchmarks grow and have a file.
LEMMA SizesFacts ==
    /\ Sizes(SetupData) = DataSizes /\ Len(DataSizes) = 5
    /\ \A n \in 1..5 : DataSizes[n] = n
    /\ \A r \in BenchRuns : Sizes(r) = TestSizes
    /\ Len(TestSizes) \in {1, 2}
    /\ DOMAIN TestSizes = 1..Len(TestSizes)
    /\ \A k \in 1..Len(TestSizes) : TestSizes[k] \in 1..5
    /\ \A j, k \in 1..Len(TestSizes) : j < k => TestSizes[j] < TestSizes[k]
    /\ \A r \in Runs : Len(Sizes(r)) \in Nat
<1>1. Len(DataSizes) = 5 /\ \A n \in 1..5 : DataSizes[n] = n
    BY DEF DataSizes
<1>2. /\ Len(TestSizes) \in {1, 2}
      /\ DOMAIN TestSizes = 1..Len(TestSizes)
      /\ \A k \in 1..Len(TestSizes) : TestSizes[k] \in 1..5
      /\ \A j, k \in 1..Len(TestSizes) : j < k => TestSizes[j] < TestSizes[k]
    <2>1. CASE Opt = "Size"
        BY <2>1 DEF TestSizes
    <2>2. CASE Opt # "Size"
        BY <2>2 DEF TestSizes
    <2> QED BY <2>1, <2>2
<1>3. \A r \in BenchRuns : Sizes(r) = TestSizes
    BY StepFacts DEF Sizes
<1>4. Sizes(SetupData) = DataSizes
    BY DEF Sizes
<1>5. \A r \in Runs : Len(Sizes(r)) \in Nat
    <2> TAKE r \in Runs
    <2>1. CASE r = SetupData
        BY <2>1, <1>1, <1>4
    <2>2. CASE r \in BenchRuns
        BY <2>2, <1>2, <1>3
    <2> QED BY <2>1, <2>2 DEF Runs
<1> QED BY <1>1, <1>2, <1>3, <1>4, <1>5

\* A step that touches neither the disk nor the progress of a run: a run
\* only succeeds in it when all its sizes are done.
Quiet ==
    /\ UNCHANGED <<dir, data, at, busy, seen, csv, lost>>
    /\ \A s \in Runs \cup {BuildDir} :
          state'[s] = "success" =>
              state[s] = "success" \/ (s \in Runs /\ at[s] = Len(Sizes(s)))

\* Every step of the build is quiet or is one of the five that are not.
LEMMA DiskSteps ==
    ASSUME P!IInv, [Next]_vars
    PROVE  \/ Quiet \/ MakePath \/ OpenData \/ CloseData
           \/ \E r \in BenchRuns : LoadData(r) \/ ReportRow(r)
<1>0. state \in [Steps -> P!States] /\ BuildDir \in Steps /\ Runs \subseteq Steps
      /\ BuildDir \notin Runs
    BY RunnerTypes, StepFacts
<1> USE DEF diskVars, runVars
<1>1. CASE Configure
    BY <1>0, <1>1 DEF Configure, Quiet, Q!AppendNext, Q!Finalize, Q!Plan
<1>2. ASSUME NEW s \in Steps, Start(s) \/ GiveUp(s) PROVE Quiet
    BY <1>0, <1>2 DEF Start, GiveUp, Q!Start, Q!GiveUp, Quiet
<1>3. ASSUME NEW s \in Steps, EndCompile(s) \/ EndEmpty(s) PROVE Quiet
    <2>1. s \notin Runs /\ s # BuildDir
        BY <1>3, StepFacts DEF EndCompile, EndEmpty
    <2> QED BY <1>0, <1>3, <2>1 DEF EndCompile, EndEmpty, Q!Succeed, Q!Fail, Quiet
<1>4. ASSUME NEW s \in Steps, ExitSuccess(s) \/ ExitFailure(s) PROVE Quiet
    BY <1>0, <1>4 DEF ExitSuccess, ExitFailure, Q!Succeed, Q!Fail, Quiet
<1>5. CASE Done \/ UNCHANGED vars
    BY <1>0, <1>5 DEF Done, Q!Done, Q!vars, vars, Quiet
<1>6. ASSUME NEW s \in Steps, LoadData(s) \/ ReportRow(s) PROVE s \in BenchRuns
    BY <1>6 DEF LoadData, ReportRow
<1> QED BY <1>1, <1>2, <1>3, <1>4, <1>5, <1>6 DEF Next, StepAction

\* What appending to a sequence does.
LEMMA Appended ==
    ASSUME NEW S, NEW a \in Seq(S), NEW e \in S
    PROVE  /\ Append(a, e) \in Seq(S)
           /\ Len(Append(a, e)) = Len(a) + 1 /\ Len(a) \in Nat
           /\ DOMAIN a = 1..Len(a) /\ DOMAIN Append(a, e) = 1..(Len(a) + 1)
           /\ \A k \in 1..Len(a) : Append(a, e)[k] = a[k]
           /\ Append(a, e)[Len(a) + 1] = e
    OBVIOUS

LEMMA DiskTypesInit == Init => DiskTypes
<1> SUFFICES ASSUME Init PROVE DiskTypes
    OBVIOUS
<1>1. ToSet(DataSizes) = 1..5
    BY DEF DataSizes, ToSet
<1>2. data \in [1..5 -> Contents]
    <2>1. data \in LeftBehind
        BY DEF Init
    <2>2. CASE data \in {[n \in 1..5 |-> c] : c \in {"absent", "complete"}}
        BY <2>2 DEF Contents
    <2>3. CASE data \in {[n \in 1..5 |-> CASE n < k -> "complete"
                                            [] n = k -> "partial"
                                            [] n > k -> "absent"] : k \in 1..5}
        <3>1. PICK k \in 1..5 : data = [n \in 1..5 |-> CASE n < k -> "complete"
                                                       [] n = k -> "partial"
                                                       [] n > k -> "absent"]
            BY <2>3
        <3>2. \A n \in 1..5 : data[n] \in Contents
            BY <3>1 DEF Contents
        <3> QED BY <3>1, <3>2
    <2> QED BY <1>1, <2>1, <2>2, <2>3 DEF LeftBehind
<1>3. dir \in BOOLEAN
    BY DEF Init
<1>4. csv \in Seq(Runs \X Nat)
    BY DEF Init
<1> QED BY <1>2, <1>3, <1>4 DEF Init, DiskTypes, Contents

LEMMA DataOpen ==
    ASSUME Progress, OpenData \/ CloseData
    PROVE  at[SetupData] < 5 /\ state[SetupData] = "running"
<1>1. Len(DataSizes) = 5 /\ Len(Sizes(SetupData)) = 5 /\ SetupData \in Runs
    BY SizesFacts, StepFacts
<1>2. CASE OpenData
    BY <1>1, <1>2 DEF OpenData
<1>3. CASE CloseData
    <2>1. state[SetupData] = "running" /\ busy[SetupData]
        BY <1>3 DEF CloseData
    <2>2. busy[SetupData] => at[SetupData] < Len(Sizes(SetupData))
        BY <1>1 DEF Progress
    <2> QED BY <1>1, <2>1, <2>2
<1> QED BY <1>2, <1>3

LEMMA DiskTypesStep == ASSUME P!IInv, DiskTypes, Progress, [Next]_vars PROVE DiskTypes'
<1>0. SetupData \in Runs /\ BenchRuns \subseteq Runs
    BY StepFacts
<1>1. CASE Quiet
    BY <1>1 DEF Quiet, DiskTypes
<1>2. CASE MakePath
    BY <1>2 DEF MakePath, DiskTypes, runVars
<1>3. CASE OpenData \/ CloseData
    <2>1. at[SetupData] \in Nat /\ at[SetupData] < 5
        BY <1>0, <1>3, DataOpen DEF DiskTypes
    <2>2. DataSizes[at[SetupData] + 1] \in 1..5
        BY <2>1, SizesFacts
    <2> DEFINE n == DataSizes[at[SetupData] + 1]
    <2>3. CASE OpenData
        <3>1. /\ data' \in {data, [data EXCEPT ![n] = "partial"]}
              /\ busy' \in {busy, [busy EXCEPT ![SetupData] = TRUE]}
              /\ UNCHANGED <<dir, at, seen, csv, lost>>
            BY <2>3 DEF OpenData
        <3> HIDE DEF n
        <3>2. n \in 1..5
            BY <2>2 DEF n
        <3> QED BY <3>1, <3>2, <1>0 DEF DiskTypes, Contents
    <2>4. CASE CloseData
        <3>1. /\ data' = [data EXCEPT ![n] = "complete"]
              /\ busy' = [busy EXCEPT ![SetupData] = FALSE]
              /\ at' = [at EXCEPT ![SetupData] = @ + 1]
              /\ UNCHANGED <<dir, seen, csv, lost>>
            BY <2>4 DEF CloseData
        <3> HIDE DEF n
        <3>2. n \in 1..5
            BY <2>2 DEF n
        <3> QED BY <3>1, <3>2, <2>1, <1>0 DEF DiskTypes, Contents
    <2> QED BY <1>3, <2>3, <2>4
<1>4. ASSUME NEW r \in BenchRuns, LoadData(r) \/ ReportRow(r) PROVE DiskTypes'
    <2>1. /\ at[r] \in Nat /\ at[r] < Len(TestSizes)
          /\ at[r] + 1 \in 1..Len(TestSizes)
        BY <1>0, <1>4, SizesFacts DEF LoadData, ReportRow, DiskTypes
    <2>2. TestSizes[at[r] + 1] \in 1..5
        BY <2>1, SizesFacts
    <2>3. data[TestSizes[at[r] + 1]] \in Contents
        BY <2>2 DEF DiskTypes
    <2>4. <<r, TestSizes[at[r] + 1]>> \in Runs \X Nat
        BY <2>2, <1>0
    <2>5. CASE LoadData(r)
        BY <2>5, <2>3, <1>0 DEF LoadData, DiskTypes, diskVars
    <2>6. CASE ReportRow(r)
        <3>1. csv' \in Seq(Runs \X Nat)
            <4>1. csv \in Seq(Runs \X Nat)
                BY DEF DiskTypes
            <4>2. csv' = csv \/ csv' = Append(csv, <<r, TestSizes[at[r] + 1]>>)
                BY <2>6 DEF ReportRow
            <4> DEFINE row == <<r, TestSizes[at[r] + 1]>>
                       Rows == Runs \X Nat
            <4>3. csv \in Seq(Rows) /\ row \in Rows
                BY <4>1, <2>4
            <4> HIDE DEF row, Rows
            <4>4. Append(csv, row) \in Seq(Rows)
                BY <4>3, Appended
            <4> QED BY <4>2, <4>3, <4>4 DEF row, Rows
        <3>2. lost' \in BOOLEAN
            <4>1. lost \in BOOLEAN
                BY DEF DiskTypes
            <4>2. lost' = lost \/ lost' = (lost \/ r \in QueuedRuns)
                BY <2>6 DEF ReportRow
            <4> QED BY <4>1, <4>2
        <3>3. /\ at' \in [Runs -> Nat] /\ busy' \in [Runs -> BOOLEAN]
              /\ UNCHANGED <<dir, data, seen>>
            BY <2>6, <2>1, <1>0 DEF ReportRow, DiskTypes
        <3> QED BY <3>1, <3>2, <3>3 DEF DiskTypes
    <2> QED BY <1>4, <2>5, <2>6
<1> QED BY <1>1, <1>2, <1>3, <1>4, DiskSteps

LEMMA ProgressInit == Init => Progress
<1> SUFFICES ASSUME Init, NEW r \in Runs
             PROVE  at[r] = 0 /\ ~busy[r] /\ state[r] # "success"
    BY SizesFacts DEF Progress
<1>1. at[r] = 0 /\ ~busy[r]
    BY DEF Init
<1>2. state = [s \in Steps |-> "precheck_unstarted"]
    BY DEF Init, Q!Init
<1> QED BY <1>1, <1>2, StepFacts

LEMMA ProgressStep ==
    ASSUME P!IInv, DiskTypes, Progress, [Next]_vars
    PROVE  Progress'
<1> SUFFICES ASSUME NEW r \in Runs
             PROVE  /\ at'[r] <= Len(Sizes(r))
                    /\ busy'[r] => at'[r] < Len(Sizes(r))
                    /\ at'[r] > 0 => Q!HasStarted(r)'
                    /\ state'[r] = "success" => at'[r] = Len(Sizes(r))
    BY DEF Progress, Sizes, TestSizes, DataSizes
<1>0. /\ at[r] \in Nat /\ at[r] <= Len(Sizes(r)) /\ Len(Sizes(r)) \in Nat
      /\ busy[r] => at[r] < Len(Sizes(r))
      /\ at[r] > 0 => Q!HasStarted(r)
      /\ state[r] = "success" => at[r] = Len(Sizes(r))
      /\ Q!HasStarted(r) => Q!HasStarted(r)'
    BY StepFacts, SizesFacts, QueueStep, RunnerStep DEF Progress, DiskTypes
<1>00. /\ state \in [Steps -> P!States] /\ r \in Steps /\ r # BuildDir
       /\ at \in [Runs -> Nat] /\ busy \in [Runs -> BOOLEAN]
       /\ SetupData \in Runs /\ BenchRuns \subseteq Runs
    BY RunnerTypes, StepFacts DEF DiskTypes
<1>1. CASE Quiet
    BY <1>0, <1>1 DEF Quiet
<1>2. CASE MakePath
    BY <1>0, <1>00, <1>2 DEF MakePath, Q!Succeed, Q!Fail, runVars
<1>3. CASE OpenData
    <2>1. at[SetupData] < Len(Sizes(SetupData))
        BY <1>3, SizesFacts DEF OpenData
    <2>2. /\ UNCHANGED at
          /\ busy' \in {busy, [busy EXCEPT ![SetupData] = TRUE]}
          /\ state' \in {state, [state EXCEPT ![SetupData] = "failure"]}
        BY <1>3 DEF OpenData, Q!Fail, queueVars
    <2> QED BY <1>0, <1>00, <2>1, <2>2
<1>4. CASE CloseData
    <2>1. /\ state[SetupData] = "running" /\ UNCHANGED state
          /\ busy[SetupData]
          /\ busy' = [busy EXCEPT ![SetupData] = FALSE]
          /\ at' = [at EXCEPT ![SetupData] = @ + 1]
        BY <1>4 DEF CloseData, queueVars
    <2>2. CASE r = SetupData
        BY <2>1, <2>2, <1>0, <1>00 DEF Q!HasStarted
    <2>3. CASE r # SetupData
        BY <2>1, <2>3, <1>0, <1>00
    <2> QED BY <2>2, <2>3
<1>5. ASSUME NEW t \in BenchRuns, LoadData(t)
      PROVE  /\ at'[r] = at[r]
             /\ busy'[r] => at[r] < Len(Sizes(r))
             /\ state'[r] = "success" => state[r] = "success"
    <2>1. at[t] < Len(Sizes(t))
        BY <1>5, SizesFacts DEF LoadData
    <2>2. /\ UNCHANGED at
          /\ busy' \in {busy, [busy EXCEPT ![t] = TRUE]}
          /\ state' \in {state, [state EXCEPT ![t] = "failure"]}
        BY <1>5 DEF LoadData, Q!Fail, queueVars
    <2> QED BY <1>0, <1>00, <2>1, <2>2
<1>6. ASSUME NEW t \in BenchRuns, ReportRow(t)
      PROVE  /\ at'[r] <= Len(Sizes(r))
             /\ busy'[r] => at'[r] < Len(Sizes(r))
             /\ at'[r] > 0 => Q!HasStarted(r)'
             /\ state'[r] = "success" => at'[r] = Len(Sizes(r))
    <2>1. /\ state[t] = "running" /\ UNCHANGED state
          /\ at[t] < Len(Sizes(t))
          /\ busy' = [busy EXCEPT ![t] = FALSE]
          /\ at' = [at EXCEPT ![t] = @ + 1]
        BY <1>6, SizesFacts DEF ReportRow, queueVars
    <2>2. CASE r = t
        BY <2>1, <2>2, <1>0, <1>00 DEF Q!HasStarted
    <2>3. CASE r # t
        BY <2>1, <2>3, <1>0, <1>00
    <2> QED BY <2>2, <2>3
<1> QED BY <1>0, <1>1, <1>2, <1>3, <1>4, <1>5, <1>6, DiskSteps

LEMMA DataInit == Init => DataInv
<1> SUFFICES ASSUME Init PROVE DataInv
    OBVIOUS
<1>1. at[SetupData] = 0
    BY StepFacts DEF Init
<1>2. state[BuildDir] # "success"
    BY StepFacts DEF Init, Q!Init
<1>3. (\E n \in DOMAIN data : data[n] # "absent") => dir
    BY DEF Init
<1> QED BY <1>1, <1>2, <1>3 DEF DataInv

\* When mpack-file runs, its directory is there.
LEMMA DirThere ==
    ASSUME UsesFirst, DataInv, Q!HasStarted(SetupData) PROVE dir
BY StepFacts, UsesFacts DEF UsesFirst, DataInv

LEMMA DataStep ==
    ASSUME P!IInv, DiskTypes, Progress, UsesFirst, DataInv, [Next]_vars
    PROVE  DataInv'
<1>0. /\ SetupData \in Runs /\ SetupData \in Steps /\ BuildDir \in Steps
      /\ SetupData # BuildDir /\ BuildDir \notin Runs /\ BenchRuns \subseteq Steps
      /\ SetupData \notin BenchRuns
      /\ state \in [Steps -> P!States]
      /\ data \in [1..5 -> Contents] /\ at \in [Runs -> Nat]
      /\ busy \in [Runs -> BOOLEAN]
      /\ at[SetupData] \in Nat /\ at[SetupData] <= 5
    BY RunnerTypes, StepFacts, SizesFacts DEF DiskTypes, Progress
<1>1. CASE Quiet
    <2>1. state'[BuildDir] = "success" => state[BuildDir] = "success"
        BY <1>0, <1>1 DEF Quiet
    <2> QED BY <1>1, <2>1 DEF Quiet, DataInv
<1>2. CASE MakePath
    <2>1. /\ UNCHANGED <<data, at>>
          /\ dir' = TRUE \/ (state'[BuildDir] # "success" /\ UNCHANGED dir)
        BY <1>0, <1>2 DEF MakePath, Q!Fail, runVars
    <2> QED BY <2>1 DEF DataInv
<1>3. CASE OpenData \/ CloseData
    <2> DEFINE k == at[SetupData] + 1
    <2>1. at[SetupData] < 5 /\ state[SetupData] = "running"
        BY <1>3, DataOpen
    <2>2. k \in 1..5 /\ DataSizes[k] = k
        BY <1>0, <2>1, SizesFacts
    <2>3. CASE OpenData
        <3>1. /\ data' \in {data, [data EXCEPT ![k] = "partial"]}
              /\ UNCHANGED <<dir, at>>
              /\ state' \in {state, [state EXCEPT ![SetupData] = "failure"]}
            BY <2>2, <2>3 DEF OpenData, Q!Fail, queueVars
        <3>2. \A n \in 1..at[SetupData] : data'[n] = "complete"
            BY <3>1, <1>0 DEF DataInv
        <3>3. dir
            BY <2>1, DirThere DEF Q!HasStarted
        <3> QED BY <3>1, <3>2, <3>3, <1>0 DEF DataInv
    <2>4. CASE CloseData
        <3>1. /\ data' = [data EXCEPT ![k] = "complete"]
              /\ at' = [at EXCEPT ![SetupData] = @ + 1]
              /\ UNCHANGED <<dir, state>>
            BY <2>2, <2>4 DEF CloseData, queueVars
        <3>2. at'[SetupData] = k
            BY <3>1, <1>0
        <3>3. \A n \in 1..k : data'[n] = "complete"
            BY <3>1, <1>0, <2>2 DEF DataInv
        <3>4. dir
            BY <2>1, DirThere DEF Q!HasStarted
        <3> QED BY <3>1, <3>2, <3>3, <3>4 DEF DataInv
    <2> QED BY <1>3, <2>3, <2>4
<1>4. ASSUME NEW r \in BenchRuns, LoadData(r) \/ ReportRow(r)
      PROVE  /\ UNCHANGED <<dir, data>>
             /\ at'[SetupData] = at[SetupData]
             /\ state'[BuildDir] = "success" => state[BuildDir] = "success"
    <2>1. CASE LoadData(r)
        BY <2>1, <1>0 DEF LoadData, Q!Fail, queueVars, diskVars
    <2>2. CASE ReportRow(r)
        BY <2>2, <1>0 DEF ReportRow, queueVars
    <2> QED BY <1>4, <2>1, <2>2
<1> QED
    <2>1. ASSUME NEW r \in BenchRuns, LoadData(r) \/ ReportRow(r)
          PROVE  DataInv'
        BY <1>4, <2>1 DEF DataInv
    <2> QED BY <1>1, <1>2, <1>3, <2>1, DiskSteps

-----------------------------------------------------------------------------
(* What a reader finds.                                                    *)

\* zigpak-read has no edge to the run of mpack-file: that it finds the files
\* is due to a benchmark before it in the queue that has one.
DataBeforeZigpak ==
    \A j \in DOMAIN Kept :
        Kept[j] = "zigpak-read" =>
            \E i \in DOMAIN Kept : i < j /\ Kept[i] \in DependOnData

\* build() as it is, with all its benchmarks, appends such a one.
LEMMA AllCallsQualify == Kept = Calls => DataBeforeZigpak
<1> SUFFICES ASSUME Kept = Calls, NEW j \in DOMAIN Kept, Kept[j] = "zigpak-read"
             PROVE  \E i \in DOMAIN Kept : i < j /\ Kept[i] \in DependOnData
    BY DEF DataBeforeZigpak
<1>1. DOMAIN Kept = 1..11 /\ Kept[4] = "mpack-read"
    BY CallsFacts DEF Calls
<1>2. j > 4
    BY <1>1 DEF Calls
<1>3. Kept[4] \in DependOnData
    BY <1>1 DEF DependOnData, Built
<1> QED BY <1>1, <1>2, <1>3

\* When a reader of the queue runs, mpack-file has written all its files.
LEMMA FilesThere ==
    ASSUME P!IInv, UsesFirst, Progress, DataInv, DataBeforeZigpak,
           NEW r \in QueuedRuns, r[2] \in Readers, state[r] = "running"
    PROVE  \A n \in 1..5 : data[n] = "complete"
<1>1. PICK j \in DOMAIN Kept : r = Queue[j] /\ r = Run(Kept[j])
    BY QueueFacts
<1>2. r[2] = Kept[j] /\ Kept[j] \in Built
    BY <1>1, Names DEF Built
<1>3. ASSUME NEW i \in DOMAIN Kept, Kept[i] \in DependOnData,
             Q!HasStarted(Queue[i])
      PROVE  state[SetupData] = "success"
    <2>1. SetupData \in Uses[Queue[i]] /\ Queue[i] \in Steps
        BY <1>3, QueueFacts, UsesFacts, StepFacts
    <2> QED BY <2>1, <1>3 DEF UsesFirst
<1>4. state[SetupData] = "success"
    <2>1. CASE Kept[j] \in DependOnData
        <3>1. Q!HasStarted(Queue[j])
            BY <1>1 DEF Q!HasStarted
        <3> QED BY <2>1, <3>1, <1>3
    <2>2. CASE Kept[j] \notin DependOnData
        <3>1. Kept[j] = "zigpak-read"
            BY <2>2, <1>2 DEF DependOnData, Readers
        <3>2. PICK i \in DOMAIN Kept : i < j /\ Kept[i] \in DependOnData
            BY <3>1 DEF DataBeforeZigpak
        <3>3. state[Queue[i]] = "success"
            BY <1>1, <3>2, QueueFacts DEF P!IInv, P!InOrder, P!HasStarted
        <3> QED BY <1>3, <3>2, <3>3 DEF Q!HasStarted
    <2> QED BY <2>1, <2>2
<1>5. at[SetupData] = 5
    BY <1>4, StepFacts, SizesFacts DEF Progress
<1> QED BY <1>5 DEF DataInv

LEMMA ReadsStep ==
    ASSUME P!IInv, DiskTypes, Progress, UsesFirst, DataInv, DataBeforeZigpak,
           QueuedReadsWhole, [Next]_vars
    PROVE  QueuedReadsWhole'
<1> SUFFICES ASSUME NEW r \in QueuedRuns PROVE seen'[r] \subseteq {"complete"}
    BY DEF QueuedReadsWhole, QueuedRuns, Built
<1>0. seen[r] \subseteq {"complete"} /\ r \in Runs /\ seen \in [Runs -> SUBSET Contents]
      /\ at \in [Runs -> Nat] /\ r \in BenchRuns
    BY StepFacts DEF QueuedReadsWhole, DiskTypes
<1>1. ASSUME UNCHANGED seen PROVE seen'[r] \subseteq {"complete"}
    BY <1>1, <1>0
<1>2. CASE Quiet \/ MakePath \/ OpenData \/ CloseData
    BY <1>1, <1>2 DEF Quiet, MakePath, OpenData, CloseData, runVars
<1>3. ASSUME NEW t \in BenchRuns, ReportRow(t) PROVE UNCHANGED seen
    BY <1>3 DEF ReportRow
<1>4. ASSUME NEW t \in BenchRuns, LoadData(t) PROVE seen'[r] \subseteq {"complete"}
    <2>1. seen' = [seen EXCEPT ![t] = @ \cup {data[TestSizes[at[t] + 1]]}]
        BY <1>4 DEF LoadData
    <2>2. CASE t # r
        BY <2>1, <2>2, <1>0
    <2>3. CASE t = r
        <3>1. r[2] \in Readers /\ state[r] = "running" /\ at[r] + 1 \in 1..Len(TestSizes)
            BY <1>0, <1>4, <2>3, SizesFacts DEF LoadData
        <3>2. TestSizes[at[r] + 1] \in 1..5
            BY <3>1, SizesFacts
        <3>3. \A n \in 1..5 : data[n] = "complete"
            BY <3>1, FilesThere
        <3> QED BY <2>1, <2>3, <3>2, <3>3, <1>0
    <2> QED BY <2>2, <2>3
<1> QED BY <1>1, <1>2, <1>3, <1>4, DiskSteps

-----------------------------------------------------------------------------
(* The rows of results.csv.                                                *)

\* A row is of a size its run is done with, and no row of the queue is
\* missing unless one was lost.
RowsOfDone ==
    /\ \A m \in DOMAIN csv :
          /\ csv[m][1] \in BenchRuns
          /\ \E k \in 1..at[csv[m][1]] : csv[m][2] = TestSizes[k]
    /\ ~lost => \A r \in QueuedRuns : \A k \in 1..at[r] :
                   \E m \in DOMAIN csv : csv[m] = <<r, TestSizes[k]>>

LEMMA RowsInit == Init => RowsOfDone /\ RowsInOrder
<1> SUFFICES ASSUME Init PROVE RowsOfDone /\ RowsInOrder
    OBVIOUS
<1>1. DOMAIN csv = {}
    BY DEF Init
<1>2. \A r \in QueuedRuns : at[r] = 0
    BY StepFacts DEF Init
<1> QED BY <1>1, <1>2 DEF RowsOfDone, RowsInOrder

\* Position is the inverse of the queue.
LEMMA PositionFacts == \A i \in DOMAIN Kept : Position(Queue[i][2]) = i
<1> TAKE i \in DOMAIN Kept
<1>1. Queue[i][2] = Kept[i]
    BY QueueFacts, Names
<1>2. \A j \in DOMAIN Kept : Kept[j] = Kept[i] => j = i
    BY OrderFacts
<1> QED BY <1>1, <1>2 DEF Position

LEMMA RowsStep ==
    ASSUME P!IInv, DiskTypes, Progress, RowsOfDone, RowsInOrder, [Next]_vars
    PROVE  RowsOfDone' /\ RowsInOrder'
<1>0. /\ SetupData \in Runs /\ SetupData \notin BenchRuns /\ BenchRuns \subseteq Runs
      /\ QueuedRuns \subseteq BenchRuns
      /\ at \in [Runs -> Nat] /\ csv \in Seq(Runs \X Nat)
    BY StepFacts DEF DiskTypes
<1>1. ASSUME UNCHANGED <<csv, lost>>, \A r \in BenchRuns : at'[r] = at[r]
      PROVE  RowsOfDone' /\ RowsInOrder'
    <2>1. RowsInOrder'
        BY <1>1 DEF RowsInOrder, QueuedRuns, Built, Position
    <2>2. RowsOfDone'
        BY <1>0, <1>1 DEF RowsOfDone, BenchRuns, QueuedRuns, ExtraRuns, Built, Zigpaks
    <2> QED BY <2>1, <2>2
<1>2. CASE Quiet \/ MakePath \/ OpenData
    BY <1>1, <1>2 DEF Quiet, MakePath, OpenData, runVars
<1>3. CASE CloseData
    BY <1>0, <1>1, <1>3 DEF CloseData
<1>4. ASSUME NEW r \in BenchRuns, LoadData(r) PROVE UNCHANGED <<csv, lost, at>>
    BY <1>4 DEF LoadData, diskVars
<1>5. ASSUME NEW r \in BenchRuns, ReportRow(r) PROVE RowsOfDone' /\ RowsInOrder'
    <2> DEFINE n == at[r] + 1
               row == <<r, TestSizes[n]>>
               Rows == Runs \X Nat
    <2>1. /\ state[r] = "running" /\ r \in Runs
          /\ n \in 1..Len(TestSizes) /\ at[r] \in Nat
          /\ TestSizes[n] \in 1..5
        BY <1>0, <1>5, SizesFacts DEF ReportRow
    <2>2. \/ csv' = Append(csv, row) /\ lost' = lost
          \/ csv' = csv /\ lost' = (lost \/ r \in QueuedRuns)
        BY <1>5 DEF ReportRow
    <2>3. /\ at' = [at EXCEPT ![r] = n]
          /\ at'[r] = n /\ \A t \in Runs : t # r => at'[t] = at[t]
        BY <1>0, <1>5, <2>1 DEF ReportRow
    <2>4. csv \in Seq(Rows) /\ row \in Rows
        BY <2>1, <1>0
    <2>5. row[1] = r /\ row[2] = TestSizes[n]
        OBVIOUS
    <2> HIDE DEF n, row, Rows
    <2>6. /\ Len(Append(csv, row)) = Len(csv) + 1 /\ Len(csv) \in Nat
          /\ DOMAIN csv = 1..Len(csv)
          /\ DOMAIN Append(csv, row) = 1..(Len(csv) + 1)
          /\ \A m \in 1..Len(csv) : Append(csv, row)[m] = csv[m]
          /\ Append(csv, row)[Len(csv) + 1] = row
        BY <2>4, Appended
    <2>7. CASE csv' = Append(csv, row) /\ lost' = lost
        <3>1. ASSUME NEW m \in DOMAIN csv'
              PROVE  /\ csv'[m][1] \in BenchRuns
                     /\ \E k \in 1..at'[csv'[m][1]] : csv'[m][2] = TestSizes[k]
            <4>1. CASE m \in 1..Len(csv)
                <5>1. csv'[m] = csv[m] /\ csv[m][1] \in BenchRuns
                    BY <2>6, <2>7, <4>1 DEF RowsOfDone
                <5>2. PICK k \in 1..at[csv[m][1]] : csv[m][2] = TestSizes[k]
                    BY <2>6, <4>1 DEF RowsOfDone
                <5>3. k \in 1..at'[csv[m][1]]
                    BY <5>1, <5>2, <2>1, <2>3, <1>0 DEF n
                <5> QED BY <5>1, <5>2, <5>3
            <4>2. CASE m = Len(csv) + 1
                <5>1. csv'[m][1] = r /\ csv'[m][2] = TestSizes[n]
                    BY <4>2, <2>5, <2>6, <2>7
                <5>2. n \in 1..at'[r]
                    BY <2>1, <2>3
                <5> QED BY <5>1, <5>2
            <4> QED BY <3>1, <4>1, <4>2, <2>6, <2>7
        <3>2. ASSUME ~lost, NEW t \in QueuedRuns, NEW k \in 1..at'[t]
              PROVE  \E m \in DOMAIN csv' : csv'[m] = <<t, TestSizes[k]>>
            <4>1. CASE t = r /\ k = n
                <5>1. csv'[Len(csv) + 1] = <<t, TestSizes[k]>>
                    BY <4>1, <2>6, <2>7 DEF row
                <5> QED BY <5>1, <2>6, <2>7
            <4>2. CASE ~(t = r /\ k = n)
                <5>1. k \in 1..at[t]
                    BY <4>2, <2>1, <2>3, <3>2, <1>0 DEF n
                <5>2. PICK m \in DOMAIN csv : csv[m] = <<t, TestSizes[k]>>
                    BY <3>2, <5>1 DEF RowsOfDone
                <5> QED BY <5>2, <2>6, <2>7
            <4> QED BY <4>1, <4>2
        <3>3. RowsOfDone'
            BY <3>1, <3>2, <2>7 DEF RowsOfDone, BenchRuns, QueuedRuns,
                                    ExtraRuns, Built, Zigpaks
        <3>4. ASSUME NEW m \in DOMAIN csv, csv[m][1] \in QueuedRuns,
                     r \in QueuedRuns
              PROVE  \/ Position(csv[m][1][2]) < Position(r[2])
                     \/ /\ Position(csv[m][1][2]) = Position(r[2])
                        /\ csv[m][2] < TestSizes[n]
            <4>1. PICK i \in DOMAIN Kept : csv[m][1] = Queue[i]
                BY <3>4, QueueFacts
            <4>2. PICK j \in DOMAIN Kept : r = Queue[j]
                BY <3>4, QueueFacts
            <4>3. PICK k \in 1..at[Queue[i]] : csv[m][2] = TestSizes[k]
                BY <4>1 DEF RowsOfDone
            <4>4. Queue[i] \in Runs /\ at[Queue[i]] \in Nat /\ at[Queue[i]] > 0
                BY <4>3, <1>0, QueueFacts
            <4>5. Q!HasStarted(Queue[i])
                BY <4>4 DEF Progress
            <4>6. ~(j < i)
                <5>1. SUFFICES ASSUME j < i PROVE FALSE
                    OBVIOUS
                <5>2. state[Queue[j]] = "success"
                    BY <5>1, <4>5, QueueFacts
                    DEF P!IInv, P!InOrder, P!HasStarted, Q!HasStarted
                <5> QED BY <5>2, <4>2, <2>1
            <4>7. Position(csv[m][1][2]) = i /\ Position(r[2]) = j
                BY <4>1, <4>2, PositionFacts
            <4>8. i = j => csv[m][2] < TestSizes[n]
                <5>1. SUFFICES ASSUME i = j PROVE TestSizes[k] < TestSizes[n]
                    BY <4>3
                <5>2. k \in 1..Len(TestSizes) /\ k < n
                    BY <5>1, <4>2, <4>3, <4>4, <2>1, SizesFacts DEF n
                <5> QED BY <5>2, <2>1, SizesFacts
            <4>9. i \in Nat /\ j \in Nat
                BY OrderFacts
            <4> QED BY <4>6, <4>7, <4>8, <4>9
        <3>5. RowsInOrder'
            <4> SUFFICES ASSUME NEW m \in DOMAIN csv', NEW l \in DOMAIN csv', m < l,
                                csv'[m][1] \in QueuedRuns, csv'[l][1] \in QueuedRuns
                         PROVE  \/ Position(csv'[m][1][2]) < Position(csv'[l][1][2])
                                \/ /\ Position(csv'[m][1][2]) = Position(csv'[l][1][2])
                                   /\ csv'[m][2] < csv'[l][2]
                BY DEF RowsInOrder, Position, QueuedRuns, Built
            <4>1. m \in DOMAIN csv /\ csv'[m] = csv[m]
                BY <2>6, <2>7
            <4>2. CASE l \in DOMAIN csv
                <5>1. csv'[l] = csv[l]
                    BY <4>2, <2>6, <2>7
                <5> QED BY <4>1, <4>2, <5>1 DEF RowsInOrder
            <4>3. CASE l = Len(csv) + 1
                <5>1. csv'[l][1] = r /\ csv'[l][2] = TestSizes[n]
                    BY <4>3, <2>5, <2>6, <2>7
                <5> QED BY <4>1, <5>1, <3>4
            <4> QED BY <4>2, <4>3, <2>6, <2>7
        <3> QED BY <3>3, <3>5
    <2>8. CASE csv' = csv /\ lost' = (lost \/ r \in QueuedRuns)
        <3>1. RowsInOrder'
            BY <2>8 DEF RowsInOrder, QueuedRuns, Built, Position
        <3>2. ASSUME NEW m \in DOMAIN csv
              PROVE  \E k \in 1..at'[csv[m][1]] : csv[m][2] = TestSizes[k]
            <4>1. PICK k \in 1..at[csv[m][1]] : csv[m][2] = TestSizes[k]
                BY DEF RowsOfDone
            <4>2. csv[m][1] \in BenchRuns
                BY DEF RowsOfDone
            <4>3. k \in 1..at'[csv[m][1]]
                BY <4>1, <4>2, <2>1, <2>3, <1>0 DEF n
            <4> QED BY <4>1, <4>3
        <3>3. ASSUME ~lost', NEW t \in QueuedRuns, NEW k \in 1..at'[t]
              PROVE  \E m \in DOMAIN csv : csv[m] = <<t, TestSizes[k]>>
            <4>1. ~lost /\ r \notin QueuedRuns
                BY <2>8, <3>3
            <4>2. at'[t] = at[t]
                BY <4>1, <2>3, <1>0
            <4> QED BY <4>1, <4>2, <3>3 DEF RowsOfDone
        <3>4. RowsOfDone'
            BY <3>2, <3>3, <2>8 DEF RowsOfDone, BenchRuns, QueuedRuns,
                                    ExtraRuns, Built, Zigpaks
        <3> QED BY <3>1, <3>4
    <2> QED BY <2>2, <2>7, <2>8
<1> QED BY <1>1, <1>2, <1>3, <1>4, <1>5, DiskSteps

-----------------------------------------------------------------------------
(* The invariant and what follows from it.                                 *)

DiskInv ==
    /\ DiskTypes
    /\ Progress
    /\ UsesFirst
    /\ DataInv
    /\ RowsOfDone
    /\ RowsInOrder

LEMMA DiskInvInit == Init => DiskInv
BY DiskTypesInit, ProgressInit, UsesFirstInit, DataInit, RowsInit DEF DiskInv

LEMMA DiskInvStep == P!IInv /\ DiskInv /\ [Next]_vars => DiskInv'
<1> SUFFICES ASSUME P!IInv, DiskInv, [Next]_vars PROVE DiskInv'
    OBVIOUS
<1>1. DiskTypes /\ Progress /\ UsesFirst /\ DataInv /\ RowsOfDone /\ RowsInOrder
    BY DEF DiskInv
<1>2. DiskTypes'
    BY <1>1, DiskTypesStep
<1>3. Progress'
    BY <1>1, ProgressStep
<1>4. UsesFirst'
    BY <1>1, QueueStep, UsesFirstStep
<1>5. DataInv'
    BY <1>1, DataStep
<1>6. RowsOfDone' /\ RowsInOrder'
    BY <1>1, RowsStep
<1> QED BY <1>2, <1>3, <1>4, <1>5, <1>6 DEF DiskInv

LEMMA Invariant == Spec => [](P!IInv /\ DiskInv)
BY QueueInvariant, DiskInvInit, DiskInvStep, PTL DEF Spec

\* No two benchmarks of the build run at the same time, whatever the targets
\* and the number of workers.
THEOREM BenchmarksApart == Spec => []Q!Exclusive
<1>1. P!Spec => []P!Exclusive
    BY QueueFacts, P!NeverTogether
<1>2. Spec => P!Spec
    BY BuildImplementsQueue, SameInit, SameStep, PTL
    DEF ImplementsRunQueue, Q!Spec, P!Spec
<1>3. P!Exclusive => Q!Exclusive
    BY DEF P!Exclusive, Q!Exclusive
<1> QED BY <1>1, <1>2, <1>3, PTL

\* mpack-file never runs without build/, and nothing is in build/ before it
\* exists.
THEOREM DirBeforeData == Spec => []DirFirst
<1>1. P!IInv /\ DiskInv => DirFirst
    <2> SUFFICES ASSUME UsesFirst, DataInv PROVE DirFirst
        BY DEF DiskInv
    <2>1. Q!HasStarted(SetupData) => dir
        BY DirThere
    <2> QED BY <2>1 DEF DirFirst, DataInv, Q!HasStarted
<1> QED BY <1>1, Invariant, PTL

\* The rows the queue appends to results.csv are in the order of the queue.
THEOREM RowsOrdered == Spec => []RowsInOrder
<1>1. P!IInv /\ DiskInv => RowsInOrder
    BY DEF DiskInv
<1> QED BY <1>1, Invariant, PTL

\* When `zig build benchmark` succeeds, every benchmark has left its rows.
THEOREM SuccessHasRows == Spec => []SuccessMeansRows
<1>1. P!IInv /\ DiskInv => SuccessMeansRows
    <2> SUFFICES ASSUME P!IInv, DiskInv, state[Top("benchmark")] = "success", ~lost,
                        NEW r \in QueuedRuns, NEW k \in DOMAIN TestSizes
                 PROVE  <<r, TestSizes[k]>> \in ToSet(csv)
        BY DEF SuccessMeansRows, ToSet
    <2>1. state[RunQ] = "success"
        BY StepFacts, UsesFacts DEF DiskInv, UsesFirst, Q!HasStarted
    <2>2. PICK j \in DOMAIN Kept : r = Queue[j]
        BY QueueFacts
    <2>3. state[r] = "success"
        BY <2>1, <2>2, QueueFacts DEF P!IInv, P!QueueStepLast, P!HasStarted
    <2>4. at[r] = Len(TestSizes)
        BY <2>3, StepFacts, SizesFacts DEF DiskInv, Progress
    <2>5. k \in 1..at[r]
        BY <2>4, SizesFacts
    <2>6. \E m \in DOMAIN csv : csv[m] = <<r, TestSizes[k]>>
        BY <2>5 DEF DiskInv, RowsOfDone
    <2> QED BY <2>6 DEF ToSet
<1> QED BY <1>1, Invariant, PTL

\* A reader of the queue finds the data files whole, if a benchmark with an
\* edge to mpack-file is appended before zigpak-read.
THEOREM ReadersFindWhole ==
    ASSUME DataBeforeZigpak
    PROVE  Spec => []QueuedReadsWhole
<1>1. Init => QueuedReadsWhole
    <2> SUFFICES ASSUME Init, NEW r \in QueuedRuns PROVE seen[r] = {}
        BY DEF QueuedReadsWhole
    <2> QED BY StepFacts DEF Init
<1>2. P!IInv /\ DiskInv /\ QueuedReadsWhole /\ [Next]_vars => QueuedReadsWhole'
    BY ReadsStep DEF DiskInv
<1> QED BY <1>1, <1>2, Invariant, PTL DEF Spec

\* So it does in the build as it is, with all benchmarks.
THEOREM WholeBuildReadsWhole ==
    ASSUME Kept = Calls
    PROVE  Spec => []QueuedReadsWhole
BY AllCallsQualify, ReadersFindWhole
-----------------------------------------------------------------------------
(* Every run of the build behaves as BenchRun says, which Harness is shown *)
(* to implement in ProcessProofs.                                          *)

\* The row of the k-th size of a run, if it is in results.csv.
RowAt(r, k) ==
    IF k <= at[r] /\ <<r, Sizes(r)[k]>> \in ToSet(csv) THEN <<Sizes(r)[k]>> ELSE <<>>

\* A benchmark has at most two sizes; mpack-file appends no rows.
B(r) == INSTANCE BenchRun WITH
            sizes <- Sizes(r), done <- at[r], rows <- RowAt(r, 1) \o RowAt(r, 2),
            exit <- IF state[r] \in {"success", "failure"} THEN state[r] ELSE "none"

LEMMA SameSizes == \A r : Sizes(r)' = Sizes(r)
BY DEF Sizes, TestSizes, DataSizes

\* At the end of a sequence of at most one.
LEMMA ShortRows ==
    ASSUME NEW x, NEW y, NEW a \in {<<>>, <<x>>}
    PROVE  a \o <<>> = a /\ a \o <<y>> = Append(a, y)
<1>1. CASE a = <<>>
    BY <1>1
<1>2. CASE a = <<x>>
    BY <1>2
<1> QED BY <1>1, <1>2

\* What a row appended to results.csv changes.
LEMMA RowsGrow ==
    ASSUME DiskTypes, NEW t \in Runs, NEW n \in Nat
    PROVE  ToSet(Append(csv, <<t, n>>)) = ToSet(csv) \cup {<<t, n>>}
<1> DEFINE row == <<t, n>>
           Rows == Runs \X Nat
<1>1. csv \in Seq(Rows) /\ row \in Rows
    BY DEF DiskTypes
<1> HIDE DEF row, Rows
<1>2. ToSet(Append(csv, row)) = ToSet(csv) \cup {row}
    BY <1>1, Appended DEF ToSet
<1> QED BY <1>2 DEF row

\* A run begins with nothing done and no row.
LEMMA RunBegins == ASSUME Init, NEW r \in Runs PROVE B(r)!Init
<1>1. at[r] = 0 /\ state[r] = "precheck_unstarted"
    BY StepFacts DEF Init, Q!Init
<1>2. Sizes(r) \in Seq(Int)
    <2>1. CASE r = SetupData
        BY <2>1 DEF Sizes, DataSizes
    <2>2. CASE r # SetupData
        BY <2>2 DEF Sizes, TestSizes
    <2> QED BY <2>1, <2>2
<1>3. RowAt(r, 1) = <<>> /\ RowAt(r, 2) = <<>>
    BY <1>1 DEF RowAt
<1>4. <<>> \o <<>> = <<>>
    OBVIOUS
<1> QED BY <1>1, <1>2, <1>3, <1>4 DEF B!Init

\* A size that is not done has no row, and mpack-file has none at all.
LEMMA NoRowYet ==
    ASSUME DiskTypes, Progress, RowsOfDone
    PROVE  /\ \A r \in BenchRuns : \A k \in 1..Len(TestSizes) :
                 k > at[r] => <<r, TestSizes[k]>> \notin ToSet(csv)
           /\ \A n : <<SetupData, n>> \notin ToSet(csv)
<1>1. ASSUME NEW r \in BenchRuns, NEW k \in 1..Len(TestSizes), k > at[r],
             <<r, TestSizes[k]>> \in ToSet(csv)
      PROVE  FALSE
    <2>1. PICK m \in DOMAIN csv : csv[m] = <<r, TestSizes[k]>>
        BY <1>1 DEF ToSet
    <2>2. PICK j \in 1..at[r] : TestSizes[k] = TestSizes[j]
        BY <2>1 DEF RowsOfDone
    <2>3. at[r] \in Nat
        BY StepFacts DEF DiskTypes
    <2>4. j < k /\ j \in 1..Len(TestSizes)
        BY <1>1, <2>2, <2>3, SizesFacts
    <2>5. TestSizes[j] < TestSizes[k] /\ TestSizes[k] \in 1..5
        BY <2>4, SizesFacts
    <2> QED BY <2>2, <2>5
<1>2. ASSUME NEW n, <<SetupData, n>> \in ToSet(csv) PROVE FALSE
    <2>1. PICK m \in DOMAIN csv : csv[m] = <<SetupData, n>>
        BY <1>2 DEF ToSet
    <2> QED BY <2>1, StepFacts DEF RowsOfDone
<1> QED BY <1>1, <1>2

\* A step of another run, or one that neither completes a size nor appends a
\* row, leaves the rows of a run alone.
LEMMA RowsStay ==
    ASSUME NEW r \in Runs, at'[r] = at[r],
           \A n : <<r, n>> \in ToSet(csv)' <=> <<r, n>> \in ToSet(csv)
    PROVE  (RowAt(r, 1) \o RowAt(r, 2))' = RowAt(r, 1) \o RowAt(r, 2)
<1>1. \A k : <<r, Sizes(r)[k]>> \in ToSet(csv)' <=> <<r, Sizes(r)[k]>> \in ToSet(csv)
    OBVIOUS
<1>2. RowAt(r, 1)' = RowAt(r, 1) /\ RowAt(r, 2)' = RowAt(r, 2)
    BY <1>1, SameSizes DEF RowAt
<1> QED BY <1>2
\* What a step that is quiet does to a run: it may end it.
LEMMA RunQuiet ==
    ASSUME P!IInv, NEW r \in Runs, [Next]_vars,
           ~(OpenData \/ CloseData), ~(\E t \in BenchRuns : LoadData(t) \/ ReportRow(t))
    PROVE  /\ UNCHANGED <<at, csv>>
           /\ \/ state'[r] = state[r]
              \/ /\ state[r] \notin {"success", "failure"}
                 /\ state'[r] \notin {"success", "failure"}
              \/ /\ state[r] = "running"
                 /\ \/ state'[r] = "success" /\ at[r] = Len(Sizes(r))
                    \/ state'[r] = "failure" /\ at[r] < Len(Sizes(r))
<1>0. /\ state \in [Steps -> P!States] /\ r \in Steps /\ r # BuildDir
      /\ phase # "make" => state[r] = "precheck_unstarted"
    BY RunnerTypes, StepFacts
<1> USE DEF diskVars, runVars
<1>1. CASE Configure
    BY <1>0, <1>1 DEF Configure, Q!AppendNext, Q!Finalize, Q!Plan
<1>2. ASSUME NEW s \in Steps, Start(s) \/ GiveUp(s)
      PROVE  /\ UNCHANGED <<at, csv>>
             /\ \/ state'[r] = state[r]
                \/ /\ state[r] \notin {"success", "failure"}
                   /\ state'[r] \notin {"success", "failure"}
    BY <1>0, <1>2 DEF Start, GiveUp, Q!Start, Q!GiveUp
<1>3. ASSUME NEW s \in Steps, EndCompile(s) \/ EndEmpty(s)
      PROVE  UNCHANGED <<at, csv>> /\ state'[r] = state[r]
    <2>1. s # r
        BY <1>3, StepFacts DEF EndCompile, EndEmpty
    <2> QED BY <1>0, <1>3, <2>1 DEF EndCompile, EndEmpty, Q!Succeed, Q!Fail
<1>4. ASSUME NEW s \in Steps, ExitSuccess(s) \/ ExitFailure(s)
      PROVE  /\ UNCHANGED <<at, csv>>
             /\ \/ state'[r] = state[r]
                \/ /\ state[r] = "running"
                   /\ \/ state'[r] = "success" /\ at[r] = Len(Sizes(r))
                      \/ state'[r] = "failure" /\ at[r] < Len(Sizes(r))
    BY <1>0, <1>4 DEF ExitSuccess, ExitFailure, Q!Succeed, Q!Fail
<1>5. CASE MakePath
    BY <1>0, <1>5 DEF MakePath, Q!Succeed, Q!Fail
<1>6. CASE Done \/ UNCHANGED vars
    BY <1>0, <1>6 DEF Done, Q!Done, Q!vars, vars
<1>7. ASSUME NEW s \in Steps, LoadData(s) \/ ReportRow(s) PROVE FALSE
    BY <1>7 DEF LoadData, ReportRow
<1> QED BY <1>1, <1>2, <1>3, <1>4, <1>5, <1>6, <1>7 DEF Next, StepAction

\* The steps of BenchRun, as they appear in the build.
LEMMA RunSteps ==
    ASSUME NEW r \in Runs,
           at'[r] = at[r],
           (RowAt(r, 1) \o RowAt(r, 2))' = RowAt(r, 1) \o RowAt(r, 2),
           \/ state'[r] = state[r]
           \/ /\ state[r] \notin {"success", "failure"}
              /\ state'[r] \notin {"success", "failure"}
           \/ /\ state[r] = "running"
              /\ \/ state'[r] = "success" /\ at[r] = Len(Sizes(r))
                 \/ state'[r] = "failure" /\ at[r] < Len(Sizes(r))
    PROVE  [B(r)!Next]_(B(r)!vars)
<1>1. Sizes(r)' = Sizes(r)
    BY SameSizes
<1>2. Sizes(r) # <<>>
    BY DEF Sizes, DataSizes, TestSizes
<1>3. CASE state'[r] = state[r] \/ /\ state[r] \notin {"success", "failure"}
                                   /\ state'[r] \notin {"success", "failure"}
    BY <1>1, <1>3 DEF B!vars
<1>4. CASE state[r] = "running" /\ state'[r] = "success" /\ at[r] = Len(Sizes(r))
    <2>1. B(r)!ExitSuccess
        BY <1>1, <1>2, <1>4 DEF B!ExitSuccess
    <2> QED BY <2>1 DEF B!Next
<1>5. CASE state[r] = "running" /\ state'[r] = "failure" /\ at[r] < Len(Sizes(r))
    <2>1. B(r)!ExitFailure
        BY <1>1, <1>5 DEF B!ExitFailure
    <2> QED BY <2>1 DEF B!Next
<1> QED BY <1>3, <1>4, <1>5
\* Appending a row completes a size of its run.
LEMMA RunReports ==
    ASSUME DiskTypes, Progress, RowsOfDone, NEW r \in BenchRuns, ReportRow(r)
    PROVE  B(r)!Complete
<1> DEFINE n == at[r] + 1
<1>1. /\ r \in Runs /\ Sizes(r) = TestSizes /\ Sizes(r)' = Sizes(r)
      /\ at \in [Runs -> Nat] /\ at[r] \in Nat /\ n \in 1..Len(TestSizes)
      /\ TestSizes[n] \in Nat
    <2>1. r \in Runs /\ at \in [Runs -> Nat] /\ at[r] < Len(TestSizes)
        BY StepFacts DEF ReportRow, DiskTypes
    <2>2. at[r] \in Nat /\ n \in 1..Len(TestSizes)
        BY <2>1, SizesFacts
    <2>3. TestSizes[n] \in 1..5 /\ Sizes(r) = TestSizes
        BY <2>2, SizesFacts
    <2> QED BY <2>1, <2>2, <2>3, SameSizes
<1>2. at'[r] = n /\ state[r] = "running" /\ state'[r] = state[r]
    BY <1>1 DEF ReportRow, queueVars
<1>3. ToSet(csv)' \in {ToSet(csv), ToSet(csv) \cup {<<r, TestSizes[n]>>}}
    <2>1. csv' = csv \/ csv' = Append(csv, <<r, TestSizes[n]>>)
        BY DEF ReportRow
    <2> QED BY <1>1, <2>1, RowsGrow
<1>4. <<r, TestSizes[n]>> \notin ToSet(csv)
    BY <1>1, NoRowYet
<1>5. (RowAt(r, 1) \o RowAt(r, 2))' \in
          {RowAt(r, 1) \o RowAt(r, 2),
           Append(RowAt(r, 1) \o RowAt(r, 2), TestSizes[n])}
    <2>1. CASE n = 1
        <3>1. RowAt(r, 1) = <<>> /\ RowAt(r, 2) = <<>> /\ RowAt(r, 2)' = <<>>
            BY <1>1, <1>2, <2>1 DEF RowAt
        <3>2. RowAt(r, 1)' \in {<<>>, <<TestSizes[1]>>}
            BY <1>1 DEF RowAt
        <3>3. <<>> \o <<>> = <<>> /\ Append(<<>>, TestSizes[1]) = <<TestSizes[1]>>
            OBVIOUS
        <3>4. RowAt(r, 1)' \o <<>> = RowAt(r, 1)'
            BY <3>2, ShortRows
        <3> QED BY <2>1, <3>1, <3>2, <3>3, <3>4
    <2>2. CASE n = 2
        <3>1. RowAt(r, 2) = <<>> /\ RowAt(r, 1) \in {<<>>, <<TestSizes[1]>>}
            BY <1>1, <2>2 DEF RowAt
        <3>2. RowAt(r, 1)' = RowAt(r, 1)
            <4>1. TestSizes[1] # TestSizes[2]
                BY <1>1, <2>2, SizesFacts
            <4>2. <<r, TestSizes[1]>> \in ToSet(csv)' <=> <<r, TestSizes[1]>> \in ToSet(csv)
                BY <1>3, <2>2, <4>1
            <4> QED BY <1>1, <1>2, <2>2, <4>2 DEF RowAt
        <3>3. RowAt(r, 2)' \in {<<>>, <<TestSizes[2]>>}
            BY <1>1 DEF RowAt
        <3>4. /\ RowAt(r, 1) \o <<>> = RowAt(r, 1)
              /\ RowAt(r, 1) \o <<TestSizes[2]>> = Append(RowAt(r, 1), TestSizes[2])
            BY <3>1, ShortRows
        <3> QED BY <2>2, <3>1, <3>2, <3>3, <3>4
    <2>3. n = 1 \/ n = 2
        BY <1>1, SizesFacts
    <2> QED BY <2>1, <2>2, <2>3
<1> HIDE DEF n
<1>6. at'[r] = at[r] + 1 /\ at[r] < Len(Sizes(r))
    BY <1>1, <1>2 DEF n
<1> QED BY <1>1, <1>2, <1>5, <1>6 DEF B!Complete, n

LEMMA RunStep ==
    ASSUME P!IInv, DiskInv, NEW r \in Runs, [Next]_vars
    PROVE  [B(r)!Next]_(B(r)!vars)
<1>0. /\ DiskTypes /\ Progress /\ RowsOfDone
      /\ state \in [Steps -> P!States] /\ r \in Steps /\ SetupData \in Steps
      /\ at \in [Runs -> Nat] /\ SetupData \in Runs /\ SetupData \notin BenchRuns
      /\ BenchRuns \subseteq Runs /\ BenchRuns \subseteq Steps
    BY RunnerTypes, StepFacts DEF DiskInv, DiskTypes
<1>1. ASSUME UNCHANGED csv, at'[r] = at[r],
             \/ state'[r] = state[r]
             \/ /\ state[r] \notin {"success", "failure"}
                /\ state'[r] \notin {"success", "failure"}
             \/ /\ state[r] = "running"
                /\ \/ state'[r] = "success" /\ at[r] = Len(Sizes(r))
                   \/ state'[r] = "failure" /\ at[r] < Len(Sizes(r))
      PROVE  [B(r)!Next]_(B(r)!vars)
    <2>1. (RowAt(r, 1) \o RowAt(r, 2))' = RowAt(r, 1) \o RowAt(r, 2)
        BY <1>1, RowsStay
    <2> QED BY <1>1, <2>1, RunSteps
<1>2. CASE OpenData
    <2>1. /\ UNCHANGED <<at, csv>> /\ state[SetupData] = "running"
          /\ at[SetupData] < Len(Sizes(SetupData))
          /\ state' \in {state, [state EXCEPT ![SetupData] = "failure"]}
        BY <1>2, SizesFacts DEF OpenData, Q!Fail, queueVars
    <2>2. \/ state'[r] = state[r]
          \/ /\ state[r] = "running" /\ state'[r] = "failure"
             /\ at[r] < Len(Sizes(r))
        BY <1>0, <2>1
    <2> QED BY <1>1, <2>1, <2>2
<1>3. CASE CloseData
    <2>1. /\ at' = [at EXCEPT ![SetupData] = @ + 1]
          /\ UNCHANGED <<state, csv>> /\ state[SetupData] = "running"
          /\ at[SetupData] < 5
        BY <1>0, <1>3, DataOpen DEF CloseData, queueVars
    <2>2. CASE r = SetupData
        <3>1. \A k : /\ RowAt(r, k) = <<>> /\ RowAt(r, k)' = <<>>
            BY <1>0, <2>1, <2>2, NoRowYet, SameSizes DEF RowAt
        <3>2. at'[r] = at[r] + 1 /\ at[r] < Len(Sizes(r))
            BY <1>0, <2>1, <2>2, SizesFacts
        <3>3. B(r)!Complete
            BY <2>1, <2>2, <3>1, <3>2, SameSizes DEF B!Complete
        <3> QED BY <3>3 DEF B!Next
    <2>3. CASE r # SetupData
        BY <1>0, <1>1, <2>1, <2>3
    <2> QED BY <2>2, <2>3
<1>4. ASSUME NEW t \in BenchRuns, LoadData(t) PROVE [B(r)!Next]_(B(r)!vars)
    <2>1. /\ UNCHANGED <<at, csv>> /\ state[t] = "running"
          /\ at[t] < Len(Sizes(t))
          /\ state' \in {state, [state EXCEPT ![t] = "failure"]}
        BY <1>4, SizesFacts DEF LoadData, Q!Fail, queueVars, diskVars
    <2>2. \/ state'[r] = state[r]
          \/ /\ state[r] = "running" /\ state'[r] = "failure"
             /\ at[r] < Len(Sizes(r))
        BY <1>0, <2>1
    <2> QED BY <1>1, <2>1, <2>2
<1>5. ASSUME NEW t \in BenchRuns, ReportRow(t) PROVE [B(r)!Next]_(B(r)!vars)
    <2>1. CASE t = r
        <3>1. B(r)!Complete
            BY <1>0, <1>5, <2>1, RunReports
        <3> QED BY <3>1 DEF B!Next
    <2>2. CASE t # r
        <3>1. at'[r] = at[r] /\ state'[r] = state[r]
            BY <1>0, <1>5, <2>2 DEF ReportRow, queueVars
        <3>2. at[t] \in Nat /\ at[t] + 1 \in 1..Len(TestSizes)
            BY <1>0, <1>5, SizesFacts DEF ReportRow
        <3>3. TestSizes[at[t] + 1] \in Nat
            BY <3>2, SizesFacts
        <3>4. csv' = csv \/ csv' = Append(csv, <<t, TestSizes[at[t] + 1]>>)
            BY <1>5 DEF ReportRow
        <3>5. ToSet(csv)' \in {ToSet(csv), ToSet(csv) \cup {<<t, TestSizes[at[t] + 1]>>}}
            BY <1>0, <3>3, <3>4, RowsGrow
        <3>6. \A n : <<r, n>> \in ToSet(csv)' <=> <<r, n>> \in ToSet(csv)
            BY <2>2, <3>5
        <3>7. (RowAt(r, 1) \o RowAt(r, 2))' = RowAt(r, 1) \o RowAt(r, 2)
            BY <3>1, <3>6, RowsStay
        <3> QED BY <3>1, <3>7, RunSteps
    <2> QED BY <2>1, <2>2
<1>6. CASE ~(OpenData \/ CloseData \/ \E t \in BenchRuns : LoadData(t) \/ ReportRow(t))
    BY <1>1, <1>6, RunQuiet
<1> QED BY <1>2, <1>3, <1>4, <1>5, <1>6

\* Each run of the build, the extra ones and that of mpack-file included,
\* works through its sizes in order, appends at most a row for each, and
\* succeeds only when none is left: what Harness, which models the main() of
\* all of them, is shown to do.
THEOREM RunsBehave ==
    ASSUME NEW r \in Runs
    PROVE  Spec => B(r)!Spec
<1>1. Init => B(r)!Init
    BY RunBegins
<1>2. P!IInv /\ DiskInv /\ [Next]_vars => [B(r)!Next]_(B(r)!vars)
    BY RunStep
<1> QED BY <1>1, <1>2, Invariant, PTL DEF Spec, B!Spec
=============================================================================
