------------------------------ MODULE RunQueue ------------------------------
(***************************************************************************)
(* The run queue of buildkit/RunQueue.zig on the build graph it lives in.  *)
(*                                                                         *)
(* A run queue holds no list and starts nothing.  `append` only adds one   *)
(* edge to the dependency graph, from the step appended to the step        *)
(* appended before it, and `finalize` one edge from the queue's own step   *)
(* to the last step.  That the benchmarks then run one at a time and in    *)
(* order is a consequence of these edges and of what the build runner of   *)
(* Zig does with them: it keeps up to `Workers` steps running, of every    *)
(* step the user asked for and all it depends on, and starts a step when   *)
(* all its dependencies have succeeded.  The runner is not in the          *)
(* repository: its actions are written from how build.zig uses it.         *)
(***************************************************************************)
EXTENDS Integers, Sequences, FiniteSets

CONSTANTS
    Steps,              \* the steps of the build graph
    Queue,              \* the steps appended, in the order of the calls
    QueueStep,          \* RunQueue.step, what `benchmark` depends on
    Uses,               \* the dependsOn calls made outside the queue
    Wanted,             \* the top-level steps given to `zig build`
    Workers,            \* how many steps the runner keeps running
    NoStep              \* the null of `last: ?*Step`

Members == {Queue[i] : i \in DOMAIN Queue}

ASSUME QueueAssumption ==
    /\ Queue \in Seq(Steps)
    /\ \A i, j \in DOMAIN Queue : Queue[i] = Queue[j] => i = j
    /\ QueueStep \in Steps \ Members
    /\ NoStep \notin Steps

ASSUME GraphAssumption ==
    /\ Uses \in [Steps -> SUBSET Steps]
    /\ Wanted \subseteq Steps
    /\ Workers \in Nat \ {0}

VARIABLES
    phase,              \* how far `zig build` is
    appended,           \* how many steps have been appended
    last,               \* RunQueue.last
    deps,               \* the dependency edges so far
    state               \* what the runner knows of each step

vars == <<phase, appended, last, deps, state>>

Phases == {"configure", "configured", "make"}

\* std.Build.Step.State
States == {"precheck_unstarted", "precheck_done", "running",
           "success", "failure", "dependency_failure"}

TypeOK ==
    /\ phase \in Phases
    /\ appended \in 0..Len(Queue)
    /\ last \in Steps \cup {NoStep}
    /\ deps \in [Steps -> SUBSET Steps]
    /\ state \in [Steps -> States]

-----------------------------------------------------------------------------
(* Configuration: build.zig runs once, on one thread.                      *)

\* RunQueue.create, and the edges build.zig adds by itself.  Nothing runs
\* before configuration is over, so it does not matter at which point of it
\* an edge is added and all of `Uses` is there from the start.
Init ==
    /\ phase = "configure"
    /\ appended = 0
    /\ last = NoStep
    /\ deps = Uses
    /\ state = [s \in Steps |-> "precheck_unstarted"]

DependOn(s, d) == deps' = [deps EXCEPT ![s] = @ \cup {d}]

EnqueueFirst(tail) ==   \* mutant: `last` is set only once
    /\ IF last # NoStep THEN DependOn(tail, last) ELSE UNCHANGED deps
    /\ last' = IF last = NoStep THEN tail ELSE last

EnqueueBeside(tail) ==  \* mutant: the queue's step depends on each member
    /\ DependOn(QueueStep, tail)
    /\ last' = tail

EnqueueEager(tail) ==   \* mutant: `last` is assigned before it is read
    /\ DependOn(tail, tail)
    /\ last' = tail

\* The body of `append`: the edge is made from the old value of `last`, the
\* deferred assignment replaces it afterwards.
Enqueue(tail) ==
    /\ IF last # NoStep THEN DependOn(tail, last) ELSE UNCHANGED deps
    /\ last' = tail

AppendNext ==
    /\ phase = "configure"
    /\ appended < Len(Queue)
    /\ Enqueue(Queue[appended + 1])
    /\ appended' = appended + 1
    /\ UNCHANGED <<phase, state>>

\* The deferred `finalize`, when build() returns.
Finalize ==
    /\ phase = "configure"
    /\ appended = Len(Queue)
    /\ IF last # NoStep THEN DependOn(QueueStep, last) ELSE UNCHANGED deps
    /\ phase' = "configured"
    /\ UNCHANGED <<appended, last, state>>

-----------------------------------------------------------------------------
(* The build runner.                                                       *)

Reach[n \in Nat] ==
    IF n = 0
    THEN Wanted
    ELSE Reach[n - 1] \cup UNION {deps[s] : s \in Reach[n - 1]}

\* Every step the wanted ones need, directly or not.
Needed == Reach[Cardinality(Steps)]

Plan ==
    /\ phase = "configured"
    /\ phase' = "make"
    /\ state' = [s \in Steps |->
                    IF s \in Needed THEN "precheck_done" ELSE state[s]]
    /\ UNCHANGED <<appended, last, deps>>

Ready(s) == \A d \in deps[s] : state[d] = "success"

Doomed(s) == \E d \in deps[s] : state[d] \in {"failure", "dependency_failure"}

Running == {s \in Steps : state[s] = "running"}

Start(s) ==
    /\ phase = "make"
    /\ state[s] = "precheck_done"
    /\ Ready(s)
    /\ Cardinality(Running) < Workers
    /\ state' = [state EXCEPT ![s] = "running"]
    /\ UNCHANGED <<phase, appended, last, deps>>

\* make() of the step returned, or its process exited with code 0 ...
Succeed(s) ==
    /\ state[s] = "running"
    /\ state' = [state EXCEPT ![s] = "success"]
    /\ UNCHANGED <<phase, appended, last, deps>>

\* ... or it did not.
Fail(s) ==
    /\ state[s] = "running"
    /\ state' = [state EXCEPT ![s] = "failure"]
    /\ UNCHANGED <<phase, appended, last, deps>>

\* A step is given up when a step it depends on failed or was given up.
GiveUp(s) ==
    /\ phase = "make"
    /\ state[s] = "precheck_done"
    /\ Doomed(s)
    /\ state' = [state EXCEPT ![s] = "dependency_failure"]
    /\ UNCHANGED <<phase, appended, last, deps>>

Settled == {"success", "failure", "dependency_failure"}

\* The runner exits when every needed step is settled.
Done ==
    /\ phase = "make"
    /\ \A s \in Steps : state[s] \in Settled \cup {"precheck_unstarted"}
    /\ UNCHANGED vars

StepAction(s) == Start(s) \/ Succeed(s) \/ Fail(s) \/ GiveUp(s)

Next ==
    \/ AppendNext
    \/ Finalize
    \/ Plan
    \/ \E s \in Steps : StepAction(s)
    \/ Done

Spec == Init /\ [][Next]_vars

\* build() returns, the runner looks at every step again when one it depends
\* on is settled, and every step ends: a compilation does, and a benchmark
\* measures for a bounded time.
Fairness ==
    /\ WF_vars(AppendNext) /\ WF_vars(Finalize) /\ WF_vars(Plan)
    /\ \A s \in Steps : WF_vars(StepAction(s))

FairSpec == Spec /\ Fairness

-----------------------------------------------------------------------------
(* Properties.                                                             *)

HasStarted(s) == state[s] \in {"running", "success", "failure"}

\* Two benchmarks of the queue never run at the same time, however many
\* steps the runner keeps running: the timed loops do not disturb each other.
Exclusive ==
    \A i, j \in DOMAIN Queue :
        state[Queue[i]] = "running" /\ state[Queue[j]] = "running" => i = j

\* A benchmark starts only when every one appended before it has succeeded,
\* not only the one its edge points to.
InOrder ==
    \A i, j \in DOMAIN Queue :
        i < j /\ HasStarted(Queue[j]) => state[Queue[i]] = "success"

\* The queue's step stands for all its members: `finalize` adds one edge and
\* `zig build benchmark` reports success only if every benchmark succeeded.
StandsForAll ==
    state[QueueStep] = "success" =>
        \A i \in DOMAIN Queue : state[Queue[i]] = "success"

\* The abstract promise, read off the states of the members.
InStates(S) == {i \in DOMAIN Queue : state[Queue[i]] \in S}

Order == INSTANCE RunInOrder WITH
            N        <- Len(Queue),
            finished <- InStates({"success"}),
            active   <- InStates({"running"}),
            failed   <- InStates({"failure"})

\* The edges and the runner together implement the promise.
RunsInOrder == Order!Spec

\* What was asked for is eventually settled: the edges added by the queue
\* never close a cycle, and a failure releases every step behind it.
EverySettles ==
    \A s \in Wanted : <>(state[s] \in Settled)
=============================================================================
