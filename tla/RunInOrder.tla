----------------------------- MODULE RunInOrder -----------------------------
(***************************************************************************)
(* What a run queue promises: "Run independent steps in order"            *)
(* (buildkit/RunQueue.zig).  A queue has N jobs.  At most one of them runs *)
(* at any time, job i only after jobs 1..i-1 have all succeeded, and when  *)
(* a job fails, or is abandoned, nothing after it ever begins.  This is an *)
(* abstract specification: RunQueue, which gets the promise out of the     *)
(* dependency edges of the build graph, is shown to implement it.          *)
(***************************************************************************)
EXTENDS Integers

CONSTANT N              \* number of jobs in the queue

VARIABLES
    finished,           \* the jobs that succeeded
    active,             \* the jobs that are running: at most one
    failed              \* the jobs that ran and failed

vars == <<finished, active, failed>>

Jobs == 1..N

Init ==
    /\ finished = {}
    /\ active = {}
    /\ failed = {}

\* Job i begins: it is alone, and everything before it has succeeded.
Begin(i) ==
    /\ active = {}
    /\ failed = {}
    /\ finished = 1..(i - 1)
    /\ active' = {i}
    /\ UNCHANGED <<finished, failed>>

Succeed(i) ==
    /\ active = {i}
    /\ finished' = finished \cup {i}
    /\ active' = {}
    /\ UNCHANGED failed

Fail(i) ==
    /\ active = {i}
    /\ failed' = {i}
    /\ active' = {}
    /\ UNCHANGED finished

Next == \E i \in Jobs : Begin(i) \/ Succeed(i) \/ Fail(i)

Spec == Init /\ [][Next]_vars
=============================================================================
