------------------------------ MODULE BenchRun ------------------------------
(***************************************************************************)
(* What one run of a benchmark or a file creator shows to the outside: it  *)
(* works through the object sizes on its command line in order, may append *)
(* a row to results.csv as each is completed, and exits: with success when *)
(* none is left, with failure at a size it could not complete, or at once  *)
(* when it was given no size.  BuildZig takes its runs to behave like      *)
(* this; Harness, which models src/common/benchmark.c, implements it.      *)
(***************************************************************************)
EXTENDS Integers, Sequences

VARIABLES
    sizes,              \* the sizes on the command line
    done,               \* how many of them are completed
    rows,               \* the sizes of the rows appended to results.csv
    exit                \* "none" while it runs

vars == <<sizes, done, rows, exit>>

Init ==
    /\ sizes \in Seq(Int)
    /\ done = 0
    /\ rows = <<>>
    /\ exit = "none"

Complete ==
    /\ exit = "none"
    /\ done < Len(sizes)
    /\ done' = done + 1
    /\ rows' \in {rows, Append(rows, sizes[done + 1])}
    /\ UNCHANGED <<sizes, exit>>

ExitSuccess ==
    /\ exit = "none"
    /\ done = Len(sizes)
    /\ sizes # <<>>
    /\ exit' = "success"
    /\ UNCHANGED <<sizes, done, rows>>

ExitFailure ==
    /\ exit = "none"
    /\ done < Len(sizes) \/ sizes = <<>>
    /\ exit' = "failure"
    /\ UNCHANGED <<sizes, done, rows>>

Next == Complete \/ ExitSuccess \/ ExitFailure

Spec == Init /\ [][Next]_vars
=============================================================================
