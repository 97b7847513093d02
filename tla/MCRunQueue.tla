----------------------------- MODULE MCRunQueue -----------------------------
(* A queue of three runs r1, r2, r3, each of an executable of its own; r2   *)
(* and r3 also need the data step d.  The user asks for the queue and for  *)
(* an extra step x, which is not in the queue and shares r3's executable.   *)
EXTENDS RunQueue

CONSTANTS r1, r2, r3, e1, e2, e3, d, x, q

MCSteps == {r1, r2, r3, e1, e2, e3, d, x, q}
MCQueue == <<r1, r2, r3>>
MCUses == [s \in MCSteps |->
             CASE s = r1 -> {e1}
               [] s = r2 -> {e2, d}
               [] s = r3 -> {e3, d}
               [] s = x  -> {e3}
               [] OTHER  -> {}]
MCWanted == {q, x}
MCWorkers == 3

=============================================================================
