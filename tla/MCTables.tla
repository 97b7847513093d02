------------------------------ MODULE MCTables ------------------------------
EXTENDS Tables

MCTests == <<"hash-object", "hash-data", "mpack-read">>

\* Nothing has changed, one test has, or the harness.
MCChanges == {{}, {"mpack-read"}, ToSet(MCTests)}

\* Not in order, and some of them equal.
MCTimes == [k \in 1..16 |-> (k * 5) % 7]
=============================================================================
