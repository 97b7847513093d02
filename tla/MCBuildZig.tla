----------------------------- MODULE MCBuildZig -----------------------------
(* BuildZig on a reader with an edge to the run of mpack-file and one       *)
(* without, under both targets; and on the zigpak benchmarks alone.         *)
EXTENDS BuildZig

BothTargets == {"benchmark", "zigpak"}
ZigpakOnly == {"zigpak"}
TwoReaders == <<"mpack-read", "zigpak-read">>
ZigpakBenchmarks == <<"zigpak-read", "zigpak-write">>
=============================================================================
