----------------------------- MODULE MCBenchmark -----------------------------
(* Benchmark for TLC.  Uninitialised memory holds a time that is not in    *)
(* the file, or one that is.                                               *)
EXTENDS Benchmark

MCUninitialised == {[value |-> 1, time |-> 7], [value |-> 12, time |-> 600]}
=============================================================================
