---------------------------- MODULE MCBenchmarkRun ----------------------------
(* The instance of BenchmarkRun that TLC checks; the .cfg files give the     *)
(* bounds.                                                                   *)
EXTENDS BenchmarkRun
===============================================================================
