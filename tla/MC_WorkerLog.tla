----------------------------- MODULE MC_WorkerLog -----------------------------
(* Model-checking instance of WorkerLog: two workers, each writing up to   *)
(* two latency lines of two bytes, and reads of up to six bytes, enough   *)
(* for two lines and their NULs in one read.                              *)
EXTENDS WorkerLog

CONSTANTS w1, w2
MCWorkers == {w1, w2}
=============================================================================
