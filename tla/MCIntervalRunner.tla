-------------------------- MODULE MCIntervalRunner --------------------------
(* Two clients and one outside subscriber exercise every race of the run   *)
(* state: two concurrent Starts, Start against a stopping run, OnStop      *)
(* before, during and after a run.                                         *)
EXTENDS IntervalRunner
=============================================================================
