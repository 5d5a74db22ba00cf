---------------------------- MODULE MCWorkerPool ----------------------------
(* Three inputs, one of which yields nil, on pools of zero (raised to      *)
(* one) to three requested workers: pools smaller than the input and as    *)
(* large as the input, and larger than what is left of it near the end.    *)
EXTENDS WorkerPool
=============================================================================
