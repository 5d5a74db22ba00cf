------------------------- MODULE MCIngestorWindows --------------------------
(* Two ticks a day, windows of two days, so that builds, runs and repairCalls  *)
(* meet at and off window and day boundaries.                              *)
EXTENDS IngestorWindows

(* Bound: a build runs into the day after the one it began on, no further. *)
BuildBound == b.pc \in {"loop", "fetch"} => Limit <= b.limit + 1

(* Bound: when Repair and Stop are both called, they overlap. *)
CallsOverlap ==
    /\ repairCalls' > repairCalls => stopCalls = 0
    /\ stopCalls' > stopCalls => repairCalls = 0 \/ Repairing
=============================================================================
