---------------------------- MODULE MCJobTicker -----------------------------
(* The ticker is kicked off often enough for an exit to fall before, at    *)
(* and after every tick.                                                   *)
EXTENDS JobTicker
=============================================================================
