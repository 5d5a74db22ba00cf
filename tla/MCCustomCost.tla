---------------------------- MODULE MCCustomCost ----------------------------
(* Two plugins, one window, which both the build and the runs visit, and   *)
(* two callers of Stop.                                                    *)
EXTENDS CustomCost
=============================================================================
