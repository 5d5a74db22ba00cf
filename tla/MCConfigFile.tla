---------------------------- MODULE MCConfigFile ----------------------------
(* One handler beside the one of the provider, two updates, and an edit    *)
(* that cannot be decoded.                                                 *)
EXTENDS ConfigFile
=============================================================================
