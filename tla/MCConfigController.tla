------------------------- MODULE MCConfigController -------------------------
(* Two keys that compete through helm, the config file and the API. *)
EXTENDS ConfigController
=============================================================================
