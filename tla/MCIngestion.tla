---------------------------- MODULE MCIngestion -----------------------------
(* Two integrations, an unrecognised config, and enough ingestor objects   *)
(* for both keys to have one or for one key to have its ingestor replaced. *)
EXTENDS Ingestion
=============================================================================
