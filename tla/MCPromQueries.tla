--------------------------- MODULE MCPromQueries ----------------------------
(* Three queries for two workers, and troubles enough for a query to       *)
(* exhaust its retries and for one to fail on a retry.                     *)
EXTENDS PromQueries
=============================================================================
