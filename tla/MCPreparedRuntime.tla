------------------------- MODULE MCPreparedRuntime -------------------------
(* Bounds for model-checking the prepared runtime. *)
EXTENDS PreparedRuntime
=============================================================================
