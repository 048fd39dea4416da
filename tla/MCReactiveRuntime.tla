------------------------- MODULE MCReactiveRuntime -------------------------
(* Bounds for model-checking the reactive walk-forward runtime. *)
EXTENDS ReactiveRuntime
=============================================================================
