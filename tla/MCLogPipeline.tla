----------------------------- MODULE MCLogPipeline -----------------------------
(* Model checking instance of LogPipeline. *)
EXTENDS LogPipeline

================================================================================
