---------------------------- MODULE MCSystemChunks ----------------------------
(* Model checking instance of SystemChunks: tables that grow by two headers. *)
EXTENDS SystemChunks

===============================================================================
