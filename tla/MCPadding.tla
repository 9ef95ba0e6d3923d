------------------------------- MODULE MCPadding -------------------------------
(* Model checking instance of Padding: threads and raw blocks are interchangeable. *)
EXTENDS Padding

Symmetry == Permutations(Threads) \cup Permutations(Blocks)
===============================================================================
