------------------------------ MODULE MCDeadPage ------------------------------
(* Model checking instance of DeadPage: pages of 4 units, headers of 2, alignment 1. *)
EXTENDS DeadPage, TLC

ThreadSymmetry == Permutations(Threads)
===============================================================================
