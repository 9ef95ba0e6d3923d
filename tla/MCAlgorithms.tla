----------------------------- MODULE MCAlgorithms -----------------------------
(***************************************************************************)
(* The two pure algorithms, one after the other: the tree on few keys      *)
(* (nine give every shape up to three black levels) before the sweep over  *)
(* the request sizes begins, the sweep while the tree is empty.            *)
(***************************************************************************)
EXTENDS RbTree, LayoutSweep

CONSTANT MaxKey     \* bound: the keys are 1 .. MaxKey

MCKeys == 1 .. MaxKey

MCInit == Init /\ SweepInit
MCNext ==
  \/ Next /\ req = 0 /\ ~underrun /\ UNCHANGED <<req, underrun>>
  \/ SweepNext /\ inserted = {} /\ UNCHANGED vars
MCSpec == MCInit /\ [][MCNext]_<<vars, req, underrun>>
===============================================================================
