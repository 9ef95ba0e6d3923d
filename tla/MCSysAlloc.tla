------------------------------ MODULE MCSysAlloc ------------------------------
(***************************************************************************)
(* Model checking instance of SysAlloc under the FIFO policy of            *)
(* check_access_freed_block = on.  FifoNext is SysNext without the three    *)
(* steps of the LIFO list, whose guards that setting makes false; the LIFO *)
(* list is checked under the dead-page routines, in MCDeadPage.            *)
(***************************************************************************)
EXTENDS SysAlloc, TLC

\* Threads are interchangeable.
ThreadSymmetry == Permutations(Threads)

FifoGetPagesStep(t) ==
  \/ ReuseOldest(t) \/ ReuseRefused(t) \/ CacheMiss(t)
  \/ TraceLive(t) \/ TraceDead(t) \/ Mmap(t) \/ SetDead(t)

FifoReleasePagesStep(t) ==
  \/ InitHeader(t) \/ FreeTraceLive(t) \/ FreeTraceDead(t) \/ Protect(t)
  \/ EnqueueKeep(t) \/ EnqueueEvict(t) \/ EnqueueNoTag(t) \/ Munmap(t)

FifoNext ==
  \E t \in Threads : ClientStep(t) \/ FifoGetPagesStep(t) \/ FifoReleasePagesStep(t)

FifoSpec == SysInit /\ [][FifoNext]_sysVars
===============================================================================
