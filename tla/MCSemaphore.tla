---------------------------- MODULE MCSemaphore ----------------------------
(* Semaphore with two threads and one or two semaphores.                   *)
EXTENDS Semaphore, TLC

\* The semaphores are interchangeable.
Symmetry == Permutations(Sems)
=============================================================================
