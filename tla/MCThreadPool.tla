---------------------------- MODULE MCThreadPool ----------------------------
(* Instances of ThreadPool for TLC.                                         *)
EXTENDS ThreadPool, TLC

\* Thread ids and tasks are interchangeable.
Symmetry == Permutations(Worker) \cup Permutations(Task)
=============================================================================
