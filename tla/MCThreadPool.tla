---------------------------- MODULE MCThreadPool ----------------------------
(* The thread pool, for TLC. *)
EXTENDS ThreadPool, TLC

Symmetry == Permutations(Worker) \cup Permutations(Task)
=============================================================================
