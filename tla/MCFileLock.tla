----------------------------- MODULE MCFileLock -----------------------------
(* Instances of FileLock: the threads are interchangeable. *)
EXTENDS FileLock, TLC

Symmetry == Permutations(Procs)
=============================================================================
