--------------------------- MODULE MCJsonlStorage ---------------------------
(* Instances of JsonlStorage: operations and handles are interchangeable. *)
EXTENDS JsonlStorage, TLC

Symmetry == Permutations(Ops) \cup Permutations(Handles)
=============================================================================
