---------------------------- MODULE MCFileStore ----------------------------
(* Model-checking instance of the file store: runs and callers are model     *)
(* values, interchangeable.                                                  *)
EXTENDS FileStore, TLC

Symmetry == Permutations(RunIDs) \cup Permutations(Callers)
=============================================================================
