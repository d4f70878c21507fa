---------------------------- MODULE MCEventStream ---------------------------
(* Model-checking instances of the event stream: MCEventStream*.cfg.         *)
EXTENDS EventStream, TLC

Symmetry == Permutations(Subs)
=============================================================================
