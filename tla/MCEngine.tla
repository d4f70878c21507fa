------------------------------ MODULE MCEngine ------------------------------
(* Model-checking instances of the engine: the constants are given by the    *)
(* configurations MCEngine_*.cfg, run identities and callers as model values *)
EXTENDS EngineProperties, TLC

Symmetry == Permutations(RunIDs) \cup Permutations(Callers)
=============================================================================
