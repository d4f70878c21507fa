----------------------------- MODULE MCInstall -----------------------------
(* Two components in two namespaces; the second one is a hazard.  The others  *)
(* may have either component, and the hazard in the first one's namespace.    *)
EXTENDS Install, TLC

Namespace2 == [c \in 1 .. 2 |-> IF c = 1 THEN "n1" ELSE "n2"]
Foreign2   == {<<1, "n1">>, <<2, "n1">>}
Symmetry   == Permutations(Objects)
=============================================================================
