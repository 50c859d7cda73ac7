--------------------------- MODULE MCChangeStream ---------------------------
(* ChangeStream for TLC: interchangeable controllers and keys. *)
EXTENDS ChangeStream, TLC

Symmetry == Permutations(Controllers) \union Permutations(Keys)
=============================================================================
