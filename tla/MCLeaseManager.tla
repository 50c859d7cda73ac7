--------------------------- MODULE MCLeaseManager ---------------------------
(* LeaseManager for TLC: interchangeable holders, requests and managers. *)
EXTENDS LeaseManager, TLC

Symmetry == Permutations(Holders) \union Permutations(Requests)
            \union Permutations(Managers)
=============================================================================
