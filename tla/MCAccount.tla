----------------------------- MODULE MCAccount -----------------------------
(* Account on small instances: requests are alike. *)
EXTENDS Account, TLC

Symmetry == Permutations(Requests)
=============================================================================
