--------------------------- MODULE MCCardBenefits ---------------------------
(* CardBenefits on small instances: clients of a card are alike. *)
EXTENDS CardBenefits, TLC

Symmetry == Permutations(Requests)
=============================================================================
