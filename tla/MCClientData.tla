---------------------------- MODULE MCClientData ----------------------------
(* ClientData on small instances. *)
EXTENDS ClientData, TLC

Symmetry == Permutations(Requests)
=============================================================================
