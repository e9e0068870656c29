-------------------------- MODULE MCBalanceGateway --------------------------
(* BalanceGateway on small instances. *)
EXTENDS BalanceGateway
=============================================================================
