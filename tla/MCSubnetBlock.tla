---------------------------- MODULE MCSubnetBlock ----------------------------
(* SubnetBlock on small instances: an operator replaces what the servers have *)
(* listed by a wider range, and an address the guard does not recognise.      *)
EXTENDS SubnetBlock

RangesAndMapped == {[enabled |-> TRUE, subnets |-> Ranges \cup Mapped]}
=============================================================================
