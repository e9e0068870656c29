---------------------------- MODULE MCOrderFlow ----------------------------
(* OrderFlow on small instances: the orders TLC lets a client place. *)
EXTENDS OrderFlow, TLC

PaidTerms == {[free |-> FALSE, points |-> TRUE, cashback |-> TRUE]}
PlainTerms == {[free |-> FALSE, points |-> FALSE, cashback |-> FALSE]}
FreeAndPaidTerms == PaidTerms \cup {[free |-> TRUE, points |-> FALSE,
                                     cashback |-> FALSE]}

Symmetry == Permutations(Orders) \cup Permutations(Calls) \cup Permutations(Payments)
                \cup Permutations(Hooks) \cup Permutations(Jobs)
=============================================================================
