------------------------------ MODULE MCOtpSend ------------------------------
(* OtpSend on small instances: the rate limits servers are started with. *)
EXTENDS OtpSend, TLC

Limit(scope, ttl, limit) == [scope |-> scope, ttl |-> ttl, limit |-> limit]

\* One code per phone in the cooldown, as by default, under a strict limit for
\* all phones; or two codes and no other limit.
OneOrTwo == {<<Limit("phone", Cooldown, 1), Limit("global", Cooldown + 1, 1)>>,
             <<Limit("phone", Cooldown, 2)>>}

Symmetry == Permutations(Requests) \cup Permutations(Phones)
=============================================================================
