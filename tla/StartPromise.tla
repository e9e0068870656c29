---------------------------- MODULE StartPromise ----------------------------
(***************************************************************************)
(* What a start-pos job promises the order flow: a command, then at most   *)
(* MaxCycles - 1 repetitions of it, each after a verification that saw no  *)
(* start, and an outcome.  These are the steps JobCommand and JobVerify of *)
(* OrderFlow; BayStart shows that the pings and resends behind them        *)
(* implement this.                                                         *)
(***************************************************************************)
EXTENDS Naturals

CONSTANTS
    Orders,      \* the orders whose jobs run
    MaxCycles    \* MAX_RETRY_CYCLES, at least 1

VARIABLES
    phase,       \* phase[o]: how far the job of order o is
    sent         \* sent[o]: the commands it has issued

vars == <<phase, sent>>

TypeOK ==
    /\ phase \in [Orders -> {"command", "verify", "complete", "giveup"}]
    /\ sent \in [Orders -> 0..MaxCycles]

Init ==
    /\ phase = [o \in Orders |-> "command"]
    /\ sent = [o \in Orders |-> 0]

\* The first command is accepted or not.
Command(o) ==
    /\ phase[o] = "command"
    /\ sent' = [sent EXCEPT ![o] = 1]
    /\ \E next \in {"verify", "giveup"} : phase' = [phase EXCEPT ![o] = next]

\* The start was seen.
Seen(o) ==
    /\ phase[o] = "verify"
    /\ phase' = [phase EXCEPT ![o] = "complete"]
    /\ UNCHANGED sent

\* It was not: once more, or no more.
Repeat(o) ==
    /\ phase[o] = "verify"
    /\ sent[o] < MaxCycles
    /\ sent' = [sent EXCEPT ![o] = @ + 1]
    /\ UNCHANGED phase

GiveUp(o) ==
    /\ phase[o] = "verify"
    /\ sent[o] = MaxCycles
    /\ phase' = [phase EXCEPT ![o] = "giveup"]
    /\ UNCHANGED sent

Next == \E o \in Orders : Command(o) \/ Seen(o) \/ Repeat(o) \/ GiveUp(o)

Spec == Init /\ [][Next]_vars

=============================================================================
