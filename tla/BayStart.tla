------------------------------ MODULE BayStart ------------------------------
(***************************************************************************)
(* Orders for one bay of a car wash: the availability check an order is    *)
(* created after, the start command its job sends later, and the pings by  *)
(* which the job decides whether the bay has started.                      *)
(*                                                                         *)
(* The bay and the network to it are external: a ping or a command may be  *)
(* lost (Lossy), a command may be ignored, and other customers may use the *)
(* bay (Walkups).  One job runs per order; OrderFlow has the rest of it.   *)
(***************************************************************************)
EXTENDS Naturals, FiniteSets

CONSTANTS
    Orders,      \* orders for this bay
    MaxCycles,   \* MAX_RETRY_CYCLES
    MaxPings,    \* MAX_PING_ATTEMPTS
    Lossy,       \* requests to the car wash may fail
    Walkups,     \* customers without an order use the bay
    Nobody       \* the bay is not washing for an order

ASSUME BayAssumption ==
    /\ MaxCycles \in Nat \ {0} /\ MaxPings \in Nat \ {0}
    /\ Lossy \in BOOLEAN /\ Walkups \in BOOLEAN
    /\ Nobody \notin Orders

VARIABLES
    job,         \* job[o]: the order's job, from the order's creation on
    bay,         \* what a ping that arrives is told
    customer,    \* the order the bay is washing for
    inbox,       \* orders whose command arrived and was not acted on yet
    started      \* orders the bay has started a wash for

vars == <<job, bay, customer, inbox, started>>

Job == [pc: {"none", "look", "send", "ping", "resend", "complete", "giveup"},
        device: BOOLEAN, cycle: 0..MaxCycles, pings: 0..MaxPings, sent: 0..MaxCycles]
NoJob == [pc |-> "none", device |-> FALSE, cycle |-> 0, pings |-> 0, sent |-> 0]

TypeOK ==
    /\ job \in [Orders -> Job]
    /\ bay \in {"Free", "Busy"}
    /\ customer \in Orders \cup {Nobody}
    /\ inbox \subseteq Orders
    /\ started \subseteq Orders

Init ==
    /\ job = [o \in Orders |-> NoJob]
    /\ bay = "Free"
    /\ customer = Nobody
    /\ inbox = {}
    /\ started = {}

----------------------------------------------------------------------------
(* PosService *)

\* ping never throws: a request that fails is answered Unavailable.
Answers == {bay} \cup IF Lossy THEN {"Unavailable"} ELSE {}

\* A write to a known device arrives, or is lost when the network is Lossy.
Arrival(o) ==
    \/ inbox' = inbox \cup {o}
    \/ Lossy /\ UNCHANGED inbox

----------------------------------------------------------------------------
(* The order's side *)

\* CreateOrderUseCase: an order is refused while the bay is Busy or
\* Unavailable; its payment and its job follow any time later.
Create(o) ==
    /\ job[o].pc = "none"
    /\ "Free" \in Answers
    /\ job' = [job EXCEPT ![o].pc = "look"]
    /\ UNCHANGED <<bay, customer, inbox, started>>

\* The first ping of the job is for the device id alone: null if it failed.
Look(o) ==
    /\ job[o].pc = "look"
    /\ \E a \in Answers :
          job' = [job EXCEPT ![o] = [@ EXCEPT !.pc = "send",
                                              !.device = a # "Unavailable"]]
    /\ UNCHANGED <<bay, customer, inbox, started>>

\* The command succeeds only if it arrived and its answer came back.
Send(o) ==
    LET issued == [job[o] EXCEPT !.sent = 1]
        verified == [issued EXCEPT !.pc = "ping", !.cycle = 1, !.pings = 1]
        failed == [issued EXCEPT !.pc = "giveup"]
    IN  /\ job[o].pc = "send"
        /\ \/ /\ job[o].device
              /\ inbox' = inbox \cup {o}
              /\ job' = [job EXCEPT ![o] = verified]
           \/ /\ job[o].device /\ Lossy
              /\ Arrival(o)
              /\ job' = [job EXCEPT ![o] = failed]
           \/ /\ ~job[o].device
              /\ UNCHANGED inbox
              /\ job' = [job EXCEPT ![o] = failed]
        /\ UNCHANGED <<bay, customer, started>>

\* Mutants: a ping too many; a cycle too many; a last cycle that starts over.
AnotherPingToo(k) == k.pings <= MaxPings
AnotherCycleToo(k) == k.cycle <= MaxCycles
StartOver(k) == [k EXCEPT !.pings = 1]

\* performPingAttempts: any answer but Free ends the verification.
Shows(a) == a # "Free"
AnotherPing(k) == k.pings < MaxPings
AnotherCycle(k) == k.cycle < MaxCycles
Exhausted(k) == [k EXCEPT !.pc = "giveup"]

Ping(o) ==
    LET k == job[o]
    IN  /\ k.pc = "ping"
        /\ \E a \in Answers :
              job' = [job EXCEPT ![o] =
                        IF Shows(a) THEN [k EXCEPT !.pc = "complete"]
                        ELSE IF AnotherPing(k) THEN [k EXCEPT !.pings = @ + 1]
                        ELSE IF AnotherCycle(k) THEN [k EXCEPT !.pc = "resend"]
                        ELSE Exhausted(k)]
        /\ UNCHANGED <<bay, customer, inbox, started>>

\* The command again, to the device of the first ping; its answer is ignored.
Resend(o) ==
    LET k == job[o]
    IN  /\ k.pc = "resend"
        /\ Arrival(o)
        /\ job' = [job EXCEPT ![o] = [k EXCEPT !.pc = "ping", !.pings = 1,
                                               !.cycle = @ + 1, !.sent = @ + 1]]
        /\ UNCHANGED <<bay, customer, started>>

JobStep(o) == Look(o) \/ Send(o) \/ Ping(o) \/ Resend(o)

----------------------------------------------------------------------------
(* The bay's side *)

\* A free bay acts on a command.
Wash(o) ==
    /\ o \in inbox
    /\ bay = "Free"
    /\ bay' = "Busy" /\ customer' = o
    /\ inbox' = inbox \ {o}
    /\ started' = started \cup {o}
    /\ UNCHANGED job

\* Or it does not, because it is busy or out of order.
Ignore(o) ==
    /\ o \in inbox
    /\ inbox' = inbox \ {o}
    /\ UNCHANGED <<job, bay, customer, started>>

Walkup ==
    /\ Walkups
    /\ bay = "Free"
    /\ bay' = "Busy" /\ customer' = Nobody
    /\ UNCHANGED <<job, inbox, started>>

Finish ==
    /\ bay = "Busy"
    /\ bay' = "Free" /\ customer' = Nobody
    /\ UNCHANGED <<job, inbox, started>>

Next ==
    \/ \E o \in Orders : Create(o) \/ JobStep(o) \/ Wash(o) \/ Ignore(o)
    \/ Walkup \/ Finish

Spec == Init /\ [][Next]_vars

\* The worker runs its jobs; the bay owes nothing.
FairSpec == Spec /\ \A o \in Orders : WF_vars(JobStep(o))

----------------------------------------------------------------------------
(* Properties *)

\* Pings and resends are the commands and outcomes the order flow counts on.
Promise == INSTANCE StartPromise WITH
    phase <- [o \in Orders |->
                CASE job[o].pc \in {"none", "look", "send"} -> "command"
                  [] job[o].pc \in {"ping", "resend"} -> "verify"
                  [] OTHER -> job[o].pc],
    sent <- [o \in Orders |-> job[o].sent]

\* Whatever the network and the bay do, a job sends one command per cycle and
\* stops for good at its outcome.
KeepsThePromise == Promise!Spec

Ended(o) == job[o].pc \in {"complete", "giveup"}

\* Every order that was created gets an outcome: the recursion over cycles and
\* pings ends even if the bay stays free for ever.
EveryJobEnds == \A o \in Orders : job[o].pc = "look" ~> Ended(o)

\* start-pos.use-case.ts: "Verify carwash has actually started with retries".
\* An order is completed only if the bay has started a wash for it.  It holds
\* for one order on a reliable network; Unavailable and another order's wash
\* count as a start too.
CompletedHasStarted ==
    \A o \in Orders : job[o].pc = "complete" => o \in started

=============================================================================
