-------------------------- MODULE BayStart_proofs --------------------------
(***************************************************************************)
(* That the types of BayStart hold, and that the jobs of any number of     *)
(* orders, with any number of cycles and pings, on any network, implement  *)
(* StartPromise.  The refinement needs one fact the types do not give: a   *)
(* job that verifies has sent as many commands as it has begun cycles.     *)
(***************************************************************************)
EXTENDS BayStart, TLAPS

\* A job in its verification has sent one command per cycle, and one that is
\* about to send again has a cycle left.
Paced(k) ==
    /\ k.pc \in {"ping", "resend"} => k.sent = k.cycle
    /\ k.pc = "resend" => k.cycle < MaxCycles

StartInv == TypeOK /\ \A o \in Orders : Paced(job[o])

\* What StartPromise calls the phase of a job.
PhaseOf(k) == CASE k.pc \in {"none", "look", "send"} -> "command"
                [] k.pc \in {"ping", "resend"} -> "verify"
                [] OTHER -> k.pc

LEMMA PhaseOfAll ==
    ASSUME NEW k \in Job
    PROVE  /\ k.pc \in {"none", "look", "send"} => PhaseOf(k) = "command"
           /\ k.pc \in {"ping", "resend"} => PhaseOf(k) = "verify"
           /\ k.pc \in {"complete", "giveup"} => PhaseOf(k) = k.pc
BY DEF PhaseOf, Job

----------------------------------------------------------------------------
(* What one step of a job does *)

\* A step of a job changes that job alone, to one of these.
StepsTo(k, n) ==
    \/ /\ k.pc = "none" /\ n = [k EXCEPT !.pc = "look"]
    \/ /\ k.pc = "look"
       /\ \E d \in BOOLEAN : n = [k EXCEPT !.pc = "send", !.device = d]
    \/ /\ k.pc = "send"
       /\ \/ n = [k EXCEPT !.sent = 1, !.pc = "ping", !.cycle = 1, !.pings = 1]
          \/ n = [k EXCEPT !.sent = 1, !.pc = "giveup"]
    \/ /\ k.pc = "ping"
       /\ \/ n = [k EXCEPT !.pc = "complete"]
          \/ k.pings < MaxPings /\ n = [k EXCEPT !.pings = k.pings + 1]
          \/ k.cycle < MaxCycles /\ n = [k EXCEPT !.pc = "resend"]
          \/ ~(k.cycle < MaxCycles) /\ n = [k EXCEPT !.pc = "giveup"]
    \/ /\ k.pc = "resend"
       /\ n = [k EXCEPT !.pc = "ping", !.pings = 1, !.cycle = k.cycle + 1,
                        !.sent = k.sent + 1]

LEMMA JobsStep ==
    ASSUME TypeOK, NEW o \in Orders, Create(o) \/ JobStep(o)
    PROVE  \E n : StepsTo(job[o], n) /\ job' = [job EXCEPT ![o] = n]
<1>1. CASE Create(o)
  BY <1>1 DEF Create, StepsTo, TypeOK
<1>2. CASE Look(o)
  BY <1>2 DEF Look, StepsTo, TypeOK
<1>3. CASE Send(o)
  BY <1>3 DEF Send, StepsTo, TypeOK
<1>4. CASE Ping(o)
  <2>1. PICK a \in Answers :
          job' = [job EXCEPT ![o] =
                    IF Shows(a) THEN [job[o] EXCEPT !.pc = "complete"]
                    ELSE IF AnotherPing(job[o]) THEN [job[o] EXCEPT !.pings = @ + 1]
                    ELSE IF AnotherCycle(job[o]) THEN [job[o] EXCEPT !.pc = "resend"]
                    ELSE Exhausted(job[o])]
    BY <1>4 DEF Ping
  <2>2. job[o].pc = "ping"
    BY <1>4 DEF Ping
  <2> QED
    <3>1. CASE Shows(a)
      BY <2>1, <2>2, <3>1 DEF StepsTo, TypeOK
    <3>2. CASE ~Shows(a) /\ AnotherPing(job[o])
      <4> DEFINE n == [job[o] EXCEPT !.pings = job[o].pings + 1]
      <4>1. job' = [job EXCEPT ![o] = n]
        <5>1. [job[o] EXCEPT !.pings = @ + 1] = n
          OBVIOUS
        <5>2. job' = [job EXCEPT ![o] = [job[o] EXCEPT !.pings = @ + 1]]
          BY <2>1, <3>2
        <5> HIDE DEF n
        <5> QED
          BY <5>1, <5>2
      <4>2. StepsTo(job[o], n)
        BY <2>2, <3>2 DEF StepsTo, AnotherPing
      <4> QED
        BY <4>1, <4>2
    <3>3. CASE ~Shows(a) /\ ~AnotherPing(job[o]) /\ AnotherCycle(job[o])
      BY <2>1, <2>2, <3>3 DEF StepsTo, TypeOK, AnotherCycle
    <3>4. CASE ~Shows(a) /\ ~AnotherPing(job[o]) /\ ~AnotherCycle(job[o])
      BY <2>1, <2>2, <3>4 DEF StepsTo, TypeOK, AnotherCycle, Exhausted
    <3> QED
      BY <3>1, <3>2, <3>3, <3>4
<1>5. CASE Resend(o)
  <2> DEFINE n == [job[o] EXCEPT !.pc = "ping", !.pings = 1,
                                 !.cycle = job[o].cycle + 1,
                                 !.sent = job[o].sent + 1]
  <2>1. job' = [job EXCEPT ![o] = n]
    <3>1. [job[o] EXCEPT !.pc = "ping", !.pings = 1,
                         !.cycle = @ + 1, !.sent = @ + 1] = n
      OBVIOUS
    <3>2. job' = [job EXCEPT ![o] = [job[o] EXCEPT !.pc = "ping", !.pings = 1,
                                                   !.cycle = @ + 1, !.sent = @ + 1]]
      BY <1>5 DEF Resend
    <3> HIDE DEF n
    <3> QED
      BY <3>1, <3>2
  <2>2. StepsTo(job[o], n)
    BY <1>5 DEF Resend, StepsTo
  <2> QED
    BY <2>1, <2>2
<1> QED
  BY <1>1, <1>2, <1>3, <1>4, <1>5 DEF JobStep

LEMMA StepsKeepPace ==
    ASSUME NEW k \in Job, Paced(k), NEW n, StepsTo(k, n)
    PROVE  n \in Job /\ Paced(n)
<1> USE BayAssumption DEF Job, Paced
<1>1. CASE k.pc = "none" /\ n = [k EXCEPT !.pc = "look"]
  BY <1>1
<1>2. CASE k.pc = "look" /\ \E d \in BOOLEAN : n = [k EXCEPT !.pc = "send", !.device = d]
  BY <1>2
<1>3. CASE k.pc = "send"
  <2>1. CASE n = [k EXCEPT !.sent = 1, !.pc = "ping", !.cycle = 1, !.pings = 1]
    <3>1. 1 \in 0..MaxCycles /\ 1 \in 0..MaxPings
      OBVIOUS
    <3>2. /\ n.pc = "ping" /\ n.sent = 1 /\ n.cycle = 1 /\ n.pings = 1
          /\ n \in Job
      BY <2>1, <3>1
    <3> QED
      BY <3>2
  <2>2. CASE n = [k EXCEPT !.sent = 1, !.pc = "giveup"]
    <3>1. 1 \in 0..MaxCycles
      OBVIOUS
    <3> QED
      BY <2>2, <3>1
  <2> QED
    BY <1>3, <2>1, <2>2 DEF StepsTo
<1>4. CASE k.pc = "ping"
  BY <1>4 DEF StepsTo
<1>5. CASE k.pc = "resend"
  <2>1. n = [k EXCEPT !.pc = "ping", !.pings = 1, !.cycle = k.cycle + 1,
                      !.sent = k.sent + 1]
    BY <1>5 DEF StepsTo
  <2>2. k.cycle + 1 \in 0..MaxCycles /\ k.sent = k.cycle /\ 1 \in 0..MaxPings
    BY <1>5
  <2>3. k.sent + 1 \in 0..MaxCycles
    BY <2>2
  <2>4. n \in Job
    BY <2>1, <2>2, <2>3
  <2>5. n.pc = "ping" /\ n.cycle = k.cycle + 1 /\ n.sent = k.sent + 1
    BY <2>1
  <2> QED
    BY <2>2, <2>4, <2>5
<1> QED
  BY <1>1, <1>2, <1>3, <1>4, <1>5 DEF StepsTo

\* The steps that leave the jobs alone.
BayStep ==
    \/ \E o \in Orders : Wash(o) \/ Ignore(o)
    \/ Walkup \/ Finish

LEMMA BayLeavesJobs ==
    ASSUME BayStep
    PROVE  UNCHANGED job
BY DEF BayStep, Wash, Ignore, Walkup, Finish

LEMMA NextSplit ==
    ASSUME Next
    PROVE  BayStep \/ \E o \in Orders : Create(o) \/ JobStep(o)
BY DEF Next, BayStep

----------------------------------------------------------------------------
(* Types *)

LEMMA InitStart == Init => StartInv
BY BayAssumption DEF Init, StartInv, TypeOK, Paced, NoJob, Job

LEMMA EnvironmentTyped ==
    ASSUME TypeOK, [Next]_vars
    PROVE  /\ bay' \in {"Free", "Busy"}
           /\ customer' \in Orders \cup {Nobody}
           /\ inbox' \subseteq Orders
           /\ started' \subseteq Orders
<1> USE DEF TypeOK
<1>1. CASE UNCHANGED vars
  BY <1>1 DEF vars
<1>2. CASE BayStep
  BY <1>2 DEF BayStep, Wash, Ignore, Walkup, Finish
<1>3. CASE \E o \in Orders : Create(o) \/ JobStep(o)
  BY <1>3 DEF Create, JobStep, Look, Send, Ping, Resend, Arrival
<1> QED
  BY <1>1, <1>2, <1>3, NextSplit

LEMMA StartInvNext ==
    ASSUME StartInv, [Next]_vars
    PROVE  StartInv'
<1>1. TypeOK /\ \A o \in Orders : Paced(job[o])
  BY DEF StartInv
<1>2. job' \in [Orders -> Job] /\ \A o \in Orders : Paced(job'[o])
  <2>1. CASE UNCHANGED job
    BY <1>1, <2>1 DEF TypeOK
  <2>2. ASSUME NEW o \in Orders, Create(o) \/ JobStep(o)
        PROVE  job' \in [Orders -> Job] /\ \A p \in Orders : Paced(job'[p])
    <3>1. PICK n : StepsTo(job[o], n) /\ job' = [job EXCEPT ![o] = n]
      BY <1>1, <2>2, JobsStep
    <3>2. job \in [Orders -> Job]
      BY <1>1 DEF TypeOK
    <3>3. n \in Job /\ Paced(n)
      BY <1>1, <3>1, <3>2, StepsKeepPace
    <3> QED
      BY <1>1, <3>1, <3>2, <3>3
  <2> QED
    BY <2>1, <2>2, NextSplit, BayLeavesJobs DEF vars
<1>3. TypeOK'
  BY <1>1, <1>2, EnvironmentTyped DEF TypeOK
<1>4. (\A o \in Orders : Paced(job[o]))'
  BY <1>2 DEF Paced
<1> QED
  BY <1>3, <1>4 DEF StartInv

LEMMA Inductive == Spec => []StartInv
<1>1. StartInv /\ [Next]_vars => StartInv'
  BY StartInvNext
<1> QED
  BY InitStart, <1>1, PTL DEF Spec

\* The counters of every job stay within their limits, MAX_RETRY_CYCLES and
\* MAX_PING_ATTEMPTS, and the state is well typed, in every reachable state.
THEOREM TypeCorrect == Spec => []TypeOK
<1>1. StartInv => TypeOK
  BY DEF StartInv
<1> QED
  BY Inductive, <1>1, PTL

----------------------------------------------------------------------------
(* The refinement *)

\* One step of a job is one step of the promise, or none.
Promised(k, n) ==
    \/ PhaseOf(n) = PhaseOf(k) /\ n.sent = k.sent
    \/ /\ PhaseOf(k) = "command" /\ n.sent = 1
       /\ PhaseOf(n) \in {"verify", "giveup"}
    \/ PhaseOf(k) = "verify" /\ PhaseOf(n) = "complete" /\ n.sent = k.sent
    \/ /\ PhaseOf(k) = "verify" /\ PhaseOf(n) = "verify"
       /\ k.sent < MaxCycles /\ n.sent = k.sent + 1
    \/ /\ PhaseOf(k) = "verify" /\ PhaseOf(n) = "giveup"
       /\ k.sent = MaxCycles /\ n.sent = k.sent

LEMMA StepsArePromised ==
    ASSUME NEW k \in Job, Paced(k), NEW n, StepsTo(k, n)
    PROVE  Promised(k, n)
<1>1. n \in Job
  BY StepsKeepPace
<1>2. /\ k.pc \in {"none", "look", "send"} => PhaseOf(k) = "command"
      /\ k.pc \in {"ping", "resend"} => PhaseOf(k) = "verify"
      /\ n.pc \in {"none", "look", "send"} => PhaseOf(n) = "command"
      /\ n.pc \in {"ping", "resend"} => PhaseOf(n) = "verify"
      /\ n.pc \in {"complete", "giveup"} => PhaseOf(n) = n.pc
  BY <1>1, PhaseOfAll
<1> USE BayAssumption DEF Job, StepsTo
<1>3. CASE k.pc \in {"none", "look"}
  <2>1. n.pc \in {"look", "send"} /\ n.sent = k.sent
    BY <1>3
  <2> QED
    BY <1>2, <1>3, <2>1 DEF Promised
<1>4. CASE k.pc = "send"
  <2>1. n.pc \in {"ping", "giveup"} /\ n.sent = 1
    BY <1>4
  <2> QED
    BY <1>2, <1>4, <2>1 DEF Promised
<1>5. CASE k.pc = "ping"
  <2>1. /\ n.sent = k.sent /\ k.sent = k.cycle
        /\ \/ n.pc \in {"ping", "resend", "complete"}
           \/ n.pc = "giveup" /\ k.cycle = MaxCycles
    BY <1>5 DEF Paced
  <2> QED
    BY <1>2, <1>5, <2>1 DEF Promised
<1>6. CASE k.pc = "resend"
  <2>1. n.pc = "ping" /\ n.sent = k.sent + 1 /\ k.sent < MaxCycles
    BY <1>6 DEF Paced
  <2> QED
    BY <1>2, <1>6, <2>1 DEF Promised
<1> QED
  BY <1>3, <1>4, <1>5, <1>6

Phases == [o \in Orders |-> PhaseOf(job[o])]
Commands == [o \in Orders |-> job[o].sent]

LEMMA InitImplements == Init => Promise!Init
BY DEF Init, Promise!Init, NoJob

LEMMA NextImplements ==
    ASSUME StartInv, [Next]_vars
    PROVE  [Promise!Next]_(Promise!vars)
<1>0. /\ TypeOK /\ (\A o \in Orders : Paced(job[o]))
      /\ job \in [Orders -> Job]
  BY DEF StartInv, TypeOK
<1>1. CASE UNCHANGED job
  BY <1>1 DEF Promise!vars
<1>2. ASSUME NEW o \in Orders, Create(o) \/ JobStep(o)
      PROVE  Promise!Next \/ UNCHANGED Promise!vars
  <2>1. PICK n : StepsTo(job[o], n) /\ job' = [job EXCEPT ![o] = n]
    BY <1>0, <1>2, JobsStep
  <2>2. Promised(job[o], n)
    BY <1>0, <2>1, StepsArePromised
  <2>3. /\ Phases' = [Phases EXCEPT ![o] = PhaseOf(n)]
        /\ Commands' = [Commands EXCEPT ![o] = n.sent]
        /\ Phases[o] = PhaseOf(job[o]) /\ Commands[o] = job[o].sent
    BY <1>0, <2>1 DEF Phases, Commands
  <2>4. CASE PhaseOf(n) = PhaseOf(job[o]) /\ n.sent = job[o].sent
    <3>1. UNCHANGED <<Phases, Commands>>
      BY <2>3, <2>4 DEF Phases, Commands
    <3> QED
      BY <3>1 DEF Promise!vars, Phases, Commands, PhaseOf
  <2>5. CASE /\ Phases[o] = "command" /\ n.sent = 1
             /\ PhaseOf(n) \in {"verify", "giveup"}
    <3>1. Promise!Command(o)
      BY <2>3, <2>5 DEF Promise!Command, Phases, Commands, PhaseOf
    <3> QED
      BY <3>1 DEF Promise!Next
  <2>6. CASE Phases[o] = "verify" /\ PhaseOf(n) = "complete" /\ n.sent = job[o].sent
    <3>1. Commands' = Commands
      BY <2>3, <2>6 DEF Commands
    <3>2. Promise!Seen(o)
      BY <2>3, <2>6, <3>1 DEF Promise!Seen, Phases, Commands, PhaseOf
    <3> QED
      BY <3>2 DEF Promise!Next
  <2>7. CASE /\ Phases[o] = "verify" /\ PhaseOf(n) = "verify"
             /\ job[o].sent < MaxCycles /\ n.sent = job[o].sent + 1
    <3>1. Phases' = Phases
      BY <2>3, <2>7 DEF Phases
    <3>2. Promise!Repeat(o)
      BY <2>3, <2>7, <3>1 DEF Promise!Repeat, Phases, Commands, PhaseOf
    <3> QED
      BY <3>2 DEF Promise!Next
  <2>8. CASE /\ Phases[o] = "verify" /\ PhaseOf(n) = "giveup"
             /\ job[o].sent = MaxCycles /\ n.sent = job[o].sent
    <3>1. Commands' = Commands
      BY <2>3, <2>8 DEF Commands
    <3>2. Promise!GiveUp(o)
      BY <2>3, <2>8, <3>1 DEF Promise!GiveUp, Phases, Commands, PhaseOf
    <3> QED
      BY <3>2 DEF Promise!Next
  <2> QED
    BY <2>2, <2>3, <2>4, <2>5, <2>6, <2>7, <2>8 DEF Promised
<1> QED
  BY <1>1, <1>2, NextSplit, BayLeavesJobs DEF vars

\* Whatever the network and the bay do, the pings and resends of every job
\* implement the promise the order flow counts on: the recursion over cycles
\* sends one command per cycle, at most MAX_RETRY_CYCLES of them.
THEOREM ImplementsThePromise == Spec => KeepsThePromise
<1>1. StartInv /\ [Next]_vars => [Promise!Next]_(Promise!vars)
  BY NextImplements
<1> QED
  BY Inductive, InitImplements, <1>1, PTL DEF Spec, KeepsThePromise, Promise!Spec

=============================================================================
