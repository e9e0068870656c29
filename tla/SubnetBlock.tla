---------------------------- MODULE SubnetBlock ----------------------------
(***************************************************************************)
(* The list of blocked subnets and the ban of addresses that ask for too   *)
(* many one-time codes.  The list is one object in S3, written by an       *)
(* operator and by every server; a server works on a copy in its memory,   *)
(* which it replaces by the object every half minute.  Requests of an      *)
(* address are counted in Redis for 900 seconds; the one that reaches the  *)
(* threshold adds the address to the copy of its server and writes that    *)
(* whole copy over the object.                                             *)
(*                                                                         *)
(* A request is cut at its awaits: INCR, EXPIRE, PUT.  Its guard and the   *)
(* look at the list before INCR are one step.  The ban is switched on and  *)
(* Redis is configured; without either every request that passes the guard *)
(* is let through.                                                         *)
(***************************************************************************)
EXTENDS Naturals, FiniteSets

CONSTANTS
    Servers,
    Requests,        \* concurrent requests for a code
    Addresses,       \* IPv4 addresses of clients
    Mapped,          \* those a server sees as ::ffff:a.b.c.d
    Ranges,          \* wider subnets, short of /0; each covers every address
    Threshold,       \* OTP_AUTOBAN_IP_PER_15M, at least 1
    OperatorLists,   \* what an operator may put into the object
    MaxStarts, MaxUpsets   \* bounds on requests, and on edits and faults

Cidrs == Addresses \cup Ranges       \* an address stands for its /32

Lists == [enabled: BOOLEAN, subnets: SUBSET Cidrs]
NoList == [enabled |-> FALSE, subnets |-> {}]

ASSUME SetsAssumption == Servers # {} /\ Addresses # {}
ASSUME AddressesAssumption == Mapped \subseteq Addresses
ASSUME RangesAssumption == Ranges \cap Addresses = {}
ASSUME ThresholdAssumption == Threshold \in Nat \ {0}
ASSUME ListsAssumption == OperatorLists \subseteq Lists
ASSUME BoundsAssumption ==
    MaxStarts \in Nat /\ MaxUpsets \in Nat

VARIABLES
    s3,          \* the servers are configured with S3
    object,      \* the object in S3, if there is one
    config,      \* config[s]: the list in the memory of s
    loads,       \* loads[s]: objects s has been sent and not applied yet
    counter,     \* counter[a]: the key autoban:otp:ip:900:a
    req,         \* req[r]: a request
    past,        \* past[a]: what became of the requests of a
    spent        \* requests so far, and edits and faults

vars == <<s3, object, config, loads, counter, req, past, spent>>

Objects == [there: BOOLEAN, list: Lists]

Counter == [n: Nat, expires: BOOLEAN]
NoCounter == [n |-> 0, expires |-> FALSE]

Request == [pc: {"idle", "incr", "expire", "put"}, server: Servers,
            address: Addresses, n: Nat, body: Lists]

\* Requests let through, counters started, calls that failed, requests of the
\* last 900 seconds, and the reasons for which the address may be listed.
Past == [passed: Nat, windows: Nat, failed: Nat, recent: Nat,
         reasons: SUBSET {"operator", "asked", "undated", "resent"}]

(***************************************************************************)
(* Every variable has its type; only the first request of a counter dates  *)
(* it, and a request that writes the list writes its own address with it.  *)
(***************************************************************************)
TypeOK ==
    /\ s3 \in BOOLEAN
    /\ object \in Objects
    /\ config \in [Servers -> Lists]
    /\ loads \in [Servers -> SUBSET Objects]
    /\ counter \in [Addresses -> Counter]
    /\ req \in [Requests -> Request]
    /\ past \in [Addresses -> Past]
    /\ spent \in [starts: Nat, upsets: Nat]
    /\ \A r \in Requests :
        /\ req[r].pc = "expire" => req[r].n = 1
        /\ req[r].pc = "put" => req[r].address \in req[r].body.subnets

Idle == [pc |-> "idle", server |-> CHOOSE s \in Servers : TRUE,
         address |-> CHOOSE a \in Addresses : TRUE, n |-> 0, body |-> NoList]

Blameless == [passed |-> 0, windows |-> 0, failed |-> 0, recent |-> 0,
              reasons |-> {}]

\* With or without S3; the servers have started on an object that is not there.
Init ==
    /\ s3 \in BOOLEAN
    /\ object = [there |-> FALSE, list |-> NoList]
    /\ config = [s \in Servers |-> NoList]
    /\ loads = [s \in Servers |-> {}]
    /\ counter = [a \in Addresses |-> NoCounter]
    /\ req = [r \in Requests |-> Idle]
    /\ past = [a \in Addresses |-> Blameless]
    /\ spent = [starts |-> 0, upsets |-> 0]

\* A call fails, a process stops, or an operator writes: within one bound.
Upset ==
    /\ spent.upsets < MaxUpsets
    /\ spent' = [spent EXCEPT !.upsets = @ + 1]

----------------------------------------------------------------------------
(* A request for a code *)

At(r, pc) == req[r].pc = pc
Ends(r) == req' = [req EXCEPT ![r] = Idle]

\* isIpInCidr reads an address that is not in dotted form as another one, so
\* the guard lets a mapped address through whatever the list says.
Denied(s, a) ==
    /\ config[s].enabled
    /\ a \notin Mapped
    /\ config[s].subnets \cap ({a} \cup Ranges) # {}

\* The guard, and the look at the list that starts registerOtpIpAndMaybeBan:
\* an address that is listed is refused there, whether the list is enabled or
\* not.  A request that is refused changes nothing.
Arrive(r, s, a) ==
    /\ At(r, "idle")
    /\ spent.starts < MaxStarts
    /\ ~Denied(s, a)
    /\ a \notin config[s].subnets
    /\ spent' = [spent EXCEPT !.starts = @ + 1]
    /\ req' = [req EXCEPT ![r] = [Idle EXCEPT !.pc = "incr", !.server = s,
                                              !.address = a]]
    /\ UNCHANGED <<s3, object, config, loads, counter, past>>

\* Mutant: the threshold itself is let through.
BelowOrAt(n) == n <= Threshold

Below(n) == n < Threshold

\* From the threshold on its address is listed, and the list is switched on,
\* even when an operator had switched it off.
Banning(list, a) ==
    [enabled |-> TRUE, subnets |-> list.subnets \cup {a}]

\* Below the threshold the n-th request goes on to its code.  Otherwise its
\* address is banned; without S3 there is nothing to wait for.
Decided(r, n, counted) ==
    LET s == req[r].server
        a == req[r].address
        list == Banning(config[s], a)
    IN  \/ /\ Below(n)
           /\ past' = [counted EXCEPT ![a].passed = @ + 1]
           /\ Ends(r)
           /\ UNCHANGED config
        \/ /\ ~Below(n)
           /\ past' = counted
           /\ config' = [config EXCEPT ![s] = list]
           /\ \/ s3 /\ req' = [req EXCEPT ![r].pc = "put", ![r].body = list]
              \/ ~s3 /\ Ends(r)

\* Mutant: every request dates the counter.
DatesAlways(n) == TRUE

\* Only the first one does.
Dates(n) == n = 1

\* The request in the history of its address.
Counted(a, n) ==
    LET recent == past[a].recent + 1
        asked == IF recent >= Threshold THEN {"asked"} ELSE {}
    IN  [past EXCEPT ![a].recent = recent,
                     ![a].windows = IF n = 1 THEN @ + 1 ELSE @,
                     ![a].reasons = @ \cup asked]

Incr(r) ==
    LET a == req[r].address
        n == counter[a].n + 1
    IN  /\ At(r, "incr")
        /\ counter' = [counter EXCEPT ![a].n = n]
        /\ \/ /\ Dates(n)
              /\ req' = [req EXCEPT ![r].pc = "expire", ![r].n = n]
              /\ past' = Counted(a, n)
              /\ UNCHANGED config
           \/ /\ ~Dates(n)
              /\ Decided(r, n, Counted(a, n))
        /\ UNCHANGED <<s3, object, loads, spent>>

\* Mutant: the counter is never dated.
DatedNever(c) == c

Dated(c) == [c EXCEPT !.expires = TRUE]

Expire(r) ==
    /\ At(r, "expire")
    /\ counter' = [counter EXCEPT ![req[r].address] = Dated(@)]
    /\ Decided(r, req[r].n, past)
    /\ UNCHANGED <<s3, object, loads, spent>>

\* The copy its server had then replaces the object, whatever is in it now.
Put(r) ==
    /\ At(r, "put")
    /\ object' = [there |-> TRUE, list |-> req[r].body]
    /\ Ends(r)
    /\ UNCHANGED <<s3, config, loads, counter, past, spent>>

\* The answer to an INCR that counted is lost.  The client sends INCR again, or
\* gives up and the request is let through; nobody dates a counter that began so.
IncrUnanswered(r) ==
    LET a == req[r].address
        n == counter[a].n + 1
        undated == IF n = 1 THEN {"undated"} ELSE {}
    IN  /\ At(r, "incr")
        /\ Upset
        /\ counter' = [counter EXCEPT ![a].n = n]
        /\ \/ /\ UNCHANGED req
              /\ past' = [past EXCEPT ![a].windows = IF n = 1 THEN @ + 1 ELSE @,
                                     ![a].reasons = @ \cup undated \cup {"resent"}]
           \/ /\ Ends(r)
              /\ past' = [Counted(a, n) EXCEPT ![a].passed = @ + 1,
                                              ![a].failed = @ + 1,
                                              ![a].reasons = @ \cup undated]
        /\ UNCHANGED <<s3, object, config, loads>>

\* The counter is dated, but the answer to EXPIRE is lost for good.
ExpireUnanswered(r) ==
    LET a == req[r].address
    IN  /\ At(r, "expire")
        /\ Upset
        /\ counter' = [counter EXCEPT ![a] = Dated(@)]
        /\ past' = [past EXCEPT ![a].passed = @ + 1, ![a].failed = @ + 1]
        /\ Ends(r)
        /\ UNCHANGED <<s3, object, config, loads>>

\* A call fails and the request is let through: before INCR, without EXPIRE, or
\* with a list that S3 may have taken or not.
CallFails(r) ==
    LET a == req[r].address
        undated == IF At(r, "expire") THEN {"undated"} ELSE {}
    IN  /\ \/ At(r, "incr") \/ At(r, "expire")
           \/ At(r, "put")
        /\ Upset
        /\ \/ UNCHANGED object
           \/ /\ At(r, "put")
              /\ object' = [there |-> TRUE, list |-> req[r].body]
        /\ past' = [past EXCEPT ![a].passed = @ + 1, ![a].failed = @ + 1,
                                ![a].reasons = @ \cup undated]
        /\ Ends(r)
        /\ UNCHANGED <<s3, config, loads, counter>>

RequestStep(r) ==
    \/ \E s \in Servers, a \in Addresses : Arrive(r, s, a)
    \/ Incr(r) \/ Expire(r) \/ Put(r)
    \/ IncrUnanswered(r) \/ ExpireUnanswered(r) \/ CallFails(r)

----------------------------------------------------------------------------
(* The servers *)

\* The timer asks S3 for the object; the answer is applied later, but before
\* the timer fires again.
StartLoad(s) ==
    /\ s3
    /\ loads[s] = {}
    /\ loads' = [loads EXCEPT ![s] = @ \cup {object}]
    /\ UNCHANGED <<s3, object, config, counter, req, past, spent>>

\* A load that brings nothing keeps the list, and switches an empty one off.
Kept(list) == IF list.subnets = {} THEN NoList ELSE list

\* Mutant: a load brings the subnets and leaves the switch as it is.
SwitchKept(list, o) ==
    IF o.there THEN [o.list EXCEPT !.enabled = list.enabled] ELSE Kept(list)

Replaced(list, o) == IF o.there THEN o.list ELSE Kept(list)

ApplyLoad(s) ==
    /\ \E o \in loads[s] :
        /\ loads' = [loads EXCEPT ![s] = @ \ {o}]
        /\ config' = [config EXCEPT ![s] = Replaced(@, o)]
    /\ UNCHANGED <<s3, object, counter, req, past, spent>>

LoadFails(s) ==
    /\ s3
    /\ Upset
    /\ config' = [config EXCEPT ![s] = Kept(@)]
    /\ UNCHANGED <<s3, object, loads, counter, req, past>>

\* The process stops with its requests and its memory; another one starts, and
\* loads the object before it listens, if it can.
Restart(s) ==
    LET lost == {r \in Requests : req[r].pc # "idle" /\ req[r].server = s}
        undated == {req[r].address : r \in {x \in lost : At(x, "expire")}}
    IN  /\ Upset
        /\ \/ config' = [config EXCEPT ![s] = NoList]
           \/ /\ s3
              /\ config' = [config EXCEPT ![s] = Replaced(NoList, object)]
        /\ loads' = [loads EXCEPT ![s] = {}]
        /\ req' = [r \in Requests |-> IF r \in lost THEN Idle ELSE req[r]]
        /\ past' = [a \in Addresses |->
              IF a \in undated
              THEN [past[a] EXCEPT !.reasons = @ \cup {"undated"}]
              ELSE past[a]]
        /\ UNCHANGED <<s3, object, counter>>

ServerStep(s) == StartLoad(s) \/ ApplyLoad(s) \/ LoadFails(s) \/ Restart(s)

----------------------------------------------------------------------------
(* The environment *)

\* An operator writes the object.
Edit(list) ==
    /\ Upset
    /\ object' = [there |-> TRUE, list |-> list]
    /\ past' = [a \in Addresses |->
          IF a \in list.subnets
          THEN [past[a] EXCEPT !.reasons = @ \cup {"operator"}]
          ELSE past[a]]
    /\ UNCHANGED <<s3, config, loads, counter, req>>

\* 900 seconds pass for a counter; it goes, if it was dated.  No request waits
\* that long for EXPIRE.
Lapse(a) ==
    /\ past[a].recent > 0
    /\ \A r \in Requests : At(r, "expire") => req[r].address # a
    /\ past' = [past EXCEPT ![a].recent = 0]
    /\ counter' = [counter EXCEPT ![a] = IF @.expires THEN NoCounter ELSE @]
    /\ UNCHANGED <<s3, object, config, loads, req, spent>>

Next ==
    \/ \E r \in Requests : RequestStep(r)
    \/ \E s \in Servers : ServerStep(s)
    \/ \E list \in OperatorLists : Edit(list)
    \/ \E a \in Addresses : Lapse(a)

\* The timer of a server that runs keeps firing, and a call comes back.
Fairness == \A s \in Servers : WF_vars(StartLoad(s)) /\ WF_vars(ApplyLoad(s))

Spec == Init /\ [][Next]_vars /\ Fairness

----------------------------------------------------------------------------
(* What the ban promises *)

(***************************************************************************)
(* Whatever becomes of its bans (overwritten by another server, replaced   *)
(* by an older object, lost in a restart), an address gets fewer codes     *)
(* than the threshold out of every life of its counter, and one more for   *)
(* every call that fails.                                                  *)
(***************************************************************************)
PassesBounded ==
    \A a \in Addresses :
        past[a].passed <= (Threshold - 1) * past[a].windows + past[a].failed

\* Every list there is: in memory, stored, on its way to or from S3.
ListsAbout ==
    {config[s] : s \in Servers} \cup {object.list}
        \cup {o.list : o \in UNION {loads[s] : s \in Servers}}
        \cup {req[r].body : r \in {x \in Requests : At(x, "put")}}

(***************************************************************************)
(* No list holds an address that no operator listed and that never asked   *)
(* often enough within 900 seconds, unless the EXPIRE of its counter was   *)
(* lost, so that requests of any two days add up, or an INCR was sent      *)
(* again after it had counted, so that one request counts twice.           *)
(***************************************************************************)
BansAreEarned ==
    \A list \in ListsAbout, a \in Addresses :
        a \in list.subnets => past[a].reasons # {}

(***************************************************************************)
(* Once requests, edits and faults have ended, every server comes to work  *)
(* on the list that is stored and stays with it: bans made in one memory   *)
(* only, and older objects still on their way, do not last.                *)
(***************************************************************************)
ServersConverge ==
    <>[](s3 /\ object.there => \A s \in Servers : config[s] = object.list)

=============================================================================
