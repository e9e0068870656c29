---------------------------- MODULE CardBenefits ----------------------------
(***************************************************************************)
(* What a card may use a limited number of times: a promo code on a paid   *)
(* order, the free vacuums of a day, and a promotion.  Each is a check, a  *)
(* use and a record of the use, with awaits in between and no transaction  *)
(* around them, so requests of the same card overlap at every one of them. *)
(*                                                                         *)
(* One card, one promo code and one promotion: rows of other cards and     *)
(* codes are never read together with these.                               *)
(***************************************************************************)
EXTENDS Naturals, FiniteSets

CONSTANTS
    Requests,      \* clients of the card that may ask at the same time
    UsageAmount,   \* how often the card may use the promo code
    VacuumLimit,   \* vacuumFreeLimit of the card, per day
    Parallel,      \* vacuum orders a card has under way at once, at most
    MaxErrors, MaxCrashes   \* bounds on the faults

ASSUME RequestsAssumption == IsFiniteSet(Requests)
ASSUME LimitsAssumption ==
    /\ UsageAmount \in Nat /\ VacuumLimit \in Nat /\ Parallel \in Nat \ {0}
    /\ MaxErrors \in Nat /\ MaxCrashes \in Nat

VARIABLES
    active,    \* the promo code is active and not expired
    usage,     \* the rows of PROMO_CODE_USAGE
    discounts, \* orders saved with the discount
    vacuums,   \* free vacuum orders that wait, and those completed today
    granted,   \* how often the promotion was granted
    marks,     \* rows that say the promotion was used
    req,       \* req[r]: a client's request, and the code it was told is valid
    spent      \* faults that have happened

vars == <<active, usage, discounts, vacuums, granted, marks, req, spent>>

----------------------------------------------------------------------------
(* Types *)

UsageRow == [id: Nat, by: Requests, number: Nat]

Request == [pc: {"idle", "validate", "accepted", "read", "record", "save",
                 "count", "saveFree", "used", "grant", "mark"},
            saw: Nat]
Idle == [pc |-> "idle", saw |-> 0]

Vacuums == [waiting: Nat, completed: Nat]

TypeOK ==
    /\ active \in BOOLEAN
    /\ usage \subseteq UsageRow
    /\ discounts \in Nat
    /\ vacuums \in Vacuums
    /\ granted \in Nat
    /\ marks \in Nat
    /\ req \in [Requests -> Request]
    /\ spent \in [errors: Nat, crashes: Nat]

Init ==
    /\ active = TRUE
    /\ usage = {}
    /\ discounts = 0
    /\ vacuums = [waiting |-> 0, completed |-> 0]
    /\ granted = 0
    /\ marks = 0
    /\ req = [r \in Requests |-> Idle]
    /\ spent = [errors |-> 0, crashes |-> 0]

At(r, pc) == req[r].pc = pc
Goes(r, pc) == req' = [req EXCEPT ![r].pc = pc]
Ends(r) == req' = [req EXCEPT ![r] = Idle]
Among(pcs) == {r \in Requests : req[r].pc \in pcs}

\* findMaxUsageByCard: the number of the row with the highest one, or none.
Numbers == {0} \cup {u.number : u \in usage}
IsMaxUsage(n) == \A u \in usage : u.number <= n

----------------------------------------------------------------------------
(* Promo codes: POST /order/promo/validate, then POST /order/create *)

\* An inactive or expired code is refused before its usage is read.
Validate(r) ==
    /\ At(r, "idle")
    /\ active
    /\ Goes(r, "validate")
    /\ UNCHANGED <<active, usage, discounts, vacuums, granted, marks, spent>>

\* Mutant: one use more than the code allows.
UsableOnceMore(n) == n <= UsageAmount

Usable(n) == n < UsageAmount

\* The code may also be refused for its location.
ValidateUsage(r) ==
    /\ At(r, "validate")
    /\ \/ \E n \in Numbers : IsMaxUsage(n) /\ Usable(n) /\ Goes(r, "accepted")
       \/ Ends(r)
    /\ UNCHANGED <<active, usage, discounts, vacuums, granted, marks, spent>>

\* The app orders with a code it was told is valid, any time later.  The order
\* is created without looking at the code's validity again.
CreateDiscounted(r) ==
    /\ At(r, "accepted")
    /\ Goes(r, "read")
    /\ UNCHANGED <<active, usage, discounts, vacuums, granted, marks, spent>>

\* Mutant: a number is left out.
NumberAfterNext(n) == n + 2

NextNumber(n) == n + 1

\* incrementUsage reads the highest number.
ReadUsage(r) ==
    /\ At(r, "read")
    /\ \E n \in Numbers : /\ IsMaxUsage(n)
                          /\ req' = [req EXCEPT ![r].pc = "record", ![r].saw = n]
    /\ UNCHANGED <<active, usage, discounts, vacuums, granted, marks, spent>>

\* Mutant: the usage row is never written.
RecordForgotten(r) == UNCHANGED usage

Record(r) ==
    usage' = usage \cup {[id |-> Cardinality(usage) + 1, by |-> r,
                          number |-> NextNumber(req[r].saw)]}

RecordUsage(r) ==
    /\ At(r, "record")
    /\ Record(r)
    /\ Goes(r, "save")
    /\ UNCHANGED <<active, discounts, vacuums, granted, marks, spent>>

SaveDiscounted(r) ==
    /\ At(r, "save")
    /\ discounts' = discounts + 1
    /\ Ends(r)
    /\ UNCHANGED <<active, usage, vacuums, granted, marks, spent>>

Expire ==
    /\ active
    /\ active' = FALSE
    /\ UNCHANGED <<usage, discounts, vacuums, granted, marks, req, spent>>

----------------------------------------------------------------------------
(* Free vacuums: POST /order/create with a sum of 0 *)

Underway == Cardinality(Among({"count", "saveFree"})) + vacuums.waiting

CreateFree(r) ==
    /\ At(r, "idle")
    /\ Underway < Parallel
    /\ Goes(r, "count")
    /\ UNCHANGED <<active, usage, discounts, vacuums, granted, marks, spent>>

\* Mutant: the comparison is off by one.
RemainsOneMore == vacuums.completed <= VacuumLimit

\* getFreeVacuum counts the completed free vacuums of today.
Remains == vacuums.completed < VacuumLimit

CountVacuums(r) ==
    /\ At(r, "count")
    /\ IF Remains THEN Goes(r, "saveFree") ELSE Ends(r)
    /\ UNCHANGED <<active, usage, discounts, vacuums, granted, marks, spent>>

SaveFree(r) ==
    /\ At(r, "saveFree")
    /\ vacuums' = [vacuums EXCEPT !.waiting = @ + 1]
    /\ Ends(r)
    /\ UNCHANGED <<active, usage, discounts, granted, marks, spent>>

\* Mutant: a job is run whether its order waits or not.
WaitsOrNot == vacuums.waiting >= 0

\* An order whose status is free_processing.
Waits == vacuums.waiting > 0

\* The job of the order completes it or fails it; what its attempts do until
\* then is OrderFlow's.  An order whose job was never queued just waits on.
ServeFree ==
    /\ Waits
    /\ \E served \in {0, 1} :
          vacuums' = [waiting |-> vacuums.waiting - 1,
                      completed |-> vacuums.completed + served]
    /\ UNCHANGED <<active, usage, discounts, granted, marks, req, spent>>

\* A new day in UTC: nothing was completed yet.
Midnight ==
    /\ vacuums.completed > 0
    /\ vacuums' = [vacuums EXCEPT !.completed = 0]
    /\ UNCHANGED <<active, usage, discounts, granted, marks, req, spent>>

----------------------------------------------------------------------------
(* Promotions: POST /promotion/apply *)

Apply(r) ==
    /\ At(r, "idle")
    /\ Goes(r, "used")
    /\ UNCHANGED <<active, usage, discounts, vacuums, granted, marks, spent>>

\* Mutant: the answer of validateUsageByCard is not looked at.
UnusedAlways == TRUE

Unused == marks = 0

CheckUnused(r) ==
    /\ At(r, "used")
    /\ IF Unused THEN Goes(r, "grant") ELSE Ends(r)
    /\ UNCHANGED <<active, usage, discounts, vacuums, granted, marks, spent>>

\* The points of the promotion, or the new type of the card.
Grant(r) ==
    /\ At(r, "grant")
    /\ granted' = granted + 1
    /\ Goes(r, "mark")
    /\ UNCHANGED <<active, usage, discounts, vacuums, marks, spent>>

Mark(r) ==
    /\ At(r, "mark")
    /\ marks' = marks + 1
    /\ Ends(r)
    /\ UNCHANGED <<active, usage, discounts, vacuums, granted, spent>>

----------------------------------------------------------------------------
(* Faults *)

\* A call to the database fails: the request ends where it is.
RequestError(r) ==
    /\ req[r].pc \notin {"idle", "accepted"}
    /\ spent.errors < MaxErrors
    /\ spent' = [spent EXCEPT !.errors = @ + 1]
    /\ Ends(r)
    /\ UNCHANGED <<active, usage, discounts, vacuums, granted, marks>>

\* The server stops: what a client was told it still knows.
Crash ==
    /\ spent.crashes < MaxCrashes
    /\ spent' = [spent EXCEPT !.crashes = @ + 1]
    /\ req' = [r \in Requests |-> IF At(r, "accepted") THEN req[r] ELSE Idle]
    /\ UNCHANGED <<active, usage, discounts, vacuums, granted, marks>>

Next ==
    \/ \E r \in Requests :
          \/ Validate(r) \/ ValidateUsage(r) \/ CreateDiscounted(r)
          \/ ReadUsage(r) \/ RecordUsage(r) \/ SaveDiscounted(r)
          \/ CreateFree(r) \/ CountVacuums(r) \/ SaveFree(r)
          \/ Apply(r) \/ CheckUnused(r) \/ Grant(r) \/ Mark(r)
          \/ RequestError(r)
    \/ Expire \/ ServeFree \/ Midnight \/ Crash

Spec == Init /\ [][Next]_vars

----------------------------------------------------------------------------
(* Properties *)

\* However requests overlap and fail, a client that validates a code before
\* each order uses it UsageAmount times at most.  Clients of one card that do
\* so at the same time may each use it that often: no more, because whatever
\* another client read, the number a client is given is above its own last.
UsageBounded ==
    \A r \in Requests : Cardinality({u \in usage : u.by = r}) <= UsageAmount

\* The usage numbers of a code are 1, 2, 3... without a gap, although each is
\* computed from a highest number that may be out of date.
NumbersHaveNoGap ==
    \A u \in usage : /\ u.number > 0
                     /\ u.number > 1 => \E v \in usage : v.number = u.number - 1

\* Every order with a discount has a usage row of its own, whatever fails.
DiscountsAreRecorded == discounts <= Cardinality(usage)

\* A day has at most the card's limit of free vacuums, and as many more as the
\* card has orders under way beside the one that is counted.
VacuumsBounded ==
    vacuums.completed > 0 => vacuums.completed < VacuumLimit + Parallel

\* A promotion is granted once per request that may run beside the first, and
\* once more for each failure between the grant and its record.
GrantsBounded ==
    granted <= Cardinality(Requests) * (1 + spent.crashes) + spent.errors

=============================================================================
