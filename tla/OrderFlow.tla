------------------------------ MODULE OrderFlow ------------------------------
(***************************************************************************)
(* The life of a car-wash order after it is priced: it is saved, paid      *)
(* through the payment gateway, confirmed by the gateway's webhook, and    *)
(* served by a queued job that sends the start command to the bay.         *)
(*                                                                         *)
(* Every handler is cut at its awaits: what happens between two awaits is  *)
(* one action, and what a handler read before an await is kept in its      *)
(* record (`snap') because the code hands that row back to be saved.  A    *)
(* save is two calls of its own: TypeORM selects the row (`seen') and then *)
(* updates the columns in which the row it was given differs from it.      *)
(* The gateway, the bay and the ledger are external; they are modelled by  *)
(* the answers the code distinguishes.                                     *)
(***************************************************************************)
EXTENDS Naturals, FiniteSets

CONSTANTS
    Orders,          \* rows of ONVI_ORDERS
    Calls,           \* concurrent POST /order/register requests
    Payments,        \* payments the gateway may create
    Hooks,           \* concurrent POST /payment-webhook/webhook requests
    Jobs,            \* slots of the pos-process queue
    None,            \* a null id
    OrderTerms,      \* what a client may order, a subset of Terms
    EditStatuses,    \* statuses sent to POST /order/status/:id
    ConfirmationAlways, \* the gateway's answer always has a confirmation
    RetryCycles,     \* MAX_RETRY_CYCLES of start-pos.use-case.ts
    JobAttempts,     \* attempts of the pos-process queue
    MaxStalls,       \* BullMQ's maxStalledCount
    MaxRequests, MaxParallel, \* bounds on the register and status requests that are
                              \* let in, in all and at once
    MaxCrashes, MaxErrors, MaxDuplicates, MaxEdits  \* bounds on the faults

Statuses == {"created", "payment_processing", "waiting_payment",
             "payment_authorized", "payed", "failed", "completed",
             "canceled", "refunded", "free_processing"}

Terms == [free: BOOLEAN, points: BOOLEAN, cashback: BOOLEAN]

ASSUME NoneAssumption == None \notin Orders \cup Payments
ASSUME TermsAssumption == OrderTerms \subseteq Terms
ASSUME EditAssumption == EditStatuses \subseteq Statuses
ASSUME ConfirmationAssumption == ConfirmationAlways \in BOOLEAN
ASSUME BoundsAssumption ==
    /\ RetryCycles \in Nat \ {0} /\ JobAttempts \in Nat \ {0}
    /\ MaxStalls \in Nat /\ MaxCrashes \in Nat /\ MaxErrors \in Nat
    /\ MaxDuplicates \in Nat /\ MaxEdits \in Nat /\ MaxRequests \in Nat
    /\ MaxParallel \in Nat

VARIABLES
    order,     \* order[o]: the row, as far as a handler changes it
    terms,     \* terms[o]: the columns fixed when the order is created
    creating,  \* free orders saved and not yet put on the queue
    reg,       \* reg[c]: a register-payment request
    payment,   \* payment[p]: the gateway's own record of a payment
    hook,      \* hook[h]: a webhook request
    job,       \* job[j]: a queued or running start-pos job
    edit,      \* the status endpoint's request
    effects,   \* effects[o]: what was done outside the database
    spent,     \* requests and faults so far, against the bounds above
    mixed      \* history: orders whose row a save left as a mix of two writes

vars == <<order, terms, creating, reg, payment, hook, job, edit, effects, spent,
          mixed>>

----------------------------------------------------------------------------
(* Types and null values *)

Row == [status: Statuses \cup {"absent"}, tx: Payments \cup {None}]
NoRow == [status |-> "absent", tx |-> None]

Call == [pc: {"idle", "processing", "charge", "reread", "save", "cancel"},
         order: Orders \cup {None}, snap: Row, fresh: Row,
         seen: Row, pay: Payments \cup {None}]
NoCall == [pc |-> "idle", order |-> None, snap |-> NoRow, fresh |-> NoRow,
           seen |-> NoRow, pay |-> None]

Payment == [state: {"unused", "pending", "succeeded", "canceled"},
            order: Orders \cup {None}, acked: BOOLEAN, refunds: Nat]
NoPayment == [state |-> "unused", order |-> None, acked |-> FALSE, refunds |-> 0]

Hook == [pc: {"idle", "received", "write", "withdraw", "accrue", "enqueue"},
         pay: Payments \cup {None}, event: {"none", "succeeded", "canceled"},
         order: Orders \cup {None}, snap: Row, seen: Row]
NoHook == [pc |-> "idle", pay |-> None, event |-> "none", order |-> None,
           snap |-> NoRow, seen |-> NoRow]

Job == [pc: {"unused", "waiting", "reject", "command", "verify", "refund",
             "refunding", "record", "complete", "fail"},
        order: Orders \cup {None}, snap: Row, seen: Row,
        pay: Payments \cup {None}, cycle: Nat, attempts: Nat, stalls: Nat]
NoJob == [pc |-> "unused", order |-> None, snap |-> NoRow, seen |-> NoRow,
          pay |-> None, cycle |-> 0, attempts |-> 0, stalls |-> 0]

Edit == [pc: {"idle", "save"}, order: Orders \cup {None}, snap: Row, seen: Row,
         status: Statuses \cup {"absent"}]
NoEdit == [pc |-> "idle", order |-> None, snap |-> NoRow, seen |-> NoRow,
           status |-> "absent"]

\* How often points were withdrawn, cashback accrued, a start command sent and
\* a refund recorded.
Effects == [withdrawn: Nat, accrued: Nat, sent: Nat, records: Nat]
NoEffects == [withdrawn |-> 0, accrued |-> 0, sent |-> 0, records |-> 0]

\* `late': payments a fault ended a delivery of after their notice was answered.
Spent == [requests: Nat, crashes: Nat, errors: Nat, duplicates: Nat, edits: Nat,
          late: SUBSET Payments]

TypeOK ==
    /\ order \in [Orders -> Row]
    /\ terms \in [Orders -> Terms]
    /\ creating \subseteq Orders
    /\ reg \in [Calls -> Call]
    /\ payment \in [Payments -> Payment]
    /\ hook \in [Hooks -> Hook]
    /\ job \in [Jobs -> Job]
    /\ edit \in Edit
    /\ effects \in [Orders -> Effects]
    /\ spent \in Spent
    /\ mixed \subseteq Orders

Init ==
    /\ order = [o \in Orders |-> NoRow]
    /\ terms = [o \in Orders |-> [free |-> FALSE, points |-> FALSE,
                                  cashback |-> FALSE]]
    /\ creating = {}
    /\ reg = [c \in Calls |-> NoCall]
    /\ payment = [p \in Payments |-> NoPayment]
    /\ hook = [h \in Hooks |-> NoHook]
    /\ job = [j \in Jobs |-> NoJob]
    /\ edit = NoEdit
    /\ effects = [o \in Orders |-> NoEffects]
    /\ spent = [requests |-> 0, crashes |-> 0, errors |-> 0, duplicates |-> 0, edits |-> 0,
                late |-> {}]
    /\ mixed = {}

----------------------------------------------------------------------------
(* Helpers *)

\* The UPDATE of a save: the columns in which `row' differs from the row the save
\* selected; the others keep what they hold by now.
Written(row, seen, now) ==
    [status |-> IF row.status # seen.status THEN row.status ELSE now.status,
     tx     |-> IF row.tx # seen.tx THEN row.tx ELSE now.tx]

\* orderRepository.update, once it selected `seen' (a row that exists, so never
\* NoRow, which stands for a save that has not selected yet).
Save(o, row, seen) ==
    LET written == Written(row, seen, order[o])
    IN  /\ seen # NoRow
        /\ order' = [order EXCEPT ![o] = written]
        /\ mixed' = IF written = row THEN mixed ELSE mixed \cup {o}

Queued(o) == [NoJob EXCEPT !.pc = "waiting", !.order = o]

\* Mutant: the job is never added.
AddJobForgotten(o) == UNCHANGED job

\* dataQueue.add('pos-process', {orderId}): no job id, so nothing is merged.
AddJob(o) ==
    \E j \in Jobs : /\ job[j].pc = "unused"
                    /\ job' = [job EXCEPT ![j] = Queued(o)]

UnderWay == Cardinality({c \in Calls : reg[c].pc # "idle"})
                + (IF edit.pc = "idle" THEN 0 ELSE 1)

\* One more register or status request is let in.
RequestWithinBounds ==
    UnderWay < MaxParallel /\ spent.requests < MaxRequests

\* The payments that the requests hs speak of and that need no notice any more.
Answered(hs) == {p \in Payments : payment[p].acked /\ \E h \in hs : hook[h].pay = p}

\* A call to the database, the ledger, Redis or the gateway fails.
FaultyCall ==
    /\ spent.errors < MaxErrors
    /\ spent' = [spent EXCEPT !.errors = @ + 1]

----------------------------------------------------------------------------
(* POST /order/create: the saved row, and the job of a free vacuum order *)

CreateOrder(o, t) ==
    /\ order[o].status = "absent"
    /\ order' = [order EXCEPT ![o] = [NoRow EXCEPT
                    !.status = IF t.free THEN "free_processing" ELSE "created"]]
    /\ terms' = [terms EXCEPT ![o] = t]
    /\ creating' = IF t.free THEN creating \cup {o} ELSE creating
    /\ UNCHANGED <<reg, payment, hook, job, edit, effects, spent, mixed>>

EnqueueFree(o) ==
    /\ o \in creating
    /\ AddJob(o)
    /\ creating' = creating \ {o}
    /\ UNCHANGED <<order, mixed, terms, reg, payment, hook, edit, effects, spent>>

\* queue.add throws: the request fails and the row stays free_processing.
EnqueueFreeFails(o) ==
    /\ o \in creating
    /\ FaultyCall
    /\ creating' = creating \ {o}
    /\ UNCHANGED <<order, mixed, terms, reg, payment, hook, job, edit, effects>>

----------------------------------------------------------------------------
(* POST /order/register *)

\* Mutant: a started payment may be registered again.
RegistrableTwice(row) == row.status \in {"created", "waiting_payment"}

Registrable(row) == row.status = "created"

\* A request for an order in any other status is refused without a change.
RegisterRead(c, o) ==
    /\ reg[c].pc = "idle"
    /\ Registrable(order[o])
    /\ RequestWithinBounds
    /\ spent' = [spent EXCEPT !.requests = @ + 1]
    /\ reg' = [reg EXCEPT ![c] = [NoCall EXCEPT !.pc = "processing",
                                                !.order = o, !.snap = order[o]]]
    /\ UNCHANGED <<order, mixed, terms, creating, payment, hook, job, edit, effects>>

\* A save begins: it selects the row it will compare with.
RegisterSelect(c) ==
    /\ reg[c].pc \in {"processing", "save", "cancel"}
    /\ reg[c].seen = NoRow
    /\ reg' = [reg EXCEPT ![c].seen = order[reg[c].order]]
    /\ UNCHANGED <<order, mixed, terms, creating, payment, hook, job, edit, effects,
                   spent>>

RegisterProcessing(c) ==
    /\ reg[c].pc = "processing"
    /\ Save(reg[c].order, [reg[c].snap EXCEPT !.status = "payment_processing"],
            reg[c].seen)
    /\ reg' = [reg EXCEPT ![c].pc = "charge", ![c].seen = NoRow]
    /\ UNCHANGED <<terms, creating, payment, hook, job, edit, effects, spent>>

\* The gateway accepts the charge, refuses it, or accepts it while the answer
\* is lost on the way back.
RegisterCharge(c) ==
    /\ reg[c].pc = "charge"
    /\ \/ \E p \in Payments :
            /\ payment[p].state = "unused"
            /\ payment' = [payment EXCEPT ![p] = [@ EXCEPT
                              !.state = "pending", !.order = reg[c].order]]
            /\ \/ /\ reg' = [reg EXCEPT ![c].pc = "reread", ![c].pay = p]
                  /\ UNCHANGED spent
               \/ /\ FaultyCall
                  /\ reg' = [reg EXCEPT ![c].pc = "cancel"]
       \/ /\ reg' = [reg EXCEPT ![c].pc = "cancel"]
          /\ UNCHANGED <<payment, spent>>
    /\ UNCHANGED <<order, mixed, terms, creating, hook, job, edit, effects>>

RegisterReread(c) ==
    /\ reg[c].pc = "reread"
    /\ reg' = [reg EXCEPT ![c].pc = "save", ![c].fresh = order[reg[c].order]]
    /\ UNCHANGED <<order, mixed, terms, creating, payment, hook, job, edit, effects,
                   spent>>

\* The catch is entered: of what the request holds, it uses the first snapshot.
Caught(k) == [NoCall EXCEPT !.pc = "cancel", !.order = k.order, !.snap = k.snap]

\* Reading confirmation.confirmation_url of an answer that has no confirmation
\* throws, inside the try, after the order was saved.
RegisterSave(c) ==
    /\ reg[c].pc = "save"
    /\ Save(reg[c].order, [reg[c].fresh EXCEPT !.status = "waiting_payment",
                                               !.tx = reg[c].pay],
            reg[c].seen)
    /\ \/ reg' = [reg EXCEPT ![c] = NoCall]
       \/ /\ ~ConfirmationAlways
          /\ reg' = [reg EXCEPT ![c] = Caught(@)]
    /\ UNCHANGED <<terms, creating, payment, hook, job, edit, effects, spent>>

\* The catch writes the FIRST snapshot back: its transactionId with it.
RegisterCancel(c) ==
    /\ reg[c].pc = "cancel"
    /\ Save(reg[c].order, [reg[c].snap EXCEPT !.status = "canceled"], reg[c].seen)
    /\ reg' = [reg EXCEPT ![c] = NoCall]
    /\ UNCHANGED <<terms, creating, payment, hook, job, edit, effects, spent>>

RegisterError(c) ==
    /\ FaultyCall
    /\ \/ /\ reg[c].pc \in {"processing", "reread", "save"}
          /\ reg' = [reg EXCEPT ![c] = Caught(@)]
       \/ /\ reg[c].pc = "cancel"
          /\ reg' = [reg EXCEPT ![c] = NoCall]
    /\ UNCHANGED <<order, mixed, terms, creating, payment, hook, job, edit, effects>>

RegisterStep(c) ==
    \/ RegisterSelect(c) \/ RegisterProcessing(c) \/ RegisterCharge(c)
    \/ RegisterReread(c) \/ RegisterSave(c) \/ RegisterCancel(c)

----------------------------------------------------------------------------
(* The payment gateway *)

PaymentResolves(p) ==
    /\ payment[p].state = "pending"
    /\ \E s \in {"succeeded", "canceled"} :
          payment' = [payment EXCEPT ![p].state = s]
    /\ UNCHANGED <<order, mixed, terms, creating, reg, hook, job, edit, effects, spent>>

\* A notice is delivered until it is answered with 200, one at a time; a
\* duplicate arrives beside another delivery or after the answer.
Deliver(h, p) ==
    /\ hook[h].pc = "idle"
    /\ payment[p].state \in {"succeeded", "canceled"}
    /\ IF payment[p].acked \/ \E g \in Hooks : hook[g].pay = p
       THEN /\ spent.duplicates < MaxDuplicates
            /\ spent' = [spent EXCEPT !.duplicates = @ + 1]
       ELSE UNCHANGED spent
    /\ hook' = [hook EXCEPT ![h] = [NoHook EXCEPT !.pc = "received", !.pay = p,
                                                  !.event = payment[p].state]]
    /\ UNCHANGED <<order, mixed, terms, creating, reg, payment, job, edit, effects>>

----------------------------------------------------------------------------
(* POST /payment-webhook/webhook *)

\* Mutants: the answer 200 does not reach the gateway; every answer is 200.
AcknowledgeLost(h) == hook' = [hook EXCEPT ![h] = NoHook] /\ UNCHANGED payment
UnansweredHidden(h) ==
    /\ payment' = [payment EXCEPT ![hook[h].pay].acked = TRUE]
    /\ hook' = [hook EXCEPT ![h] = NoHook]

Acknowledge(h) ==
    /\ payment' = [payment EXCEPT ![hook[h].pay].acked = TRUE]
    /\ hook' = [hook EXCEPT ![h] = NoHook]

\* The request ends with an error, so the gateway will repeat the notice.
Unanswered(h) == hook' = [hook EXCEPT ![h] = NoHook] /\ UNCHANGED payment

\* Mutant: the order the payment was made for, whatever its row says now.
FoundByOrder(h, o) == payment[hook[h].pay].order = o

\* findByTransactionId
Found(h, o) == order[o].tx = hook[h].pay

WebhookRead(h) ==
    /\ hook[h].pc = "received"
    /\ \/ \E o \in Orders :
            /\ Found(h, o)
            /\ hook' = [hook EXCEPT ![h] = [@ EXCEPT !.pc = "write", !.order = o,
                                                     !.snap = order[o]]]
            /\ UNCHANGED payment
       \/ /\ \A o \in Orders : ~Found(h, o)
          /\ Unanswered(h)
    /\ UNCHANGED <<order, mixed, terms, creating, reg, job, edit, effects, spent>>

WebhookSelect(h) ==
    /\ hook[h].pc = "write"
    /\ hook[h].seen = NoRow
    /\ hook' = [hook EXCEPT ![h].seen = order[hook[h].order]]
    /\ UNCHANGED <<order, mixed, terms, creating, reg, payment, job, edit, effects,
                   spent>>

\* Mutant: a misspelt event name matches no notice.
RefusesNothing(h) == hook[h].event = "cancelled"

Refuses(h) == hook[h].event = "canceled"

WebhookCanceled(h) ==
    /\ hook[h].pc = "write"
    /\ Refuses(h)
    /\ Save(hook[h].order, [hook[h].snap EXCEPT !.status = "canceled"], hook[h].seen)
    /\ Acknowledge(h)
    /\ UNCHANGED <<terms, creating, reg, job, edit, effects, spent>>

\* The ledger calls an order still needs after its points were withdrawn.
AfterWithdraw(t) == IF t.cashback THEN "accrue" ELSE "enqueue"

\* Whatever the row's status is, it becomes payed.
WebhookPayed(h) ==
    /\ hook[h].pc = "write"
    /\ ~Refuses(h)
    /\ Save(hook[h].order, [hook[h].snap EXCEPT !.status = "payed"], hook[h].seen)
    /\ LET t == terms[hook[h].order]
       IN  hook' = [hook EXCEPT ![h].pc = IF t.points THEN "withdraw"
                                                      ELSE AfterWithdraw(t),
                                ![h].snap = NoRow, ![h].seen = NoRow]
    /\ UNCHANGED <<terms, creating, reg, payment, job, edit, effects, spent>>

WebhookWithdraw(h) ==
    /\ hook[h].pc = "withdraw"
    /\ effects' = [effects EXCEPT ![hook[h].order].withdrawn = @ + 1]
    /\ hook' = [hook EXCEPT ![h].pc = AfterWithdraw(terms[hook[h].order])]
    /\ UNCHANGED <<order, mixed, terms, creating, reg, payment, job, edit, spent>>

WebhookAccrue(h) ==
    /\ hook[h].pc = "accrue"
    /\ effects' = [effects EXCEPT ![hook[h].order].accrued = @ + 1]
    /\ hook' = [hook EXCEPT ![h].pc = "enqueue"]
    /\ UNCHANGED <<order, mixed, terms, creating, reg, payment, job, edit, spent>>

WebhookEnqueue(h) ==
    /\ hook[h].pc = "enqueue"
    /\ AddJob(hook[h].order)
    /\ Acknowledge(h)
    /\ UNCHANGED <<order, mixed, terms, creating, reg, edit, effects, spent>>

\* Any failing call ends the request with an error: the notice stays unanswered
\* and what the request already did stays done.
WebhookError(h) ==
    /\ hook[h].pc # "idle"
    /\ spent.errors < MaxErrors
    /\ spent' = [spent EXCEPT !.errors = @ + 1, !.late = @ \cup Answered({h})]
    /\ Unanswered(h)
    /\ UNCHANGED <<order, mixed, terms, creating, reg, job, edit, effects>>

WebhookStep(h) ==
    \/ WebhookRead(h) \/ WebhookSelect(h) \/ WebhookCanceled(h)
    \/ WebhookPayed(h) \/ WebhookWithdraw(h) \/ WebhookAccrue(h) \/ WebhookEnqueue(h)

----------------------------------------------------------------------------
(* The pos-process worker *)

\* Mutant: a failed order is started again.
StartableAgain(o, row) ==
    IF terms[o].free THEN row.status = "free_processing"
                     ELSE row.status \in {"payed", "failed"}

Startable(o, row) ==
    IF terms[o].free THEN row.status = "free_processing" ELSE row.status = "payed"

\* Mutant: a repeated job takes its first attempt for a start.
FirstStepSkipped(j) ==
    IF job[j].attempts > 0 THEN "complete"
    ELSE IF Startable(job[j].order, order[job[j].order]) THEN "command" ELSE "reject"

FirstStep(j) ==
    IF Startable(job[j].order, order[job[j].order]) THEN "command" ELSE "reject"

JobRead(j) ==
    /\ job[j].pc = "waiting"
    /\ job' = [job EXCEPT ![j].snap = order[job[j].order], ![j].pc = FirstStep(j)]
    /\ UNCHANGED <<order, mixed, terms, creating, reg, payment, hook, edit, effects,
                   spent>>

\* The job as the queue hands it out again: nothing of the last run is left.
Requeued(j, attempts, stalls) ==
    [Queued(job[j].order) EXCEPT !.attempts = attempts, !.stalls = stalls]

\* execute threw: BullMQ runs the job again, up to JobAttempts times, and drops it.
AttemptFailed(j) ==
    job' = [job EXCEPT ![j] =
              IF @.attempts + 1 < JobAttempts
              THEN Requeued(j, @.attempts + 1, @.stalls) ELSE NoJob]

JobSelect(j) ==
    /\ job[j].pc \in {"reject", "complete", "fail"}
    /\ job[j].seen = NoRow
    /\ job' = [job EXCEPT ![j].seen = order[job[j].order]]
    /\ UNCHANGED <<order, mixed, terms, creating, reg, payment, hook, edit, effects,
                   spent>>

\* The row was not startable: it is marked failed, whatever it holds by now.
JobReject(j) ==
    /\ job[j].pc = "reject"
    /\ Save(job[j].order, [job[j].snap EXCEPT !.status = "failed"], job[j].seen)
    /\ AttemptFailed(j)
    /\ UNCHANGED <<terms, creating, reg, payment, hook, edit, effects, spent>>

\* Mutant: the status where the next step belongs.
GiveUpStatus(o) == IF terms[o].free THEN "failed" ELSE "refund"

\* A start that did not happen is refunded, unless nothing was paid.
GiveUp(o) == IF terms[o].free THEN "fail" ELSE "refund"

\* SUCCESS, or FAIL; a FAIL may be a lost answer to a command that arrived.
JobCommand(j) ==
    LET o == job[j].order
    IN  /\ job[j].pc = "command"
        /\ effects' = [effects EXCEPT ![o].sent = @ + 1]
        /\ \/ job' = [job EXCEPT ![j].pc = "verify", ![j].cycle = 1]
           \/ job' = [job EXCEPT ![j].pc = GiveUp(o)]
        /\ UNCHANGED <<order, mixed, terms, creating, reg, payment, hook, edit, spent>>

\* Mutant: one cycle too many.
AnotherCycleToo(j) == job[j].cycle <= RetryCycles

AnotherCycle(j) == job[j].cycle < RetryCycles

\* Five pings: any answer but Free, Unavailable included, counts as started.
\* Five times Free: the command is sent again, or the job gives up.
JobVerify(j) ==
    LET o == job[j].order
    IN  /\ job[j].pc = "verify"
        /\ \/ /\ job' = [job EXCEPT ![j].pc = "complete"]
              /\ UNCHANGED effects
           \/ /\ AnotherCycle(j)
              /\ effects' = [effects EXCEPT ![o].sent = @ + 1]
              /\ job' = [job EXCEPT ![j].cycle = @ + 1]
           \/ /\ ~AnotherCycle(j)
              /\ job' = [job EXCEPT ![j].pc = GiveUp(o)]
              /\ UNCHANGED effects
        /\ UNCHANGED <<order, mixed, terms, creating, reg, payment, hook, edit, spent>>

\* Mutant: whatever has a transaction is refunded.
RefundableAny(row) == row.tx # None

\* Still payed, with a transaction.
Refundable(row) == row.status = "payed" /\ row.tx # None

\* The refund reads the order again.
JobRefundCheck(j) ==
    LET row == order[job[j].order]
    IN  /\ job[j].pc = "refund"
        /\ \/ /\ Refundable(row)
              /\ job' = [job EXCEPT ![j].pc = "refunding", ![j].pay = row.tx]
           \/ /\ ~Refundable(row)
              /\ job' = [job EXCEPT ![j].pc = "fail"]
        /\ UNCHANGED <<order, mixed, terms, creating, reg, payment, hook, edit,
                       effects, spent>>

\* The gateway refunds what it took, or the request fails.
JobRefund(j) ==
    /\ job[j].pc = "refunding"
    /\ \/ /\ payment[job[j].pay].state = "succeeded"
          /\ payment' = [payment EXCEPT ![job[j].pay].refunds = @ + 1]
          /\ job' = [job EXCEPT ![j].pc = "record"]
       \/ /\ job' = [job EXCEPT ![j].pc = "fail"]
          /\ UNCHANGED payment
    /\ UNCHANGED <<order, mixed, terms, creating, reg, hook, edit, effects, spent>>

\* After the refund execute throws in any case: no status but failed follows.
JobRecord(j) ==
    /\ job[j].pc = "record"
    /\ effects' = [effects EXCEPT ![job[j].order].records = @ + 1]
    /\ job' = [job EXCEPT ![j].pc = "fail"]
    /\ UNCHANGED <<order, mixed, terms, creating, reg, payment, hook, edit, spent>>

JobComplete(j) ==
    /\ job[j].pc = "complete"
    /\ Save(job[j].order, [job[j].snap EXCEPT !.status = "completed"], job[j].seen)
    /\ job' = [job EXCEPT ![j] = NoJob]
    /\ UNCHANGED <<terms, creating, reg, payment, hook, edit, effects, spent>>

JobFail(j) ==
    /\ job[j].pc = "fail"
    /\ Save(job[j].order, [job[j].snap EXCEPT !.status = "failed"], job[j].seen)
    /\ AttemptFailed(j)
    /\ UNCHANGED <<terms, creating, reg, payment, hook, edit, effects, spent>>

\* A failing call inside the try ends in the catch, elsewhere it ends the attempt.
JobError(j) ==
    /\ FaultyCall
    /\ \/ /\ job[j].pc \in {"refund", "record", "complete"}
          /\ job' = [job EXCEPT ![j].pc = "fail", ![j].seen = NoRow]
       \/ /\ job[j].pc \in {"waiting", "reject", "fail"}
          /\ AttemptFailed(j)
    /\ UNCHANGED <<order, mixed, terms, creating, reg, payment, hook, edit, effects>>

JobStep(j) ==
    \/ JobRead(j) \/ JobSelect(j) \/ JobReject(j) \/ JobCommand(j)
    \/ JobVerify(j) \/ JobRefundCheck(j) \/ JobRefund(j) \/ JobRecord(j)
    \/ JobComplete(j) \/ JobFail(j)

----------------------------------------------------------------------------
(* POST /order/status/:id *)

EditRead(o, s) ==
    /\ edit.pc = "idle"
    /\ order[o].status # "absent"
    /\ RequestWithinBounds /\ spent.edits < MaxEdits
    /\ spent' = [spent EXCEPT !.edits = @ + 1, !.requests = @ + 1]
    /\ edit' = [pc |-> "save", order |-> o, snap |-> order[o], seen |-> NoRow,
                status |-> s]
    /\ UNCHANGED <<order, mixed, terms, creating, reg, payment, hook, job, effects>>

EditSelect ==
    /\ edit.pc = "save"
    /\ edit.seen = NoRow
    /\ edit' = [edit EXCEPT !.seen = order[edit.order]]
    /\ UNCHANGED <<order, mixed, terms, creating, reg, payment, hook, job, effects,
                   spent>>

EditSave ==
    /\ edit.pc = "save"
    /\ Save(edit.order, [edit.snap EXCEPT !.status = edit.status], edit.seen)
    /\ edit' = NoEdit
    /\ UNCHANGED <<terms, creating, reg, payment, hook, job, effects, spent>>

----------------------------------------------------------------------------
(* The server stops and starts again: requests in flight are gone, and the  *)
(* jobs it was running are stalled; the queue runs such a job again, but    *)
(* only MaxStalls times.                                                    *)

Stalled(j) ==
    IF job[j].pc \in {"unused", "waiting"} THEN job[j]
    ELSE IF job[j].stalls < MaxStalls
         THEN Requeued(j, job[j].attempts, job[j].stalls + 1) ELSE NoJob

Crash ==
    /\ spent.crashes < MaxCrashes
    /\ spent' = [spent EXCEPT !.crashes = @ + 1, !.late = @ \cup Answered(Hooks)]
    /\ creating' = {}
    /\ reg' = [c \in Calls |-> NoCall]
    /\ hook' = [h \in Hooks |-> NoHook]
    /\ job' = [j \in Jobs |-> Stalled(j)]
    /\ edit' = NoEdit
    /\ UNCHANGED <<order, mixed, terms, payment, effects>>

----------------------------------------------------------------------------

Next ==
    \/ \E o \in Orders, t \in OrderTerms : CreateOrder(o, t)
    \/ \E o \in Orders : EnqueueFree(o) \/ EnqueueFreeFails(o)
    \/ \E c \in Calls, o \in Orders : RegisterRead(c, o)
    \/ \E c \in Calls : RegisterStep(c) \/ RegisterError(c)
    \/ \E p \in Payments : PaymentResolves(p)
    \/ \E h \in Hooks, p \in Payments : Deliver(h, p)
    \/ \E h \in Hooks : WebhookStep(h) \/ WebhookError(h)
    \/ \E j \in Jobs : JobStep(j) \/ JobError(j)
    \/ \E o \in Orders, s \in EditStatuses : EditRead(o, s)
    \/ EditSelect \/ EditSave
    \/ Crash

Spec == Init /\ [][Next]_vars

\* A started handler goes on, the worker takes jobs, and the gateway repeats a
\* notice until it is answered; clients, the bay, duplicates and the faults owe
\* nothing.
Fairness ==
    /\ \A o \in Orders : WF_vars(EnqueueFree(o))
    /\ \A c \in Calls : WF_vars(RegisterStep(c))
    /\ \A p \in Payments : WF_vars(\E h \in Hooks : Deliver(h, p) /\ UNCHANGED spent)
    /\ \A h \in Hooks : WF_vars(WebhookStep(h))
    /\ \A j \in Jobs : WF_vars(JobStep(j))

FairSpec == Spec /\ Fairness

----------------------------------------------------------------------------
(* Safety under every interleaving and fault *)

Backed(o, p) == payment[p].state = "succeeded" /\ payment[p].order = o

PaymentsOf(o) == {p \in Payments : Backed(o, p)}

\* A payment was taken for o, and tx names such a payment; only saves that mixed
\* their columns in the row of o may have left another transaction there, or none.
Carries(o, tx) == PaymentsOf(o) # {} /\ (tx \in PaymentsOf(o) \/ o \in mixed)

\* A row that says payed or completed is of an order whose payment the gateway took
\* and carries that transaction, although the webhook, the worker, status edits and
\* concurrent register requests all save rows they read long before.  Saves that
\* cross between SELECT and UPDATE may lose the transaction, but never make an
\* unpaid order payed.
PaidRowsAreBacked ==
    \A o \in Orders :
        ~terms[o].free /\ order[o].status \in {"payed", "completed"}
            => Carries(o, order[o].tx)

\* No start command, points withdrawal or cashback for an order that was not
\* paid: not after a canceled payment, a lost update or a repeated job.
NothingDoneUnpaid ==
    \A o \in Orders :
        LET e == effects[o]
        IN  ~terms[o].free /\ (e.sent > 0 \/ e.withdrawn > 0 \/ e.accrued > 0)
                => PaymentsOf(o) # {}

Refunded(o) == \E p \in Payments : payment[p].order = o /\ payment[p].refunds > 0

\* The worker asks for the refund of a taken payment only (or, where saves mixed the
\* row's columns, of another payment of an order that has a taken one); it refunds
\* only after it tried to start the bay, and records only a refund that was made.
RefundsAreBacked ==
    /\ \A j \in Jobs : job[j].pc = "refunding" => Carries(job[j].order, job[j].pay)
    /\ \A p \in Payments :
          payment[p].refunds > 0 => effects[payment[p].order].sent > 0
    /\ \A o \in Orders : effects[o].records > 0 => Refunded(o)

\* An order is completed only by a worker that commanded its bay.
CompletedWasCommanded ==
    \A o \in Orders : order[o].status = "completed" => effects[o].sent > 0

\* How often the queue may run one job: its attempts, and once more each time the
\* server stopped under it, as long as the queue allows.
RunsOfAJob ==
    JobAttempts + (IF spent.crashes < MaxStalls THEN spent.crashes ELSE MaxStalls)

\* How often notices of payments for o may get as far as its row: each once, and
\* once more at most for each duplicate, and for each fault that left it unanswered.
NoticesOf(o) ==
    Cardinality(PaymentsOf(o))
        * (1 + spent.duplicates + spent.errors + spent.crashes)

\* Points are withdrawn and cashback accrued once per notice at most, and a refund
\* is asked for once per run of a job, of which every notice adds one.  Nothing else
\* makes the webhook or the worker repeat what it did: no interleaving with another
\* notice, registration or job, and no job that was already done.
RepeatsHaveACause ==
    /\ \A o \in Orders : /\ effects[o].withdrawn <= NoticesOf(o)
                         /\ effects[o].accrued <= NoticesOf(o)
    /\ \A p \in Payments :
          payment[p].refunds <= NoticesOf(payment[p].order) * RunsOfAJob

----------------------------------------------------------------------------
(* Why it holds: the inductive invariant                                   *)

\* tx is null or a payment the gateway created for order o.
OwnedBy(tx, o) ==
    tx # None => payment[tx].order = o /\ payment[tx].state # "unused"

\* Rows, and every snapshot a handler may write back, carry only transactions
\* of their own order; a payment the gateway made belongs to an order, and it
\* returns only what it took.
TransactionsAreOwned ==
    /\ \A o \in Orders : OwnedBy(order[o].tx, o)
    /\ \A c \in Calls : /\ OwnedBy(reg[c].snap.tx, reg[c].order)
                        /\ OwnedBy(reg[c].fresh.tx, reg[c].order)
                        /\ OwnedBy(reg[c].pay, reg[c].order)
    /\ \A j \in Jobs : OwnedBy(job[j].snap.tx, job[j].order)
    /\ \A p \in Payments : /\ payment[p].state # "unused" => payment[p].order # None
                           /\ payment[p].refunds > 0 => payment[p].state = "succeeded"
    /\ OwnedBy(edit.snap.tx, edit.order)

\* A handler under way knows its order and its payment.
HandlersKnowTheirOrder ==
    /\ \A c \in Calls : /\ reg[c].pc # "idle" => reg[c].order # None
                        /\ reg[c].pc \in {"reread", "save"} => reg[c].pay # None
    /\ \A h \in Hooks : /\ hook[h].pc # "idle" => hook[h].pay # None
                        /\ hook[h].pc \notin {"idle", "received"}
                              => hook[h].order # None
    /\ \A j \in Jobs : /\ job[j].pc # "unused" => job[j].order # None
                       /\ job[j].pc = "refunding" => job[j].pay # None
    /\ edit.pc # "idle" => edit.order # None /\ edit.status \in EditStatuses

\* A notice tells the payment's final state, and a request past the look-up
\* holds the order that payment was made for.
HooksMatchPayments ==
    \A h \in Hooks :
        LET k == hook[h]
        IN  /\ k.pc # "idle" => /\ k.event \in {"succeeded", "canceled"}
                                /\ payment[k.pay].state = k.event
            /\ k.pc \notin {"idle", "received"} => payment[k.pay].order = k.order
            /\ k.pc = "write" => k.snap.tx = k.pay
            /\ k.pc \in {"withdraw", "accrue", "enqueue"} => k.event = "succeeded"

\* A job past its status check holds a backed snapshot of a paid order, has
\* commanded the bay before it verifies, and refunds only what was taken.
JobsAreBacked ==
    \A j \in Jobs :
        LET o == job[j].order
            past == {"command", "verify", "refund", "refunding", "record",
                     "complete", "fail"}
        IN  /\ job[j].pc \in past /\ ~terms[o].free
                  => Carries(o, job[j].snap.tx)
            /\ job[j].pc \in {"verify", "refund", "refunding", "record", "complete"}
                  => effects[o].sent > 0
            /\ job[j].pc \in {"refund", "refunding", "record"} => ~terms[o].free
            /\ job[j].pc = "refunding" => OwnedBy(job[j].pay, o)
            /\ job[j].pc = "record" => Refunded(o)

\* Nothing refers to an order that was not created yet.
AbsentIsUntouched ==
    \A o \in Orders : order[o].status = "absent" =>
        /\ order[o].tx = None
        /\ o \notin creating
        /\ effects[o] = NoEffects
        /\ \A c \in Calls : reg[c].order # o
        /\ \A j \in Jobs : job[j].order # o
        /\ \A h \in Hooks : hook[h].order # o
        /\ edit.order # o

IInv ==
    /\ TypeOK
    /\ TransactionsAreOwned
    /\ HandlersKnowTheirOrder
    /\ HooksMatchPayments
    /\ JobsAreBacked
    /\ AbsentIsUntouched
    /\ PaidRowsAreBacked
    /\ NothingDoneUnpaid
    /\ RefundsAreBacked
    /\ CompletedWasCommanded

----------------------------------------------------------------------------
(* What holds when every request and notice arrives exactly once *)

\* The status flow of OrderAPI.md, with the transitions the code makes.
Flow == {<<"absent", "created">>, <<"absent", "free_processing">>,
         <<"created", "payment_processing">>,
         <<"payment_processing", "waiting_payment">>,
         <<"payment_processing", "canceled">>,
         <<"waiting_payment", "payed">>, <<"waiting_payment", "canceled">>,
         <<"payed", "completed">>, <<"payed", "failed">>,
         <<"free_processing", "completed">>, <<"free_processing", "failed">>}

\* A step moves an order's status only along the flow, so completed, failed and
\* canceled are final.
FollowsFlow ==
    [][\A o \in Orders : order'[o].status # order[o].status
            => <<order[o].status, order'[o].status>> \in Flow]_vars

\* Each effect of an order happens at most once, its start commands at most
\* once per verification cycle, and a refund and its record at most once.
OncePerOrder ==
    \A o \in Orders :
        /\ effects[o].withdrawn <= 1 /\ effects[o].accrued <= 1
        /\ effects[o].sent <= RetryCycles
        /\ effects[o].records <= 1
        /\ \A p \in PaymentsOf(o) : payment[p].refunds <= 1

\* A refunded order is never commanded again and never completed.
RefundEndsService ==
    [][\A o \in Orders : Refunded(o) => /\ effects'[o].sent = effects[o].sent
                                        /\ order'[o].status # "completed"]_vars

Settled(o) == order[o].status \in {"completed", "failed"}

\* A payment the gateway took is answered by a wash or a failed order.
TakenIsSettled ==
    \A p \in Payments, o \in Orders : Backed(o, p) ~> Settled(o)

\* A free vacuum order that was accepted is served or failed.
FreeIsSettled ==
    \A o \in Orders : order[o].status = "free_processing" ~> Settled(o)

\* Whatever a client was promised, by taking its payment or by accepting its free
\* vacuum, ends in one of the two: early notices are repeated until one finds
\* its order, and orders that compete for the queue are all served.
OrdersAreSettled == TakenIsSettled /\ FreeIsSettled

\* A fault ended a delivery whose notice was already answered, and nobody repeats it.
DuplicateMayBeLost(o) == \E p \in spent.late : payment[p].order = o

\* A payed order does not stay payed, even when the server stops once, one call
\* fails and a notice is delivered twice: the gateway repeats the notice and the
\* queue repeats the job.  Only a fault that ends one of two deliveries of a notice
\* after the other was answered may leave the row payed.
PaidIsSettled ==
    \A o \in Orders :
        order[o].status = "payed" ~> Settled(o) \/ DuplicateMayBeLost(o)

----------------------------------------------------------------------------
(* What the documentation says and the code does not do *)

\* OrderAPI.md: "On payment failure, order status is updated to CANCELED".
CanceledIsUnpaid ==
    \A o \in Orders : order[o].status = "canceled" => PaymentsOf(o) = {}

=============================================================================
