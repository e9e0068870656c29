-------------------------- MODULE OrderFlow_proofs --------------------------
(* Proofs about OrderFlow: the types, the inductive invariant and what     *)
(* follows from it; what holds while nothing disturbs an order; and how    *)
(* often faults can make the webhook and the worker repeat themselves.     *)
EXTENDS OrderFlow, TLAPS, FiniteSetTheorems

(***************************************************************************)
(* Types                                                                   *)
(***************************************************************************)

\* Every null value has the type of what it stands for.
LEMMA NullsTyped ==
    /\ NoRow \in Row /\ NoCall \in Call /\ NoPayment \in Payment
    /\ NoHook \in Hook /\ NoJob \in Job /\ NoEdit \in Edit
    /\ NoEffects \in Effects
  BY DEF Row, NoRow, Call, NoCall, Payment, NoPayment, Hook, NoHook, Job,
         NoJob, Edit, NoEdit, Effects, NoEffects

\* A save keeps the table well typed, whatever row it selected.
LEMMA RowSaved ==
    ASSUME TypeOK, NEW o \in Orders, NEW r \in Row, NEW d, Save(o, r, d)
    PROVE  /\ order' \in [Orders -> Row]
           /\ mixed' \subseteq Orders
<1>1. Written(r, d, order[o]) \in Row
  BY DEF TypeOK, Written, Row
<1> QED BY <1>1 DEF Save, TypeOK

\* So does saving a snapshot under another status.
LEMMA SaveTyped ==
    ASSUME TypeOK, NEW o \in Orders, NEW r \in Row, NEW s \in Statuses, NEW d,
           Save(o, [r EXCEPT !.status = s], d)
    PROVE  /\ order' \in [Orders -> Row]
           /\ mixed' \subseteq Orders
<1>1. [r EXCEPT !.status = s] \in Row
  BY DEF Row
<1> QED BY <1>1, RowSaved

\* A waiting job is a well typed job, for the first time and again.
LEMMA QueuedTyped == \A o \in Orders \cup {None} : Queued(o) \in Job
  BY NullsTyped DEF Queued, Job

LEMMA RequeuedTyped ==
    ASSUME TypeOK, NEW j \in Jobs, NEW a \in Nat, NEW s \in Nat
    PROVE  Requeued(j, a, s) \in Job
<1>1. job[j].order \in Orders \cup {None}
  BY DEF TypeOK, Job
<1>2. Queued(job[j].order) \in Job
  BY <1>1, QueuedTyped
<1> QED BY <1>2 DEF Requeued, Job

\* Adding a job keeps the queue well typed.
LEMMA AddJobTyped ==
    ASSUME TypeOK, NEW o \in Orders \cup {None}, AddJob(o)
    PROVE  job' \in [Jobs -> Job]
  BY QueuedTyped DEF AddJob, TypeOK

\* An attempt that failed leaves a well typed queue.
LEMMA AttemptFailedTyped ==
    ASSUME TypeOK, NEW j \in Jobs, AttemptFailed(j)
    PROVE  job' \in [Jobs -> Job]
<1>1. job[j].attempts \in Nat /\ job[j].stalls \in Nat
  BY DEF TypeOK, Job
<1>2. Requeued(j, job[j].attempts + 1, job[j].stalls) \in Job
  BY <1>1, RequeuedTyped
<1> QED BY <1>1, <1>2, NullsTyped DEF AttemptFailed, TypeOK

\* A failing call is counted.
LEMMA FaultyCallTyped == ASSUME TypeOK, FaultyCall PROVE spent' \in Spent
  BY DEF TypeOK, FaultyCall, Spent

\* So is a request that is let in.
LEMMA RequestsTyped ==
    ASSUME TypeOK
    PROVE  /\ [spent EXCEPT !.requests = @ + 1] \in Spent
           /\ [spent EXCEPT !.edits = @ + 1, !.requests = @ + 1] \in Spent
<1>1. spent \in Spent /\ spent.requests + 1 \in Nat /\ spent.edits + 1 \in Nat
  BY DEF TypeOK, Spent
<1> QED BY <1>1 DEF Spent

\* So is a fault that ends the requests hs.
LEMMA LateTyped ==
    ASSUME TypeOK, NEW hs
    PROVE  /\ [spent EXCEPT !.errors = @ + 1, !.late = @ \cup Answered(hs)] \in Spent
           /\ [spent EXCEPT !.crashes = @ + 1, !.late = @ \cup Answered(hs)] \in Spent
<1>1. /\ spent.errors + 1 \in Nat /\ spent.crashes + 1 \in Nat
      /\ spent.late \cup Answered(hs) \in SUBSET Payments
  BY DEF TypeOK, Spent, Answered
<1> QED BY <1>1 DEF TypeOK, Spent

\* An effect counted once more is well typed.
LEMMA EffectsTyped ==
    ASSUME NEW e \in Effects
    PROVE  /\ [e EXCEPT !.withdrawn = @ + 1] \in Effects
           /\ [e EXCEPT !.accrued = @ + 1] \in Effects
           /\ [e EXCEPT !.sent = @ + 1] \in Effects
           /\ [e EXCEPT !.records = @ + 1] \in Effects
  BY DEF Effects

\* The initial state is well typed.
THEOREM TypeInit == Init => TypeOK
  BY NullsTyped DEF Init, TypeOK, Terms, Spent

WellFormed == TypeOK /\ HandlersKnowTheirOrder

\* Nobody reports an order as paid or completed through the status endpoint.
NoPaidEdits == EditStatuses \cap {"payed", "completed"} = {}

\* Creating orders and putting free ones on the queue.
LEMMA TypeCreate ==
    ASSUME TypeOK, NEW o \in Orders,
           \/ \E t \in OrderTerms : CreateOrder(o, t)
           \/ EnqueueFree(o) \/ EnqueueFreeFails(o)
    PROVE  TypeOK'
<1>1. ASSUME NEW t \in OrderTerms, CreateOrder(o, t) PROVE TypeOK'
  <2>1. order' \in [Orders -> Row]
    <3>1. \A s \in Statuses : [NoRow EXCEPT !.status = s] \in Row
      BY NullsTyped DEF Row
    <3> QED BY <1>1, <3>1 DEF CreateOrder, TypeOK, Statuses
  <2>2. terms' \in [Orders -> Terms]
    BY <1>1, TermsAssumption DEF TypeOK, CreateOrder
  <2> QED BY <1>1, <2>1, <2>2 DEF TypeOK, CreateOrder
<1>2. CASE EnqueueFree(o)
  BY <1>2, AddJobTyped DEF TypeOK, EnqueueFree
<1>3. CASE EnqueueFreeFails(o)
  BY <1>3, FaultyCallTyped DEF TypeOK, EnqueueFreeFails
<1> QED BY <1>1, <1>2, <1>3

\* Registering a payment.
LEMMA TypeRegister ==
    ASSUME WellFormed, NEW c \in Calls,
           \/ \E o \in Orders : RegisterRead(c, o)
           \/ RegisterStep(c) \/ RegisterError(c)
    PROVE  TypeOK'
<1>1. ASSUME NEW o \in Orders, RegisterRead(c, o) PROVE TypeOK'
  <2>1. [NoCall EXCEPT !.pc = "processing", !.order = o, !.snap = order[o]] \in Call
    BY NullsTyped DEF WellFormed, TypeOK, Call
  <2>2. reg' \in [Calls -> Call]
    BY <1>1, <2>1 DEF WellFormed, TypeOK, RegisterRead
  <2>3. spent' \in Spent
    BY <1>1, RequestsTyped DEF WellFormed, RegisterRead
  <2> QED BY <1>1, <2>2, <2>3 DEF WellFormed, TypeOK, RegisterRead
<1>r. /\ TypeOK /\ reg[c] \in Call /\ reg[c].snap \in Row /\ reg[c].fresh \in Row
      /\ reg[c].order \in Orders \cup {None} /\ reg[c].pay \in Payments \cup {None}
  BY DEF WellFormed, TypeOK, Call
<1>o. reg[c].pc # "idle" => reg[c].order \in Orders
  BY <1>r DEF WellFormed, HandlersKnowTheirOrder
<1>c. Caught(reg[c]) \in Call
  BY <1>r, NullsTyped DEF Caught, Call
<1>8. CASE RegisterSelect(c)
  <2>1. order[reg[c].order] \in Row
    BY <1>8, <1>r, <1>o DEF TypeOK, RegisterSelect
  <2>2. reg' \in [Calls -> Call]
    BY <1>8, <1>r, <2>1 DEF TypeOK, RegisterSelect, Call
  <2> QED BY <1>8, <1>r, <2>2 DEF TypeOK, RegisterSelect
<1>2. CASE RegisterProcessing(c)
  <2>1. order' \in [Orders -> Row] /\ mixed' \subseteq Orders
    BY <1>2, <1>r, <1>o, SaveTyped DEF RegisterProcessing, Statuses
  <2>2. reg' \in [Calls -> Call]
    BY <1>2, <1>r, NullsTyped DEF TypeOK, RegisterProcessing, Call
  <2> QED BY <1>2, <1>r, <2>1, <2>2 DEF TypeOK, RegisterProcessing
<1>3. CASE RegisterCharge(c)
  <2>1. reg' \in [Calls -> Call]
    <3>1. \/ reg' = [reg EXCEPT ![c].pc = "cancel"]
          \/ \E p \in Payments : reg' = [reg EXCEPT ![c].pc = "reread", ![c].pay = p]
      BY <1>3 DEF RegisterCharge
    <3> QED BY <1>r, <3>1 DEF TypeOK, Call
  <2>2. payment' \in [Payments -> Payment]
    <3>1. \A p \in Payments :
             [payment[p] EXCEPT !.state = "pending", !.order = reg[c].order] \in Payment
      BY <1>r DEF TypeOK, Payment
    <3> QED BY <1>3, <1>r, <3>1 DEF TypeOK, RegisterCharge
  <2>3. spent' \in Spent
    BY <1>3, <1>r, FaultyCallTyped DEF TypeOK, RegisterCharge
  <2> QED BY <1>3, <1>r, <2>1, <2>2, <2>3 DEF TypeOK, RegisterCharge
<1>4. CASE RegisterReread(c)
  <2>1. order[reg[c].order] \in Row
    BY <1>4, <1>r DEF WellFormed, HandlersKnowTheirOrder, TypeOK, RegisterReread
  <2>2. reg' \in [Calls -> Call]
    BY <1>4, <1>r, <2>1 DEF TypeOK, RegisterReread, Call
  <2> QED BY <1>4, <1>r, <2>2 DEF TypeOK, RegisterReread
<1>5. CASE RegisterSave(c)
  <2>1. [reg[c].fresh EXCEPT !.tx = reg[c].pay] \in Row
    BY <1>r DEF Row
  <2>2. [reg[c].fresh EXCEPT !.status = "waiting_payment", !.tx = reg[c].pay] \in Row
    BY <1>r DEF Row, Statuses
  <2>3. order' \in [Orders -> Row] /\ mixed' \subseteq Orders
    BY <1>5, <1>r, <1>o, <2>2, RowSaved DEF RegisterSave
  <2>4. reg' \in [Calls -> Call]
    BY <1>5, <1>r, <1>c, NullsTyped DEF TypeOK, RegisterSave
  <2> QED BY <1>5, <1>r, <2>3, <2>4 DEF TypeOK, RegisterSave
<1>6. CASE RegisterCancel(c)
  <2>1. order' \in [Orders -> Row] /\ mixed' \subseteq Orders
    BY <1>6, <1>r, <1>o, SaveTyped DEF RegisterCancel, Statuses
  <2>2. reg' \in [Calls -> Call]
    BY <1>6, <1>r, NullsTyped DEF TypeOK, RegisterCancel
  <2> QED BY <1>6, <1>r, <2>1, <2>2 DEF TypeOK, RegisterCancel
<1>7. CASE RegisterError(c)
  <2>2. reg' \in [Calls -> Call]
    BY <1>7, <1>r, <1>c, NullsTyped DEF TypeOK, RegisterError
  <2> QED BY <1>7, <1>r, <2>2, FaultyCallTyped DEF TypeOK, RegisterError
<1> QED BY <1>1, <1>2, <1>3, <1>4, <1>5, <1>6, <1>7, <1>8 DEF RegisterStep

\* The gateway's payments and notices, and the webhook that answers them.
LEMMA TypeWebhook ==
    ASSUME WellFormed,
           \/ \E p \in Payments : PaymentResolves(p)
           \/ \E h \in Hooks, p \in Payments : Deliver(h, p)
           \/ \E h \in Hooks : WebhookStep(h) \/ WebhookError(h)
    PROVE  TypeOK'
<1>t. TypeOK
  BY DEF WellFormed
<1>1. ASSUME NEW p \in Payments, PaymentResolves(p) PROVE TypeOK'
  <2>1. \A s \in {"succeeded", "canceled"} : [payment[p] EXCEPT !.state = s] \in Payment
    BY <1>t DEF TypeOK, Payment
  <2>2. payment' \in [Payments -> Payment]
    BY <1>1, <1>t, <2>1 DEF TypeOK, PaymentResolves
  <2> QED BY <1>1, <1>t, <2>2 DEF TypeOK, PaymentResolves
<1>2. ASSUME NEW h \in Hooks, NEW p \in Payments, Deliver(h, p) PROVE TypeOK'
  <2>1. payment[p].state \in {"succeeded", "canceled"}
    BY <1>2 DEF Deliver
  <2>2. [NoHook EXCEPT !.pc = "received", !.pay = p, !.event = payment[p].state] \in Hook
    BY <2>1, NullsTyped DEF Hook
  <2>3. hook' \in [Hooks -> Hook]
    BY <1>2, <1>t, <2>2 DEF TypeOK, Deliver
  <2>4. spent' \in Spent
    <3>1. [spent EXCEPT !.duplicates = @ + 1] \in Spent
      BY <1>t DEF TypeOK, Spent
    <3>2. spent' = spent \/ spent' = [spent EXCEPT !.duplicates = @ + 1]
      BY <1>2 DEF Deliver
    <3> QED BY <1>t, <3>1, <3>2 DEF TypeOK
  <2> QED BY <1>2, <1>t, <2>3, <2>4 DEF TypeOK, Deliver
<1>3. ASSUME NEW h \in Hooks, WebhookStep(h) \/ WebhookError(h) PROVE TypeOK'
  <2>h. /\ hook[h] \in Hook /\ hook[h].snap \in Row
        /\ hook[h].pay \in Payments \cup {None} /\ hook[h].order \in Orders \cup {None}
    BY <1>t DEF TypeOK, Hook
  <2>o. hook[h].pc = "write" => hook[h].order \in Orders
    BY <2>h DEF WellFormed, HandlersKnowTheirOrder
  <2>8. CASE WebhookSelect(h)
    <3>1. order[hook[h].order] \in Row
      BY <1>t, <2>8, <2>o DEF TypeOK, WebhookSelect
    <3>2. hook' \in [Hooks -> Hook]
      BY <1>t, <2>8, <2>h, <3>1 DEF TypeOK, WebhookSelect, Hook
    <3> QED BY <1>t, <2>8, <3>2 DEF TypeOK, WebhookSelect
  <2>p. \A k \in Hook, s \in {"withdraw", "accrue", "enqueue"} : [k EXCEPT !.pc = s] \in Hook
    BY DEF Hook
  <2>a. ASSUME Acknowledge(h), hook[h].pc # "idle"
        PROVE  hook' \in [Hooks -> Hook] /\ payment' \in [Payments -> Payment]
    <3>1. hook' \in [Hooks -> Hook]
      BY <1>t, <2>a, NullsTyped DEF TypeOK, Acknowledge
    <3>2. [payment[hook[h].pay] EXCEPT !.acked = TRUE] \in Payment
      BY <1>t, <2>a, <2>h DEF TypeOK, Payment, WellFormed, HandlersKnowTheirOrder
    <3>3. payment' \in [Payments -> Payment]
      BY <1>t, <2>a, <3>2 DEF TypeOK, Acknowledge
    <3> QED BY <3>1, <3>3
  <2>1. CASE WebhookRead(h)
    <3>1. \A o \in Orders : [hook[h] EXCEPT !.pc = "write", !.order = o,
                                            !.snap = order[o]] \in Hook
      BY <1>t, <2>h DEF TypeOK, Hook
    <3>2. hook' \in [Hooks -> Hook]
      BY <1>t, <2>1, <3>1, NullsTyped DEF TypeOK, WebhookRead, Found, Unanswered
    <3> QED BY <1>t, <2>1, <3>2 DEF TypeOK, WebhookRead, Found, Unanswered
  <2>2. CASE WebhookCanceled(h)
    <3>1. order' \in [Orders -> Row] /\ mixed' \subseteq Orders
      BY <1>t, <2>2, <2>h, <2>o, SaveTyped DEF WebhookCanceled, Statuses, Refuses
    <3> QED BY <1>t, <2>2, <2>a, <3>1 DEF TypeOK, WebhookCanceled, Refuses
  <2>3. CASE WebhookPayed(h)
    <3>1. order' \in [Orders -> Row] /\ mixed' \subseteq Orders
      BY <1>t, <2>3, <2>h, <2>o, SaveTyped DEF WebhookPayed, Statuses, Refuses
    <3>2. hook' \in [Hooks -> Hook]
      <4>1. \A s \in {"withdraw", "accrue", "enqueue"} :
               [hook[h] EXCEPT !.pc = s, !.snap = NoRow, !.seen = NoRow] \in Hook
        BY <2>h, NullsTyped DEF Hook
      <4> QED BY <1>t, <2>3, <4>1 DEF TypeOK, WebhookPayed, AfterWithdraw, Refuses
    <3> QED BY <1>t, <2>3, <3>1, <3>2 DEF TypeOK, WebhookPayed, Refuses
  <2>4. CASE WebhookWithdraw(h)
    <3>1. hook' \in [Hooks -> Hook]
      BY <1>t, <2>4, <2>h, <2>p DEF TypeOK, WebhookWithdraw, AfterWithdraw
    <3>2. effects' \in [Orders -> Effects]
      BY <1>t, <2>4, EffectsTyped DEF TypeOK, WebhookWithdraw
    <3> QED BY <1>t, <2>4, <3>1, <3>2 DEF TypeOK, WebhookWithdraw
  <2>5. CASE WebhookAccrue(h)
    <3>1. hook' \in [Hooks -> Hook]
      BY <1>t, <2>5, <2>h, <2>p DEF TypeOK, WebhookAccrue
    <3>2. effects' \in [Orders -> Effects]
      BY <1>t, <2>5, EffectsTyped DEF TypeOK, WebhookAccrue
    <3> QED BY <1>t, <2>5, <3>1, <3>2 DEF TypeOK, WebhookAccrue
  <2>6. CASE WebhookEnqueue(h)
    <3>1. job' \in [Jobs -> Job]
      BY <1>t, <2>6, <2>h, AddJobTyped DEF WebhookEnqueue
    <3> QED BY <1>t, <2>6, <2>a, <3>1 DEF TypeOK, WebhookEnqueue
  <2>7. CASE WebhookError(h)
    BY <1>t, <2>7, NullsTyped, LateTyped DEF TypeOK, WebhookError, Unanswered
  <2> QED BY <1>3, <2>1, <2>2, <2>3, <2>4, <2>5, <2>6, <2>7, <2>8 DEF WebhookStep
<1> QED BY <1>1, <1>2, <1>3

\* The worker.
LEMMA TypeJob ==
    ASSUME WellFormed, NEW j \in Jobs, JobStep(j) \/ JobError(j)
    PROVE  TypeOK'
<1>t. TypeOK
  BY DEF WellFormed
<1>j. /\ job[j] \in Job /\ job[j].snap \in Row /\ job[j].cycle \in Nat
      /\ job[j].order \in Orders \cup {None} /\ job[j].pay \in Payments \cup {None}
  BY <1>t DEF TypeOK, Job
<1>o. job[j].pc # "unused" => job[j].order \in Orders
  BY <1>j DEF WellFormed, HandlersKnowTheirOrder
<1>p. \A k \in Job, s \in {"verify", "refund", "record", "complete", "fail"} :
        [k EXCEPT !.pc = s] \in Job
  BY DEF Job
<1>1. CASE JobRead(j)
  <2>1. order[job[j].order] \in Row
    BY <1>t, <1>1, <1>o DEF TypeOK, JobRead, FirstStep
  <2>2. \A s \in {"command", "reject"} :
           [job[j] EXCEPT !.snap = order[job[j].order], !.pc = s] \in Job
    BY <1>j, <2>1 DEF Job
  <2>3. job' \in [Jobs -> Job]
    BY <1>t, <1>1, <2>2 DEF TypeOK, JobRead, FirstStep
  <2> QED BY <1>t, <1>1, <2>3 DEF TypeOK, JobRead, FirstStep
<1>11. CASE JobSelect(j)
  <2>1. order[job[j].order] \in Row
    BY <1>t, <1>11, <1>o DEF TypeOK, JobSelect
  <2>2. job' \in [Jobs -> Job]
    BY <1>t, <1>11, <1>j, <2>1 DEF TypeOK, JobSelect, Job
  <2> QED BY <1>t, <1>11, <2>2 DEF TypeOK, JobSelect
<1>2. CASE JobReject(j)
  <2>1. order' \in [Orders -> Row] /\ mixed' \subseteq Orders
    BY <1>t, <1>2, <1>j, <1>o, SaveTyped DEF JobReject, Statuses
  <2> QED BY <1>t, <1>2, <2>1, AttemptFailedTyped DEF TypeOK, JobReject
<1>3. CASE JobCommand(j)
  <2>1. [job[j] EXCEPT !.pc = "verify", !.cycle = 1] \in Job
    BY <1>j DEF Job
  <2>2. job' \in [Jobs -> Job]
    BY <1>t, <1>3, <1>j, <1>p, <2>1 DEF TypeOK, JobCommand, GiveUp
  <2>3. effects' \in [Orders -> Effects]
    BY <1>t, <1>3, EffectsTyped DEF TypeOK, JobCommand
  <2> QED BY <1>t, <1>3, <2>2, <2>3 DEF TypeOK, JobCommand
<1>4. CASE JobVerify(j)
  <2>1. [job[j] EXCEPT !.cycle = @ + 1] \in Job
    BY <1>j DEF Job
  <2>2. job' \in [Jobs -> Job]
    BY <1>t, <1>4, <1>j, <1>p, <2>1 DEF TypeOK, JobVerify, GiveUp, AnotherCycle
  <2>3. effects' \in [Orders -> Effects]
    <3>1. \/ effects' = effects
          \/ effects' = [effects EXCEPT ![job[j].order].sent = @ + 1]
      BY <1>4 DEF JobVerify, AnotherCycle
    <3>2. CASE effects' = effects
      BY <1>t, <3>2 DEF TypeOK
    <3>3. CASE effects' = [effects EXCEPT ![job[j].order].sent = @ + 1]
      BY <1>t, <3>3, EffectsTyped DEF TypeOK
    <3> QED BY <3>1, <3>2, <3>3
  <2> QED BY <1>t, <1>4, <2>2, <2>3 DEF TypeOK, JobVerify, AnotherCycle
<1>5. CASE JobRefundCheck(j)
  <2>1. order[job[j].order].tx \in Payments \cup {None}
    BY <1>t, <1>5, <1>o DEF TypeOK, JobRefundCheck, Row, Refundable
  <2>2. [job[j] EXCEPT !.pc = "refunding", !.pay = order[job[j].order].tx] \in Job
    BY <1>j, <2>1 DEF Job
  <2>3. job' \in [Jobs -> Job]
    BY <1>t, <1>5, <1>j, <1>p, <2>2 DEF TypeOK, JobRefundCheck, Refundable
  <2> QED BY <1>t, <1>5, <2>3 DEF TypeOK, JobRefundCheck, Refundable
<1>6. CASE JobRefund(j)
  <2>1. job' \in [Jobs -> Job]
    BY <1>t, <1>6, <1>j, <1>p DEF TypeOK, JobRefund
  <2>2. job[j].pay \in Payments
    BY <1>j, <1>6 DEF WellFormed, HandlersKnowTheirOrder, JobRefund
  <2>3. [payment[job[j].pay] EXCEPT !.refunds = @ + 1] \in Payment
    BY <1>t, <2>2 DEF TypeOK, Payment
  <2>4. payment' \in [Payments -> Payment]
    BY <1>t, <1>6, <2>3 DEF TypeOK, JobRefund
  <2> QED BY <1>t, <1>6, <2>1, <2>4 DEF TypeOK, JobRefund
<1>7. CASE JobRecord(j)
  <2>1. job' \in [Jobs -> Job]
    BY <1>t, <1>7, <1>j, <1>p DEF TypeOK, JobRecord
  <2>2. effects' \in [Orders -> Effects]
    BY <1>t, <1>7, EffectsTyped DEF TypeOK, JobRecord
  <2> QED BY <1>t, <1>7, <2>1, <2>2 DEF TypeOK, JobRecord
<1>8. CASE JobComplete(j)
  <2>1. order' \in [Orders -> Row] /\ mixed' \subseteq Orders
    BY <1>t, <1>8, <1>j, <1>o, SaveTyped DEF JobComplete, Statuses
  <2> QED BY <1>t, <1>8, <2>1, NullsTyped DEF TypeOK, JobComplete
<1>9. CASE JobFail(j)
  <2>1. order' \in [Orders -> Row] /\ mixed' \subseteq Orders
    BY <1>t, <1>9, <1>j, <1>o, SaveTyped DEF JobFail, Statuses
  <2> QED BY <1>t, <1>9, <2>1, AttemptFailedTyped DEF TypeOK, JobFail
<1>10. CASE JobError(j)
  <2>1. job' \in [Jobs -> Job]
    <3>1. [job[j] EXCEPT !.pc = "fail", !.seen = NoRow] \in Job
      BY <1>j, NullsTyped DEF Job
    <3> QED BY <1>t, <1>10, <3>1, AttemptFailedTyped DEF TypeOK, JobError
  <2> QED BY <1>t, <1>10, <2>1, FaultyCallTyped DEF TypeOK, JobError
<1> QED
  BY <1>1, <1>2, <1>3, <1>4, <1>5, <1>6, <1>7, <1>8, <1>9, <1>10, <1>11 DEF JobStep

\* The status endpoint and the restart of the server.
LEMMA TypeEditCrash ==
    ASSUME WellFormed,
           \/ \E o \in Orders, s \in EditStatuses : EditRead(o, s)
           \/ EditSelect \/ EditSave \/ Crash
    PROVE  TypeOK'
<1>t. TypeOK
  BY DEF WellFormed
<1>1. ASSUME NEW o \in Orders, NEW s \in EditStatuses, EditRead(o, s) PROVE TypeOK'
  <2>1. edit' \in Edit
    BY <1>t, <1>1, EditAssumption, NullsTyped DEF TypeOK, EditRead, Edit
  <2>2. spent' \in Spent
    BY <1>t, <1>1, RequestsTyped DEF EditRead
  <2> QED BY <1>t, <1>1, <2>1, <2>2 DEF TypeOK, EditRead
<1>2. CASE EditSave
  <2>1. edit.snap \in Row /\ edit.status \in Statuses
    BY <1>t, <1>2, EditAssumption
       DEF TypeOK, Edit, EditSave, WellFormed, HandlersKnowTheirOrder
  <2>2. order' \in [Orders -> Row] /\ mixed' \subseteq Orders
    <3>1. edit.order \in Orders
      BY <1>t, <1>2 DEF TypeOK, Edit, EditSave, WellFormed, HandlersKnowTheirOrder
    <3> QED BY <1>t, <1>2, <2>1, <3>1, SaveTyped DEF EditSave
  <2> QED BY <1>t, <1>2, <2>2, NullsTyped DEF TypeOK, EditSave
<1>3. CASE Crash
  <2>1. \A j \in Jobs : Stalled(j) \in Job
    <3> TAKE j \in Jobs
    <3>1. job[j] \in Job /\ job[j].attempts \in Nat /\ job[j].stalls \in Nat
      BY <1>t DEF TypeOK, Job
    <3>2. Requeued(j, job[j].attempts, job[j].stalls + 1) \in Job
      BY <1>t, <3>1, RequeuedTyped
    <3> QED BY <3>1, <3>2, NullsTyped DEF Stalled
  <2>2. spent' \in Spent
    BY <1>t, <1>3, LateTyped DEF TypeOK, Crash
  <2> QED BY <1>t, <1>3, <2>1, <2>2, NullsTyped DEF TypeOK, Crash
<1>4. CASE EditSelect
  <2>1. order[edit.order] \in Row
    BY <1>t, <1>4 DEF TypeOK, Edit, EditSelect, WellFormed, HandlersKnowTheirOrder
  <2>2. edit' \in Edit
    BY <1>t, <1>4, <2>1 DEF TypeOK, EditSelect, Edit
  <2> QED BY <1>t, <1>4, <2>2 DEF TypeOK, EditSelect
<1> QED BY <1>1, <1>2, <1>3, <1>4

\* Every step keeps the types, given that handlers know their order.
LEMMA TypeNext == WellFormed /\ [Next]_vars => TypeOK'
<1> SUFFICES ASSUME WellFormed, [Next]_vars PROVE TypeOK'
  OBVIOUS
<1>1. CASE UNCHANGED vars
  BY <1>1 DEF WellFormed, TypeOK, vars
<1>2. CASE Next
  BY <1>2, TypeCreate, TypeRegister, TypeWebhook, TypeJob, TypeEditCrash
     DEF Next, WellFormed
<1> QED BY <1>1, <1>2

(***************************************************************************)
(* Handlers know their order                                               *)
(***************************************************************************)

\* A job that was just added, or is added again, knows its order.
LEMMA AddJobKnows ==
    ASSUME WellFormed, NEW o \in Orders, AddJob(o)
    PROVE  \A j \in Jobs : /\ job'[j].pc # "unused" => job'[j].order # None
                           /\ job'[j].pc = "refunding" => job'[j].pay # None
  BY NoneAssumption DEF WellFormed, TypeOK, HandlersKnowTheirOrder, AddJob, Queued, NoJob

LEMMA AttemptFailedKnows ==
    ASSUME WellFormed, NEW i \in Jobs, job[i].pc # "unused", AttemptFailed(i)
    PROVE  \A j \in Jobs : /\ job'[j].pc # "unused" => job'[j].order # None
                           /\ job'[j].pc = "refunding" => job'[j].pay # None
  BY DEF WellFormed, TypeOK, HandlersKnowTheirOrder, AttemptFailed, Requeued,
         Queued, NoJob

\* A request in its catch keeps its order and its first snapshot.
LEMMA CaughtKnows ==
    \A k : /\ Caught(k).pc = "cancel" /\ Caught(k).order = k.order
           /\ Caught(k).snap = k.snap /\ Caught(k).fresh = NoRow
           /\ Caught(k).seen = NoRow /\ Caught(k).pay = None
  BY DEF Caught, NoCall

\* Every step leaves each handler with the order and payment it works on.
LEMMA KnowNext == WellFormed /\ [Next]_vars => HandlersKnowTheirOrder'
<1> SUFFICES ASSUME WellFormed, [Next]_vars PROVE HandlersKnowTheirOrder'
  OBVIOUS
<1>t. TypeOK /\ HandlersKnowTheirOrder
  BY DEF WellFormed
<1>1. ASSUME NEW o \in Orders,
             \/ \E t \in OrderTerms : CreateOrder(o, t)
             \/ EnqueueFree(o) \/ EnqueueFreeFails(o)
      PROVE  HandlersKnowTheirOrder'
  BY <1>t, <1>1, AddJobKnows
     DEF HandlersKnowTheirOrder, CreateOrder, EnqueueFree, EnqueueFreeFails
<1>2. ASSUME NEW c \in Calls,
             \/ \E o \in Orders : RegisterRead(c, o)
             \/ RegisterStep(c) \/ RegisterError(c)
      PROVE  HandlersKnowTheirOrder'
  <2> SUFFICES ASSUME NEW d \in Calls
               PROVE  /\ reg'[d].pc # "idle" => reg'[d].order # None
                      /\ reg'[d].pc \in {"reread", "save"} => reg'[d].pay # None
    BY <1>t, <1>2 DEF HandlersKnowTheirOrder, RegisterRead, RegisterStep,
         RegisterSelect, RegisterProcessing, RegisterCharge, RegisterReread,
         RegisterSave, RegisterCancel, RegisterError
  <2>1. CASE \E o \in Orders : RegisterRead(c, o)
    BY <1>t, <2>1, NoneAssumption
       DEF TypeOK, HandlersKnowTheirOrder, RegisterRead, NoCall
  <2>2. CASE RegisterProcessing(c)
    BY <1>t, <2>2 DEF TypeOK, HandlersKnowTheirOrder, RegisterProcessing
  <2>3. CASE RegisterCharge(c)
    <3>1. \/ reg' = [reg EXCEPT ![c].pc = "cancel"]
          \/ \E p \in Payments : reg' = [reg EXCEPT ![c].pc = "reread", ![c].pay = p]
      BY <2>3 DEF RegisterCharge
    <3>2. reg[c].pc = "charge"
      BY <2>3 DEF RegisterCharge
    <3> QED BY <1>t, <3>1, <3>2, NoneAssumption DEF TypeOK, Call, HandlersKnowTheirOrder
  <2>4. CASE RegisterReread(c)
    BY <1>t, <2>4 DEF TypeOK, HandlersKnowTheirOrder, RegisterReread
  <2>5. CASE RegisterSave(c)
    BY <1>t, <2>5, CaughtKnows DEF TypeOK, HandlersKnowTheirOrder, RegisterSave, NoCall
  <2>6. CASE RegisterCancel(c)
    BY <1>t, <2>6 DEF TypeOK, HandlersKnowTheirOrder, RegisterCancel, NoCall
  <2>7. CASE RegisterError(c)
    BY <1>t, <2>7, CaughtKnows DEF TypeOK, HandlersKnowTheirOrder, RegisterError, NoCall
  <2>8. CASE RegisterSelect(c)
    BY <1>t, <2>8 DEF TypeOK, HandlersKnowTheirOrder, RegisterSelect
  <2> QED BY <1>2, <2>1, <2>2, <2>3, <2>4, <2>5, <2>6, <2>7, <2>8 DEF RegisterStep
<1>3. CASE \E p \in Payments : PaymentResolves(p)
  BY <1>t, <1>3 DEF HandlersKnowTheirOrder, PaymentResolves
<1>4. ASSUME NEW h \in Hooks,
             \/ \E p \in Payments : Deliver(h, p)
             \/ WebhookStep(h) \/ WebhookError(h)
      PROVE  HandlersKnowTheirOrder'
  <2> DEFINE Known(g) == /\ hook'[g].pc # "idle" => hook'[g].pay # None
                         /\ hook'[g].pc \notin {"idle", "received"}
                               => hook'[g].order # None
  <2>1. CASE \E p \in Payments : Deliver(h, p)
    <3>1. \A g \in Hooks : Known(g)
      BY <1>t, <2>1, NoneAssumption DEF TypeOK, HandlersKnowTheirOrder, Deliver, NoHook
    <3> QED BY <1>t, <2>1, <3>1 DEF HandlersKnowTheirOrder, Deliver
  <2>2. CASE WebhookRead(h)
    <3>1. \A g \in Hooks : Known(g)
      <4>1. ASSUME NEW o \in Orders,
                   hook' = [hook EXCEPT ![h] = [@ EXCEPT !.pc = "write", !.order = o,
                                                         !.snap = order[o]]]
            PROVE  \A g \in Hooks : Known(g)
        <5>1. hook[h] \in Hook /\ hook[h].pay # None
          BY <1>t, <2>2 DEF TypeOK, HandlersKnowTheirOrder, WebhookRead, Found,
                            Unanswered
        <5>2. /\ hook'[h].pay = hook[h].pay /\ hook'[h].order = o
              /\ \A g \in Hooks \ {h} : hook'[g] = hook[g]
          BY <1>t, <4>1, <5>1 DEF TypeOK, Hook
        <5> QED BY <1>t, <5>1, <5>2, NoneAssumption DEF HandlersKnowTheirOrder
      <4>2. CASE hook' = [hook EXCEPT ![h] = NoHook]
        BY <1>t, <4>2 DEF TypeOK, HandlersKnowTheirOrder, NoHook
      <4> QED BY <2>2, <4>1, <4>2 DEF WebhookRead, Found, Unanswered
    <3> QED BY <1>t, <2>2, <3>1 DEF HandlersKnowTheirOrder, WebhookRead, Found, Unanswered
  <2>3. CASE WebhookCanceled(h)
    <3>1. \A g \in Hooks : Known(g)
      BY <1>t, <2>3 DEF TypeOK, HandlersKnowTheirOrder, WebhookCanceled, Acknowledge, NoHook, Refuses
    <3> QED BY <1>t, <2>3, <3>1 DEF HandlersKnowTheirOrder, WebhookCanceled, Refuses
  <2>4. CASE WebhookPayed(h)
    <3>1. \A g \in Hooks : Known(g)
      BY <1>t, <2>4 DEF TypeOK, HandlersKnowTheirOrder, WebhookPayed, Refuses
    <3> QED BY <1>t, <2>4, <3>1 DEF HandlersKnowTheirOrder, WebhookPayed, Refuses
  <2>5. CASE WebhookWithdraw(h)
    <3>1. \A g \in Hooks : Known(g)
      BY <1>t, <2>5 DEF TypeOK, HandlersKnowTheirOrder, WebhookWithdraw
    <3> QED BY <1>t, <2>5, <3>1 DEF HandlersKnowTheirOrder, WebhookWithdraw
  <2>6. CASE WebhookAccrue(h)
    <3>1. \A g \in Hooks : Known(g)
      BY <1>t, <2>6 DEF TypeOK, HandlersKnowTheirOrder, WebhookAccrue
    <3> QED BY <1>t, <2>6, <3>1 DEF HandlersKnowTheirOrder, WebhookAccrue
  <2>7. CASE WebhookEnqueue(h)
    <3>1. \A g \in Hooks : Known(g)
      BY <1>t, <2>7 DEF TypeOK, HandlersKnowTheirOrder, WebhookEnqueue, Acknowledge, NoHook
    <3>2. hook[h].order \in Orders
      BY <1>t, <2>7 DEF TypeOK, Hook, HandlersKnowTheirOrder, WebhookEnqueue
    <3> QED BY <1>t, <2>7, <3>1, <3>2, AddJobKnows DEF HandlersKnowTheirOrder, WebhookEnqueue
  <2>8. CASE WebhookError(h)
    <3>1. \A g \in Hooks : Known(g)
      BY <1>t, <2>8 DEF TypeOK, HandlersKnowTheirOrder, WebhookError, NoHook, Unanswered
    <3> QED BY <1>t, <2>8, <3>1 DEF HandlersKnowTheirOrder, WebhookError, Unanswered
  <2>9. CASE WebhookSelect(h)
    <3>1. \A g \in Hooks : Known(g)
      BY <1>t, <2>9 DEF TypeOK, HandlersKnowTheirOrder, WebhookSelect
    <3> QED BY <1>t, <2>9, <3>1 DEF HandlersKnowTheirOrder, WebhookSelect
  <2> QED BY <1>4, <2>1, <2>2, <2>3, <2>4, <2>5, <2>6, <2>7, <2>8, <2>9 DEF WebhookStep
<1>5. ASSUME NEW j \in Jobs, JobStep(j) \/ JobError(j) PROVE HandlersKnowTheirOrder'
  <2> SUFFICES \A i \in Jobs : /\ job'[i].pc # "unused" => job'[i].order # None
                               /\ job'[i].pc = "refunding" => job'[i].pay # None
    BY <1>t, <1>5 DEF HandlersKnowTheirOrder, JobStep, JobRead, JobSelect, JobReject,
         JobCommand, JobVerify, JobRefundCheck, JobRefund, JobRecord,
         JobComplete, JobFail, JobError, FirstStep, AnotherCycle, Refundable
  <2>1. CASE JobRead(j)
    BY <1>t, <2>1 DEF TypeOK, HandlersKnowTheirOrder, JobRead, FirstStep
  <2>2. CASE JobReject(j)
    BY <2>2, AttemptFailedKnows DEF JobReject
  <2>3. CASE JobCommand(j)
    BY <1>t, <2>3 DEF TypeOK, Job, HandlersKnowTheirOrder, JobCommand, GiveUp
  <2>4. CASE JobVerify(j)
    <3>1. \/ \E s \in {"complete", "refund", "fail"} : job' = [job EXCEPT ![j].pc = s]
          \/ job' = [job EXCEPT ![j].cycle = @ + 1]
      BY <2>4 DEF JobVerify, GiveUp, AnotherCycle
    <3>2. job[j].pc = "verify"
      BY <2>4 DEF JobVerify
    <3> QED BY <1>t, <3>1, <3>2 DEF TypeOK, Job, HandlersKnowTheirOrder
  <2>5. CASE JobRefundCheck(j)
    BY <1>t, <2>5 DEF TypeOK, Job, HandlersKnowTheirOrder, JobRefundCheck, Refundable
  <2>6. CASE JobRefund(j)
    <3>1. \E s \in {"record", "fail"} : job' = [job EXCEPT ![j].pc = s]
      BY <2>6 DEF JobRefund
    <3>2. job[j].pc = "refunding"
      BY <2>6 DEF JobRefund
    <3> QED BY <1>t, <3>1, <3>2 DEF TypeOK, Job, HandlersKnowTheirOrder
  <2>7. CASE JobRecord(j)
    BY <1>t, <2>7 DEF TypeOK, HandlersKnowTheirOrder, JobRecord
  <2>8. CASE JobComplete(j)
    BY <1>t, <2>8 DEF TypeOK, HandlersKnowTheirOrder, JobComplete, NoJob
  <2>9. CASE JobFail(j)
    BY <2>9, AttemptFailedKnows DEF JobFail
  <2>10. CASE JobError(j)
    <3>1. CASE AttemptFailed(j) /\ job[j].pc # "unused"
      BY <3>1, AttemptFailedKnows
    <3>2. CASE job' = [job EXCEPT ![j].pc = "fail", ![j].seen = NoRow]
               /\ job[j].pc # "unused"
      BY <1>t, <3>2 DEF TypeOK, HandlersKnowTheirOrder
    <3> QED BY <2>10, <3>1, <3>2 DEF JobError
  <2>11. CASE JobSelect(j)
    BY <1>t, <2>11 DEF TypeOK, HandlersKnowTheirOrder, JobSelect
  <2> QED BY <1>5, <2>1, <2>2, <2>3, <2>4, <2>5, <2>6, <2>7, <2>8, <2>9, <2>10, <2>11
          DEF JobStep
<1>6. CASE \E o \in Orders, s \in EditStatuses : EditRead(o, s)
  BY <1>t, <1>6, NoneAssumption DEF HandlersKnowTheirOrder, EditRead
<1>7. CASE EditSave
  BY <1>t, <1>7 DEF HandlersKnowTheirOrder, EditSave, NoEdit
<1>8. CASE Crash
  <2>1. \A j \in Jobs : /\ Stalled(j).pc # "unused" => Stalled(j).order # None
                        /\ Stalled(j).pc # "refunding"
    BY <1>t DEF TypeOK, Job, HandlersKnowTheirOrder, Stalled, Requeued, Queued, NoJob
  <2> QED BY <1>t, <1>8, <2>1 DEF HandlersKnowTheirOrder, Crash, NoCall, NoHook, NoEdit
<1>9. CASE UNCHANGED vars
  BY <1>t, <1>9 DEF HandlersKnowTheirOrder, vars
<1>10. CASE EditSelect
  BY <1>t, <1>10 DEF HandlersKnowTheirOrder, EditSelect
<1> QED
  BY <1>1, <1>2, <1>3, <1>4, <1>5, <1>6, <1>7, <1>8, <1>9, <1>10 DEF Next

\* WellFormed is an inductive invariant.
THEOREM WellFormedNext == WellFormed /\ [Next]_vars => WellFormed'
  BY TypeNext, KnowNext DEF WellFormed

\* TypeOK holds in every reachable state.
THEOREM TypeCorrect == Spec => []TypeOK
<1>1. Init => WellFormed
  BY TypeInit DEF WellFormed, Init, HandlersKnowTheirOrder, NoCall, NoHook, NoJob, NoEdit
<1> QED BY <1>1, WellFormedNext, PTL DEF Spec, WellFormed

(***************************************************************************)
(* Frames: which actions change which variable                             *)
(***************************************************************************)

LEMMA OrderFrame ==
    [Next]_vars =>
        \/ UNCHANGED <<order, mixed>>
        \/ \E o \in Orders, t \in OrderTerms : CreateOrder(o, t)
        \/ \E c \in Calls : RegisterProcessing(c) \/ RegisterSave(c) \/ RegisterCancel(c)
        \/ \E h \in Hooks : WebhookCanceled(h) \/ WebhookPayed(h)
        \/ \E j \in Jobs : JobReject(j) \/ JobComplete(j) \/ JobFail(j)
        \/ EditSave
  BY DEF Next, vars, EnqueueFree, EnqueueFreeFails, RegisterRead, RegisterSelect, RegisterStep,
         RegisterCharge, RegisterReread, RegisterError, PaymentResolves, Deliver,
         WebhookStep, WebhookRead, WebhookSelect, WebhookWithdraw, WebhookAccrue, WebhookEnqueue,
         WebhookError, JobStep, JobRead, JobSelect, JobCommand, JobVerify, JobRefundCheck,
         JobRefund, JobRecord, JobError, EditRead, EditSelect, Crash, Found, Unanswered,
         FirstStep, AnotherCycle, Refundable

LEMMA TermsFrame ==
    [Next]_vars => \/ UNCHANGED terms
                   \/ \E o \in Orders, t \in OrderTerms : CreateOrder(o, t)
  BY DEF Next, vars, EnqueueFree, EnqueueFreeFails, RegisterRead, RegisterSelect, RegisterStep,
         RegisterProcessing, RegisterSave, RegisterCancel, WebhookCanceled,
         WebhookPayed, JobReject, JobComplete, JobFail, EditSave,
         RegisterCharge, RegisterReread, RegisterError, PaymentResolves, Deliver,
         WebhookStep, WebhookRead, WebhookSelect, WebhookWithdraw, WebhookAccrue, WebhookEnqueue,
         WebhookError, JobStep, JobRead, JobSelect, JobCommand, JobVerify, JobRefundCheck,
         JobRefund, JobRecord, JobError, EditRead, EditSelect, Crash, Found, Unanswered,
         Refuses, FirstStep, AnotherCycle, Refundable

LEMMA PaymentFrame ==
    [Next]_vars =>
        \/ UNCHANGED payment
        \/ \E c \in Calls : RegisterCharge(c)
        \/ \E p \in Payments : PaymentResolves(p)
        \/ \E h \in Hooks : WebhookCanceled(h) \/ WebhookEnqueue(h)
        \/ \E j \in Jobs : JobRefund(j)
  BY DEF Next, vars, CreateOrder, EnqueueFree, EnqueueFreeFails, RegisterRead, RegisterSelect,
         RegisterStep, RegisterProcessing, RegisterReread, RegisterSave,
         RegisterCancel, RegisterError, Deliver, WebhookStep, WebhookRead, WebhookSelect,
         WebhookPayed, WebhookWithdraw, WebhookAccrue, WebhookError, JobStep,
         JobRead, JobSelect, JobReject, JobCommand, JobVerify, JobRefundCheck, JobRecord,
         JobComplete, JobFail, JobError, EditRead, EditSelect, EditSave, Crash, Found,
         Unanswered, Refuses, FirstStep, AnotherCycle, Refundable

LEMMA EffectsFrame ==
    [Next]_vars =>
        \/ UNCHANGED effects
        \/ \E h \in Hooks : WebhookWithdraw(h) \/ WebhookAccrue(h)
        \/ \E j \in Jobs : JobCommand(j) \/ JobVerify(j) \/ JobRecord(j)
  BY DEF Next, vars, CreateOrder, EnqueueFree, EnqueueFreeFails, RegisterRead, RegisterSelect,
         RegisterStep, RegisterProcessing, RegisterCharge, RegisterReread,
         RegisterSave, RegisterCancel, RegisterError, PaymentResolves, Deliver,
         WebhookStep, WebhookRead, WebhookSelect, WebhookCanceled, WebhookPayed, WebhookEnqueue,
         WebhookError, JobStep, JobRead, JobSelect, JobReject, JobRefundCheck, JobRefund,
         JobComplete, JobFail, JobError, EditRead, EditSelect, EditSave, Crash, Found,
         Unanswered, Refuses, FirstStep, Refundable

LEMMA RegFrame ==
    [Next]_vars =>
        \/ UNCHANGED reg
        \/ \E c \in Calls, o \in Orders : RegisterRead(c, o)
        \/ \E c \in Calls : RegisterStep(c) \/ RegisterError(c)
        \/ Crash
  BY DEF Next, vars, CreateOrder, EnqueueFree, EnqueueFreeFails, PaymentResolves,
         Deliver, WebhookStep, WebhookRead, WebhookSelect, WebhookCanceled, WebhookPayed,
         WebhookWithdraw, WebhookAccrue, WebhookEnqueue, WebhookError, JobStep,
         JobRead, JobSelect, JobReject, JobCommand, JobVerify, JobRefundCheck, JobRefund,
         JobRecord, JobComplete, JobFail, JobError, EditRead, EditSelect, EditSave, Found,
         Unanswered, Refuses, FirstStep, AnotherCycle, Refundable

LEMMA HookFrame ==
    [Next]_vars =>
        \/ UNCHANGED hook
        \/ \E h \in Hooks, p \in Payments : Deliver(h, p)
        \/ \E h \in Hooks : WebhookStep(h) \/ WebhookError(h)
        \/ Crash
  BY DEF Next, vars, CreateOrder, EnqueueFree, EnqueueFreeFails, PaymentResolves,
         RegisterRead, RegisterSelect, RegisterStep, RegisterProcessing, RegisterCharge,
         RegisterReread, RegisterSave, RegisterCancel, RegisterError, JobStep,
         JobRead, JobSelect, JobReject, JobCommand, JobVerify, JobRefundCheck, JobRefund,
         JobRecord, JobComplete, JobFail, JobError, EditRead, EditSelect, EditSave, FirstStep,
         AnotherCycle, Refundable

LEMMA JobFrame ==
    [Next]_vars =>
        \/ UNCHANGED job
        \/ \E o \in Orders : EnqueueFree(o)
        \/ \E h \in Hooks : WebhookEnqueue(h)
        \/ \E j \in Jobs : JobStep(j) \/ JobError(j)
        \/ Crash
  BY DEF Next, vars, CreateOrder, EnqueueFreeFails, PaymentResolves,
         RegisterRead, RegisterSelect, RegisterStep, RegisterProcessing, RegisterCharge,
         RegisterReread, RegisterSave, RegisterCancel, RegisterError, Deliver,
         WebhookStep, WebhookRead, WebhookSelect, WebhookCanceled, WebhookPayed,
         WebhookWithdraw, WebhookAccrue, WebhookError, EditRead, EditSelect, EditSave, Found,
         Unanswered, Refuses

LEMMA EditFrame ==
    [Next]_vars =>
        \/ UNCHANGED edit
        \/ \E o \in Orders, s \in EditStatuses : EditRead(o, s)
        \/ EditSelect
        \/ edit' = NoEdit
  BY DEF Next, vars, CreateOrder, EnqueueFree, EnqueueFreeFails, RegisterRead, RegisterSelect,
         RegisterStep, RegisterProcessing, RegisterCharge, RegisterReread,
         RegisterSave, RegisterCancel, RegisterError, PaymentResolves, Deliver,
         WebhookStep, WebhookRead, WebhookSelect, WebhookCanceled, WebhookPayed,
         WebhookWithdraw, WebhookAccrue, WebhookEnqueue, WebhookError, JobStep,
         JobRead, JobSelect, JobReject, JobCommand, JobVerify, JobRefundCheck, JobRefund,
         JobRecord, JobComplete, JobFail, JobError, EditSave, Crash, Found,
         Unanswered, Refuses, FirstStep, AnotherCycle, Refundable

(***************************************************************************)
(* What never changes back                                                 *)
(***************************************************************************)

\* A payment keeps its order once it exists and its state once it is final.
KeepsItsHistory(p) ==
    /\ payment[p].state # "unused" => /\ payment'[p].order = payment[p].order
                                      /\ payment'[p].state # "unused"
    /\ payment[p].state \in {"succeeded", "canceled"}
          => payment'[p].state = payment[p].state
    /\ payment[p].refunds > 0 => payment'[p].refunds > 0

LEMMA PaymentsStable ==
    WellFormed /\ [Next]_vars => \A p \in Payments : KeepsItsHistory(p)
<1> SUFFICES ASSUME WellFormed, [Next]_vars, NEW p \in Payments
             PROVE  KeepsItsHistory(p)
  OBVIOUS
<1>t. TypeOK
  BY DEF WellFormed
<1>p. payment[p] \in Payment
  BY <1>t DEF TypeOK
<1>1. CASE UNCHANGED payment
  BY <1>1 DEF KeepsItsHistory
<1>2. ASSUME NEW c \in Calls, RegisterCharge(c) PROVE KeepsItsHistory(p)
  <2>1. \/ payment'[p] = payment[p]
        \/ payment[p].state = "unused"
           /\ payment'[p] = [payment[p] EXCEPT !.state = "pending",
                                               !.order = reg[c].order]
    BY <1>t, <1>2 DEF TypeOK, RegisterCharge
  <2> QED BY <1>p, <2>1 DEF KeepsItsHistory, Payment
<1>3. ASSUME NEW q \in Payments, PaymentResolves(q) PROVE KeepsItsHistory(p)
  BY <1>t, <1>p, <1>3 DEF TypeOK, Payment, PaymentResolves, KeepsItsHistory
<1>4. ASSUME NEW h \in Hooks, WebhookCanceled(h) \/ WebhookEnqueue(h)
      PROVE  KeepsItsHistory(p)
  <2>1. payment' = [payment EXCEPT ![hook[h].pay].acked = TRUE]
    BY <1>4 DEF WebhookCanceled, WebhookEnqueue, Acknowledge, Refuses
  <2> QED BY <1>t, <1>p, <2>1 DEF TypeOK, Payment, KeepsItsHistory
<1>5. ASSUME NEW j \in Jobs, JobRefund(j) PROVE KeepsItsHistory(p)
  <2>1. payment' = payment \/ payment' = [payment EXCEPT ![job[j].pay].refunds = @ + 1]
    BY <1>5 DEF JobRefund
  <2> QED BY <1>t, <1>p, <2>1 DEF TypeOK, Payment, KeepsItsHistory
<1> QED BY <1>1, <1>2, <1>3, <1>4, <1>5, PaymentFrame

\* So what is owned or backed stays so.
OwnedLater(tx, o) ==
    tx # None => payment'[tx].order = o /\ payment'[tx].state # "unused"
BackedLater(o, p) == payment'[p].state = "succeeded" /\ payment'[p].order = o

LEMMA OwnedStable ==
    ASSUME WellFormed, [Next]_vars, NEW tx \in Payments \cup {None}, NEW o
    PROVE  /\ OwnedBy(tx, o) => OwnedLater(tx, o)
           /\ tx # None /\ Backed(o, tx) => BackedLater(o, tx)
<1>1. tx # None => KeepsItsHistory(tx)
  BY PaymentsStable
<1> QED BY <1>1 DEF OwnedBy, Backed, OwnedLater, BackedLater, KeepsItsHistory

\* Counted effects stay.
LEMMA EffectsStable ==
    ASSUME WellFormed, [Next]_vars, NEW o \in Orders
    PROVE  effects[o].sent > 0 => effects'[o].sent > 0
<1>t. TypeOK /\ effects[o] \in Effects
  BY DEF WellFormed, TypeOK
<1>1. CASE UNCHANGED effects
  BY <1>1
<1>2. ASSUME NEW h \in Hooks, WebhookWithdraw(h) \/ WebhookAccrue(h)
      PROVE  effects'[o].sent = effects[o].sent
  <2>1. CASE effects' = [effects EXCEPT ![hook[h].order].withdrawn = @ + 1]
    BY <1>t, <2>1 DEF TypeOK, Effects
  <2>2. CASE effects' = [effects EXCEPT ![hook[h].order].accrued = @ + 1]
    BY <1>t, <2>2 DEF TypeOK, Effects
  <2> QED BY <1>2, <2>1, <2>2 DEF WebhookWithdraw, WebhookAccrue
<1>3. ASSUME NEW j \in Jobs, JobCommand(j) \/ JobVerify(j) \/ JobRecord(j)
      PROVE  effects'[o].sent = effects[o].sent \/ effects'[o].sent = effects[o].sent + 1
  BY <1>t, <1>3 DEF TypeOK, Effects, JobCommand, JobVerify, JobRecord, AnotherCycle
<1>4. effects[o].sent \in Nat
  BY <1>t DEF Effects
<1> QED BY <1>1, <1>2, <1>3, <1>4, EffectsFrame

\* Only the job that asks for a payment's refund changes its refunds.
LEMMA RefundBy ==
    ASSUME TypeOK, [Next]_vars, NEW p \in Payments, payment'[p].refunds # payment[p].refunds
    PROVE  \E j \in Jobs : JobRefund(j) /\ job[j].pay = p
<1>p. payment[p] \in Payment
  BY DEF TypeOK
<1>c. ASSUME NEW c \in Calls, RegisterCharge(c) PROVE payment'[p].refunds = payment[p].refunds
  <2>1. \/ payment' = payment
        \/ \E q \in Payments : payment' = [payment EXCEPT ![q] = [@ EXCEPT
                                  !.state = "pending", !.order = reg[c].order]]
    BY <1>c DEF RegisterCharge
  <2>2. ASSUME NEW q \in Payments, payment' = [payment EXCEPT ![q] = [@ EXCEPT
                                  !.state = "pending", !.order = reg[c].order]]
        PROVE  payment'[p].refunds = payment[p].refunds
    <3>1. \/ payment'[p] = payment[p]
          \/ payment'[p] = [payment[p] EXCEPT !.state = "pending", !.order = reg[c].order]
      BY <2>2 DEF TypeOK
    <3> QED BY <1>p, <3>1 DEF Payment
  <2> QED BY <2>1, <2>2
<1>r. ASSUME NEW q \in Payments, PaymentResolves(q)
      PROVE  payment'[p].refunds = payment[p].refunds
  BY <1>p, <1>r DEF TypeOK, Payment, PaymentResolves
<1>h. ASSUME NEW h \in Hooks, WebhookCanceled(h) \/ WebhookEnqueue(h)
      PROVE  payment'[p].refunds = payment[p].refunds
  BY <1>p, <1>h DEF TypeOK, Payment, WebhookCanceled, WebhookEnqueue, Acknowledge, Refuses
<1>j. ASSUME NEW j \in Jobs, JobRefund(j), job[j].pay # p
      PROVE  payment'[p].refunds = payment[p].refunds
  BY <1>j DEF TypeOK, JobRefund
<1> QED BY <1>c, <1>r, <1>h, <1>j, PaymentFrame

\* Rows that saves mixed stay known as such.
LEMMA MixedStable == [Next]_vars => mixed \subseteq mixed'
  BY OrderFrame DEF CreateOrder, RegisterProcessing, RegisterSave, RegisterCancel,
         WebhookCanceled, WebhookPayed, JobReject, JobComplete, JobFail, EditSave, Save

\* What Carries says, of the state after the step.
CarriesLater(o, tx) ==
    /\ \E p \in Payments : BackedLater(o, p)
    /\ (tx \in Payments /\ BackedLater(o, tx)) \/ o \in mixed'

LEMMA CarriesStable ==
    ASSUME WellFormed, [Next]_vars, NEW o, NEW tx, Carries(o, tx)
    PROVE  CarriesLater(o, tx)
<1>1. \A p \in Payments : Backed(o, p) => BackedLater(o, p)
  BY OwnedStable, NoneAssumption
<1> QED BY <1>1, MixedStable DEF Carries, PaymentsOf, CarriesLater

\* What a save leaves in the row it changes: the row it was given, or a mix.
LEMMA SaveLeaves ==
    ASSUME TypeOK, NEW o \in Orders, NEW i, NEW r \in Row, NEW s \in Statuses,
           NEW seen \in Row, Save(i, [r EXCEPT !.status = s], seen),
           order'[o] # order[o]
    PROVE  /\ i = o
           /\ order'[o].status \in {s, order[o].status}
           /\ order'[o].tx \in {r.tx, order[o].tx}
           /\ (order'[o].status = s /\ order'[o].tx = r.tx) \/ o \in mixed'
<1> DEFINE w == [r EXCEPT !.status = s]
<1>1. i = o /\ order'[o] = Written(w, seen, order[o])
  BY DEF TypeOK, Save
<1>2. w.status = s /\ w.tx = r.tx
  BY DEF Row
<1>3. Written(w, seen, order[o]) = w \/ o \in mixed'
  BY <1>1 DEF Save
<1>4. /\ order'[o].status \in {w.status, order[o].status}
      /\ order'[o].tx \in {w.tx, order[o].tx}
  BY <1>1 DEF Written
<1> QED BY <1>1, <1>2, <1>3, <1>4

\* A row that is changed belongs to an order that exists, and keeps to its own
\* transactions; it says payed only where a payment was taken and completed only
\* after a job's command, whether a save wrote that or left it there.
LEMMA RowWritten ==
    ASSUME IInv, NoPaidEdits, [Next]_vars, NEW o \in Orders, order'[o] # order[o]
    PROVE  /\ order'[o].status # "absent"
           /\ OwnedBy(order'[o].tx, o)
           /\ order[o].status = "absent" => order'[o].status \notin {"payed", "completed"}
           /\ order'[o].status = "completed" => effects[o].sent > 0
           /\ ~terms[o].free /\ order'[o].status \in {"payed", "completed"}
                => /\ PaymentsOf(o) # {}
                   /\ order'[o].tx \in PaymentsOf(o) \/ o \in mixed'
<1>t. /\ WellFormed /\ TypeOK /\ TransactionsAreOwned /\ AbsentIsUntouched
      /\ PaidRowsAreBacked /\ CompletedWasCommanded
  BY DEF IInv, WellFormed
<1>o. /\ OwnedBy(order[o].tx, o)
      /\ order[o].status = "completed" => effects[o].sent > 0
      /\ ~terms[o].free /\ order[o].status \in {"payed", "completed"} => PaymentsOf(o) # {}
  BY <1>t DEF TransactionsAreOwned, CompletedWasCommanded, PaidRowsAreBacked, Carries
<1>s. ASSUME NEW i, NEW r \in Row, NEW s \in Statuses, NEW seen \in Row,
             Save(i, [r EXCEPT !.status = s], seen), OwnedBy(r.tx, i),
             order[o].status = "absent" => i # o,
             s = "completed" => effects[i].sent > 0,
             ~terms[i].free /\ s \in {"payed", "completed"}
                => PaymentsOf(i) # {} /\ (r.tx \in PaymentsOf(i) \/ i \in mixed')
      PROVE  /\ order[o].status # "absent" /\ order'[o].status # "absent"
             /\ OwnedBy(order'[o].tx, o)
             /\ order'[o].status = "completed" => effects[o].sent > 0
             /\ ~terms[o].free /\ order'[o].status \in {"payed", "completed"}
                  => /\ PaymentsOf(o) # {}
                     /\ order'[o].tx \in PaymentsOf(o) \/ o \in mixed'
  <2>1. /\ i = o
        /\ order'[o].status \in {s, order[o].status}
        /\ order'[o].tx \in {r.tx, order[o].tx}
        /\ (order'[o].status = s /\ order'[o].tx = r.tx) \/ o \in mixed'
    BY <1>t, <1>s, SaveLeaves
  <2>2. order[o].status # "absent" /\ s # "absent"
    BY <1>s, <2>1 DEF Statuses
  <2> QED BY <1>o, <1>s, <2>1, <2>2
<1>1. ASSUME NEW i \in Orders, NEW t \in OrderTerms, CreateOrder(i, t)
      PROVE  order'[o].status \in {"created", "free_processing"} /\ order'[o].tx = None
  BY <1>t, <1>1, NullsTyped DEF CreateOrder, NoRow, TypeOK
<1>2. ASSUME NEW c \in Calls, RegisterProcessing(c) \/ RegisterSave(c) \/ RegisterCancel(c)
      PROVE  /\ order[o].status # "absent" /\ order'[o].status # "absent"
             /\ OwnedBy(order'[o].tx, o)
             /\ order'[o].status = "completed" => effects[o].sent > 0
             /\ ~terms[o].free /\ order'[o].status \in {"payed", "completed"}
                  => /\ PaymentsOf(o) # {}
                     /\ order'[o].tx \in PaymentsOf(o) \/ o \in mixed'
  <2>r. /\ reg[c].snap \in Row /\ reg[c].fresh \in Row /\ reg[c].seen \in Row
        /\ reg[c].pay \in Payments \cup {None}
        /\ OwnedBy(reg[c].snap.tx, reg[c].order) /\ OwnedBy(reg[c].pay, reg[c].order)
        /\ order[o].status = "absent" => reg[c].order # o
    BY <1>t DEF TypeOK, Call, TransactionsAreOwned, AbsentIsUntouched
  <2>w. PICK r \in Row, s \in {"payment_processing", "waiting_payment", "canceled"} :
          Save(reg[c].order, [r EXCEPT !.status = s], reg[c].seen)
            /\ OwnedBy(r.tx, reg[c].order)
    <3>1. CASE RegisterSave(c)
      <4> DEFINE r == [reg[c].fresh EXCEPT !.tx = reg[c].pay]
      <4>1. r \in Row /\ r.tx = reg[c].pay
        BY <2>r DEF Row
      <4>2. [reg[c].fresh EXCEPT !.status = "waiting_payment", !.tx = reg[c].pay]
              = [r EXCEPT !.status = "waiting_payment"]
        BY <2>r DEF Row
      <4> QED BY <2>r, <3>1, <4>1, <4>2 DEF RegisterSave
    <3>2. CASE RegisterProcessing(c)
      BY <2>r, <3>2 DEF RegisterProcessing
    <3>3. CASE RegisterCancel(c)
      BY <2>r, <3>3 DEF RegisterCancel
    <3> QED BY <1>2, <3>1, <3>2, <3>3
  <2>s. s \in Statuses /\ s \notin {"payed", "completed"}
    BY DEF Statuses
  <2> QED BY <1>s, <2>r, <2>w, <2>s
<1>3. ASSUME NEW h \in Hooks, WebhookCanceled(h) \/ WebhookPayed(h)
      PROVE  /\ order[o].status # "absent" /\ order'[o].status # "absent"
             /\ OwnedBy(order'[o].tx, o)
             /\ order'[o].status = "completed" => effects[o].sent > 0
             /\ ~terms[o].free /\ order'[o].status \in {"payed", "completed"}
                  => /\ PaymentsOf(o) # {}
                     /\ order'[o].tx \in PaymentsOf(o) \/ o \in mixed'
  <2>h. /\ hook[h].snap \in Row /\ hook[h].pay \in Payments /\ hook[h].seen \in Row
        /\ payment[hook[h].pay].order = hook[h].order
        /\ payment[hook[h].pay].state = hook[h].event
        /\ hook[h].event \in {"succeeded", "canceled"}
        /\ hook[h].snap.tx = hook[h].pay
        /\ order[o].status = "absent" => hook[h].order # o
    BY <1>t, <1>3 DEF TypeOK, Hook, IInv, HooksMatchPayments, HandlersKnowTheirOrder,
                      WebhookCanceled, WebhookPayed, Refuses, AbsentIsUntouched
  <2>p. OwnedBy(hook[h].snap.tx, hook[h].order)
    BY <2>h DEF OwnedBy
  <2>1. CASE WebhookCanceled(h)
    <3>1. Save(hook[h].order, [hook[h].snap EXCEPT !.status = "canceled"], hook[h].seen)
      BY <2>1 DEF WebhookCanceled
    <3> QED BY <1>s, <2>h, <2>p, <3>1 DEF Statuses
  <2>2. CASE WebhookPayed(h)
    <3>1. Save(hook[h].order, [hook[h].snap EXCEPT !.status = "payed"], hook[h].seen)
      BY <2>2 DEF WebhookPayed
    <3>2. hook[h].event = "succeeded"
      BY <2>2, <2>h DEF WebhookPayed, Refuses
    <3>3. hook[h].snap.tx \in PaymentsOf(hook[h].order)
      BY <2>h, <3>2 DEF PaymentsOf, Backed
    <3> QED BY <1>s, <2>h, <2>p, <3>1, <3>3 DEF Statuses
  <2> QED BY <1>3, <2>1, <2>2
<1>4. ASSUME NEW j \in Jobs, JobReject(j) \/ JobComplete(j) \/ JobFail(j)
      PROVE  /\ order[o].status # "absent" /\ order'[o].status # "absent"
             /\ OwnedBy(order'[o].tx, o)
             /\ order'[o].status = "completed" => effects[o].sent > 0
             /\ ~terms[o].free /\ order'[o].status \in {"payed", "completed"}
                  => /\ PaymentsOf(o) # {}
                     /\ order'[o].tx \in PaymentsOf(o) \/ o \in mixed'
  <2>j. /\ job[j].snap \in Row /\ job[j].seen \in Row
        /\ OwnedBy(job[j].snap.tx, job[j].order)
        /\ order[o].status = "absent" => job[j].order # o
    BY <1>t DEF TypeOK, Job, TransactionsAreOwned, AbsentIsUntouched
  <2>1. CASE JobReject(j) \/ JobFail(j)
    <3>1. Save(job[j].order, [job[j].snap EXCEPT !.status = "failed"], job[j].seen)
      BY <2>1 DEF JobReject, JobFail
    <3> QED BY <1>s, <2>j, <3>1 DEF Statuses
  <2>2. CASE JobComplete(j)
    <3>1. Save(job[j].order, [job[j].snap EXCEPT !.status = "completed"], job[j].seen)
      BY <2>2 DEF JobComplete
    <3>2. job[j].pc = "complete"
      BY <2>2 DEF JobComplete
    <3>3. /\ effects[job[j].order].sent > 0
          /\ ~terms[job[j].order].free => Carries(job[j].order, job[j].snap.tx)
      BY <3>2 DEF IInv, JobsAreBacked
    <3>4. ~terms[job[j].order].free =>
            /\ PaymentsOf(job[j].order) # {}
            /\ job[j].snap.tx \in PaymentsOf(job[j].order) \/ job[j].order \in mixed'
      BY <3>3, MixedStable DEF Carries
    <3> QED BY <1>s, <2>j, <3>1, <3>3, <3>4 DEF Statuses
  <2> QED BY <1>4, <2>1, <2>2
<1>5. ASSUME EditSave
      PROVE  /\ order[o].status # "absent" /\ order'[o].status # "absent"
             /\ OwnedBy(order'[o].tx, o)
             /\ order'[o].status = "completed" => effects[o].sent > 0
             /\ ~terms[o].free /\ order'[o].status \in {"payed", "completed"}
                  => /\ PaymentsOf(o) # {}
                     /\ order'[o].tx \in PaymentsOf(o) \/ o \in mixed'
  <2>1. /\ edit.snap \in Row /\ edit.seen \in Row /\ edit.status \in EditStatuses
        /\ OwnedBy(edit.snap.tx, edit.order)
        /\ order[o].status = "absent" => edit.order # o
    BY <1>t, <1>5 DEF TypeOK, Edit, TransactionsAreOwned, WellFormed, HandlersKnowTheirOrder,
                      EditSave, AbsentIsUntouched
  <2>2. Save(edit.order, [edit.snap EXCEPT !.status = edit.status], edit.seen)
    BY <1>5 DEF EditSave
  <2>3. edit.status \in Statuses /\ edit.status \notin {"payed", "completed"}
    BY <2>1, EditAssumption DEF NoPaidEdits
  <2> QED BY <1>s, <2>1, <2>2, <2>3
<1>6. order' # order
  OBVIOUS
<1> QED BY <1>1, <1>2, <1>3, <1>4, <1>5, <1>6, OrderFrame DEF OwnedBy

(***************************************************************************)
(* The inductive step, one conjunct of IInv at a time                      *)
(***************************************************************************)

\* Transactions stay with their order.
LEMMA OwnedNext ==
    IInv /\ NoPaidEdits /\ [Next]_vars => TransactionsAreOwned'
<1> SUFFICES ASSUME IInv, NoPaidEdits, [Next]_vars PROVE TransactionsAreOwned'
  OBVIOUS
<1>t. WellFormed /\ TypeOK /\ TransactionsAreOwned /\ TypeOK'
  BY WellFormedNext DEF IInv, WellFormed
<1>n. /\ NoRow.tx = None /\ \A o : OwnedLater(None, o)
      /\ NoCall.snap.tx = None /\ NoCall.fresh.tx = None /\ NoCall.pay = None
      /\ NoJob.snap.tx = None /\ NoEdit.snap.tx = None
  BY DEF NoRow, NoCall, NoJob, NoEdit, OwnedLater
<1>o. ASSUME NEW tx \in Payments \cup {None}, NEW o, OwnedBy(tx, o)
      PROVE  OwnedLater(tx, o)
  BY <1>t, <1>o, OwnedStable
<1>r. \A o \in Orders : /\ order[o].tx \in Payments \cup {None}
                        /\ OwnedLater(order[o].tx, o)
  BY <1>t, <1>o DEF TypeOK, Row, TransactionsAreOwned
<1>1. \A o \in Orders : OwnedLater(order'[o].tx, o)
  <2> TAKE o \in Orders
  <2>1. order'[o].tx \in Payments \cup {None}
    BY <1>t DEF TypeOK, Row
  <2>2. OwnedBy(order'[o].tx, o)
    BY <1>t, RowWritten DEF TransactionsAreOwned
  <2> QED BY <2>1, <2>2, <1>o
<1>2. \A c \in Calls : /\ OwnedLater(reg'[c].snap.tx, reg'[c].order)
                       /\ OwnedLater(reg'[c].fresh.tx, reg'[c].order)
                       /\ OwnedLater(reg'[c].pay, reg'[c].order)
  <2> DEFINE Good(k) == /\ OwnedLater(k.snap.tx, k.order)
                        /\ OwnedLater(k.fresh.tx, k.order)
                        /\ OwnedLater(k.pay, k.order)
  <2>0. \A c \in Calls : Good(reg[c]) /\ reg[c] \in Call
    <3> TAKE c \in Calls
    <3>1. /\ reg[c].snap.tx \in Payments \cup {None}
          /\ reg[c].fresh.tx \in Payments \cup {None}
          /\ reg[c].pay \in Payments \cup {None}
      BY <1>t DEF TypeOK, Call, Row
    <3> QED BY <1>t, <1>o, <3>1 DEF TypeOK, TransactionsAreOwned
  <2>n. Good(NoCall)
    BY <1>n
  <2>p. \A k \in Call : \A s : Good(k) => Good([k EXCEPT !.pc = s])
    BY DEF Call
  <2>1. CASE UNCHANGED reg
    BY <2>0, <2>1
  <2>2. ASSUME NEW c \in Calls, NEW o \in Orders, RegisterRead(c, o)
        PROVE  \A d \in Calls : Good(reg'[d])
    <3>1. reg' = [reg EXCEPT ![c] = [NoCall EXCEPT !.pc = "processing", !.order = o,
                                                   !.snap = order[o]]]
      BY <2>2 DEF RegisterRead
    <3>2. Good([NoCall EXCEPT !.pc = "processing", !.order = o, !.snap = order[o]])
      BY <1>n, <1>r DEF NoCall
    <3> QED BY <1>t, <2>0, <3>1, <3>2 DEF TypeOK
  <2>3. ASSUME NEW c \in Calls, RegisterStep(c) \/ RegisterError(c)
        PROVE  \A d \in Calls : Good(reg'[d])
    <3>1. ASSUME NEW s, \/ reg' = [reg EXCEPT ![c].pc = s]
                        \/ reg' = [reg EXCEPT ![c].seen = s]
                        \/ reg' = [reg EXCEPT ![c].pc = s, ![c].seen = NoRow]
          PROVE  \A d \in Calls : Good(reg'[d])
      <4>1. \A d \in Calls : /\ reg'[d].snap = reg[d].snap /\ reg'[d].fresh = reg[d].fresh
                             /\ reg'[d].pay = reg[d].pay /\ reg'[d].order = reg[d].order
        BY <1>t, <3>1 DEF TypeOK, Call
      <4> QED BY <2>0, <4>1
    <3>c. CASE reg' = [reg EXCEPT ![c] = Caught(@)]
      <4>1. reg' = [reg EXCEPT ![c] = Caught(reg[c])]
        BY <1>t, <3>c DEF TypeOK
      <4>2. /\ Caught(reg[c]).snap = reg[c].snap /\ Caught(reg[c]).order = reg[c].order
            /\ Caught(reg[c]).fresh = NoRow /\ Caught(reg[c]).pay = None
        BY DEF Caught, NoCall
      <4>3. Good(Caught(reg[c]))
        BY <2>0, <1>n, <4>2
      <4> QED BY <1>t, <2>0, <4>1, <4>3 DEF TypeOK
    <3>2. CASE reg' = [reg EXCEPT ![c] = NoCall]
      BY <1>t, <2>0, <2>n, <3>2 DEF TypeOK
    <3>3. CASE RegisterCharge(c)
      <4>1. ASSUME NEW p \in Payments, payment[p].state = "unused",
                   payment' = [payment EXCEPT ![p] = [@ EXCEPT !.state = "pending",
                                                               !.order = reg[c].order]],
                   reg' = [reg EXCEPT ![c].pc = "reread", ![c].pay = p]
            PROVE  \A d \in Calls : Good(reg'[d])
        <5>1. OwnedLater(p, reg[c].order)
          BY <1>t, <4>1 DEF TypeOK, Payment, OwnedLater
        <5>2. \A d \in Calls : /\ reg'[d].snap = reg[d].snap /\ reg'[d].fresh = reg[d].fresh
                               /\ reg'[d].pay = (IF d = c THEN p ELSE reg[d].pay)
                               /\ reg'[d].order = reg[d].order
          BY <1>t, <4>1 DEF TypeOK, Call
        <5> QED BY <2>0, <5>1, <5>2
      <4> QED BY <3>1, <3>3, <4>1 DEF RegisterCharge
    <3>4. CASE RegisterReread(c)
      <4>1. reg[c].order \in Orders
        BY <1>t, <3>4 DEF TypeOK, Call, WellFormed, HandlersKnowTheirOrder, RegisterReread
      <4>2. reg' = [reg EXCEPT ![c].pc = "save", ![c].fresh = order[reg[c].order]]
        BY <3>4 DEF RegisterReread
      <4>3. \A d \in Calls : /\ reg'[d].snap = reg[d].snap /\ reg'[d].pay = reg[d].pay
                             /\ reg'[d].order = reg[d].order
                             /\ reg'[d].fresh = (IF d = c THEN order[reg[c].order]
                                                          ELSE reg[d].fresh)
        BY <1>t, <4>2 DEF TypeOK, Call
      <4> QED BY <2>0, <1>r, <4>1, <4>3
    <3> QED BY <2>3, <3>1, <3>c, <3>2, <3>3, <3>4
         DEF RegisterStep, RegisterError, RegisterSelect, RegisterProcessing, RegisterSave,
         RegisterCancel
  <2>4. CASE Crash
    BY <2>n, <2>4 DEF Crash
  <2> QED BY <2>1, <2>2, <2>3, <2>4, RegFrame
<1>3. \A j \in Jobs : OwnedLater(job'[j].snap.tx, job'[j].order)
  <2> DEFINE Good(k) == OwnedLater(k.snap.tx, k.order)
  <2>0. \A j \in Jobs : Good(job[j])
    <3> TAKE j \in Jobs
    <3>1. job[j].snap.tx \in Payments \cup {None}
      BY <1>t DEF TypeOK, Job, Row
    <3> QED BY <1>t, <1>o, <3>1 DEF TransactionsAreOwned
  <2>n. /\ Good(NoJob) /\ \A o : Good(Queued(o))
        /\ \A j \in Jobs : \A a, s : Good(Requeued(j, a, s))
    BY <1>n DEF NoJob, Queued, Requeued
  <2>a. ASSUME NEW o, AddJob(o) PROVE \A i \in Jobs : Good(job'[i])
    BY <1>t, <2>0, <2>n, <2>a DEF TypeOK, AddJob
  <2>f. ASSUME NEW j \in Jobs, AttemptFailed(j) PROVE \A i \in Jobs : Good(job'[i])
    BY <1>t, <2>0, <2>n, <2>f DEF TypeOK, AttemptFailed
  <2>1. CASE UNCHANGED job
    BY <2>0, <2>1
  <2>2. ASSUME NEW o \in Orders, EnqueueFree(o) PROVE \A i \in Jobs : Good(job'[i])
    BY <2>2, <2>a DEF EnqueueFree
  <2>3. ASSUME NEW h \in Hooks, WebhookEnqueue(h) PROVE \A i \in Jobs : Good(job'[i])
    BY <2>3, <2>a DEF WebhookEnqueue
  <2>4. ASSUME NEW j \in Jobs, JobStep(j) \/ JobError(j) PROVE \A i \in Jobs : Good(job'[i])
    <3>1. CASE \A i \in Jobs : job'[i].snap = job[i].snap /\ job'[i].order = job[i].order
      BY <2>0, <3>1
    <3>2. CASE JobRead(j)
      <4>1. job[j].order \in Orders
        BY <1>t, <3>2 DEF TypeOK, Job, WellFormed, HandlersKnowTheirOrder, JobRead, FirstStep
      <4>2. \A i \in Jobs : /\ job'[i].order = job[i].order
                            /\ job'[i].snap = (IF i = j THEN order[job[j].order] ELSE job[i].snap)
        BY <1>t, <3>2 DEF TypeOK, Job, JobRead, FirstStep
      <4> QED BY <2>0, <1>r, <4>1, <4>2
    <3>3. CASE \/ JobSelect(j) \/ JobCommand(j) \/ JobVerify(j) \/ JobRefundCheck(j)
               \/ JobRefund(j) \/ JobRecord(j)
      <4>1. \A i \in Jobs : job'[i].snap = job[i].snap /\ job'[i].order = job[i].order
        BY <1>t, <3>3 DEF TypeOK, Job, JobSelect, JobCommand, JobVerify, JobRefundCheck,
                          JobRefund, JobRecord, AnotherCycle, Refundable
      <4> QED BY <3>1, <4>1
    <3>4. CASE JobReject(j) \/ JobFail(j)
      BY <3>4, <2>f DEF JobReject, JobFail
    <3>5. CASE JobComplete(j)
      BY <1>t, <3>5, <2>0, <2>n DEF TypeOK, JobComplete
    <3>6. CASE JobError(j)
      <4>1. CASE job' = [job EXCEPT ![j].pc = "fail", ![j].seen = NoRow]
        BY <1>t, <3>1, <4>1 DEF TypeOK, Job
      <4> QED BY <3>6, <4>1, <2>f DEF JobError
    <3> QED BY <2>4, <3>2, <3>3, <3>4, <3>5, <3>6 DEF JobStep
  <2>5. CASE Crash
    BY <1>t, <2>0, <2>n, <2>5 DEF TypeOK, Crash, Stalled
  <2> QED BY <2>1, <2>2, <2>3, <2>4, <2>5, JobFrame
<1>4. OwnedLater(edit'.snap.tx, edit'.order)
  <2>1. CASE UNCHANGED edit
    <3>1. edit.snap.tx \in Payments \cup {None}
      BY <1>t DEF TypeOK, Edit, Row
    <3> QED BY <1>t, <1>o, <2>1, <3>1 DEF TransactionsAreOwned
  <2>2. ASSUME NEW o \in Orders, NEW s \in EditStatuses, EditRead(o, s)
        PROVE  OwnedLater(edit'.snap.tx, edit'.order)
    BY <1>r, <2>2 DEF EditRead
  <2>3. CASE edit' = NoEdit
    BY <1>n, <2>3
  <2>4. CASE EditSelect
    <3>1. edit.snap.tx \in Payments \cup {None}
      BY <1>t DEF TypeOK, Edit, Row
    <3>2. edit'.snap = edit.snap /\ edit'.order = edit.order
      BY <1>t, <2>4 DEF TypeOK, Edit, EditSelect
    <3> QED BY <1>t, <1>o, <3>1, <3>2 DEF TransactionsAreOwned
  <2> QED BY <2>1, <2>2, <2>3, <2>4, EditFrame
<1>5. ASSUME NEW p \in Payments, payment'[p].state # "unused" PROVE payment'[p].order # None
  <2>p. payment[p] \in Payment /\ KeepsItsHistory(p)
    BY <1>t, PaymentsStable DEF TypeOK
  <2>1. CASE payment[p].state # "unused"
    BY <1>t, <2>1, <2>p DEF TransactionsAreOwned, KeepsItsHistory
  <2>2. CASE payment[p].state = "unused"
    <3>1. ASSUME NEW c \in Calls, RegisterCharge(c) PROVE payment'[p].order # None
      <4>1. reg[c].order # None
        BY <3>1 DEF RegisterCharge, IInv, HandlersKnowTheirOrder
      <4>2. \/ payment' = payment
            \/ \E q \in Payments : payment' = [payment EXCEPT ![q] = [@ EXCEPT
                                      !.state = "pending", !.order = reg[c].order]]
        BY <3>1 DEF RegisterCharge
      <4>3. payment' # payment
        BY <1>5, <2>2
      <4>4. PICK q \in Payments : payment' = [payment EXCEPT ![q] = [@ EXCEPT
                                      !.state = "pending", !.order = reg[c].order]]
        BY <4>2, <4>3
      <4>5. p = q
        BY <1>t, <1>5, <2>2, <4>4 DEF TypeOK
      <4>6. payment'[p] = [payment[p] EXCEPT !.state = "pending", !.order = reg[c].order]
        BY <1>t, <4>4, <4>5 DEF TypeOK
      <4> QED BY <2>p, <4>1, <4>6 DEF Payment
    <3>2. ASSUME NEW q \in Payments, PaymentResolves(q) PROVE payment'[p].state = "unused"
      BY <1>t, <2>2, <2>p, <3>2 DEF TypeOK, Payment, PaymentResolves
    <3>3. ASSUME NEW h \in Hooks, WebhookCanceled(h) \/ WebhookEnqueue(h)
          PROVE  payment'[p].state = "unused"
      BY <1>t, <2>2, <2>p, <3>3 DEF TypeOK, Payment, WebhookCanceled, WebhookEnqueue, Acknowledge, Refuses
    <3>4. ASSUME NEW j \in Jobs, JobRefund(j) PROVE payment'[p].state = "unused"
      BY <1>t, <2>2, <2>p, <3>4 DEF TypeOK, Payment, JobRefund
    <3> QED BY <1>5, <2>2, <3>1, <3>2, <3>3, <3>4, PaymentFrame
  <2> QED BY <2>1, <2>2
<1>6. ASSUME NEW p \in Payments, payment'[p].refunds > 0 PROVE payment'[p].state = "succeeded"
  <2>p. payment[p] \in Payment /\ KeepsItsHistory(p)
    BY <1>t, PaymentsStable DEF TypeOK
  <2>1. CASE payment[p].refunds > 0
    BY <1>t, <2>1, <2>p DEF TransactionsAreOwned, KeepsItsHistory
  <2>2. CASE payment'[p].refunds # payment[p].refunds
    <3>1. PICK j \in Jobs : JobRefund(j) /\ job[j].pay = p
      BY <2>2, RefundBy, <1>t
    <3>2. payment[p].state = "succeeded"
      BY <2>2, <3>1 DEF JobRefund
    <3> QED BY <2>p, <3>2 DEF KeepsItsHistory
  <2> QED BY <1>6, <2>1, <2>2
<1> QED BY <1>1, <1>2, <1>3, <1>4, <1>5, <1>6 DEF TransactionsAreOwned, OwnedLater, OwnedBy

\* A webhook request keeps telling the final state of its order's payment.
LEMMA HooksNext == IInv /\ [Next]_vars => HooksMatchPayments'
<1> SUFFICES ASSUME IInv, [Next]_vars PROVE HooksMatchPayments'
  OBVIOUS
<1>t. WellFormed /\ TypeOK /\ HandlersKnowTheirOrder /\ HooksMatchPayments
  BY DEF IInv, WellFormed
<1> DEFINE Good(k) ==
      /\ k.pc # "idle" => /\ k.event \in {"succeeded", "canceled"}
                          /\ payment'[k.pay].state = k.event
      /\ k.pc \notin {"idle", "received"} => payment'[k.pay].order = k.order
      /\ k.pc = "write" => k.snap.tx = k.pay
      /\ k.pc \in {"withdraw", "accrue", "enqueue"} => k.event = "succeeded"
<1>0. \A h \in Hooks : Good(hook[h]) /\ hook[h] \in Hook
  <2> TAKE h \in Hooks
  <2>1. hook[h].pc # "idle" => hook[h].pay \in Payments
    BY <1>t DEF TypeOK, Hook, HandlersKnowTheirOrder
  <2>2. hook[h].pc # "idle" => KeepsItsHistory(hook[h].pay)
    BY <1>t, <2>1, PaymentsStable
  <2> QED BY <1>t, <2>2 DEF TypeOK, HooksMatchPayments, KeepsItsHistory
<1>n. Good(NoHook)
  BY DEF NoHook
<1> SUFFICES \A h \in Hooks : Good(hook'[h])
  BY DEF HooksMatchPayments
<1>i. ASSUME NEW h \in Hooks, hook' = [hook EXCEPT ![h] = NoHook]
      PROVE  \A g \in Hooks : Good(hook'[g])
  BY <1>t, <1>0, <1>n, <1>i DEF TypeOK
<1>1. CASE UNCHANGED hook
  BY <1>0, <1>1
<1>2. ASSUME NEW h \in Hooks, NEW p \in Payments, Deliver(h, p)
      PROVE  \A g \in Hooks : Good(hook'[g])
  <2>1. Good([NoHook EXCEPT !.pc = "received", !.pay = p, !.event = payment[p].state])
    BY <1>2 DEF Deliver, NoHook
  <2>2. hook' = [hook EXCEPT ![h] = [NoHook EXCEPT !.pc = "received", !.pay = p,
                                                   !.event = payment[p].state]]
    BY <1>2 DEF Deliver
  <2> QED BY <1>t, <1>0, <2>1, <2>2 DEF TypeOK
<1>3. ASSUME NEW h \in Hooks, WebhookStep(h) \/ WebhookError(h)
      PROVE  \A g \in Hooks : Good(hook'[g])
  <2>s. ASSUME NEW s \in {"withdraw", "accrue", "enqueue"}, hook[h].event = "succeeded",
               hook[h].pc \notin {"idle", "received"},
               hook' = [hook EXCEPT ![h].pc = s]
        PROVE  \A g \in Hooks : Good(hook'[g])
    <3>1. Good([hook[h] EXCEPT !.pc = s])
      BY <1>0, <2>s DEF Hook
    <3> QED BY <1>t, <1>0, <2>s, <3>1 DEF TypeOK
  <2>1. CASE WebhookRead(h)
    <3>1. ASSUME NEW o \in Orders, order[o].tx = hook[h].pay, hook[h].pc = "received",
                 hook' = [hook EXCEPT ![h] = [@ EXCEPT !.pc = "write", !.order = o,
                                                       !.snap = order[o]]]
          PROVE  \A g \in Hooks : Good(hook'[g])
      <4>1. hook[h].pay \in Payments
        BY <1>t, <3>1 DEF TypeOK, Hook, HandlersKnowTheirOrder
      <4>2. payment[hook[h].pay].order = o /\ payment[hook[h].pay].state # "unused"
        BY <3>1, <4>1, NoneAssumption DEF IInv, TransactionsAreOwned, OwnedBy
      <4>3. payment'[hook[h].pay].order = o
        BY <1>t, <4>1, <4>2, PaymentsStable DEF KeepsItsHistory
      <4>4. Good([hook[h] EXCEPT !.pc = "write", !.order = o, !.snap = order[o]])
        BY <1>0, <3>1, <4>3 DEF Hook
      <4> QED BY <1>t, <1>0, <3>1, <4>4 DEF TypeOK
    <3> QED BY <2>1, <3>1, <1>i DEF WebhookRead, Found, Unanswered
  <2>2. CASE WebhookCanceled(h) \/ WebhookEnqueue(h) \/ WebhookError(h)
    BY <2>2, <1>i DEF WebhookCanceled, WebhookEnqueue, WebhookError, Acknowledge, Unanswered, Refuses
  <2>3. CASE WebhookPayed(h)
    <3>1. hook[h].event = "succeeded" /\ hook[h].pc = "write"
      BY <1>0, <2>3 DEF WebhookPayed, Refuses
    <3>2. PICK s \in {"withdraw", "accrue", "enqueue"} :
            hook' = [hook EXCEPT ![h].pc = s, ![h].snap = NoRow, ![h].seen = NoRow]
      BY <2>3 DEF WebhookPayed, AfterWithdraw, Refuses
    <3> DEFINE m == [hook[h] EXCEPT !.pc = s, !.snap = NoRow, !.seen = NoRow]
    <3>3. hook' = [hook EXCEPT ![h] = m]
      BY <1>t, <3>2 DEF TypeOK
    <3>4. /\ m.pc = s /\ m.event = hook[h].event /\ m.pay = hook[h].pay
          /\ m.order = hook[h].order
      BY <1>0 DEF Hook
    <3>5. Good(m)
      BY <1>0, <3>1, <3>4
    <3> HIDE DEF m
    <3> QED BY <1>t, <1>0, <3>3, <3>5 DEF TypeOK
  <2>6. CASE WebhookSelect(h)
    <3> DEFINE m == [hook[h] EXCEPT !.seen = order[hook[h].order]]
    <3>1. hook' = [hook EXCEPT ![h] = m]
      BY <1>t, <2>6 DEF TypeOK, WebhookSelect
    <3>2. /\ m.pc = hook[h].pc /\ m.event = hook[h].event /\ m.pay = hook[h].pay
          /\ m.order = hook[h].order /\ m.snap = hook[h].snap
      BY <1>0 DEF Hook
    <3>3. Good(m)
      BY <1>0, <3>2
    <3> HIDE DEF m
    <3> QED BY <1>t, <1>0, <3>1, <3>3 DEF TypeOK
  <2>4. CASE WebhookWithdraw(h)
    BY <1>0, <2>4, <2>s DEF WebhookWithdraw, AfterWithdraw
  <2>5. CASE WebhookAccrue(h)
    BY <1>0, <2>5, <2>s DEF WebhookAccrue
  <2> QED BY <1>3, <2>1, <2>2, <2>3, <2>4, <2>5, <2>6 DEF WebhookStep
<1>4. CASE Crash
  BY <1>4, <1>n DEF Crash
<1> QED BY <1>1, <1>2, <1>3, <1>4, HookFrame

\* The terms of an order are fixed once it exists, and it does not disappear.
LEMMA TermsStable ==
    ASSUME IInv, NoPaidEdits, [Next]_vars, NEW o \in Orders,
           order[o].status # "absent"
    PROVE  terms'[o] = terms[o] /\ order'[o].status # "absent"
<1>1. order'[o].status # "absent"
  BY RowWritten
<1>2. ASSUME NEW i \in Orders, NEW t \in OrderTerms, CreateOrder(i, t)
      PROVE  terms'[o] = terms[o]
  BY <1>2 DEF CreateOrder, IInv, TypeOK
<1> QED BY <1>1, <1>2, TermsFrame

\* Nothing is done for an order before it is created.
LEMMA AbsentNext == IInv /\ NoPaidEdits /\ [Next]_vars => AbsentIsUntouched'
<1> SUFFICES ASSUME IInv, NoPaidEdits, [Next]_vars, NEW o \in Orders,
                    order'[o].status = "absent"
             PROVE  /\ order'[o].tx = None
                    /\ o \notin creating'
                    /\ effects'[o] = NoEffects
                    /\ \A c \in Calls : reg'[c].order # o
                    /\ \A j \in Jobs : job'[j].order # o
                    /\ \A h \in Hooks : hook'[h].order # o
                    /\ edit'.order # o
  BY DEF AbsentIsUntouched
<1>t. WellFormed /\ TypeOK /\ HandlersKnowTheirOrder /\ AbsentIsUntouched
  BY DEF IInv, WellFormed
<1>a. order'[o] = order[o] /\ order[o].status = "absent"
  BY RowWritten
<1>b. /\ order[o].tx = None /\ effects[o] = NoEffects /\ o \notin creating
      /\ \A c \in Calls : reg[c].order # o
      /\ \A j \in Jobs : job[j].order # o
      /\ \A h \in Hooks : hook[h].order # o
      /\ edit.order # o
  BY <1>t, <1>a DEF AbsentIsUntouched
<1>n. NoCall.order # o /\ NoHook.order # o /\ NoJob.order # o /\ NoEdit.order # o
  BY NoneAssumption DEF NoCall, NoHook, NoJob, NoEdit
<1>1. effects'[o] = NoEffects
  <2>1. ASSUME NEW h \in Hooks, WebhookWithdraw(h) \/ WebhookAccrue(h)
        PROVE  effects'[o] = effects[o]
    BY <1>t, <1>b, <2>1 DEF TypeOK, WebhookWithdraw, WebhookAccrue
  <2>2. ASSUME NEW j \in Jobs, JobCommand(j) \/ JobVerify(j) \/ JobRecord(j)
        PROVE  effects'[o] = effects[o]
    BY <1>t, <1>b, <2>2 DEF TypeOK, JobCommand, JobVerify, JobRecord, AnotherCycle
  <2> QED BY <1>b, <2>1, <2>2, EffectsFrame
<1>2. \A j \in Jobs : job'[j].order # o
  <2>a. ASSUME NEW i, i # o, AddJob(i) PROVE \A j \in Jobs : job'[j].order # o
    BY <1>t, <1>b, <2>a DEF TypeOK, AddJob, Queued, NoJob
  <2>q. \A j \in Jobs : \A a, s : Requeued(j, a, s).order # o
    BY <1>b DEF Requeued, Queued, NoJob
  <2>1. ASSUME NEW i \in Orders, EnqueueFree(i) PROVE \A j \in Jobs : job'[j].order # o
    <3>1. i # o
      BY <1>b, <2>1 DEF EnqueueFree
    <3> QED BY <2>1, <2>a, <3>1 DEF EnqueueFree
  <2>2. ASSUME NEW h \in Hooks, WebhookEnqueue(h) PROVE \A j \in Jobs : job'[j].order # o
    BY <1>b, <2>2, <2>a DEF WebhookEnqueue
  <2>3. ASSUME NEW i \in Jobs, JobStep(i) \/ JobError(i)
        PROVE  \A j \in Jobs : job'[j].order # o
    <3>1. CASE AttemptFailed(i)
      BY <1>t, <1>b, <1>n, <2>q, <3>1 DEF TypeOK, AttemptFailed
    <3>2. CASE \A j \in Jobs : job'[j].order = job[j].order
      BY <1>b, <3>2
    <3>3. CASE JobComplete(i)
      BY <1>t, <1>b, <1>n, <3>3 DEF TypeOK, JobComplete
    <3>4. CASE \/ JobRead(i) \/ JobSelect(i) \/ JobCommand(i) \/ JobVerify(i)
               \/ JobRefundCheck(i) \/ JobRefund(i) \/ JobRecord(i)
      BY <1>t, <3>2, <3>4 DEF TypeOK, Job, JobRead, JobSelect, JobCommand, JobVerify,
         JobRefundCheck, JobRefund, JobRecord, FirstStep, AnotherCycle, Refundable
    <3>5. CASE job' = [job EXCEPT ![i].pc = "fail", ![i].seen = NoRow]
      BY <1>t, <3>2, <3>5 DEF TypeOK, Job
    <3> QED BY <2>3, <3>1, <3>3, <3>4, <3>5 DEF JobStep, JobReject, JobFail, JobError
  <2>4. CASE Crash
    BY <1>t, <1>b, <1>n, <2>q, <2>4 DEF TypeOK, Crash, Stalled
  <2> QED BY <1>b, <2>1, <2>2, <2>3, <2>4, JobFrame
<1>3. \A h \in Hooks : hook'[h].order # o
  <2>i. ASSUME NEW h \in Hooks, hook' = [hook EXCEPT ![h] = NoHook]
        PROVE  \A g \in Hooks : hook'[g].order # o
    BY <1>t, <1>b, <1>n, <2>i DEF TypeOK
  <2>1. ASSUME NEW h \in Hooks, NEW p \in Payments, Deliver(h, p)
        PROVE  \A g \in Hooks : hook'[g].order # o
    BY <1>t, <1>b, <2>1, NoneAssumption DEF TypeOK, Deliver, NoHook
  <2>2. ASSUME NEW h \in Hooks, WebhookStep(h) \/ WebhookError(h)
        PROVE  \A g \in Hooks : hook'[g].order # o
    <3>1. CASE WebhookRead(h)
      <4>1. ASSUME NEW i \in Orders, order[i].tx = hook[h].pay, hook[h].pc = "received",
                   hook' = [hook EXCEPT ![h] = [@ EXCEPT !.pc = "write", !.order = i,
                                                         !.snap = order[i]]]
            PROVE  \A g \in Hooks : hook'[g].order # o
        <5>1. i # o
          BY <1>t, <1>b, <4>1 DEF HandlersKnowTheirOrder
        <5>2. \A g \in Hooks : hook'[g].order = (IF g = h THEN i ELSE hook[g].order)
          BY <1>t, <4>1 DEF TypeOK, Hook
        <5> QED BY <1>b, <5>1, <5>2
      <4> QED BY <3>1, <4>1, <2>i DEF WebhookRead, Found, Unanswered
    <3>2. CASE WebhookCanceled(h) \/ WebhookEnqueue(h) \/ WebhookError(h)
      BY <3>2, <2>i DEF WebhookCanceled, WebhookEnqueue, WebhookError, Acknowledge, Unanswered, Refuses
    <3>3. CASE \/ WebhookSelect(h) \/ WebhookPayed(h) \/ WebhookWithdraw(h)
               \/ WebhookAccrue(h)
      <4>1. \A g \in Hooks : hook'[g].order = hook[g].order
        BY <1>t, <3>3 DEF TypeOK, Hook, WebhookSelect, WebhookPayed, WebhookWithdraw, WebhookAccrue, Refuses
      <4> QED BY <1>b, <4>1
    <3> QED BY <2>2, <3>1, <3>2, <3>3 DEF WebhookStep
  <2>3. CASE Crash
    BY <1>n, <2>3 DEF Crash
  <2> QED BY <1>b, <2>1, <2>2, <2>3, HookFrame
<1>4. o \notin creating'
  <2>1. ASSUME NEW i \in Orders, NEW t \in OrderTerms, CreateOrder(i, t)
        PROVE  o \notin creating'
    <3>1. i # o
      BY <1>t, <1>a, <2>1 DEF CreateOrder, TypeOK, NoRow
    <3> QED BY <1>b, <2>1, <3>1 DEF CreateOrder
  <2> QED BY <1>b, <2>1 DEF Next, vars, EnqueueFree, EnqueueFreeFails, Crash,
            RegisterRead, RegisterStep, RegisterSelect, RegisterProcessing, RegisterCharge,
            RegisterReread, RegisterSave, RegisterCancel, RegisterError,
            PaymentResolves, Deliver, WebhookStep, WebhookError, WebhookRead, WebhookSelect,
            WebhookCanceled, WebhookPayed, WebhookWithdraw, WebhookAccrue,
            WebhookEnqueue, JobStep, JobError, JobRead, JobSelect, JobReject, JobCommand,
            JobVerify, JobRefundCheck, JobRefund, JobRecord, JobComplete, JobFail,
         EditRead, EditSelect, EditSave, Found, Unanswered, Refuses, FirstStep, AnotherCycle,
         Refundable
<1>5. \A c \in Calls : reg'[c].order # o
  <2>1. ASSUME NEW c \in Calls, NEW i \in Orders, RegisterRead(c, i)
        PROVE  \A d \in Calls : reg'[d].order # o
    <3>1. i # o
      BY <1>a, <2>1 DEF RegisterRead, Registrable
    <3> QED BY <1>t, <1>b, <2>1, <3>1 DEF TypeOK, RegisterRead, NoCall
  <2>2. ASSUME NEW c \in Calls, RegisterStep(c) \/ RegisterError(c)
        PROVE  \A d \in Calls : reg'[d].order # o
    <3>1. CASE RegisterSelect(c) \/ RegisterProcessing(c) \/ RegisterReread(c)
      <4>1. \A d \in Calls : reg'[d].order = reg[d].order
        BY <1>t, <3>1 DEF TypeOK, Call, RegisterSelect, RegisterProcessing, RegisterReread
      <4> QED BY <1>b, <4>1
    <3>4. CASE RegisterCharge(c)
      <4>1. \/ reg' = [reg EXCEPT ![c].pc = "cancel"]
            \/ \E p \in Payments : reg' = [reg EXCEPT ![c].pc = "reread", ![c].pay = p]
        BY <3>4 DEF RegisterCharge
      <4>2. \A d \in Calls : reg'[d].order = reg[d].order
        BY <1>t, <4>1 DEF TypeOK, Call
      <4> QED BY <1>b, <4>2
    <3>2. CASE reg' = [reg EXCEPT ![c] = NoCall]
      BY <1>t, <1>b, <1>n, <3>2 DEF TypeOK
    <3>3. CASE reg' = [reg EXCEPT ![c] = Caught(@)]
      BY <1>t, <1>b, <3>3 DEF TypeOK, Caught, NoCall
    <3> QED BY <2>2, <3>1, <3>2, <3>3, <3>4
         DEF RegisterStep, RegisterError, RegisterSave, RegisterCancel
  <2>3. CASE Crash
    BY <1>n, <2>3 DEF Crash
  <2> QED BY <1>b, <2>1, <2>2, <2>3, RegFrame
<1>6. edit'.order # o
  <2>1. ASSUME NEW i \in Orders, NEW s \in EditStatuses, EditRead(i, s) PROVE edit'.order # o
    BY <1>a, <2>1 DEF EditRead
  <2>2. CASE EditSelect
    BY <1>t, <1>b, <2>2 DEF TypeOK, Edit, EditSelect
  <2> QED BY <1>b, <1>n, <2>1, <2>2, EditFrame
<1> QED BY <1>a, <1>b, <1>1, <1>2, <1>3, <1>4, <1>5, <1>6

\* What JobsAreBacked says of one job record, of the state after the step.
SoundLater(k) ==
    /\ k.pc \in {"command", "verify", "refund", "refunding", "record",
                 "complete", "fail"} /\ ~terms'[k.order].free
          => CarriesLater(k.order, k.snap.tx)
    /\ k.pc \in {"verify", "refund", "refunding", "record", "complete"}
          => effects'[k.order].sent > 0
    /\ k.pc \in {"refund", "refunding", "record"} => ~terms'[k.order].free
    /\ k.pc = "refunding" => CarriesLater(k.order, k.pay) /\ OwnedLater(k.pay, k.order)
    /\ k.pc = "record" => \E p \in Payments :
                             payment'[p].order = k.order /\ payment'[p].refunds > 0

\* A refund that was made stays made, and for the same order.
LEMMA RefundedStable ==
    ASSUME IInv, [Next]_vars, NEW o, Refunded(o)
    PROVE  \E p \in Payments : payment'[p].order = o /\ payment'[p].refunds > 0
<1>t. WellFormed
  BY DEF IInv, WellFormed
<1>1. PICK p \in Payments : payment[p].order = o /\ payment[p].refunds > 0
  BY DEF Refunded
<1>2. payment[p].state = "succeeded"
  BY <1>1 DEF IInv, TransactionsAreOwned
<1> QED BY <1>t, <1>1, <1>2, PaymentsStable DEF KeepsItsHistory

\* A job that does not move stays sound.
LEMMA SoundStable ==
    ASSUME IInv, NoPaidEdits, [Next]_vars, NEW j \in Jobs, job[j].pc # "unused"
    PROVE  /\ SoundLater(job[j])
           /\ job[j].order \in Orders
           /\ order[job[j].order].status # "absent"
           /\ terms'[job[j].order] = terms[job[j].order]
<1>t. /\ WellFormed /\ TypeOK /\ HandlersKnowTheirOrder /\ JobsAreBacked /\ AbsentIsUntouched
      /\ RefundsAreBacked
  BY DEF IInv, WellFormed
<1>1. /\ job[j].order \in Orders /\ job[j].pay \in Payments \cup {None}
      /\ job[j].snap.tx \in Payments \cup {None}
  BY <1>t DEF TypeOK, Job, Row, HandlersKnowTheirOrder
<1>2. order[job[j].order].status # "absent"
  BY <1>t, <1>1 DEF AbsentIsUntouched
<1>3. terms'[job[j].order] = terms[job[j].order]
  BY <1>1, <1>2, TermsStable
<1>4. effects[job[j].order].sent > 0 => effects'[job[j].order].sent > 0
  BY <1>t, <1>1, EffectsStable
<1>5. /\ Carries(job[j].order, job[j].snap.tx) => CarriesLater(job[j].order, job[j].snap.tx)
      /\ Carries(job[j].order, job[j].pay) => CarriesLater(job[j].order, job[j].pay)
      /\ OwnedBy(job[j].pay, job[j].order) => OwnedLater(job[j].pay, job[j].order)
  BY <1>t, <1>1, OwnedStable, CarriesStable
<1>7. SoundLater(job[j])
  BY <1>t, <1>3, <1>4, <1>5, RefundedStable DEF JobsAreBacked, RefundsAreBacked, SoundLater
<1> QED BY <1>1, <1>2, <1>3, <1>7

\* Jobs stay sound.
LEMMA SoundNext ==
    ASSUME IInv, NoPaidEdits, [Next]_vars
    PROVE  \A j \in Jobs : SoundLater(job'[j])
<1>t. /\ WellFormed /\ TypeOK /\ HandlersKnowTheirOrder /\ JobsAreBacked
      /\ PaidRowsAreBacked
  BY DEF IInv, WellFormed
<1>r. ASSUME NEW k, k.pc \in {"unused", "waiting", "reject"}
      PROVE  SoundLater(k)
  BY <1>r DEF SoundLater
<1>n. SoundLater(NoJob) /\ \A o : SoundLater(Queued(o))
  <2>1. NoJob.pc = "unused" /\ \A o : Queued(o).pc = "waiting"
    BY DEF Queued, NoJob
  <2> QED BY <1>r, <2>1
<1>q. \A j \in Jobs : \A a, s : SoundLater(Requeued(j, a, s))
  <2>1. \A j \in Jobs : \A a, s : Requeued(j, a, s).pc = "waiting"
    BY DEF Requeued, Queued, NoJob
  <2> QED BY <1>r, <2>1
<1>0. \A j \in Jobs : SoundLater(job[j]) /\ job[j] \in Job
  BY <1>t, <1>r, SoundStable DEF TypeOK
<1>a. ASSUME NEW o, AddJob(o) PROVE \A j \in Jobs : SoundLater(job'[j])
  BY <1>t, <1>0, <1>n, <1>a DEF TypeOK, AddJob
<1>f. ASSUME NEW i \in Jobs, AttemptFailed(i) PROVE \A j \in Jobs : SoundLater(job'[j])
  BY <1>t, <1>0, <1>n, <1>q, <1>f DEF TypeOK, AttemptFailed
<1>1. CASE UNCHANGED job
  BY <1>0, <1>1
<1>2. CASE (\E o \in Orders : EnqueueFree(o)) \/ (\E h \in Hooks : WebhookEnqueue(h))
  BY <1>2, <1>a DEF EnqueueFree, WebhookEnqueue
<1>3. CASE Crash
  BY <1>t, <1>0, <1>n, <1>q, <1>3 DEF TypeOK, Crash, Stalled
<1>4. ASSUME NEW i \in Jobs, JobStep(i) \/ JobError(i)
      PROVE  \A j \in Jobs : SoundLater(job'[j])
  <2> DEFINE k == job[i]  o == job[i].order
  <2>w. ASSUME NEW m, SoundLater(m), job' = [job EXCEPT ![i] = m]
        PROVE  \A j \in Jobs : SoundLater(job'[j])
    BY <1>t, <1>0, <2>w DEF TypeOK
  <2>k. ASSUME k.pc # "unused"
        PROVE  /\ SoundLater(k) /\ o \in Orders
               /\ order[o].status # "absent" /\ terms'[o] = terms[o]
    BY <2>k, SoundStable
  <2>1. CASE JobRead(i)
    <3> DEFINE m == [k EXCEPT !.snap = order[o],
                              !.pc = IF Startable(o, order[o]) THEN "command"
                                                               ELSE "reject"]
    <3>1. job' = [job EXCEPT ![i] = m] /\ k.pc = "waiting"
      BY <1>t, <2>1 DEF TypeOK, JobRead, FirstStep
    <3>2. ~terms[o].free /\ Startable(o, order[o])
              => Carries(o, order[o].tx)
      BY <1>t, <2>k, <3>1 DEF PaidRowsAreBacked, Startable
    <3>4. ~terms[o].free /\ Startable(o, order[o]) => CarriesLater(o, order[o].tx)
      BY <1>t, <3>2, CarriesStable
    <3>5. /\ m.order = o /\ m.snap = order[o]
          /\ m.pc = (IF Startable(o, order[o]) THEN "command" ELSE "reject")
      BY <1>0 DEF Job
    <3>6. SoundLater(m)
      BY <2>k, <3>1, <3>4, <3>5 DEF SoundLater
    <3> QED BY <2>w, <3>1, <3>6
  <2>g. ASSUME k.pc \in {"command", "verify"}, effects'[o].sent > 0,
               job' = [job EXCEPT ![i].pc = GiveUp(o)]
        PROVE  \A j \in Jobs : SoundLater(job'[j])
    <3> DEFINE m == [k EXCEPT !.pc = GiveUp(o)]
    <3>1. job' = [job EXCEPT ![i] = m]
      BY <2>g
    <3>2. m.order = o /\ m.snap = k.snap /\ m.pc = GiveUp(o)
      BY <1>0 DEF Job
    <3>3. SoundLater(m)
      BY <2>g, <2>k, <3>2 DEF SoundLater, GiveUp
    <3> QED BY <2>w, <3>1, <3>3
  <2>f. ASSUME k.pc \in {"refund", "refunding", "record", "complete"},
               NEW x, job' = [job EXCEPT ![i].pc = "fail", ![i].seen = x]
        PROVE  \A j \in Jobs : SoundLater(job'[j])
    <3> DEFINE m == [k EXCEPT !.pc = "fail", !.seen = x]
    <3>1. job' = [job EXCEPT ![i] = m]
      BY <1>t, <2>f DEF TypeOK
    <3>2. m.order = o /\ m.snap = k.snap /\ m.pc = "fail"
      BY <1>0 DEF Job
    <3>3. SoundLater(m)
      BY <2>f, <2>k, <3>2 DEF SoundLater
    <3> QED BY <2>w, <3>1, <3>3
  <2>h. ASSUME k.pc \in {"refund", "refunding", "record", "complete"},
               job' = [job EXCEPT ![i].pc = "fail"]
        PROVE  \A j \in Jobs : SoundLater(job'[j])
    <3>1. job' = [job EXCEPT ![i].pc = "fail", ![i].seen = job[i].seen]
      BY <1>t, <2>h DEF TypeOK, Job
    <3> QED BY <2>f, <2>h, <3>1
  <2>s. CASE JobSelect(i)
    <3> DEFINE m == [k EXCEPT !.seen = order[o]]
    <3>1. job' = [job EXCEPT ![i] = m] /\ k.pc \in {"reject", "complete", "fail"}
      BY <1>t, <2>s DEF TypeOK, JobSelect
    <3>2. m.order = o /\ m.snap = k.snap /\ m.pc = k.pc /\ m.pay = k.pay
      BY <1>0 DEF Job
    <3>3. SoundLater(m)
      BY <2>k, <3>1, <3>2 DEF SoundLater
    <3> QED BY <2>w, <3>1, <3>3
  <2>2. CASE JobCommand(i)
    <3>1. k.pc = "command" /\ effects' = [effects EXCEPT ![o].sent = @ + 1]
      BY <2>2 DEF JobCommand
    <3>2. effects'[o].sent > 0
      BY <1>t, <2>k, <3>1 DEF TypeOK, Effects
    <3>3. CASE job' = [job EXCEPT ![i].pc = "verify", ![i].cycle = 1]
      <4> DEFINE m == [k EXCEPT !.pc = "verify", !.cycle = 1]
      <4>1. job' = [job EXCEPT ![i] = m]
        BY <1>t, <3>3 DEF TypeOK
      <4>2. m.order = o /\ m.snap = k.snap /\ m.pc = "verify"
        BY <1>0 DEF Job
      <4>3. SoundLater(m)
        BY <2>k, <3>1, <3>2, <4>2 DEF SoundLater
      <4> QED BY <2>w, <4>1, <4>3
    <3> QED BY <2>2, <2>g, <3>1, <3>2, <3>3 DEF JobCommand
  <2>3. CASE JobVerify(i)
    <3>1. k.pc = "verify" /\ effects'[o].sent > 0
      BY <2>3, <2>k DEF JobVerify, SoundLater, AnotherCycle
    <3>2. CASE job' = [job EXCEPT ![i].pc = "complete"]
      <4> DEFINE m == [k EXCEPT !.pc = "complete"]
      <4>1. job' = [job EXCEPT ![i] = m]
        BY <3>2
      <4>2. m.order = o /\ m.snap = k.snap /\ m.pc = "complete"
        BY <1>0 DEF Job
      <4>3. SoundLater(m)
        BY <2>k, <3>1, <4>2 DEF SoundLater
      <4> QED BY <2>w, <4>1, <4>3
    <3>3. CASE job' = [job EXCEPT ![i].cycle = @ + 1]
      <4> DEFINE m == [k EXCEPT !.cycle = @ + 1]
      <4>1. job' = [job EXCEPT ![i] = m]
        BY <3>3
      <4>2. m.order = o /\ m.snap = k.snap /\ m.pc = "verify"
        BY <1>0, <3>1 DEF Job
      <4>3. SoundLater(m)
        BY <2>k, <3>1, <4>2 DEF SoundLater
      <4> QED BY <2>w, <4>1, <4>3
    <3> QED BY <2>3, <2>g, <3>1, <3>2, <3>3 DEF JobVerify, AnotherCycle
  <2>4. CASE JobRefundCheck(i)
    <3>1. k.pc = "refund"
      BY <2>4 DEF JobRefundCheck, Refundable
    <3>2. CASE /\ order[o].status = "payed" /\ order[o].tx # None
               /\ job' = [job EXCEPT ![i].pc = "refunding", ![i].pay = order[o].tx]
      <4> DEFINE m == [k EXCEPT !.pc = "refunding", !.pay = order[o].tx]
      <4>1. job' = [job EXCEPT ![i] = m]
        BY <1>t, <3>2 DEF TypeOK
      <4>2. m.order = o /\ m.snap = k.snap /\ m.pc = "refunding" /\ m.pay = order[o].tx
        BY <1>0 DEF Job
      <4>3. ~terms[o].free
        BY <2>k, <3>1 DEF SoundLater
      <4>4. Carries(o, order[o].tx)
        BY <1>t, <2>k, <3>1, <3>2, <4>3 DEF PaidRowsAreBacked
      <4>5. order[o].tx \in Payments \cup {None} /\ OwnedBy(order[o].tx, o)
        BY <1>t, <2>k, <3>1 DEF TypeOK, Row, IInv, TransactionsAreOwned
      <4>6. CarriesLater(o, order[o].tx) /\ OwnedLater(order[o].tx, o)
        BY <1>t, <3>2, <4>4, <4>5, OwnedStable, CarriesStable
      <4>7. SoundLater(m)
        BY <2>k, <3>1, <4>2, <4>6 DEF SoundLater
      <4> QED BY <2>w, <4>1, <4>7
    <3> QED BY <2>4, <2>h, <3>1, <3>2 DEF JobRefundCheck, Refundable
  <2>5. CASE JobRefund(i)
    <3>1. k.pc = "refunding" /\ k.pay \in Payments
      BY <1>t, <1>0, <2>5 DEF JobRefund, HandlersKnowTheirOrder, Job
    <3>2. CASE /\ payment' = [payment EXCEPT ![k.pay].refunds = @ + 1]
               /\ job' = [job EXCEPT ![i].pc = "record"]
      <4> DEFINE m == [k EXCEPT !.pc = "record"]
      <4>1. job' = [job EXCEPT ![i] = m]
        BY <3>2
      <4>2. m.order = o /\ m.snap = k.snap /\ m.pc = "record"
        BY <1>0 DEF Job
      <4>3. payment'[k.pay].refunds > 0
        BY <1>t, <3>1, <3>2 DEF TypeOK, Payment
      <4>4. payment'[k.pay].order = o
        BY <2>k, <3>1, NoneAssumption DEF SoundLater, OwnedLater
      <4>5. SoundLater(m)
        BY <2>k, <3>1, <4>2, <4>3, <4>4 DEF SoundLater
      <4> QED BY <2>w, <4>1, <4>5
    <3> QED BY <2>5, <2>h, <3>1, <3>2 DEF JobRefund
  <2>6. CASE JobRecord(i)
    BY <2>6, <2>h DEF JobRecord
  <2>7. CASE JobComplete(i)
    BY <2>7, <2>w, <1>n DEF JobComplete
  <2>8. CASE JobReject(i) \/ JobFail(i)
    BY <2>8, <1>f DEF JobReject, JobFail
  <2>9. CASE JobError(i)
    BY <2>9, <1>f, <2>f DEF JobError
  <2> QED BY <1>4, <2>1, <2>s, <2>2, <2>3, <2>4, <2>5, <2>6, <2>7, <2>8, <2>9 DEF JobStep
<1> QED BY <1>1, <1>2, <1>3, <1>4, JobFrame

LEMMA JobsNext == IInv /\ NoPaidEdits /\ [Next]_vars => JobsAreBacked'
  BY SoundNext DEF JobsAreBacked, SoundLater, Carries, CarriesLater, PaymentsOf, Backed,
                   BackedLater, OwnedBy, OwnedLater, Refunded

\* Rows that say payed or completed stay backed.
LEMMA PaidRowsNext == IInv /\ NoPaidEdits /\ [Next]_vars => PaidRowsAreBacked'
<1> SUFFICES ASSUME IInv, NoPaidEdits, [Next]_vars, NEW o \in Orders,
                    ~terms'[o].free, order'[o].status \in {"payed", "completed"}
             PROVE  CarriesLater(o, order'[o].tx)
  BY DEF PaidRowsAreBacked, Carries, CarriesLater, PaymentsOf, Backed, BackedLater
<1>t. WellFormed /\ TypeOK /\ PaidRowsAreBacked
  BY DEF IInv, WellFormed
<1>1. order[o].status # "absent"
  BY RowWritten
<1>2. terms'[o] = terms[o]
  BY <1>1, TermsStable
<1>3. CASE order'[o] = order[o]
  <2>1. Carries(o, order'[o].tx)
    BY <1>t, <1>2, <1>3 DEF PaidRowsAreBacked
  <2> QED BY <1>t, <2>1, CarriesStable
<1>4. CASE order'[o] # order[o]
  <2>1. PaymentsOf(o) # {} /\ (order'[o].tx \in PaymentsOf(o) \/ o \in mixed')
    BY <1>2, <1>4, RowWritten
  <2>2. \A p \in PaymentsOf(o) : BackedLater(o, p)
    BY <1>t, OwnedStable, NoneAssumption DEF PaymentsOf
  <2> QED BY <2>1, <2>2 DEF CarriesLater, PaymentsOf
<1> QED BY <1>3, <1>4

\* What a step does for an order outside the database is done by a job that
\* commands it or by a webhook whose payment was taken.
LEMMA EffectCaused ==
    ASSUME IInv, [Next]_vars, NEW o \in Orders, effects'[o] # effects[o]
    PROVE  /\ order[o].status # "absent"
           /\ ~terms[o].free => PaymentsOf(o) # {}
           /\ effects'[o].records # effects[o].records => Refunded(o)
<1>t. WellFormed /\ TypeOK /\ HandlersKnowTheirOrder /\ HooksMatchPayments /\ JobsAreBacked
      /\ AbsentIsUntouched
  BY DEF IInv, WellFormed
<1>1. ASSUME NEW h \in Hooks, WebhookWithdraw(h) \/ WebhookAccrue(h)
      PROVE  /\ order[o].status # "absent" /\ PaymentsOf(o) # {}
             /\ effects'[o].records = effects[o].records
  <2>1. hook[h].order = o
    BY <1>t, <1>1 DEF TypeOK, WebhookWithdraw, WebhookAccrue
  <2>2. hook[h].pay \in Payments /\ Backed(o, hook[h].pay)
    BY <1>t, <1>1, <2>1 DEF TypeOK, Hook, HandlersKnowTheirOrder, HooksMatchPayments,
                            Backed, WebhookWithdraw, WebhookAccrue
  <2>3. effects'[o].records = effects[o].records
    <3>1. \/ effects' = [effects EXCEPT ![o].withdrawn = @ + 1]
          \/ effects' = [effects EXCEPT ![o].accrued = @ + 1]
      BY <1>1, <2>1 DEF WebhookWithdraw, WebhookAccrue
    <3> QED BY <1>t, <3>1 DEF TypeOK, Effects
  <2> QED BY <1>t, <2>1, <2>2, <2>3 DEF AbsentIsUntouched, PaymentsOf
<1>2. ASSUME NEW j \in Jobs, JobCommand(j) \/ JobVerify(j) \/ JobRecord(j)
      PROVE  /\ order[o].status # "absent"
             /\ ~terms[o].free => PaymentsOf(o) # {}
             /\ effects'[o].records # effects[o].records => Refunded(o)
  <2>1. job[j].order = o
    BY <1>t, <1>2 DEF TypeOK, JobCommand, JobVerify, JobRecord, AnotherCycle
  <2>4. ~terms[o].free => PaymentsOf(o) # {}
    BY <1>t, <1>2, <2>1 DEF JobsAreBacked, Carries, JobCommand, JobVerify, JobRecord,
                            AnotherCycle
  <2>5. CASE JobRecord(j)
    BY <1>t, <2>1, <2>4, <2>5 DEF JobRecord, JobsAreBacked, AbsentIsUntouched
  <2>6. CASE JobCommand(j) \/ JobVerify(j)
    <3>1. effects' = effects \/ effects' = [effects EXCEPT ![o].sent = @ + 1]
      BY <2>1, <2>6 DEF JobCommand, JobVerify, AnotherCycle
    <3>2. effects'[o].records = effects[o].records
      BY <1>t, <3>1 DEF TypeOK, Effects
    <3> QED BY <1>t, <2>1, <2>4, <3>2 DEF AbsentIsUntouched
  <2> QED BY <1>2, <2>5, <2>6
<1> QED BY <1>1, <1>2, EffectsFrame

\* Nothing is ever done for an order that was not paid.
LEMMA NothingNext == IInv /\ NoPaidEdits /\ [Next]_vars => NothingDoneUnpaid'
<1> SUFFICES ASSUME IInv, NoPaidEdits, [Next]_vars, NEW o \in Orders, ~terms'[o].free,
                    \/ effects'[o].sent > 0 \/ effects'[o].withdrawn > 0
                    \/ effects'[o].accrued > 0
             PROVE  \E p \in Payments : BackedLater(o, p)
  BY DEF NothingDoneUnpaid, PaymentsOf, Backed, BackedLater
<1>t. WellFormed /\ NothingDoneUnpaid
  BY DEF IInv, WellFormed
<1>1. order[o].status # "absent"
  BY EffectCaused DEF IInv, AbsentIsUntouched, NoEffects
<1>2. terms'[o] = terms[o]
  BY <1>1, TermsStable
<1>3. PaymentsOf(o) # {}
  BY <1>t, <1>2, EffectCaused DEF NothingDoneUnpaid
<1>4. PICK p \in Payments : Backed(o, p)
  BY <1>3 DEF PaymentsOf
<1> QED BY <1>t, <1>4, OwnedStable, NoneAssumption

\* Refunds stay backed.
LEMMA RefundsNext == IInv /\ NoPaidEdits /\ [Next]_vars => RefundsAreBacked'
<1> SUFFICES ASSUME IInv, NoPaidEdits, [Next]_vars PROVE RefundsAreBacked'
  OBVIOUS
<1>t. /\ WellFormed /\ TypeOK /\ RefundsAreBacked /\ JobsAreBacked
      /\ HandlersKnowTheirOrder
  BY DEF IInv, WellFormed
<1>1. ASSUME NEW p \in Payments, payment'[p].refunds > 0
      PROVE  effects'[payment'[p].order].sent > 0
  <2>1. CASE payment[p].refunds > 0
    <3>1. payment[p].state = "succeeded" /\ effects[payment[p].order].sent > 0
      BY <1>t, <2>1 DEF RefundsAreBacked, IInv, TransactionsAreOwned
    <3>2. payment[p].order \in Orders
      BY <1>t, <3>1 DEF IInv, TransactionsAreOwned, TypeOK, Payment
    <3> QED BY <1>t, <3>1, <3>2, PaymentsStable, EffectsStable DEF KeepsItsHistory
  <2>2. CASE payment'[p].refunds # payment[p].refunds
    <3>1. PICK j \in Jobs : JobRefund(j) /\ job[j].pay = p
      BY <1>t, <2>2, RefundBy
    <3>2. /\ job[j].order \in Orders /\ OwnedBy(p, job[j].order)
          /\ effects[job[j].order].sent > 0
      BY <1>t, <3>1 DEF JobRefund, JobsAreBacked, HandlersKnowTheirOrder, TypeOK, Job
    <3>3. payment'[p].order = job[j].order
      BY <1>t, <3>2, PaymentsStable, NoneAssumption DEF KeepsItsHistory, OwnedBy
    <3> QED BY <1>t, <3>2, <3>3, EffectsStable
  <2> QED BY <1>1, <2>1, <2>2
<1>2. ASSUME NEW o \in Orders, effects'[o].records > 0
      PROVE  \E p \in Payments : payment'[p].order = o /\ payment'[p].refunds > 0
  <2>1. Refunded(o)
    BY <1>t, <1>2, EffectCaused DEF RefundsAreBacked
  <2> QED BY <2>1, RefundedStable
<1>3. \A j \in Jobs : job'[j].pc = "refunding" => CarriesLater(job'[j].order, job'[j].pay)
  BY SoundNext DEF SoundLater
<1> QED BY <1>1, <1>2, <1>3
         DEF RefundsAreBacked, Refunded, Carries, CarriesLater, PaymentsOf, Backed, BackedLater

\* An order is completed by a job that commanded its bay.
LEMMA CompletedNext == IInv /\ NoPaidEdits /\ [Next]_vars => CompletedWasCommanded'
<1> SUFFICES ASSUME IInv, NoPaidEdits, [Next]_vars, NEW o \in Orders,
                    order'[o].status = "completed"
             PROVE  effects'[o].sent > 0
  BY DEF CompletedWasCommanded
<1>t. WellFormed /\ CompletedWasCommanded
  BY DEF IInv, WellFormed
<1>1. effects[o].sent > 0
  BY <1>t, RowWritten DEF CompletedWasCommanded
<1> QED BY <1>t, <1>1, EffectsStable

(***************************************************************************)
(* The theorems                                                            *)
(***************************************************************************)

\* The inductive invariant holds when no order exists.
LEMMA InitIInv == Init => IInv
<1> SUFFICES ASSUME Init PROVE IInv
  OBVIOUS
<1>1. TypeOK /\ HandlersKnowTheirOrder
  BY TypeInit DEF Init, HandlersKnowTheirOrder, NoCall, NoHook, NoJob, NoEdit
<1>2. TransactionsAreOwned
  BY DEF Init, TransactionsAreOwned, OwnedBy, NoRow, NoCall, NoJob, NoEdit, NoPayment
<1>3. HooksMatchPayments /\ JobsAreBacked
  BY DEF Init, HooksMatchPayments, JobsAreBacked, NoHook, NoJob
<1>4. AbsentIsUntouched
  BY NoneAssumption DEF Init, AbsentIsUntouched, NoRow, NoCall, NoHook, NoJob, NoEdit
<1>5. PaidRowsAreBacked /\ CompletedWasCommanded
  BY DEF Init, PaidRowsAreBacked, CompletedWasCommanded, NoRow
<1>6. NothingDoneUnpaid /\ RefundsAreBacked
  BY DEF Init, NothingDoneUnpaid, RefundsAreBacked, NoEffects, NoPayment, NoJob
<1> QED BY <1>1, <1>2, <1>3, <1>4, <1>5, <1>6 DEF IInv

\* Every step keeps it, provided nobody writes payed or completed by hand
\* through POST /order/status/:id.
THEOREM Inductive == IInv /\ NoPaidEdits /\ [Next]_vars => IInv'
<1>1. IInv => WellFormed
  BY DEF IInv, WellFormed
<1> QED BY <1>1, WellFormedNext, OwnedNext, HooksNext, JobsNext, AbsentNext,
           PaidRowsNext, NothingNext, RefundsNext, CompletedNext DEF IInv, WellFormed

\* For any number of orders, requests, deliveries and jobs, and any number of
\* faults: a row that says payed or completed is of an order with a taken payment,
\* and carries it unless saves that crossed mixed the columns of this row.
THEOREM PaidRowsBacked == ASSUME NoPaidEdits PROVE Spec => []PaidRowsAreBacked
<1>1. IInv => PaidRowsAreBacked
  BY DEF IInv
<1>2. IInv /\ [Next]_vars => IInv'
  BY Inductive
<1> QED BY InitIInv, <1>1, <1>2, PTL DEF Spec

\* No command, withdrawal or cashback without a taken payment.
THEOREM NothingUnpaid == ASSUME NoPaidEdits PROVE Spec => []NothingDoneUnpaid
<1>1. IInv => NothingDoneUnpaid
  BY DEF IInv
<1>2. IInv /\ [Next]_vars => IInv'
  BY Inductive
<1> QED BY InitIInv, <1>1, <1>2, PTL DEF Spec

\* A refund returns a taken payment of an order whose bay was commanded.
THEOREM RefundsBacked == ASSUME NoPaidEdits PROVE Spec => []RefundsAreBacked
<1>1. IInv => RefundsAreBacked
  BY DEF IInv
<1>2. IInv /\ [Next]_vars => IInv'
  BY Inductive
<1> QED BY InitIInv, <1>1, <1>2, PTL DEF Spec

\* A completed order's bay was commanded.
THEOREM CompletedCommanded == ASSUME NoPaidEdits PROVE Spec => []CompletedWasCommanded
<1>1. IInv => CompletedWasCommanded
  BY DEF IInv
<1>2. IInv /\ [Next]_vars => IInv'
  BY Inductive
<1> QED BY InitIInv, <1>1, <1>2, PTL DEF Spec

(***************************************************************************)
(* One order, served once                                                  *)
(***************************************************************************)

\* Nothing failed, nothing was repeated or edited, and no two requests register
\* the same order at the same time.
Undisturbed ==
    /\ spent.crashes = 0 /\ spent.errors = 0 /\ spent.duplicates = 0 /\ spent.edits = 0
    /\ \A c, d \in Calls : reg[c].order # None /\ reg[c].order = reg[d].order => c = d

Ledger == {"withdraw", "accrue", "enqueue"}
Serving == {"command", "verify", "refund", "refunding", "record", "complete", "fail"}

\* Nothing was done for the order at its bay, nothing refunded, nothing booked.
Unrefunded(o) == ~Refunded(o) /\ effects[o].records = 0
Unserved(o) == effects[o].sent = 0 /\ Unrefunded(o)
Unbooked(o) == effects[o].withdrawn = 0 /\ effects[o].accrued = 0

\* Nobody wrote the row since the save that is under way selected it.
Fresh(seen, o) == seen # NoRow => seen = order[o]

\* A registration has its order to itself.
CallFits(k) ==
    /\ k.pc # "idle" => k.snap.tx = None /\ Fresh(k.seen, k.order)
    /\ k.pc = "processing" => order[k.order].status = "created"
    /\ k.pc \in {"charge", "reread", "save", "cancel"}
          => order[k.order].status = "payment_processing"

\* An order has one payment, which its row names or is about to name.
Named(p) ==
    LET o == payment[p].order
    IN  \/ order[o].tx = p
        \/ /\ ~payment[p].acked
           /\ \E c \in Calls : /\ reg[c].pc \in {"reread", "save"}
                               /\ reg[c].order = o /\ reg[c].pay = p

PaymentFits(p) ==
    /\ payment[p].state = "unused" => payment[p].order = None
    /\ payment[p].order = None => ~payment[p].acked
    /\ payment[p].order # None => Named(p)
    /\ \A q \in Payments :
          payment[p].order # None /\ payment[p].order = payment[q].order => p = q

\* The status of an order says how far its payment is.
Noticed(p) == \E h \in Hooks : hook[h].pay = p /\ hook[h].pc \in Ledger

RowFits(o) ==
    LET row == order[o]
    IN  /\ row.tx = None =>
              \/ row.status \in {"absent", "canceled"}
              \/ ~terms[o].free /\ row.status \in {"created", "payment_processing"}
              \/ terms[o].free /\ row.status \in {"free_processing", "completed", "failed"}
        /\ row.tx # None =>
              /\ ~terms[o].free
              /\ \/ row.status = "waiting_payment" /\ ~payment[row.tx].acked
                 \/ row.status = "payed" /\ (payment[row.tx].acked \/ Noticed(row.tx))
                 \/ /\ row.status \in {"canceled", "completed", "failed"}
                    /\ payment[row.tx].acked

\* A notice has its order to itself until it is answered.
HookFits(h) ==
    LET k == hook[h]
    IN  /\ k.pc # "idle" => ~payment[k.pay].acked
        /\ \A g \in Hooks : k.pay # None /\ hook[g].pay = k.pay => g = h
        /\ k.pc = "received" => k.seen = NoRow
        /\ k.pc = "write" => /\ order[k.order].status = "waiting_payment"
                             /\ order[k.order].tx = k.pay
                             /\ Fresh(k.seen, k.order)
        /\ k.pc \in Ledger => /\ order[k.order].status = "payed"
                              /\ order[k.order].tx = k.pay
        /\ k.pc = "withdraw" => effects[k.order].withdrawn = 0
        /\ k.pc \in {"withdraw", "accrue"} => effects[k.order].accrued = 0

\* So does a job, from the answer on.
JobFits(j) ==
    LET k == job[j]
        o == k.order
    IN  /\ k.pc = "unused" => o = None
        /\ k.pc # "unused" =>
              /\ \A i \in Jobs : job[i].order = o => i = j
              /\ o \notin creating
              /\ Fresh(k.seen, o)
              /\ ~terms[o].free => order[o].tx # None /\ payment[order[o].tx].acked
              /\ k.pc = "waiting" => \/ order[o].status = "failed"
                                     \/ Startable(o, order[o]) /\ Unserved(o)
              /\ k.pc \in {"reject"} \cup Serving => k.snap.tx = order[o].tx
              /\ k.pc = "reject" => order[o].status = "failed"
              /\ k.pc \in Serving => Startable(o, order[o])
              /\ k.pc = "command" => Unserved(o)
              /\ k.pc = "verify" => effects[o].sent = k.cycle
              /\ k.pc \in {"verify", "refund", "refunding", "complete"} => Unrefunded(o)
              /\ k.pc = "record" => effects[o].records = 0

\* What was done for an order fits how far it is.
EffectsFit(o) ==
    /\ order[o].status \in {"absent", "created", "payment_processing", "waiting_payment"}
          => Unbooked(o) /\ Unserved(o)
    /\ order[o].tx # None /\ ~payment[order[o].tx].acked => Unserved(o)
    /\ o \in creating => order[o].status = "free_processing" /\ Unserved(o)
    /\ Refunded(o) => order[o].status # "completed"
    /\ effects[o].withdrawn <= 1 /\ effects[o].accrued <= 1
    /\ effects[o].sent <= RetryCycles /\ effects[o].records <= 1

FlowInv ==
    /\ edit = NoEdit
    /\ \A c \in Calls : CallFits(reg[c])
    /\ \A p \in Payments : PaymentFits(p) /\ payment[p].refunds <= 1
    /\ \A o \in Orders : RowFits(o) /\ EffectsFit(o)
    /\ \A h \in Hooks : HookFits(h)
    /\ \A j \in Jobs : JobFits(j)

\* A save whose row was not written since is a write of that row.
LEMMA SaveExact ==
    ASSUME NEW o, NEW r \in Row, NEW seen, Fresh(seen, o), Save(o, r, seen)
    PROVE  order' = [order EXCEPT ![o] = r]
<1>1. seen = order[o] /\ order' = [order EXCEPT ![o] = Written(r, seen, order[o])]
  BY DEF Save, Fresh
<1>2. Written(r, seen, order[o]) = [status |-> r.status, tx |-> r.tx]
  BY <1>1 DEF Written
<1>3. r = [status |-> r.status, tx |-> r.tx]
  BY DEF Row
<1> QED BY <1>1, <1>2, <1>3

\* The same for the rows the handlers save: a row they read, with a new status.
LEMMA SaveStatus ==
    ASSUME TypeOK, NEW o \in Orders, NEW r \in Row, NEW s \in Statuses, NEW seen,
           Fresh(seen, o), Save(o, [r EXCEPT !.status = s], seen)
    PROVE  /\ \A i \in Orders \ {o} : order'[i] = order[i]
           /\ order'[o].status = s /\ order'[o].tx = r.tx
           /\ order' = [order EXCEPT ![o] = [r EXCEPT !.status = s]]
<1>1. [r EXCEPT !.status = s] \in Row
  BY DEF Row
<1>2. order' = [order EXCEPT ![o] = [r EXCEPT !.status = s]]
  BY <1>1, SaveExact
<1> QED BY <1>2 DEF TypeOK, Row

\* For one order: it keeps its row, or it is the order saved.
LEMMA SaveMoves ==
    ASSUME TypeOK, NEW o \in Orders, NEW k \in Orders, NEW r \in Row, NEW s \in Statuses,
           NEW seen, Fresh(seen, k), Save(k, [r EXCEPT !.status = s], seen)
    PROVE  \/ o # k /\ order'[o] = order[o]
           \/ o = k /\ order'[o].status = s
BY SaveStatus

LEMMA StatusesWritten ==
    {"payment_processing", "waiting_payment", "payed", "failed", "completed",
     "canceled"} \subseteq Statuses
BY DEF Statuses

LEMMA FlowTyped ==
    ASSUME TypeOK
    PROVE  /\ \A c \in Calls : /\ reg[c].order \in Orders \cup {None}
                               /\ reg[c].pay \in Payments \cup {None}
                               /\ reg[c].pc \in {"idle", "processing", "charge", "reread",
                                                 "save", "cancel"}
           /\ \A p \in Payments : payment[p].order \in Orders \cup {None}
           /\ \A o \in Orders : order[o].tx \in Payments \cup {None}
           /\ \A h \in Hooks : /\ hook[h].order \in Orders \cup {None}
                               /\ hook[h].pay \in Payments \cup {None}
                               /\ hook[h].pc \in {"idle", "received", "write"} \cup Ledger
           /\ \A j \in Jobs : /\ job[j].order \in Orders \cup {None}
                              /\ job[j].pc \in {"unused", "waiting", "reject"} \cup Serving
  BY DEF TypeOK, Call, Payment, Row, Hook, Job, Ledger, Serving

\* Who works on which order, and for which payment.
LEMMA FlowKnown ==
    ASSUME IInv
    PROVE  /\ \A c \in Calls :
                 /\ reg[c].pc # "idle" => reg[c].order \in Orders
                 /\ reg[c].pc \in {"reread", "save"} =>
                       reg[c].pay \in Payments /\ payment[reg[c].pay].order = reg[c].order
           /\ \A o \in Orders : order[o].tx # None =>
                 order[o].tx \in Payments /\ payment[order[o].tx].order = o
           /\ \A h \in Hooks :
                 /\ hook[h].pc # "idle" => hook[h].pay \in Payments
                 /\ hook[h].pc # "idle" => payment[hook[h].pay].order \in Orders
                 /\ hook[h].pc \notin {"idle", "received"} =>
                       /\ hook[h].order \in Orders
                       /\ payment[hook[h].pay].order = hook[h].order
                 /\ hook[h].pc = "write" => hook[h].snap.tx = hook[h].pay
           /\ \A j \in Jobs : job[j].pc # "unused" => job[j].order \in Orders
<1>1. TypeOK
  BY DEF IInv
<1>2. \A c \in Calls :
         /\ reg[c].pc # "idle" => reg[c].order \in Orders
         /\ reg[c].pc \in {"reread", "save"} =>
               reg[c].pay \in Payments /\ payment[reg[c].pay].order = reg[c].order
  BY <1>1, FlowTyped DEF IInv, HandlersKnowTheirOrder, TransactionsAreOwned, OwnedBy
<1>3. \A o \in Orders : order[o].tx # None =>
         order[o].tx \in Payments /\ payment[order[o].tx].order = o
  BY <1>1, FlowTyped DEF IInv, TransactionsAreOwned, OwnedBy
<1>4. \A h \in Hooks :
         /\ hook[h].pc # "idle" => hook[h].pay \in Payments
         /\ hook[h].pc # "idle" => payment[hook[h].pay].order \in Orders
         /\ hook[h].pc \notin {"idle", "received"} =>
               /\ hook[h].order \in Orders
               /\ payment[hook[h].pay].order = hook[h].order
         /\ hook[h].pc = "write" => hook[h].snap.tx = hook[h].pay
  BY <1>1, FlowTyped
     DEF IInv, HandlersKnowTheirOrder, HooksMatchPayments, TransactionsAreOwned
<1>5. \A j \in Jobs : job[j].pc # "unused" => job[j].order \in Orders
  BY <1>1, FlowTyped DEF IInv, HandlersKnowTheirOrder
<1> QED BY <1>2, <1>3, <1>4, <1>5

\* What a handler under way says of its order's status.
LEMMA FlowStatus ==
    ASSUME IInv, FlowInv
    PROVE  /\ \A c \in Calls : reg[c].pc # "idle" =>
                 order[reg[c].order].status \in {"created", "payment_processing"}
           /\ \A j \in Jobs : job[j].pc # "unused" =>
                 order[job[j].order].status \in {"failed", "payed", "free_processing"}
           /\ \A o \in Orders : order[o].status \in {"absent", "created", "payment_processing",
                                                     "free_processing"} => order[o].tx = None
           /\ \A p \in Payments : \A o \in Orders : payment[p].order = o =>
                 \/ order[o].tx = p
                 \/ order[o].tx = None /\ order[o].status = "payment_processing"
<1>0. TypeOK
  BY DEF IInv
<1>1. \A c \in Calls : reg[c].pc # "idle" =>
         order[reg[c].order].status \in {"created", "payment_processing"}
  BY <1>0, FlowTyped DEF FlowInv, CallFits
<1>2. \A j \in Jobs : job[j].pc # "unused" =>
         order[job[j].order].status \in {"failed", "payed", "free_processing"}
  BY <1>0, FlowTyped DEF FlowInv, JobFits, Startable
<1>3. \A o \in Orders : order[o].status \in {"absent", "created", "payment_processing",
                                             "free_processing"} => order[o].tx = None
  BY DEF FlowInv, RowFits
<1>4. ASSUME NEW p \in Payments, NEW o \in Orders, payment[p].order = o
      PROVE  \/ order[o].tx = p
             \/ order[o].tx = None /\ order[o].status = "payment_processing"
  <2>1. Named(p)
    BY <1>4, NoneAssumption DEF FlowInv, PaymentFits
  <2> QED BY <1>0, <1>3, <1>4, <2>1, FlowKnown DEF Named, FlowInv, CallFits
<1> QED BY <1>1, <1>2, <1>3, <1>4

\* A step works on one order and leaves everything else as it is.
Ours(k, o) == k.pay # None /\ payment'[k.pay].order = o
Apart(o) ==
    /\ \A i \in Orders \ {o} : /\ order'[i] = order[i] /\ terms'[i] = terms[i]
                               /\ effects'[i] = effects[i]
                               /\ i \in creating' => i \in creating
    /\ \A p \in Payments :
          /\ payment[p].order = o => payment'[p].order = o
          /\ payment'[p].order = o => payment[p].order \in {o, None}
          /\ payment'[p].order # o => /\ payment'[p].order = payment[p].order
                                      /\ payment'[p].acked = payment[p].acked
                                      /\ payment'[p].refunds = payment[p].refunds
                                      /\ payment'[p].state = "unused" => payment[p].state = "unused"
    /\ \A c \in Calls : \/ reg'[c] = reg[c]
                        \/ /\ reg[c].pc = "idle" \/ reg[c].order = o
                           /\ reg'[c].order \in {o, None}
    /\ \A h \in Hooks : \/ hook'[h] = hook[h]
                        \/ /\ hook[h].pc = "idle" \/ Ours(hook[h], o)
                           /\ hook'[h].pay = None \/ Ours(hook'[h], o)
    /\ \A j \in Jobs : \/ job'[j] = job[j]
                       \/ /\ job[j].pc = "unused" \/ job[j].order = o
                          /\ job'[j].order \in {o, None}

\* So what held of the other orders holds still.
LEMMA Elsewhere ==
    ASSUME IInv, IInv', FlowInv, NEW o \in Orders, Apart(o)
    PROVE  /\ \A c \in Calls : reg'[c].order # o => CallFits(reg[c])'
           /\ \A p \in Payments : payment'[p].order # o =>
                 PaymentFits(p)' /\ payment'[p].refunds <= 1
           /\ \A i \in Orders : i # o => RowFits(i)' /\ EffectsFit(i)'
           /\ \A h \in Hooks : ~Ours(hook'[h], o) => HookFits(h)'
           /\ \A j \in Jobs : job'[j].order # o => JobFits(j)'
<1>0. TypeOK /\ TypeOK'
  BY DEF IInv
<1>1. ASSUME NEW c \in Calls, reg'[c].order # o PROVE CallFits(reg[c])'
  <2>1. CASE reg'[c].pc = "idle"
    BY <2>1 DEF CallFits
  <2>2. CASE reg'[c].pc # "idle"
    <3>1. reg'[c].order # None
      BY <2>2 DEF IInv, HandlersKnowTheirOrder
    <3>2. reg'[c] = reg[c] /\ reg[c].order \in Orders
      BY <1>0, <1>1, <3>1, FlowTyped DEF Apart
    <3>3. CallFits(reg[c]) /\ order'[reg[c].order] = order[reg[c].order]
      BY <1>1, <3>2 DEF FlowInv, Apart
    <3> QED BY <3>2, <3>3 DEF CallFits, Fresh
  <2> QED BY <2>1, <2>2
<1>2. ASSUME NEW p \in Payments, payment'[p].order # o
      PROVE  PaymentFits(p)' /\ payment'[p].refunds <= 1
  <2>1. /\ payment'[p].order = payment[p].order /\ payment'[p].acked = payment[p].acked
        /\ payment'[p].refunds = payment[p].refunds
        /\ payment'[p].state = "unused" => payment[p].state = "unused"
    BY <1>2 DEF Apart
  <2>2. PaymentFits(p) /\ payment[p].refunds <= 1
    BY DEF FlowInv
  <2>3. \A q \in Payments :
           payment'[p].order # None /\ payment'[p].order = payment'[q].order => p = q
    BY <1>2, <2>1, <2>2 DEF PaymentFits, Apart
  <2>4. ASSUME payment'[p].order # None PROVE Named(p)'
    <3>1. Named(p) /\ payment[p].order \in Orders /\ payment[p].order # o
      BY <1>0, <1>2, <2>1, <2>2, <2>4, FlowTyped DEF PaymentFits
    <3>2. order'[payment[p].order] = order[payment[p].order]
      BY <3>1 DEF Apart
    <3>3. \A c \in Calls : reg[c].order = payment[p].order /\ reg[c].pc # "idle"
                            => reg'[c] = reg[c]
      BY <3>1, NoneAssumption DEF Apart
    <3> QED BY <2>1, <3>1, <3>2, <3>3 DEF Named
  <2> QED BY <2>1, <2>2, <2>3, <2>4 DEF PaymentFits
<1>3. ASSUME NEW i \in Orders, i # o
      PROVE  /\ Refunded(i)' <=> Refunded(i)
             /\ order'[i] = order[i] /\ terms'[i] = terms[i] /\ effects'[i] = effects[i]
             /\ i \in creating' => i \in creating
             /\ order[i].tx # None => payment'[order[i].tx].acked = payment[order[i].tx].acked
  <2>1. /\ order'[i] = order[i] /\ terms'[i] = terms[i] /\ effects'[i] = effects[i]
        /\ i \in creating' => i \in creating
    BY <1>3 DEF Apart
  <2>k. \A p \in Payments : payment[p].order = i \/ payment'[p].order = i =>
           /\ payment[p].order = i /\ payment'[p].order = i
           /\ payment'[p].acked = payment[p].acked
           /\ payment'[p].refunds = payment[p].refunds
    BY <1>3, NoneAssumption DEF Apart
  <2>2. Refunded(i)' <=> Refunded(i)
    BY <2>k DEF Refunded
  <2>3. order[i].tx # None => payment'[order[i].tx].acked = payment[order[i].tx].acked
    BY <2>k, FlowKnown
  <2> QED BY <2>1, <2>2, <2>3
<1>4. ASSUME NEW i \in Orders, i # o PROVE RowFits(i)' /\ EffectsFit(i)'
  <2>1. RowFits(i) /\ EffectsFit(i)
    BY DEF FlowInv
  <2>2. order[i].tx # None /\ Noticed(order[i].tx) => Noticed(order[i].tx)'
    <3> SUFFICES ASSUME NEW p, p = order[i].tx, p # None,
                        NEW h \in Hooks, hook[h].pay = p, hook[h].pc \in Ledger
                 PROVE  Noticed(p)'
      BY <1>3, <1>4 DEF Noticed
    <3>1. payment[p].order = i /\ p \in Payments
      BY FlowKnown
    <3>2. ~Ours(hook[h], o)
      BY <1>4, <3>1, NoneAssumption DEF Apart, Ours
    <3>3. hook'[h] = hook[h]
      BY <3>2 DEF Apart, Ledger
    <3> QED BY <3>3 DEF Noticed
  <2>3. RowFits(i)'
    BY <1>3, <1>4, <2>1, <2>2 DEF RowFits
  <2>4. EffectsFit(i)'
    BY <1>3, <1>4, <2>1 DEF EffectsFit, Unserved, Unrefunded, Unbooked
  <2> QED BY <2>3, <2>4
<1>5. ASSUME NEW h \in Hooks, ~Ours(hook'[h], o) PROVE HookFits(h)'
  <2>1. CASE hook'[h].pay = None
    <3>1. hook'[h].pc = "idle"
      BY <2>1 DEF IInv, HandlersKnowTheirOrder
    <3> QED BY <2>1, <3>1 DEF HookFits, Ledger
  <2>2. CASE hook'[h].pay # None
    <3>1. hook'[h] = hook[h] /\ HookFits(h)
      BY <1>5, <2>2 DEF Apart, FlowInv
    <3>2. hook[h].pay \in Payments /\ payment'[hook[h].pay].order # o
      BY <1>0, <1>5, <2>2, <3>1, FlowTyped DEF Ours
    <3>3. payment'[hook[h].pay].acked = payment[hook[h].pay].acked
      BY <3>2 DEF Apart
    <3>4. \A g \in Hooks : hook'[g].pay = hook[h].pay => hook'[g] = hook[g]
      BY <1>5, <2>2, <3>1, <3>2 DEF Apart, Ours
    <3>5. ASSUME hook[h].pc \notin {"idle", "received"}
          PROVE  /\ order'[hook[h].order] = order[hook[h].order]
                 /\ effects'[hook[h].order] = effects[hook[h].order]
      <4>1. hook[h].order \in Orders /\ payment[hook[h].pay].order = hook[h].order
        BY <3>5, FlowKnown
      <4>2. hook[h].order # o
        BY <3>2, <4>1 DEF Apart
      <4> QED BY <4>1, <4>2 DEF Apart
    <3> QED BY <3>1, <3>3, <3>4, <3>5 DEF HookFits, Fresh, Ledger
  <2> QED BY <2>1, <2>2
<1>6. ASSUME NEW j \in Jobs, job'[j].order # o PROVE JobFits(j)'
  <2>1. CASE job'[j].pc = "unused"
    BY <1>6, <2>1 DEF JobFits, Apart, FlowInv
  <2>2. CASE job'[j].pc # "unused"
    <3>1. job'[j].order # None
      BY <2>2 DEF IInv, HandlersKnowTheirOrder
    <3>2. job'[j] = job[j] /\ job[j].order \in Orders /\ job[j].order # o
      BY <1>0, <1>6, <3>1, FlowTyped DEF Apart
    <3>3. JobFits(j) /\ \A i \in Jobs : job'[i].order = job[j].order => job'[i] = job[i]
      BY <3>2, NoneAssumption DEF FlowInv, Apart
    <3> DEFINE i == job[j].order
    <3>4. /\ Refunded(i)' <=> Refunded(i)
          /\ order'[i] = order[i] /\ terms'[i] = terms[i] /\ effects'[i] = effects[i]
          /\ i \in creating' => i \in creating
          /\ order[i].tx # None => payment'[order[i].tx].acked = payment[order[i].tx].acked
      BY <1>3, <3>2
    <3> QED BY <2>2, <3>2, <3>3, <3>4
            DEF JobFits, Fresh, Startable, Unserved, Unrefunded
  <2> QED BY <2>1, <2>2
<1> QED BY <1>1, <1>2, <1>4, <1>5, <1>6

\* What is left to show of a step on order o.
LEMMA FlowBy ==
    ASSUME IInv, IInv', FlowInv, NEW o \in Orders, Apart(o), edit' = NoEdit,
           \A c \in Calls : reg'[c].order = o => CallFits(reg[c])',
           \A p \in Payments : payment'[p].order = o =>
              PaymentFits(p)' /\ payment'[p].refunds <= 1,
           RowFits(o)', EffectsFit(o)',
           \A h \in Hooks : Ours(hook'[h], o) => HookFits(h)',
           \A j \in Jobs : job'[j].order = o => JobFits(j)'
    PROVE  FlowInv'
  BY Elsewhere DEF FlowInv

\* What a job knows of its order: its payment is answered, if it has one, and
\* nobody else works for it.
LEMMA JobAlone ==
    ASSUME IInv, FlowInv, NEW j \in Jobs, NEW o \in Orders,
           job[j].pc # "unused", job[j].order = o
    PROVE  /\ order[o].status \in {"failed", "payed", "free_processing"}
           /\ terms[o].free => order[o].tx = None
           /\ ~terms[o].free => order[o].tx \in Payments /\ payment[order[o].tx].acked
           /\ \A p \in Payments : payment[p].order = o => order[o].tx = p /\ payment[p].acked
           /\ \A c \in Calls : reg[c].order = o => reg[c].pc = "idle"
           /\ \A h \in Hooks : hook[h].pc # "idle" => payment[hook[h].pay].order # o
           /\ \A i \in Jobs : job[i].order = o => i = j
<1>0. TypeOK
  BY DEF IInv
<1>1. order[o].status \in {"failed", "payed", "free_processing"}
  BY FlowStatus
<1>2. /\ terms[o].free => order[o].tx = None
      /\ ~terms[o].free => order[o].tx \in Payments /\ payment[order[o].tx].acked
  <2>1. RowFits(o) /\ JobFits(j)
    BY DEF FlowInv
  <2> QED BY <2>1, FlowKnown DEF RowFits, JobFits
<1>3. \A c \in Calls : reg[c].order = o => reg[c].pc = "idle"
  BY <1>1, FlowStatus
<1>4. \A p \in Payments : payment[p].order = o => order[o].tx = p /\ payment[p].acked
  BY <1>1, <1>2, FlowStatus, NoneAssumption
<1>5. \A h \in Hooks : hook[h].pc # "idle" => payment[hook[h].pay].order # o
  BY <1>4, FlowKnown DEF FlowInv, HookFits
<1>6. \A i \in Jobs : job[i].order = o => i = j
  BY DEF FlowInv, JobFits
<1> QED BY <1>1, <1>2, <1>3, <1>4, <1>5, <1>6

\* So a step of the worker disturbs only the job and what it does to its order.
LEMMA JobFlowBy ==
    ASSUME IInv, IInv', FlowInv, NEW j \in Jobs, NEW o \in Orders,
           job[j].pc # "unused", job[j].order = o,
           UNCHANGED <<terms, creating, reg, hook, edit>>,
           \A i \in Orders \ {o} : order'[i] = order[i] /\ effects'[i] = effects[i],
           order'[o].tx = order[o].tx,
           \A p \in Payments : /\ payment'[p].order = payment[p].order
                               /\ payment'[p].acked = payment[p].acked
                               /\ payment'[p].state = payment[p].state
                               /\ payment'[p].refunds <= 1
                               /\ payment[p].order # o
                                     => payment'[p].refunds = payment[p].refunds,
           \A i \in Jobs \ {j} : job'[i] = job[i],
           job'[j].order \in {o, None},
           RowFits(o)', EffectsFit(o)', JobFits(j)'
    PROVE  FlowInv'
<1>0. TypeOK
  BY DEF IInv
<1>a. Apart(o)
  BY DEF Apart
<1>1. edit' = NoEdit
  BY DEF FlowInv
<1>2. \A c \in Calls : reg'[c].order = o => CallFits(reg[c])'
  BY JobAlone DEF CallFits
<1>3. ASSUME NEW p \in Payments, payment'[p].order = o
      PROVE  PaymentFits(p)' /\ payment'[p].refunds <= 1
  <2>1. order'[o].tx = p
    BY <1>3, JobAlone
  <2>2. PaymentFits(p)
    BY DEF FlowInv
  <2> QED BY <1>3, <2>1, <2>2 DEF PaymentFits, Named
<1>4. ASSUME NEW h \in Hooks, Ours(hook'[h], o) PROVE HookFits(h)'
  <2>1. payment[hook[h].pay].order = o /\ hook[h].pay \in Payments
    BY <1>0, <1>4, FlowTyped DEF Ours
  <2>2. hook[h].pc = "idle"
    BY <2>1, JobAlone
  <2> QED BY <2>1, <2>2 DEF FlowInv, HookFits, Ledger
<1>5. \A i \in Jobs : job'[i].order = o => JobFits(i)'
  BY JobAlone
<1> QED BY <1>a, <1>1, <1>2, <1>3, <1>4, <1>5, FlowBy

\* The worker reads the order.
LEMMA FlowJobRead ==
    ASSUME IInv, IInv', FlowInv, NEW j \in Jobs, JobRead(j),
           NEW o \in Orders, job[j].order = o
    PROVE  FlowInv'
<1>0. TypeOK /\ job[j] \in Job
  BY DEF IInv, TypeOK
<1>1. job[j].pc = "waiting"
  BY DEF JobRead, FirstStep
<1>2. /\ job'[j].order = o /\ job'[j].snap = order[o] /\ job'[j].seen = job[j].seen
      /\ job'[j].pc = IF Startable(o, order[o]) THEN "command" ELSE "reject"
      /\ \A i \in Jobs \ {j} : job'[i] = job[i]
  BY <1>0 DEF JobRead, FirstStep, Job, TypeOK
<1>3. UNCHANGED <<order, terms, creating, reg, payment, hook, edit, effects>>
  BY DEF JobRead, FirstStep
<1>4. RowFits(o) /\ EffectsFit(o) /\ JobFits(j)
  BY <1>1 DEF FlowInv
<1>5. RowFits(o)' /\ EffectsFit(o)' /\ (Refunded(o)' <=> Refunded(o))
  BY <1>3, <1>4 DEF RowFits, EffectsFit, Noticed, Refunded, Unbooked, Unserved, Unrefunded
<1>6. JobFits(j)'
  <2>1. \A i \in Jobs : job'[i].order = o => i = j
    BY <1>1, <1>2, JobAlone
  <2>2. Startable(o, order[o])' <=> Startable(o, order[o])
    BY <1>3 DEF Startable
  <2>3. ~Startable(o, order[o]) => order[o].status = "failed"
    BY <1>1, <1>4 DEF JobFits
  <2>4. Startable(o, order[o]) => Unserved(o) /\ order[o].status # "failed"
    BY <1>1, <1>4 DEF JobFits, Startable
  <2> QED BY <1>1, <1>2, <1>3, <1>4, <1>5, <2>1, <2>2, <2>3, <2>4
          DEF JobFits, Fresh, Unserved, Unrefunded, Serving
<1>7. \A p \in Payments : payment[p].refunds <= 1
  BY DEF FlowInv
<1> QED BY <1>1, <1>2, <1>3, <1>5, <1>6, <1>7, JobFlowBy

\* It marks the order failed once more.
LEMMA FlowJobReject ==
    ASSUME IInv, IInv', FlowInv, NEW j \in Jobs, JobReject(j),
           NEW o \in Orders, job[j].order = o
    PROVE  FlowInv'
<1>0. TypeOK /\ job[j] \in Job /\ order[o] \in Row
  BY DEF IInv, TypeOK
<1>1. job[j].pc = "reject"
  BY DEF JobReject
<1>2. RowFits(o) /\ EffectsFit(o) /\ JobFits(j)
  BY DEF FlowInv
<1>3. order[o].status = "failed" /\ job[j].snap.tx = order[o].tx
  BY <1>1, <1>2 DEF JobFits
<1>4. UNCHANGED <<terms, creating, reg, payment, hook, edit, effects>>
  BY DEF JobReject
<1>5. order' = order
  <2>1. /\ job[j].snap \in Row /\ Fresh(job[j].seen, o)
        /\ Save(o, [job[j].snap EXCEPT !.status = "failed"], job[j].seen)
    BY <1>0, <1>1, <1>2 DEF Job, JobFits, JobReject
  <2>2. order' = [order EXCEPT ![o] = [job[j].snap EXCEPT !.status = "failed"]]
    BY <1>0, <2>1, SaveStatus DEF Statuses
  <2> QED BY <1>0, <1>3, <2>1, <2>2 DEF TypeOK, Row
<1>6. /\ \A i \in Jobs \ {j} : job'[i] = job[i]
      /\ \/ job'[j].pc = "unused" /\ job'[j].order = None
         \/ job'[j].pc = "waiting" /\ job'[j].order = o /\ job'[j].seen = NoRow
  BY <1>0 DEF JobReject, AttemptFailed, Requeued, Queued, NoJob, TypeOK
<1>7. RowFits(o)' /\ EffectsFit(o)'
  BY <1>2, <1>4, <1>5 DEF RowFits, EffectsFit, Noticed, Refunded, Unbooked, Unserved, Unrefunded
<1>8. JobFits(j)'
  <2>1. \A i \in Jobs : job'[i].order = o => i = j
    BY <1>1, <1>6, JobAlone
  <2> QED BY <1>1, <1>2, <1>3, <1>4, <1>5, <1>6, <2>1 DEF JobFits, Fresh, Serving
<1>9. \A p \in Payments : payment[p].refunds <= 1
  BY DEF FlowInv
<1> QED BY <1>1, <1>4, <1>5, <1>6, <1>7, <1>8, <1>9, JobFlowBy

\* It commands the bay for the first time.
LEMMA FlowJobCommand ==
    ASSUME IInv, IInv', FlowInv, NEW j \in Jobs, JobCommand(j),
           NEW o \in Orders, job[j].order = o
    PROVE  FlowInv'
<1>0. TypeOK /\ job[j] \in Job /\ effects[o] \in Effects
  BY DEF IInv, TypeOK
<1>1. job[j].pc = "command"
  BY DEF JobCommand
<1>2. RowFits(o) /\ EffectsFit(o) /\ JobFits(j)
  BY DEF FlowInv
<1>3. /\ Startable(o, order[o]) /\ Unserved(o) /\ o \notin creating
      /\ order[o].tx # None => payment[order[o].tx].acked
      /\ job[j].snap.tx = order[o].tx
  BY <1>1, <1>2, JobAlone DEF JobFits, Serving
<1>4. UNCHANGED <<order, terms, creating, reg, payment, hook, edit>>
  BY DEF JobCommand
<1>5. /\ \A i \in Orders \ {o} : effects'[i] = effects[i]
      /\ effects'[o] = [effects[o] EXCEPT !.sent = 1]
  BY <1>0, <1>3 DEF JobCommand, TypeOK, Effects, Unserved
<1>6. /\ \A i \in Jobs \ {j} : job'[i] = job[i]
      /\ job'[j].order = o /\ job'[j].snap = job[j].snap /\ job'[j].seen = job[j].seen
      /\ \/ job'[j].pc = "verify" /\ job'[j].cycle = 1
         \/ job'[j].pc = GiveUp(o)
  BY <1>0 DEF JobCommand, TypeOK, Job
<1>7. RowFits(o)'
  BY <1>2, <1>4 DEF RowFits, Noticed
<1>8. Unrefunded(o)'
  BY <1>0, <1>3, <1>4, <1>5 DEF Unserved, Unrefunded, Refunded, Effects
<1>9. EffectsFit(o)'
  BY <1>0, <1>2, <1>3, <1>4, <1>5, <1>8, BoundsAssumption
     DEF EffectsFit, Startable, Unrefunded, Effects
<1>10. JobFits(j)'
  <2>1. \A i \in Jobs : job'[i].order = o => i = j
    BY <1>1, <1>6, JobAlone
  <2>2. Startable(o, order[o])'
    BY <1>3, <1>4 DEF Startable
  <2>3. /\ job'[j].pc \in {"verify", "refund", "fail"}
        /\ job'[j].pc = "verify" => effects'[o].sent = job'[j].cycle
    BY <1>0, <1>5, <1>6 DEF GiveUp, Effects
  <2>4. job'[j].pc \in Serving
    BY <2>3 DEF Serving
  <2> QED BY <1>1, <1>2, <1>3, <1>4, <1>6, <1>8, <2>1, <2>2, <2>3, <2>4
          DEF JobFits, Fresh
<1>11. \A p \in Payments : payment[p].refunds <= 1
  BY DEF FlowInv
<1> QED BY <1>0, <1>1, <1>4, <1>5, <1>6, <1>7, <1>9, <1>10, <1>11, JobFlowBy DEF Effects

\* It verifies the start, and commands the bay again at most in every cycle.
LEMMA FlowJobVerify ==
    ASSUME IInv, IInv', FlowInv, NEW j \in Jobs, JobVerify(j),
           NEW o \in Orders, job[j].order = o
    PROVE  FlowInv'
<1>0. TypeOK /\ job[j] \in Job /\ effects[o] \in Effects
  BY DEF IInv, TypeOK
<1>1. job[j].pc = "verify"
  BY DEF JobVerify, AnotherCycle
<1>2. RowFits(o) /\ EffectsFit(o) /\ JobFits(j)
  BY DEF FlowInv
<1>3. /\ Startable(o, order[o]) /\ Unrefunded(o) /\ o \notin creating
      /\ order[o].tx # None => payment[order[o].tx].acked
      /\ job[j].snap.tx = order[o].tx
      /\ effects[o].sent = job[j].cycle
  BY <1>1, <1>2, JobAlone DEF JobFits, Serving
<1>4. UNCHANGED <<order, terms, creating, reg, payment, hook, edit>>
  BY DEF JobVerify, AnotherCycle
<1>5. /\ \A i \in Orders \ {o} : effects'[i] = effects[i]
      /\ \A i \in Jobs \ {j} : job'[i] = job[i]
      /\ job'[j].order = o /\ job'[j].snap = job[j].snap /\ job'[j].seen = job[j].seen
      /\ \/ /\ effects'[o] = effects[o]
            /\ job'[j].pc \in {"complete", GiveUp(o)}
         \/ /\ job[j].cycle < RetryCycles
            /\ effects'[o] = [effects[o] EXCEPT !.sent = @ + 1]
            /\ job'[j].pc = "verify" /\ job'[j].cycle = job[j].cycle + 1
  BY <1>0, <1>1 DEF JobVerify, AnotherCycle, TypeOK, Job
<1>6. /\ effects'[o].withdrawn = effects[o].withdrawn
      /\ effects'[o].accrued = effects[o].accrued
      /\ effects'[o].records = effects[o].records
      /\ effects'[o].sent <= RetryCycles
      /\ job'[j].pc = "verify" => effects'[o].sent = job'[j].cycle
      /\ job'[j].pc \in {"verify", "complete", "refund", "fail"}
  <2>1. effects[o].sent <= RetryCycles
    BY <1>2 DEF EffectsFit
  <2> QED BY <1>0, <1>3, <1>5, <2>1, BoundsAssumption DEF Effects, Job, GiveUp
<1>7. RowFits(o)'
  BY <1>2, <1>4 DEF RowFits, Noticed
<1>8. Unrefunded(o)'
  BY <1>3, <1>4, <1>6 DEF Unrefunded, Refunded
<1>9. EffectsFit(o)'
  BY <1>2, <1>3, <1>4, <1>6, <1>8 DEF EffectsFit, Startable, Unrefunded
<1>10. JobFits(j)'
  <2>1. \A i \in Jobs : job'[i].order = o => i = j
    BY <1>1, <1>5, JobAlone
  <2>2. Startable(o, order[o])'
    BY <1>3, <1>4 DEF Startable
  <2>3. job'[j].pc \in Serving
    BY <1>6 DEF Serving
  <2> QED BY <1>1, <1>2, <1>3, <1>4, <1>5, <1>6, <1>8, <2>1, <2>2, <2>3 DEF JobFits, Fresh
<1>11. \A p \in Payments : payment[p].refunds <= 1
  BY DEF FlowInv
<1> QED BY <1>1, <1>4, <1>5, <1>6, <1>7, <1>9, <1>10, <1>11, JobFlowBy

\* It looks at the order before the refund.
LEMMA FlowJobRefundCheck ==
    ASSUME IInv, IInv', FlowInv, NEW j \in Jobs, JobRefundCheck(j),
           NEW o \in Orders, job[j].order = o
    PROVE  FlowInv'
<1>0. TypeOK /\ job[j] \in Job
  BY DEF IInv, TypeOK
<1>1. job[j].pc = "refund"
  BY DEF JobRefundCheck, Refundable
<1>2. RowFits(o) /\ EffectsFit(o) /\ JobFits(j)
  BY DEF FlowInv
<1>3. /\ Startable(o, order[o]) /\ Unrefunded(o) /\ o \notin creating
      /\ job[j].snap.tx = order[o].tx
  BY <1>1, <1>2 DEF JobFits, Serving
<1>4. UNCHANGED <<order, terms, creating, reg, payment, hook, edit, effects>>
  BY DEF JobRefundCheck, Refundable
<1>5. /\ \A i \in Jobs \ {j} : job'[i] = job[i]
      /\ job'[j].order = o /\ job'[j].snap = job[j].snap /\ job'[j].seen = job[j].seen
      /\ job'[j].pc \in {"refunding", "fail"}
  BY <1>0 DEF JobRefundCheck, Refundable, TypeOK, Job
<1>6. RowFits(o)' /\ EffectsFit(o)' /\ Unrefunded(o)'
  BY <1>2, <1>3, <1>4
     DEF RowFits, EffectsFit, Noticed, Refunded, Unbooked, Unserved, Unrefunded
<1>7. JobFits(j)'
  <2>1. \A i \in Jobs : job'[i].order = o => i = j
    BY <1>1, <1>5, JobAlone
  <2>2. Startable(o, order[o])'
    BY <1>3, <1>4 DEF Startable
  <2>3. job'[j].pc \in Serving
    BY <1>5 DEF Serving
  <2> QED BY <1>1, <1>2, <1>3, <1>4, <1>5, <1>6, <2>1, <2>2, <2>3 DEF JobFits, Fresh
<1>8. \A p \in Payments : payment[p].refunds <= 1
  BY DEF FlowInv
<1> QED BY <1>1, <1>4, <1>5, <1>6, <1>7, <1>8, JobFlowBy

\* It asks for the refund, of a payment nobody refunded yet.
LEMMA FlowJobRefund ==
    ASSUME IInv, IInv', FlowInv, NEW j \in Jobs, JobRefund(j),
           NEW o \in Orders, job[j].order = o
    PROVE  FlowInv'
<1>0. TypeOK /\ job[j] \in Job
  BY DEF IInv, TypeOK
<1>1. job[j].pc = "refunding"
  BY DEF JobRefund
<1>2. RowFits(o) /\ EffectsFit(o) /\ JobFits(j)
  BY DEF FlowInv
<1>3. /\ Startable(o, order[o]) /\ Unrefunded(o) /\ o \notin creating
      /\ job[j].snap.tx = order[o].tx /\ Fresh(job[j].seen, o)
      /\ order[o].tx # None => payment[order[o].tx].acked
  BY <1>1, <1>2, JobAlone DEF JobFits, Serving
<1>4. UNCHANGED <<order, terms, creating, reg, hook, edit, effects>>
  BY DEF JobRefund
<1>5. /\ \A i \in Jobs \ {j} : job'[i] = job[i]
      /\ job'[j].order = o /\ job'[j].snap = job[j].snap /\ job'[j].seen = job[j].seen
      /\ job'[j].pc \in {"record", "fail"}
  BY <1>0 DEF JobRefund, TypeOK, Job
<1>6. /\ job[j].pay \in Payments /\ payment[job[j].pay].order = o
      /\ payment[job[j].pay].refunds \in Nat
  <2>1. job[j].pay \in Payments
    BY <1>0, <1>1 DEF IInv, HandlersKnowTheirOrder, Job
  <2> QED BY <1>0, <1>1, <2>1, NoneAssumption
          DEF IInv, JobsAreBacked, OwnedBy, TypeOK, Payment
<1>7. payment[job[j].pay].refunds = 0
  BY <1>3, <1>6 DEF Unrefunded, Refunded
<1>8. \A p \in Payments : /\ payment'[p].order = payment[p].order
                          /\ payment'[p].acked = payment[p].acked
                          /\ payment'[p].state = payment[p].state
                          /\ payment'[p].refunds <= 1
                          /\ payment[p].order # o
                                => payment'[p].refunds = payment[p].refunds
                          /\ job'[j].pc = "fail" => payment'[p].refunds = payment[p].refunds
  <2>1. CASE payment' = payment
    BY <2>1 DEF FlowInv
  <2>2. CASE /\ payment' = [payment EXCEPT ![job[j].pay].refunds = @ + 1]
             /\ job' = [job EXCEPT ![j].pc = "record"]
    <3>1. job'[j].pc # "fail"
      BY <1>0, <2>2 DEF TypeOK, Job
    <3>2. ASSUME NEW p \in Payments
          PROVE  /\ payment'[p].order = payment[p].order
                 /\ payment'[p].acked = payment[p].acked
                 /\ payment'[p].state = payment[p].state
                 /\ payment'[p].refunds = IF p = job[j].pay THEN payment[p].refunds + 1
                                                            ELSE payment[p].refunds
      BY <1>0, <2>2 DEF TypeOK, Payment
    <3>3. \A p \in Payments : payment[p].refunds <= 1
      BY DEF FlowInv
    <3> QED BY <1>6, <1>7, <3>1, <3>2, <3>3
  <2> QED BY <2>1, <2>2 DEF JobRefund
<1>9. order'[o].tx # None => payment'[order[o].tx].acked
  BY <1>3, <1>4, <1>8, FlowKnown
<1>10. RowFits(o)'
  BY <1>2, <1>4, <1>8, FlowKnown DEF RowFits, Noticed
<1>11. EffectsFit(o)'
  BY <1>2, <1>3, <1>4, <1>9 DEF EffectsFit, Startable, Unbooked
<1>12. JobFits(j)'
  <2>1. \A i \in Jobs : job'[i].order = o => i = j
    BY <1>1, <1>5, JobAlone
  <2>2. Startable(o, order[o])'
    BY <1>3, <1>4 DEF Startable
  <2>3. job'[j].pc \in Serving
    BY <1>5 DEF Serving
  <2>4. effects'[o].records = 0
    BY <1>3, <1>4 DEF Unrefunded
  <2>5. ~terms[o].free => order[o].tx # None /\ payment'[order[o].tx].acked
    BY <1>1, <1>2, <1>4, <1>9 DEF JobFits
  <2> QED BY <1>3, <1>4, <1>5, <2>1, <2>2, <2>3, <2>4, <2>5 DEF JobFits, Fresh
<1> QED BY <1>1, <1>4, <1>5, <1>8, <1>10, <1>11, <1>12, JobFlowBy

\* It records the refund.
LEMMA FlowJobRecord ==
    ASSUME IInv, IInv', FlowInv, NEW j \in Jobs, JobRecord(j),
           NEW o \in Orders, job[j].order = o
    PROVE  FlowInv'
<1>0. TypeOK /\ job[j] \in Job /\ effects[o] \in Effects
  BY DEF IInv, TypeOK
<1>1. job[j].pc = "record"
  BY DEF JobRecord
<1>2. RowFits(o) /\ EffectsFit(o) /\ JobFits(j)
  BY DEF FlowInv
<1>3. /\ Startable(o, order[o]) /\ effects[o].records = 0 /\ o \notin creating
      /\ job[j].snap.tx = order[o].tx
      /\ order[o].tx # None => payment[order[o].tx].acked
  BY <1>1, <1>2, JobAlone DEF JobFits, Serving
<1>4. UNCHANGED <<order, terms, creating, reg, payment, hook, edit>>
  BY DEF JobRecord
<1>5. /\ \A i \in Orders \ {o} : effects'[i] = effects[i]
      /\ effects'[o].withdrawn = effects[o].withdrawn
      /\ effects'[o].accrued = effects[o].accrued
      /\ effects'[o].sent = effects[o].sent
      /\ effects'[o].records = 1
      /\ \A i \in Jobs \ {j} : job'[i] = job[i]
      /\ job'[j].order = o /\ job'[j].snap = job[j].snap /\ job'[j].pc = "fail"
      /\ job'[j].seen = job[j].seen
  BY <1>0, <1>3 DEF JobRecord, TypeOK, Job, Effects
<1>6. RowFits(o)'
  BY <1>2, <1>4 DEF RowFits, Noticed
<1>7. EffectsFit(o)'
  BY <1>2, <1>3, <1>4, <1>5 DEF EffectsFit, Startable, Refunded
<1>8. JobFits(j)'
  <2>1. \A i \in Jobs : job'[i].order = o => i = j
    BY <1>1, <1>5, JobAlone
  <2>2. Startable(o, order[o])'
    BY <1>3, <1>4 DEF Startable
  <2> QED BY <1>1, <1>2, <1>3, <1>4, <1>5, <2>1, <2>2 DEF JobFits, Fresh, Serving
<1>9. \A p \in Payments : payment[p].refunds <= 1
  BY DEF FlowInv
<1> QED BY <1>1, <1>4, <1>5, <1>6, <1>7, <1>8, <1>9, JobFlowBy

\* It selects the row it is about to save.
LEMMA FlowJobSelect ==
    ASSUME IInv, IInv', FlowInv, NEW j \in Jobs, JobSelect(j),
           NEW o \in Orders, job[j].order = o
    PROVE  FlowInv'
<1>0. TypeOK /\ job[j] \in Job
  BY DEF IInv, TypeOK
<1>1. job[j].pc \in {"reject", "complete", "fail"}
  BY DEF JobSelect
<1>2. RowFits(o) /\ EffectsFit(o) /\ JobFits(j)
  BY DEF FlowInv
<1>3. UNCHANGED <<order, terms, creating, reg, payment, hook, edit, effects>>
  BY DEF JobSelect
<1>4. /\ \A i \in Jobs \ {j} : job'[i] = job[i]
      /\ job'[j].order = o /\ job'[j].snap = job[j].snap /\ job'[j].pc = job[j].pc
      /\ job'[j].cycle = job[j].cycle /\ job'[j].seen = order[o]
  BY <1>0 DEF JobSelect, TypeOK, Job
<1>5. RowFits(o)' /\ EffectsFit(o)' /\ (Refunded(o)' <=> Refunded(o))
  BY <1>2, <1>3 DEF RowFits, EffectsFit, Noticed, Refunded, Unbooked, Unserved, Unrefunded
<1>6. JobFits(j)'
  <2>1. \A i \in Jobs : job'[i].order = o => i = j
    BY <1>1, <1>4, JobAlone
  <2>2. Startable(o, order[o])' <=> Startable(o, order[o])
    BY <1>3 DEF Startable
  <2> QED BY <1>1, <1>2, <1>3, <1>4, <1>5, <2>1, <2>2 DEF JobFits, Fresh, Unserved, Unrefunded
<1>7. \A p \in Payments : payment[p].refunds <= 1
  BY DEF FlowInv
<1> QED BY <1>1, <1>3, <1>4, <1>5, <1>6, <1>7, JobFlowBy

\* It completes the order, and is done.
LEMMA FlowJobComplete ==
    ASSUME IInv, IInv', FlowInv, NEW j \in Jobs, JobComplete(j),
           NEW o \in Orders, job[j].order = o
    PROVE  FlowInv'
<1>0. TypeOK /\ job[j] \in Job /\ order[o] \in Row
  BY DEF IInv, TypeOK
<1>1. job[j].pc = "complete"
  BY DEF JobComplete
<1>2. RowFits(o) /\ EffectsFit(o) /\ JobFits(j)
  BY DEF FlowInv
<1>3. /\ Startable(o, order[o]) /\ Unrefunded(o) /\ o \notin creating
      /\ job[j].snap.tx = order[o].tx
      /\ order[o].tx # None => payment[order[o].tx].acked
  BY <1>1, <1>2, JobAlone DEF JobFits, Serving
<1>4. UNCHANGED <<terms, creating, reg, payment, hook, edit, effects>>
  BY DEF JobComplete
<1>5. /\ \A i \in Orders \ {o} : order'[i] = order[i]
      /\ order'[o].tx = order[o].tx /\ order'[o].status = "completed"
      /\ \A i \in Jobs \ {j} : job'[i] = job[i]
      /\ job'[j].order = None /\ job'[j].pc = "unused"
  <2>1. /\ job[j].snap \in Row /\ Fresh(job[j].seen, o)
        /\ Save(o, [job[j].snap EXCEPT !.status = "completed"], job[j].seen)
    BY <1>0, <1>1, <1>2 DEF Job, JobFits, JobComplete
  <2>2. /\ \A i \in Orders \ {o} : order'[i] = order[i]
        /\ order'[o].tx = order[o].tx /\ order'[o].status = "completed"
    BY <1>0, <1>3, <2>1, SaveStatus DEF Statuses
  <2> QED BY <1>0, <2>2 DEF JobComplete, TypeOK, NoJob
<1>6. RowFits(o)'
  BY <1>2, <1>3, <1>4, <1>5, JobAlone, <1>1 DEF RowFits, Noticed
<1>7. EffectsFit(o)'
  BY <1>2, <1>3, <1>4, <1>5 DEF EffectsFit, Startable, Refunded, Unrefunded
<1>8. JobFits(j)'
  BY <1>5 DEF JobFits
<1>9. \A p \in Payments : payment[p].refunds <= 1
  BY DEF FlowInv
<1> QED BY <1>1, <1>4, <1>5, <1>6, <1>7, <1>8, <1>9, JobFlowBy

\* It marks the order failed; the queue may run the job again.
LEMMA FlowJobFail ==
    ASSUME IInv, IInv', FlowInv, NEW j \in Jobs, JobFail(j),
           NEW o \in Orders, job[j].order = o
    PROVE  FlowInv'
<1>0. TypeOK /\ job[j] \in Job /\ order[o] \in Row
  BY DEF IInv, TypeOK
<1>1. job[j].pc = "fail"
  BY DEF JobFail
<1>2. RowFits(o) /\ EffectsFit(o) /\ JobFits(j)
  BY DEF FlowInv
<1>3. /\ Startable(o, order[o]) /\ o \notin creating
      /\ job[j].snap.tx = order[o].tx
      /\ order[o].tx # None => payment[order[o].tx].acked
  BY <1>1, <1>2, JobAlone DEF JobFits, Serving
<1>4. UNCHANGED <<terms, creating, reg, payment, hook, edit, effects>>
  BY DEF JobFail
<1>5. /\ \A i \in Orders \ {o} : order'[i] = order[i]
      /\ order'[o].tx = order[o].tx /\ order'[o].status = "failed"
  <2>1. /\ job[j].snap \in Row /\ Fresh(job[j].seen, o)
        /\ Save(o, [job[j].snap EXCEPT !.status = "failed"], job[j].seen)
    BY <1>0, <1>1, <1>2 DEF Job, JobFits, JobFail
  <2> QED BY <1>0, <1>3, <2>1, SaveStatus DEF Statuses
<1>6. /\ \A i \in Jobs \ {j} : job'[i] = job[i]
      /\ \/ job'[j].pc = "unused" /\ job'[j].order = None
         \/ job'[j].pc = "waiting" /\ job'[j].order = o /\ job'[j].seen = NoRow
  BY <1>0 DEF JobFail, AttemptFailed, Requeued, Queued, NoJob, TypeOK
<1>7. RowFits(o)'
  BY <1>2, <1>3, <1>4, <1>5, JobAlone, <1>1 DEF RowFits, Noticed
<1>8. EffectsFit(o)'
  BY <1>2, <1>3, <1>4, <1>5 DEF EffectsFit, Startable, Refunded
<1>9. JobFits(j)'
  <2>1. \A i \in Jobs : job'[i].order = o => i = j
    BY <1>1, <1>6, JobAlone
  <2>2. ~terms[o].free => order[o].tx # None /\ payment[order[o].tx].acked
    BY <1>1, <1>2 DEF JobFits
  <2> QED BY <1>3, <1>4, <1>5, <1>6, <2>1, <2>2 DEF JobFits, Fresh, Serving
<1>10. \A p \in Payments : payment[p].refunds <= 1
  BY DEF FlowInv
<1> QED BY <1>1, <1>4, <1>5, <1>6, <1>7, <1>8, <1>9, <1>10, JobFlowBy

\* Every step of the worker keeps the flow.
LEMMA FlowJob ==
    ASSUME IInv, IInv', FlowInv, NEW j \in Jobs, JobStep(j)
    PROVE  FlowInv'
<1>1. job[j].pc # "unused"
  BY DEF JobStep, JobRead, JobSelect, JobReject, JobCommand, JobVerify, JobRefundCheck,
         JobRefund, JobRecord, JobComplete, JobFail, FirstStep, AnotherCycle, Refundable
<1>2. job[j].order \in Orders
  BY <1>1, FlowKnown
<1> QED BY <1>2, FlowJobRead, FlowJobSelect, FlowJobReject, FlowJobCommand, FlowJobVerify,
           FlowJobRefundCheck, FlowJobRefund, FlowJobRecord, FlowJobComplete,
           FlowJobFail DEF JobStep

\* What a registration knows of its order: it is new, no other request, notice
\* or job works on it, and nothing was done for it.
LEMMA CallAlone ==
    ASSUME IInv, FlowInv, Undisturbed, NEW c \in Calls, NEW o \in Orders,
           reg[c].pc # "idle", reg[c].order = o
    PROVE  /\ order[o].tx = None /\ o \notin creating
           /\ order[o].status \in {"created", "payment_processing"}
           /\ reg[c].snap.tx = None
           /\ ~Refunded(o)
           /\ effects[o].withdrawn = 0 /\ effects[o].accrued = 0
           /\ effects[o].sent = 0 /\ effects[o].records = 0
           /\ \A d \in Calls : reg[d].order = o => d = c
           /\ \A p \in Payments : payment[p].order = o =>
                 ~payment[p].acked /\ reg[c].pc \in {"reread", "save"} /\ reg[c].pay = p
           /\ \A h \in Hooks :
                 hook[h].pc \notin {"idle", "received"} => payment[hook[h].pay].order # o
           /\ \A j \in Jobs : job[j].order = o => job[j].pc = "unused"
<1>0. TypeOK
  BY DEF IInv
<1>1. order[o].status \in {"created", "payment_processing"} /\ order[o].tx = None
  BY FlowStatus
<1>2. reg[c].snap.tx = None
  BY DEF FlowInv, CallFits
<1>3. EffectsFit(o)
  BY DEF FlowInv
<1>4. /\ o \notin creating
      /\ ~Refunded(o)
      /\ effects[o].withdrawn = 0 /\ effects[o].accrued = 0
      /\ effects[o].sent = 0 /\ effects[o].records = 0
  BY <1>1, <1>3 DEF EffectsFit, Unbooked, Unserved, Unrefunded
<1>5. \A d \in Calls : reg[d].order = o => d = c
  BY NoneAssumption DEF Undisturbed
<1>6. ASSUME NEW p \in Payments, payment[p].order = o
      PROVE  ~payment[p].acked /\ reg[c].pc \in {"reread", "save"} /\ reg[c].pay = p
  <2>1. Named(p) /\ order[o].tx # p
    BY <1>1, <1>6, NoneAssumption DEF FlowInv, PaymentFits
  <2> QED BY <1>5, <1>6, <2>1 DEF Named
<1>7. \A h \in Hooks :
         hook[h].pc \notin {"idle", "received"} => payment[hook[h].pay].order # o
  BY <1>0, <1>1, FlowTyped, FlowKnown DEF FlowInv, HookFits
<1>8. \A j \in Jobs : job[j].order = o => job[j].pc = "unused"
  BY <1>1, FlowStatus
<1> QED BY <1>1, <1>2, <1>4, <1>5, <1>6, <1>7, <1>8

\* So a step of a registration disturbs only the request and its order.
LEMMA CallFlowBy ==
    ASSUME IInv, IInv', FlowInv, NEW c \in Calls, NEW o \in Orders,
           reg[c].pc = "idle" \/ reg[c].order = o,
           \A j \in Jobs : job[j].order = o => job[j].pc = "unused",
           \A h \in Hooks : hook[h].pc \notin {"idle", "received"}
                               => payment[hook[h].pay].order # o,
           \A d \in Calls \ {c} : reg[d].order # o,
           UNCHANGED <<terms, creating, hook, job, edit, effects>>,
           \A i \in Orders \ {o} : order'[i] = order[i],
           \A d \in Calls \ {c} : reg'[d] = reg[d],
           reg'[c].order \in {o, None},
           \A p \in Payments :
              /\ payment[p].order = o => payment'[p].order = o
              /\ payment'[p].order = o => payment[p].order \in {o, None}
              /\ payment'[p].order # o => payment'[p].order = payment[p].order
              /\ payment'[p].acked = payment[p].acked
              /\ payment'[p].refunds = payment[p].refunds
              /\ payment'[p].state = "unused" => payment[p].state = "unused",
           CallFits(reg[c])', \A p \in Payments : payment'[p].order = o => PaymentFits(p)',
           RowFits(o)', EffectsFit(o)'
    PROVE  FlowInv'
<1>0. TypeOK
  BY DEF IInv
<1>a. Apart(o)
  BY DEF Apart
<1>1. edit' = NoEdit
  BY DEF FlowInv
<1>2. \A d \in Calls : reg'[d].order = o => CallFits(reg[d])'
  OBVIOUS
<1>3. \A p \in Payments : payment'[p].refunds <= 1
  BY DEF FlowInv
<1>4. ASSUME NEW h \in Hooks, Ours(hook'[h], o) PROVE HookFits(h)'
  <2>1. payment'[hook[h].pay].order = o /\ hook[h].pay \in Payments
    BY <1>0, <1>4, FlowTyped DEF Ours
  <2>2. hook[h].pc \in {"idle", "received"}
    BY <2>1, NoneAssumption, FlowKnown
  <2>3. HookFits(h) /\ payment'[hook[h].pay].acked = payment[hook[h].pay].acked
    BY <2>1 DEF FlowInv
  <2> QED BY <2>2, <2>3 DEF HookFits, Ledger
<1>5. \A j \in Jobs : job'[j].order # o
  BY NoneAssumption DEF JobFits, FlowInv
<1> QED BY <1>a, <1>1, <1>2, <1>3, <1>4, <1>5, FlowBy

\* A request reads a new order: nothing refers to it yet.
LEMMA FlowRegisterRead ==
    ASSUME IInv, IInv', FlowInv, Undisturbed', NEW c \in Calls, NEW o \in Orders,
           RegisterRead(c, o)
    PROVE  FlowInv'
<1>0. TypeOK
  BY DEF IInv
<1>1. reg[c].pc = "idle" /\ order[o].status = "created"
  BY DEF RegisterRead, Registrable
<1>2. UNCHANGED <<order, terms, creating, payment, hook, job, edit, effects>>
  BY DEF RegisterRead, Registrable
<1>3. /\ \A d \in Calls \ {c} : reg'[d] = reg[d]
      /\ reg'[c].pc = "processing" /\ reg'[c].order = o /\ reg'[c].snap = order[o]
      /\ reg'[c].seen = NoRow
  BY <1>0 DEF RegisterRead, Registrable, TypeOK, NoCall
<1>4. order[o].tx = None /\ RowFits(o) /\ EffectsFit(o)
  BY <1>1, FlowStatus DEF FlowInv
<1>5. \A p \in Payments : payment[p].order # o
  BY <1>1, <1>4, FlowStatus, NoneAssumption
<1>6. \A d \in Calls \ {c} : reg[d].order # o
  BY <1>3, NoneAssumption DEF Undisturbed
<1>7. \A j \in Jobs : job[j].order = o => job[j].pc = "unused"
  BY <1>1, FlowStatus
<1>8. \A h \in Hooks : hook[h].pc \notin {"idle", "received"} => payment[hook[h].pay].order # o
  BY <1>5, FlowKnown
<1>9. CallFits(reg[c])'
  BY <1>1, <1>2, <1>3, <1>4 DEF CallFits, Fresh
<1>10. RowFits(o)' /\ EffectsFit(o)'
  BY <1>2, <1>4
     DEF RowFits, EffectsFit, Noticed, Refunded, Unbooked, Unserved, Unrefunded
<1> QED BY <1>1, <1>2, <1>3, <1>5, <1>6, <1>7, <1>8, <1>9, <1>10, CallFlowBy

\* It selects the row it is about to save.
LEMMA FlowRegisterSelect ==
    ASSUME IInv, IInv', FlowInv, Undisturbed, NEW c \in Calls, NEW o \in Orders,
           reg[c].order = o, RegisterSelect(c)
    PROVE  FlowInv'
<1>0. TypeOK /\ reg[c] \in Call
  BY DEF IInv, TypeOK
<1>1. reg[c].pc # "idle" /\ CallFits(reg[c])
  BY DEF RegisterSelect, FlowInv
<1>2. UNCHANGED <<order, terms, creating, payment, hook, job, edit, effects>>
  BY DEF RegisterSelect
<1>3. /\ \A d \in Calls \ {c} : reg'[d] = reg[d]
      /\ reg'[c].pc = reg[c].pc /\ reg'[c].order = o /\ reg'[c].snap = reg[c].snap
      /\ reg'[c].pay = reg[c].pay /\ reg'[c].seen = order[o]
  BY <1>0 DEF RegisterSelect, TypeOK, Call
<1>4. CallFits(reg[c])'
  BY <1>1, <1>2, <1>3 DEF CallFits, Fresh
<1>5. RowFits(o)' /\ EffectsFit(o)'
  BY <1>2 DEF FlowInv, RowFits, EffectsFit, Noticed, Refunded, Unbooked, Unserved, Unrefunded
<1>6. ASSUME NEW p \in Payments, payment'[p].order = o PROVE PaymentFits(p)'
  <2>1. /\ PaymentFits(p) /\ reg[c].pay = p /\ ~payment[p].acked
        /\ reg[c].pc \in {"reread", "save"}
    BY <1>1, <1>2, <1>6, CallAlone DEF FlowInv
  <2>2. Named(p)'
    BY <1>2, <1>3, <1>6, <2>1 DEF Named
  <2> QED BY <1>2, <1>6, <2>1, <2>2 DEF PaymentFits
<1> QED BY <1>1, <1>2, <1>3, <1>4, <1>5, <1>6, CallAlone, CallFlowBy

\* It marks the order as being paid.
LEMMA FlowRegisterProcessing ==
    ASSUME IInv, IInv', FlowInv, Undisturbed, NEW c \in Calls, NEW o \in Orders,
           reg[c].order = o, RegisterProcessing(c)
    PROVE  FlowInv'
<1>0. TypeOK /\ reg[c] \in Call
  BY DEF IInv, TypeOK
<1>1. reg[c].pc = "processing" /\ order[o].status = "created"
  BY DEF RegisterProcessing, FlowInv, CallFits
<1>2. UNCHANGED <<terms, creating, payment, hook, job, edit, effects>>
  BY DEF RegisterProcessing
<1>3. /\ \A d \in Calls \ {c} : reg'[d] = reg[d]
      /\ reg'[c].pc = "charge" /\ reg'[c].order = o /\ reg'[c].snap = reg[c].snap
      /\ reg'[c].seen = NoRow
      /\ \A i \in Orders \ {o} : order'[i] = order[i]
      /\ order'[o].tx = None /\ order'[o].status = "payment_processing"
  <2>1. /\ reg[c].snap \in Row /\ reg[c].snap.tx = None /\ Fresh(reg[c].seen, o)
        /\ Save(o, [reg[c].snap EXCEPT !.status = "payment_processing"], reg[c].seen)
    BY <1>0, <1>1 DEF Call, CallFits, FlowInv, RegisterProcessing
  <2>2. /\ \A i \in Orders \ {o} : order'[i] = order[i]
        /\ order'[o].tx = None /\ order'[o].status = "payment_processing"
    <3>1. "payment_processing" \in Statuses
      BY StatusesWritten
    <3> QED BY <1>0, <2>1, <3>1, SaveStatus
  <2> QED BY <1>0, <2>2 DEF RegisterProcessing, TypeOK, Call
<1>4. \A p \in Payments : payment[p].order # o
  BY <1>1, CallAlone
<1>5. CallFits(reg[c])'
  BY <1>1, <1>3, CallAlone DEF CallFits, Fresh
<1>6. RowFits(o)'
  BY <1>1, <1>2, <1>3, FlowStatus DEF RowFits, FlowInv
<1>7. EffectsFit(o)'
  BY <1>1, <1>2, <1>3, CallAlone
     DEF EffectsFit, Refunded, Unbooked, Unserved, Unrefunded, FlowInv
<1> QED BY <1>1, <1>2, <1>3, <1>4, <1>5, <1>6, <1>7, CallAlone, CallFlowBy

\* The gateway makes the order's one payment, or refuses.
LEMMA FlowRegisterCharge ==
    ASSUME IInv, IInv', FlowInv, Undisturbed, Undisturbed', NEW c \in Calls,
           NEW o \in Orders, reg[c].order = o, RegisterCharge(c)
    PROVE  FlowInv'
<1>0. TypeOK /\ reg[c] \in Call /\ spent.errors = 0 /\ spent'.errors = 0
  BY DEF IInv, TypeOK, Undisturbed
<1>1. reg[c].pc = "charge" /\ order[o].status = "payment_processing"
  BY DEF RegisterCharge, FlowInv, CallFits
<1>2. UNCHANGED <<order, terms, creating, hook, job, edit, effects>>
  BY DEF RegisterCharge
<1>3. \A p \in Payments : payment[p].order # o
  BY <1>1, CallAlone
<1>4. ~FaultyCall
  BY <1>0 DEF FaultyCall, TypeOK, Spent
<1>5. /\ order[o].tx = None /\ reg[c].snap.tx = None /\ Fresh(reg[c].seen, o)
      /\ ~Refunded(o) /\ Unbooked(o) /\ effects[o].sent = 0 /\ effects[o].records = 0
      /\ o \notin creating /\ RowFits(o)
      /\ \A h \in Hooks : hook[h].pc \notin {"idle", "received"}
                             => payment[hook[h].pay].order # o
      /\ \A j \in Jobs : job[j].order = o => job[j].pc = "unused"
      /\ \A d \in Calls \ {c} : reg[d].order # o
  BY <1>1, CallAlone DEF Unbooked, FlowInv, CallFits
<1>6. RowFits(o)'
  BY <1>2, <1>5 DEF RowFits
<1>7. CASE reg' = [reg EXCEPT ![c].pc = "cancel"] /\ payment' = payment
  <2>1. /\ \A d \in Calls \ {c} : reg'[d] = reg[d]
        /\ reg'[c].pc = "cancel" /\ reg'[c].order = o /\ reg'[c].snap = reg[c].snap
        /\ reg'[c].seen = reg[c].seen
    BY <1>0, <1>7 DEF TypeOK, Call
  <2>2. CallFits(reg[c])'
    BY <1>1, <1>2, <1>5, <2>1 DEF CallFits, Fresh
  <2>3. EffectsFit(o)'
    BY <1>2, <1>7 DEF EffectsFit, Refunded, Unbooked, Unserved, Unrefunded, FlowInv
  <2> QED BY <1>1, <1>2, <1>3, <1>5, <1>6, <1>7, <2>1, <2>2, <2>3, CallFlowBy
<1>8. ASSUME NEW p \in Payments,
             payment[p].state = "unused",
             payment' = [payment EXCEPT ![p] = [@ EXCEPT
                             !.state = "pending", !.order = reg[c].order]],
             reg' = [reg EXCEPT ![c].pc = "reread", ![c].pay = p]
      PROVE  FlowInv'
  <2>1. /\ \A d \in Calls \ {c} : reg'[d] = reg[d]
        /\ reg'[c].pc = "reread" /\ reg'[c].order = o /\ reg'[c].snap = reg[c].snap
        /\ reg'[c].pay = p /\ reg'[c].seen = reg[c].seen
    BY <1>0, <1>8 DEF TypeOK, Call
  <2>2. /\ \A q \in Payments \ {p} : payment'[q] = payment[q]
        /\ payment'[p].order = o /\ payment'[p].state = "pending"
        /\ payment'[p].acked = payment[p].acked
        /\ payment'[p].refunds = payment[p].refunds
    BY <1>0, <1>8 DEF TypeOK, Payment
  <2>3. payment[p].order = None /\ ~payment[p].acked
    BY <1>8 DEF FlowInv, PaymentFits
  <2>4. ~(payment[p].refunds > 0)
    BY <1>8 DEF IInv, TransactionsAreOwned
  <2>5. CallFits(reg[c])'
    BY <1>1, <1>2, <1>5, <2>1 DEF CallFits, Fresh
  <2>6. ~Refunded(o)'
    BY <1>3, <2>2, <2>4 DEF Refunded
  <2>7. EffectsFit(o)'
    BY <1>1, <1>2, <1>5, <2>6 DEF EffectsFit, Unbooked, Unserved, Unrefunded, FlowInv
  <2>8. \A q \in Payments : payment'[q].order = o => PaymentFits(q)'
    BY <1>3, <2>1, <2>2, <2>3 DEF PaymentFits, Named
  <2> QED BY <1>1, <1>2, <1>3, <1>5, <1>6, <2>1, <2>2, <2>3, <2>5, <2>7, <2>8, CallFlowBy
<1> QED BY <1>4, <1>7, <1>8 DEF RegisterCharge

\* The request reads the order again.
LEMMA FlowRegisterReread ==
    ASSUME IInv, IInv', FlowInv, Undisturbed, NEW c \in Calls, NEW o \in Orders,
           reg[c].order = o, RegisterReread(c)
    PROVE  FlowInv'
<1>0. TypeOK /\ reg[c] \in Call
  BY DEF IInv, TypeOK
<1>1. reg[c].pc = "reread" /\ order[o].status = "payment_processing"
  BY DEF RegisterReread, FlowInv, CallFits
<1>2. UNCHANGED <<order, terms, creating, payment, hook, job, edit, effects>>
  BY DEF RegisterReread
<1>3. /\ \A d \in Calls \ {c} : reg'[d] = reg[d]
      /\ reg'[c].pc = "save" /\ reg'[c].order = o /\ reg'[c].snap = reg[c].snap
      /\ reg'[c].pay = reg[c].pay /\ reg'[c].seen = reg[c].seen
  BY <1>0 DEF RegisterReread, TypeOK, Call
<1>4. CallFits(reg[c])'
  BY <1>1, <1>2, <1>3, CallAlone DEF CallFits, Fresh, FlowInv
<1>5. RowFits(o)' /\ EffectsFit(o)'
  BY <1>2 DEF FlowInv, RowFits, EffectsFit, Noticed, Refunded, Unbooked, Unserved, Unrefunded
<1>6. ASSUME NEW p \in Payments, payment'[p].order = o PROVE PaymentFits(p)'
  <2>1. PaymentFits(p) /\ reg[c].pay = p /\ ~payment[p].acked
    BY <1>1, <1>2, <1>6, CallAlone DEF FlowInv
  <2>2. Named(p)'
    BY <1>2, <1>3, <1>6, <2>1 DEF Named
  <2> QED BY <1>2, <1>6, <2>1, <2>2 DEF PaymentFits
<1> QED BY <1>1, <1>2, <1>3, <1>4, <1>5, <1>6, CallAlone, CallFlowBy

\* It writes the payment into the row.
LEMMA FlowRegisterSave ==
    ASSUME ConfirmationAlways, IInv, IInv', FlowInv, Undisturbed, NEW c \in Calls,
           NEW o \in Orders, reg[c].order = o, RegisterSave(c)
    PROVE  FlowInv'
<1>0. TypeOK /\ reg[c] \in Call
  BY DEF IInv, TypeOK
<1>1. reg[c].pc = "save" /\ order[o].status = "payment_processing"
  BY DEF RegisterSave, FlowInv, CallFits
<1>2. UNCHANGED <<terms, creating, payment, hook, job, edit, effects>>
  BY DEF RegisterSave
<1>3. /\ \A d \in Calls \ {c} : reg'[d] = reg[d]
      /\ reg'[c].pc = "idle" /\ reg'[c].order = None
      /\ \A i \in Orders \ {o} : order'[i] = order[i]
      /\ order'[o].tx = reg[c].pay /\ order'[o].status = "waiting_payment"
  <2> DEFINE r == [reg[c].fresh EXCEPT !.status = "waiting_payment", !.tx = reg[c].pay]
  <2>1. r \in Row /\ r.status = "waiting_payment" /\ r.tx = reg[c].pay
    BY <1>0 DEF Call, Row, Statuses
  <2>2. Fresh(reg[c].seen, o) /\ Save(o, r, reg[c].seen)
    BY <1>1 DEF CallFits, FlowInv, RegisterSave
  <2>3. order' = [order EXCEPT ![o] = r]
    BY <2>1, <2>2, SaveExact
  <2>4. reg' = [reg EXCEPT ![c] = NoCall]
    BY DEF RegisterSave
  <2> HIDE DEF r
  <2> QED BY <1>0, <2>1, <2>3, <2>4 DEF TypeOK, NoCall
<1>4. reg[c].pay \in Payments /\ payment[reg[c].pay].order = o
  BY <1>1, FlowKnown
<1>5. CallFits(reg[c])'
  BY <1>3 DEF CallFits
<1>6. RowFits(o)'
  <2>1. ~terms[o].free
    BY <1>1, CallAlone DEF FlowInv, RowFits
  <2>2. ~payment[reg[c].pay].acked
    BY <1>1, <1>4, CallAlone
  <2> QED BY <1>2, <1>3, <1>4, <2>1, <2>2, NoneAssumption DEF RowFits
<1>7. EffectsFit(o)'
  BY <1>1, <1>2, <1>3, CallAlone
     DEF EffectsFit, Refunded, Unbooked, Unserved, Unrefunded, FlowInv
<1>8. ASSUME NEW p \in Payments, payment'[p].order = o PROVE PaymentFits(p)'
  <2>1. PaymentFits(p) /\ reg[c].pay = p
    BY <1>1, <1>2, <1>8, CallAlone DEF FlowInv
  <2> QED BY <1>2, <1>3, <1>8, <2>1 DEF PaymentFits, Named
<1> QED BY <1>1, <1>2, <1>3, <1>5, <1>6, <1>7, <1>8, CallAlone, CallFlowBy

\* The gateway refused: the order is canceled.
LEMMA FlowRegisterCancel ==
    ASSUME IInv, IInv', FlowInv, Undisturbed, NEW c \in Calls,
           NEW o \in Orders, reg[c].order = o, RegisterCancel(c)
    PROVE  FlowInv'
<1>0. TypeOK /\ reg[c] \in Call
  BY DEF IInv, TypeOK
<1>1. reg[c].pc = "cancel" /\ order[o].status = "payment_processing"
  BY DEF RegisterCancel, FlowInv, CallFits
<1>2. UNCHANGED <<terms, creating, payment, hook, job, edit, effects>>
  BY DEF RegisterCancel
<1>3. /\ \A d \in Calls \ {c} : reg'[d] = reg[d]
      /\ reg'[c].pc = "idle" /\ reg'[c].order = None
      /\ \A i \in Orders \ {o} : order'[i] = order[i]
      /\ order'[o].tx = None /\ order'[o].status = "canceled"
  <2>1. /\ reg[c].snap \in Row /\ reg[c].snap.tx = None /\ Fresh(reg[c].seen, o)
        /\ Save(o, [reg[c].snap EXCEPT !.status = "canceled"], reg[c].seen)
    BY <1>0, <1>1 DEF Call, CallFits, FlowInv, RegisterCancel
  <2>2. /\ \A i \in Orders \ {o} : order'[i] = order[i]
        /\ order'[o].tx = None /\ order'[o].status = "canceled"
    BY <1>0, <2>1, SaveStatus DEF Statuses
  <2> QED BY <1>0, <2>2 DEF RegisterCancel, TypeOK, NoCall
<1>4. \A p \in Payments : payment[p].order # o
  BY <1>1, CallAlone
<1>5. CallFits(reg[c])'
  BY <1>3 DEF CallFits
<1>6. RowFits(o)'
  BY <1>3 DEF RowFits
<1>7. EffectsFit(o)'
  BY <1>1, <1>2, <1>3, CallAlone
     DEF EffectsFit, Refunded, Unbooked, Unserved, Unrefunded, FlowInv
<1> QED BY <1>1, <1>2, <1>3, <1>4, <1>5, <1>6, <1>7, CallAlone, CallFlowBy

\* No call fails while nothing disturbs.
LEMMA NoFault == ASSUME TypeOK, Undisturbed' PROVE ~FaultyCall
  BY DEF FaultyCall, Undisturbed, TypeOK, Spent

\* Every step of a registration keeps the flow.
LEMMA FlowRegister ==
    ASSUME ConfirmationAlways, IInv, IInv', FlowInv, Undisturbed, Undisturbed',
           NEW c \in Calls, RegisterStep(c)
    PROVE  FlowInv'
<1>1. reg[c].pc # "idle"
  BY DEF RegisterStep, RegisterSelect, RegisterProcessing, RegisterCharge, RegisterReread,
         RegisterSave, RegisterCancel
<1>2. reg[c].order \in Orders
  BY <1>1, FlowKnown
<1> QED BY <1>2, FlowRegisterSelect, FlowRegisterProcessing, FlowRegisterCharge, FlowRegisterReread,
           FlowRegisterSave, FlowRegisterCancel DEF RegisterStep

\* A new order is nobody's yet.
LEMMA NewAlone ==
    ASSUME IInv, FlowInv, NEW o \in Orders,
           order[o].status \in {"absent", "created", "free_processing"}
    PROVE  /\ order[o].tx = None
           /\ \A p \in Payments : payment[p].order # o
           /\ \A c \in Calls : reg[c].order = o /\ order[o].status # "created"
                                  => reg[c].pc = "idle"
           /\ \A h \in Hooks : hook[h].pc # "idle" => payment[hook[h].pay].order # o
<1>1. order[o].tx = None
  BY FlowStatus
<1>2. \A p \in Payments : payment[p].order # o
  BY <1>1, FlowStatus, NoneAssumption
<1>3. \A c \in Calls : reg[c].order = o /\ order[o].status # "created" => reg[c].pc = "idle"
  BY FlowStatus
<1>4. \A h \in Hooks : hook[h].pc # "idle" => payment[hook[h].pay].order # o
  BY <1>2, FlowKnown
<1> QED BY <1>1, <1>2, <1>3, <1>4

\* The client creates an order.
LEMMA FlowCreate ==
    ASSUME IInv, IInv', FlowInv, NEW o \in Orders, NEW t \in OrderTerms, CreateOrder(o, t)
    PROVE  FlowInv'
<1>0. TypeOK /\ t \in Terms
  BY TermsAssumption DEF IInv
<1>1. order[o].status = "absent"
  BY DEF CreateOrder
<1>2. UNCHANGED <<reg, payment, hook, job, edit, effects>>
  BY DEF CreateOrder
<1>3. /\ \A i \in Orders \ {o} : order'[i] = order[i] /\ terms'[i] = terms[i]
      /\ order'[o].tx = None /\ terms'[o] = t
      /\ order'[o].status = IF t.free THEN "free_processing" ELSE "created"
      /\ \A i \in Orders : i \in creating' => i \in creating \/ (i = o /\ t.free)
  <2>1. creating' = IF t.free THEN creating \cup {o} ELSE creating
    BY DEF CreateOrder
  <2>2. \A i \in Orders : i \in creating' => i \in creating \/ (i = o /\ t.free)
    BY DEF CreateOrder
  <2>3. order' = [order EXCEPT ![o] = [NoRow EXCEPT
                    !.status = IF t.free THEN "free_processing" ELSE "created"]]
    BY DEF CreateOrder
  <2>4. terms' = [terms EXCEPT ![o] = t]
    BY DEF CreateOrder
  <2> QED BY <1>0, <2>2, <2>3, <2>4 DEF NoRow, TypeOK
<1>4. /\ \A p \in Payments : payment[p].order # o
      /\ \A c \in Calls : reg[c].order = o => reg[c].pc = "idle"
      /\ \A h \in Hooks : hook[h].pc # "idle" => payment[hook[h].pay].order # o
  BY <1>1, NewAlone
<1>5. \A j \in Jobs : job[j].order # o
  BY <1>1 DEF IInv, AbsentIsUntouched
<1>6. effects[o] = NoEffects /\ o \notin creating
  BY <1>1 DEF IInv, AbsentIsUntouched
<1>7. Apart(o)
  BY <1>2, <1>3 DEF Apart
<1>8. RowFits(o)'
  BY <1>3 DEF RowFits
<1>9. EffectsFit(o)'
  BY <1>2, <1>3, <1>4, <1>6, BoundsAssumption
     DEF EffectsFit, Refunded, Unbooked, Unserved, Unrefunded, NoEffects
<1>10. \A c \in Calls : reg'[c].order = o => CallFits(reg[c])'
  BY <1>2, <1>4 DEF CallFits
<1>11. ASSUME NEW h \in Hooks, Ours(hook'[h], o) PROVE HookFits(h)'
  BY <1>0, <1>2, <1>4, <1>11, FlowTyped DEF Ours
<1> QED BY <1>2, <1>4, <1>5, <1>7, <1>8, <1>9, <1>10, <1>11, FlowBy DEF FlowInv

\* A free order is put on the queue, once.
LEMMA FlowEnqueueFree ==
    ASSUME IInv, IInv', FlowInv, NEW o \in Orders, EnqueueFree(o)
    PROVE  FlowInv'
<1>0. TypeOK
  BY DEF IInv
<1>1. UNCHANGED <<order, terms, reg, payment, hook, edit, effects>>
  BY DEF EnqueueFree
<1>2. PICK j \in Jobs : job[j].pc = "unused" /\ job' = [job EXCEPT ![j] = Queued(o)]
  BY DEF EnqueueFree, AddJob
<1>3. /\ \A i \in Jobs \ {j} : job'[i] = job[i]
      /\ job'[j].pc = "waiting" /\ job'[j].order = o /\ job'[j].seen = NoRow
      /\ o \in creating /\ o \notin creating' /\ creating' \subseteq creating
  BY <1>0, <1>2 DEF TypeOK, Queued, NoJob, EnqueueFree
<1>4. order[o].status = "free_processing" /\ Unserved(o) /\ RowFits(o) /\ EffectsFit(o)
  BY <1>3 DEF FlowInv, EffectsFit
<1>5. /\ order[o].tx = None
      /\ \A p \in Payments : payment[p].order # o
      /\ \A c \in Calls : reg[c].order = o => reg[c].pc = "idle"
      /\ \A h \in Hooks : hook[h].pc # "idle" => payment[hook[h].pay].order # o
  BY <1>4, NewAlone
<1>6. \A i \in Jobs : job[i].order # o
  BY <1>3, NoneAssumption DEF FlowInv, JobFits
<1>7. Apart(o)
  BY <1>1, <1>2, <1>3, <1>6 DEF Apart
<1>8. RowFits(o)' /\ EffectsFit(o)'
  BY <1>1, <1>3, <1>4
     DEF RowFits, EffectsFit, Noticed, Refunded, Unbooked, Unserved, Unrefunded
<1>9. \A c \in Calls : reg'[c].order = o => CallFits(reg[c])'
  BY <1>1, <1>5 DEF CallFits
<1>10. ASSUME NEW h \in Hooks, Ours(hook'[h], o) PROVE HookFits(h)'
  BY <1>0, <1>1, <1>5, <1>10, FlowTyped DEF Ours
<1>11. ASSUME NEW i \in Jobs, job'[i].order = o PROVE JobFits(i)'
  <2>1. CASE i = j
    <3>1. terms[o].free
      BY <1>4, <1>5 DEF RowFits
    <3> QED BY <1>1, <1>3, <1>4, <1>6, <2>1, <3>1
        DEF JobFits, Fresh, Startable, Unserved, Unrefunded, Refunded, Serving
  <2>2. CASE i # j
    BY <1>3, <1>6, <1>11, <2>2
  <2> QED BY <2>1, <2>2
<1> QED BY <1>1, <1>5, <1>7, <1>8, <1>9, <1>10, <1>11, FlowBy DEF FlowInv

\* The gateway decides: nobody knows of it yet.
LEMMA FlowResolve ==
    ASSUME IInv, IInv', FlowInv, NEW p \in Payments, PaymentResolves(p)
    PROVE  FlowInv'
<1>0. TypeOK
  BY DEF IInv
<1>1. UNCHANGED <<order, terms, creating, reg, hook, job, edit, effects>>
  BY DEF PaymentResolves
<1>2. \A q \in Payments : /\ payment'[q].order = payment[q].order
                          /\ payment'[q].acked = payment[q].acked
                          /\ payment'[q].refunds = payment[q].refunds
                          /\ payment'[q].state = "unused" => payment[q].state = "unused"
  BY <1>0 DEF PaymentResolves, TypeOK, Payment
<1>3. payment[p].order \in Orders
  BY <1>0, FlowTyped DEF PaymentResolves, IInv, TransactionsAreOwned
<1> DEFINE o == payment[p].order
<1>4. PICK i \in Orders : i = o
  BY <1>3
<1>5. Apart(i)
  BY <1>1, <1>2, NoneAssumption DEF Apart
<1>6. \A c \in Calls : CallFits(reg[c])'
  BY <1>1 DEF FlowInv, CallFits, Fresh
<1>7. \A q \in Payments : PaymentFits(q)' /\ payment'[q].refunds <= 1
  <2> TAKE q \in Payments
  <2>1. PaymentFits(q) /\ payment[q].refunds <= 1
    BY DEF FlowInv
  <2>2. Named(q) => Named(q)'
    BY <1>1, <1>2 DEF Named
  <2> QED BY <1>2, <2>1, <2>2 DEF PaymentFits
<1>8. RowFits(i)' /\ EffectsFit(i)'
  <2>1. RowFits(i) /\ EffectsFit(i)
    BY DEF FlowInv
  <2>2. Refunded(i)' <=> Refunded(i)
    BY <1>2 DEF Refunded
  <2>3. order[i].tx # None => payment'[order[i].tx].acked = payment[order[i].tx].acked
    BY <1>2, FlowKnown
  <2>4. RowFits(i)'
    BY <1>1, <2>1, <2>3 DEF RowFits, Noticed
  <2> QED BY <1>1, <2>1, <2>2, <2>3, <2>4
          DEF EffectsFit, Unbooked, Unserved, Unrefunded
<1>9. ASSUME NEW h \in Hooks PROVE HookFits(h)'
  <2>1. HookFits(h) /\ hook[h].pc # "idle" => payment'[hook[h].pay].acked = payment[hook[h].pay].acked
    BY <1>2, FlowKnown
  <2> QED BY <1>1, <2>1 DEF FlowInv, HookFits, Fresh
<1>10. ASSUME NEW j \in Jobs PROVE JobFits(j)'
  <2>1. JobFits(j)
    BY DEF FlowInv
  <2>2. CASE job[j].pc # "unused"
    <3>1. PICK k \in Orders : k = job[j].order
      BY <2>2, FlowKnown
    <3>2. /\ Refunded(k)' <=> Refunded(k)
          /\ order[k].tx # None => payment'[order[k].tx].acked = payment[order[k].tx].acked
      BY <1>2, FlowKnown DEF Refunded
    <3> QED BY <1>1, <2>1, <2>2, <3>1, <3>2
            DEF JobFits, Fresh, Startable, Unserved, Unrefunded
  <2>3. CASE job[j].pc = "unused"
    BY <1>1, <2>1, <2>3 DEF JobFits
  <2> QED BY <2>2, <2>3
<1> QED BY <1>1, <1>5, <1>6, <1>7, <1>8, <1>9, <1>10, FlowBy DEF FlowInv

\* A notice is delivered for the first time.
LEMMA FlowDeliver ==
    ASSUME IInv, IInv', FlowInv, Undisturbed', NEW h \in Hooks, NEW p \in Payments,
           Deliver(h, p)
    PROVE  FlowInv'
<1>0. TypeOK
  BY DEF IInv
<1>1. UNCHANGED <<order, terms, creating, reg, payment, job, edit, effects>>
  BY DEF Deliver
<1>2. ~payment[p].acked /\ \A g \in Hooks : hook[g].pay # p
  BY <1>0 DEF Deliver, Undisturbed, TypeOK, Spent
<1>3. /\ hook[h].pc = "idle"
      /\ \A g \in Hooks \ {h} : hook'[g] = hook[g]
      /\ hook'[h].pc = "received" /\ hook'[h].pay = p /\ hook'[h].seen = NoRow
  BY <1>0 DEF Deliver, TypeOK, NoHook
<1>4. PICK o \in Orders : payment[p].order = o
  BY <1>0, FlowTyped DEF Deliver, IInv, TransactionsAreOwned
<1>5. Apart(o)
  BY <1>1, <1>3, <1>4, NoneAssumption DEF Apart, Ours
<1>6. \A c \in Calls : CallFits(reg[c])'
  BY <1>1 DEF FlowInv, CallFits, Fresh
<1>7. \A q \in Payments : PaymentFits(q)' /\ payment'[q].refunds <= 1
  BY <1>1 DEF FlowInv, PaymentFits, Named
<1>8. RowFits(o)' /\ EffectsFit(o)'
  <2>1. \A q : Noticed(q) => Noticed(q)'
    BY <1>3 DEF Noticed, Ledger
  <2> QED BY <1>1, <2>1
          DEF FlowInv, RowFits, EffectsFit, Refunded, Unbooked, Unserved, Unrefunded
<1>9. ASSUME NEW g \in Hooks, Ours(hook'[g], o) PROVE HookFits(g)'
  <2>1. CASE g = h
    BY <1>1, <1>2, <1>3, <2>1 DEF HookFits, Ledger
  <2>2. CASE g # h
    BY <1>1, <1>2, <1>3, <2>2 DEF FlowInv, HookFits, Fresh
  <2> QED BY <2>1, <2>2
<1>10. \A j \in Jobs : JobFits(j)'
  BY <1>1 DEF FlowInv, JobFits, Fresh, Startable, Unserved, Unrefunded, Refunded
<1> QED BY <1>1, <1>5, <1>6, <1>7, <1>8, <1>9, <1>10, FlowBy DEF FlowInv

\* What an unanswered notice knows of the order that names its payment: nobody
\* else works on it, and it was not served.
LEMMA HookAlone ==
    ASSUME IInv, FlowInv, NEW h \in Hooks, NEW p \in Payments, NEW o \in Orders,
           hook[h].pc # "idle", hook[h].pay = p, order[o].tx = p
    PROVE  /\ payment[p].order = o /\ ~payment[p].acked /\ ~terms[o].free
           /\ hook[h].pc \in {"received", "write"} => order[o].status = "waiting_payment"
           /\ hook[h].pc \in Ledger => order[o].status = "payed"
           /\ \A c \in Calls : reg[c].order = o => reg[c].pc = "idle"
           /\ \A q \in Payments : payment[q].order = o => q = p
           /\ \A g \in Hooks : hook[g].pay = p => g = h
           /\ \A j \in Jobs : job[j].order # o
           /\ o \notin creating /\ Unserved(o)
<1>0. TypeOK /\ RowFits(o) /\ EffectsFit(o) /\ HookFits(h) /\ p # None
  BY NoneAssumption DEF IInv, FlowInv
<1>1. payment[p].order = o
  BY <1>0, FlowKnown
<1>2. ~payment[p].acked /\ \A g \in Hooks : hook[g].pay = p => g = h
  BY <1>0 DEF HookFits
<1>3. ~terms[o].free
  BY <1>0 DEF RowFits
<1>4. \A c \in Calls : reg[c].order = o => reg[c].pc = "idle"
  <2>1. order[o].status \notin {"created", "payment_processing"}
    BY <1>0 DEF RowFits
  <2> QED BY <2>1, FlowStatus
<1>5. \A q \in Payments : payment[q].order = o => q = p
  BY <1>1, NoneAssumption DEF FlowInv, PaymentFits
<1>6. \A j \in Jobs : job[j].order # o
  <2> SUFFICES ASSUME NEW j \in Jobs, job[j].order = o PROVE FALSE
    OBVIOUS
  <2>1. job[j].pc # "unused"
    BY NoneAssumption DEF FlowInv, JobFits
  <2> QED BY <1>1, <1>2, <2>1, JobAlone
<1>7. o \notin creating /\ Unserved(o)
  <2>1. order[o].status # "free_processing"
    BY <1>0 DEF RowFits
  <2> QED BY <1>0, <1>2, <2>1 DEF EffectsFit
<1>8. hook[h].pc \in {"received", "write"} => order[o].status = "waiting_payment"
  BY <1>0, <1>2 DEF RowFits, Noticed, Ledger
<1>9. hook[h].pc \in Ledger => order[o].status = "payed"
  <2>1. ASSUME hook[h].pc \in Ledger PROVE hook[h].order = o
    BY <1>1, <2>1, FlowKnown DEF Ledger
  <2> QED BY <1>0, <2>1 DEF HookFits
<1> QED BY <1>1, <1>2, <1>3, <1>4, <1>5, <1>6, <1>7, <1>8, <1>9

\* So a step of the webhook disturbs only the notice, its order and a new job.
LEMMA HookFlowBy ==
    ASSUME IInv, IInv', FlowInv, NEW h \in Hooks, NEW p \in Payments, NEW o \in Orders,
           hook[h].pc # "idle", hook[h].pay = p, order[o].tx = p,
           UNCHANGED <<terms, creating, reg, edit>>,
           \A i \in Orders \ {o} : order'[i] = order[i] /\ effects'[i] = effects[i],
           order'[o].tx = p,
           \A g \in Hooks \ {h} : hook'[g] = hook[g],
           hook'[h].pay \in {p, None},
           \A q \in Payments : /\ payment'[q].order = payment[q].order
                               /\ payment'[q].state = payment[q].state
                               /\ payment'[q].refunds = payment[q].refunds
                               /\ q # p => payment'[q].acked = payment[q].acked,
           \A j \in Jobs : job'[j] = job[j] \/ (job[j].pc = "unused" /\ job'[j].order = o),
           RowFits(o)', EffectsFit(o)', HookFits(h)',
           \A j \in Jobs : job'[j].order = o => JobFits(j)'
    PROVE  FlowInv'
<1>0. TypeOK /\ p # None
  BY NoneAssumption DEF IInv
<1>1. /\ payment[p].order = o
      /\ \A q \in Payments : payment[q].order = o => q = p
  BY HookAlone
<1>2. Apart(o)
  BY <1>0, <1>1 DEF Apart, Ours
<1>3. \A c \in Calls : reg'[c].order = o => CallFits(reg[c])'
  BY HookAlone DEF CallFits
<1>4. ASSUME NEW q \in Payments, payment'[q].order = o
      PROVE  PaymentFits(q)' /\ payment'[q].refunds <= 1
  <2>1. q = p /\ PaymentFits(q) /\ payment[q].refunds <= 1
    BY <1>1, <1>4 DEF FlowInv
  <2> QED BY <1>1, <1>4, <2>1, NoneAssumption DEF PaymentFits, Named
<1>5. ASSUME NEW g \in Hooks, Ours(hook'[g], o) PROVE HookFits(g)'
  <2>1. CASE g # h
    <3>1. hook[g].pay \in Payments /\ payment[hook[g].pay].order = o
      BY <1>0, <1>5, <2>1, FlowTyped DEF Ours
    <3> QED BY <1>1, <2>1, <3>1, HookAlone
  <2> QED BY <2>1
<1>6. edit' = NoEdit
  BY DEF FlowInv
<1> QED BY <1>2, <1>3, <1>4, <1>5, <1>6, FlowBy

\* The webhook looks its order up; a notice too early is left to be repeated.
LEMMA FlowWebhookRead ==
    ASSUME IInv, IInv', FlowInv, NEW h \in Hooks, WebhookRead(h)
    PROVE  FlowInv'
<1>0. TypeOK /\ hook[h] \in Hook
  BY DEF IInv, TypeOK
<1>1. /\ hook[h].pc = "received"
      /\ UNCHANGED <<order, terms, creating, reg, payment, job, edit, effects>>
  BY DEF WebhookRead, Found, Unanswered
<1>2. PICK p \in Payments : p = hook[h].pay
  BY <1>1, FlowKnown
<1>3. \A q : hook'[h].pc \notin Ledger /\ (\A g \in Hooks \ {h} : hook'[g] = hook[g])
               => (Noticed(q)' <=> Noticed(q))
  BY <1>1 DEF Noticed, Ledger
<1>4. CASE \E o \in Orders :
              /\ Found(h, o)
              /\ hook' = [hook EXCEPT ![h] = [@ EXCEPT !.pc = "write", !.order = o,
                                                       !.snap = order[o]]]
  <2>1. PICK o \in Orders :
              /\ order[o].tx = p
              /\ hook' = [hook EXCEPT ![h] = [@ EXCEPT !.pc = "write", !.order = o,
                                                       !.snap = order[o]]]
    BY <1>2, <1>4 DEF Found
  <2>2. /\ \A g \in Hooks \ {h} : hook'[g] = hook[g]
        /\ hook'[h].pay = p /\ hook'[h].pc = "write" /\ hook'[h].order = o
        /\ hook'[h].seen = hook[h].seen
    BY <1>0, <1>2, <2>1 DEF TypeOK, Hook
  <2>3. RowFits(o)' /\ EffectsFit(o)'
    <3>1. Noticed(p)' <=> Noticed(p)
      BY <1>3, <2>2 DEF Ledger
    <3> QED BY <1>1, <2>1, <3>1
            DEF FlowInv, RowFits, EffectsFit, Refunded, Unbooked, Unserved, Unrefunded
  <2>4. HookFits(h)'
    <3>1. hook[h].seen = NoRow
      BY <1>1 DEF FlowInv, HookFits
    <3> QED BY <1>1, <1>2, <2>1, <2>2, <3>1, HookAlone DEF HookFits, Fresh, Ledger
  <2>5. \A j \in Jobs : job'[j].order # o
    BY <1>1, <1>2, <2>1, HookAlone
  <2> QED BY <1>1, <1>2, <2>1, <2>2, <2>3, <2>4, <2>5, HookFlowBy
<1>5. CASE hook' = [hook EXCEPT ![h] = NoHook]
  <2>1. /\ \A g \in Hooks \ {h} : hook'[g] = hook[g]
        /\ hook'[h].pay = None /\ hook'[h].pc = "idle"
    BY <1>0, <1>5 DEF TypeOK, NoHook
  <2>2. PICK o \in Orders : payment[p].order = o
    BY <1>1, <1>2, FlowKnown
  <2>3. Apart(o)
    BY <1>1, <1>2, <2>1, <2>2, NoneAssumption DEF Apart, Ours
  <2>4. \A c \in Calls : CallFits(reg[c])'
    BY <1>1 DEF FlowInv, CallFits, Fresh
  <2>5. \A q \in Payments : PaymentFits(q)' /\ payment'[q].refunds <= 1
    BY <1>1 DEF FlowInv, PaymentFits, Named
  <2>6. RowFits(o)' /\ EffectsFit(o)'
    <3>1. \A q : Noticed(q)' <=> Noticed(q)
      BY <1>3, <2>1 DEF Ledger
    <3> QED BY <1>1, <3>1
            DEF FlowInv, RowFits, EffectsFit, Refunded, Unbooked, Unserved, Unrefunded
  <2>7. \A g \in Hooks : Ours(hook'[g], o) => HookFits(g)'
    BY <1>1, <2>1 DEF FlowInv, HookFits, Fresh, Ours
  <2>8. \A j \in Jobs : JobFits(j)'
    BY <1>1 DEF FlowInv, JobFits, Fresh, Startable, Unserved, Unrefunded, Refunded
  <2> QED BY <1>1, <2>3, <2>4, <2>5, <2>6, <2>7, <2>8, FlowBy DEF FlowInv
<1> QED BY <1>4, <1>5 DEF WebhookRead, Unanswered

\* What every later step of the webhook starts from.
LEMMA HookKnows ==
    ASSUME IInv, FlowInv, NEW h \in Hooks, hook[h].pc \notin {"idle", "received"}
    PROVE  /\ hook[h].order \in Orders /\ hook[h].pay \in Payments
           /\ order[hook[h].order].tx = hook[h].pay
           /\ hook[h].pc = "write" => hook[h].snap.tx = hook[h].pay
<1>1. hook[h].pc \in {"write"} \cup Ledger
  BY FlowTyped DEF IInv
<1> QED BY <1>1, FlowKnown DEF FlowInv, HookFits, Ledger

\* It selects the row it is about to save.
LEMMA FlowWebhookSelect ==
    ASSUME IInv, IInv', FlowInv, NEW h \in Hooks, WebhookSelect(h)
    PROVE  FlowInv'
<1>0. TypeOK /\ hook[h] \in Hook
  BY DEF IInv, TypeOK
<1>1. /\ hook[h].pc = "write"
      /\ UNCHANGED <<order, terms, creating, reg, payment, job, edit, effects>>
  BY DEF WebhookSelect
<1>2. PICK o \in Orders, p \in Payments :
         o = hook[h].order /\ p = hook[h].pay /\ order[o].tx = p
  BY <1>1, HookKnows
<1>3. /\ \A g \in Hooks \ {h} : hook'[g] = hook[g]
      /\ hook'[h].pay = p /\ hook'[h].pc = "write" /\ hook'[h].order = o
      /\ hook'[h].seen = order[o]
  BY <1>0, <1>1, <1>2 DEF WebhookSelect, TypeOK, Hook
<1>4. RowFits(o)' /\ EffectsFit(o)'
  <2>1. Noticed(p)' <=> Noticed(p)
    BY <1>1, <1>3 DEF Noticed, Ledger
  <2> QED BY <1>1, <1>2, <2>1
          DEF FlowInv, RowFits, EffectsFit, Refunded, Unbooked, Unserved, Unrefunded
<1>5. HookFits(h)'
  <2>1. HookFits(h)
    BY DEF FlowInv
  <2> QED BY <1>1, <1>2, <1>3, <2>1 DEF HookFits, Fresh, Ledger
<1>6. \A j \in Jobs : job'[j].order # o
  BY <1>1, <1>2, HookAlone
<1> QED BY <1>1, <1>2, <1>3, <1>4, <1>5, <1>6, HookFlowBy

\* A refused payment cancels the order, an accepted one makes it payed.
LEMMA FlowWebhookWrite ==
    ASSUME IInv, IInv', FlowInv, NEW h \in Hooks, WebhookCanceled(h) \/ WebhookPayed(h)
    PROVE  FlowInv'
<1>0. TypeOK /\ hook[h] \in Hook
  BY DEF IInv, TypeOK
<1>1. hook[h].pc = "write" /\ UNCHANGED <<terms, creating, reg, job, edit, effects>>
  BY DEF WebhookCanceled, WebhookPayed, Refuses
<1>2. PICK o \in Orders, p \in Payments :
         /\ o = hook[h].order /\ p = hook[h].pay
         /\ order[o].tx = p /\ hook[h].snap.tx = p
         /\ hook[h].snap \in Row /\ Fresh(hook[h].seen, o)
  BY <1>0, <1>1, HookKnows DEF Hook, FlowInv, HookFits
<1>3. /\ payment[p].order = o /\ ~terms[o].free /\ o \notin creating
      /\ order[o].status = "waiting_payment"
      /\ effects[o].withdrawn = 0 /\ effects[o].accrued = 0
      /\ effects[o].sent = 0 /\ effects[o].records = 0 /\ ~Refunded(o)
      /\ \A j \in Jobs : job[j].order # o
  BY <1>1, <1>2, HookAlone DEF FlowInv, EffectsFit, Unbooked, Unserved, Unrefunded
<1>4. CASE WebhookCanceled(h)
  <2>1. /\ \A i \in Orders \ {o} : order'[i] = order[i]
        /\ order'[o].tx = p /\ order'[o].status = "canceled"
    <3>1. Save(o, [hook[h].snap EXCEPT !.status = "canceled"], hook[h].seen)
      BY <1>2, <1>4 DEF WebhookCanceled
    <3> QED BY <1>0, <1>2, <3>1, SaveStatus DEF Statuses
  <2>2. /\ \A g \in Hooks \ {h} : hook'[g] = hook[g]
        /\ hook'[h].pay = None /\ hook'[h].pc = "idle"
    BY <1>0, <1>4 DEF WebhookCanceled, Acknowledge, TypeOK, NoHook
  <2>3. /\ \A q \in Payments : /\ payment'[q].order = payment[q].order
                               /\ payment'[q].state = payment[q].state
                               /\ payment'[q].refunds = payment[q].refunds
                               /\ q # p => payment'[q].acked = payment[q].acked
        /\ payment'[p].acked
    BY <1>0, <1>2, <1>4 DEF WebhookCanceled, Acknowledge, TypeOK, Payment
  <2>4. RowFits(o)'
    BY <1>1, <1>3, <2>1, <2>3, NoneAssumption DEF RowFits
  <2>5. ~Refunded(o)'
    BY <1>3, <2>3 DEF Refunded
  <2>6. EffectsFit(o)'
    BY <1>1, <1>3, <2>1, <2>5, BoundsAssumption DEF EffectsFit, Unserved, Unrefunded
  <2>7. HookFits(h)'
    BY <2>2 DEF HookFits, Ledger
  <2> QED BY <1>1, <1>2, <1>3, <2>1, <2>2, <2>3, <2>4, <2>6, <2>7, HookFlowBy
<1>5. CASE WebhookPayed(h)
  <2>1. /\ \A i \in Orders \ {o} : order'[i] = order[i]
        /\ order'[o].tx = p /\ order'[o].status = "payed"
    <3>1. Save(o, [hook[h].snap EXCEPT !.status = "payed"], hook[h].seen)
      BY <1>2, <1>5 DEF WebhookPayed
    <3>2. "payed" \in Statuses
      BY StatusesWritten
    <3>3. hook[h].snap \in Row /\ hook[h].snap.tx = p /\ Fresh(hook[h].seen, o)
      BY <1>0, <1>2
    <3> QED BY <1>0, <3>1, <3>2, <3>3, SaveStatus
  <2>2. /\ \A g \in Hooks \ {h} : hook'[g] = hook[g]
        /\ hook'[h].pay = p /\ hook'[h].order = o
        /\ hook'[h].pc \in Ledger
    <3>1. PICK s \in Ledger :
            hook' = [hook EXCEPT ![h].pc = s, ![h].snap = NoRow, ![h].seen = NoRow]
      BY <1>5 DEF WebhookPayed, AfterWithdraw, Refuses, Ledger
    <3> QED BY <1>0, <1>2, <3>1 DEF TypeOK, Hook
  <2>3. payment' = payment
    BY <1>5 DEF WebhookPayed, Refuses
  <2>4. RowFits(o)'
    <3>1. Noticed(p)'
      BY <2>2 DEF Noticed
    <3> QED BY <1>1, <1>3, <2>1, <3>1, NoneAssumption DEF RowFits
  <2>5. EffectsFit(o)'
    BY <1>1, <1>3, <2>1, <2>3, BoundsAssumption
       DEF EffectsFit, Unserved, Unrefunded, Refunded
  <2>6. HookFits(h)'
    <3>1. ~payment[p].acked /\ \A g \in Hooks : hook[g].pay = p => g = h
      BY <1>1, <1>2, HookAlone
    <3> QED BY <1>1, <1>3, <2>1, <2>2, <2>3, <3>1 DEF HookFits, Ledger
  <2> QED BY <1>1, <1>2, <1>3, <2>1, <2>2, <2>3, <2>4, <2>5, <2>6, HookFlowBy
<1> QED BY <1>4, <1>5

\* Points are withdrawn, and cashback accrued, once.
LEMMA FlowWebhookBook ==
    ASSUME IInv, IInv', FlowInv, NEW h \in Hooks, WebhookWithdraw(h) \/ WebhookAccrue(h)
    PROVE  FlowInv'
<1>0. TypeOK /\ hook[h] \in Hook
  BY DEF IInv, TypeOK
<1>1. /\ hook[h].pc \in {"withdraw", "accrue"}
      /\ UNCHANGED <<order, terms, creating, reg, payment, job, edit>>
  BY DEF WebhookWithdraw, WebhookAccrue
<1>2. PICK o \in Orders, p \in Payments :
         /\ o = hook[h].order /\ p = hook[h].pay
         /\ order[o].tx = p
  BY <1>1, HookKnows
<1>3. /\ ~terms[o].free /\ ~payment[p].acked /\ order[o].status = "payed" /\ Unserved(o)
      /\ effects[o].accrued = 0
      /\ hook[h].pc = "withdraw" => effects[o].withdrawn = 0
      /\ effects[o].withdrawn <= 1
      /\ \A j \in Jobs : job[j].order # o
      /\ \A g \in Hooks : hook[g].pay = p => g = h
      /\ effects[o] \in Effects /\ o \notin creating
  BY <1>0, <1>1, <1>2, HookAlone DEF Ledger, FlowInv, HookFits, EffectsFit, TypeOK
<1>4. /\ \A g \in Hooks \ {h} : hook'[g] = hook[g]
      /\ hook'[h].pay = p /\ hook'[h].order = o
      /\ hook'[h].pc \in {"accrue", "enqueue"}
      /\ hook[h].pc = "accrue" => hook'[h].pc = "enqueue"
  BY <1>0, <1>2 DEF WebhookWithdraw, WebhookAccrue, AfterWithdraw, TypeOK, Hook
<1>5. /\ \A i \in Orders \ {o} : effects'[i] = effects[i]
      /\ effects'[o].sent = effects[o].sent /\ effects'[o].records = effects[o].records
      /\ effects'[o].withdrawn <= 1 /\ effects'[o].accrued <= 1
      /\ hook'[h].pc = "accrue" => effects'[o].accrued = 0
  <2>1. CASE WebhookWithdraw(h)
    BY <1>0, <1>2, <1>3, <2>1 DEF WebhookWithdraw, TypeOK, Effects
  <2>2. CASE WebhookAccrue(h)
    <3>1. hook[h].pc = "accrue" /\ hook'[h].pc = "enqueue"
      BY <1>4, <2>2 DEF WebhookAccrue
    <3> QED BY <1>0, <1>2, <1>3, <2>2, <3>1 DEF WebhookAccrue, TypeOK, Effects
  <2> QED BY <2>1, <2>2
<1>6. RowFits(o)'
  <2>1. Noticed(p)'
    BY <1>4 DEF Noticed, Ledger
  <2> QED BY <1>1, <1>2, <1>3, <2>1, NoneAssumption DEF RowFits
<1>7. EffectsFit(o)'
  <2>1. Unserved(o)'
    BY <1>1, <1>3, <1>5 DEF Unserved, Unrefunded, Refunded
  <2> QED BY <1>1, <1>3, <1>5, <2>1, BoundsAssumption
          DEF EffectsFit, Unserved, Unrefunded
<1>8. HookFits(h)'
  BY <1>1, <1>2, <1>3, <1>4, <1>5 DEF HookFits, Ledger
<1> QED BY <1>1, <1>2, <1>3, <1>4, <1>5, <1>6, <1>7, <1>8, HookFlowBy

\* The answer puts the order on the queue, once.
LEMMA FlowWebhookEnqueue ==
    ASSUME IInv, IInv', FlowInv, NEW h \in Hooks, WebhookEnqueue(h)
    PROVE  FlowInv'
<1>0. TypeOK /\ hook[h] \in Hook
  BY DEF IInv, TypeOK
<1>1. hook[h].pc = "enqueue" /\ UNCHANGED <<order, terms, creating, reg, edit, effects>>
  BY DEF WebhookEnqueue
<1>2. PICK o \in Orders, p \in Payments :
         /\ o = hook[h].order /\ p = hook[h].pay
         /\ order[o].tx = p
  BY <1>1, HookKnows
<1>3. /\ ~terms[o].free /\ order[o].status = "payed" /\ Unserved(o)
      /\ \A j \in Jobs : job[j].order # o
      /\ o \notin creating /\ RowFits(o) /\ EffectsFit(o)
  BY <1>1, <1>2, HookAlone DEF Ledger, FlowInv
<1>4. PICK j \in Jobs : job[j].pc = "unused" /\ job' = [job EXCEPT ![j] = Queued(o)]
  BY <1>2 DEF WebhookEnqueue, AddJob
<1>5. /\ \A i \in Jobs \ {j} : job'[i] = job[i]
      /\ job'[j].pc = "waiting" /\ job'[j].order = o /\ job'[j].seen = NoRow
  BY <1>0, <1>4 DEF TypeOK, Queued, NoJob
<1>6. /\ \A g \in Hooks \ {h} : hook'[g] = hook[g]
      /\ hook'[h].pay = None /\ hook'[h].pc = "idle"
  BY <1>0 DEF WebhookEnqueue, Acknowledge, TypeOK, NoHook
<1>7. /\ \A q \in Payments : /\ payment'[q].order = payment[q].order
                             /\ payment'[q].state = payment[q].state
                             /\ payment'[q].refunds = payment[q].refunds
                             /\ q # p => payment'[q].acked = payment[q].acked
      /\ payment'[p].acked
  BY <1>0, <1>2 DEF WebhookEnqueue, Acknowledge, TypeOK, Payment
<1>8. RowFits(o)'
  BY <1>1, <1>2, <1>3, <1>7, NoneAssumption DEF RowFits
<1>9. Unserved(o)'
  BY <1>1, <1>3, <1>7 DEF Unserved, Unrefunded, Refunded
<1>10. EffectsFit(o)'
  BY <1>1, <1>2, <1>3, <1>7, <1>9 DEF EffectsFit, Unserved, Unrefunded
<1>11. HookFits(h)'
  BY <1>6 DEF HookFits, Ledger
<1>12. ASSUME NEW i \in Jobs, job'[i].order = o PROVE JobFits(i)'
  <2>1. i = j
    BY <1>3, <1>5, <1>12
  <2>2. \A k \in Jobs : job'[k].order = o => k = j
    BY <1>3, <1>5
  <2>3. order'[o].tx # None /\ payment'[order'[o].tx].acked
    BY <1>1, <1>2, <1>7, NoneAssumption
  <2>4. Startable(o, order[o])'
    BY <1>1, <1>3 DEF Startable
  <2> QED BY <1>1, <1>3, <1>5, <1>9, <2>1, <2>2, <2>3, <2>4 DEF JobFits, Fresh, Serving
<1> QED BY <1>1, <1>2, <1>4, <1>5, <1>6, <1>7, <1>8, <1>10, <1>11, <1>12, HookFlowBy

\* Every step of the webhook keeps the flow.
LEMMA FlowWebhook ==
    ASSUME IInv, IInv', FlowInv, NEW h \in Hooks, WebhookStep(h)
    PROVE  FlowInv'
  BY FlowWebhookRead, FlowWebhookSelect, FlowWebhookWrite, FlowWebhookBook, FlowWebhookEnqueue DEF WebhookStep

LEMMA FlowInit == Init => FlowInv
<1> SUFFICES ASSUME Init PROVE FlowInv
  OBVIOUS
<1>1. \A c \in Calls : CallFits(reg[c])
  BY DEF Init, CallFits, Fresh, NoCall
<1>2. \A p \in Payments : PaymentFits(p) /\ payment[p].refunds <= 1
  BY DEF Init, PaymentFits, NoPayment
<1>3. \A o \in Orders : RowFits(o) /\ EffectsFit(o)
  BY BoundsAssumption
     DEF Init, RowFits, EffectsFit, Unbooked, Unserved, Unrefunded, Refunded, NoRow,
         NoEffects, NoPayment
<1>4. \A h \in Hooks : HookFits(h)
  BY DEF Init, HookFits, NoHook, Ledger
<1>5. \A j \in Jobs : JobFits(j)
  BY DEF Init, JobFits, NoJob
<1> QED BY <1>1, <1>2, <1>3, <1>4, <1>5 DEF FlowInv, Init

\* No step leaves the flow while nothing disturbs it.
LEMMA FlowNext ==
    ASSUME ConfirmationAlways, IInv, IInv', FlowInv, Undisturbed, Undisturbed', [Next]_vars
    PROVE  FlowInv'
<1>0. TypeOK /\ ~FaultyCall
  BY NoFault DEF IInv
<1>1. CASE UNCHANGED vars
  BY <1>1 DEF vars, FlowInv, CallFits, PaymentFits, Named, RowFits, Noticed, EffectsFit,
              HookFits, JobFits, Fresh, Startable, Unbooked, Unserved, Unrefunded, Refunded
<1>2. CASE \E o \in Orders, s \in EditStatuses : EditRead(o, s)
  BY <1>0, <1>2 DEF EditRead, Undisturbed, TypeOK, Spent
<1>3. CASE EditSelect \/ EditSave
  BY <1>3 DEF EditSelect, EditSave, FlowInv, NoEdit
<1>4. CASE Crash
  BY <1>0, <1>4 DEF Crash, Undisturbed, TypeOK, Spent
<1>5. CASE \/ \E o \in Orders : EnqueueFreeFails(o)
           \/ \E c \in Calls : RegisterError(c)
           \/ \E h \in Hooks : WebhookError(h)
           \/ \E j \in Jobs : JobError(j)
  <2>1. CASE \E h \in Hooks : WebhookError(h)
    <3>1. PICK h \in Hooks : WebhookError(h)
      BY <2>1
    <3>2. spent.errors \in Nat /\ spent'.errors = spent.errors + 1
      BY <1>0, <3>1 DEF WebhookError, TypeOK, Spent
    <3> QED BY <3>2 DEF Undisturbed
  <2> QED BY <1>0, <1>5, <2>1 DEF EnqueueFreeFails, RegisterError, JobError
<1>6. CASE \/ \E o \in Orders, t \in OrderTerms : CreateOrder(o, t)
           \/ \E o \in Orders : EnqueueFree(o)
           \/ \E c \in Calls, o \in Orders : RegisterRead(c, o)
           \/ \E c \in Calls : RegisterStep(c)
  BY <1>6, FlowCreate, FlowEnqueueFree, FlowRegisterRead, FlowRegister
<1>7. CASE \/ \E p \in Payments : PaymentResolves(p)
           \/ \E h \in Hooks, p \in Payments : Deliver(h, p)
           \/ \E h \in Hooks : WebhookStep(h)
           \/ \E j \in Jobs : JobStep(j)
  BY <1>7, FlowResolve, FlowDeliver, FlowWebhook, FlowJob
<1> QED BY <1>1, <1>2, <1>3, <1>4, <1>5, <1>6, <1>7 DEF Next

\* The transitions the steps make.
LEMMA FlowMoves ==
    ASSUME ConfirmationAlways, IInv, FlowInv, Undisturbed, [Next]_vars, NEW o \in Orders,
           order'[o].status # order[o].status
    PROVE  <<order[o].status, order'[o].status>> \in Flow
<1>0. TypeOK /\ order[o] \in Row
  BY DEF IInv, TypeOK
<1>1. CASE UNCHANGED order
  BY <1>1
<1>2. ASSUME NEW i \in Orders, NEW t \in OrderTerms, CreateOrder(i, t)
      PROVE  <<order[o].status, order'[o].status>> \in Flow
  <2>1. /\ order[i].status = "absent"
        /\ order' = [order EXCEPT ![i] = [NoRow EXCEPT !.status =
                        IF t.free THEN "free_processing" ELSE "created"]]
    BY <1>2 DEF CreateOrder
  <2>2. i = o /\ order'[o].status \in {"created", "free_processing"}
    BY <1>0, <2>1 DEF TypeOK, NoRow
  <2> QED BY <2>1, <2>2 DEF Flow
<1>3. ASSUME NEW c \in Calls,
             RegisterProcessing(c) \/ RegisterSave(c) \/ RegisterCancel(c)
      PROVE  <<order[o].status, order'[o].status>> \in Flow
  <2>1. reg[c].pc # "idle" /\ reg[c].order \in Orders /\ CallFits(reg[c])
    BY <1>3, FlowKnown DEF RegisterProcessing, RegisterSave, RegisterCancel, FlowInv
  <2>2. /\ reg[c].snap \in Row /\ reg[c].fresh \in Row /\ reg[c].pay \in Payments \cup {None}
        /\ Fresh(reg[c].seen, reg[c].order)
    BY <1>0, <2>1 DEF TypeOK, Call, CallFits
  <2>3. CASE RegisterProcessing(c)
    <3>1. \/ o # reg[c].order /\ order'[o] = order[o]
          \/ o = reg[c].order /\ order'[o].status = "payment_processing"
      BY <1>0, <2>1, <2>2, <2>3, SaveStatus DEF RegisterProcessing, Statuses
    <3> QED BY <2>1, <2>3, <3>1 DEF RegisterProcessing, CallFits, Flow
  <2>4. CASE RegisterSave(c)
    <3> DEFINE r == [reg[c].fresh EXCEPT !.status = "waiting_payment", !.tx = reg[c].pay]
    <3>1. r \in Row /\ r.status = "waiting_payment"
      BY <2>2 DEF Row, Statuses
    <3>2. Save(reg[c].order, r, reg[c].seen)
      BY <2>4 DEF RegisterSave
    <3>3. order' = [order EXCEPT ![reg[c].order] = r]
      BY <2>2, <3>1, <3>2, SaveExact
    <3> HIDE DEF r
    <3>4. \/ o # reg[c].order /\ order'[o] = order[o]
          \/ o = reg[c].order /\ order'[o].status = "waiting_payment"
      BY <1>0, <2>1, <3>1, <3>3 DEF TypeOK
    <3> QED BY <2>1, <2>4, <3>4 DEF RegisterSave, CallFits, Flow
  <2>5. CASE RegisterCancel(c)
    <3>1. \/ o # reg[c].order /\ order'[o] = order[o]
          \/ o = reg[c].order /\ order'[o].status = "canceled"
      BY <1>0, <2>1, <2>2, <2>5, SaveStatus DEF RegisterCancel, Statuses
    <3> QED BY <2>1, <2>5, <3>1 DEF RegisterCancel, CallFits, Flow
  <2> QED BY <1>3, <2>3, <2>4, <2>5
<1>4. ASSUME NEW h \in Hooks, WebhookCanceled(h) \/ WebhookPayed(h)
      PROVE  <<order[o].status, order'[o].status>> \in Flow
  <2>1. /\ hook[h].order \in Orders /\ hook[h].snap \in Row
        /\ order[hook[h].order].status = "waiting_payment"
        /\ Fresh(hook[h].seen, hook[h].order)
    <3>1. hook[h].pc = "write"
      BY <1>4 DEF WebhookCanceled, WebhookPayed, Refuses
    <3> QED BY <1>0, <3>1, FlowKnown DEF FlowInv, HookFits, TypeOK, Hook
  <2>2. \/ Save(hook[h].order, [hook[h].snap EXCEPT !.status = "canceled"], hook[h].seen)
        \/ Save(hook[h].order, [hook[h].snap EXCEPT !.status = "payed"], hook[h].seen)
    BY <1>4 DEF WebhookCanceled, WebhookPayed
  <2>3. \/ o # hook[h].order /\ order'[o] = order[o]
        \/ o = hook[h].order /\ order'[o].status \in {"canceled", "payed"}
    <3>1. "canceled" \in Statuses /\ "payed" \in Statuses
      BY StatusesWritten
    <3> QED BY <1>0, <2>1, <2>2, <3>1, SaveMoves
  <2> QED BY <2>1, <2>3 DEF Flow
<1>5. ASSUME NEW j \in Jobs, JobReject(j) \/ JobComplete(j) \/ JobFail(j)
      PROVE  <<order[o].status, order'[o].status>> \in Flow
  <2>1. job[j].pc \in {"reject", "complete", "fail"} /\ job[j].snap \in Row
    BY <1>0, <1>5 DEF JobReject, JobComplete, JobFail, TypeOK, Job
  <2>2. /\ job[j].order \in Orders
        /\ job[j].pc = "reject" => order[job[j].order].status = "failed"
        /\ job[j].pc # "reject" =>
              order[job[j].order].status \in {"payed", "free_processing"}
    BY <2>1, FlowKnown DEF FlowInv, JobFits, Serving, Startable
  <2>f. Fresh(job[j].seen, job[j].order)
    BY <2>1 DEF FlowInv, JobFits
  <2>3. CASE JobReject(j)
    <3>1. \/ o # job[j].order /\ order'[o] = order[o]
          \/ o = job[j].order /\ order'[o].status = "failed"
      <4>1. Save(job[j].order, [job[j].snap EXCEPT !.status = "failed"], job[j].seen)
        BY <2>3 DEF JobReject
      <4>2. "failed" \in Statuses
        BY StatusesWritten
      <4> QED BY <1>0, <2>1, <2>2, <2>f, <4>1, <4>2, SaveMoves
    <3> QED BY <2>2, <2>3, <3>1 DEF JobReject
  <2>4. CASE JobComplete(j)
    <3>1. \/ o # job[j].order /\ order'[o] = order[o]
          \/ o = job[j].order /\ order'[o].status = "completed"
      <4>1. Save(job[j].order, [job[j].snap EXCEPT !.status = "completed"], job[j].seen)
        BY <2>4 DEF JobComplete
      <4>2. "completed" \in Statuses
        BY StatusesWritten
      <4> QED BY <1>0, <2>1, <2>2, <2>f, <4>1, <4>2, SaveMoves
    <3> QED BY <2>2, <2>4, <3>1 DEF JobComplete, Flow
  <2>5. CASE JobFail(j)
    <3>1. \/ o # job[j].order /\ order'[o] = order[o]
          \/ o = job[j].order /\ order'[o].status = "failed"
      <4>1. Save(job[j].order, [job[j].snap EXCEPT !.status = "failed"], job[j].seen)
        BY <2>5 DEF JobFail
      <4>2. "failed" \in Statuses
        BY StatusesWritten
      <4> QED BY <1>0, <2>1, <2>2, <2>f, <4>1, <4>2, SaveMoves
    <3> QED BY <2>2, <2>5, <3>1 DEF JobFail, Flow
  <2> QED BY <1>5, <2>3, <2>4, <2>5
<1>6. CASE EditSave
  BY <1>6 DEF EditSave, FlowInv, NoEdit
<1> QED BY <1>1, <1>2, <1>3, <1>4, <1>5, <1>6, OrderFrame

\* A step of the bay's job belongs to an order that was not refunded.
LEMMA RefundIsLast ==
    ASSUME IInv, FlowInv, FlowInv', [Next]_vars, NEW o \in Orders, Refunded(o)
    PROVE  effects'[o].sent = effects[o].sent /\ order'[o].status # "completed"
<1>0. TypeOK /\ effects[o] \in Effects
  BY DEF IInv, TypeOK
<1>1. order'[o].status # "completed"
  <2>1. Refunded(o)'
    BY RefundedStable DEF Refunded
  <2> QED BY <2>1 DEF FlowInv, EffectsFit
<1>2. CASE UNCHANGED effects
  BY <1>1, <1>2
<1>3. ASSUME NEW h \in Hooks, WebhookWithdraw(h) \/ WebhookAccrue(h)
      PROVE  effects'[o].sent = effects[o].sent
  <2>1. CASE effects' = [effects EXCEPT ![hook[h].order].withdrawn = @ + 1]
    BY <1>0, <2>1 DEF TypeOK, Effects
  <2>2. CASE effects' = [effects EXCEPT ![hook[h].order].accrued = @ + 1]
    BY <1>0, <2>2 DEF TypeOK, Effects
  <2> QED BY <1>3, <2>1, <2>2 DEF WebhookWithdraw, WebhookAccrue
<1>4. ASSUME NEW j \in Jobs, JobCommand(j) \/ JobVerify(j)
      PROVE  effects'[o].sent = effects[o].sent
  <2>1. job[j].pc \in {"command", "verify"}
    BY <1>4 DEF JobCommand, JobVerify, AnotherCycle
  <2>2. job[j].order # o
    BY <2>1 DEF FlowInv, JobFits, Unserved, Unrefunded
  <2> QED BY <1>0, <1>4, <2>2 DEF JobCommand, JobVerify, AnotherCycle, TypeOK
<1>5. ASSUME NEW j \in Jobs, JobRecord(j) PROVE effects'[o].sent = effects[o].sent
  BY <1>0, <1>5 DEF JobRecord, TypeOK, Effects
<1> QED BY <1>1, <1>2, <1>3, <1>4, <1>5, EffectsFrame

\* For any number of orders, requests, payments, deliveries and jobs: as long as
\* nothing fails, is repeated or edited, and no two requests register one order
\* at a time, each effect of an order happens at most once.
THEOREM ServedOnce ==
    ASSUME NoPaidEdits, ConfirmationAlways
    PROVE  Spec /\ []Undisturbed => []OncePerOrder
<1>1. Init => IInv /\ FlowInv
  BY InitIInv, FlowInit
<1>2. IInv /\ [Next]_vars => IInv'
  BY Inductive
<1>3. IInv /\ IInv' /\ FlowInv /\ Undisturbed /\ Undisturbed' /\ [Next]_vars => FlowInv'
  BY FlowNext
<1>4. FlowInv => OncePerOrder
  BY DEF FlowInv, OncePerOrder, EffectsFit, PaymentsOf
<1> QED BY <1>1, <1>2, <1>3, <1>4, PTL DEF Spec

\* Under the same conditions a status moves only along the documented flow:
\* completed, failed and canceled are final, whatever was read before an await.
THEOREM StatusesFollowFlow ==
    ASSUME NoPaidEdits, ConfirmationAlways
    PROVE  Spec /\ []Undisturbed => FollowsFlow
<1>1. Init => IInv /\ FlowInv
  BY InitIInv, FlowInit
<1>2. IInv /\ [Next]_vars => IInv'
  BY Inductive
<1>3. IInv /\ IInv' /\ FlowInv /\ Undisturbed /\ Undisturbed' /\ [Next]_vars => FlowInv'
  BY FlowNext
<1>4. IInv /\ FlowInv /\ Undisturbed /\ [Next]_vars
        => [\A o \in Orders : order'[o].status # order[o].status
               => <<order[o].status, order'[o].status>> \in Flow]_vars
  BY FlowMoves
<1> QED BY <1>1, <1>2, <1>3, <1>4, PTL DEF Spec, FollowsFlow

\* And once an order is refunded its bay is not commanded again, nor is the order
\* ever reported as completed.
THEOREM RefundedIsOver ==
    ASSUME NoPaidEdits, ConfirmationAlways
    PROVE  Spec /\ []Undisturbed => RefundEndsService
<1>1. Init => IInv /\ FlowInv
  BY InitIInv, FlowInit
<1>2. IInv /\ [Next]_vars => IInv'
  BY Inductive
<1>3. IInv /\ IInv' /\ FlowInv /\ Undisturbed /\ Undisturbed' /\ [Next]_vars => FlowInv'
  BY FlowNext
<1>4. IInv /\ FlowInv /\ FlowInv' /\ [Next]_vars
        => [\A o \in Orders : Refunded(o) => /\ effects'[o].sent = effects[o].sent
                                             /\ order'[o].status # "completed"]_vars
  BY RefundIsLast
<1> QED BY <1>1, <1>2, <1>3, <1>4, PTL DEF Spec, RefundEndsService

(***************************************************************************)
(* Nothing is repeated without a cause                                     *)
(***************************************************************************)

\* A delivery of a notice: the payment it is about and a number.  The number of
\* the first is 0, and each fault allows one more.
Notices == Payments \X Nat

Faults == spent.duplicates + spent.errors + spent.crashes

Active(h) == hook[h].pc # "idle"

\* S holds the deliveries that found an order or may still find one, d the one a
\* request deals with: no two deal with the same, and a notice that is repeated
\* because nobody answered it finds a number that is free.
Delivered(S, d) ==
    /\ \A t \in S : t[2] <= Faults
    /\ \A h \in Hooks : Active(h) => d[h] \in S /\ d[h][1] = hook[h].pay
    /\ \A g, h \in Hooks : g # h /\ Active(g) /\ Active(h) => d[g] # d[h]
    /\ \A p \in Payments :
          ~payment[p].acked /\ (\A h \in Hooks : Active(h) => hook[h].pay # p)
              => \E n \in 0..Faults : <<p, n>> \notin S

\* Requests that have not withdrawn points yet, or not accrued cashback.
Drawing == {"received", "write", "withdraw"}
Accruing == {"received", "write", "withdraw", "accrue"}
Stages == {Drawing, Accruing}

\* W holds the deliveries that did one of the two for o.
Booked(W, d, early, o) ==
    /\ IsFiniteSet(W)
    /\ \A t \in W : Backed(o, t[1])
    /\ \A h \in Hooks : hook[h].pc \in early => d[h] \notin W

\* A job of an order that is paid for, and the delivery that added it: e.
Working(j) == job[j].pc # "unused" /\ ~terms[job[j].order].free

Carried(S, d, e) ==
    /\ \A j \in Jobs : Working(j) =>
          /\ e[j] \in S /\ Backed(job[j].order, e[j][1])
          /\ \A h \in Hooks : Active(h) => d[h] # e[j]
    /\ \A i, j \in Jobs : i # j /\ Working(i) /\ Working(j) => e[i] # e[j]

\* Runs of a job that can have asked for a refund.
Begun(j) ==
    job[j].attempts + job[j].stalls + (IF job[j].pc \in {"record", "fail"} THEN 1 ELSE 0)

\* R holds the runs in which the refund of p was asked for.
Asked(R, d, e, p) ==
    /\ IsFiniteSet(R)
    /\ \A u \in R : /\ Backed(payment[p].order, u[1][1]) /\ u[2] < RunsOfAJob
                    /\ \A h \in Hooks : Active(h) => d[h] # u[1]
                    /\ \A j \in Jobs : Working(j) /\ e[j] = u[1] => u[2] < Begun(j)

Traced(S, d, e) ==
    /\ Delivered(S, d)
    /\ \A o \in Orders :
          /\ \E W \in SUBSET S : Booked(W, d, Drawing, o) /\ Cardinality(W) = effects[o].withdrawn
          /\ \E W \in SUBSET S : Booked(W, d, Accruing, o) /\ Cardinality(W) = effects[o].accrued
    /\ Carried(S, d, e)
    /\ \A p \in Payments :
          \E R \in SUBSET (S \X Nat) :
             Asked(R, d, e, p) /\ Cardinality(R) = payment[p].refunds

\* The queue gives up in time; only free orders are put on it without a notice; the
\* gateway has made finitely many payments.
JobsLimited ==
    \A j \in Jobs : job[j].pc # "unused" =>
        /\ job[j].attempts < JobAttempts
        /\ job[j].stalls <= MaxStalls /\ job[j].stalls <= spent.crashes

CreatingIsFree == \A o \in creating : terms[o].free

MadePayments == {p \in Payments : payment[p].state # "unused"}

RepeatInv ==
    /\ JobsLimited
    /\ CreatingIsFree
    /\ IsFiniteSet(MadePayments)
    /\ \E S \in SUBSET Notices, d \in [Hooks -> (Payments \cup {None}) \X Nat],
          e \in [Jobs -> (Payments \cup {None}) \X Nat] : Traced(S, d, e)

\* What became of deliveries in a step: those of before are still counted unless
\* they found no order, a request goes on with its own or deals with a new one.
Follows(S, d, S2, d2) ==
    /\ \A t \in S : t \in S2 \/ \E h \in Hooks : hook[h].pc = "received" /\ d[h] = t
    /\ \A h \in Hooks : hook'[h].pc # "idle" =>
          \/ d2[h] \notin S
          \/ /\ hook[h].pc # "idle" /\ d2[h] = d[h]
             /\ hook'[h].pc \in Drawing => hook[h].pc \in Drawing
             /\ hook'[h].pc \in Accruing => hook[h].pc \in Accruing

\* A failing call, counted.
CallFailed == spent'.errors = spent.errors + 1
                /\ spent'.crashes = spent.crashes /\ spent'.duplicates = spent.duplicates

LEMMA FaultyCounted == ASSUME TypeOK, FaultyCall PROVE CallFailed
<1>1. spent \in Spent /\ spent.errors \in Nat
  BY DEF TypeOK, Spent
<1> QED BY <1>1 DEF FaultyCall, CallFailed, Spent

LEMMA WebhookErrorCounted == ASSUME TypeOK, NEW h \in Hooks, WebhookError(h) PROVE CallFailed
<1>1. PICK l : spent' = [spent EXCEPT !.errors = @ + 1, !.late = l]
  BY DEF WebhookError
<1>2. spent \in Spent
  BY DEF TypeOK
<1> QED BY <1>1, <1>2 DEF CallFailed, Spent

LEMMA SpentFrame ==
    [Next]_vars =>
        \/ UNCHANGED spent
        \/ FaultyCall
        \/ \E h \in Hooks : WebhookError(h)
        \/ \E c \in Calls, o \in Orders : RegisterRead(c, o)
        \/ \E h \in Hooks, p \in Payments : Deliver(h, p)
        \/ \E o \in Orders, s \in EditStatuses : EditRead(o, s)
        \/ Crash
  BY DEF Next, vars, CreateOrder, EnqueueFree, EnqueueFreeFails,
         RegisterStep, RegisterSelect, WebhookSelect, JobSelect, EditSelect, RegisterProcessing, RegisterCharge, RegisterReread,
         RegisterSave, RegisterCancel, RegisterError, PaymentResolves,
         WebhookStep, WebhookRead, WebhookCanceled, WebhookPayed, WebhookWithdraw,
         WebhookAccrue, WebhookEnqueue, JobStep, JobRead, JobReject,
         JobCommand, JobVerify, JobRefundCheck, JobRefund, JobRecord, JobComplete,
         JobFail, JobError, EditSave, Found, Unanswered, Refuses, FirstStep,
         AnotherCycle, Refundable

\* Faults are counted and never forgotten.
LEMMA FaultsGrow ==
    ASSUME TypeOK, [Next]_vars
    PROVE  /\ Faults \in Nat /\ Faults' \in Nat /\ Faults <= Faults'
           /\ spent.crashes \in Nat /\ spent'.crashes \in Nat
           /\ spent.crashes <= spent'.crashes
           /\ CallFailed \/ Crash => Faults < Faults'
<1>1. /\ spent \in Spent /\ spent.crashes \in Nat /\ spent.errors \in Nat
      /\ spent.duplicates \in Nat
  BY DEF TypeOK, Spent
<1>2. FaultyCall \/ (\E h \in Hooks : WebhookError(h)) => CallFailed
  BY FaultyCounted, WebhookErrorCounted
<1>3. ASSUME Crash PROVE /\ spent'.crashes = spent.crashes + 1
                         /\ spent'.errors = spent.errors
                         /\ spent'.duplicates = spent.duplicates
  BY <1>1, <1>3 DEF Crash, Spent
<1>4. ASSUME NEW h \in Hooks, NEW p \in Payments, Deliver(h, p)
      PROVE  /\ spent'.crashes = spent.crashes /\ spent'.errors = spent.errors
             /\ spent'.duplicates = spent.duplicates
                \/ spent'.duplicates = spent.duplicates + 1
  <2>1. spent' = spent \/ spent' = [spent EXCEPT !.duplicates = @ + 1]
    BY <1>4 DEF Deliver
  <2> QED BY <1>1, <2>1 DEF Spent
<1>5. ASSUME NEW o \in Orders, NEW s \in EditStatuses, EditRead(o, s)
      PROVE  /\ spent'.crashes = spent.crashes /\ spent'.errors = spent.errors
             /\ spent'.duplicates = spent.duplicates
  BY <1>1, <1>5 DEF EditRead, Spent
<1>r. ASSUME NEW c \in Calls, NEW o \in Orders, RegisterRead(c, o)
      PROVE  /\ spent'.crashes = spent.crashes /\ spent'.errors = spent.errors
             /\ spent'.duplicates = spent.duplicates
  BY <1>1, <1>r DEF RegisterRead, Spent
<1>6. \/ CallFailed \/ Crash \/ UNCHANGED spent
      \/ \E c \in Calls, o \in Orders : RegisterRead(c, o)
      \/ \E h \in Hooks, p \in Payments : Deliver(h, p)
      \/ \E o \in Orders, s \in EditStatuses : EditRead(o, s)
  BY <1>2, SpentFrame
<1>7. /\ Faults = spent.duplicates + spent.errors + spent.crashes
      /\ Faults' = spent'.duplicates + spent'.errors + spent'.crashes
  BY DEF Faults
<1> QED BY <1>1, <1>3, <1>4, <1>5, <1>6, <1>7, <1>r DEF CallFailed

LEMMA RunsGrow ==
    ASSUME TypeOK, [Next]_vars
    PROVE  RunsOfAJob \in Nat /\ RunsOfAJob' \in Nat /\ RunsOfAJob <= RunsOfAJob'
  BY FaultsGrow, BoundsAssumption DEF RunsOfAJob

\* A notice that was answered stays answered.
LEMMA AckedStays ==
    ASSUME TypeOK, [Next]_vars, NEW p \in Payments, payment[p].acked
    PROVE  payment'[p].acked
<1>p. payment[p] \in Payment
  BY DEF TypeOK
<1>1. ASSUME NEW c \in Calls, RegisterCharge(c) PROVE payment'[p].acked
  <2>1. \/ payment'[p] = payment[p]
        \/ payment'[p] = [payment[p] EXCEPT !.state = "pending", !.order = reg[c].order]
    BY <1>1 DEF TypeOK, RegisterCharge
  <2> QED BY <1>p, <2>1 DEF Payment
<1>2. ASSUME NEW q \in Payments, PaymentResolves(q) PROVE payment'[p].acked
  BY <1>p, <1>2 DEF TypeOK, Payment, PaymentResolves
<1>3. ASSUME NEW h \in Hooks, WebhookCanceled(h) \/ WebhookEnqueue(h)
      PROVE  payment'[p].acked
  <2>1. payment' = [payment EXCEPT ![hook[h].pay].acked = TRUE]
    BY <1>3 DEF WebhookCanceled, WebhookEnqueue, Acknowledge, Refuses
  <2> QED BY <1>p, <2>1 DEF TypeOK, Payment
<1>4. ASSUME NEW j \in Jobs, JobRefund(j) PROVE payment'[p].acked
  <2>1. payment' = payment \/ payment' = [payment EXCEPT ![job[j].pay].refunds = @ + 1]
    BY <1>4 DEF JobRefund
  <2> QED BY <1>p, <2>1 DEF TypeOK, Payment
<1> QED BY <1>1, <1>2, <1>3, <1>4, PaymentFrame

\* The deliveries are as before when requests only go on or end, and end with an
\* answer or a fault.
LEMMA DeliveredKept ==
    ASSUME NEW S \in SUBSET Notices, NEW d \in [Hooks -> (Payments \cup {None}) \X Nat],
           Delivered(S, d), TypeOK, [Next]_vars,
           \A h \in Hooks : Active(h)' => Active(h) /\ hook'[h].pay = hook[h].pay,
           \/ Faults < Faults'
           \/ \A h \in Hooks : Active(h) => Active(h)' \/ payment'[hook[h].pay].acked
    PROVE  Delivered(S, d)'
<1>1. /\ Faults \in Nat /\ Faults' \in Nat /\ Faults <= Faults'
  BY FaultsGrow
<1>2. \A t \in S : t[2] \in Nat /\ t[2] <= Faults
  BY DEF Delivered, Notices
<1>3. \A t \in S : t[2] <= Faults'
  BY <1>1, <1>2
<1>4. ASSUME NEW p \in Payments, ~payment'[p].acked,
             \A h \in Hooks : Active(h)' => hook'[h].pay # p
      PROVE  \E n \in 0..Faults' : <<p, n>> \notin S
  <2>1. CASE Faults < Faults'
    <3>1. <<p, Faults'>> \notin S
      <4> SUFFICES ASSUME <<p, Faults'>> \in S PROVE FALSE
        OBVIOUS
      <4>1. <<p, Faults'>>[2] <= Faults
        BY <1>2
      <4> QED BY <1>1, <2>1, <4>1
    <3> QED BY <1>1, <3>1
  <2>2. CASE \A h \in Hooks : Active(h) => Active(h)' \/ payment'[hook[h].pay].acked
    <3>1. \A h \in Hooks : Active(h) => hook[h].pay # p
      BY <1>4, <2>2
    <3>2. ~payment[p].acked
      BY <1>4, AckedStays
    <3>3. PICK n \in 0..Faults : <<p, n>> \notin S
      BY <3>1, <3>2 DEF Delivered
    <3> QED BY <1>1, <3>3
  <2> QED BY <2>1, <2>2
<1>5. \A h \in Hooks : Active(h)' => d[h] \in S /\ d[h][1] = hook'[h].pay
  BY DEF Delivered
<1>6. \A g, h \in Hooks : g # h /\ Active(g)' /\ Active(h)' => d[g] # d[h]
  BY DEF Delivered
<1> QED BY <1>3, <1>4, <1>5, <1>6 DEF Delivered

\* A step of a request that goes on or ends after its look-up.
LEMMA FollowsSame ==
    ASSUME NEW S, NEW d,
           \A h \in Hooks : \/ hook'[h].pc = "idle"
                            \/ /\ hook[h].pc # "idle"
                               /\ hook'[h].pc \in Drawing => hook[h].pc \in Drawing
                               /\ hook'[h].pc \in Accruing => hook[h].pc \in Accruing
    PROVE  Follows(S, d, S, d)
  BY DEF Follows

LEMMA DeliverMove ==
    ASSUME IInv, [Next]_vars, NEW h \in Hooks, NEW p \in Payments, Deliver(h, p),
           NEW S \in SUBSET Notices, NEW d \in [Hooks -> (Payments \cup {None}) \X Nat],
           Delivered(S, d)
    PROVE  \E S2 \in SUBSET Notices, d2 \in [Hooks -> (Payments \cup {None}) \X Nat] :
               Delivered(S2, d2)' /\ Follows(S, d, S2, d2)
<1>t. TypeOK
  BY DEF IInv
<1>1. /\ Faults \in Nat /\ Faults' \in Nat /\ Faults <= Faults'
  BY <1>t, FaultsGrow
<1>2. /\ hook[h].pc = "idle" /\ payment' = payment
      /\ hook' = [hook EXCEPT ![h] = [NoHook EXCEPT !.pc = "received", !.pay = p,
                                                    !.event = payment[p].state]]
  BY DEF Deliver
<1>3. /\ hook'[h].pc = "received" /\ hook'[h].pay = p
      /\ \A g \in Hooks \ {h} : hook'[g] = hook[g]
  BY <1>t, <1>2 DEF TypeOK, NoHook
<1>4. \A t \in S : t[2] \in Nat /\ t[2] <= Faults
  BY DEF Delivered, Notices
<1>5. PICK n \in Nat : n <= Faults' /\ <<p, n>> \notin S
  <2>1. CASE payment[p].acked \/ \E g \in Hooks : hook[g].pay = p
    <3>1. spent' = [spent EXCEPT !.duplicates = @ + 1]
      BY <2>1 DEF Deliver
    <3>2. Faults' = Faults + 1
      BY <1>t, <3>1 DEF TypeOK, Spent, Faults
    <3>3. <<p, Faults'>> \notin S
      <4> SUFFICES ASSUME <<p, Faults'>> \in S PROVE FALSE
        OBVIOUS
      <4>1. <<p, Faults'>>[2] <= Faults
        BY <1>4
      <4> QED BY <1>1, <3>2, <4>1
    <3> QED BY <1>1, <3>3
  <2>2. CASE ~(payment[p].acked \/ \E g \in Hooks : hook[g].pay = p)
    <3>1. PICK n \in 0..Faults : <<p, n>> \notin S
      BY <2>2 DEF Delivered
    <3> QED BY <1>1, <3>1
  <2> QED BY <2>1, <2>2
<1>6. PICK t : t = <<p, n>>
  OBVIOUS
<1>7. t \in Notices /\ t[1] = p /\ t[2] = n /\ t \notin S
  BY <1>5, <1>6 DEF Notices
<1>8. PICK S2, d2 : S2 = S \cup {t} /\ d2 = [d EXCEPT ![h] = t]
  OBVIOUS
<1>9. S2 \in SUBSET Notices /\ d2 \in [Hooks -> (Payments \cup {None}) \X Nat]
  BY <1>5, <1>6, <1>7, <1>8
<1>10. d2[h] = t /\ \A g \in Hooks \ {h} : d2[g] = d[g]
  BY <1>8
<1>11. Follows(S, d, S2, d2)
  <2>1. \A g \in Hooks \ {h} : hook'[g].pc = hook[g].pc
    BY <1>3
  <2> QED BY <1>7, <1>8, <1>10, <2>1 DEF Follows
<1>12. Delivered(S2, d2)'
  <2>1. \A u \in S2 : u[2] <= Faults'
    BY <1>1, <1>4, <1>5, <1>7, <1>8
  <2>2. \A g \in Hooks : Active(g)' => d2[g] \in S2 /\ d2[g][1] = hook'[g].pay
    BY <1>3, <1>7, <1>8, <1>10 DEF Delivered, Active
  <2>3. \A f, g \in Hooks : f # g /\ Active(f)' /\ Active(g)' => d2[f] # d2[g]
    BY <1>3, <1>7, <1>10 DEF Delivered, Active
  <2>4. ASSUME NEW q \in Payments, ~payment'[q].acked,
               \A g \in Hooks : Active(g)' => hook'[g].pay # q
        PROVE  \E k \in 0..Faults' : <<q, k>> \notin S2
    <3>1. q # p
      BY <1>3, <2>4 DEF Active
    <3>2. \A g \in Hooks : Active(g) => hook[g].pay # q
      BY <1>2, <1>3, <2>4 DEF Active
    <3>3. PICK k \in 0..Faults : <<q, k>> \notin S
      BY <1>2, <2>4, <3>2 DEF Delivered
    <3>4. <<q, k>> # t
      BY <1>6, <3>1
    <3> QED BY <1>1, <1>8, <3>3, <3>4
  <2> QED BY <2>1, <2>2, <2>3, <2>4 DEF Delivered
<1> QED BY <1>9, <1>11, <1>12

\* A notice that finds no order gives its delivery back.
LEMMA NotFoundMove ==
    ASSUME IInv, [Next]_vars, NEW h \in Hooks, hook[h].pc = "received",
           Unanswered(h), UNCHANGED spent,
           NEW S \in SUBSET Notices, NEW d \in [Hooks -> (Payments \cup {None}) \X Nat],
           Delivered(S, d)
    PROVE  \E S2 \in SUBSET Notices, d2 \in [Hooks -> (Payments \cup {None}) \X Nat] :
               Delivered(S2, d2)' /\ Follows(S, d, S2, d2)
<1>t. TypeOK
  BY DEF IInv
<1>1. /\ Faults \in Nat /\ Faults' = Faults
  BY <1>t, FaultsGrow DEF Faults
<1>2. /\ payment' = payment /\ hook'[h].pc = "idle"
      /\ \A g \in Hooks \ {h} : hook'[g] = hook[g]
  BY <1>t DEF TypeOK, Unanswered, NoHook
<1>3. PICK p \in Payments : p = hook[h].pay
  BY <1>t DEF TypeOK, Hook, IInv, HandlersKnowTheirOrder
<1>4. d[h] \in S /\ d[h][1] = p
  BY <1>3 DEF Delivered, Active
<1>5. PICK n \in Nat : d[h] = <<p, n>> /\ n <= Faults
  BY <1>4 DEF Delivered, Notices
<1>6. PICK S2 : S2 = S \ {d[h]}
  OBVIOUS
<1>7. Follows(S, d, S2, d)
  BY <1>2, <1>6 DEF Follows
<1>8. Delivered(S2, d)'
  <2>1. \A u \in S2 : u[2] <= Faults'
    BY <1>1, <1>6 DEF Delivered
  <2>2. \A g \in Hooks : Active(g)' => d[g] \in S2 /\ d[g][1] = hook'[g].pay
    BY <1>2, <1>6 DEF Delivered, Active
  <2>3. \A f, g \in Hooks : f # g /\ Active(f)' /\ Active(g)' => d[f] # d[g]
    BY <1>2 DEF Delivered, Active
  <2>4. ASSUME NEW q \in Payments, ~payment'[q].acked,
               \A g \in Hooks : Active(g)' => hook'[g].pay # q
        PROVE  \E k \in 0..Faults' : <<q, k>> \notin S2
    <3>1. CASE q = p
      BY <1>1, <1>5, <1>6, <3>1
    <3>2. CASE q # p
      <4>1. \A g \in Hooks : Active(g) => hook[g].pay # q
        BY <1>2, <1>3, <2>4, <3>2 DEF Active
      <4>2. PICK k \in 0..Faults : <<q, k>> \notin S
        BY <1>2, <2>4, <4>1 DEF Delivered
      <4> QED BY <1>1, <1>6, <4>2
    <3> QED BY <3>1, <3>2
  <2> QED BY <2>1, <2>2, <2>3, <2>4 DEF Delivered
<1>9. S2 \in SUBSET Notices
  BY <1>6
<1> QED BY <1>7, <1>8, <1>9

LEMMA NoticesMove ==
    ASSUME IInv, [Next]_vars,
           NEW S \in SUBSET Notices, NEW d \in [Hooks -> (Payments \cup {None}) \X Nat],
           Delivered(S, d)
    PROVE  \E S2 \in SUBSET Notices, d2 \in [Hooks -> (Payments \cup {None}) \X Nat] :
               Delivered(S2, d2)' /\ Follows(S, d, S2, d2)
<1>t. TypeOK
  BY DEF IInv
<1>1. CASE UNCHANGED hook
  <2>1. Follows(S, d, S, d)
    BY <1>1, FollowsSame
  <2>2. Delivered(S, d)'
    BY <1>t, <1>1, DeliveredKept DEF Active
  <2> QED BY <2>1, <2>2
<1>2. ASSUME NEW h \in Hooks, NEW p \in Payments, Deliver(h, p)
      PROVE  \E S2 \in SUBSET Notices, d2 \in [Hooks -> (Payments \cup {None}) \X Nat] :
               Delivered(S2, d2)' /\ Follows(S, d, S2, d2)
  BY <1>2, DeliverMove
<1>3. ASSUME NEW h \in Hooks, WebhookStep(h) \/ WebhookError(h)
      PROVE  \E S2 \in SUBSET Notices, d2 \in [Hooks -> (Payments \cup {None}) \X Nat] :
               Delivered(S2, d2)' /\ Follows(S, d, S2, d2)
  <2>a. ASSUME \A g \in Hooks \ {h} : hook'[g] = hook[g], hook[h].pc # "idle",
               \/ hook'[h].pc = "idle" /\ (Faults < Faults' \/ payment'[hook[h].pay].acked)
               \/ /\ hook'[h].pc # "idle" /\ hook'[h].pay = hook[h].pay
                  /\ hook'[h].pc \in Drawing => hook[h].pc \in Drawing
                  /\ hook'[h].pc \in Accruing => hook[h].pc \in Accruing
        PROVE  Delivered(S, d)' /\ Follows(S, d, S, d)
    <3>1. Follows(S, d, S, d)
      BY <2>a, FollowsSame
    <3>2. Delivered(S, d)'
      BY <1>t, <2>a, DeliveredKept DEF Active
    <3> QED BY <3>1, <3>2
  <2>b. ASSUME Acknowledge(h), hook[h].pc # "idle" PROVE Delivered(S, d)' /\ Follows(S, d, S, d)
    <3>1. \A g \in Hooks \ {h} : hook'[g] = hook[g]
      BY <1>t, <2>b DEF TypeOK, Acknowledge
    <3>2. hook'[h].pc = "idle"
      BY <1>t, <2>b DEF TypeOK, Acknowledge, NoHook
    <3>3. hook[h].pay \in Payments
      BY <1>t, <2>b DEF TypeOK, Hook, IInv, HandlersKnowTheirOrder
    <3>4. payment'[hook[h].pay].acked
      BY <1>t, <2>b, <3>3 DEF TypeOK, Acknowledge, Payment
    <3> QED BY <2>a, <2>b, <3>1, <3>2, <3>4
  <2>h. hook[h] \in Hook
    BY <1>t DEF TypeOK
  <2>1. CASE WebhookRead(h)
    <3>1. CASE Unanswered(h)
      BY <2>1, <3>1, NotFoundMove DEF WebhookRead
    <3>2. ASSUME NEW o \in Orders, hook' = [hook EXCEPT ![h] = [@ EXCEPT !.pc = "write",
                                                 !.order = o, !.snap = order[o]]]
          PROVE  Delivered(S, d)' /\ Follows(S, d, S, d)
      <4>1. \A g \in Hooks \ {h} : hook'[g] = hook[g]
        BY <1>t, <3>2 DEF TypeOK
      <4>2. hook'[h].pc = "write" /\ hook'[h].pay = hook[h].pay
        BY <1>t, <2>h, <3>2 DEF TypeOK, Hook
      <4>3. hook[h].pc = "received"
        BY <2>1 DEF WebhookRead
      <4> QED BY <2>a, <4>1, <4>2, <4>3 DEF Drawing, Accruing
    <3> QED BY <2>1, <3>1, <3>2 DEF WebhookRead
  <2>2. CASE WebhookCanceled(h) \/ WebhookEnqueue(h)
    <3>1. Acknowledge(h) /\ hook[h].pc # "idle"
      BY <2>2 DEF WebhookCanceled, WebhookEnqueue
    <3> QED BY <2>b, <3>1
  <2>0. CASE WebhookSelect(h)
    <3>1. /\ \A g \in Hooks \ {h} : hook'[g] = hook[g]
          /\ hook'[h].pc = "write" /\ hook'[h].pay = hook[h].pay /\ hook[h].pc = "write"
      BY <1>t, <2>h, <2>0 DEF WebhookSelect, TypeOK, Hook
    <3> QED BY <2>a, <3>1 DEF Drawing, Accruing
  <2>3. CASE WebhookPayed(h) \/ WebhookWithdraw(h) \/ WebhookAccrue(h)
    <3>1. \E s \in {"withdraw", "accrue", "enqueue"} :
             /\ \/ hook' = [hook EXCEPT ![h].pc = s]
                \/ hook' = [hook EXCEPT ![h].pc = s, ![h].snap = NoRow, ![h].seen = NoRow]
             /\ hook[h].pc \in {"write", "withdraw", "accrue"}
             /\ s = "withdraw" => hook[h].pc = "write"
             /\ s = "accrue" => hook[h].pc \in {"write", "withdraw"}
      BY <2>3 DEF WebhookPayed, WebhookWithdraw, WebhookAccrue, AfterWithdraw
    <3>2. PICK s \in {"withdraw", "accrue", "enqueue"} :
             /\ \/ hook' = [hook EXCEPT ![h].pc = s]
                \/ hook' = [hook EXCEPT ![h].pc = s, ![h].snap = NoRow, ![h].seen = NoRow]
             /\ hook[h].pc \in {"write", "withdraw", "accrue"}
             /\ s = "withdraw" => hook[h].pc = "write"
             /\ s = "accrue" => hook[h].pc \in {"write", "withdraw"}
      BY <3>1
    <3>3. \A g \in Hooks \ {h} : hook'[g] = hook[g]
      BY <1>t, <3>2 DEF TypeOK
    <3>4. hook'[h].pc = s /\ hook'[h].pay = hook[h].pay
      BY <1>t, <2>h, <3>2 DEF TypeOK, Hook
    <3> QED BY <2>a, <3>2, <3>3, <3>4 DEF Drawing, Accruing
  <2>4. CASE WebhookError(h)
    <3>1. CallFailed /\ Unanswered(h) /\ hook[h].pc # "idle"
      BY <1>t, <2>4, WebhookErrorCounted DEF WebhookError
    <3>2. \A g \in Hooks \ {h} : hook'[g] = hook[g]
      BY <1>t, <3>1 DEF TypeOK, Unanswered
    <3>3. hook'[h].pc = "idle" /\ Faults < Faults'
      BY <1>t, <3>1, FaultsGrow DEF TypeOK, Unanswered, NoHook
    <3> QED BY <2>a, <3>1, <3>2, <3>3
  <2> QED BY <1>3, <2>0, <2>1, <2>2, <2>3, <2>4 DEF WebhookStep
<1>4. CASE Crash
  <2>1. \A h \in Hooks : hook'[h].pc = "idle"
    BY <1>4 DEF Crash, NoHook
  <2>2. Faults < Faults'
    BY <1>t, <1>4, FaultsGrow
  <2>3. Delivered(S, d)'
    BY <1>t, <2>1, <2>2, DeliveredKept DEF Active
  <2> QED BY <2>1, <2>3, FollowsSame
<1> QED BY <1>1, <1>2, <1>3, <1>4, HookFrame

\* What a delivery was used for stays counted.
LEMMA StillCounted ==
    ASSUME NEW S, NEW d, NEW S2, NEW d2, Follows(S, d, S2, d2), NEW t \in S,
           \A h \in Hooks : hook[h].pc = "received" => d[h] # t
    PROVE  t \in S2
  BY DEF Follows

LEMMA BackedStays ==
    ASSUME IInv, [Next]_vars, NEW o, NEW p \in Payments, Backed(o, p)
    PROVE  Backed(o, p)'
<1>1. KeepsItsHistory(p)
  BY PaymentsStable DEF IInv, WellFormed
<1> QED BY <1>1 DEF KeepsItsHistory, Backed

LEMMA BookedMove ==
    ASSUME IInv, [Next]_vars, NEW S \in SUBSET Notices, NEW d, NEW S2, NEW d2,
           Follows(S, d, S2, d2), NEW o, NEW early \in Stages,
           NEW W \in SUBSET S, Booked(W, d, early, o)
    PROVE  W \in SUBSET S2 /\ Booked(W, d2, early, o)'
<1>1. "received" \in early
  BY DEF Stages, Drawing, Accruing
<1>2. W \in SUBSET S2
  BY <1>1, StillCounted DEF Booked
<1>3. \A t \in W : Backed(o, t[1])'
  BY BackedStays DEF Booked, Notices
<1>4. ASSUME NEW h \in Hooks, hook'[h].pc \in early PROVE d2[h] \notin W
  <2>1. hook'[h].pc # "idle"
    BY <1>4 DEF Stages, Drawing, Accruing
  <2>2. CASE d2[h] \notin S
    BY <2>2
  <2>3. CASE d2[h] = d[h] /\ (hook'[h].pc \in Drawing => hook[h].pc \in Drawing)
             /\ (hook'[h].pc \in Accruing => hook[h].pc \in Accruing)
    BY <1>4, <2>3 DEF Booked, Stages
  <2> QED BY <2>1, <2>2, <2>3 DEF Follows
<1> QED BY <1>2, <1>3, <1>4 DEF Booked

Before(h, early) == hook[h].pc \in early

\* Once more, by a request that is done with it.
LEMMA BookedMore ==
    ASSUME IInv, [Next]_vars, NEW S \in SUBSET Notices,
           NEW d, NEW S2, NEW d2, Delivered(S, d), Follows(S, d, S2, d2), NEW o,
           NEW early \in Stages, NEW W \in SUBSET S, Booked(W, d, early, o),
           NEW h \in Hooks, hook[h].pc # "received", Backed(o, hook[h].pay),
           Before(h, early), ~Before(h, early)'
    PROVE  \E W2 \in SUBSET S2 :
               Booked(W2, d2, early, o)' /\ Cardinality(W2) = Cardinality(W) + 1
<1>1. W \in SUBSET S2 /\ Booked(W, d2, early, o)'
  BY BookedMove
<1>2. Active(h) /\ d[h] \in S /\ d[h] \notin W /\ d[h][1] = hook[h].pay
  BY DEF Stages, Before, Active, Drawing, Accruing, Delivered, Booked
<1>3. d[h] \in S2
  BY <1>2, StillCounted DEF Delivered, Active
<1>4. PICK W2 : W2 = W \cup {d[h]}
  OBVIOUS
<1>5. IsFiniteSet(W2) /\ Cardinality(W2) = Cardinality(W) + 1
  BY <1>1, <1>2, <1>4, FS_AddElement DEF Booked
<1>6. Backed(o, d[h][1])'
  BY <1>2, BackedStays DEF Notices
<1>7. ASSUME NEW g \in Hooks, hook'[g].pc \in early PROVE d2[g] # d[h]
  <2>1. g # h /\ hook'[g].pc # "idle"
    BY <1>7 DEF Stages, Before, Drawing, Accruing
  <2>2. d2[g] \notin S \/ (Active(g) /\ d2[g] = d[g])
    BY <2>1 DEF Follows, Active
  <2> QED BY <1>2, <2>1, <2>2 DEF Delivered
<1>8. \A t \in W2 : Backed(o, t[1])'
  BY <1>1, <1>4, <1>6 DEF Booked
<1>9. \A g \in Hooks : hook'[g].pc \in early => d2[g] \notin W2
  BY <1>1, <1>4, <1>7 DEF Booked
<1>10. Booked(W2, d2, early, o)'
  BY <1>5, <1>8, <1>9 DEF Booked
<1> QED BY <1>1, <1>3, <1>4, <1>5, <1>10

\* Points and cashback, whatever the step is.
LEMMA BookingsMove ==
    ASSUME IInv, [Next]_vars, NEW S \in SUBSET Notices,
           NEW d, NEW S2, NEW d2, Delivered(S, d), Follows(S, d, S2, d2), NEW o \in Orders,
           \E W \in SUBSET S : Booked(W, d, Drawing, o) /\ Cardinality(W) = effects[o].withdrawn,
           \E W \in SUBSET S : Booked(W, d, Accruing, o) /\ Cardinality(W) = effects[o].accrued
    PROVE  /\ \E W \in SUBSET S2 : Booked(W, d2, Drawing, o)' /\ Cardinality(W) = effects'[o].withdrawn
           /\ \E W \in SUBSET S2 : Booked(W, d2, Accruing, o)' /\ Cardinality(W) = effects'[o].accrued
<1>t. TypeOK /\ HandlersKnowTheirOrder /\ HooksMatchPayments
  BY DEF IInv
<1>1. PICK w, a : /\ w = effects[o].withdrawn /\ a = effects[o].accrued
                  /\ w \in Nat /\ a \in Nat
  BY <1>t DEF TypeOK, Effects
<1>2. PICK W \in SUBSET S : Booked(W, d, Drawing, o) /\ Cardinality(W) = w
  BY <1>1
<1>3. PICK A \in SUBSET S : Booked(A, d, Accruing, o) /\ Cardinality(A) = a
  BY <1>1
<1>4. W \in SUBSET S2 /\ Booked(W, d2, Drawing, o)'
  BY <1>2, BookedMove DEF Stages
<1>5. A \in SUBSET S2 /\ Booked(A, d2, Accruing, o)'
  BY <1>3, BookedMove DEF Stages
<1>6. CASE effects'[o].withdrawn = w /\ effects'[o].accrued = a
  BY <1>2, <1>3, <1>4, <1>5, <1>6
<1>7. ASSUME NEW h \in Hooks, WebhookWithdraw(h) \/ WebhookAccrue(h), hook[h].order = o
      PROVE  /\ \E V \in SUBSET S2 : Booked(V, d2, Drawing, o)' /\ Cardinality(V) = effects'[o].withdrawn
             /\ \E V \in SUBSET S2 : Booked(V, d2, Accruing, o)' /\ Cardinality(V) = effects'[o].accrued
  <2>1. /\ hook[h].pay \in Payments
        /\ Backed(o, hook[h].pay)
    BY <1>t, <1>7 DEF TypeOK, Hook, HandlersKnowTheirOrder, HooksMatchPayments, Backed,
                      WebhookWithdraw, WebhookAccrue
  <2>2. hook[h] \in Hook /\ effects[o] \in Effects
    BY <1>t DEF TypeOK
  <2>3. CASE WebhookWithdraw(h)
    <3>1. hook[h].pc = "withdraw" /\ hook'[h].pc \in {"accrue", "enqueue"}
      BY <1>t, <2>2, <2>3 DEF TypeOK, Hook, WebhookWithdraw, AfterWithdraw
    <3>2. effects'[o].withdrawn = w + 1 /\ effects'[o].accrued = a
      BY <1>t, <1>1, <1>7, <2>2, <2>3 DEF TypeOK, Effects, WebhookWithdraw
    <3>3. hook[h].pc # "received" /\ Before(h, Drawing) /\ ~Before(h, Drawing)'
      BY <3>1 DEF Drawing, Before
    <3>5. Booked(W, d, Drawing, o) /\ Drawing \in Stages
      BY <1>2 DEF Stages
    <3>4. PICK V \in SUBSET S2 :
             Booked(V, d2, Drawing, o)' /\ Cardinality(V) = Cardinality(W) + 1
      BY <2>1, <3>3, <3>5, BookedMore
    <3>6. Cardinality(V) = effects'[o].withdrawn
      BY <1>2, <3>2, <3>4
    <3> QED BY <1>3, <1>5, <3>2, <3>4, <3>6
  <2>4. CASE WebhookAccrue(h)
    <3>1. hook[h].pc = "accrue" /\ hook'[h].pc = "enqueue"
      BY <1>t, <2>2, <2>4 DEF TypeOK, Hook, WebhookAccrue
    <3>2. effects'[o].withdrawn = w /\ effects'[o].accrued = a + 1
      BY <1>t, <1>1, <1>7, <2>2, <2>4 DEF TypeOK, Effects, WebhookAccrue
    <3>3. hook[h].pc # "received" /\ Before(h, Accruing) /\ ~Before(h, Accruing)'
      BY <3>1 DEF Accruing, Before
    <3>5. Booked(A, d, Accruing, o) /\ Accruing \in Stages
      BY <1>3 DEF Stages
    <3>4. PICK V \in SUBSET S2 :
             Booked(V, d2, Accruing, o)' /\ Cardinality(V) = Cardinality(A) + 1
      BY <2>1, <3>3, <3>5, BookedMore
    <3>6. Cardinality(V) = effects'[o].accrued
      BY <1>3, <3>2, <3>4
    <3> QED BY <1>2, <1>4, <3>2, <3>4, <3>6
  <2> QED BY <1>7, <2>3, <2>4
<1>8. ASSUME NEW h \in Hooks, WebhookWithdraw(h) \/ WebhookAccrue(h), hook[h].order # o
      PROVE  effects'[o].withdrawn = w /\ effects'[o].accrued = a
  BY <1>t, <1>1, <1>8 DEF TypeOK, WebhookWithdraw, WebhookAccrue
<1>9. ASSUME NEW j \in Jobs, JobCommand(j) \/ JobVerify(j) \/ JobRecord(j)
      PROVE  effects'[o].withdrawn = w /\ effects'[o].accrued = a
  <2>1. effects[o] \in Effects
    BY <1>t DEF TypeOK
  <2> QED BY <1>t, <1>1, <1>9, <2>1 DEF TypeOK, Effects, JobCommand, JobVerify, JobRecord,
                                        AnotherCycle
<1> QED BY <1>1, <1>6, <1>7, <1>8, <1>9, EffectsFrame

\* How a job fares in a step.
GoesOn(j) ==
    /\ job[j].pc # "unused" /\ job'[j].order = job[j].order
    /\ Begun(j) <= Begun(j)'

LEMMA JobTyped ==
    ASSUME TypeOK, NEW j \in Jobs
    PROVE  /\ job[j].attempts \in Nat /\ job[j].stalls \in Nat /\ job[j] \in Job
           /\ Begun(j) \in Nat
  BY DEF TypeOK, Job, Begun

\* Every job goes on or is gone, but for the one a request or a free order adds.
LEMMA AttemptGoesOn ==
    ASSUME TypeOK, NEW j \in Jobs, AttemptFailed(j), job[j].pc # "unused"
    PROVE  /\ job'[j].pc = "unused" \/ GoesOn(j)
           /\ \A i \in Jobs \ {j} : job'[i] = job[i]
           /\ job'[j].pc # "unused" =>
                 /\ job'[j].attempts = job[j].attempts + 1
                 /\ job[j].attempts + 1 < JobAttempts
                 /\ job'[j].stalls = job[j].stalls
<1>1. /\ job[j].attempts \in Nat /\ job[j].stalls \in Nat
  BY JobTyped
<1>2. \A i \in Jobs \ {j} : job'[i] = job[i]
  BY DEF TypeOK, AttemptFailed
<1>3. CASE job[j].attempts + 1 < JobAttempts
  <2>1. job'[j] = Requeued(j, job[j].attempts + 1, job[j].stalls)
    BY <1>3 DEF TypeOK, AttemptFailed
  <2>2. /\ job'[j].pc = "waiting" /\ job'[j].order = job[j].order
        /\ job'[j].attempts = job[j].attempts + 1 /\ job'[j].stalls = job[j].stalls
    BY <2>1 DEF Requeued, Queued, NoJob
  <2> QED BY <1>1, <1>2, <1>3, <2>2 DEF GoesOn, Begun
<1>4. CASE ~(job[j].attempts + 1 < JobAttempts)
  <2>1. job'[j].pc = "unused"
    BY <1>4 DEF TypeOK, AttemptFailed, NoJob
  <2> QED BY <1>2, <2>1
<1> QED BY <1>3, <1>4

LEMMA JobGoesOn ==
    ASSUME TypeOK, NEW j \in Jobs, JobStep(j) \/ JobError(j)
    PROVE  /\ job'[j].pc = "unused" \/ GoesOn(j)
           /\ \A i \in Jobs \ {j} : job'[i] = job[i]
           /\ job'[j].pc # "unused" =>
                 /\ \/ job'[j].attempts = job[j].attempts
                    \/ /\ job'[j].attempts = job[j].attempts + 1
                       /\ job[j].attempts + 1 < JobAttempts
                 /\ job'[j].stalls = job[j].stalls
<1>1. /\ job[j].attempts \in Nat /\ job[j].stalls \in Nat /\ job[j] \in Job
  BY JobTyped
<1>2. CASE AttemptFailed(j) /\ job[j].pc # "unused"
  BY <1>2, AttemptGoesOn
<1>3. CASE job' = [job EXCEPT ![j] = NoJob]
  BY <1>3 DEF TypeOK, NoJob
<1>4. CASE JobRead(j) \/ JobCommand(j) \/ JobVerify(j) \/ JobRefundCheck(j) \/ JobRefund(j)
           \/ JobRecord(j) \/ JobSelect(j)
           \/ (job[j].pc \in {"refund", "record", "complete"}
                 /\ job' = [job EXCEPT ![j].pc = "fail", ![j].seen = NoRow])
  <2>1. \A i \in Jobs \ {j} : job'[i] = job[i]
    BY <1>4 DEF TypeOK, JobRead, JobCommand, JobVerify, JobRefundCheck, JobRefund,
                JobRecord, JobSelect, AnotherCycle, Refundable
  <2>2. /\ job'[j].order = job[j].order /\ job'[j].attempts = job[j].attempts
        /\ job'[j].stalls = job[j].stalls /\ job[j].pc # "unused"
    BY <1>1, <1>4 DEF TypeOK, Job, JobRead, JobCommand, JobVerify, JobRefundCheck, JobRefund,
                      JobRecord, JobSelect, AnotherCycle, Refundable
  <2>3. job[j].pc \in {"record", "fail"} => job'[j].pc \in {"record", "fail"}
    BY <1>1, <1>4 DEF TypeOK, Job, JobRead, JobCommand, JobVerify, JobRefundCheck, JobRefund,
                      JobRecord, JobSelect, AnotherCycle, Refundable
  <2> QED BY <1>1, <2>1, <2>2, <2>3 DEF GoesOn, Begun
<1> QED BY <1>2, <1>3, <1>4 DEF JobStep, JobError, JobReject, JobComplete, JobFail

LEMMA CrashGoesOn ==
    ASSUME TypeOK, Crash, NEW j \in Jobs, job'[j].pc # "unused"
    PROVE  /\ GoesOn(j)
           /\ job'[j].attempts = job[j].attempts
           /\ \/ job'[j].stalls = job[j].stalls
              \/ job'[j].stalls = job[j].stalls + 1 /\ job[j].stalls < MaxStalls
<1>1. /\ job[j].attempts \in Nat /\ job[j].stalls \in Nat
  BY JobTyped
<1>2. job'[j] = Stalled(j)
  BY DEF Crash
<1>3. CASE job[j].pc \in {"unused", "waiting"}
  BY <1>1, <1>2, <1>3 DEF Stalled, GoesOn, Begun
<1>4. CASE job[j].pc \notin {"unused", "waiting"}
  <2>1. /\ job[j].stalls < MaxStalls
        /\ job'[j] = Requeued(j, job[j].attempts, job[j].stalls + 1)
    BY <1>2, <1>4 DEF Stalled, NoJob
  <2>2. /\ job'[j].pc = "waiting" /\ job'[j].order = job[j].order
        /\ job'[j].attempts = job[j].attempts /\ job'[j].stalls = job[j].stalls + 1
    BY <2>1 DEF Requeued, Queued, NoJob
  <2> QED BY <1>1, <1>4, <2>1, <2>2 DEF GoesOn, Begun
<1> QED BY <1>3, <1>4

\* A job that goes on keeps its kind of order.
LEMMA WorkingBefore ==
    ASSUME IInv, NoPaidEdits, [Next]_vars, NEW j \in Jobs, GoesOn(j), Working(j)'
    PROVE  Working(j)
<1>1. /\ job[j].pc # "unused" /\ job'[j].order = job[j].order
      /\ ~terms'[job'[j].order].free
  BY DEF GoesOn, Working
<1>2. PICK o \in Orders : o = job[j].order
  BY <1>1 DEF IInv, TypeOK, Job, HandlersKnowTheirOrder
<1>3. order[o].status # "absent"
  BY <1>2 DEF IInv, AbsentIsUntouched
<1>4. terms'[o] = terms[o]
  BY <1>3, TermsStable
<1> QED BY <1>1, <1>2, <1>4 DEF Working

LEMMA CarriedKept ==
    ASSUME IInv, NoPaidEdits, [Next]_vars, NEW S \in SUBSET Notices,
           NEW d, NEW S2, NEW d2, Follows(S, d, S2, d2), NEW e, Carried(S, d, e),
           \A j \in Jobs : job'[j].pc = "unused" \/ ~Working(j)' \/ GoesOn(j)
    PROVE  Carried(S2, d2, e)'
<1>1. \A j \in Jobs : Working(j)' => Working(j) /\ GoesOn(j)
  BY WorkingBefore DEF Working
<1>2. ASSUME NEW j \in Jobs, Working(j)'
      PROVE  /\ e[j] \in S2 /\ Backed(job[j].order, e[j][1])'
             /\ \A h \in Hooks : Active(h)' => d2[h] # e[j]
  <2>1. /\ e[j] \in S /\ Backed(job[j].order, e[j][1])
        /\ \A h \in Hooks : Active(h) => d[h] # e[j]
    BY <1>1, <1>2 DEF Carried
  <2>2. e[j] \in S2
    BY <2>1, StillCounted DEF Active
  <2>3. e[j][1] \in Payments /\ job'[j].order = job[j].order
    BY <1>1, <1>2, <2>1 DEF Notices, GoesOn
  <2>4. Backed(job[j].order, e[j][1])'
    <3>1. PICK o, p : o = job[j].order /\ p = e[j][1] /\ p \in Payments
      BY <2>3
    <3>2. Backed(o, p)'
      BY <2>1, <3>1, BackedStays
    <3> QED BY <2>3, <3>1, <3>2 DEF Backed
  <2>5. \A h \in Hooks : Active(h)' => d2[h] # e[j]
    BY <2>1 DEF Follows, Active
  <2> QED BY <2>2, <2>4, <2>5
<1>3. \A i, j \in Jobs : i # j /\ Working(i)' /\ Working(j)' => e[i] # e[j]
  BY <1>1 DEF Carried
<1> QED BY <1>2, <1>3 DEF Carried

\* The request h hands its delivery to the job j it adds.
LEMMA CarriedNew ==
    ASSUME IInv, NoPaidEdits, [Next]_vars, NEW S \in SUBSET Notices,
           NEW d, NEW S2, NEW d2, Delivered(S, d), Follows(S, d, S2, d2),
           NEW e \in [Jobs -> (Payments \cup {None}) \X Nat], Carried(S, d, e),
           NEW h \in Hooks, hook[h].pc \notin {"idle", "received"}, hook'[h].pc = "idle",
           NEW j \in Jobs, job[j].pc = "unused", job'[j].order = hook[h].order,
           Backed(hook[h].order, hook[h].pay),
           \A i \in Jobs \ {j} : job'[i] = job[i],
           NEW e2, e2 = [e EXCEPT ![j] = d[h]]
    PROVE  Carried(S2, d2, e2)'
<1>1. Active(h) /\ d[h] \in S /\ d[h][1] = hook[h].pay /\ d[h][1] \in Payments
  BY DEF Active, Delivered, Notices
<1>2. d[h] \in S2
  BY <1>1, StillCounted DEF Delivered, Active
<1>3. e2[j] = d[h] /\ \A i \in Jobs \ {j} : e2[i] = e[i]
  OBVIOUS
<1>4. \A i \in Jobs \ {j} : Working(i)' => Working(i) /\ job'[i].order = job[i].order
  <2> SUFFICES ASSUME NEW i \in Jobs \ {j}, Working(i)' PROVE Working(i)
    OBVIOUS
  <2>1. job[i].pc # "unused"
    BY DEF Working
  <2>2. GoesOn(i)
    BY <2>1, JobTyped DEF GoesOn, Begun, IInv
  <2> QED BY <2>2, WorkingBefore
<1>5. \A g \in Hooks : Active(g)' => d2[g] # d[h]
  <2> SUFFICES ASSUME NEW g \in Hooks, Active(g)' PROVE d2[g] # d[h]
    OBVIOUS
  <2>1. g # h
    BY DEF Active
  <2>2. d2[g] \notin S \/ (Active(g) /\ d2[g] = d[g])
    BY DEF Follows, Active
  <2> QED BY <1>1, <2>1, <2>2 DEF Delivered
<1>6. Backed(job[j].order, e2[j][1])'
  <2>1. PICK o, p : o = hook[h].order /\ p = hook[h].pay /\ p \in Payments
    BY <1>1
  <2>2. Backed(o, p)'
    BY <2>1, BackedStays
  <2> QED BY <1>1, <1>3, <2>1, <2>2 DEF Backed
<1>7. ASSUME NEW i \in Jobs, i # j, Working(i)'
      PROVE  /\ e2[i] \in S2 /\ Backed(job[i].order, e2[i][1])'
             /\ \A g \in Hooks : Active(g)' => d2[g] # e2[i]
             /\ e2[i] # d[h]
  <2>1. /\ e[i] \in S /\ Backed(job[i].order, e[i][1])
        /\ \A g \in Hooks : Active(g) => d[g] # e[i]
    BY <1>4, <1>7 DEF Carried
  <2>2. e[i] \in S2
    BY <2>1, StillCounted DEF Active
  <2>3. e[i][1] \in Payments /\ job'[i].order = job[i].order
    BY <1>4, <1>7, <2>1 DEF Notices
  <2>4. Backed(job[i].order, e[i][1])'
    <3>1. PICK o, p : o = job[i].order /\ p = e[i][1] /\ p \in Payments
      BY <2>3
    <3>2. Backed(o, p)'
      BY <2>1, <3>1, BackedStays
    <3> QED BY <2>3, <3>1, <3>2 DEF Backed
  <2>5. \A g \in Hooks : Active(g)' => d2[g] # e[i]
    BY <2>1 DEF Follows, Active
  <2>6. e2[i] = e[i]
    BY <1>3, <1>7
  <2> QED BY <1>1, <2>1, <2>2, <2>4, <2>5, <2>6
<1>8. \A i \in Jobs : Working(i)' =>
          /\ e2[i] \in S2 /\ Backed(job[i].order, e2[i][1])'
          /\ \A g \in Hooks : Active(g)' => d2[g] # e2[i]
  BY <1>2, <1>3, <1>5, <1>6, <1>7
<1>9. \A i, k \in Jobs : i # k /\ Working(i)' /\ Working(k)' => e2[i] # e2[k]
  BY <1>3, <1>4, <1>7 DEF Carried
<1> QED BY <1>8, <1>9 DEF Carried

\* The runs that asked for a refund are still those, unless one asks now.
LEMMA AskedKept ==
    ASSUME IInv, NoPaidEdits, [Next]_vars, NEW S \in SUBSET Notices,
           NEW d, NEW S2, NEW d2, Follows(S, d, S2, d2), NEW e, NEW e2,
           \A j \in Jobs : Working(j)' => \/ GoesOn(j) /\ e2[j] = e[j]
                                          \/ \E h \in Hooks : Active(h) /\ e2[j] = d[h],
           NEW p \in Payments, NEW R \in SUBSET (S \X Nat), Asked(R, d, e, p),
           Cardinality(R) = payment[p].refunds
    PROVE  R \in SUBSET (S2 \X Nat) /\ Asked(R, d2, e2, p)'
<1>t. TypeOK /\ RefundsAreBacked
  BY DEF IInv
<1>1. ASSUME NEW u \in R
      PROVE  /\ u = <<u[1], u[2]>> /\ u[1] \in S /\ u[2] \in Nat /\ u[1][1] \in Payments
             /\ Backed(payment[p].order, u[1][1]) /\ u[2] < RunsOfAJob
             /\ \A h \in Hooks : Active(h) => d[h] # u[1]
             /\ \A j \in Jobs : Working(j) /\ e[j] = u[1] => u[2] < Begun(j)
  BY <1>1 DEF Asked, Notices
<1>2. ASSUME NEW u \in R PROVE u[1] \in S2
  BY <1>1, StillCounted DEF Active
<1>3. R \in SUBSET (S2 \X Nat)
  BY <1>1, <1>2
<1>4. ASSUME NEW u \in R PROVE payment'[p].order = payment[p].order
  <2>1. Cardinality(R) # 0
    BY FS_EmptySet DEF Asked
  <2>2. payment[p].refunds \in Nat /\ payment[p].refunds > 0
    BY <1>t, <2>1 DEF TypeOK, Payment
  <2>3. payment[p].state = "succeeded"
    BY <2>2 DEF IInv, TransactionsAreOwned
  <2>4. KeepsItsHistory(p)
    BY PaymentsStable DEF IInv, WellFormed
  <2> QED BY <2>3, <2>4 DEF KeepsItsHistory
<1>5. ASSUME NEW u \in R PROVE Backed(payment[p].order, u[1][1])'
  <2>1. PICK o, q : o = payment[p].order /\ q = u[1][1] /\ q \in Payments
    BY <1>1
  <2>2. Backed(o, q)'
    BY <1>1, <2>1, BackedStays
  <2> QED BY <1>4, <2>1, <2>2 DEF Backed
<1>6. \A u \in R : u[2] < RunsOfAJob'
  BY <1>t, <1>1, RunsGrow
<1>7. \A u \in R, h \in Hooks : Active(h)' => d2[h] # u[1]
  BY <1>1 DEF Follows, Active
<1>8. ASSUME NEW u \in R, NEW j \in Jobs, Working(j)', e2[j] = u[1] PROVE u[2] < Begun(j)'
  <2>1. ~\E h \in Hooks : Active(h) /\ e2[j] = d[h]
    BY <1>1, <1>8
  <2>2. GoesOn(j) /\ e2[j] = e[j]
    BY <1>8, <2>1
  <2>3. Working(j)
    BY <1>8, <2>2, WorkingBefore
  <2>4. u[2] < Begun(j)
    BY <1>1, <1>8, <2>2, <2>3
  <2>5. Begun(j) \in Nat /\ Begun(j)' \in Nat /\ Begun(j) <= Begun(j)'
    <3>1. TypeOK'
      BY WellFormedNext DEF IInv, WellFormed
    <3>2. Begun(j)' \in Nat
      BY <3>1 DEF TypeOK, Job, Begun
    <3> QED BY <1>t, <2>2, <3>2, JobTyped DEF GoesOn
  <2> QED BY <1>1, <2>4, <2>5
<1>9. IsFiniteSet(R)
  BY DEF Asked
<1> QED BY <1>3, <1>5, <1>6, <1>7, <1>8, <1>9 DEF Asked

\* The job j asks for the refund of p.
AsksFor(j, p) ==
    /\ job[j].pc = "refunding" /\ job[j].pay = p /\ payment[p].state = "succeeded"
    /\ job' = [job EXCEPT ![j].pc = "record"]
    /\ payment'[p].refunds = payment[p].refunds + 1
    /\ payment'[p].order = payment[p].order

\* Only the worker's call asks for a refund, and only for its own payment.
LEMMA RefundsChange ==
    ASSUME TypeOK, [Next]_vars, NEW p \in Payments
    PROVE  \/ payment'[p].refunds = payment[p].refunds
           \/ \E j \in Jobs : AsksFor(j, p)
<1>p. payment[p] \in Payment /\ payment[p].refunds \in Nat
  BY DEF TypeOK, Payment
<1>1. ASSUME NEW j \in Jobs, JobRefund(j), job[j].pay = p,
             payment'[p].refunds # payment[p].refunds
      PROVE  AsksFor(j, p)
  <2>1. /\ payment' = [payment EXCEPT ![p].refunds = @ + 1]
        /\ job[j].pc = "refunding" /\ job' = [job EXCEPT ![j].pc = "record"]
        /\ payment[p].state = "succeeded"
    BY <1>1 DEF JobRefund
  <2> QED BY <1>p, <1>1, <2>1 DEF TypeOK, Payment, AsksFor
<1> QED BY <1>1, RefundBy

OnceMore(R, S, d, e, p) ==
    \E R2 \in SUBSET (S \X Nat) : Asked(R2, d, e, p) /\ Cardinality(R2) = Cardinality(R) + 1

LEMMA AskedMore ==
    ASSUME IInv, JobsLimited, NoPaidEdits, [Next]_vars, NEW S \in SUBSET Notices,
           NEW d, NEW S2, NEW d2, Follows(S, d, S2, d2),
           NEW e, Carried(S, d, e), Carried(S2, d2, e)',
           NEW p \in Payments, NEW R \in SUBSET (S \X Nat), Asked(R, d, e, p),
           R \in SUBSET (S2 \X Nat), Asked(R, d2, e, p)',
           NEW j \in Jobs, AsksFor(j, p)
    PROVE  OnceMore(R, S2, d2, e, p)'
<1>t. TypeOK
  BY DEF IInv
<1>a. /\ job[j].pc = "refunding" /\ job[j].pay = p
      /\ job' = [job EXCEPT ![j].pc = "record"] /\ payment'[p].order = payment[p].order
  BY DEF AsksFor
<1>1. PICK run : run = job[j].attempts + job[j].stalls
  OBVIOUS
<1>2. /\ job[j].attempts \in Nat /\ job[j].stalls \in Nat /\ job[j] \in Job
      /\ run \in Nat /\ Begun(j) = run
  BY <1>t, <1>1, <1>a, JobTyped DEF Begun
<1>3. run < RunsOfAJob /\ run < RunsOfAJob'
  <2>1. /\ job[j].attempts < JobAttempts
        /\ job[j].stalls <= MaxStalls /\ job[j].stalls <= spent.crashes
    BY <1>a DEF JobsLimited
  <2>2. run < RunsOfAJob
    BY <1>1, <1>2, <1>t, <2>1, FaultsGrow, BoundsAssumption DEF RunsOfAJob
  <2> QED BY <1>t, <1>2, <2>2, RunsGrow
<1>4. /\ job'[j].pc = "record" /\ job'[j].order = job[j].order
      /\ job'[j].attempts = job[j].attempts /\ job'[j].stalls = job[j].stalls
      /\ \A i \in Jobs \ {j} : job'[i] = job[i]
  BY <1>t, <1>a, <1>2 DEF TypeOK, Job
<1>5. Begun(j)' = run + 1
  BY <1>1, <1>2, <1>4 DEF Begun
<1>6. Working(j) /\ Backed(job[j].order, p)
  <2>1. /\ ~terms[job[j].order].free /\ OwnedBy(p, job[j].order)
    BY <1>a DEF IInv, JobsAreBacked
  <2>2. payment[p].state = "succeeded" /\ p # None
    BY NoneAssumption DEF AsksFor
  <2> QED BY <1>a, <2>1, <2>2 DEF Working, OwnedBy, Backed
<1>7. GoesOn(j)
  BY <1>a, <1>2, <1>4, <1>5 DEF GoesOn
<1>8. Working(j)'
  <2>1. PICK o \in Orders : o = job[j].order
    BY <1>a DEF IInv, TypeOK, Job, HandlersKnowTheirOrder
  <2>2. order[o].status # "absent"
    BY <2>1 DEF IInv, AbsentIsUntouched
  <2>3. terms'[o] = terms[o]
    BY <2>2, TermsStable
  <2> QED BY <1>4, <1>6, <2>1, <2>3 DEF Working
<1>9. e[j] \in S2 /\ Backed(job[j].order, e[j][1])'
      /\ \A h \in Hooks : Active(h)' => d2[h] # e[j]
  BY <1>8 DEF Carried
<1>10. Backed(payment[p].order, e[j][1])'
  <2>1. job'[j].order = payment'[p].order
    BY <1>a, <1>4, <1>6 DEF Backed
  <2> QED BY <1>9, <2>1 DEF Backed
<1>11. PICK u : u = <<e[j], run>>
  OBVIOUS
<1>12. u[1] = e[j] /\ u[2] = run /\ u \in S2 \X Nat
  BY <1>2, <1>9, <1>11
<1>13. u \notin R
  <2> SUFFICES ASSUME u \in R PROVE FALSE
    OBVIOUS
  <2>1. u[2] < Begun(j)
    BY <1>6, <1>12 DEF Asked
  <2> QED BY <1>2, <1>12, <2>1
<1>14. PICK R2 : R2 = R \cup {u}
  OBVIOUS
<1>15. R2 \in SUBSET (S2 \X Nat)
  BY <1>12, <1>14
<1>16. IsFiniteSet(R2) /\ Cardinality(R2) = Cardinality(R) + 1
  BY <1>13, <1>14, FS_AddElement DEF Asked
<1>17. \A i \in Jobs : Working(i)' /\ e[i] = u[1] => u[2] < Begun(i)'
  BY <1>2, <1>5, <1>8, <1>12 DEF Carried
<1>18. \A v \in R2 : /\ Backed(payment[p].order, v[1][1])' /\ v[2] < RunsOfAJob'
                     /\ \A h \in Hooks : Active(h)' => d2[h] # v[1]
                     /\ \A i \in Jobs : Working(i)' /\ e[i] = v[1] => v[2] < Begun(i)'
  <2> SUFFICES ASSUME NEW v \in R2
               PROVE  /\ Backed(payment[p].order, v[1][1])' /\ v[2] < RunsOfAJob'
                      /\ \A h \in Hooks : Active(h)' => d2[h] # v[1]
                      /\ \A i \in Jobs : Working(i)' /\ e[i] = v[1] => v[2] < Begun(i)'
    OBVIOUS
  <2>1. CASE v \in R
    BY <2>1 DEF Asked
  <2>2. CASE v = u
    BY <1>3, <1>9, <1>10, <1>12, <1>17, <2>2
  <2> QED BY <1>14, <2>1, <2>2
<1>19. Asked(R2, d2, e, p)'
  BY <1>16, <1>18 DEF Asked
<1> QED BY <1>15, <1>16, <1>19 DEF OnceMore

\* A step in which jobs go on or end, and none is added for a paid order.
LEMMA TracedKept ==
    ASSUME IInv, JobsLimited, NoPaidEdits, [Next]_vars, NEW S \in SUBSET Notices,
           NEW d, NEW S2, NEW d2, Follows(S, d, S2, d2), Delivered(S2, d2)',
           NEW e, Traced(S, d, e),
           \A j \in Jobs : job'[j].pc = "unused" \/ ~Working(j)' \/ GoesOn(j)
    PROVE  Traced(S2, d2, e)'
<1>t. TypeOK
  BY DEF IInv
<1>1. Delivered(S, d) /\ Carried(S, d, e)
  BY DEF Traced
<1>2. Carried(S2, d2, e)'
  BY <1>1, CarriedKept
<1>3. ASSUME NEW o \in Orders
      PROVE  /\ \E W \in SUBSET S2 : Booked(W, d2, Drawing, o)'
                                     /\ Cardinality(W) = effects'[o].withdrawn
             /\ \E W \in SUBSET S2 : Booked(W, d2, Accruing, o)'
                                     /\ Cardinality(W) = effects'[o].accrued
  BY <1>1, BookingsMove DEF Traced
<1>4. ASSUME NEW p \in Payments
      PROVE  \E R \in SUBSET (S2 \X Nat) :
                 Asked(R, d2, e, p)' /\ Cardinality(R) = payment'[p].refunds
  <2>1. PICK R \in SUBSET (S \X Nat) : Asked(R, d, e, p) /\ Cardinality(R) = payment[p].refunds
    BY DEF Traced
  <2>2. \A j \in Jobs : Working(j)' => GoesOn(j)
    BY DEF Working
  <2>3. R \in SUBSET (S2 \X Nat) /\ Asked(R, d2, e, p)'
    BY <2>1, <2>2, AskedKept
  <2>4. CASE payment'[p].refunds = payment[p].refunds
    BY <2>1, <2>3, <2>4
  <2>5. ASSUME NEW j \in Jobs, AsksFor(j, p)
        PROVE  \E Q \in SUBSET (S2 \X Nat) :
                   Asked(Q, d2, e, p)' /\ Cardinality(Q) = payment'[p].refunds
    <3>1. /\ Carried(S, d, e) /\ Carried(S2, d2, e)' /\ Asked(R, d, e, p)
          /\ R \in SUBSET (S2 \X Nat) /\ Asked(R, d2, e, p)'
      BY <1>1, <1>2, <2>1, <2>3
    <3>2. OnceMore(R, S2, d2, e, p)'
      BY <2>5, <3>1, AskedMore
    <3>3. PICK R2 \in SUBSET (S2 \X Nat) :
               Asked(R2, d2, e, p)' /\ Cardinality(R2) = Cardinality(R) + 1
      BY <3>2 DEF OnceMore
    <3>4. Cardinality(R2) = payment'[p].refunds
      BY <2>1, <2>5, <3>3 DEF AsksFor
    <3> QED BY <3>3, <3>4
  <2> QED BY <1>t, <2>4, <2>5, RefundsChange
<1> QED BY <1>2, <1>3, <1>4 DEF Traced

\* A notice adds its job.
LEMMA TracedNew ==
    ASSUME IInv, NoPaidEdits, [Next]_vars, NEW S \in SUBSET Notices,
           NEW d \in [Hooks -> (Payments \cup {None}) \X Nat], NEW S2, NEW d2,
           Follows(S, d, S2, d2), Delivered(S2, d2)',
           NEW e \in [Jobs -> (Payments \cup {None}) \X Nat], Traced(S, d, e),
           NEW h \in Hooks, WebhookEnqueue(h)
    PROVE  \E e2 \in [Jobs -> (Payments \cup {None}) \X Nat] : Traced(S2, d2, e2)'
<1>t. TypeOK
  BY DEF IInv
<1>1. Delivered(S, d) /\ Carried(S, d, e)
  BY DEF Traced
<1>2. PICK j \in Jobs : job[j].pc = "unused" /\ job' = [job EXCEPT ![j] = Queued(hook[h].order)]
  BY DEF WebhookEnqueue, AddJob
<1>3. job'[j].order = hook[h].order /\ \A i \in Jobs \ {j} : job'[i] = job[i]
  BY <1>t, <1>2 DEF TypeOK, Queued, NoJob
<1>4. hook[h].pc = "enqueue" /\ hook'[h].pc = "idle"
  BY <1>t DEF TypeOK, WebhookEnqueue, Acknowledge, NoHook
<1>5. Backed(hook[h].order, hook[h].pay)
  BY <1>4 DEF IInv, HooksMatchPayments, Backed
<1>6. PICK e2 : e2 = [e EXCEPT ![j] = d[h]]
  OBVIOUS
<1>7. e2 \in [Jobs -> (Payments \cup {None}) \X Nat]
  BY <1>6
<1>8. Carried(S2, d2, e2)'
  BY <1>1, <1>2, <1>3, <1>4, <1>5, <1>6, CarriedNew
<1>9. ASSUME NEW o \in Orders
      PROVE  /\ \E W \in SUBSET S2 : Booked(W, d2, Drawing, o)'
                                     /\ Cardinality(W) = effects'[o].withdrawn
             /\ \E W \in SUBSET S2 : Booked(W, d2, Accruing, o)'
                                     /\ Cardinality(W) = effects'[o].accrued
  <2>1. \E W \in SUBSET S : Booked(W, d, Drawing, o) /\ Cardinality(W) = effects[o].withdrawn
    BY DEF Traced
  <2>2. \E W \in SUBSET S : Booked(W, d, Accruing, o) /\ Cardinality(W) = effects[o].accrued
    BY DEF Traced
  <2>3. Delivered(S, d)
    BY <1>1
  <2> QED BY <2>1, <2>2, <2>3, BookingsMove
<1>10. \A i \in Jobs : Working(i)' => \/ GoesOn(i) /\ e2[i] = e[i]
                                      \/ \E g \in Hooks : Active(g) /\ e2[i] = d[g]
  <2> SUFFICES ASSUME NEW i \in Jobs, Working(i)'
               PROVE  \/ GoesOn(i) /\ e2[i] = e[i]
                      \/ \E g \in Hooks : Active(g) /\ e2[i] = d[g]
    OBVIOUS
  <2>1. CASE i = j
    BY <1>4, <1>6, <2>1 DEF Active
  <2>2. CASE i # j
    <3>1. job'[i] = job[i] /\ e2[i] = e[i] /\ job[i].pc # "unused"
      BY <1>3, <1>6, <2>2 DEF Working
    <3>2. GoesOn(i)
      BY <1>t, <3>1, JobTyped DEF GoesOn, Begun
    <3> QED BY <3>1, <3>2
  <2> QED BY <2>1, <2>2
<1>11. ASSUME NEW p \in Payments
       PROVE  \E R \in SUBSET (S2 \X Nat) :
                  Asked(R, d2, e2, p)' /\ Cardinality(R) = payment'[p].refunds
  <2>1. PICK R \in SUBSET (S \X Nat) : Asked(R, d, e, p) /\ Cardinality(R) = payment[p].refunds
    BY DEF Traced
  <2>2. R \in SUBSET (S2 \X Nat) /\ Asked(R, d2, e2, p)'
    BY <1>10, <2>1, AskedKept
  <2>3. payment'[p].refunds = payment[p].refunds
    <3>1. payment' = [payment EXCEPT ![hook[h].pay].acked = TRUE]
      BY DEF WebhookEnqueue, Acknowledge
    <3>2. payment[p] \in Payment
      BY <1>t DEF TypeOK
    <3> QED BY <1>t, <3>1, <3>2 DEF TypeOK, Payment
  <2> QED BY <2>1, <2>2, <2>3
<1>12. Traced(S2, d2, e2)'
  BY <1>8, <1>9, <1>11 DEF Traced
<1> QED BY <1>7, <1>12

(* The invariant holds at the start, and every step keeps it: the jobs' limits, *)
(* the payments made so far, and the ghosts S, d and e.                         *)

LEMMA NextIInv ==
    ASSUME IInv, NoPaidEdits, [Next]_vars
    PROVE  IInv' /\ TypeOK /\ TypeOK'
  BY Inductive DEF IInv

LEMMA JobsLimitedNext ==
    ASSUME TypeOK, TypeOK', JobsLimited, [Next]_vars
    PROVE  JobsLimited'
<1>0. /\ spent.crashes \in Nat /\ spent'.crashes \in Nat /\ spent.crashes <= spent'.crashes
      /\ JobAttempts \in Nat \ {0} /\ MaxStalls \in Nat
  BY FaultsGrow, BoundsAssumption
<1>s. ASSUME NEW j \in Jobs, job'[j] = job[j], job'[j].pc # "unused"
      PROVE  /\ job'[j].attempts < JobAttempts
             /\ job'[j].stalls <= MaxStalls /\ job'[j].stalls <= spent'.crashes
  BY <1>0, <1>s, JobTyped DEF JobsLimited
<1>1. CASE UNCHANGED job
  BY <1>1, <1>s DEF JobsLimited
<1>2. ASSUME NEW o, AddJob(o) PROVE JobsLimited'
  <2>1. PICK j \in Jobs : job' = [job EXCEPT ![j] = Queued(o)]
    BY <1>2 DEF AddJob
  <2>2. \A i \in Jobs \ {j} : job'[i] = job[i]
    BY <2>1 DEF TypeOK
  <2>3. job'[j].attempts = 0 /\ job'[j].stalls = 0
    BY <2>1 DEF TypeOK, Queued, NoJob
  <2> QED BY <1>0, <1>s, <2>2, <2>3 DEF JobsLimited
<1>3. ASSUME NEW j \in Jobs, JobStep(j) \/ JobError(j) PROVE JobsLimited'
  <2>1. \A i \in Jobs \ {j} : job'[i] = job[i]
    BY <1>3, JobGoesOn
  <2>2. ASSUME job'[j].pc # "unused"
        PROVE  /\ job'[j].attempts < JobAttempts
               /\ job'[j].stalls <= MaxStalls /\ job'[j].stalls <= spent'.crashes
    <3>1. /\ job[j].pc # "unused"
          /\ \/ job'[j].attempts = job[j].attempts
             \/ /\ job'[j].attempts = job[j].attempts + 1
                /\ job[j].attempts + 1 < JobAttempts
          /\ job'[j].stalls = job[j].stalls
      BY <1>3, <2>2, JobGoesOn DEF GoesOn
    <3> QED BY <1>0, <3>1, JobTyped DEF JobsLimited
  <2> QED BY <1>s, <2>1, <2>2 DEF JobsLimited
<1>4. CASE Crash
  <2> SUFFICES ASSUME NEW j \in Jobs, job'[j].pc # "unused"
               PROVE  /\ job'[j].attempts < JobAttempts
                      /\ job'[j].stalls <= MaxStalls /\ job'[j].stalls <= spent'.crashes
    BY DEF JobsLimited
  <2>1. /\ job[j].pc # "unused"
        /\ job'[j].attempts = job[j].attempts
        /\ \/ job'[j].stalls = job[j].stalls
           \/ job'[j].stalls = job[j].stalls + 1 /\ job[j].stalls < MaxStalls
    BY <1>4, CrashGoesOn DEF GoesOn
  <2>2. spent'.crashes = spent.crashes + 1
    BY <1>4 DEF Crash, TypeOK, Spent
  <2> QED BY <1>0, <2>1, <2>2, JobTyped DEF JobsLimited
<1> QED BY <1>1, <1>2, <1>3, <1>4, JobFrame DEF EnqueueFree, WebhookEnqueue

LEMMA CreatingNext ==
    ASSUME IInv, NoPaidEdits, CreatingIsFree, [Next]_vars
    PROVE  CreatingIsFree'
<1>t. TypeOK /\ AbsentIsUntouched
  BY DEF IInv
<1>1. ASSUME NEW o \in Orders, NEW t \in OrderTerms, CreateOrder(o, t)
      PROVE  CreatingIsFree'
  <2>1. /\ terms' = [terms EXCEPT ![o] = t]
        /\ creating' = IF t.free THEN creating \cup {o} ELSE creating
        /\ o \notin creating
    BY <1>t, <1>1 DEF CreateOrder, AbsentIsUntouched
  <2>2. \A i \in Orders : terms'[i] = IF i = o THEN t ELSE terms[i]
    BY <1>t, <2>1 DEF TypeOK
  <2>3. creating \subseteq Orders
    BY <1>t DEF TypeOK
  <2>4. ASSUME NEW i \in creating' PROVE terms'[i].free
    <3>1. CASE i = o
      BY <2>1, <2>2, <3>1
    <3>2. CASE i # o
      BY <2>1, <2>2, <2>3, <2>4, <3>2 DEF CreatingIsFree
    <3> QED BY <3>1, <3>2
  <2> QED BY <2>4 DEF CreatingIsFree
<1>2. ASSUME UNCHANGED terms, creating' \subseteq creating PROVE CreatingIsFree'
  BY <1>2 DEF CreatingIsFree
<1>3. \/ creating' \subseteq creating
      \/ \E o \in Orders, t \in OrderTerms : CreateOrder(o, t)
  <2>1. ASSUME NEW c \in Calls, RegisterStep(c) \/ RegisterError(c)
        PROVE  UNCHANGED creating
    BY <2>1 DEF RegisterStep, RegisterSelect, RegisterProcessing, RegisterCharge,
                RegisterReread, RegisterSave, RegisterCancel, RegisterError
  <2>2. ASSUME NEW h \in Hooks, WebhookStep(h) \/ WebhookError(h)
        PROVE  UNCHANGED creating
    BY <2>2 DEF WebhookStep, WebhookRead, WebhookSelect, WebhookCanceled, WebhookPayed,
                WebhookWithdraw, WebhookAccrue, WebhookEnqueue, WebhookError
  <2>3. ASSUME NEW j \in Jobs, JobStep(j) \/ JobError(j)
        PROVE  UNCHANGED creating
    BY <2>3 DEF JobStep, JobRead, JobSelect, JobReject, JobCommand, JobVerify,
                JobRefundCheck, JobRefund, JobRecord, JobComplete, JobFail, JobError
  <2> QED BY <2>1, <2>2, <2>3
          DEF Next, vars, EnqueueFree, EnqueueFreeFails, RegisterRead, PaymentResolves,
              Deliver, EditRead, EditSelect, EditSave, Crash
<1> QED BY <1>1, <1>2, <1>3, TermsFrame

\* A step makes at most one payment.
LEMMA MadeNext ==
    ASSUME TypeOK, IsFiniteSet(MadePayments), [Next]_vars
    PROVE  IsFiniteSet(MadePayments)'
<1>p. \A p \in Payments : payment[p] \in Payment
  BY DEF TypeOK
<1>0. ASSUME \A p \in Payments : payment'[p].state # "unused" => payment[p].state # "unused"
      PROVE  IsFiniteSet(MadePayments)'
  <2>1. PICK M, N : M = MadePayments /\ N = MadePayments'
    OBVIOUS
  <2>2. N \in SUBSET M
    BY <1>0, <2>1 DEF MadePayments
  <2> QED BY <2>1, <2>2, FS_Subset
<1>1. ASSUME NEW c \in Calls, RegisterCharge(c) PROVE IsFiniteSet(MadePayments)'
  <2>1. CASE payment' = payment
    BY <1>0, <2>1
  <2>2. ASSUME NEW p \in Payments, \A q \in Payments \ {p} : payment'[q] = payment[q]
        PROVE  IsFiniteSet(MadePayments)'
    <3>1. PICK M, N : M = MadePayments /\ N = MadePayments'
      OBVIOUS
    <3>2. N \in SUBSET (M \cup {p})
      BY <2>2, <3>1 DEF MadePayments
    <3>3. IsFiniteSet(M \cup {p})
      BY <3>1, FS_AddElement
    <3> QED BY <3>1, <3>2, <3>3, FS_Subset
  <2>3. \/ payment' = payment
        \/ \E p \in Payments : \A q \in Payments \ {p} : payment'[q] = payment[q]
    BY <1>1 DEF TypeOK, RegisterCharge
  <2> QED BY <2>1, <2>2, <2>3
<1>2. ASSUME NEW q \in Payments, PaymentResolves(q) PROVE IsFiniteSet(MadePayments)'
  <2>1. \A p \in Payments : payment'[p].state # "unused" => payment[p].state # "unused"
    BY <1>2, <1>p DEF TypeOK, Payment, PaymentResolves
  <2> QED BY <1>0, <2>1
<1>3. ASSUME NEW h \in Hooks, WebhookCanceled(h) \/ WebhookEnqueue(h)
      PROVE  IsFiniteSet(MadePayments)'
  <2>1. payment' = [payment EXCEPT ![hook[h].pay].acked = TRUE]
    BY <1>3 DEF WebhookCanceled, WebhookEnqueue, Acknowledge
  <2>2. \A p \in Payments : payment'[p].state = payment[p].state
    BY <1>p, <2>1 DEF TypeOK, Payment
  <2> QED BY <1>0, <2>2
<1>4. ASSUME NEW j \in Jobs, JobRefund(j) PROVE IsFiniteSet(MadePayments)'
  <2>1. payment' = payment \/ payment' = [payment EXCEPT ![job[j].pay].refunds = @ + 1]
    BY <1>4 DEF JobRefund
  <2>2. \A p \in Payments : payment'[p].state = payment[p].state
    BY <1>p, <2>1 DEF TypeOK, Payment
  <2> QED BY <1>0, <2>2
<1>5. CASE UNCHANGED payment
  BY <1>0, <1>5
<1> QED BY <1>1, <1>2, <1>3, <1>4, <1>5, PaymentFrame

\* But for the job a notice adds, every job goes on, ends or serves a free order.
LEMMA JobsGoOn ==
    ASSUME IInv, NoPaidEdits, CreatingIsFree, [Next]_vars
    PROVE  \/ \E h \in Hooks : WebhookEnqueue(h)
           \/ \A j \in Jobs : job'[j].pc = "unused" \/ ~Working(j)' \/ GoesOn(j)
<1>t. TypeOK
  BY DEF IInv
<1>s. ASSUME NEW j \in Jobs, job'[j] = job[j]
      PROVE  job'[j].pc = "unused" \/ GoesOn(j)
  BY <1>s, <1>t, JobTyped DEF GoesOn, Begun
<1>1. CASE UNCHANGED job
  BY <1>1, <1>s
<1>2. ASSUME NEW o \in Orders, EnqueueFree(o)
      PROVE  \A j \in Jobs : job'[j].pc = "unused" \/ ~Working(j)' \/ GoesOn(j)
  <2>1. PICK k \in Jobs : job' = [job EXCEPT ![k] = Queued(o)]
    BY <1>2 DEF EnqueueFree, AddJob
  <2>2. \A i \in Jobs \ {k} : job'[i] = job[i]
    BY <1>t, <2>1 DEF TypeOK
  <2>3. job'[k].order = o
    BY <1>t, <2>1 DEF TypeOK, Queued, NoJob
  <2>4. terms'[o].free
    BY <1>2 DEF EnqueueFree, CreatingIsFree
  <2> QED BY <1>s, <2>2, <2>3, <2>4 DEF Working
<1>3. ASSUME NEW k \in Jobs, JobStep(k) \/ JobError(k)
      PROVE  \A j \in Jobs : job'[j].pc = "unused" \/ ~Working(j)' \/ GoesOn(j)
  <2>1. /\ job'[k].pc = "unused" \/ GoesOn(k)
        /\ \A i \in Jobs \ {k} : job'[i] = job[i]
    BY <1>t, <1>3, JobGoesOn
  <2> QED BY <1>s, <2>1
<1>4. CASE Crash
  BY <1>t, <1>4, CrashGoesOn
<1> QED BY <1>1, <1>2, <1>3, <1>4, JobFrame

LEMMA TracedNext ==
    ASSUME IInv, NoPaidEdits, JobsLimited, CreatingIsFree, [Next]_vars,
           NEW S \in SUBSET Notices, NEW d \in [Hooks -> (Payments \cup {None}) \X Nat],
           NEW e \in [Jobs -> (Payments \cup {None}) \X Nat], Traced(S, d, e)
    PROVE  \E S2 \in SUBSET Notices, d2 \in [Hooks -> (Payments \cup {None}) \X Nat],
              e2 \in [Jobs -> (Payments \cup {None}) \X Nat] : Traced(S2, d2, e2)'
<1>1. Delivered(S, d)
  BY DEF Traced
<1>2. PICK S2 \in SUBSET Notices, d2 \in [Hooks -> (Payments \cup {None}) \X Nat] :
          Delivered(S2, d2)' /\ Follows(S, d, S2, d2)
  BY <1>1, NoticesMove
<1>3. ASSUME NEW h \in Hooks, WebhookEnqueue(h)
      PROVE  \E e2 \in [Jobs -> (Payments \cup {None}) \X Nat] : Traced(S2, d2, e2)'
  BY <1>2, <1>3, TracedNew
<1>4. CASE \A j \in Jobs : job'[j].pc = "unused" \/ ~Working(j)' \/ GoesOn(j)
  BY <1>2, <1>4, TracedKept
<1> QED BY <1>3, <1>4, JobsGoOn

LEMMA RepeatNext == IInv /\ NoPaidEdits /\ RepeatInv /\ [Next]_vars => RepeatInv'
<1> SUFFICES ASSUME IInv, NoPaidEdits, RepeatInv, [Next]_vars PROVE RepeatInv'
  OBVIOUS
<1>1. JobsLimited /\ CreatingIsFree /\ IsFiniteSet(MadePayments)
  BY DEF RepeatInv
<1>2. JobsLimited'
  BY <1>1, NextIInv, JobsLimitedNext
<1>3. CreatingIsFree'
  BY <1>1, CreatingNext
<1>4. IsFiniteSet(MadePayments)'
  BY <1>1, NextIInv, MadeNext
<1>5. PICK S \in SUBSET Notices, d \in [Hooks -> (Payments \cup {None}) \X Nat],
          e \in [Jobs -> (Payments \cup {None}) \X Nat] : Traced(S, d, e)
  BY DEF RepeatInv
<1>6. \E S2 \in SUBSET Notices, d2 \in [Hooks -> (Payments \cup {None}) \X Nat],
         e2 \in [Jobs -> (Payments \cup {None}) \X Nat] : Traced(S2, d2, e2)'
  BY <1>1, <1>5, TracedNext
<1> QED BY <1>2, <1>3, <1>4, <1>6 DEF RepeatInv

LEMMA RepeatInit == Init => RepeatInv
<1> SUFFICES ASSUME Init PROVE RepeatInv
  OBVIOUS
<1>1. /\ \A o \in Orders : effects[o].withdrawn = 0 /\ effects[o].accrued = 0
      /\ \A p \in Payments : payment[p].refunds = 0 /\ payment[p].state = "unused"
      /\ \A h \in Hooks : hook[h].pc = "idle"
      /\ \A j \in Jobs : job[j].pc = "unused"
      /\ creating = {}
  BY DEF Init, NoEffects, NoPayment, NoHook, NoJob
<1>2. Faults \in Nat
  BY DEF Init, Faults
<1>3. JobsLimited /\ CreatingIsFree
  BY <1>1 DEF JobsLimited, CreatingIsFree
<1>4. IsFiniteSet(MadePayments)
  <2>1. MadePayments = {}
    BY <1>1 DEF MadePayments
  <2> QED BY <2>1, FS_EmptySet
<1>5. PICK d, e : /\ d = [h \in Hooks |-> <<None, 0>>]
                  /\ e = [j \in Jobs |-> <<None, 0>>]
  OBVIOUS
<1>6. /\ d \in [Hooks -> (Payments \cup {None}) \X Nat]
      /\ e \in [Jobs -> (Payments \cup {None}) \X Nat]
  BY <1>5
<1>7. Delivered({}, d)
  BY <1>1, <1>2 DEF Delivered, Active
<1>8. Carried({}, d, e)
  BY <1>1 DEF Carried, Working
<1>9. \A o \in Orders : Booked({}, d, Drawing, o) /\ Booked({}, d, Accruing, o)
  BY FS_EmptySet DEF Booked
<1>10. \A p \in Payments : Asked({}, d, e, p)
  BY FS_EmptySet DEF Asked
<1>11. Traced({}, d, e)
  BY <1>1, <1>7, <1>8, <1>9, <1>10, FS_EmptySet DEF Traced
<1> QED BY <1>3, <1>4, <1>6, <1>11 DEF RepeatInv

\* There are as many numbered deliveries for o as NoticesOf allows.
LEMMA DeliveriesCounted ==
    ASSUME TypeOK, IsFiniteSet(MadePayments), NEW o
    PROVE  /\ IsFiniteSet(PaymentsOf(o) \X (0..Faults))
           /\ Cardinality(PaymentsOf(o) \X (0..Faults)) = NoticesOf(o)
           /\ NoticesOf(o) \in Nat
<1>1. Faults \in Nat /\ Faults = spent.duplicates + spent.errors + spent.crashes
  BY DEF TypeOK, Spent, Faults
<1>2. PaymentsOf(o) \in SUBSET MadePayments
  BY DEF PaymentsOf, MadePayments, Backed
<1>3. IsFiniteSet(PaymentsOf(o))
  BY <1>2, FS_Subset
<1>4. IsFiniteSet(0..Faults) /\ Cardinality(0..Faults) = 1 + Faults
  BY <1>1, FS_Interval
<1>5. /\ IsFiniteSet(PaymentsOf(o) \X (0..Faults))
      /\ Cardinality(PaymentsOf(o) \X (0..Faults)) = Cardinality(PaymentsOf(o)) * (1 + Faults)
  BY <1>3, <1>4, FS_Product
<1>6. 1 + Faults = 1 + spent.duplicates + spent.errors + spent.crashes
  BY <1>1 DEF TypeOK, Spent
<1>7. Cardinality(PaymentsOf(o)) * (1 + Faults) = NoticesOf(o)
  BY <1>6 DEF NoticesOf
<1>8. NoticesOf(o) \in Nat
  BY <1>5, <1>7, FS_CardinalityType
<1> QED BY <1>5, <1>7, <1>8

LEMMA BookingsCounted ==
    ASSUME TypeOK, IsFiniteSet(MadePayments), NEW S \in SUBSET Notices, NEW d,
           Delivered(S, d), NEW early, NEW o, NEW W \in SUBSET S, Booked(W, d, early, o)
    PROVE  Cardinality(W) <= NoticesOf(o)
<1>1. PICK D : D = PaymentsOf(o) \X (0..Faults)
  OBVIOUS
<1>2. W \in SUBSET D
  <2> SUFFICES ASSUME NEW t \in W PROVE t \in D
    OBVIOUS
  <2>1. t = <<t[1], t[2]>> /\ t[1] \in Payments /\ t[2] \in Nat
    BY DEF Notices
  <2>2. Backed(o, t[1])
    BY DEF Booked
  <2>3. t[2] <= Faults
    BY DEF Delivered
  <2>4. t[1] \in PaymentsOf(o)
    BY <2>1, <2>2 DEF PaymentsOf
  <2>5. t[2] \in 0..Faults
    BY <2>1, <2>3 DEF TypeOK, Spent, Faults
  <2> QED BY <1>1, <2>1, <2>4, <2>5
<1> QED BY <1>1, <1>2, DeliveriesCounted, FS_Subset

LEMMA RefundsCounted ==
    ASSUME TypeOK, IsFiniteSet(MadePayments), NEW S \in SUBSET Notices, NEW d, NEW e,
           Delivered(S, d), NEW p, NEW R \in SUBSET (S \X Nat), Asked(R, d, e, p)
    PROVE  Cardinality(R) <= NoticesOf(payment[p].order) * RunsOfAJob
<1>0. PICK o, n : o = payment[p].order /\ n = RunsOfAJob
  OBVIOUS
<1>n. n \in Nat
  BY <1>0, BoundsAssumption DEF RunsOfAJob, TypeOK, Spent
<1>1. PICK D, N : D = PaymentsOf(o) \X (0..Faults) /\ N = 0..(n - 1)
  OBVIOUS
<1>2. R \in SUBSET (D \X N)
  <2> SUFFICES ASSUME NEW u \in R PROVE u \in D \X N
    OBVIOUS
  <2>1. u = <<u[1], u[2]>> /\ u[1] \in S /\ u[2] \in Nat
    OBVIOUS
  <2>2. u[1] = <<u[1][1], u[1][2]>> /\ u[1][1] \in Payments /\ u[1][2] \in Nat
    BY <2>1 DEF Notices
  <2>3. Backed(o, u[1][1]) /\ u[2] < n
    BY <1>0 DEF Asked
  <2>4. u[1][2] <= Faults
    BY <2>1 DEF Delivered
  <2>5. u[1][1] \in PaymentsOf(o)
    BY <2>2, <2>3 DEF PaymentsOf
  <2>6. u[1][2] \in 0..Faults
    BY <2>2, <2>4 DEF TypeOK, Spent, Faults
  <2>7. u[1] \in D
    BY <1>1, <2>2, <2>5, <2>6
  <2>8. u[2] \in N
    BY <1>n, <1>1, <2>1, <2>3
  <2> QED BY <2>1, <2>7, <2>8
<1>3. IsFiniteSet(N) /\ Cardinality(N) = n
  BY <1>n, <1>1, FS_Interval
<1>4. IsFiniteSet(D) /\ Cardinality(D) = NoticesOf(o)
  BY <1>1, DeliveriesCounted
<1>5. IsFiniteSet(D \X N) /\ Cardinality(D \X N) = NoticesOf(o) * n
  BY <1>3, <1>4, FS_Product
<1>6. Cardinality(R) <= Cardinality(D \X N)
  BY <1>2, <1>5, FS_Subset
<1> QED BY <1>0, <1>5, <1>6

\* Whatever the number of faults, of payments of an order and of jobs: points,
\* cashback and refunds are repeated no more often than notices were repeated and
\* jobs run again.
THEOREM RepeatsCaused == ASSUME NoPaidEdits PROVE Spec => []RepeatsHaveACause
<1>1. ASSUME IInv, RepeatInv PROVE RepeatsHaveACause
  <2>1. TypeOK /\ IsFiniteSet(MadePayments)
    BY <1>1 DEF IInv, RepeatInv
  <2>2. PICK S \in SUBSET Notices, d \in [Hooks -> (Payments \cup {None}) \X Nat],
             e \in [Jobs -> (Payments \cup {None}) \X Nat] : Traced(S, d, e)
    BY <1>1 DEF RepeatInv
  <2>3. Delivered(S, d)
    BY <2>2 DEF Traced
  <2>4. ASSUME NEW o \in Orders
        PROVE  effects[o].withdrawn <= NoticesOf(o) /\ effects[o].accrued <= NoticesOf(o)
    <3>1. PICK W \in SUBSET S :
               Booked(W, d, Drawing, o) /\ Cardinality(W) = effects[o].withdrawn
      BY <2>2 DEF Traced
    <3>2. PICK A \in SUBSET S :
               Booked(A, d, Accruing, o) /\ Cardinality(A) = effects[o].accrued
      BY <2>2 DEF Traced
    <3>3. Cardinality(W) <= NoticesOf(o)
      BY <2>1, <2>3, <3>1, BookingsCounted
    <3>4. Cardinality(A) <= NoticesOf(o)
      BY <2>1, <2>3, <3>2, BookingsCounted
    <3> QED BY <3>1, <3>2, <3>3, <3>4
  <2>5. ASSUME NEW p \in Payments
        PROVE  payment[p].refunds <= NoticesOf(payment[p].order) * RunsOfAJob
    <3>1. PICK R \in SUBSET (S \X Nat) :
               Asked(R, d, e, p) /\ Cardinality(R) = payment[p].refunds
      BY <2>2 DEF Traced
    <3>2. Cardinality(R) <= NoticesOf(payment[p].order) * RunsOfAJob
      BY <2>1, <2>3, <3>1, RefundsCounted
    <3> QED BY <3>1, <3>2
  <2> QED BY <2>4, <2>5 DEF RepeatsHaveACause
<1>2. Init => IInv /\ RepeatInv
  BY InitIInv, RepeatInit
<1>3. IInv /\ RepeatInv /\ [Next]_vars => IInv' /\ RepeatInv'
  BY Inductive, RepeatNext
<1> QED BY <1>1, <1>2, <1>3, PTL DEF Spec

=============================================================================
