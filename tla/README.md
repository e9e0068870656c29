# ONVI mobile backend: verification project

The repository is the NestJS backend of a car-wash application: clients register
by SMS code, order a wash or a vacuum on a bay, pay through YooKassa, and a queued
job starts the bay. State is in an Oracle database (TypeORM), in Redis (BullMQ
queue, OTP defence keys), in S3 (blocked subnets) and in server memory (sockets,
fallback rate windows). Nothing runs in a database transaction: every handler is a
chain of awaited calls, and a row is read, changed in memory and written back whole.
That is what most of this project is about.

Contents: 1 inventory, 2 plan, 3 modules and code, 4 runs and bounds, 5 fairness,
6 proofs, 7 disagreements with the documentation, 8 what is not modelled.

Paths below are relative to `src/src/` of the repository unless they start otherwise.

## 1. Inventory

### Order flow — modelled (`OrderFlow`)
*State:* row `ONVI_ORDERS` (status, transaction id, terms); BullMQ queue
`pos-process`; the gateway's payments; the ledger (`CRDOPER`), refund records.
*Operations:* `CreateOrderUseCase`, `RegisterPaymentUseCase`,
`ProcessOrderWebhookUseCase`, `StartPosUseCase` (worker), `RefundPaymentUseCase`,
`UpdateOrderStatusUseCase`.
*Interaction:* the client creates and registers; the gateway calls the webhook until
it is answered 200; the webhook queues the job; the job commands the bay and, when
the start failed, refunds. All of them write the same row.
*Hard:* whole-row writes from stale snapshots; a check before an await; duplicated,
early and repeated notices; the queue's three attempts and its stalled jobs; a crash
between two effects; the refund inside a job that always ends with an exception.
*Correct when:* nothing is done for an unpaid order; a payed or completed row carries
a payment taken for it; only taken payments are refunded; effects repeat only when a
notice was repeated; a taken payment ends in a wash or a failed order.

### Bay verification — modelled (`BayStart`, `StartPromise`)
*State:* the job's cycle and ping counters; outside the code, the bay and the wash it
runs. *Operations:* `verifyBayAvailability`, the device ping, `send`,
`verifyCarWashStartedRecursive`, `performPingAttempts`.
*Hard:* a recursion of resends around a loop of pings; pings that fail are answers;
other customers use the bay between order and start.
*Correct when:* at most one command per cycle, and every job has an outcome.

### Sending one-time codes — modelled (`OtpSend`)
*State:* Redis keys `lock:otp:*`, `otp:cooldown:*`, `rl:*`; the in-memory windows that
stand in for them; rows of `PHONE_CODE`. *Operations:* `AuthUsecase.sendOtp`,
`OtpDefenseService`, `RateLimiterService`, `OtpRepository`.
*Hard:* four overlapping defences of which each fails open; a lock that expires under
its holder and is deleted by whoever is done; Redis going away between two steps;
delete and insert of the code as two calls.
*Correct when:* messages to a phone keep the cooldown; a window lets no more through
than its limit allows in the worst alignment; the last code sent is the one that works.
The ban of an address, which comes first, is `SubnetBlock`'s. Login only reads the row
of the code, so what it can do wrong is what `LatestCodeWorks` says of the rows.

### Order creation: promo codes, free vacuums — partly modelled (`CardBenefits`)
*State:* `PROMO_CODE_USAGE` rows, free vacuum orders of today, the card's limits and
its balance in the ledger. *Operations:* `ValidateOrderPromocodeUsecase`,
`PromoCodeService.applyPromoCode`, `CardService.getFreeVacuum`, `CreateOrderUseCase`.
*Hard:* checks on rows that other requests are about to add; a usage number computed
from a maximum that may be stale; the usage is recorded before the order is.
*Correct when:* a client uses a code no more often than it may, the numbers of a code
stay consecutive, no discount goes unrecorded, and a day has no more free vacuums than
the card's limit and its parallel orders explain.
*Left out:* the comparison of points with the balance in `Order.create`. The ledger is
a stored procedure outside the repository, and whether it refuses a second withdrawal
cannot be read here.

### Promotions — modelled (`CardBenefits`)
*State:* promotion usage, ledger, card type. *Operation:* `PromotionUsecase.apply`:
check, grant, record, in that order and with awaits between. *Correct when:* granted
once, and again only for requests that overlapped or failed.

### Accounts — modelled (`Account`)
*State:* `CRDCLIENT` and `CRDCARD` rows, the refresh token column, the old card's
rows. *Operations:* register (create or reactivate), login, settings, deletion,
`transfer` of an old card. *Hard:* client and card are two rows written one after the
other; the client a handler read is written back whole; ids are those of the newest
row; a transfer deletes the old card before it credits its balance.
*Correct when:* one client per phone; client and card agree; the last token answered
refreshes; a balance is credited once and debited as often as it is credited.

### Favourites and device data — modelled (`ClientData`)
*State:* rows of `ONVI_FAVORITES_CARWASH_TO_USER` and of the device data.
*Operations:* add and remove a favourite, `AccountMetaCreate`, `AccountMetaUpdate`.
*Hard:* a look before an insert with no unique constraint behind it; device data are
read, merged and written back whole; the request names the id and the client of the row.
*Correct when:* a row is there once but for overlaps, and a request that runs alone
loses nothing another one wrote.

### Subnet blocking and automatic ban — modelled (`SubnetBlock`)
*State:* the list in memory of each server, the object in S3, a Redis counter per
address. *Operations:* `reload` by timer, `registerOtpIpAndMaybeBan`, `persistToS3`,
`BlockSubnetGuard`. *Hard:* the list is replaced by a reload while a ban adds to it;
two servers write the whole object; INCR and EXPIRE are two calls.
*Correct when:* a lost ban costs no more than the counter allows, nobody is listed who
did not earn it, and all servers end up on the list that is stored. A ban itself is
*not* permanent: any of the above removes it, and the model lets it happen.

### Balance gateway — modelled (`BalanceGateway`)
*State:* `connectedClients`, `cardToSocketMap`. *Operations:* connect, disconnect,
`request_balance`, the balance webhook's broadcast, the cleanup by timer.
*Hard:* a broadcast copies the socket list, awaits the balance, then emits; a message
waits for its guard while its socket closes. *Correct when:* the maps agree, the last
balance shown is the last one there was, and closed sockets are forgotten.

### Not to be modelled
Read-only endpoints, direct payments (`payment.controller.ts`, which keeps no state),
token checks, the disabled throttler, health checks and chat notices, geocoding,
HTTP plumbing and logging, DTOs and module files, the reverse proxy and the
deployment. Reasons are in `PROJECT.json` and section 8.

Everything in this code that is hard to test is listed under `hazards` in
`PROJECT.json`, each at its line, with the properties that would catch it.

## 2. Plan

| order | module | composes | abstract specification | state |
|---|---|---|---|---|
| 1 | `OrderFlow` | all handlers of an order | — | done |
| 2 | `OrderFlow_proofs` | `OrderFlow` | — | types and all safety and action properties proved |
| 3 | `BayStart` | orders sharing a bay | `StartPromise` | done |
| 4 | `BayStart_proofs` | `BayStart`, `StartPromise` | `StartPromise` | types and the refinement proved |
| 5 | `OtpSend` | requests, Redis, memory, database | — | done |
| 6 | `OtpSend_proofs` | `OtpSend` | — | types and all three invariants proved |
| 7 | `CardBenefits` | promo codes, free vacuums, promotions of a card | — | done |
| 8 | `CardBenefits_proofs` | `CardBenefits` | — | all six properties proved |
| 9 | `Account` | registration, login, deletion, transfer | — | done |
| 10 | `Account_proofs` | `Account` | — | all five properties proved |
| 11 | `ClientData` | favourites, device data | — | done |
| 12 | `ClientData_proofs` | `ClientData` | — | all three properties proved |
| 13 | `SubnetBlock` | servers, S3, Redis and an operator | — | done |
| 14 | `SubnetBlock_proofs` | `SubnetBlock` | — | all safety properties proved |
| 15 | `BalanceGateway` | sockets and the balance webhook | — | done |
| 16 | `BalanceGateway_proofs` | `BalanceGateway` | — | all safety properties proved |

Every safety and action property that a passing run checks is now a theorem as well.
What could still be added are more of the environment (a ledger that refuses a
withdrawal, if its procedure were known) and proofs with weaker assumptions: `InTime`
and `NoPaidEdits` in section 6.

## 3. Modules and code

**`OrderFlow`.** One action per await-free piece of a handler; `pc` fields say where a
request, notice or job stands, and `snap` is the entity object it holds, because
`OrderRepository.update` writes that whole object (`Save`).

| code | actions |
|---|---|
| `create-order.use-case.ts` | `CreateOrder`; for a free vacuum `EnqueueFree` / `EnqueueFreeFails` |
| `register-payment.use-case.ts` | `RegisterRead` (the CREATED check), `RegisterProcessing`, `RegisterCharge`, `RegisterReread`, `RegisterSave`, `RegisterCancel` (the catch), `RegisterError` |
| `payment-webhook.controller.ts`, `process-order-webhook.use-case.ts` | `Deliver`, `WebhookRead`, `WebhookCanceled`, `WebhookPayed`, `WebhookWithdraw`, `WebhookAccrue`, `WebhookEnqueue`, `WebhookError` |
| `start-pos.process.ts`, `start-pos.use-case.ts` | `JobRead`, `JobReject`, `JobCommand`, `JobVerify`, `JobComplete`, `JobFail`, `JobError` |
| `refund-payment.use-case.ts` | `JobRefundCheck`, `JobRefund`, `JobRecord` |
| `update-order-status.use-case.ts` | `EditRead`, `EditSave` |
| BullMQ and process | `AttemptFailed` (three attempts, then dropped), `Stalled`, `Crash` |

Things worth knowing when comparing it with the code: every webhook event except
`payment.canceled` takes the PAYED branch; the catch of `RegisterPaymentUseCase`
writes back the *first* snapshot; nothing merges jobs of one order; `ping` and `send`
never throw; after a refund `StartPosUseCase` throws in any case and its catch writes
FAILED, so every refund is followed by a queue retry, which `Startable` then rejects.
`JobVerify` is one step per verification cycle; the pings behind it are `BayStart`'s.
A TypeORM `save` counts as one atomic write of the row. Sums, promo codes and bay
numbers are left out: no handler decides anything on them after creation.

**`StartPromise`** states what `OrderFlow` assumes of a job: a command, at most
`MaxCycles - 1` repetitions, an outcome. **`BayStart`** has the pings, resends and
cycles, a bay that acts on a command or not, walk-up customers and lost requests, and
implements `StartPromise` under the mapping `Promise`.

**`OtpSend`** cuts `AuthUsecase.sendOtp` at its awaits: `AcquireLock`, `InCooldown`,
`LastSentAt`, `CheckLimit` (once per limit, in the order the server checks them),
`RemoveOne`, `CreateRow`, `Send`, `SetCooldown`, `ReleaseLock`, and `RequestError` for
the catch. `Tick` lets time pass and drops keys and windows that are over;
`RedisChanges` is an outage; `Restart` empties the memory windows. `Increment` is both
the Lua script and `checkMemory`. Settings are constants: `Settings` is the set of
limit lists a server may run with. `Dated` says whether the table fills `CREATE_DATE`,
which `toOtpEntity` does not set. A limit has a positive length and allows at least one
request (`SettingsAssumption`), as the defaults do.
The configured Redis being absent and failing look alike to this code and are one
value. Codes are numbered in the order they are drawn; expiry of a code (a day) is
beyond the horizon. The address ban ahead of the lock only refuses requests and is a
module of its own, `SubnetBlock`.

**`CardBenefits`** has three benefits of one card side by side, because one client's
request may be for any of them: `Validate`, `ValidateUsage`, `CreateDiscounted`,
`ReadUsage`, `RecordUsage`, `SaveDiscounted` for a promo code; `CreateFree`,
`CountVacuums`, `SaveFree`, `ServeFree`, `Midnight` for free vacuums; `Apply`,
`CheckUnused`, `Grant`, `Mark` for a promotion. `Expire` withdraws the code at any
time. A client is assumed to validate a code before each order, as the application
does; order creation itself never validates it (section 7). `Parallel` bounds the
free orders a card has under way, which the code does not: it is what `VacuumsBounded`
is measured against.

**`Account`** has the rows a phone number may own, each client with its card, and the
old programme's card. `Save` writes every client column from the handler's snapshot, as
`ClientRepository.update` does; the card is a row of its own and is not touched by it.
`Found` is the client inserted last, as `findOneByPhone` sorts by `INS_DATE`. The phone
column is taken to hold the number with its plus sign, as the root `README.md` shows
it. A client whose card is missing makes `getCard()` fail, which refuses registration
and breaks the answer of a login. `RegisterRead` to `Answer` are `AuthUsecase.register`
and `login`; `UpdateRead`/`Update`, `DeleteRead` to `DeleteCard` are the account
endpoints; `TransferRead` to `BindCode` is `AccountTransferUseCase`. Whether a code of
an SMS is right is left to `OtpSend`.

**`ClientData`** has a read and a write for each operation: `AddFavourite` (the look) and
`SaveFavourite`, `RemoveFavourite` (one DELETE), `CreateRead` and `Create`, `UpdateRead`
and `Update`. `Merged` is `AccountMetaUpdate` filling what a request leaves out from the
row it read. `moves` counts updates that gave a row to another client, which the body of
a request may ask for. An id that no row has is left to the database.

**`SubnetBlock`** cuts a request at INCR, EXPIRE and PUT (`Arrive`, `Incr`, `Expire`,
`Put`, `CallFails`); each server loads the list by timer (`StartLoad`, `ApplyLoad`,
`LoadFails`) and may stop (`Restart`); an operator writes the object (`Edit`) and a
counter's 900 seconds pass (`Lapse`). `Banning` is what the threshold does: the address
joins the list of *this* server, the list is switched on, and this list is what is
written. `Denied` is the guard. Simplifications: the guard and the look at the list
before INCR are one step; two loads of one server do not overlap; a PUT of a process
that has stopped does not land after its successor started; the ban is switched on and
Redis configured, because without either a request that passes the guard just goes on.

**`BalanceGateway`** has a socket's `Connect` and `Disconnect`; a message as
`RequestBalance`, `HandleMessage` (what follows its guard), `ReadBalance`, `Answer`,
`ReadFails`; the webhook as `HandleBalanceUpdate` (which copies the list of sockets),
`ReadForBroadcast`, `EmitBroadcast`, `BroadcastFails`; and `CleanupStaleConnections`,
`Restart`, `Change`. `Associate`, `Remove` and `Emit` are the helpers of the same kind
in the code. `guarded` is chosen at the start and covers two programs: as committed the
guard of `request_balance` is commented out and nothing else puts a user into the
handshake, so no socket ever has a card; with it the maps fill. `excuse` records why a
socket may show an older balance.

**`MC...`** modules add the constants that need a definition, and symmetry.

## 4. Runs

Each run stays within what is needed to make its question bite; a fault bound of one
already reaches every line of the error handling, at every point of every handler.

| run | question | bounds |
|---|---|---|
| `order_once` | Do effects happen once, statuses follow the documented flow, and taken payments settle, when every message arrives once? | 2 orders (free or paid, with points and cashback), 2 payments, 2 webhook requests, 2 jobs, 3 cycles, 3 attempts, no faults: 34,589 states. Both orders compete for queue slots and the registration. |
| `order_faults` | What is left of that with a crash, a failing call and a duplicated notice? | 1 order, all three faults once each, 2 webhook requests so that a duplicate runs beside its original, 2 jobs, 2 attempts: 194,539 states |
| `order_race` | Do stale snapshots break the link of row and payment? | 1 order, 2 registrations, 2 payments, 2 notices, 2 jobs, 1 status edit that cancels or reopens, answers without confirmation: 754,809 states |
| `order_canceled` | violation, section 7 | 1 of everything, no faults |
| `bay_faults` | Do pings and resends implement the promise, and does every job end? | 2 orders on a bay, 3 cycles (as the code), 3 pings (code: 5; only the first, a middle and the last differ), lost requests, walk-ups: 18,870 states |
| `bay_lost` | violation, section 7 | 1 order, 3 cycles, 5 pings |
| `otp_faults` | Do the defences hold, with Redis and without, with an outage, a restart or a failing call at any step? | 1 phone, 2 concurrent requests of 3, lock 2 ticks, cooldown 3, clock to 5, 1 fault; limits of one per window with a global limit, or two per window: 1,136,194 states. A tick stands for about half the cooldown, so a window can close between two requests and a lock can expire while Redis keeps the cooldown. |
| `card_races` | Do limits survive overlapping requests, failing calls and a crash? All of it is proved as well; the run checks the statements before the proofs. | 2 clients of a card, 2 uses of the code, 1 free vacuum a day, 2 vacuum orders under way, 1 failing call, 1 crash: about 569,000 states. Two clients are enough for every overlap of a check with a use; two uses tell a stale number from a current one. |
| `account_races` | Do client, card, token and balance stay together through register, login, update, delete and transfer? | 2 overlapping requests, 3 client rows, 3 tokens, 2 promo codes, 2 overlaps, 1 failing call, 1 crash: 516,278 states. Enough for a registration beside a registration, and a deletion, a reactivation and a transfer after it. |
| `client_data_races` | Do rows stay single, and do updates keep what others wrote? | 2 clients, 1 car wash, 3 requests under way, 2 rows, 3 values, 2 overlaps: 43,740 states. Two clients and two rows are enough for a row to change hands beside a creation. |
| `subnet_races` | What can an address get past the threshold, who is listed, where do servers end up? | 2 servers, 2 requests under way of 4, 2 addresses of which the guard does not recognise one, a wider subnet, threshold 2, 1 edit or fault, with and without S3: about 829,000 states. Four requests are two lives of a counter at this threshold; two servers are enough for each overwrite of one list by the other. |
| `balance_races` | Do the maps agree, is the newest balance shown, are closed sockets forgotten? | 2 sockets, 2 cards, 1 message under way of 2, 2 broadcasts, 2 changes, 1 fault or change of card, with and without the guard: about 377,000 states. Two broadcasts of two changes, or one beside an answer, show every order of read and emit. |

What the properties say:

- `OncePerOrder`, `RefundEndsService`, `FollowsFlow`: each effect once, no command
  after a refund although the queue repeats the job, no status left the documented
  flow. They hold only for messages delivered once; `RepeatsHaveACause` says how far
  they degrade otherwise. Points are withdrawn and cashback is accrued at most once per
  delivery of a notice (`NoticesOf`), and a payment has one delivery, and one more for
  each duplicate, error and crash. The bound is per payment of the order: one crash
  leaves the notices of all its payments unanswered, so all are repeated. A refund is
  recorded after it is made, and the record is what the next attempt looks at, so a
  refund may be asked for in every run of a job (`RunsOfAJob`: its attempts, and once
  more per stall), and every delivery may have added a job.
- `NothingDoneUnpaid`, `PaidRowsAreBacked`, `RefundsAreBacked`,
  `CompletedWasCommanded`: money and service stay tied to a payment taken for the same
  order under every interleaving, crash and fault; also proved.
- `OrdersAreSettled` (taken payments and free orders), `PaidIsSettled`: the order ends
  completed or failed. `PaidIsSettled` excludes one case, named `DuplicateMayBeLost`: a
  duplicate that is running when the original was answered writes PAYED again and then
  fails; nobody repeats it.
- `KeepsThePromise`, `EveryJobEnds`: the refinement, and termination of the recursion
  even if the bay stays free for ever.
- `SpacedTexts`: one message per cooldown, less the time a request may take between
  check and message (`Patience`), plus one each time Redis goes or comes. Either Redis is
  there all the time, and lock and cooldown do it; if rows have no date, this needs that
  no request stopped between its message and its cooldown, which then nothing records.
  Or rows have a date and the phone has a limit of one, and these two do it, with
  Redis or without, through restarts and outages. With neither the code promises nothing.
- `RateBounded`: a window that opens with its first request lets `2 * limit - 1`
  through in a period of its length, and as many again each time the count moves between
  Redis and memory. A restart loses what memory counted, so there is none while memory
  counts.
- `LatestCodeWorks`: overlapping requests never leave the phone with only an older
  code, or with two. The last code sent is the one stored, unless a later request has
  deleted it; then at most this request's own is there. It needs that the lock outlives a
  request, as `Patience` has it here, or that memory allows one request per window.
- `UsageBounded`: a client that validates before each order never uses a code more than
  `UsageAmount` times, whatever others do meanwhile; `NumbersHaveNoGap`: numbers taken
  from a stale maximum may repeat and never skip; `DiscountsAreRecorded`: every
  discounted order has a usage row, whatever fails between the two.
- `VacuumsBounded`, `GrantsBounded`: the checks come before the uses, so limits are
  exceeded; by how much is bounded by the orders under way, and by the overlapping
  requests, crashes and failures.
- `OneAccount`, `HalfAccountsHaveACause`: a phone has one client, and a client has its
  card; each overlap or failure costs at most one.
- `WholeUndisturbed`: without disturbances an account at rest is open or closed as a
  whole (`ClientAndCardAgree`), and the token answered last is the one stored
  (`TokenWorks`). Both fail with one overlap, because a settings update writes back the
  columns it read.
- `OldBalanceIsSafe`: an old balance is credited at most once per request that was
  transferring it at once, lost only to a disturbance, and debits and bound promo codes
  keep step with credits.
- `OneRowEach`: a favourite and a client's device data are one row, and one more for each
  request that ran beside another; an update may also hand a client a row of another.
  `UpdatesKept`: alone, an update keeps every field it was not given.
- `PassesBounded`: bans are overwritten by another server, replaced by an older object or
  lost in a restart; what holds all the same is the counter. Out of each life of it an
  address gets fewer codes than the threshold, and one more for each call that fails,
  since failures let requests through.
- `BansAreEarned`: no list, in memory, stored or on its way, holds an address that no
  operator listed and that did not ask often enough within 900 seconds, unless EXPIRE was
  lost after INCR: that counter lives for ever, and requests of any two days add up.
- `ServersConverge`: when edits, requests and faults end, every server works on the list
  that is stored.
- `MapsAgree`: a socket with a card is in that card's list, and one in a list has the
  card; only an account that got another card while connected stays in two lists.
  `StaleIsForgotten`: a socket that closed while its message waited for the guard is put
  back by the handler, and the cleanup removes it for good.
- `LatestShown`: when nothing is under way, an open socket with a card shows the present
  balance, whatever changed between the copy of the list, the read and the emit; it
  excepts only failed reads and emits, a newer balance overtaken by an older one, and
  changes of card.

Every property has a mutant in `PROJECT.json`: a plausible bug of the code (a dropped
guard, an off-by-one, a lost acknowledgement) under which its run fails. The mutated
definitions stand beside the ones they replace, marked "Mutant".

Deadlock is not checked: in each of these modules a state in which all requests were
answered, nothing is queued and the bounds are used up is a proper end.

## 5. Fairness

- `OrderFlow!FairSpec`: weak fairness of each registration, webhook and job step and
  of queueing a free order — a promise that is awaited resolves or rejects, and the
  worker takes waiting jobs (BullMQ, concurrency 5, exponential backoff); a job's
  bounded attempts are in the model. Weak fairness of delivering each resolved
  payment's notice: the gateway repeats it until it is answered with 200, and the
  controller answers anything else with an error status. No fairness for clients,
  for the gateway to resolve a payment, for duplicates, for the bay or for faults.
- `BayStart!FairSpec`: weak fairness of the job's steps only; the bay owes nothing.
- `SubnetBlock!Spec`: weak fairness of starting and applying a load, for each server: the
  timer of a process that runs keeps firing, and a call to S3 returns (a call that fails
  is `LoadFails`, which the fault bound limits). `ServersConverge` needs nothing else, and
  says nothing when there is no S3 or no object.
- `BalanceGateway!Spec`: weak fairness of the cleanup, an interval set when the module
  starts. Messages and broadcasts may wait for ever.
- `OtpSend`, `CardBenefits`, `Account` and `ClientData` state safety only: nothing in them
  waits for anything but its own awaited calls.

## 6. Proofs (checked by TLAPS)

### `OrderFlow_proofs`

For any sets of orders, requests, payments, notices and jobs, and any number of
crashes, failing calls, duplicates and edits:

1. `TypeInit`, `WellFormedNext`, `TypeCorrect`: `Spec => []TypeOK`. `TypeOK` is not
   inductive alone: a handler under way must know its order and payment
   (`HandlersKnowTheirOrder`), or a null id would index a row.
2. `Inductive`: `IInv /\ NoPaidEdits /\ [Next]_vars => IInv'`. The safety invariants are
   not inductive because handlers write back what they once read. `IInv` therefore
   speaks of the snapshots: every row *and every snapshot that may be written back*
   carries only transactions of its own order (`TransactionsAreOwned`); a webhook past
   its look-up holds the order its payment was made for and an event that is the
   payment's final state (`HooksMatchPayments`); a job past its status check holds a
   snapshot with a taken payment and has commanded before it verifies
   (`JobsAreBacked`); nothing refers to an order not created yet (`AbsentIsUntouched`).
   A payment never leaves its final state, so what a snapshot says of it stays true
   however old the snapshot is: that is the argument.
3. `PaidRowsBacked`, `NothingUnpaid`, `RefundsBacked`, `CompletedCommanded`:
   `Spec => []...` for the four invariants, from `Inductive` and `InitIInv`.

4. `ServedOnce`, `StatusesFollowFlow`, `RefundedIsOver`: `OncePerOrder`, `FollowsFlow`
   and `RefundEndsService`, for any number of orders, as long as nothing fails, nothing
   is repeated or edited and no two requests register one order at a time
   (`[]Undisturbed`). The run has these conditions in its bounds; here they are a
   hypothesis, so that the bounds stay free. `FlowInv` says that each handler has its
   order to itself: an order has one payment, which its row names or is about to
   (`PaymentFits`); the status says how far this payment is (`RowFits`); a notice or a
   job finds, at each of its steps, the status and the effects that this step expects
   (`HookFits`, `JobFits`, `EffectsFit`), although nothing in the code locks the row.
5. `RepeatsCaused`: `RepeatsHaveACause`, with faults of any number. Effects cannot be
   counted by faults directly, since a fault and its repetition are steps of different
   actors. `RepeatInv` gives every delivery of a notice a number up to the faults so far,
   which no other delivery of the notice has, as a repetition needs a fault that left the
   notice unanswered. It charges each withdrawal and each accrual to a delivery of its
   own (`Booked`), each job to the delivery that queued it (`Carried`), and each refund
   to a run of such a job (`Asked`). Counting pairs of payment and number, and of
   delivery and run, then gives the bounds (`DeliveriesCounted`).

The layout: frame lemmas say once which actions change a variable; then one lemma per
conjunct of `IInv` (`OwnedNext`, `HooksNext`, `JobsNext`, `AbsentNext`, `PaidRowsNext`,
`NothingNext`, `RefundsNext`, `CompletedNext`), each split by those actions.

Assumptions: the named ASSUMEs of `OrderFlow` (a null id that is no order, bounds that
are numbers), and `NoPaidEdits`: the status endpoint is not used to write payed or
completed by hand. It is needed — `POST /order/status/:id` accepts every status, and
writing `payed` over an unpaid row is all it takes. `ServedOnce`, `StatusesFollowFlow` and
`RefundedIsOver` also assume `ConfirmationAlways`: an answer of the gateway without a
confirmation URL cancels an order that is being paid (section 7).

### `OtpSend_proofs`

For any phones, addresses and requests, any lists of limits, any times, and any number
of errors, restarts and outages:

- `TypeCorrect`, with `Basics`: a request is never older than `Patience`, and a window
  that is stored has not ended and has counted somebody.
- `LastCodeWorks` (`LatestCodeWorks`). One request at a time is between removing the old
  code and sending the new one: by the lock, whose key lives at least `LockTtl` from its
  holder's start (`LockInv`), or by a window of one in memory (`WindowInv`). `CodesInv`
  follows such a request through removal, insertion and message.
- `MessagesSpaced` (`SpacedTexts`), two arguments for its two conditions. With Redis,
  `SpacedInv`: after a message something is there for the next request to find, the
  row's date or the cooldown or the request about to set it, and nobody is past it
  without having found it. With a limit of one and dates, `SlackInv`: the messages of a
  period and the requests that the limit let through and that may still send are
  together at most one and the outages. When they are as many, a row young enough holds
  the next request back, or one of these requests is about to write it
  (`Evident`), and the limit is used up for the rest of the period, or a restart
  has ended all requests and each new one has to pass the date first (`Barred`). An
  outage may swap a used up limit for a fresh one, and raises the bound by one itself.
- `RatesHold` (`RateBounded`). Each request that a limit lets through gets a ticket: the
  store that counted it, the opening of the window and its number there. Tickets of one
  store differ and their windows do not overlap (`Fits`); the request with number one
  sends within `Patience` of the opening. A period of a window's length, less
  `Patience`, then sees messages of two windows at most, and when it sees two, number
  one of the earlier was sent before it (`TicketsOfPeriod`): `2 * limit - 1` for each
  store. Only an outage brings a second store in (`Valid`).

`LastCodeWorks` and `MessagesSpaced` assume `InTime`: a request takes less time than the
lock and the cooldown live. Five and sixty seconds are ample for a request, but nothing
ends one that is slower, see section 7. `TypeCorrect` and `RatesHold` need no such
assumption.

### `CardBenefits_proofs`

For any finite set of clients, any limits, and any number of errors and crashes, all six
properties of `card_races` (`TypeCorrect`, `CodeUsesBounded`, `CodeNumbersHaveNoGap`,
`EveryDiscountRecorded`, `FreeVacuumsBounded`, `PromotionGrantsBounded`), from one
inductive invariant (`Inductive`). None is inductive alone:

- `UsageBounded` needs that the number of a client's own rows is at most the highest
  number of the code, and at most the number the client has read; a number below the
  limit, once validated, then bounds the rows. The argument does not need the read
  number to be current.
- `NumbersHaveNoGap` needs that a number that was read is the number of a row, which is
  never removed.
- `DiscountsAreRecorded` needs that discounts and requests about to save an order are
  together at most the rows.
- `VacuumsBounded` needs that completed orders and those that passed their count hold a
  place among `VacuumLimit + Parallel`.
- `GrantsBounded` needs to count the grants not marked yet.

The assumptions are the two ASSUMEs of `CardBenefits`.

### `BayStart_proofs`

For any orders, cycles, pings and whatever is lost: `TypeCorrect`, and
`ImplementsThePromise`, the refinement `Spec => StartPromise` under the mapping of
`BayStart`. A resend must be a step of the promise, which allows `MaxCycles` commands in
all, and the types alone do not bound the commands by the cycles. The invariant
`StartInv` adds `Paced`: a verifying job has sent one command per cycle begun, and one
about to send again has a cycle left. Liveness is not part of the refinement.

### `Account_proofs`

For any finite set of requests and any bounds:

- `TypeCorrect`, with `Typed`: no request holds a token that was not signed.
- `HalfAccountsExplained`. `HalfInv`: each registration between its two inserts has a
  client without a card of its own, requests that write a card know it is there, ids are
  consecutive; clients without a card are then counted by those registrations and by the
  errors and crashes that ended one.
- `WholeWhenUndisturbed`. `WholeInv` speaks of states without disturbances: one client
  at most, one request at a time, and each request is `Apt` for its step (what it read
  is still what is stored); between requests the account is `Settled`. It needs the
  whole of the handlers because every one of them writes the same columns back.
- `OneClientPerPhone` (`OneAccount`). `AccountsInv`: clients, registrations about to
  insert one, and one in reserve, are at most one and the disturbances. The reserve is
  for an account that a disturbance left neither open nor closed, so that the next
  registration may miss it and insert another client: without disturbances the account
  is quiet or in the hands of the one request that will leave it quiet (`Tame`), and
  a disturbance that spoils this pays for the client that may come of it.
- `OldBalanceKept`. `BalanceInv`: while the old card is not deleted nothing was credited
  and nobody is past its deletion; afterwards credits and requests before their credit
  are together at most `Requests`; debits, with those about to be made, never exceed
  credits, and fall short of them only by faults that ended a transfer in between, and so
  do the codes bound. `Lossless` keeps an uncredited balance
  in the hands of a request.

### `ClientData_proofs`

For any clients, car washes and requests: `TypeCorrect`; `NothingLostAlone`, from
`KeptInv` (without overlaps one request is under way, and the row an update holds is the
stored one merged with what it was given); `RowsBounded`, from `RowsInv`: requests that
found nothing and have not inserted yet count as rows, since they will be.

### `SubnetBlock_proofs`

For any servers, addresses, ranges, threshold and operator:

- `QuotaHolds`: `Quota` adds to the requests let through those that still may pass in
  the counter's life (`Left`) and the one between INCR and EXPIRE (`Due`); this needs
  that only the first request of a counter waits for EXPIRE (`ExpiringOnce`).
- `BansHaveAReason`: `Recent` says that a counter holds requests of the last 900 seconds
  only, or will be dated, or its EXPIRE was lost; a counter at the threshold is then a
  reason. `ListsAreFair` carries that through every copy of a list: memory, object, loads
  under way and requests about to write.

### `BalanceGateway_proofs`

For any sockets, cards, messages and broadcasts: `MapsStayTogether`, which needs
`NewIsUnknown` (no message, list or broadcast knows a socket before it connects), and
`RestShowsBalance`. `LatestShown` speaks of rest only; `GatewayInv` says what holds on
the way there: a live socket shows the present balance, *or* a webhook has not come in,
an answer or a broadcast that will read it, or has read it, is on its way to this socket
(`InformedAll`). It also needs that nothing on its way brings a live socket the balance of
another card, or one newer than there is (`Addressed`, `Directed`).

The assumptions of all of these are the named ASSUMEs of the modules: sets that are not
empty or finite, values that are no members of them, bounds that are numbers.

### Not proved

Only model-checked: liveness (`PaidIsSettled`, `OrdersAreSettled`, `EveryJobEnds`,
`ServersConverge`, `StaleIsForgotten`), which is out of the prover's reach. Not claimed
at all, because the code does not give it: `LatestCodeWorks` and `SpacedTexts` for requests
that outlive the lock or the cooldown, and anything of payment and service when the
status endpoint writes `payed` or `completed`.

## 7. Where code and documentation disagree

Two are runs expected to end in a violation:

- `order_canceled`: an answer of the gateway without a confirmation URL makes the
  registration throw after it saved; the catch cancels the order with a null
  transaction id while the payment goes on, and its notice then finds no order.
- `bay_lost`: "Verify carwash has actually started": a ping whose request fails is
  answered `Unavailable`, which is not `Free` and so counts as a start.

More was met while modelling and has no run, either because no single statement of a
document is refuted or because a glance at the code shows it:

- `src/OrderAPI.md` has REFUNDED as "Payment was refunded"; no line writes that status, a
  refunded order ends FAILED.
- "Per-phone lock – prevents concurrent OTP send for same number": the lock's five
  seconds run whether its holder is done or not, and a database call may wait 180 s.
  `LatestCodeWorks` therefore assumes a `Patience` shorter than the lock.
- `src/OrderAPI.md:200` says a promo code is validated and applied when an order is
  created. `CreateOrderUseCase` applies it; only the validation endpoint, which a client
  may skip, validates it. `UsageBounded` is therefore about clients that do.
- The list of personal promo codes compares the *sum* of a card's usage numbers with the
  allowed amount (`promo-code.repository.ts:146`), validation the *maximum* (`:110`): a
  code used twice of three times counts as used up in the list.
- The guard of `request_balance` is commented out (`balance.gateway.ts:208`), so no
  socket gets a card and no balance is pushed.
- `isIpInCidr` reads only dotted IPv4, so the guard lets an address of the form
  `::ffff:a.b.c.d` through whatever the list says; the ban's own look at the list still
  finds it (`Mapped` in `SubnetBlock`).
- An automatic ban switches the list on (`subnet-block-config.service.ts:84`), also one
  an operator had switched off.
- Device data are saved under the id the request names, over the row of another client.
- No line sets `CREATE_DATE` of a code or `DATE_ADDED` of a favourite; both can
  only come from a default of the database.

## 8. Not modelled, and why

Out of scope for good: endpoints that only read; pure input and output (geocoding, chat, health checks, SMS and gateway
clients except for the answers the code distinguishes); formatting, logging, filters
and interceptors; stateless token checks; the throttler, whose guards are commented
out; the reverse proxy and deployment scripts. `simulateRandomError` and test doubles
are not part of the program's behaviour.

Order creation is the one component that is only partly modelled: the comparison of points with the balance in `Order.create` is left out, since
the ledger that decides whether they can be withdrawn twice is a stored procedure outside
the repository. That is one of the two hazards without a property in `PROJECT.json`; the
other is a free order whose job cannot be queued, which stays `free_processing`: nothing
in the repository promises a recovery.
