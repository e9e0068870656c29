------------------------------ MODULE Account ------------------------------
(***************************************************************************)
(* The accounts of one phone number: registering, logging in, changing     *)
(* settings, deleting the account, registering again, and moving the       *)
(* balance of a card from the old programme to the account's card.         *)
(*                                                                         *)
(* Client and card are rows of two tables, written one after the other     *)
(* without a transaction.  A handler works on the client it read when it   *)
(* started and writes all of its columns back.                             *)
(*                                                                         *)
(* Whether the code of the SMS is right is OtpSend's matter: everybody     *)
(* here has one.  A client is found by CORRECT_PHONE.  Requests ask for    *)
(* the phone with its plus sign and Client.create drops that sign; the     *)
(* answers README.md shows have it again.  What the table keeps is decided *)
(* outside src/, so both are modelled: a database that restores the sign,  *)
(* and one that keeps what it is given.                                    *)
(***************************************************************************)
EXTENDS Naturals, FiniteSets

CONSTANTS
    Requests,     \* requests that may be under way at the same time
    MaxClients,   \* bound on the rows of CRDCLIENT
    MaxTokens,    \* bound on the refresh tokens signed
    PromoCodes,   \* promo codes the old card's bonus balance makes
    MaxOverlaps, MaxErrors, MaxCrashes,   \* bounds on disturbances
    MaxSwitches   \* bound on the updates that send isActivated

ASSUME RequestsAssumption == IsFiniteSet(Requests)
ASSUME BoundsAssumption ==
    {MaxClients, MaxTokens, PromoCodes, MaxOverlaps, MaxErrors, MaxCrashes, MaxSwitches}
       \subseteq Nat

VARIABLES
    clients,   \* rows of CRDCLIENT for the phone, each with its card
    signed,    \* refresh tokens signed so far
    holds,     \* the refresh token the app was answered last
    old,       \* the card of the old programme and what became of its balance
    req,       \* requests under way
    spent,     \* disturbances so far
    trouble,   \* overlaps and failures since the app got its token
    restores   \* whether the database puts the plus sign back

vars == <<clients, signed, holds, old, req, spent, trouble, restores>>

----------------------------------------------------------------------------
(* Types *)

Clients == 1..MaxClients
NoClient == 0

Columns == [active: BOOLEAN, token: Nat]
Row == [made: BOOLEAN, active: BOOLEAN, token: Nat, card: {"none", "live", "deleted"}]
NoRow == [made |-> FALSE, active |-> FALSE, token |-> 0, card |-> "none"]

OldCard == [active: BOOLEAN, deleted: BOOLEAN,
            credits: Nat, debits: Nat, codes: Nat, bound: Nat]

\* knowsCard: the client in memory came with a card.
Request == [pc: {"idle", "reactivate", "reactivateCard", "create", "card",
                 "findToken", "saveToken", "answer", "update", "deactivate",
                 "deleteCard", "oldCard", "oldClient", "credit", "debit", "code", "bind"},
            id: Clients \cup {NoClient}, snap: Columns, knowsCard: BOOLEAN,
            token: Nat, made: Nat]
Idle == [pc |-> "idle", id |-> NoClient, snap |-> [active |-> FALSE, token |-> 0],
         knowsCard |-> FALSE, token |-> 0, made |-> 0]

Spent == [overlaps: Nat, errors: Nat, crashes: Nat, switches: Nat]

\* "now": requests of the present busy time ran beside each other; "past": some
\* did, or failed, since the app was answered its token, but none now.
Trouble == {"none", "past", "now"}

TypeOK ==
    /\ clients \in [Clients -> Row]
    /\ signed \in Nat
    /\ holds \in 0..signed
    /\ old \in OldCard
    /\ req \in [Requests -> Request]
    /\ spent \in Spent
    /\ trouble \in Trouble
    /\ restores \in BOOLEAN

Init ==
    /\ clients = [c \in Clients |-> NoRow]
    /\ signed = 0
    /\ holds = 0
    /\ old = [active |-> TRUE, deleted |-> FALSE,
              credits |-> 0, debits |-> 0, codes |-> 0, bound |-> 0]
    /\ req = [r \in Requests |-> Idle]
    /\ spent = [overlaps |-> 0, errors |-> 0, crashes |-> 0, switches |-> 0]
    /\ trouble = "none"
    /\ restores \in BOOLEAN

Made == {c \in Clients : clients[c].made}
Busy == {r \in Requests : req[r].pc # "idle"}
At(r, pc) == req[r].pc = pc
Goes(r, pc) == req' = [req EXCEPT ![r].pc = pc]
Ends(r) == req' = [req EXCEPT ![r] = Idle]

\* The forms of a phone number: as requests send it (codes are stored with the plus
\* sign, so no other form signs in), and as Client.formatPhone leaves it.
Asked == "plus"
FormatPhone(form) == "bare"
Kept == IF restores THEN Asked ELSE FormatPhone(Asked)

\* findOneByPhone: of the clients whose CORRECT_PHONE is the one asked for, the
\* one inserted last.
Matching == {c \in Made : Kept = Asked}
Found(c) == c \in Matching /\ \A d \in Matching : d <= c
Snap(c) == [active |-> clients[c].active, token |-> clients[c].token]

\* ClientRepository.update: all columns, as the handler has them.
Save(c, columns) ==
    clients' = [clients EXCEPT ![c].active = columns.active, ![c].token = columns.token]

\* A request starts; one that starts beside another is counted.
Starts(r, fields) ==
    /\ At(r, "idle")
    /\ IF Busy = {}
       THEN /\ trouble' = (IF trouble = "now" THEN "past" ELSE trouble)
            /\ UNCHANGED spent
       ELSE /\ spent.overlaps < MaxOverlaps
            /\ spent' = [spent EXCEPT !.overlaps = @ + 1]
            /\ trouble' = "now"
    /\ req' = [req EXCEPT ![r] = fields]
    /\ UNCHANGED restores

\* A call failed or the server stopped.
Fails == trouble' = IF trouble = "now" THEN "now" ELSE "past"

\* signRefreshToken.
Signs ==
    /\ signed < MaxTokens
    /\ signed' = signed + 1

\* The app is signed in, so its access token names the phone.
Guarded(c) == holds > 0 /\ Found(c)

WithClient(c, pc) ==
    [Idle EXCEPT !.pc = pc, !.id = c, !.snap = Snap(c),
                 !.knowsCard = clients[c].card # "none"]

----------------------------------------------------------------------------
(* POST /auth/register *)

Exists(row) == row.active /\ row.card = "live"

\* Mutant: an account that was deleted is not recognised.
ClosedNever(row) == FALSE

Closed(row) == ~row.active /\ row.card = "deleted"

\* Mutant: the account is opened again with the token it had.
ReopenedOldToken(row, token) == [active |-> TRUE, token |-> row.token]

Reopened(row, token) == [active |-> TRUE, token |-> token]

\* An account whose card is missing fails the request: getCard() has none.  An
\* account that exists is refused.
RegisterRead(r) ==
    /\ Signs
    /\ \/ /\ Matching = {}
          /\ Starts(r, [Idle EXCEPT !.pc = "create", !.token = signed'])
       \/ \E c \in Clients :
             LET row == clients[c] IN
             /\ Found(c)
             /\ row.card # "none" /\ ~Exists(row)
             /\ IF Closed(row)
                THEN Starts(r, [WithClient(c, "reactivate") EXCEPT
                                   !.snap = Reopened(row, signed'), !.token = signed'])
                ELSE Starts(r, [Idle EXCEPT !.pc = "create", !.token = signed'])
    /\ UNCHANGED <<clients, holds, old>>

Reactivate(r) ==
    /\ At(r, "reactivate")
    /\ Save(req[r].id, req[r].snap)
    /\ Goes(r, "reactivateCard")
    /\ UNCHANGED <<signed, holds, old, spent, trouble, restores>>

ReactivateCard(r) ==
    /\ At(r, "reactivateCard")
    /\ clients' = [clients EXCEPT ![req[r].id].card = "live"]
    /\ Goes(r, "answer")
    /\ UNCHANGED <<signed, holds, old, spent, trouble, restores>>

\* Mutant: ids are not consecutive.
NextIdSkips == Cardinality(Made) + 2

NextId == Cardinality(Made) + 1

CreateClient(r) ==
    /\ At(r, "create")
    /\ Cardinality(Made) < MaxClients
    /\ clients' = [clients EXCEPT ![NextId] =
                     [made |-> TRUE, active |-> TRUE, token |-> req[r].token, card |-> "none"]]
    /\ req' = [req EXCEPT ![r].pc = "card", ![r].id = NextId]
    /\ UNCHANGED <<signed, holds, old, spent, trouble, restores>>

\* Mutant: the card is never inserted.
CardForgotten(c) == UNCHANGED clients

InsertCard(c) == clients' = [clients EXCEPT ![c].card = "live"]

CreateCard(r) ==
    /\ At(r, "card")
    /\ InsertCard(req[r].id)
    /\ req' = [req EXCEPT ![r].pc = "findToken", ![r].knowsCard = TRUE]
    /\ UNCHANGED <<signed, holds, old, spent, trouble, restores>>

----------------------------------------------------------------------------
(* POST /auth/login, and the token of a new account *)

\* An inactive account with a live card may sign in, one without a card only
\* while it is active.
LoginRead(r) ==
    /\ Signs
    /\ \E c \in Clients :
          /\ Found(c)
          /\ clients[c].active \/ clients[c].card = "live"
          /\ Starts(r, [WithClient(c, "findToken") EXCEPT !.token = signed'])
    /\ UNCHANGED <<clients, holds, old>>

\* setRefreshToken reads the client of the phone once more, and leaves it at that
\* when there is none.
FindToken(r) ==
    /\ At(r, "findToken")
    /\ \/ /\ Matching = {}
          /\ Goes(r, "answer")
       \/ \E c \in Clients :
          /\ Found(c)
          /\ req' = [req EXCEPT ![r].pc = "saveToken", ![r].id = c,
                        ![r].snap = [Snap(c) EXCEPT !.token = req[r].token]]
    /\ UNCHANGED <<clients, signed, holds, old, spent, trouble, restores>>

\* save() first SELECTs the row, some time after the client was read, and writes
\* the columns that differ: the new token, and the old activity only if the row
\* had another one by then.
SaveToken(r) ==
    /\ At(r, "saveToken")
    /\ \E keeps \in BOOLEAN :
          clients' = [clients EXCEPT
                         ![req[r].id].active = IF keeps THEN @ ELSE req[r].snap.active,
                         ![req[r].id].token = req[r].snap.token]
    /\ Goes(r, "answer")
    /\ UNCHANGED <<signed, holds, old, spent, trouble, restores>>

\* The answer shows the card: without one there is an error instead.
Answer(r) ==
    /\ At(r, "answer")
    /\ IF req[r].knowsCard
       THEN /\ holds' = req[r].token
            /\ trouble' = (IF trouble = "past" THEN "none" ELSE trouble)
       ELSE UNCHANGED <<holds, trouble>>
    /\ Ends(r)
    /\ UNCHANGED <<clients, signed, old, spent, restores>>

----------------------------------------------------------------------------
(* PATCH /account, PATCH /account/notifications, DELETE /account *)

UpdateRead(r) ==
    /\ \E c \in Clients : Guarded(c) /\ Starts(r, WithClient(c, "update"))
    /\ UNCHANGED <<clients, signed, holds, old>>

\* The body may name isActivated, which is written as it comes.  The settings
\* make no difference here, the columns written back with them do.
Update(r) ==
    /\ At(r, "update")
    /\ \/ /\ Save(req[r].id, req[r].snap)
          /\ UNCHANGED spent
       \/ \E active \in BOOLEAN :
             /\ spent.switches < MaxSwitches
             /\ spent' = [spent EXCEPT !.switches = @ + 1]
             /\ Save(req[r].id, [req[r].snap EXCEPT !.active = active])
    /\ Ends(r)
    /\ UNCHANGED <<signed, holds, old, trouble, restores>>

DeleteRead(r) ==
    /\ \E c \in Clients : Guarded(c) /\ Starts(r, WithClient(c, "deactivate"))
    /\ UNCHANGED <<clients, signed, holds, old>>

Deactivate(r) ==
    /\ At(r, "deactivate")
    /\ Save(req[r].id, [req[r].snap EXCEPT !.active = FALSE])
    /\ IF req[r].knowsCard THEN Goes(r, "deleteCard") ELSE Ends(r)
    /\ UNCHANGED <<signed, holds, old, spent, trouble, restores>>

DeleteCard(r) ==
    /\ At(r, "deleteCard")
    /\ clients' = [clients EXCEPT ![req[r].id].card = "deleted"]
    /\ Ends(r)
    /\ UNCHANGED <<signed, holds, old, spent, trouble, restores>>

----------------------------------------------------------------------------
(* POST /account/transfer *)

\* Mutant: a deleted card is transferred again.
TransferableAlways == TRUE

Transferable == ~old.deleted

TransferRead(r) ==
    /\ \E c \in Clients : /\ Guarded(c)
                          /\ Transferable
                          /\ Starts(r, WithClient(c, "oldCard"))
    /\ UNCHANGED <<clients, signed, holds, old>>

DeleteOldCard(r) ==
    /\ At(r, "oldCard")
    /\ old' = [old EXCEPT !.deleted = TRUE]
    /\ Goes(r, "oldClient")
    /\ UNCHANGED <<clients, signed, holds, spent, trouble, restores>>

\* Without a card of its own the client cannot be credited.
DeactivateOldClient(r) ==
    /\ At(r, "oldClient")
    /\ old' = [old EXCEPT !.active = FALSE]
    /\ IF req[r].knowsCard THEN Goes(r, "credit") ELSE Ends(r)
    /\ UNCHANGED <<clients, signed, holds, spent, trouble, restores>>

Credit(r) ==
    /\ At(r, "credit")
    /\ old' = [old EXCEPT !.credits = @ + 1]
    /\ Goes(r, "debit")
    /\ UNCHANGED <<clients, signed, holds, spent, trouble, restores>>

Debit(r) ==
    /\ At(r, "debit")
    /\ old' = [old EXCEPT !.debits = @ + 1]
    /\ IF PromoCodes = 0 THEN Ends(r) ELSE Goes(r, "code")
    /\ UNCHANGED <<clients, signed, holds, spent, trouble, restores>>

\* The bonus balance becomes promo codes, each created and then bound.
CreateCode(r) ==
    /\ At(r, "code")
    /\ old' = [old EXCEPT !.codes = @ + 1]
    /\ req' = [req EXCEPT ![r].pc = "bind", ![r].made = @ + 1]
    /\ UNCHANGED <<clients, signed, holds, spent, trouble, restores>>

BindCode(r) ==
    /\ At(r, "bind")
    /\ old' = [old EXCEPT !.bound = @ + 1]
    /\ IF req[r].made < PromoCodes THEN Goes(r, "code") ELSE Ends(r)
    /\ UNCHANGED <<clients, signed, holds, spent, trouble, restores>>

----------------------------------------------------------------------------
(* Faults *)

\* A call fails and the request ends where it is: nothing is undone.
RequestError(r) ==
    /\ r \in Busy
    /\ spent.errors < MaxErrors
    /\ spent' = [spent EXCEPT !.errors = @ + 1]
    /\ Fails
    /\ Ends(r)
    /\ UNCHANGED <<clients, signed, holds, old, restores>>

Crash ==
    /\ spent.crashes < MaxCrashes
    /\ Busy # {}
    /\ spent' = [spent EXCEPT !.crashes = @ + 1]
    /\ Fails
    /\ req' = [r \in Requests |-> Idle]
    /\ UNCHANGED <<clients, signed, holds, old, restores>>

AccountStep(r) ==
    \/ RegisterRead(r) \/ Reactivate(r) \/ ReactivateCard(r)
    \/ CreateClient(r) \/ CreateCard(r)
    \/ LoginRead(r) \/ FindToken(r) \/ SaveToken(r) \/ Answer(r)
    \/ UpdateRead(r) \/ Update(r)
    \/ DeleteRead(r) \/ Deactivate(r) \/ DeleteCard(r)

TransferStep(r) ==
    \/ TransferRead(r) \/ DeleteOldCard(r) \/ DeactivateOldClient(r)
    \/ Credit(r) \/ Debit(r) \/ CreateCode(r) \/ BindCode(r)

Next ==
    \/ \E r \in Requests : AccountStep(r) \/ TransferStep(r) \/ RequestError(r)
    \/ Crash

Spec == Init /\ [][Next]_vars

----------------------------------------------------------------------------
(* Properties *)

Faults == spent.errors + Cardinality(Requests) * spent.crashes
Interference == spent.overlaps + spent.errors + spent.crashes
Disturbances == Interference + spent.switches

\* However often a phone registers, deletes its account and registers again, it
\* has one client; each request that ran beside another, each failure and each
\* update that sent isActivated may add one.  A database that keeps the phone as
\* Client.create formats it never finds a client again: there every registration
\* makes one, and no more than one.
OneAccount == Cardinality(Made) <= IF restores THEN 1 + Disturbances ELSE signed

\* A client has its card unless its registration is still under way or failed
\* between the two rows.  Such a client can neither register nor log in again.
HalfAccountsHaveACause ==
    Cardinality({c \in Made : clients[c].card = "none"})
       <= Cardinality({r \in Requests : At(r, "card")}) + Faults

\* Without disturbances an account that is at rest is open or closed as a
\* whole: its client is active just when its card is live.
ClientAndCardAgree ==
    Disturbances = 0 /\ Busy = {} =>
       \A c \in Made : clients[c].active <=> clients[c].card = "live"

\* The token the app was answered last is the one that refreshes, whatever the
\* account went through before it and since, unless since then a request ran
\* beside another or failed: an update may write an older token back over it.
\* The next sign-in that runs alone mends that.
TokenWorks ==
    restores /\ trouble = "none" /\ Busy = {} /\ holds > 0 =>
       \E c \in Clients : Found(c) /\ clients[c].token = holds

\* An account at rest is whole: open or closed in both its rows if it was never
\* disturbed, and with the token the app has if nothing came between since.
WholeUndisturbed == ClientAndCardAgree /\ TokenWorks

\* An old balance is credited once, and once more for each request that was
\* transferring it at the same time: never by a later one.
CreditsBounded == old.credits <= Cardinality(Requests)

\* A balance whose card is gone is on its way, or credited, or an overlap, a
\* failure or a crash lost it.
LossHasACause ==
    old.deleted /\ old.credits = 0 =>
       \/ \E r \in Requests : At(r, "oldClient") \/ At(r, "credit")
       \/ Interference > 0

\* Every credit is debited from the old card, and every promo code reaches its
\* client, except for those under way and those that failed.
TransfersBalance ==
    /\ old.debits <= old.credits
    /\ old.credits - old.debits <= Cardinality({r \in Requests : At(r, "debit")}) + Faults
    /\ old.codes - old.bound <= Cardinality({r \in Requests : At(r, "bind")}) + Faults

\* Through overlapping transfers, failures and crashes the balance of an old card
\* is neither multiplied nor lost without a cause, and its parts keep step.
OldBalanceIsSafe == CreditsBounded /\ LossHasACause /\ TransfersBalance

=============================================================================
