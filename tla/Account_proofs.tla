--------------------------- MODULE Account_proofs ---------------------------
(***************************************************************************)
(* Proofs about Account, for any number of requests, clients, tokens,      *)
(* promo codes and disturbances: the types, that clients without a card    *)
(* have a cause, that an old balance is safe, that a phone has one client  *)
(* where clients are found again and otherwise one per registration, and   *)
(* that an undisturbed account is whole and has the token the app has.     *)
(***************************************************************************)
EXTENDS Account, FiniteSetTheorems, TLAPS, Integers

----------------------------------------------------------------------------
(* Requests that move *)

LEMMA ConstantsTyped ==
    /\ MaxClients \in Nat /\ MaxTokens \in Nat /\ PromoCodes \in Nat
    /\ MaxOverlaps \in Nat /\ MaxErrors \in Nat /\ MaxCrashes \in Nat /\ MaxSwitches \in Nat
    /\ IsFiniteSet(Requests) /\ Cardinality(Requests) \in Nat
BY BoundsAssumption, RequestsAssumption, FS_CardinalityType

LEMMA IdleTyped ==
    /\ Idle \in Request /\ Idle.pc = "idle" /\ Idle.token = 0 /\ Idle.made = 0
    /\ Idle.id = NoClient
BY DEF Idle, Request, Columns

LEMMA SnapTyped ==
    ASSUME TypeOK, NEW c \in Clients
    PROVE  /\ Snap(c) \in Columns
           /\ Snap(c).active = clients[c].active /\ Snap(c).token = clients[c].token
BY DEF TypeOK, Row, Snap, Columns

\* A request that starts on a client it read.
LEMMA WithClientTyped ==
    ASSUME TypeOK, NEW c \in Clients,
           NEW pc \in {"reactivate", "findToken", "update", "deactivate", "oldCard"}
    PROVE  /\ WithClient(c, pc) \in Request
           /\ WithClient(c, pc).pc = pc
           /\ WithClient(c, pc).id = c
           /\ WithClient(c, pc).snap = Snap(c)
           /\ WithClient(c, pc).knowsCard = (clients[c].card # "none")
           /\ WithClient(c, pc).token = 0
BY SnapTyped, IdleTyped DEF WithClient, Request, Idle

\* One request moves.
MovesTo(r, n) == req' = [req EXCEPT ![r] = n]

\* A request may start; it counts if it starts beside another.
Counted ==
    /\ spent' \in Spent /\ trouble' \in Trouble /\ UNCHANGED restores
    /\ spent'.errors = spent.errors /\ spent'.crashes = spent.crashes
    /\ spent'.switches = spent.switches
    /\ Busy = {} => /\ spent' = spent /\ trouble' # "now"
                    /\ trouble' = "none" => trouble = "none"
    /\ Busy # {} => spent'.overlaps = spent.overlaps + 1 /\ trouble' = "now"

LEMMA StartsTyped ==
    ASSUME TypeOK, NEW r \in Requests, NEW n \in Request, Starts(r, n)
    PROVE  MovesTo(r, n) /\ req[r].pc = "idle" /\ Counted
<1>1. MovesTo(r, n) /\ req[r].pc = "idle" /\ UNCHANGED restores
  BY DEF Starts, At, MovesTo
<1>2. spent \in Spent /\ trouble \in Trouble
  BY DEF TypeOK
<1>3. CASE Busy = {}
  <2>1. UNCHANGED spent /\ trouble' = (IF trouble = "now" THEN "past" ELSE trouble)
    BY <1>3 DEF Starts
  <2> QED
    BY <1>1, <1>2, <1>3, <2>1 DEF Counted, Trouble
<1>4. CASE Busy # {}
  <2>1. spent' = [spent EXCEPT !.overlaps = @ + 1] /\ trouble' = "now"
    BY <1>4 DEF Starts
  <2>2. /\ spent' \in Spent /\ spent'.overlaps = spent.overlaps + 1
        /\ spent'.errors = spent.errors /\ spent'.crashes = spent.crashes
        /\ spent'.switches = spent.switches
    BY <1>2, <2>1 DEF Spent
  <2> QED
    BY <1>1, <1>4, <2>1, <2>2 DEF Counted, Trouble
<1> QED
  BY <1>3, <1>4

LEMMA SaveTyped ==
    ASSUME TypeOK, NEW c, NEW columns \in Columns, Save(c, columns)
    PROVE  /\ clients' \in [Clients -> Row]
           /\ \A d \in Clients : /\ clients'[d].made = clients[d].made
                                 /\ clients'[d].card = clients[d].card
                                 /\ d # c => clients'[d] = clients[d]
           /\ c \in Clients => /\ clients'[c].active = columns.active
                               /\ clients'[c].token = columns.token
BY DEF TypeOK, Save, Row, Columns

\* What the two ways of writing a client leave in it.
LEMMA SaveTokenTyped ==
    ASSUME TypeOK, NEW r \in Requests, SaveToken(r)
    PROVE  /\ clients' \in [Clients -> Row]
           /\ \A d \in Clients : /\ clients'[d].made = clients[d].made
                                 /\ clients'[d].card = clients[d].card
                                 /\ d # req[r].id => clients'[d] = clients[d]
           /\ req[r].id \in Clients =>
                 /\ clients'[req[r].id].active \in {clients[req[r].id].active, req[r].snap.active}
                 /\ clients'[req[r].id].token = req[r].snap.token
<1> DEFINE c == req[r].id
<1>1. PICK keeps \in BOOLEAN :
        clients' = [clients EXCEPT ![c].active = IF keeps THEN @ ELSE req[r].snap.active,
                                   ![c].token = req[r].snap.token]
  BY DEF SaveToken
<1>2. req[r].snap.active \in BOOLEAN /\ req[r].snap.token \in Nat /\ clients \in [Clients -> Row]
  BY DEF TypeOK, Request, Columns
<1>3. CASE keeps
  <2>1. clients' = [clients EXCEPT ![c].token = req[r].snap.token]
    <3>1. \A d \in Clients : clients[d] = [clients[d] EXCEPT !.active = @]
      BY <1>2 DEF Row
    <3> QED
      BY <1>1, <1>2, <1>3, <3>1
  <2> QED
    BY <1>2, <2>1 DEF Row
<1>4. CASE ~keeps
  <2>1. clients' = [clients EXCEPT ![c].active = req[r].snap.active,
                                   ![c].token = req[r].snap.token]
    BY <1>1, <1>4
  <2> QED
    BY <1>2, <2>1 DEF Row
<1> QED
  BY <1>3, <1>4

LEMMA UpdateTyped ==
    ASSUME TypeOK, NEW r \in Requests, Update(r)
    PROVE  /\ \E columns \in Columns :
                 /\ Save(req[r].id, columns) /\ columns.token = req[r].snap.token
                 /\ \/ columns = req[r].snap /\ UNCHANGED spent
                    \/ spent' = [spent EXCEPT !.switches = @ + 1]
           /\ spent' \in Spent
<1>1. req[r].snap \in Columns /\ spent \in Spent
  BY DEF TypeOK, Request
<1>2. \A active \in BOOLEAN :
         LET columns == [req[r].snap EXCEPT !.active = active]
         IN  columns \in Columns /\ columns.token = req[r].snap.token
  BY <1>1 DEF Columns
<1>3. [spent EXCEPT !.switches = @ + 1] \in Spent
  BY <1>1 DEF Spent
<1> QED
  BY <1>1, <1>2, <1>3 DEF Update

LEMMA CardTyped ==
    ASSUME TypeOK, NEW c, NEW card \in {"live", "deleted"},
           clients' = [clients EXCEPT ![c].card = card]
    PROVE  /\ clients' \in [Clients -> Row]
           /\ \A d \in Clients : /\ clients'[d].made = clients[d].made
                                 /\ clients'[d].active = clients[d].active
                                 /\ clients'[d].token = clients[d].token
                                 /\ d # c => clients'[d] = clients[d]
           /\ c \in Clients => clients'[c].card = card
BY DEF TypeOK, Row

\* A card that is opened leaves the rest of its client, and the clients, alone.
LEMMA CardKeepsRest ==
    ASSUME TypeOK, NEW c \in Clients,
           clients' = [clients EXCEPT ![c].card = "live"]
    PROVE  /\ Made' = Made
           /\ clients'[c].card = "live"
           /\ clients'[c].token = clients[c].token
<1>1. PICK card : card = "live"
  OBVIOUS
<1>2. clients' = [clients EXCEPT ![c].card = card] /\ card \in {"live", "deleted"}
  BY <1>1
<1>3. \A d \in Clients : clients'[d].made = clients[d].made
                         /\ clients'[d].token = clients[d].token
  BY <1>2, CardTyped
<1>4. clients'[c].card = card
  BY <1>2, CardTyped
<1>5. Made' = Made
  BY <1>3 DEF Made
<1> QED
  BY <1>1, <1>3, <1>4, <1>5

LEMMA MadeFinite ==
    ASSUME TypeOK
    PROVE  IsFiniteSet(Made) /\ Cardinality(Made) \in Nat /\ NextId \in Nat
<1>1. IsFiniteSet(Clients)
  BY ConstantsTyped, FS_Interval DEF Clients
<1>2. Made \in SUBSET Clients
  BY DEF Made
<1> QED
  BY <1>1, <1>2, FS_Subset, FS_CardinalityType DEF NextId

LEMMA CreateTyped ==
    ASSUME TypeOK, NEW r \in Requests, CreateClient(r)
    PROVE  /\ NextId \in Clients
           /\ clients' \in [Clients -> Row]
           /\ \A d \in Clients \ {NextId} : clients'[d] = clients[d]
           /\ clients'[NextId] = [made |-> TRUE, active |-> TRUE,
                                  token |-> req[r].token, card |-> "none"]
<1>1. NextId \in Clients
  BY MadeFinite, ConstantsTyped DEF CreateClient, NextId, Clients
<1>2. req[r].token \in Nat
  BY DEF TypeOK, Request
<1> QED
  BY <1>1, <1>2 DEF CreateClient, TypeOK, Row

\* What a request that moves may hold, given what it held.
LEMMA RequestTyped ==
    ASSUME NEW k \in Request,
           NEW pc \in {"reactivateCard", "answer", "card", "findToken", "saveToken",
                       "deleteCard", "oldClient", "credit", "debit", "code", "bind"}
    PROVE  /\ [k EXCEPT !.pc = pc] \in Request
           /\ \A i \in Clients : [k EXCEPT !.pc = pc, !.id = i] \in Request
           /\ [k EXCEPT !.pc = pc, !.knowsCard = TRUE] \in Request
           /\ [k EXCEPT !.pc = pc, !.made = @ + 1] \in Request
           /\ \A i \in Clients : \A columns \in Columns :
                 [k EXCEPT !.pc = pc, !.id = i, !.snap = columns] \in Request
<1> DEFINE Pcs == {"reactivateCard", "answer", "card", "findToken", "saveToken",
                   "deleteCard", "oldClient", "credit", "debit", "code", "bind"}
<1>1. [k EXCEPT !.pc = pc] \in Request
  BY DEF Request
<1>2. \A i \in Clients : [k EXCEPT !.pc = pc, !.id = i] \in Request
  BY DEF Request
<1>3. [k EXCEPT !.pc = pc, !.knowsCard = TRUE] \in Request
  BY DEF Request
<1>4. [k EXCEPT !.pc = pc, !.made = @ + 1] \in Request
  <2>1. k.made + 1 \in Nat
    BY DEF Request
  <2> QED
    BY <2>1 DEF Request
<1>5. \A i \in Clients : \A columns \in Columns :
         [k EXCEPT !.pc = pc, !.id = i, !.snap = columns] \in Request
  BY DEF Request
<1> QED
  BY <1>1, <1>2, <1>3, <1>4, <1>5

LEMMA Moved ==
    ASSUME TypeOK, NEW r \in Requests, NEW n \in Request,
           MovesTo(r, n)
    PROVE  /\ req' \in [Requests -> Request]
           /\ req'[r] = n
           /\ \A q \in Requests : q # r => req'[q] = req[q]
BY DEF TypeOK, MovesTo

LEMMA Ended ==
    ASSUME TypeOK, NEW r \in Requests, Ends(r)
    PROVE  /\ req' \in [Requests -> Request]
           /\ req'[r] = Idle
           /\ \A q \in Requests : q # r => req'[q] = req[q]
BY IdleTyped, Moved DEF Ends, MovesTo

\* A request goes on to its next step.
LEMMA Went ==
    ASSUME TypeOK, NEW r \in Requests,
           NEW pc \in {"reactivateCard", "answer", "card", "findToken", "saveToken",
                       "deleteCard", "oldClient", "credit", "debit", "code", "bind"},
           Goes(r, pc)
    PROVE  /\ MovesTo(r, [req[r] EXCEPT !.pc = pc])
           /\ [req[r] EXCEPT !.pc = pc] \in Request
<1>1. req[r] \in Request
  BY DEF TypeOK
<1> QED
  BY <1>1, RequestTyped DEF Goes, TypeOK, MovesTo

----------------------------------------------------------------------------
(* Types *)

\* No request holds a token that was not signed.
Typed == TypeOK /\ \A r \in Requests : req[r].token <= signed

LEMMA TypedInit == Init => Typed
<1> SUFFICES ASSUME Init PROVE Typed
  OBVIOUS
<1>1. NoRow \in Row
  BY DEF NoRow, Row
<1> QED
  BY <1>1, IdleTyped DEF Init, Typed, TypeOK, OldCard, Spent, Trouble

\* The disturbances, and what else the steps record.
HistoryTyped == spent \in Spent /\ trouble \in Trouble /\ restores \in BOOLEAN

LEMMA HistoryMoves ==
    ASSUME TypeOK
    PROVE  /\ HistoryTyped
           /\ UNCHANGED <<spent, trouble, restores>> \/ Counted => HistoryTyped'
           /\ \A r \in Requests : RequestError(r) \/ Answer(r) \/ Update(r) => HistoryTyped'
           /\ Crash => HistoryTyped'
<1>1. spent \in Spent /\ trouble \in Trouble /\ restores \in BOOLEAN
  BY DEF TypeOK
<1>2. /\ [spent EXCEPT !.errors = @ + 1] \in Spent
      /\ [spent EXCEPT !.crashes = @ + 1] \in Spent
  BY <1>1 DEF Spent
<1>3. Fails => trouble' \in Trouble
  BY DEF Fails, Trouble
<1>4. Crash \/ (\E r \in Requests : RequestError(r)) => HistoryTyped'
  BY <1>1, <1>2, <1>3 DEF Crash, RequestError, HistoryTyped
<1>5. \A r \in Requests : Answer(r) => HistoryTyped'
  <2> SUFFICES ASSUME NEW r \in Requests, Answer(r) PROVE HistoryTyped'
    OBVIOUS
  <2>1. trouble' \in Trouble
    BY <1>1 DEF Answer, Trouble
  <2> QED
    BY <1>1, <2>1 DEF Answer, HistoryTyped
<1>6. \A r \in Requests : Update(r) => HistoryTyped'
  <2> SUFFICES ASSUME NEW r \in Requests, Update(r) PROVE HistoryTyped'
    OBVIOUS
  <2>1. spent' \in Spent
    BY UpdateTyped
  <2> QED
    BY <1>1, <2>1 DEF Update, HistoryTyped
<1>7. UNCHANGED <<spent, trouble, restores>> \/ Counted => HistoryTyped'
  BY <1>1 DEF Counted, HistoryTyped
<1> QED
  BY <1>1, <1>4, <1>5, <1>6, <1>7 DEF HistoryTyped

\* Typed, of the steps of a request that leave the tokens signed and held alone.
LEMMA TypedMove ==
    ASSUME Typed, NEW r \in Requests, NEW n \in Request,
           MovesTo(r, n), n.token <= signed',
           clients' \in [Clients -> Row], old' \in OldCard,
           HistoryTyped',
           signed' \in Nat, signed <= signed', holds' \in 0..signed'
    PROVE  Typed'
<1>1. TypeOK /\ \A q \in Requests : req[q].token <= signed /\ req[q].token \in Nat
  BY DEF Typed, TypeOK, Request
<1>2. /\ req' \in [Requests -> Request] /\ req'[r] = n
      /\ \A q \in Requests : q # r => req'[q] = req[q]
  BY <1>1, Moved
<1>3. ASSUME NEW q \in Requests PROVE req'[q].token <= signed'
  <2>1. signed \in Nat
    BY <1>1 DEF TypeOK, MovesTo
  <2> QED
    BY <1>1, <1>2, <2>1
<1> QED
  BY <1>2, <1>3 DEF Typed, TypeOK, HistoryTyped

----------------------------------------------------------------------------
(* What the requests that start hold *)

LEMMA RegisterStarts ==
    ASSUME TypeOK, NEW r \in Requests, RegisterRead(r)
    PROVE  /\ req[r].pc = "idle" /\ Counted /\ signed' = signed + 1
           /\ UNCHANGED <<clients, holds, old>>
           /\ \E n \in Request :
                 /\ MovesTo(r, n) /\ n.token = signed'
                 /\ \/ /\ n.pc = "create"
                       /\ \/ Matching = {}
                          \/ \E c \in Clients : /\ Found(c) /\ clients[c].card # "none"
                                                /\ ~Exists(clients[c])
                                                /\ ~Closed(clients[c])
                    \/ \E c \in Clients :
                          /\ Found(c) /\ Closed(clients[c])
                          /\ n.pc = "reactivate" /\ n.id = c /\ n.knowsCard = TRUE
                          /\ n.snap = [active |-> TRUE, token |-> signed']
<1>0. signed' = signed + 1 /\ signed' \in Nat
  <2>1. Signs
    BY DEF RegisterRead
  <2> QED
    BY <2>1 DEF Signs, TypeOK
<1> DEFINE new == [Idle EXCEPT !.pc = "create", !.token = signed']
<1>1. new \in Request /\ new.pc = "create" /\ new.token = signed'
  BY <1>0, IdleTyped DEF Request, Idle
<1> HIDE DEF new
<1>2. CASE Matching = {} /\ Starts(r, new)
  <2>1. /\ MovesTo(r, new) /\ req[r].pc = "idle" /\ Counted
    BY <1>1, <1>2, StartsTyped DEF Counted
  <2> QED
    BY <1>0, <1>1, <1>2, <2>1 DEF RegisterRead
<1>3. ASSUME NEW c \in Clients, Found(c), clients[c].card # "none",
             ~Exists(clients[c]), ~Closed(clients[c]), Starts(r, new)
      PROVE  /\ req[r].pc = "idle" /\ Counted
             /\ MovesTo(r, new)
  BY <1>1, <1>3, StartsTyped DEF Counted
<1>4. ASSUME NEW c \in Clients, Found(c), Closed(clients[c]),
             Starts(r, [WithClient(c, "reactivate") EXCEPT
                           !.snap = Reopened(clients[c], signed'), !.token = signed'])
      PROVE  /\ req[r].pc = "idle" /\ Counted
             /\ \E n \in Request :
                   /\ MovesTo(r, n) /\ n.token = signed'
                   /\ n.pc = "reactivate" /\ n.id = c /\ n.knowsCard = TRUE
                   /\ n.snap = [active |-> TRUE, token |-> signed']
  <2> DEFINE columns == Reopened(clients[c], signed')
             n == [WithClient(c, "reactivate") EXCEPT !.snap = columns, !.token = signed']
  <2>1. columns = [active |-> TRUE, token |-> signed'] /\ columns \in Columns
    BY <1>0 DEF Reopened, Columns
  <2> HIDE DEF columns
  <2>2. /\ n \in Request /\ n.pc = "reactivate" /\ n.id = c /\ n.snap = columns
        /\ n.knowsCard = (clients[c].card # "none") /\ n.token = signed'
    <3> DEFINE k == WithClient(c, "reactivate")
    <3>1. /\ k \in Request /\ k.pc = "reactivate" /\ k.id = c
          /\ k.knowsCard = (clients[c].card # "none")
      BY WithClientTyped
    <3> HIDE DEF k
    <3>2. n = [k EXCEPT !.snap = columns, !.token = signed']
      BY DEF k
    <3> HIDE DEF n
    <3> QED
      BY <1>0, <2>1, <3>1, <3>2 DEF Request
  <2>3. Starts(r, n)
    BY <1>4 DEF columns
  <2> HIDE DEF n
  <2>4. MovesTo(r, n) /\ req[r].pc = "idle" /\ Counted
    BY <2>2, <2>3, StartsTyped DEF Counted
  <2>5. clients[c].card # "none"
    BY <1>4 DEF Closed
  <2> QED
    BY <2>1, <2>2, <2>4, <2>5
<1>5. \/ Matching = {} /\ Starts(r, new)
      \/ \E c \in Clients : /\ Found(c) /\ clients[c].card # "none"
                            /\ ~Exists(clients[c]) /\ ~Closed(clients[c])
                            /\ Starts(r, new)
      \/ \E c \in Clients :
            /\ Found(c) /\ Closed(clients[c])
            /\ Starts(r, [WithClient(c, "reactivate") EXCEPT
                             !.snap = Reopened(clients[c], signed'), !.token = signed'])
  BY DEF RegisterRead, new
<1>6. UNCHANGED <<clients, holds, old>>
  BY DEF RegisterRead
<1>7. CASE \E c \in Clients : /\ Found(c) /\ clients[c].card # "none"
                              /\ ~Exists(clients[c]) /\ ~Closed(clients[c])
                              /\ Starts(r, new)
  BY <1>0, <1>1, <1>3, <1>6, <1>7
<1>8. CASE \E c \in Clients :
              /\ Found(c) /\ Closed(clients[c])
              /\ Starts(r, [WithClient(c, "reactivate") EXCEPT
                               !.snap = Reopened(clients[c], signed'), !.token = signed'])
  BY <1>0, <1>4, <1>6, <1>8
<1> QED
  BY <1>2, <1>5, <1>7, <1>8

LEMMA LoginStarts ==
    ASSUME TypeOK, NEW r \in Requests, LoginRead(r)
    PROVE  /\ req[r].pc = "idle" /\ Counted /\ signed' = signed + 1
           /\ UNCHANGED <<clients, holds, old>>
           /\ \E n \in Request : \E c \in Clients :
                 /\ MovesTo(r, n) /\ n.token = signed'
                 /\ Found(c) /\ (clients[c].active \/ clients[c].card = "live")
                 /\ n.pc = "findToken" /\ n.id = c
                 /\ n.knowsCard = (clients[c].card # "none")
<1>0. /\ signed' = signed + 1 /\ signed' \in Nat
      /\ UNCHANGED <<clients, holds, old>>
  BY DEF LoginRead, Signs, TypeOK
<1>1. PICK c \in Clients :
        /\ Found(c) /\ (clients[c].active \/ clients[c].card = "live")
        /\ Starts(r, [WithClient(c, "findToken") EXCEPT !.token = signed'])
  BY DEF LoginRead
<1> DEFINE n == [WithClient(c, "findToken") EXCEPT !.snap = Snap(c), !.token = signed']
           m == [WithClient(c, "findToken") EXCEPT !.token = signed']
<1>2. /\ n \in Request /\ n.pc = "findToken" /\ n.id = c /\ n.token = signed'
      /\ n.knowsCard = (clients[c].card # "none")
  <2> DEFINE k == WithClient(c, "findToken")
  <2>1. /\ k \in Request /\ k.pc = "findToken" /\ k.id = c
        /\ k.knowsCard = (clients[c].card # "none")
    BY WithClientTyped
  <2> HIDE DEF k
  <2>2. n = [k EXCEPT !.snap = Snap(c), !.token = signed']
    BY DEF k
  <2>3. Snap(c) \in Columns
    BY SnapTyped
  <2> HIDE DEF n
  <2> QED
    BY <1>0, <2>1, <2>2, <2>3 DEF Request
<1>3. n = m
  BY <1>0 DEF WithClient, Idle
<1>4. Starts(r, n)
  BY <1>1, <1>3
<1> HIDE DEF n, m
<1>5. MovesTo(r, n) /\ req[r].pc = "idle" /\ Counted
  BY <1>2, <1>4, StartsTyped DEF Counted
<1> QED
  BY <1>0, <1>1, <1>2, <1>5

\* The requests that start with the client behind the access token.
LEMMA GuardedStarts ==
    ASSUME TypeOK, NEW r \in Requests,
           NEW pc \in {"update", "deactivate", "oldCard"},
           \E c \in Clients : Guarded(c) /\ Starts(r, WithClient(c, pc))
    PROVE  /\ req[r].pc = "idle" /\ Counted
           /\ \E n \in Request : \E c \in Clients :
                 /\ MovesTo(r, n)
                 /\ Found(c) /\ holds > 0
                 /\ n.pc = pc /\ n.id = c /\ n.token = 0 /\ n.snap = Snap(c)
                 /\ n.knowsCard = (clients[c].card # "none")
<1>1. PICK c \in Clients : Guarded(c) /\ Starts(r, WithClient(c, pc))
  OBVIOUS
<1> DEFINE n == WithClient(c, pc)
<1>2. /\ n \in Request /\ n.pc = pc /\ n.id = c /\ n.token = 0 /\ n.snap = Snap(c)
      /\ n.knowsCard = (clients[c].card # "none")
  BY WithClientTyped
<1>3. Starts(r, n)
  BY <1>1
<1> HIDE DEF n
<1>4. MovesTo(r, n) /\ req[r].pc = "idle" /\ Counted
  BY <1>2, <1>3, StartsTyped DEF Counted
<1> QED
  BY <1>1, <1>2, <1>4 DEF Guarded

LEMMA GuardedMoves ==
    ASSUME TypeOK, NEW r \in Requests, UpdateRead(r) \/ DeleteRead(r) \/ TransferRead(r)
    PROVE  /\ req[r].pc = "idle" /\ Counted /\ UNCHANGED <<clients, signed, holds, old>>
           /\ \E n \in Request : \E c \in Clients :
                 /\ MovesTo(r, n)
                 /\ Found(c) /\ holds > 0
                 /\ \/ UpdateRead(r) /\ n.pc = "update"
                    \/ DeleteRead(r) /\ n.pc = "deactivate"
                    \/ TransferRead(r) /\ n.pc = "oldCard" /\ ~old.deleted
                 /\ n.id = c /\ n.token = 0 /\ n.snap = Snap(c)
                 /\ n.knowsCard = (clients[c].card # "none")
<1>1. CASE UpdateRead(r)
  <2>1. \E c \in Clients : Guarded(c) /\ Starts(r, WithClient(c, "update"))
    BY <1>1 DEF UpdateRead
  <2>2. UNCHANGED <<clients, signed, holds, old>>
    BY <1>1 DEF UpdateRead
  <2> QED
    BY <1>1, <2>1, <2>2, GuardedStarts
<1>2. CASE DeleteRead(r)
  <2>1. \E c \in Clients : Guarded(c) /\ Starts(r, WithClient(c, "deactivate"))
    BY <1>2 DEF DeleteRead
  <2>2. UNCHANGED <<clients, signed, holds, old>>
    BY <1>2 DEF DeleteRead
  <2> QED
    BY <1>2, <2>1, <2>2, GuardedStarts
<1>3. CASE TransferRead(r)
  <2>1. \E c \in Clients : Guarded(c) /\ Starts(r, WithClient(c, "oldCard"))
    BY <1>3 DEF TransferRead
  <2>2. UNCHANGED <<clients, signed, holds, old>> /\ ~old.deleted
    BY <1>3 DEF TransferRead, Transferable
  <2> QED
    BY <1>3, <2>1, <2>2, GuardedStarts
<1> QED
  BY <1>1, <1>2, <1>3

----------------------------------------------------------------------------
(* What the requests under way do *)

LEMMA HeldTyped ==
    ASSUME TypeOK, NEW r \in Requests
    PROVE  /\ req[r] \in Request /\ req[r].snap \in Columns /\ req[r].token \in Nat
           /\ req[r].id \in Clients \cup {NoClient} /\ req[r].knowsCard \in BOOLEAN
           /\ [req[r].snap EXCEPT !.active = FALSE] \in Columns
           /\ req[r].made \in Nat
BY DEF TypeOK, Request, Columns

\* A request stays what it was except for its place in the code.
Proceeds(r, pc) ==
    \E n \in Request :
       /\ MovesTo(r, n) /\ n.pc = pc
       /\ n.id = req[r].id /\ n.snap = req[r].snap /\ n.token = req[r].token
       /\ n.knowsCard = req[r].knowsCard

LEMMA GoesProceeds ==
    ASSUME TypeOK, NEW r \in Requests,
           NEW pc \in {"reactivateCard", "answer", "card", "findToken", "saveToken",
                       "deleteCard", "oldClient", "credit", "debit", "code", "bind"},
           Goes(r, pc)
    PROVE  Proceeds(r, pc)
<1> DEFINE n == [req[r] EXCEPT !.pc = pc]
<1>1. /\ n.pc = pc /\ n.id = req[r].id /\ n.snap = req[r].snap
      /\ n.token = req[r].token /\ n.knowsCard = req[r].knowsCard
  BY HeldTyped DEF Request
<1>2. n \in Request /\ MovesTo(r, n)
  BY Went
<1> HIDE DEF n
<1> QED
  BY <1>1, <1>2 DEF Proceeds

LEMMA CreateProceeds ==
    ASSUME TypeOK, NEW r \in Requests, CreateClient(r)
    PROVE  \E n \in Request :
              /\ MovesTo(r, n) /\ n.pc = "card"
              /\ n.id = NextId /\ n.token = req[r].token
<1> DEFINE n == [req[r] EXCEPT !.pc = "card", !.id = NextId]
<1>1. n.pc = "card" /\ n.id = NextId /\ n.token = req[r].token
  BY HeldTyped DEF Request
<1>2. n \in Request
  BY HeldTyped, CreateTyped, RequestTyped
<1>3. MovesTo(r, n)
  BY DEF CreateClient, TypeOK, MovesTo
<1> HIDE DEF n
<1> QED
  BY <1>1, <1>2, <1>3

LEMMA CardProceeds ==
    ASSUME TypeOK, NEW r \in Requests, CreateCard(r)
    PROVE  \E n \in Request :
              /\ MovesTo(r, n) /\ n.pc = "findToken"
              /\ n.id = req[r].id /\ n.token = req[r].token /\ n.knowsCard = TRUE
<1> DEFINE n == [req[r] EXCEPT !.pc = "findToken", !.knowsCard = TRUE]
<1>1. /\ n.pc = "findToken" /\ n.id = req[r].id /\ n.token = req[r].token
      /\ n.knowsCard = TRUE
  BY HeldTyped DEF Request
<1>2. n \in Request
  BY HeldTyped, RequestTyped
<1>3. MovesTo(r, n)
  BY DEF CreateCard, TypeOK, MovesTo
<1> HIDE DEF n
<1> QED
  BY <1>1, <1>2, <1>3

LEMMA FindProceeds ==
    ASSUME TypeOK, NEW r \in Requests, FindToken(r)
    PROVE  \/ Matching = {} /\ Proceeds(r, "answer")
           \/ \E n \in Request : \E c \in Clients :
                 /\ Found(c)
                 /\ MovesTo(r, n) /\ n.pc = "saveToken" /\ n.id = c
                 /\ n.token = req[r].token /\ n.knowsCard = req[r].knowsCard
                 /\ n.snap = [active |-> clients[c].active, token |-> req[r].token]
<1>1. CASE Matching = {} /\ Goes(r, "answer")
  BY <1>1, GoesProceeds
<1>2. ASSUME NEW c \in Clients, Found(c),
             req' = [req EXCEPT ![r].pc = "saveToken", ![r].id = c,
                        ![r].snap = [Snap(c) EXCEPT !.token = req[r].token]]
      PROVE  \E n \in Request :
                /\ MovesTo(r, n) /\ n.pc = "saveToken" /\ n.id = c
                /\ n.token = req[r].token /\ n.knowsCard = req[r].knowsCard
                /\ n.snap = [active |-> clients[c].active, token |-> req[r].token]
  <2> DEFINE columns == [Snap(c) EXCEPT !.token = req[r].token]
             n == [req[r] EXCEPT !.pc = "saveToken", !.id = c, !.snap = columns]
  <2>1. /\ columns = [active |-> clients[c].active, token |-> req[r].token]
        /\ columns \in Columns
    <3>1. clients[c].active \in BOOLEAN /\ req[r].token \in Nat
      BY HeldTyped DEF TypeOK, Row
    <3>2. columns = [active |-> clients[c].active, token |-> req[r].token]
      BY DEF Snap
    <3> HIDE DEF columns
    <3>3. columns \in Columns
      BY <3>1, <3>2 DEF Columns
    <3> QED
      BY <3>2, <3>3
  <2>2. MovesTo(r, n)
    BY <1>2 DEF TypeOK, MovesTo
  <2> HIDE DEF columns
  <2>3. n \in Request
    BY <2>1, HeldTyped, RequestTyped
  <2>4. /\ n.pc = "saveToken" /\ n.id = c /\ n.snap = columns
        /\ n.token = req[r].token /\ n.knowsCard = req[r].knowsCard
    BY HeldTyped DEF Request
  <2> HIDE DEF n
  <2> QED
    BY <2>1, <2>2, <2>3, <2>4
<1>3. CASE \E c \in Clients :
             /\ Found(c)
             /\ req' = [req EXCEPT ![r].pc = "saveToken", ![r].id = c,
                           ![r].snap = [Snap(c) EXCEPT !.token = req[r].token]]
  <2>1. PICK c \in Clients :
          /\ Found(c)
          /\ req' = [req EXCEPT ![r].pc = "saveToken", ![r].id = c,
                        ![r].snap = [Snap(c) EXCEPT !.token = req[r].token]]
    BY <1>3
  <2>2. \E n \in Request :
           /\ MovesTo(r, n) /\ n.pc = "saveToken" /\ n.id = c
           /\ n.token = req[r].token /\ n.knowsCard = req[r].knowsCard
           /\ n.snap = [active |-> clients[c].active, token |-> req[r].token]
    BY <1>2, <2>1
  <2> QED
    BY <2>1, <2>2
<1> QED
  BY <1>1, <1>3 DEF FindToken

LEMMA CodeProceeds ==
    ASSUME TypeOK, NEW r \in Requests, CreateCode(r)
    PROVE  Proceeds(r, "bind")
<1> DEFINE n == [req[r] EXCEPT !.pc = "bind", !.made = @ + 1]
<1>1. /\ n.pc = "bind" /\ n.id = req[r].id /\ n.snap = req[r].snap
      /\ n.token = req[r].token /\ n.knowsCard = req[r].knowsCard
  BY HeldTyped DEF Request
<1>2. n \in Request
  BY HeldTyped, RequestTyped
<1>3. MovesTo(r, n)
  BY DEF CreateCode, TypeOK, MovesTo
<1> HIDE DEF n
<1> QED
  BY <1>1, <1>2, <1>3 DEF Proceeds

LEMMA OldTyped ==
    ASSUME TypeOK
    PROVE  /\ [old EXCEPT !.deleted = TRUE] \in OldCard
           /\ [old EXCEPT !.active = FALSE] \in OldCard
           /\ [old EXCEPT !.credits = @ + 1] \in OldCard
           /\ [old EXCEPT !.debits = @ + 1] \in OldCard
           /\ [old EXCEPT !.codes = @ + 1] \in OldCard
           /\ [old EXCEPT !.bound = @ + 1] \in OldCard
<1>1. /\ old \in OldCard
      /\ old.credits + 1 \in Nat /\ old.debits + 1 \in Nat
      /\ old.codes + 1 \in Nat /\ old.bound + 1 \in Nat
  BY DEF TypeOK, OldCard
<1>2. /\ [old EXCEPT !.deleted = TRUE] \in OldCard
      /\ [old EXCEPT !.active = FALSE] \in OldCard
  BY <1>1 DEF OldCard
<1>3. [old EXCEPT !.credits = @ + 1] \in OldCard
  BY <1>1 DEF OldCard
<1>4. [old EXCEPT !.debits = @ + 1] \in OldCard
  BY <1>1 DEF OldCard
<1>5. [old EXCEPT !.codes = @ + 1] \in OldCard
  BY <1>1 DEF OldCard
<1>6. [old EXCEPT !.bound = @ + 1] \in OldCard
  BY <1>1 DEF OldCard
<1> QED
  BY <1>2, <1>3, <1>4, <1>5, <1>6

\* The steps of a request that proceeds or ends.
LEMMA TypedGoesOn ==
    ASSUME Typed, NEW r \in Requests,
           Ends(r) \/ \E pc : Proceeds(r, pc),
           clients' \in [Clients -> Row], old' \in OldCard,
           HistoryTyped',
           signed' = signed, holds' \in 0..signed
    PROVE  Typed'
<1>1. signed \in Nat /\ req[r].token <= signed /\ 0 <= signed
  BY DEF Typed, TypeOK
<1>2. CASE Ends(r)
  <2>1. MovesTo(r, Idle)
    BY <1>2 DEF Ends, MovesTo
  <2> QED
    BY <1>1, <2>1, IdleTyped, TypedMove
<1>3. CASE \E pc : Proceeds(r, pc)
  BY <1>1, <1>3, TypedMove DEF Proceeds
<1> QED
  BY <1>2, <1>3

LEMMA TypedStep ==
    ASSUME Typed, NEW r \in Requests, AccountStep(r)
    PROVE  Typed'
<1>0. /\ TypeOK /\ req[r].token <= signed /\ signed \in Nat /\ holds \in 0..signed
      /\ clients \in [Clients -> Row] /\ old \in OldCard
      /\ UNCHANGED <<spent, trouble, restores>> \/ Counted => HistoryTyped'
      /\ Answer(r) \/ Update(r) => HistoryTyped'
  BY HistoryMoves DEF Typed, TypeOK
<1>1. CASE RegisterRead(r)
  <2>1. PICK n \in Request : MovesTo(r, n) /\ n.token = signed'
    BY <1>0, <1>1, RegisterStarts
  <2>2. Counted /\ signed' = signed + 1 /\ UNCHANGED <<clients, holds, old>>
    BY <1>0, <1>1, RegisterStarts
  <2> QED
    BY <1>0, <2>1, <2>2, TypedMove
<1>2. CASE LoginRead(r)
  <2>1. PICK n \in Request : MovesTo(r, n) /\ n.token = signed'
    BY <1>0, <1>2, LoginStarts
  <2>2. Counted /\ signed' = signed + 1 /\ UNCHANGED <<clients, holds, old>>
    BY <1>0, <1>2, LoginStarts
  <2> QED
    BY <1>0, <2>1, <2>2, TypedMove
<1>3. CASE UpdateRead(r) \/ DeleteRead(r)
  <2>1. PICK n \in Request : MovesTo(r, n) /\ n.token = 0
    BY <1>0, <1>3, GuardedMoves
  <2>2. Counted /\ UNCHANGED <<clients, signed, holds, old>>
    BY <1>0, <1>3, GuardedMoves
  <2> QED
    BY <1>0, <2>1, <2>2, TypedMove
<1>4. CASE Reactivate(r)
  BY <1>0, <1>4, HeldTyped, SaveTyped, GoesProceeds, TypedGoesOn DEF Reactivate
<1>5. CASE ReactivateCard(r)
  BY <1>0, <1>5, CardTyped, GoesProceeds, TypedGoesOn DEF ReactivateCard
<1>6. CASE CreateClient(r)
  <2>1. PICK n \in Request : MovesTo(r, n) /\ n.token = req[r].token
    BY <1>0, <1>6, CreateProceeds
  <2>2. UNCHANGED <<signed, holds, old, spent, trouble, restores>>
    BY <1>6 DEF CreateClient
  <2> QED
    <3>1. clients' \in [Clients -> Row]
      BY <1>0, <1>6, CreateTyped
    <3> QED
      BY <1>0, <2>1, <2>2, <3>1, TypedMove
<1>7. CASE CreateCard(r)
  <2>1. PICK n \in Request : MovesTo(r, n) /\ n.token = req[r].token
    BY <1>0, <1>7, CardProceeds
  <2>2. UNCHANGED <<signed, holds, old, spent, trouble, restores>> /\ clients' \in [Clients -> Row]
    BY <1>0, <1>7, CardTyped DEF CreateCard, InsertCard
  <2> QED
    BY <1>0, <2>1, <2>2, TypedMove
<1>8. CASE FindToken(r)
  <2>1. PICK n \in Request : MovesTo(r, n) /\ n.token = req[r].token
    BY <1>0, <1>8, FindProceeds DEF Proceeds
  <2>2. UNCHANGED <<clients, signed, holds, old, spent, trouble, restores>>
    BY <1>8 DEF FindToken
  <2> QED
    BY <1>0, <2>1, <2>2, TypedMove
<1>9. CASE SaveToken(r)
  BY <1>0, <1>9, SaveTokenTyped, GoesProceeds, TypedGoesOn DEF SaveToken
<1>10. CASE Answer(r)
  <2>1. holds' \in 0..signed
    <3>1. req[r].token \in 0..signed
      <4>1. req[r].token \in Nat
        BY <1>0, HeldTyped
      <4> QED
        BY <1>0, <4>1
    <3> QED
      BY <1>0, <1>10, <3>1 DEF Answer
  <2> QED
    BY <1>0, <1>10, <2>1, TypedGoesOn DEF Answer
<1>11. CASE Update(r)
  <2>1. clients' \in [Clients -> Row]
    BY <1>0, <1>11, UpdateTyped, SaveTyped
  <2> QED
    BY <1>0, <1>11, <2>1, TypedGoesOn DEF Update
<1>12. CASE Deactivate(r)
  <2>1. Ends(r) \/ Goes(r, "deleteCard")
    BY <1>12 DEF Deactivate
  <2>2. UNCHANGED <<signed, holds, old, spent, trouble, restores>> /\ clients' \in [Clients -> Row]
    BY <1>0, <1>12, HeldTyped, SaveTyped DEF Deactivate
  <2> QED
    BY <1>0, <2>1, <2>2, GoesProceeds, TypedGoesOn
<1>13. CASE DeleteCard(r)
  BY <1>0, <1>13, CardTyped, TypedGoesOn DEF DeleteCard
<1> QED
  BY <1>1, <1>2, <1>3, <1>4, <1>5, <1>6, <1>7, <1>8, <1>9, <1>10, <1>11, <1>12,
     <1>13 DEF AccountStep

LEMMA TypedTransfer ==
    ASSUME Typed, NEW r \in Requests, TransferStep(r)
    PROVE  Typed'
<1>0. /\ TypeOK /\ req[r].token <= signed /\ signed \in Nat /\ holds \in 0..signed
      /\ clients \in [Clients -> Row] /\ old \in OldCard
      /\ UNCHANGED <<spent, trouble, restores>> \/ Counted => HistoryTyped'
      /\ Answer(r) \/ Update(r) => HistoryTyped'
  BY HistoryMoves DEF Typed, TypeOK
<1>1. CASE TransferRead(r)
  <2>1. PICK n \in Request : MovesTo(r, n) /\ n.token = 0
    BY <1>0, <1>1, GuardedMoves
  <2>2. Counted /\ UNCHANGED <<clients, signed, holds, old>>
    BY <1>0, <1>1, GuardedMoves
  <2> QED
    BY <1>0, <2>1, <2>2, TypedMove
<1>2. CASE ~TransferRead(r)
  <2>1. /\ UNCHANGED <<clients, signed, holds, spent, trouble, restores>>
        /\ old' \in OldCard
    BY <1>0, <1>2, OldTyped
    DEF TransferStep, DeleteOldCard, DeactivateOldClient, Credit, Debit, CreateCode, BindCode
  <2>2. \/ Ends(r) \/ CreateCode(r)
        \/ \E pc \in {"oldClient", "credit", "debit", "code"} : Goes(r, pc)
    BY <1>2
    DEF TransferStep, DeleteOldCard, DeactivateOldClient, Credit, Debit, BindCode
  <2>3. Ends(r) \/ \E pc : Proceeds(r, pc)
    BY <1>0, <2>2, GoesProceeds, CodeProceeds
  <2> QED
    BY <1>0, <2>1, <2>3, TypedGoesOn
<1> QED
  BY <1>1, <1>2

LEMMA TypedNext == Typed /\ [Next]_vars => Typed'
<1> SUFFICES ASSUME Typed, [Next]_vars PROVE Typed'
  OBVIOUS
<1>0. TypeOK
  BY DEF Typed
<1>1. CASE UNCHANGED vars
  BY <1>1 DEF vars, Typed, TypeOK
<1>2. ASSUME NEW r \in Requests, RequestError(r) PROVE Typed'
  BY <1>0, <1>2, HistoryMoves, TypedGoesOn DEF RequestError, TypeOK
<1>3. CASE Crash
  <2>1. /\ req' = [q \in Requests |-> Idle]
        /\ UNCHANGED <<clients, signed, holds, old>>
        /\ HistoryTyped'
    BY <1>0, <1>3, HistoryMoves DEF Crash
  <2> QED
    BY <1>0, <2>1, IdleTyped DEF Typed, TypeOK, HistoryTyped
<1> QED
  BY <1>1, <1>2, <1>3, TypedStep, TypedTransfer DEF Next

\* Which database it is does not change.
LEMMA RestoresFixed == TypeOK /\ [Next]_vars => restores' = restores
<1> SUFFICES ASSUME TypeOK, [Next]_vars PROVE restores' = restores
  OBVIOUS
<1>1. ASSUME NEW r \in Requests, AccountStep(r) PROVE restores' = restores
  BY <1>1, RegisterStarts, LoginStarts, GuardedMoves
  DEF Counted, AccountStep, Reactivate, ReactivateCard, CreateClient, CreateCard,
      FindToken, SaveToken, Answer, Update, Deactivate, DeleteCard
<1>2. ASSUME NEW r \in Requests, TransferStep(r) PROVE restores' = restores
  BY <1>2, GuardedMoves
  DEF Counted, TransferStep, DeleteOldCard, DeactivateOldClient, Credit, Debit,
      CreateCode, BindCode
<1>3. ASSUME NEW r \in Requests, RequestError(r) PROVE restores' = restores
  BY <1>3 DEF RequestError
<1> QED
  BY <1>1, <1>2, <1>3 DEF Next, Crash, vars

LEMMA AlwaysTyped == Spec => []Typed
  BY TypedInit, TypedNext, PTL DEF Spec

\* The state is well typed in every reachable state: the token the app holds
\* was signed, and nothing writes outside the columns.
THEOREM TypeCorrect == Spec => []TypeOK
<1>1. Typed => TypeOK
  BY DEF Typed
<1> QED
  BY AlwaysTyped, <1>1, PTL

----------------------------------------------------------------------------
(* The old balance *)

In(P) == {q \in Requests : req[q].pc \in P}
Count(P) == Cardinality(In(P))

LEMMA InFinite ==
    ASSUME NEW P
    PROVE  /\ IsFiniteSet(In(P)) /\ Count(P) \in Nat /\ Count(P) <= Cardinality(Requests)
           /\ IsFiniteSet(In(P)') /\ Count(P)' \in Nat
           /\ Count(P)' <= Cardinality(Requests)
<1>1. In(P) \in SUBSET Requests /\ In(P)' \in SUBSET Requests
  BY DEF In
<1> QED
  BY <1>1, ConstantsTyped, FS_Subset, FS_CardinalityType DEF Count

\* A request that moves leaves a stage, enters it, or does neither.
LEMMA InMoves ==
    ASSUME TypeOK, NEW r \in Requests, NEW n \in Request, MovesTo(r, n), NEW P
    PROVE  /\ (req[r].pc \in P <=> n.pc \in P) => Count(P)' = Count(P)
           /\ req[r].pc \notin P /\ n.pc \in P => Count(P)' = Count(P) + 1
           /\ req[r].pc \in P /\ n.pc \notin P => Count(P)' = Count(P) - 1
<1>1. req'[r] = n /\ \A q \in Requests : q # r => req'[q] = req[q]
  BY Moved
<1>2. ASSUME req[r].pc \in P <=> n.pc \in P PROVE Count(P)' = Count(P)
  <2>1. In(P)' = In(P)
    BY <1>1, <1>2 DEF In
  <2> QED
    BY <2>1 DEF Count
<1>3. ASSUME req[r].pc \notin P, n.pc \in P PROVE Count(P)' = Count(P) + 1
  <2>1. In(P)' = In(P) \cup {r} /\ r \notin In(P)
    BY <1>1, <1>3 DEF In
  <2> QED
    BY <2>1, InFinite, FS_AddElement DEF Count
<1>4. ASSUME req[r].pc \in P, n.pc \notin P PROVE Count(P)' = Count(P) - 1
  <2>1. In(P)' = In(P) \ {r} /\ r \in In(P)
    BY <1>1, <1>4 DEF In
  <2> QED
    BY <2>1, InFinite, FS_RemoveElement DEF Count
<1> QED
  BY <1>2, <1>3, <1>4

\* All requests are gone.
LEMMA InCrashed ==
    ASSUME Crash, NEW P, "idle" \notin P
    PROVE  Count(P)' = 0
<1>1. In(P)' = {}
  BY IdleTyped DEF Crash, In
<1> QED
  BY <1>1, FS_EmptySet DEF Count

LEMMA FaultsTyped ==
    ASSUME TypeOK
    PROVE  /\ Faults \in Nat
           /\ \A e \in Nat : spent'.errors = spent.errors + e /\ spent'.crashes = spent.crashes
                                => Faults' = Faults + e
           /\ spent'.errors = spent.errors /\ spent'.crashes = spent.crashes + 1
                 => Faults' = Faults + Cardinality(Requests)
<1> DEFINE n == Cardinality(Requests)
<1>1. n \in Nat /\ spent.errors \in Nat /\ spent.crashes \in Nat
  BY ConstantsTyped DEF TypeOK, Spent
<1>2. n * spent.crashes \in Nat /\ n * (spent.crashes + 1) = n * spent.crashes + n
  BY <1>1
<1> QED
  BY <1>1, <1>2 DEF Faults

\* How a disturbance or its absence changes the faults.
LEMMA FaultsMove ==
    ASSUME TypeOK
    PROVE  /\ UNCHANGED spent \/ Counted => Faults' = Faults
           /\ \A r \in Requests : Update(r) => Faults' = Faults
           /\ \A r \in Requests : RequestError(r) => Faults' = Faults + 1
           /\ Crash => Faults' = Faults + Cardinality(Requests)
<1>1. UNCHANGED spent \/ Counted =>
         spent'.errors = spent.errors + 0 /\ spent'.crashes = spent.crashes
  BY DEF TypeOK, Spent, Counted
<1>2. \A r \in Requests : RequestError(r) =>
         spent'.errors = spent.errors + 1 /\ spent'.crashes = spent.crashes
  BY DEF TypeOK, Spent, RequestError
<1>3. Crash => spent'.errors = spent.errors /\ spent'.crashes = spent.crashes + 1
  BY DEF TypeOK, Spent, Crash
<1>4. \A r \in Requests : Update(r) =>
         spent'.errors = spent.errors + 0 /\ spent'.crashes = spent.crashes
  <2> SUFFICES ASSUME NEW r \in Requests, Update(r)
               PROVE  spent'.errors = spent.errors + 0 /\ spent'.crashes = spent.crashes
    OBVIOUS
  <2>1. UNCHANGED spent \/ spent' = [spent EXCEPT !.switches = @ + 1]
    BY UpdateTyped
  <2> QED
    BY <2>1 DEF TypeOK, Spent
<1> QED
  BY <1>1, <1>2, <1>3, <1>4, FaultsTyped

\* The stages of a transfer whose requests are counted.
Stages == {"oldCard", "oldClient", "credit", "debit", "bind"}
Before == {"oldCard", "oldClient", "credit"}

BalanceInv ==
    /\ \A q \in Requests : req[q].pc \in {"oldClient", "credit"} => old.deleted
    /\ ~old.deleted => old.credits = 0
    /\ old.credits + Count(Before) <= Cardinality(Requests)
    /\ old.debits + Count({"debit"}) <= old.credits
    /\ old.credits - old.debits <= Count({"debit"}) + Faults
    /\ old.codes - old.bound <= Count({"bind"}) + Faults

LEMMA BalanceInit == Init => BalanceInv
<1> SUFFICES ASSUME Init PROVE BalanceInv
  OBVIOUS
<1>1. \A P : "idle" \notin P => Count(P) = 0
  <2> SUFFICES ASSUME NEW P, "idle" \notin P PROVE Count(P) = 0
    OBVIOUS
  <2>1. In(P) = {}
    BY IdleTyped DEF Init, In
  <2> QED
    BY <2>1, FS_EmptySet DEF Count
<1>2. Count(Before) = 0 /\ Count({"debit"}) = 0 /\ Count({"bind"}) = 0
  BY <1>1 DEF Before
<1>3. Faults \in Nat
  BY TypedInit, FaultsTyped DEF Typed
<1> QED
  BY <1>2, <1>3, ConstantsTyped, IdleTyped DEF Init, BalanceInv

\* The steps on the account keep out of the stages of a transfer.
LEMMA AccountOutside ==
    ASSUME TypeOK, NEW r \in Requests, AccountStep(r)
    PROVE  /\ UNCHANGED old /\ Faults' = Faults
           /\ req[r].pc \notin Stages
           /\ \E n \in Request : MovesTo(r, n) /\ n.pc \notin Stages
<1>1. CASE RegisterRead(r)
  BY <1>1, RegisterStarts, FaultsMove DEF Stages
<1>2. CASE LoginRead(r)
  BY <1>2, LoginStarts, FaultsMove DEF Stages
<1>3. CASE UpdateRead(r)
  <2>1. \E n \in Request : MovesTo(r, n) /\ n.pc \in {"update", "deactivate", "oldCard"}
                           /\ n.pc # "oldCard"
    <3>1. \E c \in Clients : Guarded(c) /\ Starts(r, WithClient(c, "update"))
      BY <1>3 DEF UpdateRead
    <3> QED
      BY <3>1, GuardedStarts
  <2> QED
    BY <1>3, <2>1, GuardedMoves, FaultsMove DEF Stages
<1>4. CASE DeleteRead(r)
  <2>1. \E n \in Request : MovesTo(r, n) /\ n.pc = "deactivate"
    <3>1. \E c \in Clients : Guarded(c) /\ Starts(r, WithClient(c, "deactivate"))
      BY <1>4 DEF DeleteRead
    <3> QED
      BY <3>1, GuardedStarts
  <2> QED
    BY <1>4, <2>1, GuardedMoves, FaultsMove DEF Stages
<1>5. CASE CreateClient(r)
  BY <1>5, CreateProceeds, FaultsMove DEF CreateClient, At, Stages
<1>6. CASE CreateCard(r)
  BY <1>6, CardProceeds, FaultsMove DEF CreateCard, At, Stages
<1>7. CASE FindToken(r)
  BY <1>7, FindProceeds, FaultsMove DEF FindToken, At, Stages, Proceeds
<1>8. CASE Reactivate(r) \/ ReactivateCard(r) \/ SaveToken(r) \/ Answer(r)
           \/ Update(r) \/ Deactivate(r) \/ DeleteCard(r)
  <2>1. /\ UNCHANGED old /\ (UNCHANGED spent \/ Update(r))
        /\ req[r].pc \in {"reactivate", "reactivateCard", "saveToken", "answer",
                          "update", "deactivate", "deleteCard"}
        /\ \/ Ends(r)
           \/ \E pc \in {"reactivateCard", "answer", "deleteCard"} : Goes(r, pc)
    BY <1>8
    DEF Reactivate, ReactivateCard, SaveToken, Answer, Update, Deactivate, DeleteCard, At
  <2>2. \E n \in Request :
           MovesTo(r, n) /\ n.pc \in {"idle", "reactivateCard", "answer", "deleteCard"}
    <3>1. CASE Ends(r)
      BY <3>1, IdleTyped DEF Ends, MovesTo
    <3>2. CASE \E pc \in {"reactivateCard", "answer", "deleteCard"} : Goes(r, pc)
      BY <3>2, GoesProceeds DEF Proceeds
    <3> QED
      BY <2>1, <3>1, <3>2
  <2> QED
    BY <2>1, <2>2, FaultsMove DEF Stages
<1> QED
  BY <1>1, <1>2, <1>3, <1>4, <1>5, <1>6, <1>7, <1>8 DEF AccountStep

\* Who may be past the deletion of the old card, after one request moved.
LEMMA DeletedMoves ==
    ASSUME TypeOK, BalanceInv, NEW r \in Requests, NEW n \in Request, MovesTo(r, n),
           n.pc \in {"oldClient", "credit"} => old'.deleted, old.deleted => old'.deleted
    PROVE  \A q \in Requests : req'[q].pc \in {"oldClient", "credit"} => old'.deleted
<1>1. req'[r] = n /\ \A q \in Requests : q # r => req'[q] = req[q]
  BY Moved
<1>2. \A q \in Requests : req[q].pc \in {"oldClient", "credit"} => old.deleted
  BY DEF BalanceInv
<1> QED
  BY <1>1, <1>2

LEMMA BalanceTyped ==
    ASSUME TypeOK
    PROVE  /\ old.credits \in Nat /\ old.debits \in Nat /\ old.codes \in Nat
           /\ old.bound \in Nat /\ Faults \in Nat /\ Cardinality(Requests) \in Nat
           /\ Count(Before) \in Nat /\ Count({"debit"}) \in Nat /\ Count({"bind"}) \in Nat
           /\ Count(Before) <= Cardinality(Requests)
           /\ Count({"debit"}) <= Cardinality(Requests)
           /\ Count({"bind"}) <= Cardinality(Requests)
           /\ Count(Before)' <= Cardinality(Requests)
BY InFinite, FaultsTyped, ConstantsTyped DEF TypeOK, OldCard

\* Where the steps of a transfer lead.
LEMMA TransferLeads ==
    ASSUME TypeOK, NEW r \in Requests
    PROVE  /\ TransferRead(r) => req[r].pc = "idle" /\ req'[r].pc = "oldCard"
           /\ DeleteOldCard(r) => req[r].pc = "oldCard" /\ req'[r].pc = "oldClient"
           /\ DeactivateOldClient(r) => req[r].pc = "oldClient"
                                        /\ req'[r].pc \in {"credit", "idle"}
           /\ Credit(r) => req[r].pc = "credit" /\ req'[r].pc = "debit"
           /\ Debit(r) => req[r].pc = "debit" /\ req'[r].pc \in {"code", "idle"}
           /\ CreateCode(r) => req[r].pc = "code" /\ req'[r].pc = "bind"
           /\ BindCode(r) => req[r].pc = "bind" /\ req'[r].pc \in {"code", "idle"}
<1>1. \A pc \in {"oldClient", "credit", "debit", "code"} : Goes(r, pc) => req'[r].pc = pc
  BY GoesProceeds, Moved DEF Proceeds
<1>2. Ends(r) => req'[r].pc = "idle"
  BY Ended, IdleTyped
<1>3. TransferRead(r) => req[r].pc = "idle" /\ req'[r].pc = "oldCard"
  <2> SUFFICES ASSUME TransferRead(r)
               PROVE  req[r].pc = "idle" /\ req'[r].pc = "oldCard"
    OBVIOUS
  <2>1. \E c \in Clients : Guarded(c) /\ Starts(r, WithClient(c, "oldCard"))
    BY DEF TransferRead
  <2> QED
    BY <2>1, GuardedStarts, Moved
<1>4. CreateCode(r) => req'[r].pc = "bind"
  BY CodeProceeds, Moved DEF Proceeds
<1>5. CreateCode(r) => req[r].pc = "code"
  BY DEF CreateCode, At
<1> QED
  BY <1>1, <1>2, <1>3, <1>4, <1>5
  DEF DeleteOldCard, DeactivateOldClient, Credit, Debit, BindCode, At

\* What they change.
LEMMA TransferLeaves ==
    ASSUME TypeOK, NEW r \in Requests, TransferStep(r)
    PROVE  Faults' = Faults
<1>1. CASE TransferRead(r)
  BY <1>1, GuardedMoves, FaultsMove
<1>2. CASE ~TransferRead(r)
  <2>1. UNCHANGED spent
    BY <1>2
    DEF TransferStep, DeleteOldCard, DeactivateOldClient, Credit, Debit, CreateCode, BindCode
  <2> QED
    BY <2>1, FaultsMove
<1> QED
  BY <1>1, <1>2

LEMMA BalanceStep ==
    ASSUME TypeOK, BalanceInv, NEW r \in Requests, NEW n \in Request, MovesTo(r, n),
           \/ req[r].pc \notin Stages /\ n.pc \notin Stages /\ UNCHANGED old
              /\ Faults' = Faults
           \/ TransferStep(r)
           \/ RequestError(r) /\ n = Idle
    PROVE  BalanceInv'
<1>0. req'[r] = n /\ (TransferStep(r) => Faults' = Faults)
  BY Moved, TransferLeaves
<1> DEFINE b == Count(Before)  d == Count({"debit"})  i == Count({"bind"})
           N == Cardinality(Requests)
<1>1. /\ ~old.deleted => old.credits = 0
      /\ old.credits + b <= N /\ old.debits + d <= old.credits
      /\ old.credits - old.debits <= d + Faults
      /\ old.codes - old.bound <= i + Faults
  BY DEF BalanceInv
<1>2. /\ old.credits \in Nat /\ old.debits \in Nat /\ old.codes \in Nat
      /\ old.bound \in Nat /\ Faults \in Nat /\ N \in Nat
      /\ b \in Nat /\ d \in Nat /\ i \in Nat /\ b' <= N
  BY BalanceTyped
<1>3. /\ (req[r].pc \in Before <=> n.pc \in Before) => b' = b
      /\ req[r].pc \notin Before /\ n.pc \in Before => b' = b + 1
      /\ req[r].pc \in Before /\ n.pc \notin Before => b' = b - 1
  BY InMoves
<1>4. /\ (req[r].pc = "debit" <=> n.pc = "debit") => d' = d
      /\ req[r].pc # "debit" /\ n.pc = "debit" => d' = d + 1
      /\ req[r].pc = "debit" /\ n.pc # "debit" => d' = d - 1
  <2>1. \A pc : pc \in {"debit"} <=> pc = "debit"
    OBVIOUS
  <2> HIDE DEF d
  <2> QED
    BY <2>1, InMoves DEF d
<1>5. /\ (req[r].pc = "bind" <=> n.pc = "bind") => i' = i
      /\ req[r].pc # "bind" /\ n.pc = "bind" => i' = i + 1
      /\ req[r].pc = "bind" /\ n.pc # "bind" => i' = i - 1
  <2>1. \A pc : pc \in {"bind"} <=> pc = "bind"
    OBVIOUS
  <2> QED
    BY <2>1, InMoves
<1>6. ASSUME n.pc \in {"oldClient", "credit"} => old'.deleted, old.deleted => old'.deleted,
             ~old'.deleted => old'.credits = 0,
             old'.credits + b' <= N, old'.debits + d' <= old'.credits,
             old'.credits - old'.debits <= d' + Faults',
             old'.codes - old'.bound <= i' + Faults'
      PROVE  BalanceInv'
  BY <1>6, DeletedMoves DEF BalanceInv
<1> HIDE DEF b, d, i, N
<1>7. CASE req[r].pc \notin Stages /\ n.pc \notin Stages /\ UNCHANGED old
           /\ Faults' = Faults
  BY <1>1, <1>2, <1>3, <1>4, <1>5, <1>6, <1>7 DEF Stages, Before
<1>8. CASE TransferRead(r)
  <2>1. /\ req[r].pc = "idle" /\ n.pc = "oldCard" /\ UNCHANGED old
        /\ ~old.deleted /\ Faults' = Faults
    <3>1. TransferStep(r) /\ UNCHANGED old /\ ~old.deleted
      BY <1>8 DEF TransferStep, TransferRead, Transferable
    <3>2. req[r].pc = "idle" /\ req'[r].pc = "oldCard"
      BY <1>8, TransferLeads
    <3> QED
      BY <1>0, <3>1, <3>2
  <2> QED
    BY <1>1, <1>2, <1>3, <1>4, <1>5, <1>6, <2>1 DEF Before
<1>9. CASE DeleteOldCard(r)
  <2>1. /\ req[r].pc = "oldCard" /\ n.pc = "oldClient" /\ Faults' = Faults
        /\ old' = [old EXCEPT !.deleted = TRUE]
    BY <1>9, <1>0, TransferLeads DEF TransferStep, DeleteOldCard
  <2>2. /\ old'.deleted /\ old'.credits = old.credits /\ old'.debits = old.debits
        /\ old'.codes = old.codes /\ old'.bound = old.bound
    BY <2>1 DEF TypeOK, OldCard
  <2> QED
    BY <1>1, <1>2, <1>3, <1>4, <1>5, <1>6, <2>1, <2>2 DEF Before
<1>10. CASE DeactivateOldClient(r)
  <2>1. /\ req[r].pc = "oldClient" /\ n.pc \in {"credit", "idle"} /\ Faults' = Faults
        /\ old' = [old EXCEPT !.active = FALSE]
    BY <1>10, <1>0, TransferLeads DEF TransferStep, DeactivateOldClient
  <2>2. /\ old'.deleted = old.deleted /\ old'.credits = old.credits
        /\ old'.debits = old.debits /\ old'.codes = old.codes /\ old'.bound = old.bound
    BY <2>1 DEF TypeOK, OldCard
  <2>3. old.deleted
    BY <2>1 DEF BalanceInv
  <2> QED
    BY <1>1, <1>2, <1>3, <1>4, <1>5, <1>6, <2>1, <2>2, <2>3 DEF Before
<1>11. CASE Credit(r)
  <2>1. /\ req[r].pc = "credit" /\ n.pc = "debit" /\ Faults' = Faults
        /\ old' = [old EXCEPT !.credits = @ + 1]
    BY <1>11, <1>0, TransferLeads DEF TransferStep, Credit
  <2>2. /\ old'.deleted = old.deleted /\ old'.credits = old.credits + 1
        /\ old'.debits = old.debits /\ old'.codes = old.codes /\ old'.bound = old.bound
    BY <2>1 DEF TypeOK, OldCard
  <2>3. old.deleted
    BY <2>1 DEF BalanceInv
  <2> QED
    BY <1>1, <1>2, <1>3, <1>4, <1>5, <1>6, <2>1, <2>2, <2>3 DEF Before
<1>12. CASE Debit(r)
  <2>1. /\ req[r].pc = "debit" /\ n.pc \in {"code", "idle"} /\ Faults' = Faults
        /\ old' = [old EXCEPT !.debits = @ + 1]
    BY <1>12, <1>0, TransferLeads DEF TransferStep, Debit
  <2>2. /\ old'.deleted = old.deleted /\ old'.credits = old.credits
        /\ old'.debits = old.debits + 1 /\ old'.codes = old.codes /\ old'.bound = old.bound
    BY <2>1 DEF TypeOK, OldCard
  <2> QED
    BY <1>1, <1>2, <1>3, <1>4, <1>5, <1>6, <2>1, <2>2 DEF Before
<1>13. CASE CreateCode(r)
  <2>1. /\ req[r].pc = "code" /\ n.pc = "bind" /\ Faults' = Faults
        /\ old' = [old EXCEPT !.codes = @ + 1]
    BY <1>13, <1>0, TransferLeads DEF TransferStep, CreateCode
  <2>2. /\ old'.deleted = old.deleted /\ old'.credits = old.credits
        /\ old'.debits = old.debits /\ old'.codes = old.codes + 1 /\ old'.bound = old.bound
    BY <2>1 DEF TypeOK, OldCard
  <2> QED
    BY <1>1, <1>2, <1>3, <1>4, <1>5, <1>6, <2>1, <2>2 DEF Before
<1>14. CASE BindCode(r)
  <2>1. /\ req[r].pc = "bind" /\ n.pc \in {"code", "idle"} /\ Faults' = Faults
        /\ old' = [old EXCEPT !.bound = @ + 1]
    BY <1>14, <1>0, TransferLeads DEF TransferStep, BindCode
  <2>2. /\ old'.deleted = old.deleted /\ old'.credits = old.credits
        /\ old'.debits = old.debits /\ old'.codes = old.codes /\ old'.bound = old.bound + 1
    BY <2>1 DEF TypeOK, OldCard
  <2> QED
    BY <1>1, <1>2, <1>3, <1>4, <1>5, <1>6, <2>1, <2>2 DEF Before
<1>15. CASE RequestError(r) /\ n = Idle
  <2>1. UNCHANGED old /\ Faults' = Faults + 1 /\ n.pc = "idle"
    BY <1>15, IdleTyped, FaultsMove DEF RequestError
  <2> QED
    BY <1>1, <1>2, <1>3, <1>4, <1>5, <1>6, <2>1 DEF Before
<1> QED
  BY <1>7, <1>8, <1>9, <1>10, <1>11, <1>12, <1>13, <1>14, <1>15 DEF TransferStep

LEMMA BalanceNext == TypeOK /\ BalanceInv /\ [Next]_vars => BalanceInv'
<1> SUFFICES ASSUME TypeOK, BalanceInv, [Next]_vars PROVE BalanceInv'
  OBVIOUS
<1>1. CASE UNCHANGED vars
  BY <1>1 DEF vars, BalanceInv, Count, In, Faults
<1>2. ASSUME NEW r \in Requests, AccountStep(r) PROVE BalanceInv'
  BY <1>2, AccountOutside, BalanceStep
<1>3. ASSUME NEW r \in Requests, TransferStep(r) PROVE BalanceInv'
  <2>1. \E n \in Request : MovesTo(r, n)
    <3>1. CASE TransferRead(r)
      BY <3>1, GuardedMoves
    <3>2. CASE ~TransferRead(r)
      <4>1. \/ Ends(r) \/ CreateCode(r)
            \/ \E pc \in {"oldClient", "credit", "debit", "code"} : Goes(r, pc)
        BY <1>3, <3>2
        DEF TransferStep, DeleteOldCard, DeactivateOldClient, Credit, Debit, BindCode
      <4>2. Ends(r) => MovesTo(r, Idle)
        BY DEF Ends, MovesTo
      <4> QED
        BY <4>1, <4>2, IdleTyped, GoesProceeds, CodeProceeds DEF Proceeds
    <3> QED
      BY <3>1, <3>2
  <2> QED
    BY <1>3, <2>1, BalanceStep
<1>4. ASSUME NEW r \in Requests, RequestError(r) PROVE BalanceInv'
  <2>1. MovesTo(r, Idle)
    BY <1>4 DEF RequestError, Ends, MovesTo
  <2> QED
    BY <1>4, <2>1, IdleTyped, BalanceStep
<1>5. CASE Crash
  <2>1. UNCHANGED old /\ Faults' = Faults + Cardinality(Requests)
    BY <1>5, FaultsMove DEF Crash
  <2>2. Count(Before)' = 0 /\ Count({"debit"})' = 0 /\ Count({"bind"})' = 0
    BY <1>5, InCrashed DEF Before
  <2>3. \A q \in Requests : req'[q].pc = "idle"
    BY <1>5, IdleTyped DEF Crash
  <2>4. /\ (\A q \in Requests : req'[q].pc \in {"oldClient", "credit"} => old'.deleted)
        /\ ~old'.deleted => old'.credits = 0
        /\ old'.credits + Count(Before)' <= Cardinality(Requests)
        /\ old'.debits + Count({"debit"})' <= old'.credits
    <3>1. /\ ~old.deleted => old.credits = 0
          /\ old.credits + Count(Before) <= Cardinality(Requests)
          /\ old.debits + Count({"debit"}) <= old.credits
      BY DEF BalanceInv
    <3>2. \A q \in Requests : req'[q].pc \in {"oldClient", "credit"} => old'.deleted
      BY <2>3
    <3> QED
      BY <2>1, <2>2, <3>1, <3>2, BalanceTyped
  <2>5. /\ old'.credits - old'.debits <= Count({"debit"})' + Faults'
        /\ old'.codes - old'.bound <= Count({"bind"})' + Faults'
    BY <2>1, <2>2, BalanceTyped DEF BalanceInv
  <2> QED
    BY <2>4, <2>5 DEF BalanceInv
<1> QED
  BY <1>1, <1>2, <1>3, <1>4, <1>5 DEF Next

----------------------------------------------------------------------------
(* Clients without a card *)

Halves == {c \in Made : clients[c].card = "none"}
HasCard(c) == c \in Made /\ clients[c].card # "none"

\* A request that will write the card of a client knows that it has one.
Carded(k) ==
    \/ k.pc \in {"reactivate", "reactivateCard", "deleteCard"}
    \/ k.pc = "deactivate" /\ k.knowsCard

\* A request about to insert a card has a client of its own that has none.
HalfInv ==
    /\ Made = 1..Cardinality(Made)
    /\ \A q \in Requests : req[q].pc = "card" => req[q].id \in Halves
    /\ \A p, q \in Requests :
          req[p].pc = "card" /\ req[q].pc = "card" /\ req[p].id = req[q].id => p = q
    /\ \A q \in Requests : Carded(req[q]) => HasCard(req[q].id)
    /\ Cardinality(Halves) <= Count({"card"}) + Faults

LEMMA HalvesFinite ==
    ASSUME TypeOK
    PROVE  IsFiniteSet(Halves) /\ Cardinality(Halves) \in Nat
<1>1. Halves \in SUBSET Made
  BY DEF Halves
<1> QED
  BY <1>1, MadeFinite, FS_Subset, FS_CardinalityType

LEMMA HalfInit == Init => HalfInv
<1> SUFFICES ASSUME Init PROVE HalfInv
  OBVIOUS
<1>1. Made = {} /\ Halves = {}
  BY DEF Init, Made, Halves, NoRow
<1>2. Cardinality({}) = 0 /\ 1..0 = {}
  BY FS_EmptySet
<1>3. Count({"card"}) \in Nat /\ Faults \in Nat
  BY InFinite, TypedInit, FaultsTyped DEF Typed
<1>4. \A q \in Requests : req[q].pc = "idle"
  BY IdleTyped DEF Init
<1> QED
  BY <1>1, <1>2, <1>3, <1>4 DEF HalfInv, Carded

LEMMA CardMoves ==
    ASSUME TypeOK, NEW r \in Requests, NEW n \in Request, MovesTo(r, n)
    PROVE  /\ (req[r].pc = "card" <=> n.pc = "card")
                 => Count({"card"})' = Count({"card"})
           /\ req[r].pc # "card" /\ n.pc = "card"
                 => Count({"card"})' = Count({"card"}) + 1
           /\ req[r].pc = "card" /\ n.pc # "card"
                 => Count({"card"})' = Count({"card"}) - 1
           /\ Count({"card"}) \in Nat
<1>1. \A pc : pc \in {"card"} <=> pc = "card"
  OBVIOUS
<1> QED
  BY <1>1, InMoves, InFinite

\* No client is inserted and none gets its first card.
CardsKept ==
    \A c \in Clients : /\ clients'[c].made = clients[c].made
                       /\ clients'[c].card = "none" <=> clients[c].card = "none"

LEMMA SetsKept ==
    ASSUME CardsKept
    PROVE  Made' = Made /\ Halves' = Halves /\ \A c : HasCard(c) <=> HasCard(c)'
BY DEF CardsKept, Made, Halves, HasCard

LEMMA HalfKept ==
    ASSUME TypeOK, HalfInv, CardsKept, NEW r \in Requests, NEW n \in Request,
           MovesTo(r, n), n.pc # "card", Carded(n) => HasCard(n.id),
           \/ Faults' = Faults /\ req[r].pc # "card"
           \/ Faults' = Faults + 1
    PROVE  HalfInv'
<1>1. Made' = Made /\ Halves' = Halves /\ \A c : HasCard(c) <=> HasCard(c)'
  BY SetsKept
<1>2. req'[r] = n /\ \A q \in Requests : q # r => req'[q] = req[q]
  BY Moved
<1>3. Cardinality(Halves) <= Count({"card"})' + Faults'
  <2>1. Cardinality(Halves) \in Nat /\ Faults \in Nat
    BY HalvesFinite, FaultsTyped
  <2>2. Cardinality(Halves) <= Count({"card"}) + Faults
    BY DEF HalfInv
  <2> QED
    BY <2>1, <2>2, CardMoves
<1>4. /\ \A q \in Requests : req'[q].pc = "card" => req'[q].id \in Halves
      /\ \A p, q \in Requests :
            req'[p].pc = "card" /\ req'[q].pc = "card" /\ req'[p].id = req'[q].id => p = q
  BY <1>2 DEF HalfInv
<1>5. \A q \in Requests : Carded(req'[q]) => HasCard(req'[q].id)
  BY <1>2 DEF HalfInv
<1> QED
  BY <1>1, <1>3, <1>4, <1>5 DEF HalfInv, Carded

LEMMA HalfCreated ==
    ASSUME TypeOK, HalfInv, NEW r \in Requests, CreateClient(r)
    PROVE  HalfInv'
<1>1. PICK n \in Request : MovesTo(r, n) /\ n.pc = "card" /\ n.id = NextId
  BY CreateProceeds
<1>2. req'[r] = n /\ \A q \in Requests : q # r => req'[q] = req[q]
  BY <1>1, Moved
<1>3. /\ NextId \in Clients /\ clients' \in [Clients -> Row]
      /\ \A d \in Clients \ {NextId} : clients'[d] = clients[d]
      /\ clients'[NextId].made = TRUE /\ clients'[NextId].card = "none"
  <2> DEFINE row == [made |-> TRUE, active |-> TRUE, token |-> req[r].token, card |-> "none"]
  <2>1. row.made = TRUE /\ row.card = "none"
    OBVIOUS
  <2> HIDE DEF row
  <2>2. clients'[NextId] = row
    BY CreateTyped DEF row
  <2> QED
    BY <2>1, <2>2, CreateTyped
<1>4. NextId \notin Made /\ NextId = Cardinality(Made) + 1 /\ Cardinality(Made) \in Nat
  BY MadeFinite DEF HalfInv, NextId
<1>5. Made' = Made \cup {NextId}
  BY <1>3 DEF Made
<1>6. Halves' = Halves \cup {NextId} /\ NextId \notin Halves
  BY <1>3, <1>4, <1>5 DEF Halves, Made
<1>7. Made' = 1..Cardinality(Made')
  <2>1. Cardinality(Made') = Cardinality(Made) + 1
    BY <1>4, <1>5, MadeFinite, FS_AddElement
  <2>2. Made = 1..Cardinality(Made)
    BY DEF HalfInv
  <2>3. 1..(Cardinality(Made) + 1) = 1..Cardinality(Made) \cup {Cardinality(Made) + 1}
    BY <1>4
  <2> QED
    BY <1>4, <1>5, <2>1, <2>2, <2>3
<1>8. Cardinality(Halves') <= Count({"card"})' + Faults'
  <2>1. Cardinality(Halves') = Cardinality(Halves) + 1
    BY <1>6, HalvesFinite, FS_AddElement
  <2>2. Cardinality(Halves) \in Nat /\ Faults \in Nat
    BY HalvesFinite, FaultsTyped
  <2>3. Cardinality(Halves) <= Count({"card"}) + Faults
    BY DEF HalfInv
  <2>4. req[r].pc # "card" /\ Faults' = Faults
    BY FaultsMove DEF CreateClient, At
  <2> QED
    BY <1>1, <2>1, <2>2, <2>3, <2>4, CardMoves
<1>9. \A c : HasCard(c) => HasCard(c)'
  BY <1>3, <1>4, <1>5 DEF HasCard, Made
<1>10. \A q \in Requests : req'[q].pc = "card" => req'[q].id \in Halves'
  BY <1>1, <1>2, <1>6 DEF HalfInv
<1>11. \A p, q \in Requests :
          req'[p].pc = "card" /\ req'[q].pc = "card" /\ req'[p].id = req'[q].id => p = q
  BY <1>1, <1>2, <1>6 DEF HalfInv
<1>12. (\A q \in Requests : Carded(req[q]) => HasCard(req[q].id))'
  BY <1>1, <1>2, <1>9 DEF HalfInv, Carded
<1> QED
  BY <1>7, <1>8, <1>10, <1>11, <1>12 DEF HalfInv, Carded

LEMMA HalfCompleted ==
    ASSUME TypeOK, HalfInv, NEW r \in Requests, CreateCard(r)
    PROVE  HalfInv'
<1> DEFINE id == req[r].id
<1>1. PICK n \in Request : MovesTo(r, n) /\ n.pc = "findToken"
  BY CardProceeds
<1>2. req'[r] = n /\ \A q \in Requests : q # r => req'[q] = req[q]
  BY <1>1, Moved
<1>3. req[r].pc = "card" /\ id \in Halves /\ id \in Clients /\ Faults' = Faults
  BY FaultsMove DEF CreateCard, At, HalfInv, Halves, Made
<1>4. /\ clients' \in [Clients -> Row] /\ clients'[id].card = "live"
      /\ \A d \in Clients : clients'[d].made = clients[d].made
      /\ \A d \in Clients : d # id => clients'[d] = clients[d]
  BY <1>3, CardTyped DEF CreateCard, InsertCard
<1>5. Made' = Made
  BY <1>4 DEF Made
<1>6. Halves' = Halves \ {id}
  BY <1>3, <1>4, <1>5 DEF Halves, Made
<1>7. Cardinality(Halves') <= Count({"card"})' + Faults'
  <2>1. Cardinality(Halves') = Cardinality(Halves) - 1
    BY <1>3, <1>6, HalvesFinite, FS_RemoveElement
  <2>2. Cardinality(Halves) \in Nat /\ Faults \in Nat
    BY HalvesFinite, FaultsTyped
  <2>3. Cardinality(Halves) <= Count({"card"}) + Faults
    BY DEF HalfInv
  <2> QED
    BY <1>1, <1>3, <2>1, <2>2, <2>3, CardMoves
<1>8. \A c : HasCard(c) => HasCard(c)'
  BY <1>4, <1>5 DEF HasCard, Made
<1>9. \A q \in Requests : req'[q].pc = "card" => req'[q].id \in Halves'
  BY <1>1, <1>2, <1>3, <1>6 DEF HalfInv
<1>10. \A p, q \in Requests :
          req'[p].pc = "card" /\ req'[q].pc = "card" /\ req'[p].id = req'[q].id => p = q
  BY <1>1, <1>2 DEF HalfInv
<1>11. (\A q \in Requests : Carded(req[q]) => HasCard(req[q].id))'
  BY <1>1, <1>2, <1>8 DEF HalfInv, Carded
<1>12. Made' = 1..Cardinality(Made')
  BY <1>5 DEF HalfInv
<1> QED
  BY <1>7, <1>9, <1>10, <1>11, <1>12 DEF HalfInv, Carded

LEMMA SameClients ==
    ASSUME UNCHANGED clients
    PROVE  CardsKept
BY DEF CardsKept

\* A request that proceeds, or ends, or fails.
LEMMA HalfGoesOn ==
    ASSUME TypeOK, HalfInv, CardsKept, NEW r \in Requests,
           \/ Ends(r)
           \/ \E pc : Proceeds(r, pc) /\ pc \notin {"card", "reactivate", "deactivate"}
                      /\ (pc \in {"reactivateCard", "deleteCard"} => Carded(req[r])),
           \/ Faults' = Faults /\ req[r].pc # "card"
           \/ Faults' = Faults + 1
    PROVE  HalfInv'
<1>1. CASE Ends(r)
  <2>1. MovesTo(r, Idle)
    BY <1>1 DEF Ends, MovesTo
  <2> QED
    BY <2>1, IdleTyped, HalfKept DEF Carded
<1>2. ASSUME NEW pc, Proceeds(r, pc), pc \notin {"card", "reactivate", "deactivate"},
             pc \in {"reactivateCard", "deleteCard"} => Carded(req[r])
      PROVE  HalfInv'
  <2>1. PICK n \in Request : MovesTo(r, n) /\ n.pc = pc /\ n.id = req[r].id
    BY <1>2 DEF Proceeds
  <2>2. Carded(n) => HasCard(n.id)
    BY <1>2, <2>1 DEF Carded, HalfInv
  <2>3. n.pc # "card"
    BY <1>2, <2>1
  <2> QED
    BY <2>1, <2>2, <2>3, HalfKept
<1> QED
  BY <1>1, <1>2

LEMMA SaveKeepsCards ==
    ASSUME TypeOK, NEW c, NEW columns \in Columns, Save(c, columns)
    PROVE  CardsKept
BY SaveTyped DEF CardsKept

\* A card that was there is written.
LEMMA WrittenCards ==
    ASSUME TypeOK, NEW c, HasCard(c), NEW card \in {"live", "deleted"},
           clients' = [clients EXCEPT ![c].card = card]
    PROVE  CardsKept
<1>1. /\ \A d \in Clients : clients'[d].made = clients[d].made
      /\ \A d \in Clients : d # c => clients'[d] = clients[d]
      /\ c \in Clients => clients'[c].card = card
  BY CardTyped
<1> QED
  BY <1>1 DEF HasCard, CardsKept

LEMMA FoundMade ==
    /\ \A c : Found(c) => c \in Made /\ c \in Clients
    /\ \A c, d : Found(c) /\ Found(d) => c = d
<1>1. \A c : Found(c) => c \in Made /\ c \in Clients
  BY DEF Found, Matching, Made
<1>2. ASSUME NEW c, NEW d, Found(c), Found(d) PROVE c = d
  <2>1. c \in Nat /\ d \in Nat /\ c <= d /\ d <= c
    BY <1>1, <1>2 DEF Found, Clients
  <2> QED
    BY <2>1
<1> QED
  BY <1>1, <1>2

LEMMA HalfStep ==
    ASSUME TypeOK, HalfInv, NEW r \in Requests, AccountStep(r)
    PROVE  HalfInv'
<1>0. Faults' = Faults
  BY AccountOutside
<1>1. CASE RegisterRead(r)
  <2>1. PICK n \in Request :
          /\ MovesTo(r, n)
          /\ \/ n.pc = "create"
             \/ \E c \in Clients : Found(c) /\ Closed(clients[c])
                                   /\ n.pc = "reactivate" /\ n.id = c
    BY <1>1, RegisterStarts
  <2>2. n.pc # "card" /\ (Carded(n) => HasCard(n.id))
    BY <2>1, FoundMade DEF Carded, HasCard, Closed
  <2>3. UNCHANGED clients /\ req[r].pc = "idle"
    BY <1>1, RegisterStarts
  <2> QED
    BY <1>0, <2>1, <2>2, <2>3, SameClients, HalfKept
<1>2. CASE LoginRead(r)
  <2>1. PICK n \in Request : MovesTo(r, n) /\ n.pc = "findToken"
    BY <1>2, LoginStarts
  <2>2. UNCHANGED clients /\ req[r].pc = "idle"
    BY <1>2, LoginStarts
  <2> QED
    BY <1>0, <2>1, <2>2, SameClients, HalfKept DEF Carded
<1>3. CASE UpdateRead(r) \/ DeleteRead(r)
  <2>1. PICK n \in Request :
          \E c \in Clients : /\ MovesTo(r, n) /\ Found(c) /\ n.id = c
                             /\ n.pc \in {"update", "deactivate", "oldCard"}
                             /\ n.knowsCard = (clients[c].card # "none")
    BY <1>3, GuardedMoves
  <2>2. n.pc # "card" /\ (Carded(n) => HasCard(n.id))
    BY <2>1, FoundMade DEF Carded, HasCard
  <2>3. UNCHANGED clients /\ req[r].pc = "idle"
    BY <1>3, GuardedMoves
  <2> QED
    BY <1>0, <2>1, <2>2, <2>3, SameClients, HalfKept
<1>4. CASE Reactivate(r)
  <2>1. Proceeds(r, "reactivateCard") /\ req[r].pc = "reactivate" /\ CardsKept
    BY <1>4, HeldTyped, GoesProceeds, SaveKeepsCards DEF Reactivate, At
  <2> QED
    BY <1>0, <2>1, HalfGoesOn DEF Carded
<1>5. CASE ReactivateCard(r)
  <2>1. Proceeds(r, "answer") /\ req[r].pc = "reactivateCard"
    BY <1>5, GoesProceeds DEF ReactivateCard, At
  <2>2. HasCard(req[r].id)
    BY <2>1 DEF HalfInv, Carded
  <2>3. CardsKept
    BY <1>5, <2>2, WrittenCards DEF ReactivateCard
  <2> QED
    BY <1>0, <2>1, <2>3, HalfGoesOn
<1>6. CASE FindToken(r)
  <2>1. PICK n \in Request : MovesTo(r, n) /\ n.pc \in {"saveToken", "answer"}
    BY <1>6, FindProceeds DEF Proceeds
  <2>2. UNCHANGED clients /\ req[r].pc = "findToken"
    BY <1>6 DEF FindToken, At
  <2> QED
    BY <1>0, <2>1, <2>2, SameClients, HalfKept DEF Carded
<1>7. CASE SaveToken(r)
  <2>1. Proceeds(r, "answer") /\ req[r].pc = "saveToken" /\ CardsKept
    BY <1>7, GoesProceeds, SaveTokenTyped DEF SaveToken, At, CardsKept
  <2> QED
    BY <1>0, <2>1, HalfGoesOn
<1>8. CASE Answer(r)
  <2>1. Ends(r) /\ req[r].pc = "answer" /\ CardsKept
    BY <1>8, SameClients DEF Answer, At
  <2> QED
    BY <1>0, <2>1, HalfGoesOn
<1>9. CASE Update(r)
  <2>1. Ends(r) /\ req[r].pc = "update" /\ CardsKept
    BY <1>9, UpdateTyped, SaveKeepsCards DEF Update, At
  <2> QED
    BY <1>0, <2>1, HalfGoesOn
<1>10. CASE Deactivate(r)
  <2>1. req[r].pc = "deactivate" /\ CardsKept
    BY <1>10, HeldTyped, SaveKeepsCards DEF Deactivate, At
  <2>2. Ends(r) \/ (req[r].knowsCard /\ Proceeds(r, "deleteCard"))
    <3>1. Ends(r) \/ (req[r].knowsCard /\ Goes(r, "deleteCard"))
      BY <1>10 DEF Deactivate
    <3> QED
      BY <3>1, GoesProceeds
  <2> QED
    BY <1>0, <2>1, <2>2, HalfGoesOn DEF Carded
<1>11. CASE DeleteCard(r)
  <2>1. Ends(r) /\ req[r].pc = "deleteCard"
    BY <1>11 DEF DeleteCard, At
  <2>2. HasCard(req[r].id)
    BY <2>1 DEF HalfInv, Carded
  <2>3. CardsKept
    BY <1>11, <2>2, WrittenCards DEF DeleteCard
  <2> QED
    BY <1>0, <2>1, <2>3, HalfGoesOn
<1> QED
  BY <1>1, <1>2, <1>3, <1>4, <1>5, <1>6, <1>7, <1>8, <1>9, <1>10, <1>11,
     HalfCreated, HalfCompleted DEF AccountStep

\* A transfer leaves the clients alone and keeps out of their stages.
LEMMA TransferMoves ==
    ASSUME TypeOK, NEW r \in Requests, TransferStep(r)
    PROVE  /\ UNCHANGED <<clients, signed, holds>>
           /\ \E n \in Request :
                 /\ MovesTo(r, n)
                 /\ n.pc \in {"idle", "oldCard", "oldClient", "credit", "debit", "code", "bind"}
           /\ req[r].pc \in {"idle", "oldCard", "oldClient", "credit", "debit", "code", "bind"}
<1>1. UNCHANGED <<clients, signed, holds>>
  BY DEF TransferStep, TransferRead, DeleteOldCard, DeactivateOldClient, Credit, Debit,
         CreateCode, BindCode
<1>2. req[r].pc \in {"idle", "oldCard", "oldClient", "credit", "debit", "code", "bind"}
  BY TransferLeads DEF TransferStep
<1>3. CASE TransferRead(r)
  <2>1. \E c \in Clients : Guarded(c) /\ Starts(r, WithClient(c, "oldCard"))
    BY <1>3 DEF TransferRead
  <2>2. \E n \in Request : MovesTo(r, n) /\ n.pc = "oldCard"
    BY <2>1, GuardedStarts
  <2> QED
    BY <1>1, <1>2, <2>2
<1>4. CASE ~TransferRead(r)
  <2>1. \/ Ends(r) \/ CreateCode(r)
        \/ \E pc \in {"oldClient", "credit", "debit", "code"} : Goes(r, pc)
    BY <1>4
    DEF TransferStep, DeleteOldCard, DeactivateOldClient, Credit, Debit, BindCode
  <2>2. Ends(r) => MovesTo(r, Idle)
    BY DEF Ends, MovesTo
  <2>3. CreateCode(r) => \E n \in Request : MovesTo(r, n) /\ n.pc = "bind"
    BY CodeProceeds DEF Proceeds
  <2>4. \A pc \in {"oldClient", "credit", "debit", "code"} :
           Goes(r, pc) => \E n \in Request : MovesTo(r, n) /\ n.pc = pc
    BY GoesProceeds DEF Proceeds
  <2> QED
    BY <1>1, <1>2, <2>1, <2>2, <2>3, <2>4, IdleTyped
<1> QED
  BY <1>3, <1>4

LEMMA HalfNext == TypeOK /\ HalfInv /\ [Next]_vars => HalfInv'
<1> SUFFICES ASSUME TypeOK, HalfInv, [Next]_vars PROVE HalfInv'
  OBVIOUS
<1>1. CASE UNCHANGED vars
  BY <1>1 DEF vars, HalfInv, Count, In, Faults, Made, Halves, Carded, HasCard
<1>2. ASSUME NEW r \in Requests, TransferStep(r) PROVE HalfInv'
  BY <1>2, TransferMoves, TransferLeaves, SameClients, HalfKept DEF Carded
<1>3. ASSUME NEW r \in Requests, RequestError(r) PROVE HalfInv'
  <2>1. Ends(r) /\ UNCHANGED clients /\ Faults' = Faults + 1
    BY <1>3, FaultsMove DEF RequestError
  <2> QED
    BY <2>1, SameClients, HalfGoesOn
<1>4. CASE Crash
  <2>1. UNCHANGED clients /\ Faults' = Faults + Cardinality(Requests)
    BY <1>4, FaultsMove DEF Crash
  <2>2. Made' = Made /\ Halves' = Halves
    BY <2>1 DEF Made, Halves
  <2>3. Count({"card"})' = 0
    BY <1>4, InCrashed
  <2>4. \A q \in Requests : req'[q].pc = "idle"
    BY <1>4, IdleTyped DEF Crash
  <2>5. Cardinality(Halves) <= Faults'
    <3>1. Cardinality(Halves) <= Count({"card"}) + Faults
      BY DEF HalfInv
    <3> QED
      BY <2>1, <3>1, InFinite, FaultsTyped, HalvesFinite, ConstantsTyped
  <2>6. Faults' \in Nat
    BY <2>1, FaultsTyped, ConstantsTyped
  <2> QED
    BY <2>2, <2>3, <2>4, <2>5, <2>6 DEF HalfInv, Carded
<1> QED
  BY <1>1, <1>2, <1>3, <1>4, HalfStep DEF Next

\* Clients without a card, which can neither register nor log in, are no more
\* than registrations between their two rows and calls that failed there.
THEOREM HalfAccountsExplained == Spec => []HalfAccountsHaveACause
<1>1. Typed => TypeOK
  BY DEF Typed
<1>2. HalfInv => HalfAccountsHaveACause
  <2>1. In({"card"}) = {r \in Requests : At(r, "card")}
    BY DEF In, At
  <2> QED
    BY <2>1 DEF HalfInv, HalfAccountsHaveACause, Count, Halves
<1> QED
  BY AlwaysTyped, HalfInit, HalfNext, <1>1, <1>2, PTL DEF Spec

----------------------------------------------------------------------------
(* What a transfer left alone does not lose *)

Lossless ==
    old.deleted /\ old.credits = 0 =>
       \E q \in Requests : req[q].pc \in {"oldClient", "credit"}

\* One request at a time, and none that transfers without a card of its own.
Apart ==
    /\ \A p, q \in Requests : req[p].pc # "idle" /\ req[q].pc # "idle" => p = q
    /\ \A q \in Requests : req[q].pc \in Before => req[q].knowsCard = TRUE
    /\ Lossless

LossInv == Interference = 0 => Apart

LEMMA LossInit == Init => LossInv
<1> SUFFICES ASSUME Init PROVE LossInv
  OBVIOUS
<1>1. \A q \in Requests : req[q].pc = "idle"
  BY IdleTyped DEF Init
<1>2. ~old.deleted
  BY DEF Init
<1> QED
  BY <1>1, <1>2 DEF LossInv, Apart, Lossless, Before

\* A step after which nothing interfered came where nothing had.
LEMMA StaysApart ==
    ASSUME TypeOK, Interference' = 0
    PROVE  /\ UNCHANGED spent \/ Counted \/ (\E r \in Requests : Update(r))
                 => Interference = 0 /\ Faults = 0
           /\ Counted => Busy = {}
           /\ ~Crash /\ \A r \in Requests : ~RequestError(r)
<1> DEFINE o == spent.overlaps  e == spent.errors  c == spent.crashes
<1>1. o \in Nat /\ e \in Nat /\ c \in Nat
  BY DEF TypeOK, Spent
<1>2. Counted => Busy = {}
  <2> SUFFICES ASSUME Counted, Busy # {} PROVE FALSE
    OBVIOUS
  <2>1. o' = o + 1 /\ e' = e /\ c' = c
    BY DEF Counted
  <2> HIDE DEF o, e, c
  <2>2. o' + e' + c' # 0
    BY <1>1, <2>1
  <2> QED
    BY <2>2 DEF Interference, o, e, c
<1>3. UNCHANGED spent \/ Counted \/ (\E r \in Requests : Update(r))
         => o' = o /\ e' = e /\ c' = c
  <2>1. ASSUME NEW r \in Requests, Update(r) PROVE o' = o /\ e' = e /\ c' = c
    <3>1. UNCHANGED spent \/ spent' = [spent EXCEPT !.switches = @ + 1]
      BY <2>1, UpdateTyped
    <3> QED
      BY <3>1 DEF TypeOK, Spent
  <2> QED
    BY <1>2, <2>1 DEF Counted
<1>4. (o' = o /\ e' = e /\ c' = c) => o = 0 /\ e = 0 /\ c = 0
  <2> SUFFICES ASSUME o' = o, e' = e, c' = c PROVE o = 0 /\ e = 0 /\ c = 0
    OBVIOUS
  <2>1. o + e + c = 0
    BY DEF Interference
  <2> HIDE DEF o, e, c
  <2> QED
    BY <1>1, <2>1
<1>5. o = 0 /\ e = 0 /\ c = 0 => Interference = 0 /\ Faults = 0
  BY ConstantsTyped DEF Interference, Faults
<1>6. \A r \in Requests : ~RequestError(r)
  <2> SUFFICES ASSUME NEW r \in Requests, RequestError(r) PROVE FALSE
    OBVIOUS
  <2>1. o' = o /\ e' = e + 1 /\ c' = c
    BY DEF TypeOK, Spent, RequestError
  <2> HIDE DEF o, e, c
  <2>2. o' + e' + c' # 0
    BY <1>1, <2>1
  <2> QED
    BY <2>2 DEF Interference, o, e, c
<1>7. ~Crash
  <2> SUFFICES ASSUME Crash PROVE FALSE
    OBVIOUS
  <2>1. o' = o /\ e' = e /\ c' = c + 1
    BY DEF TypeOK, Spent, Crash
  <2> HIDE DEF o, e, c
  <2>2. o' + e' + c' # 0
    BY <1>1, <2>1
  <2> QED
    BY <2>2 DEF Interference, o, e, c
<1> HIDE DEF o, e, c
<1> QED
  BY <1>2, <1>3, <1>4, <1>5, <1>6, <1>7

\* When nobody is registering and nothing failed, every client has a card.
LEMMA CardsComplete ==
    ASSUME TypeOK, HalfInv, Faults = 0, Busy = {}
    PROVE  \A c \in Made : clients[c].card # "none"
<1>1. In({"card"}) = {}
  BY DEF In, Busy
<1>2. Count({"card"}) = 0
  BY <1>1, FS_EmptySet DEF Count
<1>3. Cardinality(Halves) = 0 /\ IsFiniteSet(Halves)
  <2>1. Cardinality(Halves) <= 0
    BY <1>2 DEF HalfInv
  <2> QED
    BY <2>1, HalvesFinite
<1>4. Halves = {}
  BY <1>3, FS_EmptySet
<1> QED
  BY <1>4 DEF Halves

\* A request moves that was under way, or starts where none was.
LEMMA ApartMove ==
    ASSUME TypeOK, Apart, NEW r \in Requests, NEW n \in Request, MovesTo(r, n),
           req[r].pc # "idle" \/ Busy = {},
           n.pc \in Before => n.knowsCard = TRUE,
           \/ /\ old'.deleted = old.deleted /\ old'.credits = old.credits
              /\ req[r].pc \notin {"oldClient", "credit"}
           \/ n.pc \in {"oldClient", "credit"}
           \/ ~(old'.deleted /\ old'.credits = 0)
    PROVE  Apart'
<1>1. req'[r] = n /\ \A q \in Requests : q # r => req'[q] = req[q]
  BY Moved
<1>2. \A q \in Requests : q # r => req[q].pc = "idle"
  BY DEF Apart, Busy
<1>3. \A p, q \in Requests : req'[p].pc # "idle" /\ req'[q].pc # "idle" => p = q
  BY <1>1, <1>2
<1>4. \A q \in Requests : req'[q].pc \in Before => req'[q].knowsCard = TRUE
  BY <1>1 DEF Apart
<1>5. Lossless'
  BY <1>1, <1>2 DEF Lossless, Apart
<1> QED
  BY <1>3, <1>4, <1>5 DEF Apart, Before

LEMMA ApartAccount ==
    ASSUME TypeOK, Apart, NEW r \in Requests, AccountStep(r),
           Counted => Busy = {}
    PROVE  Apart'
<1>1. UNCHANGED old /\ req[r].pc \notin Stages
  BY AccountOutside
<1>2. PICK n \in Request : MovesTo(r, n) /\ n.pc \notin Stages
  BY AccountOutside
<1>3. req[r].pc # "idle" \/ Busy = {}
  <2>1. CASE RegisterRead(r) \/ LoginRead(r) \/ UpdateRead(r) \/ DeleteRead(r)
    <3>1. Counted
      BY <2>1, RegisterStarts, LoginStarts, GuardedMoves
    <3> QED
      BY <3>1
  <2>2. CASE ~(RegisterRead(r) \/ LoginRead(r) \/ UpdateRead(r) \/ DeleteRead(r))
    BY <2>2
    DEF AccountStep, Reactivate, ReactivateCard, CreateClient, CreateCard, FindToken,
        SaveToken, Answer, Update, Deactivate, DeleteCard, At
  <2> QED
    BY <2>1, <2>2
<1> QED
  BY <1>1, <1>2, <1>3, ApartMove DEF Stages, Before

LEMMA ApartTransfer ==
    ASSUME TypeOK, Apart, HalfInv, NEW r \in Requests, TransferStep(r), Faults = 0,
           Counted => Busy = {}
    PROVE  Apart'
<1>1. CASE TransferRead(r)
  <2>1. Counted /\ UNCHANGED old /\ req[r].pc = "idle"
    BY <1>1, GuardedMoves
  <2>2. PICK n \in Request : \E c \in Clients :
          /\ MovesTo(r, n) /\ Found(c) /\ n.pc \in {"update", "deactivate", "oldCard"}
          /\ n.knowsCard = (clients[c].card # "none")
    BY <1>1, GuardedMoves
  <2>3. n.knowsCard = TRUE
    BY <2>1, <2>2, FoundMade, CardsComplete
  <2> QED
    BY <2>1, <2>2, <2>3, ApartMove
<1>2. CASE ~TransferRead(r)
  <2>1. req[r].pc \in {"oldCard", "oldClient", "credit", "debit", "code", "bind"}
    BY <1>2, TransferLeads DEF TransferStep
  <2>2. req[r].pc \in Before => req[r].knowsCard = TRUE
    BY DEF Apart
  <2>3. /\ old.credits \in Nat
        /\ [old EXCEPT !.deleted = TRUE].credits = old.credits
        /\ \A x \in BOOLEAN : [old EXCEPT !.active = x].deleted = old.deleted
    BY DEF TypeOK, OldCard
  <2>4. ASSUME NEW pc \in {"oldClient", "credit", "debit", "code", "bind"}, Proceeds(r, pc),
               pc \in Before => req[r].pc \in Before,
               \/ /\ old'.deleted = old.deleted /\ old'.credits = old.credits
                  /\ req[r].pc \notin {"oldClient", "credit"}
               \/ pc \in {"oldClient", "credit"}
               \/ ~(old'.deleted /\ old'.credits = 0)
        PROVE  Apart'
    <3>1. PICK n \in Request :
            MovesTo(r, n) /\ n.pc = pc /\ n.knowsCard = req[r].knowsCard
      BY <2>4 DEF Proceeds
    <3> QED
      BY <2>1, <2>2, <2>4, <3>1, ApartMove
  <2>5. CASE DeleteOldCard(r)
    BY <2>4, <2>5, GoesProceeds, TransferLeads DEF DeleteOldCard, Before
  <2>6. CASE DeactivateOldClient(r)
    <3>1. req[r].pc = "oldClient"
      BY <2>6, TransferLeads
    <3>2. req[r].knowsCard = TRUE
      BY <2>2, <3>1 DEF Before
    <3> QED
      BY <2>4, <2>6, <3>1, <3>2, GoesProceeds DEF DeactivateOldClient, Before
  <2>7. CASE Credit(r)
    <3>1. old' = [old EXCEPT !.credits = @ + 1] /\ Proceeds(r, "debit")
      BY <2>7, GoesProceeds DEF Credit
    <3>2. old'.credits = old.credits + 1
      BY <3>1 DEF TypeOK, OldCard
    <3>3. old'.credits # 0
      BY <2>3, <3>2
    <3> QED
      BY <2>4, <3>1, <3>3 DEF Before
  <2>8. CASE Debit(r) \/ CreateCode(r) \/ BindCode(r)
    <3>1. req[r].pc \notin {"oldClient", "credit"}
      BY <2>8, TransferLeads
    <3>2. \/ old' = [old EXCEPT !.debits = @ + 1]
          \/ old' = [old EXCEPT !.codes = @ + 1]
          \/ old' = [old EXCEPT !.bound = @ + 1]
      BY <2>8 DEF Debit, CreateCode, BindCode
    <3>3. old'.deleted = old.deleted /\ old'.credits = old.credits
      BY <3>2 DEF TypeOK, OldCard
    <3>4. Ends(r) \/ Proceeds(r, "code") \/ Proceeds(r, "bind")
      BY <2>8, GoesProceeds, CodeProceeds DEF Debit, BindCode
    <3>5. CASE Ends(r)
      <4>1. MovesTo(r, Idle)
        BY <3>5 DEF Ends, MovesTo
      <4> QED
        BY <2>1, <3>1, <3>3, <4>1, IdleTyped, ApartMove DEF Before
    <3> QED
      BY <2>4, <3>1, <3>3, <3>4, <3>5 DEF Before
  <2> QED
    BY <1>2, <2>5, <2>6, <2>7, <2>8 DEF TransferStep
<1> QED
  BY <1>1, <1>2

LEMMA LossNext == TypeOK /\ HalfInv /\ LossInv /\ [Next]_vars => LossInv'
<1> SUFFICES ASSUME TypeOK, HalfInv, LossInv, [Next]_vars, Interference' = 0 PROVE Apart'
  BY DEF LossInv
<1>1. CASE UNCHANGED vars
  BY <1>1 DEF vars, LossInv, Interference, Apart, Lossless
<1>2. ASSUME NEW r \in Requests, AccountStep(r) PROVE Apart'
  <2>1. UNCHANGED spent \/ Counted \/ Update(r)
    <3>1. CASE RegisterRead(r) \/ LoginRead(r) \/ UpdateRead(r) \/ DeleteRead(r)
      BY <3>1, RegisterStarts, LoginStarts, GuardedMoves
    <3>2. CASE ~(RegisterRead(r) \/ LoginRead(r) \/ UpdateRead(r) \/ DeleteRead(r))
      BY <1>2, <3>2
      DEF AccountStep, Reactivate, ReactivateCard, CreateClient, CreateCard, FindToken,
          SaveToken, Answer, Deactivate, DeleteCard
    <3> QED
      BY <3>1, <3>2
  <2> QED
    BY <1>2, <2>1, StaysApart, ApartAccount DEF LossInv
<1>3. ASSUME NEW r \in Requests, TransferStep(r) PROVE Apart'
  <2>1. UNCHANGED spent \/ Counted
    <3>1. CASE TransferRead(r)
      BY <3>1, GuardedMoves
    <3>2. CASE ~TransferRead(r)
      BY <1>3, <3>2
      DEF TransferStep, DeleteOldCard, DeactivateOldClient, Credit, Debit, CreateCode, BindCode
    <3> QED
      BY <3>1, <3>2
  <2> QED
    BY <1>3, <2>1, StaysApart, ApartTransfer DEF LossInv
<1> QED
  BY <1>1, <1>2, <1>3, StaysApart DEF Next

\* However transfers overlap, fail and crash, an old balance is credited no more
\* often than requests can hold it, never debited without a credit, and lost only
\* to an overlap, a failure or a crash.
THEOREM OldBalanceKept == Spec => []OldBalanceIsSafe
<1>1. Typed => TypeOK
  BY DEF Typed
<1>2. TypeOK /\ BalanceInv /\ LossInv => OldBalanceIsSafe
  <2> SUFFICES ASSUME TypeOK, BalanceInv, LossInv PROVE OldBalanceIsSafe
    OBVIOUS
  <2>1. /\ In({"debit"}) = {r \in Requests : At(r, "debit")}
        /\ In({"bind"}) = {r \in Requests : At(r, "bind")}
    BY DEF In, At
  <2>2. CreditsBounded
    BY BalanceTyped DEF BalanceInv, CreditsBounded
  <2>3. TransfersBalance
    <3>1. old.debits <= old.credits
      BY BalanceTyped DEF BalanceInv
    <3> QED
      BY <2>1, <3>1 DEF BalanceInv, TransfersBalance, Count
  <2>4. LossHasACause
    <3>1. Interference = 0 \/ Interference > 0
      BY DEF TypeOK, Spent, Interference
    <3> QED
      BY <3>1 DEF LossInv, Apart, Lossless, LossHasACause, At
  <2> QED
    BY <2>2, <2>3, <2>4 DEF OldBalanceIsSafe
<1> QED
  BY AlwaysTyped, BalanceInit, BalanceNext, HalfInit, HalfNext, LossInit, LossNext,
     <1>1, <1>2, PTL DEF Spec

----------------------------------------------------------------------------
(* One account *)

\* The requests that will write whether a client is active, or its card.
Changing == {"reactivate", "reactivateCard", "update", "deactivate", "deleteCard"}
Creating == \E q \in Requests : req[q].pc = "create"

Matched(row) == row.card # "none" => (row.active <=> row.card = "live")

\* A client is quiet when it is open or closed as a whole and no request under
\* way will change that.
Spares(k, c) ==
    k.id = c => /\ k.pc \notin Changing
                /\ k.pc = "card" => clients[c].active
                /\ k.pc = "saveToken" => k.snap.active = clients[c].active
Quiet(c) == Matched(clients[c]) /\ \A q \in Requests : Spares(req[q], c)

\* A request alone with its client is about to leave it quiet.
Fit(k, row) ==
    /\ k.pc \in {"reactivate", "reactivateCard"} => row.card = "deleted"
    /\ k.pc = "reactivate" => k.snap.active
    /\ k.pc = "reactivateCard" => row.active
    /\ k.pc \in {"update", "deactivate"} => Matched(row)
    /\ k.pc = "update" => k.snap.active = row.active
    /\ k.pc = "deactivate" => k.knowsCard = (row.card # "none")
    /\ k.pc = "deleteCard" => ~row.active
Served(c) ==
    \E z \in Requests : /\ Busy \subseteq {z} /\ req[z].pc \in Changing
                        /\ req[z].id = c /\ Fit(req[z], clients[c])

\* A registration that starts now finds an account, or one is already creating
\* its client.
Tame == Creating \/ \E c \in Clients : Found(c) /\ (Quiet(c) \/ Served(c))

\* The client a disturbance may have spoilt counts like one more.
Reserve == IF Tame THEN 0 ELSE 1

AccountsInv ==
    /\ \A q \in Requests : req[q].pc \in Changing \cup {"saveToken"} => req[q].id \in Made
    /\ Cardinality(Made) + Count({"create"}) + Reserve <= 1 + Disturbances

LEMMA DisturbancesMove ==
    ASSUME TypeOK
    PROVE  /\ Disturbances \in Nat
           /\ UNCHANGED spent \/ (Counted /\ Busy = {}) => Disturbances' = Disturbances
           /\ \A r \in Requests : Update(r) /\ ~UNCHANGED spent
                                   => Disturbances' = Disturbances + 1
           /\ Counted /\ Busy # {} => Disturbances' = Disturbances + 1
           /\ \A r \in Requests : RequestError(r) => Disturbances' = Disturbances + 1
           /\ Crash => Disturbances' = Disturbances + 1
<1> DEFINE o == spent.overlaps  e == spent.errors  c == spent.crashes  w == spent.switches
<1>1. o \in Nat /\ e \in Nat /\ c \in Nat /\ w \in Nat
  BY DEF TypeOK, Spent
<1>2. Counted /\ Busy # {} => o' = o + 1 /\ e' = e /\ c' = c /\ w' = w
  BY DEF Counted
<1>3. \A r \in Requests : RequestError(r) => o' = o /\ e' = e + 1 /\ c' = c /\ w' = w
  BY DEF TypeOK, Spent, RequestError
<1>4. Crash => o' = o /\ e' = e /\ c' = c + 1 /\ w' = w
  BY DEF TypeOK, Spent, Crash
<1>5. UNCHANGED spent \/ (Counted /\ Busy = {}) => o' = o /\ e' = e /\ c' = c /\ w' = w
  BY DEF Counted
<1>6. \A r \in Requests : Update(r) /\ ~UNCHANGED spent
                           => o' = o /\ e' = e /\ c' = c /\ w' = w + 1
  <2> SUFFICES ASSUME NEW r \in Requests, Update(r), ~UNCHANGED spent
               PROVE  o' = o /\ e' = e /\ c' = c /\ w' = w + 1
    OBVIOUS
  <2>1. spent' = [spent EXCEPT !.switches = @ + 1]
    BY UpdateTyped
  <2> QED
    BY <2>1 DEF TypeOK, Spent
<1>7. Disturbances = (o + e + c) + w /\ Disturbances' = (o' + e' + c') + w'
  BY DEF Disturbances, Interference
<1> HIDE DEF o, e, c, w
<1> QED
  BY <1>1, <1>2, <1>3, <1>4, <1>5, <1>6, <1>7

LEMMA CreateMoves ==
    ASSUME TypeOK, NEW r \in Requests, NEW n \in Request, MovesTo(r, n)
    PROVE  /\ (req[r].pc = "create" <=> n.pc = "create")
                 => Count({"create"})' = Count({"create"})
           /\ req[r].pc # "create" /\ n.pc = "create"
                 => Count({"create"})' = Count({"create"}) + 1
           /\ req[r].pc = "create" /\ n.pc # "create"
                 => Count({"create"})' = Count({"create"}) - 1
           /\ Count({"create"}) \in Nat
<1>1. \A pc : pc \in {"create"} <=> pc = "create"
  OBVIOUS
<1> QED
  BY <1>1, InMoves, InFinite

LEMMA ReserveTyped ==
    /\ Reserve \in {0, 1} /\ (Tame => Reserve = 0) /\ (~Tame => Reserve = 1)
    /\ Reserve' \in {0, 1} /\ (Tame' => Reserve' = 0) /\ (~Tame' => Reserve' = 1)
BY DEF Reserve

LEMMA AccountsInit == Init => AccountsInv
<1> SUFFICES ASSUME Init PROVE AccountsInv
  OBVIOUS
<1>1. Made = {}
  BY DEF Init, Made, NoRow
<1>2. \A q \in Requests : req[q].pc = "idle"
  BY IdleTyped DEF Init
<1>3. In({"create"}) = {}
  BY <1>2 DEF In
<1>4. Cardinality(Made) = 0 /\ Count({"create"}) = 0
  BY <1>1, <1>3, FS_EmptySet DEF Count
<1>5. Disturbances = 0
  BY DEF Init, Disturbances, Interference
<1> QED
  BY <1>2, <1>4, <1>5, ReserveTyped DEF AccountsInv, Changing

\* The requests that hold a client, after one of them moved.
LEMMA HeldMoves ==
    ASSUME TypeOK, AccountsInv, NEW r \in Requests, NEW n \in Request, MovesTo(r, n),
           Made \subseteq Made', n.pc \in Changing \cup {"saveToken"} => n.id \in Made'
    PROVE  \A q \in Requests : req'[q].pc \in Changing \cup {"saveToken"}
                                  => req'[q].id \in Made'
<1>1. req'[r] = n /\ \A q \in Requests : q # r => req'[q] = req[q]
  BY Moved
<1> QED
  BY <1>1 DEF AccountsInv

\* A quiet client stays quiet while a request moves that spares it.
LEMMA QuietKept ==
    ASSUME TypeOK, NEW r \in Requests, NEW n \in Request, MovesTo(r, n),
           NEW c \in Clients, Quiet(c), Matched(clients'[c]),
           clients'[c].active = clients[c].active, Spares(n, c)
    PROVE  Quiet(c)'
<1>1. req'[r] = n /\ \A q \in Requests : q # r => req'[q] = req[q]
  BY Moved
<1>2. \A q \in Requests : Spares(req'[q], c)
  BY <1>1 DEF Quiet
<1>3. \A q \in Requests : Spares(req[q], c)'
  BY <1>2 DEF Spares
<1> QED
  BY <1>3 DEF Quiet, Matched

\* A request alone with its client moves on.
LEMMA AloneMoves ==
    ASSUME TypeOK, NEW r \in Requests, NEW n \in Request, MovesTo(r, n),
           Busy \subseteq {r}, NEW c \in Clients
    PROVE  /\ n.pc \in Changing /\ n.id = c /\ Fit(n, clients'[c]) => Served(c)'
           /\ n.pc \in {"idle", "answer"} /\ Matched(clients'[c]) => Quiet(c)'
<1>1. req'[r] = n /\ \A q \in Requests : q # r => req'[q] = req[q]
  BY Moved
<1>2. Busy' \subseteq {r}
  BY <1>1 DEF Busy
<1>3. ASSUME n.pc \in {"idle", "answer"}
      PROVE  \A q \in Requests : req'[q].pc \in {"idle", "answer"}
  BY <1>1, <1>3 DEF Busy
<1>4. ASSUME n.pc \in {"idle", "answer"}
      PROVE  \A q \in Requests : Spares(req[q], c)'
  BY <1>3, <1>4 DEF Spares, Changing
<1>5. ASSUME n.pc \in Changing, n.id = c, Fit(n, clients'[c])
      PROVE  Served(c)'
  BY <1>1, <1>2, <1>5 DEF Served, Fit, Matched
<1>6. ASSUME n.pc \in {"idle", "answer"}, Matched(clients'[c])
      PROVE  Quiet(c)'
  BY <1>4, <1>6 DEF Quiet, Matched
<1> QED
  BY <1>5, <1>6

LEMMA TameKept ==
    ASSUME TypeOK, NEW r \in Requests, NEW n \in Request, MovesTo(r, n),
           Made' = Made, UNCHANGED restores, Tame, req[r].pc # "create",
           \A c \in Clients : Found(c) /\ (Quiet(c) \/ Served(c)) => Quiet(c)' \/ Served(c)'
    PROVE  Tame'
<1>1. req'[r] = n /\ \A q \in Requests : q # r => req'[q] = req[q]
  BY Moved
<1>2. Creating => Creating'
  BY <1>1 DEF Creating
<1>0. Made' = Made /\ restores' = restores
  OBVIOUS
<1>3. \A c : Found(c) => Found(c)'
  BY <1>0 DEF Found, Matching, Kept
<1> QED
  BY <1>2, <1>3 DEF Tame

\* A step that disturbs nothing and creates no client.
LEMMA AccountsKept ==
    ASSUME TypeOK, AccountsInv, NEW r \in Requests, NEW n \in Request, MovesTo(r, n),
           Made' = Made, UNCHANGED restores, Disturbances' = Disturbances,
           req[r].pc # "create", n.pc # "create",
           n.pc \in Changing \cup {"saveToken"} => n.id \in Made,
           Tame => \A c \in Clients : Found(c) /\ (Quiet(c) \/ Served(c))
                                         => Quiet(c)' \/ Served(c)'
    PROVE  AccountsInv'
<1>1. \A q \in Requests : req'[q].pc \in Changing \cup {"saveToken"} => req'[q].id \in Made'
  BY HeldMoves
<1>2. Tame => Tame'
  BY TameKept
<1>3. Count({"create"})' = Count({"create"}) /\ Count({"create"}) \in Nat
  BY CreateMoves
<1>4. Cardinality(Made) + Count({"create"}) + Reserve <= 1 + Disturbances
  BY DEF AccountsInv
<1>5. Cardinality(Made) + Count({"create"}) + Reserve' <= 1 + Disturbances
  BY <1>2, <1>3, <1>4, MadeFinite, ReserveTyped, DisturbancesMove
<1> QED
  BY <1>1, <1>3, <1>5 DEF AccountsInv, Changing

\* A disturbance pays for the client that may come of it, or for the one it spoils.
LEMMA AccountsDisturbed ==
    ASSUME TypeOK, AccountsInv, NEW r \in Requests, NEW n \in Request, MovesTo(r, n),
           Made' = Made, Disturbances' = Disturbances + 1,
           n.pc \in Changing \cup {"saveToken"} => n.id \in Made
    PROVE  AccountsInv'
<1>1. Made \subseteq Made'
  OBVIOUS
<1>2. \A q \in Requests : req'[q].pc \in Changing \cup {"saveToken"} => req'[q].id \in Made'
  BY <1>1, HeldMoves
<1>3. n.pc = "create" => Tame'
  BY Moved DEF Tame, Creating
<1>4. Cardinality(Made) + Count({"create"}) + Reserve <= 1 + Disturbances
  BY DEF AccountsInv
<1>5. Cardinality(Made) + Count({"create"})' + Reserve' <= 1 + Disturbances'
  <2>1. CASE n.pc = "create"
    <3>1. Count({"create"})' <= Count({"create"}) + 1 /\ Count({"create"})' \in Nat
      BY <2>1, CreateMoves
    <3> QED
      BY <1>3, <1>4, <2>1, <3>1, MadeFinite, ReserveTyped, DisturbancesMove, CreateMoves
  <2>2. CASE n.pc # "create"
    <3>1. Count({"create"})' <= Count({"create"}) /\ Count({"create"})' \in Int
      BY <2>2, CreateMoves
    <3> QED
      BY <1>4, <3>1, MadeFinite, ReserveTyped, DisturbancesMove, CreateMoves
  <2> QED
    BY <2>1, <2>2
<1> QED
  BY <1>1, <1>2, <1>5 DEF AccountsInv, Changing

\* A client at rest that makes a registration go on is not tame.
LEMMA AccountsStart ==
    ASSUME TypeOK, AccountsInv, restores, NEW r \in Requests,
           RegisterRead(r) \/ LoginRead(r) \/ UpdateRead(r) \/ DeleteRead(r)
              \/ TransferRead(r)
    PROVE  AccountsInv'
<1>0. /\ UNCHANGED clients /\ Made' = Made /\ req[r].pc = "idle" /\ Counted
      /\ UNCHANGED restores
  BY RegisterStarts, LoginStarts, GuardedMoves DEF Made, Counted
<1>1. \E n \in Request :
         /\ MovesTo(r, n)
         /\ \/ /\ n.pc = "create"
               /\ \/ Matching = {}
                  \/ \E c \in Clients : /\ Found(c) /\ clients[c].card # "none"
                                        /\ ~Exists(clients[c])
                                        /\ ~Closed(clients[c])
            \/ n.pc \in {"findToken", "oldCard"}
            \/ \E c \in Clients :
                  /\ Found(c) /\ n.id = c
                  /\ n.pc \in {"reactivate", "update", "deactivate"}
                  /\ n.pc = "reactivate" => Closed(clients[c]) /\ n.snap.active
                  /\ n.pc = "update" => n.snap.active = clients[c].active
                  /\ n.pc = "deactivate" => n.knowsCard = (clients[c].card # "none")
  <2>1. CASE RegisterRead(r)
    <3>1. PICK n \in Request :
            /\ MovesTo(r, n)
            /\ \/ /\ n.pc = "create"
                  /\ \/ Matching = {}
                     \/ \E c \in Clients : /\ Found(c) /\ clients[c].card # "none"
                                           /\ ~Exists(clients[c])
                                           /\ ~Closed(clients[c])
               \/ \E c \in Clients :
                     /\ Found(c) /\ Closed(clients[c])
                     /\ n.pc = "reactivate" /\ n.id = c
                     /\ n.snap = [active |-> TRUE, token |-> signed']
      BY <2>1, RegisterStarts
    <3>2. n.pc = "create" \/ n.snap.active
      BY <3>1
    <3> QED
      BY <3>1, <3>2
  <2>2. CASE LoginRead(r)
    BY <2>2, LoginStarts
  <2>3. CASE UpdateRead(r) \/ DeleteRead(r) \/ TransferRead(r)
    <3>1. PICK n \in Request : \E c \in Clients :
            /\ MovesTo(r, n) /\ Found(c)
            /\ n.pc \in {"update", "deactivate", "oldCard"}
            /\ n.id = c /\ n.snap = Snap(c) /\ n.knowsCard = (clients[c].card # "none")
      BY <2>3, GuardedMoves
    <3>2. PICK c \in Clients :
            /\ Found(c) /\ n.id = c /\ n.snap = Snap(c)
            /\ n.knowsCard = (clients[c].card # "none")
      BY <3>1
    <3>3. n.snap.active = clients[c].active
      BY <3>2, SnapTyped
    <3> QED
      BY <3>1, <3>2, <3>3
  <2> QED
    BY <2>1, <2>2, <2>3
<1>2. PICK n \in Request :
         /\ MovesTo(r, n)
         /\ \/ /\ n.pc = "create"
               /\ \/ Matching = {}
                  \/ \E c \in Clients : /\ Found(c) /\ clients[c].card # "none"
                                        /\ ~Exists(clients[c])
                                        /\ ~Closed(clients[c])
            \/ n.pc \in {"findToken", "oldCard"}
            \/ \E c \in Clients :
                  /\ Found(c) /\ n.id = c
                  /\ n.pc \in {"reactivate", "update", "deactivate"}
                  /\ n.pc = "reactivate" => Closed(clients[c]) /\ n.snap.active
                  /\ n.pc = "update" => n.snap.active = clients[c].active
                  /\ n.pc = "deactivate" => n.knowsCard = (clients[c].card # "none")
  BY <1>1
<1>3. n.pc \in Changing \cup {"saveToken"} => n.id \in Made
  BY <1>2, FoundMade DEF Changing
<1>4. CASE Busy # {}
  BY <1>0, <1>2, <1>3, <1>4, DisturbancesMove, AccountsDisturbed
<1>5. CASE Busy = {}
  <2>0. Disturbances' = Disturbances
    BY <1>0, <1>5, DisturbancesMove
  <2>1. \A q \in Requests : req[q].pc = "idle"
    BY <1>5 DEF Busy
  <2>2. ~Creating /\ \A c \in Clients : ~Served(c)
    BY <2>1 DEF Creating, Served, Changing
  <2>3. CASE n.pc = "create"
    <3>1. ~Tame
      <4> SUFFICES ASSUME NEW c \in Clients, Found(c), Quiet(c) PROVE FALSE
        BY <2>2 DEF Tame
      <4>1. PICK d \in Clients : /\ Found(d) /\ clients[d].card # "none"
                                 /\ ~Exists(clients[d]) /\ ~Closed(clients[d])
        BY <1>2, <2>3 DEF Found
      <4>2. d = c
        BY <4>1, FoundMade
      <4>3. clients[c].card \in {"none", "live", "deleted"}
        BY DEF TypeOK, Row
      <4> QED
        BY <4>1, <4>2, <4>3 DEF Quiet, Matched, Exists, Closed
    <3>2. Tame'
      BY <1>2, <2>3, Moved DEF Tame, Creating
    <3>3. Count({"create"})' = Count({"create"}) + 1 /\ Count({"create"}) \in Nat
      BY <1>0, <1>2, <2>3, CreateMoves
    <3>4. Cardinality(Made) + Count({"create"})' + Reserve' <= 1 + Disturbances
      BY <3>1, <3>2, <3>3, MadeFinite, ReserveTyped, DisturbancesMove DEF AccountsInv
    <3>5. \A q \in Requests :
             req'[q].pc \in Changing \cup {"saveToken"} => req'[q].id \in Made'
      BY <1>0, <1>2, <1>3, HeldMoves
    <3> QED
      BY <1>0, <2>0, <3>4, <3>5 DEF AccountsInv, Changing
  <2>4. CASE n.pc # "create"
    <3>1. ASSUME NEW c \in Clients, Found(c), Quiet(c)
          PROVE  Quiet(c)' \/ Served(c)'
      <4>1. CASE n.pc \in {"findToken", "oldCard"}
        <5>1. Spares(n, c)
          BY <4>1 DEF Spares, Changing
        <5>2. Matched(clients'[c]) /\ clients'[c].active = clients[c].active
          BY <1>0, <3>1 DEF Quiet
        <5> QED
          BY <1>2, <3>1, <5>1, <5>2, QuietKept
      <4>2. CASE n.pc \notin {"findToken", "oldCard"}
        <5>1. PICK d \in Clients :
                /\ Found(d) /\ n.id = d
                /\ n.pc \in {"reactivate", "update", "deactivate"}
                /\ n.pc = "reactivate" => Closed(clients[d]) /\ n.snap.active
                /\ n.pc = "update" => n.snap.active = clients[d].active
                /\ n.pc = "deactivate" => n.knowsCard = (clients[d].card # "none")
          BY <1>2, <2>4, <4>2
        <5>2. d = c
          BY <3>1, <5>1, FoundMade
        <5>3. Fit(n, clients[c])
          BY <3>1, <5>1, <5>2 DEF Fit, Quiet, Closed
        <5>4. n.pc \in Changing
          BY <5>1 DEF Changing
        <5> QED
          BY <1>0, <1>2, <1>5, <5>1, <5>2, <5>3, <5>4, AloneMoves
      <4> QED
        BY <4>1, <4>2
    <3> QED
      BY <1>0, <1>2, <1>3, <2>0, <2>2, <2>4, <3>1, AccountsKept
  <2> QED
    BY <2>3, <2>4
<1> QED
  BY <1>4, <1>5

\* A request moves that writes neither the card nor whether the client is active,
\* but as they are.
LEMMA AccountsSpared ==
    ASSUME TypeOK, AccountsInv, NEW r \in Requests, NEW n \in Request, MovesTo(r, n),
           Made' = Made, UNCHANGED <<spent, restores>>,
           req[r].pc \notin Changing \cup {"idle", "create"}, n.pc # "create",
           n.pc \in Changing \cup {"saveToken"} => n.id \in Made,
           \A c \in Clients : Found(c) /\ Quiet(c) =>
              /\ Matched(clients'[c]) /\ clients'[c].active = clients[c].active
              /\ Spares(n, c)
    PROVE  AccountsInv'
<1>1. \A c \in Clients : ~Served(c)
  BY DEF Served, Busy
<1>2. \A c \in Clients : Found(c) /\ Quiet(c) => Quiet(c)'
  BY QuietKept
<1> QED
  BY <1>1, <1>2, AccountsKept, DisturbancesMove

\* A request writes its client: the others are not touched, and if it is alone
\* with its client it goes on as expected.
LEMMA AccountsChanged ==
    ASSUME TypeOK, AccountsInv, NEW r \in Requests, NEW n \in Request, MovesTo(r, n),
           Made' = Made, UNCHANGED <<spent, restores>>, req[r].pc \in Changing, n.id \in {req[r].id, NoClient},
           \A d \in Clients : d # req[r].id => clients'[d] = clients[d],
           (n.pc \in Changing /\ n.id = req[r].id) \/ n.pc \in {"idle", "answer"},
           req[r].id \in Clients /\ Fit(req[r], clients[req[r].id]) =>
              IF n.pc \in Changing THEN Fit(n, clients'[req[r].id])
                                   ELSE Matched(clients'[req[r].id])
    PROVE  AccountsInv'
<1> DEFINE id == req[r].id
<1>1. id \in Made
  BY DEF AccountsInv
<1>2. n.pc \in Changing \cup {"saveToken"} => n.id \in Made
  BY <1>1 DEF Changing
<1>3. ASSUME NEW c \in Clients, Quiet(c) PROVE Quiet(c)'
  <2>1. c # id
    BY <1>3 DEF Quiet, Spares
  <2>2. clients'[c] = clients[c]
    BY <2>1
  <2>3. Spares(n, c)
    BY <2>1, <1>1 DEF Spares, Changing, NoClient, Made, Clients
  <2>4. Matched(clients'[c]) /\ clients'[c].active = clients[c].active
    BY <1>3, <2>2 DEF Quiet
  <2> QED
    BY <1>3, <2>3, <2>4, QuietKept
<1>4. ASSUME NEW c \in Clients, Served(c) PROVE Quiet(c)' \/ Served(c)'
  <2>1. req[r].pc # "idle"
    BY DEF Changing
  <2>2. c = id /\ Busy \subseteq {r} /\ Fit(req[r], clients[c])
    BY <1>4, <2>1 DEF Served, Busy
  <2>3. CASE n.pc \in Changing
    <3>1. n.id = c /\ Fit(n, clients'[c])
      BY <2>2, <2>3 DEF Changing
    <3> QED
      BY <2>2, <2>3, <3>1, AloneMoves
  <2>4. CASE n.pc \notin Changing
    <3>1. Matched(clients'[c]) /\ n.pc \in {"idle", "answer"}
      BY <2>2, <2>4
    <3> QED
      BY <2>2, <3>1, AloneMoves
  <2> QED
    BY <2>3, <2>4
<1>5. req[r].pc # "create" /\ n.pc # "create"
  BY DEF Changing
<1> QED
  BY <1>2, <1>3, <1>4, <1>5, AccountsKept, DisturbancesMove

LEMMA AccountsChanging ==
    ASSUME TypeOK, AccountsInv, NEW r \in Requests,
           Reactivate(r) \/ ReactivateCard(r) \/ Update(r) \/ Deactivate(r) \/ DeleteCard(r)
    PROVE  AccountsInv'
<1> DEFINE id == req[r].id
<1>0. req[r] \in Request /\ req[r].snap \in Columns /\ req[r].knowsCard \in BOOLEAN
  BY HeldTyped
<1>1. CASE Reactivate(r)
  <2>1. req[r].pc = "reactivate" /\ Save(id, req[r].snap) /\ UNCHANGED <<spent, restores>>
    BY <1>1 DEF Reactivate, At
  <2>2. PICK n \in Request : MovesTo(r, n) /\ n.pc = "reactivateCard" /\ n.id = id
    BY <1>1, GoesProceeds DEF Reactivate, Proceeds
  <2>3. Made' = Made
    BY <1>0, <2>1, SaveTyped DEF Made
  <2>4. id \in Clients /\ Fit(req[r], clients[id]) => Fit(n, clients'[id])
    BY <1>0, <2>1, <2>2, SaveTyped DEF Fit
  <2>5. \A d \in Clients : d # id => clients'[d] = clients[d]
    BY <1>0, <2>1, SaveTyped
  <2> QED
    BY <2>1, <2>2, <2>3, <2>4, <2>5, AccountsChanged DEF Changing
<1>2. CASE ReactivateCard(r)
  <2>1. /\ req[r].pc = "reactivateCard" /\ UNCHANGED <<spent, restores>>
        /\ clients' = [clients EXCEPT ![id].card = "live"]
    BY <1>2 DEF ReactivateCard, At
  <2>2. PICK n \in Request : MovesTo(r, n) /\ n.pc = "answer" /\ n.id = id
    BY <1>2, GoesProceeds DEF ReactivateCard, Proceeds
  <2>3. Made' = Made
    BY <2>1, CardTyped DEF Made
  <2>4. id \in Clients /\ Fit(req[r], clients[id]) => Matched(clients'[id])
    <3>1. id \in Clients => /\ clients'[id].active = clients[id].active
                            /\ clients'[id].card = "live"
      BY <2>1, CardTyped
    <3>2. Fit(req[r], clients[id]) => clients[id].active
      BY <2>1 DEF Fit
    <3> QED
      BY <3>1, <3>2 DEF Matched
  <2>5. \A d \in Clients : d # id => clients'[d] = clients[d]
    BY <2>1, CardTyped
  <2> QED
    BY <2>1, <2>2, <2>3, <2>4, <2>5, AccountsChanged DEF Changing
<1>3. CASE Update(r)
  <2>1. PICK columns \in Columns :
          /\ Save(id, columns)
          /\ \/ columns = req[r].snap /\ UNCHANGED spent
             \/ spent' = [spent EXCEPT !.switches = @ + 1]
    BY <1>3, UpdateTyped
  <2>0. spent' = [spent EXCEPT !.switches = @ + 1] => spent'.switches # spent.switches
    BY DEF TypeOK, Spent
  <2>2. MovesTo(r, Idle) /\ req[r].pc = "update" /\ UNCHANGED restores
    BY <1>3 DEF Update, At, Ends, MovesTo
  <2>3. Made' = Made
    BY <2>1, SaveTyped DEF Made
  <2>4. CASE ~UNCHANGED spent
    BY <1>3, <2>2, <2>3, <2>4, IdleTyped, DisturbancesMove, AccountsDisturbed DEF Changing
  <2>5. CASE UNCHANGED spent
    <3>1. columns = req[r].snap
      BY <2>0, <2>1, <2>5
    <3>2. id \in Clients => /\ clients'[id].active = req[r].snap.active
                            /\ clients'[id].card = clients[id].card
      BY <2>1, <3>1, SaveTyped
    <3>3. Fit(req[r], clients[id]) => /\ Matched(clients[id])
                                     /\ req[r].snap.active = clients[id].active
      BY <2>2 DEF Fit
    <3>4. id \in Clients /\ Fit(req[r], clients[id]) => Matched(clients'[id])
      BY <3>2, <3>3 DEF Matched
    <3>5. \A d \in Clients : d # id => clients'[d] = clients[d]
      BY <2>1, SaveTyped
    <3> QED
      BY <2>2, <2>3, <2>5, <3>4, <3>5, IdleTyped, AccountsChanged DEF Changing
  <2> QED
    BY <2>4, <2>5
<1>4. CASE Deactivate(r)
  <2> DEFINE columns == [req[r].snap EXCEPT !.active = FALSE]
  <2>1. columns \in Columns /\ columns.active = FALSE
    BY <1>0 DEF Columns
  <2>2. /\ req[r].pc = "deactivate" /\ Save(id, columns) /\ UNCHANGED <<spent, restores>>
        /\ IF req[r].knowsCard THEN Goes(r, "deleteCard") ELSE Ends(r)
    BY <1>4 DEF Deactivate, At
  <2> HIDE DEF columns
  <2>3. Made' = Made
    BY <2>1, <2>2, SaveTyped DEF Made
  <2>4. \A d \in Clients : d # id => clients'[d] = clients[d]
    BY <2>1, <2>2, SaveTyped
  <2>5. id \in Clients => clients'[id].active = FALSE /\ clients'[id].card = clients[id].card
    BY <2>1, <2>2, SaveTyped
  <2>6. CASE req[r].knowsCard
    <3>1. PICK n \in Request : MovesTo(r, n) /\ n.pc = "deleteCard" /\ n.id = id
      BY <2>2, <2>6, GoesProceeds DEF Proceeds
    <3>2. id \in Clients => Fit(n, clients'[id])
      BY <2>5, <3>1 DEF Fit
    <3> QED
      BY <2>2, <2>3, <2>4, <3>1, <3>2, AccountsChanged DEF Changing
  <2>7. CASE ~req[r].knowsCard
    <3>1. MovesTo(r, Idle)
      BY <2>2, <2>7 DEF Ends, MovesTo
    <3>2. id \in Clients /\ Fit(req[r], clients[id]) => Matched(clients'[id])
      BY <2>2, <2>5, <2>7 DEF Fit, Matched
    <3> QED
      BY <2>2, <2>3, <2>4, <3>1, <3>2, IdleTyped, AccountsChanged DEF Changing
  <2> QED
    BY <2>6, <2>7
<1>5. CASE DeleteCard(r)
  <2>1. /\ req[r].pc = "deleteCard" /\ UNCHANGED <<spent, restores>> /\ Ends(r)
        /\ clients' = [clients EXCEPT ![id].card = "deleted"]
    BY <1>5 DEF DeleteCard, At
  <2>2. MovesTo(r, Idle)
    BY <2>1 DEF Ends, MovesTo
  <2>3. Made' = Made
    BY <2>1, CardTyped DEF Made
  <2>4. id \in Clients /\ Fit(req[r], clients[id]) => Matched(clients'[id])
    BY <2>1, CardTyped DEF Fit, Matched
  <2>5. \A d \in Clients : d # id => clients'[d] = clients[d]
    BY <2>1, CardTyped
  <2> QED
    BY <2>1, <2>2, <2>3, <2>4, <2>5, IdleTyped, AccountsChanged DEF Changing
<1> QED
  BY <1>1, <1>2, <1>3, <1>4, <1>5

\* The new client is the latest, and quiet: nobody holds it but its creator.
LEMMA AccountsCreated ==
    ASSUME TypeOK, HalfInv, AccountsInv, restores, NEW r \in Requests, CreateClient(r)
    PROVE  AccountsInv'
<1>0. PICK new : new = NextId
  OBVIOUS
<1>1. PICK n \in Request : MovesTo(r, n) /\ n.pc = "card" /\ n.id = new
  BY <1>0, CreateProceeds
<1>2. req'[r] = n /\ \A q \in Requests : q # r => req'[q] = req[q]
  BY <1>1, Moved
<1>3. /\ new \in Clients /\ clients' \in [Clients -> Row]
      /\ \A d \in Clients \ {new} : clients'[d] = clients[d]
      /\ clients'[new].made = TRUE /\ clients'[new].card = "none"
      /\ clients'[new].active = TRUE
  <2> DEFINE row == [made |-> TRUE, active |-> TRUE, token |-> req[r].token, card |-> "none"]
  <2>1. row.made = TRUE /\ row.card = "none" /\ row.active = TRUE
    OBVIOUS
  <2> HIDE DEF row
  <2>2. clients'[new] = row
    BY <1>0, CreateTyped DEF row
  <2> QED
    BY <1>0, <2>1, <2>2, CreateTyped
<1>4. new \notin Made /\ new = Cardinality(Made) + 1 /\ Cardinality(Made) \in Nat
      /\ \A d \in Made : d <= new
  BY <1>0, MadeFinite DEF HalfInv, NextId
<1>5. Made' = Made \cup {new}
  BY <1>3 DEF Made
<1>6. Cardinality(Made') = Cardinality(Made) + 1
  BY <1>4, <1>5, MadeFinite, FS_AddElement
<1>7. Found(new)'
  <2>1. Matching' = Made' /\ restores'
    BY DEF Matching, Kept, CreateClient
  <2>2. new \in Made' /\ \A d \in Made' : d <= new
    BY <1>4, <1>5
  <2> QED
    BY <2>1, <2>2 DEF Found
<1>8. Quiet(new)'
  <2>1. \A q \in Requests : Spares(req[q], new)
    BY <1>4 DEF AccountsInv, Spares, HalfInv, Halves
  <2>2. ASSUME NEW q \in Requests, NEW c, c = new PROVE Spares(req[q], c)'
    <3>1. CASE q = r
      BY <1>1, <1>2, <1>3, <2>2, <3>1 DEF Spares, Changing
    <3>2. CASE q # r
      <4>1. req'[q] = req[q] /\ clients'[c].active = TRUE
        BY <1>2, <1>3, <2>2, <3>2
      <4>2. req[q].pc = "saveToken" => req[q].id # new
        BY <1>4 DEF AccountsInv
      <4> QED
        BY <2>1, <2>2, <4>1, <4>2 DEF Spares
    <3> QED
      BY <3>1, <3>2
  <2>3. ASSUME NEW c, c = new PROVE Matched(clients[c])'
    BY <1>3, <2>3 DEF Matched
  <2> QED
    BY <2>2, <2>3 DEF Quiet
<1>9. Tame'
  BY <1>3, <1>7, <1>8 DEF Tame
<1>10. req[r].pc = "create"
  BY DEF CreateClient, At
<1>11. Tame
  BY <1>10 DEF Tame, Creating
<1>12. Count({"create"})' = Count({"create"}) - 1 /\ Count({"create"}) \in Nat
  BY <1>1, <1>10, CreateMoves
<1>13. UNCHANGED spent
  BY DEF CreateClient
<1>14. Cardinality(Made') + Count({"create"})' + Reserve' <= 1 + Disturbances'
  BY <1>4, <1>6, <1>9, <1>11, <1>12, <1>13, ReserveTyped, DisturbancesMove DEF AccountsInv
<1>15. \A q \in Requests : req'[q].pc \in Changing \cup {"saveToken"} => req'[q].id \in Made'
  BY <1>1, <1>5, HeldMoves DEF Changing
<1> QED
  BY <1>14, <1>15 DEF AccountsInv, Changing

\* The steps between, that write nothing or what is there.
LEMMA AccountsBetween ==
    ASSUME TypeOK, AccountsInv, NEW r \in Requests,
           \/ CreateCard(r) \/ FindToken(r) \/ SaveToken(r) \/ Answer(r)
           \/ TransferStep(r) /\ ~TransferRead(r)
    PROVE  AccountsInv'
<1> DEFINE id == req[r].id
<1>0. req[r] \in Request /\ req[r].snap \in Columns
  BY HeldTyped
<1>1. CASE CreateCard(r)
  <2>1. /\ req[r].pc = "card" /\ UNCHANGED <<spent, restores>>
        /\ clients' = [clients EXCEPT ![id].card = "live"]
    BY <1>1 DEF CreateCard, InsertCard, At
  <2>2. PICK n \in Request : MovesTo(r, n) /\ n.pc = "findToken"
    BY <1>1, CardProceeds
  <2>3. Made' = Made
    BY <2>1, CardTyped DEF Made
  <2>4. ASSUME NEW c \in Clients, Quiet(c)
        PROVE  /\ Matched(clients'[c]) /\ clients'[c].active = clients[c].active
               /\ Spares(n, c)
    <3>1. Matched(clients[c]) /\ Spares(req[r], c)
      BY <2>4 DEF Quiet
    <3>2. c # id => clients'[c] = clients[c]
      BY <2>1, CardTyped
    <3>3. /\ clients'[c].active = clients[c].active
          /\ c = id => clients'[c].card = "live" /\ clients[c].active
      BY <2>1, <3>1, CardTyped DEF Spares
    <3>4. Matched(clients'[c])
      BY <3>1, <3>2, <3>3 DEF Matched
    <3> QED
      BY <2>2, <3>3, <3>4 DEF Spares, Changing
  <2> QED
    BY <2>1, <2>2, <2>3, <2>4, AccountsSpared DEF Changing
<1>2. CASE FindToken(r)
  <2>1. /\ req[r].pc = "findToken" /\ UNCHANGED <<clients, spent, restores>> /\ Made' = Made
    BY <1>2 DEF FindToken, At, Made
  <2>2. CASE Proceeds(r, "answer")
    <3>1. PICK n \in Request : MovesTo(r, n) /\ n.pc = "answer"
      BY <2>2 DEF Proceeds
    <3>2. \A c \in Clients : Quiet(c) => /\ Matched(clients'[c])
                                         /\ clients'[c].active = clients[c].active
                                         /\ Spares(n, c)
      BY <2>1, <3>1 DEF Quiet, Spares, Changing
    <3> QED
      BY <2>1, <3>1, <3>2, AccountsSpared DEF Changing
  <2>3. ASSUME NEW n \in Request, NEW c \in Clients,
               Found(c), MovesTo(r, n), n.pc = "saveToken", n.id = c,
               n.snap = [active |-> clients[c].active, token |-> req[r].token]
        PROVE  AccountsInv'
    <3>1. n.id \in Made /\ n.snap.active = clients[n.id].active
      BY <2>3, FoundMade
    <3>2. ASSUME NEW d \in Clients, Quiet(d)
          PROVE  /\ Matched(clients'[d]) /\ clients'[d].active = clients[d].active
                 /\ Spares(n, d)
      BY <2>1, <2>3, <3>1, <3>2 DEF Quiet, Spares, Changing
    <3> QED
      BY <2>1, <2>3, <3>1, <3>2, AccountsSpared DEF Changing
  <2> QED
    BY <1>2, <2>2, <2>3, FindProceeds
<1>3. CASE SaveToken(r)
  <2>1. req[r].pc = "saveToken" /\ UNCHANGED <<spent, restores>>
    BY <1>3 DEF SaveToken, At
  <2>2. PICK n \in Request : MovesTo(r, n) /\ n.pc = "answer"
    BY <1>3, GoesProceeds DEF SaveToken, Proceeds
  <2>3. Made' = Made
    BY <1>3, SaveTokenTyped DEF Made
  <2>4. ASSUME NEW c \in Clients, Quiet(c)
        PROVE  /\ Matched(clients'[c]) /\ clients'[c].active = clients[c].active
               /\ Spares(n, c)
    <3>1. Matched(clients[c]) /\ Spares(req[r], c)
      BY <2>4 DEF Quiet
    <3>2. c = id => req[r].snap.active = clients[c].active
      BY <2>1, <3>1 DEF Spares
    <3>3. /\ clients'[c].card = clients[c].card
          /\ c # id => clients'[c] = clients[c]
          /\ c = id => clients'[c].active \in {clients[c].active, req[r].snap.active}
      BY <1>3, SaveTokenTyped
    <3>4. clients'[c].active = clients[c].active
      BY <3>2, <3>3
    <3> QED
      BY <2>2, <3>1, <3>3, <3>4 DEF Matched, Spares, Changing
  <2> QED
    BY <2>1, <2>2, <2>3, <2>4, AccountsSpared DEF Changing
<1>4. CASE Answer(r)
  <2>1. req[r].pc = "answer" /\ UNCHANGED <<clients, spent, restores>> /\ Made' = Made
    BY <1>4 DEF Answer, At, Made
  <2>2. MovesTo(r, Idle)
    BY <1>4 DEF Answer, Ends, MovesTo
  <2>3. \A c \in Clients : Quiet(c) => /\ Matched(clients'[c])
                                       /\ clients'[c].active = clients[c].active
                                       /\ Spares(Idle, c)
    BY <2>1, IdleTyped DEF Quiet, Spares, Changing
  <2> QED
    BY <2>1, <2>2, <2>3, IdleTyped, AccountsSpared DEF Changing
<1>5. CASE TransferStep(r) /\ ~TransferRead(r)
  <2>1. /\ UNCHANGED <<clients, spent, restores>> /\ Made' = Made
        /\ req[r].pc \in {"oldCard", "oldClient", "credit", "debit", "code", "bind"}
    BY <1>5
    DEF TransferStep, DeleteOldCard, DeactivateOldClient, Credit, Debit, CreateCode,
        BindCode, At, Made
  <2>2. PICK n \in Request :
          /\ MovesTo(r, n)
          /\ n.pc \in {"idle", "oldCard", "oldClient", "credit", "debit", "code", "bind"}
    BY <1>5, TransferMoves
  <2>3. \A c \in Clients : Quiet(c) => /\ Matched(clients'[c])
                                       /\ clients'[c].active = clients[c].active
                                       /\ Spares(n, c)
    BY <2>1, <2>2 DEF Quiet, Spares, Changing
  <2> QED
    BY <2>1, <2>2, <2>3, AccountsSpared DEF Changing
<1> QED
  BY <1>1, <1>2, <1>3, <1>4, <1>5

LEMMA AccountsNext ==
    TypeOK /\ HalfInv /\ restores /\ AccountsInv /\ [Next]_vars => AccountsInv'
<1> SUFFICES ASSUME TypeOK, HalfInv, restores, AccountsInv, [Next]_vars PROVE AccountsInv'
  OBVIOUS
<1>1. CASE UNCHANGED vars
  BY <1>1
  DEF vars, AccountsInv, Reserve, Tame, Creating, Found, Matching, Kept, Quiet, Served,
      Spares, Fit, Matched, Busy, Made, Count, In, Disturbances, Interference, Changing
<1>2. ASSUME NEW r \in Requests, AccountStep(r) \/ TransferStep(r)
      PROVE  AccountsInv'
  BY <1>2, AccountsStart, AccountsChanging, AccountsCreated, AccountsBetween
  DEF AccountStep, TransferStep
<1>3. ASSUME NEW r \in Requests, RequestError(r) PROVE AccountsInv'
  <2>1. MovesTo(r, Idle) /\ Made' = Made
    BY <1>3 DEF RequestError, Ends, MovesTo, Made
  <2> QED
    BY <1>3, <2>1, IdleTyped, DisturbancesMove, AccountsDisturbed DEF Changing
<1>4. CASE Crash
  <2>1. Made' = Made /\ Disturbances' = Disturbances + 1 /\ Count({"create"})' = 0
    BY <1>4, DisturbancesMove, InCrashed DEF Crash, Made
  <2>2. \A q \in Requests : req'[q].pc = "idle"
    BY <1>4, IdleTyped DEF Crash
  <2>3. Cardinality(Made) + Count({"create"}) + Reserve <= 1 + Disturbances
    BY DEF AccountsInv
  <2>4. Count({"create"}) \in Nat
    BY InFinite
  <2>5. Cardinality(Made') + Count({"create"})' + Reserve' <= 1 + Disturbances'
    BY <2>1, <2>3, <2>4, MadeFinite, ReserveTyped, DisturbancesMove
  <2> QED
    BY <2>2, <2>5 DEF AccountsInv, Changing
<1> QED
  BY <1>1, <1>2, <1>3, <1>4 DEF Next

\* Where the database gives the sign back, all made clients match a request.
AccountsKnown == restores => AccountsInv

LEMMA AccountsKnownNext == TypeOK /\ HalfInv /\ AccountsKnown /\ [Next]_vars => AccountsKnown'
<1> SUFFICES ASSUME TypeOK, HalfInv, AccountsKnown, [Next]_vars, restores'
             PROVE  AccountsInv'
  BY DEF AccountsKnown
<1>1. restores
  BY RestoresFixed
<1> QED
  BY <1>1, AccountsNext DEF AccountsKnown

----------------------------------------------------------------------------
(* A database that keeps the phone as it was formatted *)

\* No client is ever found: there are only registrations, each with its own.
BareInv ==
    ~restores =>
       /\ \A q \in Requests : req[q].pc \in {"idle", "create", "card", "findToken", "answer"}
       /\ \A c \in Made : clients[c].active = TRUE /\ clients[c].card # "deleted"
       /\ Cardinality(Made) + Count({"create"}) <= signed

LEMMA NoneFound ==
    ASSUME ~restores
    PROVE  Matching = {} /\ \A c : ~Found(c)
BY DEF Matching, Kept, Asked, FormatPhone, Found

LEMMA BareInit == Init => BareInv
<1> SUFFICES ASSUME Init PROVE BareInv
  OBVIOUS
<1>1. Made = {}
  BY DEF Init, Made, NoRow
<1>2. \A q \in Requests : req[q].pc = "idle"
  BY IdleTyped DEF Init
<1>3. In({"create"}) = {}
  BY <1>2 DEF In
<1>4. Cardinality(Made) = 0 /\ Count({"create"}) = 0 /\ signed = 0
  BY <1>1, <1>3, FS_EmptySet DEF Count, Init
<1> QED
  BY <1>1, <1>2, <1>4 DEF BareInv

\* One request moves among the steps of a registration.
LEMMA BareMove ==
    ASSUME TypeOK, BareInv, ~restores, NEW r \in Requests, NEW n \in Request, MovesTo(r, n),
           n.pc \in {"idle", "create", "card", "findToken", "answer"},
           \A c \in Made' : clients'[c].active = TRUE /\ clients'[c].card # "deleted",
           Cardinality(Made') + Count({"create"})' <= signed'
    PROVE  BareInv'
<1>1. req'[r] = n /\ \A q \in Requests : q # r => req'[q] = req[q]
  BY Moved
<1>2. \A q \in Requests : req'[q].pc \in {"idle", "create", "card", "findToken", "answer"}
  BY <1>1 DEF BareInv
<1> QED
  BY <1>2 DEF BareInv

LEMMA BareStep ==
    ASSUME TypeOK, HalfInv, BareInv, ~restores, NEW r \in Requests,
           AccountStep(r) \/ TransferStep(r) \/ RequestError(r)
    PROVE  BareInv'
<1>0. /\ Cardinality(Made) + Count({"create"}) <= signed
      /\ Cardinality(Made) \in Nat /\ Count({"create"}) \in Nat /\ signed \in Nat
      /\ \A c \in Made : clients[c].active = TRUE /\ clients[c].card # "deleted"
  BY MadeFinite, InFinite DEF BareInv, TypeOK
<1>1. Matching = {} /\ \A c : ~Found(c)
  BY NoneFound
<1>2. req[r].pc \in {"idle", "create", "card", "findToken", "answer"}
  BY DEF BareInv
<1>3. CASE RegisterRead(r)
  <2>1. PICK n \in Request : MovesTo(r, n) /\ n.pc = "create"
    BY <1>1, <1>3, RegisterStarts
  <2>2. UNCHANGED clients /\ signed' = signed + 1 /\ req[r].pc = "idle"
    BY <1>3, RegisterStarts
  <2>3. Made' = Made
    BY <2>2 DEF Made
  <2>4. Count({"create"})' = Count({"create"}) + 1
    BY <2>1, <2>2, CreateMoves
  <2>5. Cardinality(Made) + Count({"create"})' <= signed'
    BY <1>0, <2>2, <2>4
  <2> QED
    BY <1>0, <2>1, <2>2, <2>3, <2>5, BareMove
<1>4. CASE CreateClient(r)
  <2>0. PICK new : new = NextId
    OBVIOUS
  <2>1. PICK n \in Request : MovesTo(r, n) /\ n.pc = "card"
    BY <1>4, CreateProceeds
  <2>2. /\ \A d \in Clients \ {new} : clients'[d] = clients[d]
        /\ new \in Clients
        /\ clients'[new].made = TRUE /\ clients'[new].card = "none"
        /\ clients'[new].active = TRUE
    <3> DEFINE row == [made |-> TRUE, active |-> TRUE, token |-> req[r].token, card |-> "none"]
    <3>1. row.made = TRUE /\ row.card = "none" /\ row.active = TRUE
      OBVIOUS
    <3> HIDE DEF row
    <3>2. clients'[new] = row
      BY <1>4, <2>0, CreateTyped DEF row
    <3> QED
      BY <1>4, <2>0, <3>1, <3>2, CreateTyped
  <2>3. new \notin Made
    BY <1>0, <2>0 DEF HalfInv, NextId
  <2>4. Made' = Made \cup {new}
    BY <2>2 DEF Made
  <2>5. Cardinality(Made') = Cardinality(Made) + 1
    BY <2>3, <2>4, MadeFinite, FS_AddElement
  <2>6. req[r].pc = "create" /\ UNCHANGED signed
    BY <1>4 DEF CreateClient, At
  <2>7. Count({"create"})' = Count({"create"}) - 1
    BY <2>1, <2>6, CreateMoves
  <2>8. Cardinality(Made') + Count({"create"})' <= signed'
    BY <1>0, <2>5, <2>6, <2>7
  <2>9. \A c \in Made' : clients'[c].active = TRUE /\ clients'[c].card # "deleted"
    BY <1>0, <2>2, <2>4 DEF Made
  <2> QED
    BY <2>1, <2>8, <2>9, BareMove
<1>5. CASE CreateCard(r)
  <2>1. PICK n \in Request : MovesTo(r, n) /\ n.pc = "findToken"
    BY <1>5, CardProceeds
  <2>2. /\ req[r].pc = "card" /\ UNCHANGED signed
        /\ clients' = [clients EXCEPT ![req[r].id].card = "live"]
    BY <1>5 DEF CreateCard, InsertCard, At
  <2>3. Made' = Made
    BY <2>2, CardTyped DEF Made
  <2>4. \A c \in Made : clients'[c].active = TRUE /\ clients'[c].card # "deleted"
    BY <1>0, <2>2, CardTyped DEF Made
  <2>5. Count({"create"})' = Count({"create"})
    BY <2>1, <2>2, CreateMoves
  <2> QED
    BY <1>0, <2>1, <2>2, <2>3, <2>4, <2>5, BareMove
<1>6. CASE FindToken(r) \/ Answer(r) \/ RequestError(r)
  <2>1. UNCHANGED <<clients, signed>>
    BY <1>6 DEF FindToken, Answer, RequestError
  <2>2. PICK n \in Request : MovesTo(r, n) /\ n.pc \in {"answer", "idle"}
    <3>1. CASE FindToken(r)
      BY <1>1, <3>1, FindProceeds DEF Proceeds
    <3>2. CASE Answer(r) \/ RequestError(r)
      BY <3>2, IdleTyped DEF Answer, RequestError, Ends, MovesTo
    <3> QED
      BY <1>6, <3>1, <3>2
  <2>3. Made' = Made
    BY <2>1 DEF Made
  <2>4. Count({"create"})' <= Count({"create"}) /\ Count({"create"})' \in Nat
    BY <2>2, CreateMoves, InFinite
  <2>5. Cardinality(Made) + Count({"create"})' <= signed'
    BY <1>0, <2>1, <2>4
  <2> QED
    BY <1>0, <2>1, <2>2, <2>3, <2>5, BareMove
<1>7. ~LoginRead(r) /\ ~UpdateRead(r) /\ ~DeleteRead(r) /\ ~TransferRead(r)
  BY <1>1 DEF LoginRead, UpdateRead, DeleteRead, TransferRead, Guarded
<1>8. /\ ~Reactivate(r) /\ ~ReactivateCard(r) /\ ~SaveToken(r) /\ ~Update(r)
      /\ ~Deactivate(r) /\ ~DeleteCard(r)
  BY <1>2 DEF Reactivate, ReactivateCard, SaveToken, Update, Deactivate, DeleteCard, At
<1>9. ~TransferStep(r)
  BY <1>2, <1>7, TransferLeads DEF TransferStep
<1> QED
  BY <1>3, <1>4, <1>5, <1>6, <1>7, <1>8, <1>9 DEF AccountStep

LEMMA BareNext == TypeOK /\ HalfInv /\ BareInv /\ [Next]_vars => BareInv'
<1> SUFFICES ASSUME TypeOK, HalfInv, BareInv, [Next]_vars, ~restores' PROVE BareInv'
  BY DEF BareInv
<1>0. ~restores
  BY RestoresFixed
<1>1. CASE UNCHANGED vars
  BY <1>1 DEF vars, BareInv, Made, Count, In
<1>2. CASE Crash
  <2>1. UNCHANGED <<clients, signed>> /\ Made' = Made /\ Count({"create"})' = 0
    BY <1>2, InCrashed DEF Crash, Made
  <2>2. \A q \in Requests : req'[q].pc = "idle"
    BY <1>2, IdleTyped DEF Crash
  <2>3. Cardinality(Made) + Count({"create"}) <= signed
    BY <1>0 DEF BareInv
  <2>4. Cardinality(Made) <= signed /\ Cardinality(Made) + 0 <= signed'
    BY <2>1, <2>3, MadeFinite, InFinite DEF TypeOK
  <2> QED
    BY <1>0, <2>1, <2>2, <2>4 DEF BareInv
<1> QED
  BY <1>0, <1>1, <1>2, BareStep DEF Next

\* However often a phone registers, deletes its account and registers again, its
\* clients are no more than one and the disturbances: a request that ran beside
\* another, a failure, a crash or a switch of isActivated costs at most one
\* client.  Where the database keeps the phone without its sign, every
\* registration makes one client and nothing makes another.
THEOREM OneClientPerPhone == Spec => []OneAccount
<1>1. Typed => TypeOK
  BY DEF Typed
<1>2. TypeOK /\ AccountsKnown /\ BareInv => OneAccount
  <2> SUFFICES ASSUME TypeOK, AccountsKnown, BareInv PROVE OneAccount
    OBVIOUS
  <2>1. Cardinality(Made) \in Nat /\ Count({"create"}) \in Nat /\ Reserve \in {0, 1}
        /\ Disturbances \in Nat /\ signed \in Nat
    BY MadeFinite, InFinite, ReserveTyped, DisturbancesMove DEF TypeOK
  <2>2. CASE restores
    <3>1. Cardinality(Made) + Count({"create"}) + Reserve <= 1 + Disturbances
      BY <2>2 DEF AccountsKnown, AccountsInv
    <3>2. Cardinality(Made) <= 1 + Disturbances
      BY <2>1, <3>1
    <3> QED
      BY <2>2, <3>2 DEF OneAccount
  <2>3. CASE ~restores
    <3>1. Cardinality(Made) + Count({"create"}) <= signed
      BY <2>3 DEF BareInv
    <3>2. Cardinality(Made) <= signed
      BY <2>1, <3>1
    <3> QED
      BY <2>3, <3>2 DEF OneAccount
  <2> QED
    BY <2>2, <2>3
<1>3. Init => AccountsKnown
  BY AccountsInit DEF AccountsKnown
<1> QED
  BY AlwaysTyped, HalfInit, HalfNext, <1>3, AccountsKnownNext, BareInit, BareNext,
     <1>1, <1>2, PTL DEF Spec

----------------------------------------------------------------------------
(* The token the app has *)

Bears(c) == clients[c].card # "none" /\ clients[c].token = holds
TokenGood == trouble = "none" /\ holds > 0 => \E c \in Clients : Found(c) /\ Bears(c)

\* The client that a request signing in works on.  Without a card its answer is
\* an error, and no app with a good token gets one.
Serves(k, c) ==
    /\ Found(c)
    /\ k.knowsCard = TRUE => clients[c].card # "none"
    /\ k.knowsCard # TRUE => ~(trouble = "none" /\ holds > 0)

Transferring == {"oldCard", "oldClient", "credit", "debit", "code", "bind"}

\* What a request that runs alone finds and holds at each of its steps.
Ready(k) ==
    /\ k.pc = "card" => Found(k.id)
    /\ k.pc = "findToken" => \E c \in Clients : Serves(k, c)
    /\ k.pc \in {"saveToken", "reactivate"} => Serves(k, k.id) /\ k.snap.token = k.token
    /\ k.pc \in {"answer", "reactivateCard"} =>
          Serves(k, k.id) /\ clients[k.id].token = k.token
    /\ k.pc \in {"update", "deactivate"} =>
          TokenGood /\ Found(k.id) /\ k.snap.token = clients[k.id].token
    /\ k.pc \in Transferring \cup {"deleteCard"} => TokenGood

InOrder ==
    /\ \A p, q \in Requests : req[p].pc # "idle" /\ req[q].pc # "idle" => p = q
    /\ \A q \in Requests : Ready(req[q])
    /\ (\A q \in Requests : req[q].pc = "idle") => TokenGood

TokenInv == restores /\ trouble # "now" => InOrder

LEMMA TokenInit == Init => TokenInv
<1> SUFFICES ASSUME Init PROVE TokenInv
  OBVIOUS
<1>1. \A q \in Requests : req[q].pc = "idle"
  BY IdleTyped DEF Init
<1>2. TokenGood
  BY DEF Init, TokenGood
<1> QED
  BY <1>1, <1>2 DEF TokenInv, InOrder, Ready, Transferring

LEMMA FoundKept ==
    ASSUME Made' = Made, restores' = restores
    PROVE  \A c : Found(c)' <=> Found(c)
BY DEF Found, Matching, Kept

\* Writes that leave the tokens alone and take no card away.
LEMMA GoodKept ==
    ASSUME TokenGood, Made' = Made, restores' = restores, holds' = holds, trouble' = trouble,
           \A c \in Clients : /\ clients'[c].token = clients[c].token
                              /\ clients[c].card # "none" => clients'[c].card # "none"
    PROVE  TokenGood'
BY FoundKept DEF TokenGood, Bears

\* One request moves while the others are idle.
LEMMA OrderMove ==
    ASSUME TypeOK, NEW r \in Requests, NEW n \in Request, MovesTo(r, n),
           \A q \in Requests : q # r => req[q].pc = "idle",
           Ready(n)', n.pc = "idle" => TokenGood'
    PROVE  InOrder'
<1>1. req'[r] = n /\ \A q \in Requests : q # r => req'[q] = req[q]
  BY Moved
<1>2. \A p, q \in Requests : req'[p].pc # "idle" /\ req'[q].pc # "idle" => p = q
  BY <1>1
<1>3. \A q \in Requests : Ready(req[q])'
  <2> SUFFICES ASSUME NEW q \in Requests PROVE Ready(req[q])'
    OBVIOUS
  <2>1. CASE q = r
    BY <1>1, <2>1
  <2>2. CASE q # r
    <3>1. req'[q].pc = "idle"
      BY <1>1, <2>2
    <3> QED
      BY <3>1 DEF Ready, Transferring
  <2> QED
    BY <2>1, <2>2
<1>4. (\A q \in Requests : req'[q].pc = "idle") => TokenGood'
  BY <1>1
<1> QED
  BY <1>2, <1>3, <1>4 DEF InOrder

\* A request that starts alone finds the client as the last one left it.
LEMMA OrderStarts ==
    ASSUME TypeOK, TokenInv, restores, trouble' # "now", NEW r \in Requests,
           RegisterRead(r) \/ LoginRead(r) \/ UpdateRead(r) \/ DeleteRead(r)
              \/ TransferRead(r)
    PROVE  InOrder'
<1>0. Counted /\ UNCHANGED <<clients, holds>>
  BY RegisterStarts, LoginStarts, GuardedMoves
<1>1. /\ Busy = {} /\ restores' = restores /\ Made' = Made
      /\ trouble' = "none" => trouble = "none"
  BY <1>0 DEF Counted, Made
<1>2. \A q \in Requests : req[q].pc = "idle"
  BY <1>1 DEF Busy
<1>3. \A c : Found(c)' <=> Found(c)
  BY <1>1, FoundKept
<1>4. trouble' = "none" /\ holds > 0 => \E c \in Clients : Found(c) /\ Bears(c)
  BY <1>1, <1>2 DEF TokenInv, InOrder, TokenGood
<1>5. TokenGood'
  BY <1>0, <1>3, <1>4 DEF TokenGood, Bears
<1>6. ASSUME NEW n \in Request, MovesTo(r, n), n.pc # "idle", Ready(n)'
      PROVE  InOrder'
  BY <1>2, <1>6, OrderMove
<1>7. CASE RegisterRead(r)
  <2>1. PICK n \in Request :
          /\ MovesTo(r, n) /\ n.token = signed'
          /\ \/ n.pc = "create"
             \/ \E c \in Clients :
                   /\ Found(c) /\ Closed(clients[c])
                   /\ n.pc = "reactivate" /\ n.id = c /\ n.knowsCard = TRUE
                   /\ n.snap = [active |-> TRUE, token |-> signed']
    BY <1>7, RegisterStarts
  <2>2. CASE n.pc = "create"
    BY <1>6, <2>1, <2>2 DEF Ready, Transferring
  <2>3. CASE n.pc # "create"
    <3>1. /\ Found(n.id) /\ clients[n.id].card # "none" /\ n.pc = "reactivate"
          /\ n.knowsCard = TRUE /\ n.snap.token = n.token
      BY <2>1, <2>3 DEF Closed
    <3>2. Serves(n, n.id)'
      BY <1>0, <1>3, <3>1 DEF Serves
    <3> QED
      BY <1>6, <2>1, <3>1, <3>2 DEF Ready, Transferring
  <2> QED
    BY <2>2, <2>3
<1>8. CASE LoginRead(r)
  <2>1. PICK n \in Request : \E c \in Clients :
          /\ MovesTo(r, n) /\ Found(c) /\ n.pc = "findToken"
          /\ n.knowsCard = (clients[c].card # "none")
    BY <1>8, LoginStarts
  <2>2. PICK c \in Clients : Found(c) /\ n.knowsCard = (clients[c].card # "none")
    BY <2>1
  <2>3. n.knowsCard # TRUE => ~(trouble' = "none" /\ holds > 0)
    BY <1>4, <2>2, FoundMade DEF Bears
  <2>4. Serves(n, c)'
    BY <1>0, <1>3, <2>2, <2>3 DEF Serves
  <2> QED
    BY <1>6, <2>1, <2>4 DEF Ready, Transferring
<1>9. CASE UpdateRead(r) \/ DeleteRead(r) \/ TransferRead(r)
  <2>1. PICK n \in Request : \E c \in Clients :
          /\ MovesTo(r, n) /\ Found(c)
          /\ n.pc \in {"update", "deactivate", "oldCard"}
          /\ n.id = c /\ n.snap = Snap(c)
    BY <1>9, GuardedMoves
  <2>2. Found(n.id) /\ n.snap.token = clients[n.id].token
    BY <2>1, SnapTyped
  <2>3. Ready(n)'
    BY <1>0, <1>3, <1>5, <2>1, <2>2 DEF Ready, Transferring
  <2> QED
    BY <1>6, <2>1, <2>3
<1> QED
  BY <1>7, <1>8, <1>9

\* The steps of a request under way; what the others are is idle.
LEMMA OrderSignsIn ==
    ASSUME TypeOK, HalfInv, InOrder, restores, NEW r \in Requests,
           \/ Reactivate(r) \/ ReactivateCard(r) \/ CreateClient(r) \/ CreateCard(r)
           \/ FindToken(r) \/ SaveToken(r) \/ Answer(r)
    PROVE  InOrder'
<1> DEFINE id == req[r].id
<1>0. Ready(req[r]) /\ req[r].pc # "idle" /\ restores' = restores
  BY DEF InOrder, Reactivate, ReactivateCard, CreateClient, CreateCard, FindToken,
         SaveToken, Answer, At
<1>1. \A q \in Requests : q # r => req[q].pc = "idle"
  BY <1>0 DEF InOrder
<1>2. Made' = Made => \A c : Found(c)' <=> Found(c)
  BY <1>0, FoundKept
<1>3. CASE Reactivate(r)
  <2>1. /\ req[r].pc = "reactivate" /\ Save(id, req[r].snap) /\ UNCHANGED <<holds, trouble>>
    BY <1>3 DEF Reactivate, At
  <2>2. Serves(req[r], id) /\ req[r].snap.token = req[r].token
    BY <1>0, <2>1 DEF Ready
  <2>3. id \in Clients
    BY <2>2, FoundMade DEF Serves
  <2>4. Made' = Made /\ clients'[id].card = clients[id].card
        /\ clients'[id].token = req[r].token
    BY <2>1, <2>2, <2>3, HeldTyped, SaveTyped DEF Made
  <2>5. PICK n \in Request :
          /\ MovesTo(r, n) /\ n.pc = "reactivateCard" /\ n.id = id
          /\ n.token = req[r].token /\ n.knowsCard = req[r].knowsCard
    BY <1>3, GoesProceeds DEF Reactivate, Proceeds
  <2>6. Ready(n)'
    BY <1>2, <2>1, <2>2, <2>4, <2>5 DEF Ready, Transferring, Serves
  <2> QED
    BY <1>1, <2>5, <2>6, OrderMove
<1>4. CASE ReactivateCard(r)
  <2>1. /\ req[r].pc = "reactivateCard" /\ UNCHANGED <<holds, trouble>>
        /\ clients' = [clients EXCEPT ![id].card = "live"]
    BY <1>4 DEF ReactivateCard, At
  <2>2. Serves(req[r], id) /\ clients[id].token = req[r].token
    BY <1>0, <2>1 DEF Ready
  <2>3. id \in Clients
    BY <2>2, FoundMade DEF Serves
  <2>4. Made' = Made /\ clients'[id].card = "live" /\ clients'[id].token = req[r].token
    BY <2>1, <2>2, <2>3, CardKeepsRest
  <2>5. PICK n \in Request :
          /\ MovesTo(r, n) /\ n.pc = "answer" /\ n.id = id
          /\ n.token = req[r].token /\ n.knowsCard = req[r].knowsCard
    BY <1>4, GoesProceeds DEF ReactivateCard, Proceeds
  <2>6. Ready(n)'
    BY <1>2, <2>1, <2>2, <2>4, <2>5 DEF Ready, Transferring, Serves
  <2> QED
    BY <1>1, <2>5, <2>6, OrderMove
<1>5. CASE CreateClient(r)
  <2>0. PICK new : new = NextId
    OBVIOUS
  <2>1. PICK n \in Request : MovesTo(r, n) /\ n.pc = "card" /\ n.id = new
    BY <1>5, <2>0, CreateProceeds
  <2>2. /\ new \in Clients /\ \A d \in Clients \ {new} : clients'[d] = clients[d]
        /\ clients'[new].made = TRUE
    <3> DEFINE row == [made |-> TRUE, active |-> TRUE, token |-> req[r].token, card |-> "none"]
    <3>1. row.made = TRUE
      OBVIOUS
    <3> HIDE DEF row
    <3>2. clients'[new] = row
      BY <1>5, <2>0, CreateTyped DEF row
    <3> QED
      BY <1>5, <2>0, <3>1, <3>2, CreateTyped
  <2>3. new = Cardinality(Made) + 1 /\ Cardinality(Made) \in Nat /\ \A d \in Made : d <= new
    BY <2>0, MadeFinite DEF HalfInv, NextId
  <2>4. Made' = Made \cup {new}
    BY <2>2 DEF Made
  <2>5. Matching' = Made'
    BY <1>0 DEF Matching, Kept
  <2>6. Found(new)'
    BY <2>3, <2>4, <2>5 DEF Found
  <2>7. Ready(n)'
    BY <2>1, <2>6 DEF Ready, Transferring
  <2> QED
    BY <1>1, <2>1, <2>7, OrderMove
<1>6. CASE CreateCard(r)
  <2>1. /\ req[r].pc = "card" /\ clients' = [clients EXCEPT ![id].card = "live"]
    BY <1>6 DEF CreateCard, InsertCard, At
  <2>2. Found(id) /\ id \in Clients
    BY <1>0, <2>1, FoundMade DEF Ready
  <2>3. Made' = Made /\ clients'[id].card = "live"
    BY <2>1, <2>2, CardKeepsRest
  <2>4. PICK n \in Request : MovesTo(r, n) /\ n.pc = "findToken" /\ n.knowsCard = TRUE
    BY <1>6, CardProceeds
  <2>5. PICK c : c = id
    OBVIOUS
  <2>6. Serves(n, c)' /\ c \in Clients
    BY <1>2, <2>2, <2>3, <2>4, <2>5 DEF Serves
  <2>7. Ready(n)'
    BY <2>4, <2>6 DEF Ready, Transferring
  <2> QED
    BY <1>1, <2>4, <2>7, OrderMove
<1>7. CASE FindToken(r)
  <2>1. req[r].pc = "findToken" /\ UNCHANGED <<clients, holds, trouble>> /\ Made' = Made
    BY <1>7 DEF FindToken, At, Made
  <2>2. PICK d \in Clients : Serves(req[r], d)
    BY <1>0, <2>1 DEF Ready
  <2>3. Matching # {}
    BY <2>2 DEF Serves, Found
  <2>4. PICK n \in Request : \E c \in Clients :
          /\ Found(c)
          /\ MovesTo(r, n) /\ n.pc = "saveToken" /\ n.id = c
          /\ n.token = req[r].token /\ n.knowsCard = req[r].knowsCard
          /\ n.snap = [active |-> clients[c].active, token |-> req[r].token]
    BY <1>7, <2>3, FindProceeds
  <2>5. n.id = d /\ n.snap.token = n.token
    BY <2>2, <2>4, FoundMade DEF Serves
  <2>6. Serves(n, d)'
    BY <1>2, <2>1, <2>2, <2>4 DEF Serves
  <2>7. Ready(n)'
    BY <2>4, <2>5, <2>6 DEF Ready, Transferring
  <2> QED
    BY <1>1, <2>4, <2>7, OrderMove
<1>8. CASE SaveToken(r)
  <2>1. req[r].pc = "saveToken" /\ UNCHANGED <<holds, trouble>>
    BY <1>8 DEF SaveToken, At
  <2>2. Serves(req[r], id) /\ req[r].snap.token = req[r].token
    BY <1>0, <2>1 DEF Ready
  <2>3. id \in Clients
    BY <2>2, FoundMade DEF Serves
  <2>4. Made' = Made /\ clients'[id].card = clients[id].card
        /\ clients'[id].token = req[r].token
    BY <1>8, <2>2, <2>3, SaveTokenTyped DEF Made
  <2>5. PICK n \in Request :
          /\ MovesTo(r, n) /\ n.pc = "answer" /\ n.id = id
          /\ n.token = req[r].token /\ n.knowsCard = req[r].knowsCard
    BY <1>8, GoesProceeds DEF SaveToken, Proceeds
  <2>6. Ready(n)'
    BY <1>2, <2>1, <2>2, <2>4, <2>5 DEF Ready, Transferring, Serves
  <2> QED
    BY <1>1, <2>5, <2>6, OrderMove
<1>9. CASE Answer(r)
  <2>1. req[r].pc = "answer" /\ UNCHANGED clients /\ Made' = Made /\ Ends(r)
    BY <1>9 DEF Answer, At, Made
  <2>2. Serves(req[r], id) /\ clients[id].token = req[r].token
    BY <1>0, <2>1 DEF Ready
  <2>3. id \in Clients /\ Found(id)
    BY <2>2, FoundMade DEF Serves
  <2>4. TokenGood'
    <3>1. CASE req[r].knowsCard
      <4>1. holds' = req[r].token /\ clients[id].card # "none"
        BY <1>9, <2>2, <3>1 DEF Answer, Serves
      <4>2. PICK c : c = id
        OBVIOUS
      <4>3. Found(c)' /\ Bears(c)' /\ c \in Clients
        BY <1>2, <2>1, <2>2, <2>3, <4>1, <4>2 DEF Bears
      <4> QED
        BY <4>3 DEF TokenGood
    <3>2. CASE ~req[r].knowsCard
      <4>1. UNCHANGED <<holds, trouble>>
        BY <1>9, <3>2 DEF Answer
      <4> QED
        BY <2>2, <3>2, <4>1 DEF Serves, TokenGood
    <3> QED
      BY <3>1, <3>2
  <2>5. MovesTo(r, Idle) /\ Ready(Idle)'
    BY <2>1, IdleTyped DEF Ends, MovesTo, Ready, Transferring
  <2> QED
    BY <1>1, <2>4, <2>5, IdleTyped, OrderMove
<1> QED
  BY <1>3, <1>4, <1>5, <1>6, <1>7, <1>8, <1>9

LEMMA OrderSettings ==
    ASSUME TypeOK, InOrder, NEW r \in Requests, Update(r) \/ Deactivate(r) \/ DeleteCard(r)
    PROVE  InOrder'
<1> DEFINE id == req[r].id
<1>0. /\ Ready(req[r]) /\ req[r].pc \in {"update", "deactivate", "deleteCard"}
      /\ UNCHANGED <<holds, trouble, restores>>
  BY DEF InOrder, Update, Deactivate, DeleteCard, At
<1>1. \A q \in Requests : q # r => req[q].pc = "idle"
  BY <1>0 DEF InOrder
<1>2. TokenGood
  BY <1>0 DEF Ready
<1>3. ASSUME NEW columns \in Columns, Save(id, columns), columns.token = req[r].snap.token,
             req[r].pc \in {"update", "deactivate"}
      PROVE  TokenGood'
  <2>1. Found(id) /\ id \in Clients /\ req[r].snap.token = clients[id].token
    BY <1>0, <1>3, FoundMade DEF Ready
  <2>2. Made' = Made
    BY <1>3, SaveTyped DEF Made
  <2>3. \A c \in Clients : /\ clients'[c].token = clients[c].token
                           /\ clients'[c].card = clients[c].card
    BY <1>3, <2>1, SaveTyped
  <2> QED
    BY <1>0, <1>2, <2>2, <2>3, GoodKept
<1>4. ASSUME TokenGood', Ends(r) PROVE InOrder'
  <2>1. MovesTo(r, Idle) /\ Ready(Idle)'
    BY <1>4, IdleTyped DEF Ends, MovesTo, Ready, Transferring
  <2> QED
    BY <1>1, <1>4, <2>1, IdleTyped, OrderMove
<1>5. CASE Update(r)
  <2>1. PICK columns \in Columns :
          Save(id, columns) /\ columns.token = req[r].snap.token
    BY <1>5, UpdateTyped
  <2>2. TokenGood'
    BY <1>3, <1>5, <2>1 DEF Update, At
  <2> QED
    BY <1>4, <1>5, <2>2 DEF Update
<1>6. CASE Deactivate(r)
  <2> DEFINE columns == [req[r].snap EXCEPT !.active = FALSE]
  <2>1. columns \in Columns /\ columns.token = req[r].snap.token
    BY HeldTyped DEF Columns
  <2>2. /\ req[r].pc = "deactivate" /\ Save(id, columns)
        /\ Ends(r) \/ Goes(r, "deleteCard")
    BY <1>6 DEF Deactivate, At
  <2> HIDE DEF columns
  <2>3. TokenGood'
    BY <1>3, <2>1, <2>2
  <2>4. CASE Goes(r, "deleteCard")
    <3>1. PICK n \in Request : MovesTo(r, n) /\ n.pc = "deleteCard"
      BY <2>4, GoesProceeds DEF Proceeds
    <3>2. Ready(n)'
      BY <2>3, <3>1 DEF Ready
    <3> QED
      BY <1>1, <3>1, <3>2, OrderMove
  <2> QED
    BY <1>4, <2>2, <2>3, <2>4
<1>7. CASE DeleteCard(r)
  <2>1. Ends(r) /\ clients' = [clients EXCEPT ![id].card = "deleted"]
    BY <1>7 DEF DeleteCard
  <2>2. Made' = Made
    BY <2>1, CardTyped DEF Made
  <2>3. \A c \in Clients : /\ clients'[c].token = clients[c].token
                           /\ clients[c].card # "none" => clients'[c].card # "none"
    BY <2>1, CardTyped
  <2>4. TokenGood'
    BY <1>0, <1>2, <2>2, <2>3, GoodKept
  <2> QED
    BY <1>4, <2>1, <2>4
<1> QED
  BY <1>5, <1>6, <1>7

LEMMA OrderTransfers ==
    ASSUME TypeOK, InOrder, NEW r \in Requests, TransferStep(r), ~TransferRead(r)
    PROVE  InOrder'
<1>1. /\ req[r].pc \in Transferring /\ UNCHANGED <<clients, holds, trouble, restores>>
  BY TransferLeads
  DEF TransferStep, DeleteOldCard, DeactivateOldClient, Credit, Debit, CreateCode,
      BindCode, Transferring
<1>2. PICK n \in Request : MovesTo(r, n) /\ n.pc \in Transferring \cup {"idle"}
  BY TransferMoves DEF Transferring
<1>3. TokenGood /\ \A q \in Requests : q # r => req[q].pc = "idle"
  BY <1>1 DEF InOrder, Ready, Transferring
<1>4. Made' = Made
  BY <1>1 DEF Made
<1>5. TokenGood'
  BY <1>1, <1>3, <1>4, GoodKept
<1>6. Ready(n)'
  BY <1>2, <1>5 DEF Ready, Transferring
<1> QED
  BY <1>2, <1>3, <1>5, <1>6, OrderMove

LEMMA TokenNext == TypeOK /\ HalfInv /\ TokenInv /\ [Next]_vars => TokenInv'
<1> SUFFICES ASSUME TypeOK, HalfInv, TokenInv, [Next]_vars, restores', trouble' # "now"
             PROVE  InOrder'
  BY DEF TokenInv
<1>0. restores
  BY RestoresFixed
<1>1. CASE UNCHANGED vars
  BY <1>0, <1>1
  DEF vars, TokenInv, InOrder, Ready, Serves, TokenGood, Bears, Found, Matching, Kept, Made
<1>2. ASSUME NEW r \in Requests,
             RegisterRead(r) \/ LoginRead(r) \/ UpdateRead(r) \/ DeleteRead(r)
                \/ TransferRead(r)
      PROVE  InOrder'
  BY <1>0, <1>2, OrderStarts
<1>3. ASSUME NEW r \in Requests,
             \/ Reactivate(r) \/ ReactivateCard(r) \/ CreateClient(r) \/ CreateCard(r)
             \/ FindToken(r) \/ SaveToken(r) \/ Answer(r)
             \/ Update(r) \/ Deactivate(r) \/ DeleteCard(r)
      PROVE  InOrder'
  <2>1. trouble # "now"
    BY <1>3
    DEF Reactivate, ReactivateCard, CreateClient, CreateCard, FindToken, SaveToken,
        Answer, Update, Deactivate, DeleteCard
  <2> QED
    BY <1>0, <1>3, <2>1, OrderSignsIn, OrderSettings DEF TokenInv
<1>4. ASSUME NEW r \in Requests, TransferStep(r), ~TransferRead(r)
      PROVE  InOrder'
  <2>1. UNCHANGED trouble
    BY <1>4
    DEF TransferStep, DeleteOldCard, DeactivateOldClient, Credit, Debit, CreateCode, BindCode
  <2> QED
    BY <1>0, <1>4, <2>1, OrderTransfers DEF TokenInv
<1>5. ASSUME Fails, NEW r \in Requests, RequestError(r)
      PROVE  InOrder'
  <2>1. trouble # "now" /\ trouble' = "past"
    BY <1>5 DEF Fails
  <2>2. InOrder /\ req[r].pc # "idle" /\ Ends(r)
    BY <1>0, <1>5, <2>1 DEF TokenInv, RequestError, Busy
  <2>3. \A q \in Requests : q # r => req[q].pc = "idle"
    BY <2>2 DEF InOrder
  <2>4. MovesTo(r, Idle) /\ Ready(Idle)' /\ TokenGood'
    BY <2>1, <2>2, IdleTyped DEF Ends, MovesTo, Ready, Transferring, TokenGood
  <2> QED
    BY <2>3, <2>4, IdleTyped, OrderMove
<1>6. CASE Crash
  <2>1. trouble' = "past" /\ \A q \in Requests : req'[q].pc = "idle"
    BY <1>6, IdleTyped DEF Crash, Fails
  <2>2. TokenGood'
    BY <2>1 DEF TokenGood
  <2>3. \A q \in Requests : Ready(req[q])'
    BY <2>1 DEF Ready, Transferring
  <2> QED
    BY <2>1, <2>2, <2>3 DEF InOrder
<1>7. ASSUME NEW r \in Requests, AccountStep(r) \/ TransferStep(r) \/ RequestError(r)
      PROVE  InOrder'
  <2>1. RequestError(r) => Fails
    BY DEF RequestError
  <2> QED
    BY <1>2, <1>3, <1>4, <1>5, <1>7, <2>1 DEF AccountStep
<1> QED
  BY <1>1, <1>6, <1>7 DEF Next

\* An account at rest that was never disturbed is open or closed as a whole.
LEMMA WholeRows ==
    ASSUME TypeOK, HalfInv, AccountsKnown, BareInv, Disturbances = 0, Busy = {}
    PROVE  \A c \in Made : clients[c].active <=> clients[c].card = "live"
<1>1. Faults = 0
  <2>1. spent.overlaps \in Nat /\ spent.errors \in Nat /\ spent.crashes \in Nat
        /\ spent.switches \in Nat
    BY DEF TypeOK, Spent
  <2>2. spent.errors = 0 /\ spent.crashes = 0
    BY <2>1 DEF Disturbances, Interference
  <2> QED
    BY <2>2, ConstantsTyped DEF Faults
<1>2. \A c \in Made : clients[c].card \in {"live", "deleted"}
  BY <1>1, CardsComplete DEF Made, TypeOK, Row
<1>3. CASE ~restores
  BY <1>2, <1>3 DEF BareInv
<1>4. CASE restores
  <2> SUFFICES ASSUME NEW c \in Made PROVE clients[c].active <=> clients[c].card = "live"
    OBVIOUS
  <2>1. Cardinality(Made) + Count({"create"}) + Reserve <= 1
    BY <1>4 DEF AccountsKnown, AccountsInv
  <2>2. /\ Cardinality(Made) \in Nat /\ Count({"create"}) \in Nat /\ Reserve \in {0, 1}
        /\ Made = 1..Cardinality(Made) /\ c \in Nat
    BY MadeFinite, InFinite, ReserveTyped DEF HalfInv, Made, Clients
  <2>3. Cardinality(Made) = 1 /\ Reserve = 0
    BY <2>1, <2>2
  <2>4. Tame /\ ~Creating
    BY <2>3, ReserveTyped DEF Creating, Busy
  <2>5. PICK d \in Clients : Found(d) /\ (Quiet(d) \/ Served(d))
    BY <2>4 DEF Tame
  <2>6. ~Served(d)
    BY DEF Served, Busy, Changing
  <2>7. d = c
    <3>1. d \in Made /\ Made = 1..1
      BY <2>2, <2>3, <2>5, FoundMade
    <3> QED
      BY <3>1
  <2> QED
    BY <1>2, <2>5, <2>6, <2>7 DEF Quiet, Matched
<1> QED
  BY <1>3, <1>4

\* An account that was never disturbed is, at rest, open or closed in both its
\* rows; and whatever an account went through, the token the app has is its
\* client's as long as nothing overlapped or failed since the app was given it.
THEOREM WholeWhenUndisturbed == Spec => []WholeUndisturbed
<1>1. Typed => TypeOK
  BY DEF Typed
<1>2. TypeOK /\ HalfInv /\ AccountsKnown /\ BareInv /\ TokenInv => WholeUndisturbed
  <2> SUFFICES ASSUME TypeOK, HalfInv, AccountsKnown, BareInv, TokenInv
               PROVE  WholeUndisturbed
    OBVIOUS
  <2>1. ClientAndCardAgree
    BY WholeRows DEF ClientAndCardAgree
  <2>2. TokenWorks
    <3> SUFFICES ASSUME restores, trouble = "none", Busy = {}, holds > 0
                 PROVE  \E c \in Clients : Found(c) /\ clients[c].token = holds
      BY DEF TokenWorks
    <3>1. TokenGood
      BY DEF TokenInv, InOrder, Busy
    <3> QED
      BY <3>1 DEF TokenGood, Bears
  <2> QED
    BY <2>1, <2>2 DEF WholeUndisturbed
<1>3. Init => AccountsKnown
  BY AccountsInit DEF AccountsKnown
<1> QED
  BY AlwaysTyped, HalfInit, HalfNext, <1>3, AccountsKnownNext, BareInit, BareNext,
     TokenInit, TokenNext, <1>1, <1>2, PTL DEF Spec

=============================================================================
