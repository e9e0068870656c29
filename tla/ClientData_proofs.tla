------------------------- MODULE ClientData_proofs -------------------------
(* Proofs about ClientData: its three properties, for any number of clients, *)
(* car washes, requests and rows.                                            *)
EXTENDS ClientData, FiniteSetTheorems, TLAPS

(***************************************************************************)
(* Types                                                                   *)
(***************************************************************************)

\* The types of the constants that stand for requests that are not under way.
LEMMA IdleTyped ==
    /\ SomeClient \in Clients
    /\ NoMeta \in Meta
    /\ Idle \in Request
  BY SetsAssumption
  DEF SomeClient, NoFields, Blank, NoMeta, Meta, Fields, Idle, Request, Nothing, Given, NoId

LEMMA RowsFinite == IsFiniteSet(Rows) /\ Cardinality(Rows) \in Nat
<1>1. IsFiniteSet(Ids)
  BY BoundsAssumption, FS_Interval DEF Ids
<1>2. Rows \in SUBSET Ids
  BY DEF Rows
<1> QED BY <1>1, <1>2, FS_Subset, FS_CardinalityType

\* Merged data are data.
LEMMA MergedTyped ==
    ASSUME NEW fields \in Fields, NEW given \in Given
    PROVE  Merged(fields, given) \in Fields
  BY DEF Fields, Given, Merged, Unset

\* The initial state is well typed.
LEMMA TypeInit == Init => TypeOK
<1> SUFFICES ASSUME Init PROVE TypeOK
  OBVIOUS
<1>1. Rows = {}
  BY DEF Init, Rows, NoMeta
<1>2. 1..0 = {}
  OBVIOUS
<1>3. Rows = 1..Cardinality(Rows)
  BY <1>1, <1>2, FS_EmptySet
<1> QED BY <1>3, IdleTyped DEF Init, TypeOK, NoFields, Blank, Fields, Idle

LEMMA EndsTyped ==
    ASSUME TypeOK, NEW r \in Requests, Ends(r)
    PROVE  /\ req' \in [Requests -> Request]
           /\ req'[r] = Idle
           /\ \A q \in Requests \ {r} : req'[q] = req[q]
  BY IdleTyped DEF TypeOK, Ends

LEMMA StartsTyped ==
    ASSUME TypeOK, NEW r \in Requests, NEW fields \in Request, Starts(r, fields)
    PROVE  /\ req' \in [Requests -> Request]
           /\ req'[r] = fields
           /\ \A q \in Requests \ {r} : req'[q] = req[q]
           /\ overlaps' \in Nat
           /\ overlaps' = overlaps + (IF Busy = {} THEN 0 ELSE 1)
  BY DEF TypeOK, Starts

\* What the requests that start hold.
LEMMA StartedTyped ==
    ASSUME TypeOK, NEW c \in Clients
    PROVE  /\ \A w \in CarWashes :
                [Idle EXCEPT !.pc = "favourite", !.client = c, !.carWash = w] \in Request
           /\ \A i \in Ids \cup {NoId} :
                [Idle EXCEPT !.pc = "create", !.id = i,
                    !.given = [client |-> c, device |-> stamps + 1,
                               token |-> stamps + 1]] \in Request
<1>1. ASSUME NEW w \in CarWashes
      PROVE  [Idle EXCEPT !.pc = "favourite", !.client = c, !.carWash = w] \in Request
  BY IdleTyped DEF Request
<1>2. ASSUME NEW i \in Ids \cup {NoId}, NEW given \in Given
      PROVE  [Idle EXCEPT !.pc = "create", !.id = i, !.given = given] \in Request
  BY IdleTyped DEF Request
<1>3. [client |-> c, device |-> stamps + 1, token |-> stamps + 1] \in Given
  BY DEF TypeOK, Given
<1> QED BY <1>1, <1>2, <1>3

LEMMA UpdateTyped ==
    ASSUME TypeOK, NEW i \in Rows, NEW given \in UpdatesToSend
    PROVE  LET owner == IF given.client = NotGiven THEN metas[i].client ELSE given.client
           IN  [Idle EXCEPT !.pc = "update", !.id = i, !.given = given,
                    !.row = [made |-> TRUE, client |-> owner,
                             fields |-> Merged(metas[i].fields, given)]] \in Request
<1> DEFINE owner == IF given.client = NotGiven THEN metas[i].client ELSE given.client
           row == [made |-> TRUE, client |-> owner,
                   fields |-> Merged(metas[i].fields, given)]
<1>1. given \in Given
  <2>1. {stamps + 1} \cup Unset \subseteq Nat \cup {NotGiven}
    BY DEF TypeOK, Unset, Blank
  <2> QED BY <2>1 DEF UpdatesToSend, Given
<1>2. i \in Ids /\ metas[i] \in Meta
  BY DEF Rows, TypeOK
<1>3. owner \in Clients
  BY <1>1, <1>2 DEF Given, Meta
<1>4. Merged(metas[i].fields, given) \in Fields
  BY <1>1, <1>2, MergedTyped DEF Meta
<1>5. row \in Meta
  BY <1>3, <1>4 DEF Meta
<1> HIDE DEF row
<1>6. [Idle EXCEPT !.pc = "update", !.id = i, !.given = given, !.row = row] \in Request
  BY <1>1, <1>2, <1>5, IdleTyped DEF Request, Idle
<1> QED BY <1>6 DEF row

\* A row is written: the ids stay consecutive.
LEMMA RowsWritten ==
    ASSUME TypeOK, NEW i \in Rows \cup {NextId}, i \in Ids, NEW m \in Meta, m.made,
           metas' = [metas EXCEPT ![i] = m]
    PROVE  /\ metas' \in [Ids -> Meta]
           /\ Rows' = Rows \cup {i}
           /\ Rows' = 1..Cardinality(Rows')
<1>1. metas' \in [Ids -> Meta]
  BY DEF TypeOK
<1>2. Rows' = Rows \cup {i}
  BY DEF Rows, TypeOK
<1>3. CASE i \in Rows
  <2>1. Rows' = Rows
    BY <1>2, <1>3
  <2> QED BY <1>1, <1>2, <2>1 DEF TypeOK
<1>4. CASE i \notin Rows
  <2>1. i = Cardinality(Rows) + 1
    BY <1>4 DEF NextId
  <2>2. Cardinality(Rows') = Cardinality(Rows) + 1
    BY <1>2, <1>4, RowsFinite, FS_AddElement
  <2>3. 1..(Cardinality(Rows) + 1) = (1..Cardinality(Rows)) \cup {Cardinality(Rows) + 1}
    BY RowsFinite
  <2> QED BY <1>1, <1>2, <2>1, <2>2, <2>3 DEF TypeOK
<1> QED BY <1>3, <1>4

\* The row a creation writes.
Created(r) == [made |-> TRUE, fields |-> Merged(NoFields, req[r].given),
               client |-> req[r].given.client]
CreatedId(r) == IF req[r].id = NoId THEN NextId ELSE req[r].id

\* What a request holds: a creation a client and an id that is there or none, an
\* update a row to write and its id.
Fits(r) ==
    /\ req[r].pc = "create" => /\ req[r].given.client \in Clients
                               /\ req[r].id \in Rows \cup {NoId}
    /\ req[r].pc = "update" => req[r].id \in Rows /\ req[r].row.made

Typed == TypeOK /\ \A r \in Requests : Fits(r)

LEMMA TypedInit == Init => Typed
  BY TypeInit DEF Init, Typed, Fits, Idle

\* One request moves, and no row goes: the others fit as before.
LEMMA OthersFit ==
    ASSUME Typed, NEW r \in Requests, Rows \subseteq Rows',
           \A q \in Requests \ {r} : req'[q] = req[q], Fits(r)'
    PROVE  \A q \in Requests : Fits(q)'
<1> SUFFICES ASSUME NEW q \in Requests \ {r} PROVE Fits(q)'
  OBVIOUS
<1>1. req'[q] = req[q] /\ Fits(q)
  BY DEF Typed
<1> QED BY <1>1 DEF Fits

\* A request that ends fits.
LEMMA EndedFits ==
    ASSUME Typed, NEW r \in Requests, Ends(r), Rows \subseteq Rows'
    PROVE  /\ req' \in [Requests -> Request]
           /\ \A q \in Requests : Fits(q)'
<1>1. req'[r] = Idle /\ Idle.pc = "idle"
  BY EndsTyped DEF Typed, Idle
<1>2. Fits(r)'
  BY <1>1 DEF Fits
<1> QED BY <1>2, EndsTyped, OthersFit DEF Typed

LEMMA TypedNext == Typed /\ [Next]_vars => Typed'
<1> SUFFICES ASSUME Typed, [Next]_vars PROVE Typed'
  OBVIOUS
<1>t. TypeOK
  BY DEF Typed
<1>u. ASSUME /\ req' \in [Requests -> Request] /\ \A q \in Requests : Fits(q)'
             /\ favourites' \in [Clients -> [CarWashes -> Nat]]
             /\ metas' \in [Ids -> Meta] /\ last' \in [Ids -> Fields]
             /\ stamps' \in Nat /\ moves' \in Nat /\ overlaps' \in Nat
             /\ Rows' = 1..Cardinality(Rows')
      PROVE  Typed'
  BY <1>u DEF Typed, TypeOK, Fits
<1>f. ASSUME UNCHANGED metas PROVE Rows' = Rows /\ Rows' = 1..Cardinality(Rows')
  BY <1>t, <1>f DEF TypeOK, Rows
<1>1. ASSUME NEW r \in Requests, NEW c \in Clients, NEW w \in CarWashes,
             AddFavourite(r, c, w)
      PROVE  Typed'
  <2> DEFINE started == [Idle EXCEPT !.pc = "favourite", !.client = c, !.carWash = w]
  <2>1. started \in Request /\ started.pc = "favourite"
    BY <1>t, StartedTyped, IdleTyped DEF Request
  <2> HIDE DEF started
  <2>2. Starts(r, started) /\ UNCHANGED <<favourites, metas, last, stamps, moves>>
    BY <1>1 DEF AddFavourite, started
  <2>3. Fits(r)'
    BY <1>t, <2>1, <2>2, StartsTyped DEF Fits
  <2> QED BY <1>t, <1>u, <1>f, <2>1, <2>2, <2>3, StartsTyped, OthersFit DEF TypeOK
<1>2. ASSUME NEW r \in Requests, SaveFavourite(r) PROVE Typed'
  <2>1. favourites' \in [Clients -> [CarWashes -> Nat]]
    BY <1>t, <1>2 DEF SaveFavourite, TypeOK, Request
  <2> QED BY <1>t, <1>u, <1>f, <1>2, <2>1, EndedFits DEF SaveFavourite, TypeOK
<1>3. ASSUME NEW r \in Requests, NEW c \in Clients, NEW i \in Ids \cup {NoId},
             CreateRead(r, c, i)
      PROVE  Typed'
  <2> DEFINE given == [client |-> c, device |-> stamps + 1, token |-> stamps + 1]
             started == [Idle EXCEPT !.pc = "create", !.id = i, !.given = given]
  <2>1. started \in Request
    BY <1>t, StartedTyped
  <2>2. started.pc = "create" /\ started.id = i /\ started.given.client = c
    BY IdleTyped DEF Request
  <2> HIDE DEF started
  <2>3. /\ Starts(r, started) /\ i \in Rows \cup {NoId}
        /\ stamps' = stamps + 1 /\ UNCHANGED <<favourites, metas, last, moves>>
    BY <1>3 DEF CreateRead, started
  <2>4. Fits(r)'
    BY <1>t, <1>f, <2>1, <2>2, <2>3, StartsTyped DEF Fits
  <2> QED BY <1>t, <1>u, <1>f, <2>1, <2>3, <2>4, StartsTyped, OthersFit DEF TypeOK
<1>4. ASSUME NEW r \in Requests, Create(r) PROVE Typed'
  <2>1. CreatedId(r) \in Rows \cup {NextId} /\ CreatedId(r) \in Ids
    BY <1>4 DEF Create, At, Typed, Fits, CreatedId
  <2>2. Merged(NoFields, req[r].given) \in Fields
    BY <1>t, MergedTyped DEF TypeOK, Request, NoFields, Blank, Fields
  <2>3. Created(r) \in Meta /\ Created(r).made
    BY <1>4, <2>2 DEF Create, At, Typed, Fits, Created, Meta
  <2>4. /\ metas' = [metas EXCEPT ![CreatedId(r)] = Created(r)]
        /\ last' = [last EXCEPT ![CreatedId(r)] = Merged(NoFields, req[r].given)]
    BY <1>4 DEF Create, Created, CreatedId
  <2>5. /\ metas' \in [Ids -> Meta] /\ Rows' = Rows \cup {CreatedId(r)}
        /\ Rows' = 1..Cardinality(Rows')
    BY <1>t, <2>1, <2>3, <2>4, RowsWritten
  <2>6. last' \in [Ids -> Fields]
    BY <1>t, <2>2, <2>4 DEF TypeOK
  <2>7. Ends(r) /\ UNCHANGED <<favourites, stamps, moves, overlaps>>
    BY <1>4 DEF Create
  <2> QED BY <1>t, <1>u, <2>5, <2>6, <2>7, EndedFits DEF TypeOK
<1>5. ASSUME NEW r \in Requests, NEW i \in Ids, NEW given \in UpdatesToSend,
             UpdateRead(r, i, given)
      PROVE  Typed'
  <2> DEFINE owner == IF given.client = NotGiven THEN metas[i].client ELSE given.client
             row == [made |-> TRUE, client |-> owner,
                     fields |-> Merged(metas[i].fields, given)]
             started == [Idle EXCEPT !.pc = "update", !.id = i, !.given = given,
                                     !.row = row]
  <2>1. i \in Rows
    BY <1>5 DEF UpdateRead
  <2>2. started \in Request
    BY <1>t, <2>1, UpdateTyped
  <2>3. started.pc = "update" /\ started.id = i /\ started.row.made
    BY IdleTyped DEF Request
  <2> HIDE DEF started
  <2>4. /\ Starts(r, started) /\ stamps' = stamps + 1
        /\ UNCHANGED <<favourites, metas, last, moves>>
    BY <1>5 DEF UpdateRead, started
  <2>5. Fits(r)'
    BY <1>t, <1>f, <2>1, <2>2, <2>3, <2>4, StartsTyped DEF Fits
  <2> QED BY <1>t, <1>u, <1>f, <2>2, <2>4, <2>5, StartsTyped, OthersFit DEF TypeOK
<1>6. ASSUME NEW r \in Requests, Update(r) PROVE Typed'
  <2> DEFINE i == req[r].id
  <2>1. i \in Rows /\ i \in Ids /\ req[r].row \in Meta /\ req[r].row.made
    BY <1>t, <1>6 DEF Update, At, TypeOK, Typed, Fits, Request, Rows
  <2>2. metas' = [metas EXCEPT ![i] = req[r].row]
    BY <1>6 DEF Update
  <2>3. metas' \in [Ids -> Meta] /\ Rows' = Rows \cup {i} /\ Rows' = 1..Cardinality(Rows')
    BY <1>t, <2>1, <2>2, RowsWritten
  <2>4. last' \in [Ids -> Fields]
    <3> DEFINE new == [f \in {"device", "token"} |-> IF req[r].given[f] \in Unset
                                                    THEN last[i][f] ELSE req[r].given[f]]
    <3>1. last[i] \in Fields /\ req[r].given \in Given
      BY <1>t, <2>1 DEF TypeOK, Request
    <3>2. new = [device |-> IF req[r].given.device \in Unset
                            THEN last[i].device ELSE req[r].given.device,
                 token |-> IF req[r].given.token \in Unset
                           THEN last[i].token ELSE req[r].given.token]
      OBVIOUS
    <3>3. new \in Fields
      BY <3>1, <3>2 DEF Fields, Given, Unset
    <3>4. last' = [last EXCEPT ![i] = new]
      BY <1>6 DEF Update
    <3> QED BY <1>t, <3>3, <3>4 DEF TypeOK
  <2>5. moves' \in Nat
    BY <1>t, <1>6 DEF Update, TypeOK
  <2>6. Ends(r) /\ UNCHANGED <<favourites, stamps, overlaps>>
    BY <1>6 DEF Update
  <2> QED BY <1>t, <1>u, <2>3, <2>4, <2>5, <2>6, EndedFits DEF TypeOK
<1>7. ASSUME NEW r \in Requests, RequestError(r) PROVE Typed'
  BY <1>t, <1>u, <1>f, <1>7, EndedFits DEF RequestError, TypeOK
<1>8. ASSUME NEW c \in Clients, NEW w \in CarWashes, RemoveFavourite(c, w) PROVE Typed'
  BY <1>t, <1>f, <1>8 DEF RemoveFavourite, Typed, TypeOK, Fits
<1>9. CASE UNCHANGED vars
  BY <1>t, <1>f, <1>9 DEF vars, Typed, TypeOK, Fits
<1> QED
  BY <1>1, <1>2, <1>3, <1>4, <1>5, <1>6, <1>7, <1>8, <1>9 DEF Next

(***************************************************************************)
(* Every variable has its type, and the ids of device data stay            *)
(* consecutive, whatever runs beside what.                                 *)
(***************************************************************************)
THEOREM TypeCorrect == Spec => []TypeOK
<1>1. Typed => TypeOK
  BY DEF Typed
<1> QED BY <1>1, TypedInit, TypedNext, PTL DEF Spec

(***************************************************************************)
(* Device data of requests that run alone                                  *)
(***************************************************************************)

\* Without overlaps one request is under way, an update would write the data
\* that are there and its own, and the data that are there are the last sent.
Alone == overlaps = 0 => \A r, q \in Busy : r = q
Fresh ==
    overlaps = 0 => \A r \in Requests : At(r, "update") =>
        req[r].row.fields = Merged(metas[req[r].id].fields, req[r].given)

KeptInv == Typed /\ Alone /\ Fresh /\ UpdatesKept

\* A request that starts without an overlap finds nobody, and then is alone.
LEMMA StartsAlone ==
    ASSUME TypeOK, NEW r \in Requests, NEW fields \in Request, Starts(r, fields),
           overlaps' = 0
    PROVE  overlaps = 0 /\ Busy = {} /\ Busy' \subseteq {r}
  BY StartsTyped DEF TypeOK, Busy

LEMMA EndsAlone ==
    ASSUME KeptInv, NEW r \in Busy, Ends(r), overlaps' = 0, UNCHANGED overlaps
    PROVE  Busy' = {}
<1>1. Busy = {r}
  BY DEF KeptInv, Alone
<1>2. req'[r] = Idle /\ \A q \in Requests \ {r} : req'[q] = req[q]
  BY EndsTyped DEF KeptInv, Typed, Busy
<1>3. Idle.pc = "idle"
  BY DEF Idle
<1> QED BY <1>1, <1>2, <1>3 DEF Busy

LEMMA KeptInit == Init => KeptInv
  BY TypedInit DEF Init, KeptInv, Alone, Fresh, UpdatesKept, Busy, At, Idle, Rows, NoMeta

LEMMA KeptNext == KeptInv /\ [Next]_vars => KeptInv'
<1> SUFFICES ASSUME KeptInv, [Next]_vars, overlaps' = 0
             PROVE  (Alone /\ Fresh /\ UpdatesKept)'
  BY TypedNext DEF KeptInv, Alone, Fresh, UpdatesKept
<1>t. Typed /\ TypeOK
  BY DEF KeptInv, Typed
<1>e. ASSUME NEW r \in Busy, Ends(r), UNCHANGED overlaps PROVE (Alone /\ Fresh)'
  BY <1>e, EndsAlone DEF Alone, Fresh, Busy, At
<1>k. ASSUME UNCHANGED <<metas, last>>, overlaps = 0 PROVE UpdatesKept'
  BY <1>k DEF KeptInv, UpdatesKept, Rows
<1>1. ASSUME NEW r \in Requests, NEW c \in Clients, NEW w \in CarWashes,
             AddFavourite(r, c, w)
      PROVE  (Alone /\ Fresh /\ UpdatesKept)'
  <2> DEFINE started == [Idle EXCEPT !.pc = "favourite", !.client = c, !.carWash = w]
  <2>1. started \in Request /\ started.pc = "favourite"
    BY <1>t, StartedTyped, IdleTyped DEF Request
  <2> HIDE DEF started
  <2>2. Starts(r, started) /\ UNCHANGED <<metas, last>>
    BY <1>1 DEF AddFavourite, started
  <2>3. overlaps = 0 /\ Busy' \subseteq {r} /\ req'[r] = started
    BY <1>t, <2>1, <2>2, StartsAlone, StartsTyped
  <2>4. (Alone /\ Fresh)'
    BY <2>1, <2>3 DEF Alone, Fresh, At, Busy
  <2> QED BY <1>k, <2>2, <2>3, <2>4
<1>2. ASSUME NEW r \in Requests, SaveFavourite(r) \/ RequestError(r)
      PROVE  (Alone /\ Fresh /\ UpdatesKept)'
  BY <1>e, <1>k, <1>2 DEF SaveFavourite, RequestError, Busy, At
<1>3. ASSUME NEW r \in Requests, NEW c \in Clients, NEW i \in Ids \cup {NoId},
             CreateRead(r, c, i)
      PROVE  (Alone /\ Fresh /\ UpdatesKept)'
  <2> DEFINE given == [client |-> c, device |-> stamps + 1, token |-> stamps + 1]
             started == [Idle EXCEPT !.pc = "create", !.id = i, !.given = given]
  <2>1. started \in Request /\ started.pc = "create"
    BY <1>t, StartedTyped, IdleTyped DEF Request
  <2> HIDE DEF started
  <2>2. Starts(r, started) /\ UNCHANGED <<metas, last>>
    BY <1>3 DEF CreateRead, started
  <2>3. overlaps = 0 /\ Busy' \subseteq {r} /\ req'[r] = started
    BY <1>t, <2>1, <2>2, StartsAlone, StartsTyped
  <2>4. (Alone /\ Fresh)'
    BY <2>1, <2>3 DEF Alone, Fresh, At, Busy
  <2> QED BY <1>k, <2>2, <2>3, <2>4
<1>4. ASSUME NEW r \in Requests, Create(r) PROVE (Alone /\ Fresh /\ UpdatesKept)'
  <2>1. (Alone /\ Fresh)'
    BY <1>e, <1>4 DEF Create, Busy, At
  <2> DEFINE fields == Merged(NoFields, req[r].given)
  <2>2. CreatedId(r) \in Rows \cup {NextId} /\ CreatedId(r) \in Ids
    BY <1>4 DEF Create, At, KeptInv, Typed, Fits, CreatedId
  <2>3. /\ metas' = [metas EXCEPT ![CreatedId(r)] = Created(r)]
        /\ last' = [last EXCEPT ![CreatedId(r)] = fields]
        /\ overlaps = 0
    BY <1>4 DEF Create, Created, CreatedId
  <2>4. metas'[CreatedId(r)].fields = last'[CreatedId(r)]
    BY <1>t, <2>2, <2>3 DEF Created, TypeOK
  <2>5. \A i \in Ids \ {CreatedId(r)} : metas'[i] = metas[i] /\ last'[i] = last[i]
    BY <1>t, <2>3 DEF TypeOK
  <2> HIDE DEF fields
  <2>6. UpdatesKept'
    BY <2>3, <2>4, <2>5 DEF KeptInv, UpdatesKept, Rows
  <2> QED BY <2>1, <2>6
<1>5. ASSUME NEW r \in Requests, NEW i \in Ids, NEW given \in UpdatesToSend,
             UpdateRead(r, i, given)
      PROVE  (Alone /\ Fresh /\ UpdatesKept)'
  <2> DEFINE owner == IF given.client = NotGiven THEN metas[i].client ELSE given.client
             row == [made |-> TRUE, client |-> owner,
                     fields |-> Merged(metas[i].fields, given)]
             started == [Idle EXCEPT !.pc = "update", !.id = i, !.given = given,
                                     !.row = row]
  <2>1. i \in Rows
    BY <1>5 DEF UpdateRead
  <2>2. started \in Request
    BY <1>t, <2>1, UpdateTyped
  <2>3. /\ started.row.fields = Merged(metas[i].fields, given)
        /\ started.id = i /\ started.given = given
    BY IdleTyped DEF Request
  <2> HIDE DEF started
  <2>4. Starts(r, started) /\ UNCHANGED <<metas, last>>
    BY <1>5 DEF UpdateRead, started
  <2>5. overlaps = 0 /\ Busy' \subseteq {r} /\ req'[r] = started
    BY <1>t, <2>2, <2>4, StartsAlone, StartsTyped
  <2>6. (Alone /\ Fresh)'
    BY <2>3, <2>4, <2>5 DEF Alone, Fresh, At, Busy
  <2> QED BY <1>k, <2>4, <2>5, <2>6
<1>6. ASSUME NEW r \in Requests, Update(r) PROVE (Alone /\ Fresh /\ UpdatesKept)'
  <2> DEFINE i == req[r].id
             given == req[r].given
             new == [f \in {"device", "token"} |-> IF given[f] \in Unset
                                                  THEN last[i][f] ELSE given[f]]
  <2>1. (Alone /\ Fresh)'
    BY <1>e, <1>6 DEF Update, Busy, At
  <2>2. /\ metas' = [metas EXCEPT ![i] = req[r].row]
        /\ last' = [last EXCEPT ![i] = new]
        /\ overlaps = 0
    BY <1>6 DEF Update
  <2>3. i \in Rows /\ i \in Ids
    BY <1>6 DEF Update, At, KeptInv, Typed, Fits, Rows
  <2>4. metas[i].fields = last[i] /\ req[r].row.fields = Merged(metas[i].fields, given)
    BY <1>6, <2>2, <2>3 DEF KeptInv, UpdatesKept, Fresh, Update
  <2>5. new = Merged(last[i], given)
    BY DEF Merged
  <2>6. metas'[i].fields = last'[i]
    BY <1>t, <2>2, <2>3, <2>4, <2>5 DEF TypeOK
  <2>7. \A j \in Ids \ {i} : metas'[j] = metas[j] /\ last'[j] = last[j]
    BY <1>t, <2>2 DEF TypeOK
  <2> HIDE DEF new, i
  <2>8. UpdatesKept'
    BY <2>2, <2>3, <2>6, <2>7 DEF KeptInv, UpdatesKept, Rows
  <2> QED BY <2>1, <2>8
<1>7. ASSUME NEW c \in Clients, NEW w \in CarWashes, RemoveFavourite(c, w)
      PROVE  (Alone /\ Fresh /\ UpdatesKept)'
  BY <1>7 DEF RemoveFavourite, KeptInv, Alone, Fresh, UpdatesKept, Busy, At, Rows
<1>8. CASE UNCHANGED vars
  BY <1>8 DEF vars, KeptInv, Alone, Fresh, UpdatesKept, Busy, At, Rows
<1> QED
  BY <1>1, <1>2, <1>3, <1>4, <1>5, <1>6, <1>7, <1>8 DEF Next

(***************************************************************************)
(* Requests that run alone lose nothing: every field of a device shows     *)
(* what was sent for it last.                                              *)
(***************************************************************************)
THEOREM NothingLostAlone == Spec => []UpdatesKept
<1>1. KeptInv => UpdatesKept
  BY DEF KeptInv
<1> QED BY <1>1, KeptInit, KeptNext, PTL DEF Spec

(***************************************************************************)
(* How often a row is there                                                *)
(***************************************************************************)

Adding(c, w) ==
    {r \in Requests : At(r, "favourite") /\ req[r].client = c /\ req[r].carWash = w}
Creating(c) == {r \in Requests : At(r, "create") /\ req[r].given.client = c}
RowsOf(c) == {i \in Rows : metas[i].client = c}

\* Requests that found nothing and have not inserted yet count as rows.
FavouritesBounded ==
    \A c \in Clients, w \in CarWashes :
        favourites[c][w] + Cardinality(Adding(c, w)) <= 1 + overlaps
MetasBounded ==
    \A c \in Clients :
        Cardinality(RowsOf(c)) + Cardinality(Creating(c)) <= 1 + overlaps + moves

RowsInv == Typed /\ FavouritesBounded /\ MetasBounded

LEMMA AddingFinite ==
    ASSUME NEW c, NEW w
    PROVE  IsFiniteSet(Adding(c, w)) /\ Cardinality(Adding(c, w)) \in Nat
<1>1. Adding(c, w) \in SUBSET Requests
  BY DEF Adding
<1> QED BY <1>1, RequestsAssumption, FS_Subset, FS_CardinalityType

LEMMA CreatingFinite ==
    ASSUME NEW c
    PROVE  /\ IsFiniteSet(Creating(c)) /\ Cardinality(Creating(c)) \in Nat
           /\ IsFiniteSet(RowsOf(c)) /\ Cardinality(RowsOf(c)) \in Nat
<1>1. Creating(c) \in SUBSET Requests /\ RowsOf(c) \in SUBSET Rows
  BY DEF Creating, RowsOf
<1> QED BY <1>1, RequestsAssumption, RowsFinite, FS_Subset, FS_CardinalityType

\* A set gains or loses at most one element.
LEMMA OneMore ==
    ASSUME NEW S, NEW T, NEW x, IsFiniteSet(S), T \subseteq S \cup {x}
    PROVE  /\ Cardinality(T) \in Nat /\ Cardinality(S) \in Nat
           /\ Cardinality(T) <= Cardinality(S) + 1
           /\ x \in S \/ x \notin T => Cardinality(T) <= Cardinality(S)
           /\ x \in S /\ x \notin T => Cardinality(T) <= Cardinality(S) - 1
<1>1. IsFiniteSet(S \cup {x}) /\ IsFiniteSet(S \ {x})
  BY FS_AddElement, FS_RemoveElement
<1>2. IsFiniteSet(T) /\ Cardinality(T) <= Cardinality(S \cup {x})
  BY <1>1, FS_Subset
<1>3. x \notin T => T \in SUBSET (S \ {x})
  OBVIOUS
<1>4. x \notin T => Cardinality(T) <= Cardinality(S \ {x})
  BY <1>1, <1>3, FS_Subset
<1>5. Cardinality(S) \in Nat /\ Cardinality(T) \in Nat
  BY <1>2, FS_CardinalityType
<1>6. Cardinality(S \cup {x}) = IF x \in S THEN Cardinality(S) ELSE Cardinality(S) + 1
  BY FS_AddElement
<1>7. Cardinality(S \ {x}) = IF x \in S THEN Cardinality(S) - 1 ELSE Cardinality(S)
  BY FS_RemoveElement
<1>8. x \notin T => Cardinality(T) <= IF x \in S THEN Cardinality(S) - 1 ELSE Cardinality(S)
  BY <1>4, <1>7
<1> QED BY <1>2, <1>5, <1>6, <1>8

LEMMA RowsInit == Init => RowsInv
<1> SUFFICES ASSUME Init PROVE FavouritesBounded /\ MetasBounded
  BY TypedInit DEF RowsInv
<1>1. Idle.pc = "idle" /\ ~NoMeta.made
  BY DEF Idle, NoMeta
<1>2. ASSUME NEW c \in Clients, NEW w \in CarWashes
      PROVE  favourites[c][w] = 0 /\ Adding(c, w) = {}
  BY <1>1 DEF Init, Adding, At
<1>3. ASSUME NEW c \in Clients
      PROVE  RowsOf(c) = {} /\ Creating(c) = {}
  BY <1>1 DEF Init, Creating, RowsOf, Rows, At
<1>4. overlaps = 0 /\ moves = 0 /\ Cardinality({}) = 0
  BY FS_EmptySet DEF Init
<1>5. FavouritesBounded
  BY <1>2, <1>4 DEF FavouritesBounded
<1>6. MetasBounded
  BY <1>3, <1>4 DEF MetasBounded
<1> QED BY <1>5, <1>6

\* A step that adds no favourite and starts no adding keeps the first bound.
LEMMA FavouritesFrame ==
    ASSUME RowsInv, overlaps' \in Nat, overlaps <= overlaps',
           \A c \in Clients, w \in CarWashes :
              /\ Adding(c, w)' \subseteq Adding(c, w)
              /\ favourites'[c][w] \in Nat /\ favourites'[c][w] <= favourites[c][w]
    PROVE  FavouritesBounded'
<1> SUFFICES ASSUME NEW c \in Clients, NEW w \in CarWashes
             PROVE  favourites'[c][w] + Cardinality(Adding(c, w)') <= 1 + overlaps'
  BY DEF FavouritesBounded
<1>1. /\ Cardinality(Adding(c, w)') \in Nat
      /\ Cardinality(Adding(c, w)') <= Cardinality(Adding(c, w))
  BY AddingFinite, FS_Subset, FS_CardinalityType
<1>2. favourites[c][w] + Cardinality(Adding(c, w)) <= 1 + overlaps
  BY DEF RowsInv, FavouritesBounded
<1> QED BY <1>1, <1>2, AddingFinite DEF RowsInv, Typed, TypeOK

\* A step that adds no device data and starts no creation keeps the second.
LEMMA MetasFrame ==
    ASSUME RowsInv, overlaps' \in Nat, overlaps <= overlaps', UNCHANGED <<metas, moves>>,
           \A c \in Clients : Creating(c)' \subseteq Creating(c)
    PROVE  MetasBounded'
<1> SUFFICES ASSUME NEW c \in Clients
             PROVE  Cardinality(RowsOf(c)') + Cardinality(Creating(c)')
                        <= 1 + overlaps' + moves'
  BY DEF MetasBounded
<1>1. /\ Cardinality(Creating(c)') \in Nat
      /\ Cardinality(Creating(c)') <= Cardinality(Creating(c))
  BY CreatingFinite, FS_Subset, FS_CardinalityType
<1>2. RowsOf(c)' = RowsOf(c)
  BY DEF RowsOf, Rows
<1>3. Cardinality(RowsOf(c)) + Cardinality(Creating(c)) <= 1 + overlaps + moves
  BY DEF RowsInv, MetasBounded
<1> QED BY <1>1, <1>2, <1>3, CreatingFinite DEF RowsInv, Typed, TypeOK

\* A request that ends is no longer adding or creating.
LEMMA EndsCounted ==
    ASSUME Typed, NEW r \in Requests, Ends(r), NEW c, NEW w
    PROVE  /\ Adding(c, w)' = Adding(c, w) \ {r}
           /\ Creating(c)' = Creating(c) \ {r}
<1>1. req'[r] = Idle /\ \A q \in Requests \ {r} : req'[q] = req[q]
  BY EndsTyped DEF Typed
<1>2. Idle.pc = "idle"
  BY DEF Idle
<1> QED BY <1>1, <1>2 DEF Adding, Creating, At

\* One that starts is, if it is one of these, and the others stay.
LEMMA StartsCounted ==
    ASSUME Typed, NEW r \in Requests, NEW fields \in Request, Starts(r, fields),
           NEW c, NEW w
    PROVE  /\ r \notin Adding(c, w) /\ r \notin Creating(c)
           /\ Adding(c, w)' \subseteq Adding(c, w) \cup {r}
           /\ Creating(c)' \subseteq Creating(c) \cup {r}
           /\ fields.pc # "favourite" \/ fields.client # c \/ fields.carWash # w
                 => Adding(c, w)' \subseteq Adding(c, w)
           /\ fields.pc # "create" \/ fields.given.client # c
                 => Creating(c)' \subseteq Creating(c)
           /\ overlaps' \in Nat /\ overlaps <= overlaps'
           /\ overlaps' = overlaps => Adding(c, w) = {} /\ Creating(c) = {}
           /\ overlaps' = overlaps \/ overlaps' = overlaps + 1
<1>1. /\ req'[r] = fields /\ \A q \in Requests \ {r} : req'[q] = req[q]
      /\ overlaps' \in Nat
      /\ overlaps' = overlaps + (IF Busy = {} THEN 0 ELSE 1)
  BY StartsTyped DEF Typed
<1>2. req[r].pc = "idle" /\ overlaps \in Nat
  BY DEF Starts, At, Typed, TypeOK
<1>3. overlaps' = overlaps => Busy = {}
  BY <1>1, <1>2
<1>4. Adding(c, w) \subseteq Busy /\ Creating(c) \subseteq Busy
  BY DEF Adding, Creating, Busy, At
<1>5. /\ r \notin Adding(c, w) /\ r \notin Creating(c)
      /\ Adding(c, w)' \subseteq Adding(c, w) \cup {r}
      /\ Creating(c)' \subseteq Creating(c) \cup {r}
  BY <1>1, <1>2 DEF Adding, Creating, At
<1>6. fields.pc # "favourite" \/ fields.client # c \/ fields.carWash # w
          => Adding(c, w)' \subseteq Adding(c, w)
  BY <1>1 DEF Adding, At
<1>7. fields.pc # "create" \/ fields.given.client # c
          => Creating(c)' \subseteq Creating(c)
  BY <1>1 DEF Creating, At
<1> QED BY <1>1, <1>2, <1>3, <1>4, <1>5, <1>6, <1>7

LEMMA FavouritesNext == RowsInv /\ [Next]_vars => FavouritesBounded'
<1> SUFFICES ASSUME RowsInv, [Next]_vars PROVE FavouritesBounded'
  OBVIOUS
<1>t. Typed /\ TypeOK
  BY DEF RowsInv, Typed
<1>f. ASSUME NEW c \in Clients, NEW w \in CarWashes
      PROVE  /\ favourites[c][w] \in Nat /\ overlaps \in Nat
             /\ favourites[c][w] + Cardinality(Adding(c, w)) <= 1 + overlaps
  BY <1>t DEF RowsInv, FavouritesBounded, TypeOK
<1>e. ASSUME NEW r \in Requests, Ends(r), UNCHANGED <<favourites, overlaps>>
      PROVE  FavouritesBounded'
  BY <1>t, <1>f, <1>e, EndsCounted, FavouritesFrame DEF TypeOK
<1>s. ASSUME NEW r \in Requests, NEW fields \in Request, Starts(r, fields),
             fields.pc # "favourite", UNCHANGED favourites
      PROVE  FavouritesBounded'
  <2>1. overlaps' \in Nat /\ overlaps <= overlaps'
    BY <1>t, <1>s, SetsAssumption, StartsCounted
  <2> QED BY <1>t, <1>f, <1>s, <2>1, StartsCounted, FavouritesFrame
<1>1. ASSUME NEW r \in Requests, NEW c \in Clients, NEW w \in CarWashes,
             AddFavourite(r, c, w)
      PROVE  FavouritesBounded'
  <2> DEFINE started == [Idle EXCEPT !.pc = "favourite", !.client = c, !.carWash = w]
  <2>1. /\ started \in Request /\ started.client = c /\ started.carWash = w
    BY <1>t, StartedTyped, IdleTyped DEF Request
  <2> HIDE DEF started
  <2>2. Starts(r, started) /\ favourites[c][w] = 0 /\ UNCHANGED favourites
    BY <1>1 DEF AddFavourite, Missing, started
  <2> SUFFICES ASSUME NEW d \in Clients, NEW v \in CarWashes
               PROVE  favourites[d][v] + Cardinality(Adding(d, v)') <= 1 + overlaps'
    BY <2>2 DEF FavouritesBounded
  <2>3. /\ Adding(d, v)' \subseteq Adding(d, v) \cup {r}
        /\ d # c \/ v # w => Adding(d, v)' \subseteq Adding(d, v)
        /\ overlaps' \in Nat /\ overlaps <= overlaps'
        /\ overlaps' = overlaps => Adding(d, v) = {}
        /\ overlaps' = overlaps \/ overlaps' = overlaps + 1
    BY <1>t, <2>1, <2>2, StartsCounted
  <2>4. /\ Cardinality(Adding(d, v)') \in Nat /\ Cardinality(Adding(d, v)) \in Nat
        /\ Cardinality(Adding(d, v)') <= Cardinality(Adding(d, v)) + 1
    BY <2>3, AddingFinite, OneMore
  <2>5. CASE d # c \/ v # w
    <3>1. Cardinality(Adding(d, v)') <= Cardinality(Adding(d, v))
      BY <2>3, <2>5, AddingFinite, FS_Subset
    <3> QED BY <1>f, <2>3, <2>4, <3>1
  <2>6. CASE d = c /\ v = w
    <3>1. CASE overlaps' = overlaps
      <4>1. Cardinality(Adding(d, v)) = 0
        BY <2>3, <3>1, FS_EmptySet
      <4> QED BY <1>f, <2>2, <2>3, <2>4, <2>6, <4>1
    <3>2. CASE overlaps' = overlaps + 1
      BY <1>f, <2>2, <2>3, <2>4, <2>6, <3>2
    <3> QED BY <2>3, <3>1, <3>2
  <2> QED BY <2>5, <2>6
<1>2. ASSUME NEW r \in Requests, SaveFavourite(r) PROVE FavouritesBounded'
  <2> DEFINE c == req[r].client
             w == req[r].carWash
  <2>1. Ends(r) /\ At(r, "favourite") /\ UNCHANGED overlaps
    BY <1>2 DEF SaveFavourite
  <2>2. c \in Clients /\ w \in CarWashes
    BY <1>t DEF TypeOK, Request
  <2>3. favourites' = [favourites EXCEPT ![c][w] = @ + 1]
    BY <1>2 DEF SaveFavourite
  <2> SUFFICES ASSUME NEW d \in Clients, NEW v \in CarWashes
               PROVE  favourites'[d][v] + Cardinality(Adding(d, v)') <= 1 + overlaps'
    BY DEF FavouritesBounded
  <2>4. Adding(d, v)' = Adding(d, v) \ {r}
    BY <1>t, <2>1, EndsCounted
  <2>5. CASE d = c /\ v = w
    <3>1. r \in Adding(d, v)
      BY <2>1, <2>5 DEF Adding
    <3>2. Cardinality(Adding(d, v)') = Cardinality(Adding(d, v)) - 1
      BY <2>4, <3>1, AddingFinite, FS_RemoveElement
    <3>3. favourites'[d][v] = favourites[d][v] + 1
      BY <1>t, <2>2, <2>3, <2>5 DEF TypeOK
    <3> QED BY <1>f, <2>1, <3>2, <3>3, AddingFinite
  <2>6. CASE d # c \/ v # w
    <3>1. favourites'[d][v] = favourites[d][v]
      BY <1>t, <2>2, <2>3, <2>6 DEF TypeOK
    <3>2. r \notin Adding(d, v)
      BY <2>6 DEF Adding
    <3>3. Adding(d, v)' = Adding(d, v)
      BY <2>4, <3>2
    <3> QED BY <1>f, <2>1, <3>1, <3>3
  <2> QED BY <2>5, <2>6
<1>3. ASSUME NEW r \in Requests, NEW c \in Clients, NEW i \in Ids \cup {NoId},
             CreateRead(r, c, i)
      PROVE  FavouritesBounded'
  <2> DEFINE given == [client |-> c, device |-> stamps + 1, token |-> stamps + 1]
             started == [Idle EXCEPT !.pc = "create", !.id = i, !.given = given]
  <2>1. started \in Request /\ started.pc = "create"
    BY <1>t, StartedTyped, IdleTyped DEF Request
  <2> HIDE DEF started
  <2>2. Starts(r, started) /\ UNCHANGED favourites
    BY <1>3 DEF CreateRead, started
  <2> QED BY <1>s, <2>1, <2>2
<1>4. ASSUME NEW r \in Requests, Create(r) \/ Update(r) \/ RequestError(r)
      PROVE  FavouritesBounded'
  BY <1>e, <1>4 DEF Create, Update, RequestError
<1>5. ASSUME NEW r \in Requests, NEW i \in Ids, NEW given \in UpdatesToSend,
             UpdateRead(r, i, given)
      PROVE  FavouritesBounded'
  <2> DEFINE owner == IF given.client = NotGiven THEN metas[i].client ELSE given.client
             started == [Idle EXCEPT !.pc = "update", !.id = i, !.given = given,
                            !.row = [made |-> TRUE, client |-> owner,
                                     fields |-> Merged(metas[i].fields, given)]]
  <2>1. i \in Rows
    BY <1>5 DEF UpdateRead
  <2>2. started \in Request /\ started.pc = "update"
    BY <1>t, <2>1, UpdateTyped, IdleTyped DEF Request
  <2> HIDE DEF started
  <2>3. Starts(r, started) /\ UNCHANGED favourites
    BY <1>5 DEF UpdateRead, started
  <2> QED BY <1>s, <2>2, <2>3
<1>6. ASSUME NEW c \in Clients, NEW w \in CarWashes, RemoveFavourite(c, w)
      PROVE  FavouritesBounded'
  <2>1. \A d \in Clients, v \in CarWashes :
           favourites'[d][v] \in Nat /\ favourites'[d][v] <= favourites[d][v]
    BY <1>t, <1>6 DEF RemoveFavourite, TypeOK
  <2>2. UNCHANGED <<req, overlaps>>
    BY <1>6 DEF RemoveFavourite
  <2>3. \A d \in Clients, v \in CarWashes : Adding(d, v)' = Adding(d, v)
    BY <2>2 DEF Adding, At
  <2> QED BY <1>t, <2>1, <2>2, <2>3, FavouritesFrame DEF TypeOK
<1>7. CASE UNCHANGED vars
  BY <1>7 DEF vars, RowsInv, FavouritesBounded, Adding, At
<1> QED
  BY <1>1, <1>2, <1>3, <1>4, <1>5, <1>6, <1>7 DEF Next

LEMMA MetasNext == RowsInv /\ [Next]_vars => MetasBounded'
<1> SUFFICES ASSUME RowsInv, [Next]_vars PROVE MetasBounded'
  OBVIOUS
<1>t. Typed /\ TypeOK
  BY DEF RowsInv, Typed
<1>c. ASSUME NEW c \in Clients
      PROVE  /\ Cardinality(RowsOf(c)) \in Nat /\ Cardinality(Creating(c)) \in Nat
             /\ overlaps \in Nat /\ moves \in Nat
             /\ Cardinality(RowsOf(c)) + Cardinality(Creating(c)) <= 1 + overlaps + moves
  BY <1>t, <1>c, CreatingFinite DEF RowsInv, MetasBounded, TypeOK
<1>w. PICK any \in CarWashes : TRUE
  BY SetsAssumption
<1>e. ASSUME NEW r \in Requests, Ends(r) PROVE \A c : Creating(c)' = Creating(c) \ {r}
  BY <1>t, <1>e, <1>w, EndsCounted
<1>f. ASSUME NEW r \in Requests, Ends(r), UNCHANGED <<metas, moves, overlaps>>
      PROVE  MetasBounded'
  BY <1>t, <1>e, <1>f, MetasFrame DEF TypeOK
<1>s. ASSUME NEW r \in Requests, NEW fields \in Request, Starts(r, fields),
             fields.pc # "create", UNCHANGED <<metas, moves>>
      PROVE  MetasBounded'
  <2>1. overlaps' \in Nat /\ overlaps <= overlaps'
    BY <1>t, <1>s, <1>w, SetsAssumption, StartsCounted
  <2>2. \A c \in Clients : Creating(c)' \subseteq Creating(c)
    BY <1>t, <1>s, <1>w, StartsCounted
  <2> QED BY <1>s, <2>1, <2>2, MetasFrame
<1>1. ASSUME NEW r \in Requests, NEW c \in Clients, NEW w \in CarWashes,
             AddFavourite(r, c, w)
      PROVE  MetasBounded'
  <2> DEFINE started == [Idle EXCEPT !.pc = "favourite", !.client = c, !.carWash = w]
  <2>1. started \in Request /\ started.pc = "favourite"
    BY <1>t, StartedTyped, IdleTyped DEF Request
  <2> HIDE DEF started
  <2>2. Starts(r, started) /\ UNCHANGED <<metas, moves>>
    BY <1>1 DEF AddFavourite, started
  <2> QED BY <1>s, <2>1, <2>2
<1>2. ASSUME NEW r \in Requests, SaveFavourite(r) \/ RequestError(r) PROVE MetasBounded'
  BY <1>f, <1>2 DEF SaveFavourite, RequestError
<1>3. ASSUME NEW r \in Requests, NEW c \in Clients, NEW i \in Ids \cup {NoId},
             CreateRead(r, c, i)
      PROVE  MetasBounded'
  <2> DEFINE given == [client |-> c, device |-> stamps + 1, token |-> stamps + 1]
             started == [Idle EXCEPT !.pc = "create", !.id = i, !.given = given]
  <2>1. started \in Request /\ started.given.client = c
    BY <1>t, StartedTyped, IdleTyped DEF Request
  <2> HIDE DEF started
  <2>2. Starts(r, started) /\ UNCHANGED <<metas, moves>>
    BY <1>3 DEF CreateRead, started
  <2>3. RowsOf(c) = {}
    BY <1>3 DEF CreateRead, RowsOf
  <2> SUFFICES ASSUME NEW d \in Clients
               PROVE  Cardinality(RowsOf(d)) + Cardinality(Creating(d)')
                          <= 1 + overlaps' + moves
    BY <2>2 DEF MetasBounded, RowsOf, Rows
  <2>4. /\ Creating(d)' \subseteq Creating(d) \cup {r}
        /\ d # c => Creating(d)' \subseteq Creating(d)
        /\ overlaps' \in Nat /\ overlaps <= overlaps'
        /\ overlaps' = overlaps => Creating(d) = {}
        /\ overlaps' = overlaps \/ overlaps' = overlaps + 1
    BY <1>t, <1>w, <2>1, <2>2, StartsCounted
  <2>5. /\ Cardinality(Creating(d)') \in Nat
        /\ Cardinality(Creating(d)') <= Cardinality(Creating(d)) + 1
    BY <2>4, CreatingFinite, OneMore
  <2>6. CASE d # c
    <3>1. Cardinality(Creating(d)') <= Cardinality(Creating(d))
      BY <2>4, <2>6, CreatingFinite, FS_Subset
    <3> QED BY <1>c, <2>4, <2>5, <3>1
  <2>7. CASE d = c
    <3>1. Cardinality(RowsOf(d)) = 0
      BY <2>3, <2>7, FS_EmptySet
    <3>2. CASE overlaps' = overlaps
      <4>1. Cardinality(Creating(d)) = 0
        BY <2>4, <3>2, FS_EmptySet
      <4> QED BY <1>c, <2>4, <2>5, <3>1, <4>1
    <3>3. CASE overlaps' = overlaps + 1
      BY <1>c, <2>4, <2>5, <3>1, <3>3
    <3> QED BY <2>4, <3>2, <3>3
  <2> QED BY <2>6, <2>7
<1>4. ASSUME NEW r \in Requests, Create(r) PROVE MetasBounded'
  <2> DEFINE i == IF req[r].id = NoId THEN NextId ELSE req[r].id
             m == [made |-> TRUE, fields |-> Merged(NoFields, req[r].given),
                   client |-> req[r].given.client]
  <2>1. /\ At(r, "create") /\ i \in Ids /\ metas' = [metas EXCEPT ![i] = m]
        /\ Ends(r) /\ UNCHANGED <<moves, overlaps>>
    BY <1>4 DEF Create
  <2>2. \A j \in Ids : metas'[j] = IF j = i THEN m ELSE metas[j]
    BY <1>t, <2>1 DEF TypeOK
  <2>3. m.client = req[r].given.client
    OBVIOUS
  <2> HIDE DEF i, m
  <2> SUFFICES ASSUME NEW d \in Clients
               PROVE  Cardinality(RowsOf(d)') + Cardinality(Creating(d)')
                          <= 1 + overlaps + moves
    BY <2>1 DEF MetasBounded
  <2>4. Creating(d)' = Creating(d) \ {r}
    BY <1>e, <2>1
  <2>5. /\ RowsOf(d)' \subseteq RowsOf(d) \cup {i}
        /\ m.client # d => RowsOf(d)' \subseteq RowsOf(d)
    BY <2>2 DEF RowsOf, Rows
  <2>6. CASE m.client = d
    <3>1. r \in Creating(d)
      BY <2>1, <2>3, <2>6 DEF Creating
    <3>2. Cardinality(Creating(d)') = Cardinality(Creating(d)) - 1
      BY <2>4, <3>1, CreatingFinite, FS_RemoveElement
    <3>3. /\ Cardinality(RowsOf(d)') \in Nat
          /\ Cardinality(RowsOf(d)') <= Cardinality(RowsOf(d)) + 1
      BY <2>5, CreatingFinite, OneMore
    <3> QED BY <1>c, <3>2, <3>3
  <2>7. CASE m.client # d
    <3>1. r \notin Creating(d)
      BY <2>3, <2>7 DEF Creating
    <3>2. Creating(d)' = Creating(d)
      BY <2>4, <3>1
    <3>3. /\ Cardinality(RowsOf(d)') \in Nat
          /\ Cardinality(RowsOf(d)') <= Cardinality(RowsOf(d))
      BY <2>5, <2>7, CreatingFinite, FS_Subset, FS_CardinalityType
    <3> QED BY <1>c, <3>2, <3>3
  <2> QED BY <2>6, <2>7
<1>5. ASSUME NEW r \in Requests, NEW i \in Ids, NEW given \in UpdatesToSend,
             UpdateRead(r, i, given)
      PROVE  MetasBounded'
  <2> DEFINE owner == IF given.client = NotGiven THEN metas[i].client ELSE given.client
             started == [Idle EXCEPT !.pc = "update", !.id = i, !.given = given,
                            !.row = [made |-> TRUE, client |-> owner,
                                     fields |-> Merged(metas[i].fields, given)]]
  <2>1. i \in Rows
    BY <1>5 DEF UpdateRead
  <2>2. started \in Request /\ started.pc = "update"
    BY <1>t, <2>1, UpdateTyped, IdleTyped DEF Request
  <2> HIDE DEF started
  <2>3. Starts(r, started) /\ UNCHANGED <<metas, moves>>
    BY <1>5 DEF UpdateRead, started
  <2> QED BY <1>s, <2>2, <2>3
<1>6. ASSUME NEW r \in Requests, Update(r) PROVE MetasBounded'
  <2> DEFINE i == req[r].id
             m == req[r].row
  <2>1. /\ metas' = [metas EXCEPT ![i] = m] /\ Ends(r) /\ UNCHANGED overlaps
        /\ moves' = IF metas[i].client = m.client THEN moves ELSE moves + 1
    BY <1>6 DEF Update
  <2>2. i \in Rows
    BY <1>6 DEF Update, At, RowsInv, Typed, Fits
  <2>3. \A j \in Ids : metas'[j] = IF j = i THEN m ELSE metas[j]
    BY <1>t, <2>1 DEF TypeOK
  <2> HIDE DEF i, m
  <2> SUFFICES ASSUME NEW d \in Clients
               PROVE  Cardinality(RowsOf(d)') + Cardinality(Creating(d)')
                          <= 1 + overlaps + moves'
    BY <2>1 DEF MetasBounded
  <2>4. Creating(d)' \subseteq Creating(d)
    BY <1>e, <2>1
  <2>5. /\ Cardinality(Creating(d)') \in Nat
        /\ Cardinality(Creating(d)') <= Cardinality(Creating(d))
    BY <2>4, CreatingFinite, FS_Subset, FS_CardinalityType
  <2>6. /\ RowsOf(d)' \subseteq RowsOf(d) \cup {i}
        /\ metas[i].client = m.client => RowsOf(d)' \subseteq RowsOf(d)
    BY <2>2, <2>3 DEF RowsOf, Rows
  <2>7. CASE metas[i].client = m.client
    <3>1. /\ Cardinality(RowsOf(d)') \in Nat
          /\ Cardinality(RowsOf(d)') <= Cardinality(RowsOf(d))
      BY <2>6, <2>7, CreatingFinite, FS_Subset, FS_CardinalityType
    <3> QED BY <1>c, <2>1, <2>5, <2>7, <3>1
  <2>8. CASE metas[i].client # m.client
    <3>1. /\ Cardinality(RowsOf(d)') \in Nat
          /\ Cardinality(RowsOf(d)') <= Cardinality(RowsOf(d)) + 1
      BY <2>6, CreatingFinite, OneMore
    <3> QED BY <1>c, <2>1, <2>5, <2>8, <3>1
  <2> QED BY <2>7, <2>8
<1>7. ASSUME NEW c \in Clients, NEW w \in CarWashes, RemoveFavourite(c, w)
      PROVE  MetasBounded'
  BY <1>7 DEF RemoveFavourite, RowsInv, MetasBounded, RowsOf, Rows, Creating, At
<1>8. CASE UNCHANGED vars
  BY <1>8 DEF vars, RowsInv, MetasBounded, RowsOf, Rows, Creating, At
<1> QED
  BY <1>1, <1>2, <1>3, <1>4, <1>5, <1>6, <1>7, <1>8 DEF Next

(***************************************************************************)
(* A client has a favourite once and one row of device data, and one more  *)
(* for each request that started beside another or update that gave it the *)
(* row of another client.                                                  *)
(***************************************************************************)
THEOREM RowsBounded == Spec => []OneRowEach
<1>1. RowsInv /\ [Next]_vars => RowsInv'
  BY TypedNext, FavouritesNext, MetasNext DEF RowsInv
<1>2. RowsInv => OneRowEach
  <2> SUFFICES ASSUME RowsInv, NEW c \in Clients
               PROVE  /\ \A w \in CarWashes : favourites[c][w] <= 1 + overlaps
                      /\ Cardinality(RowsOf(c)) <= 1 + overlaps + moves
    BY DEF OneRowEach, RowsOf
  <2>1. TypeOK
    BY DEF RowsInv, Typed
  <2>2. ASSUME NEW w \in CarWashes PROVE favourites[c][w] <= 1 + overlaps
    BY <2>1, <2>2, AddingFinite DEF RowsInv, FavouritesBounded, TypeOK
  <2>3. Cardinality(RowsOf(c)) <= 1 + overlaps + moves
    BY <2>1, CreatingFinite DEF RowsInv, MetasBounded, TypeOK
  <2> QED BY <2>2, <2>3
<1> QED BY <1>1, <1>2, RowsInit, PTL DEF Spec

=============================================================================
