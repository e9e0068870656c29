----------------------------- MODULE ClientData -----------------------------
(***************************************************************************)
(* What a client keeps beside its account: its favourite car washes and    *)
(* the data of its device.  Both are rows of tables without a unique       *)
(* constraint, so what keeps them single is a look before the insert; and  *)
(* the data of a device are read, merged with what was sent and written    *)
(* back whole.                                                             *)
(*                                                                         *)
(* The id and the client of device data come from the body of the request. *)
(* An id that no row has is left to the database and not modelled.         *)
(***************************************************************************)
EXTENDS Naturals, FiniteSets

CONSTANTS
    Clients, CarWashes,
    NotGiven,      \* a field the request leaves out
    Requests,      \* requests that may be under way at the same time
    MaxRows,       \* bound on the rows of device data
    MaxStamps,     \* bound on the values written
    MaxOverlaps    \* bound on requests that start beside another

ASSUME SetsAssumption == Clients # {} /\ CarWashes # {}
ASSUME NotGivenAssumption == NotGiven \notin Clients /\ NotGiven \notin Nat
ASSUME RequestsAssumption == IsFiniteSet(Requests)
ASSUME BoundsAssumption ==
    MaxRows \in Nat /\ MaxStamps \in Nat /\ MaxOverlaps \in Nat

VARIABLES
    favourites,   \* favourites[c][w]: the rows for client c and car wash w
    metas,        \* metas[i]: the device data with id i
    last,         \* last[i]: what the requests about i gave last, blanks aside
    req,          \* requests under way
    stamps,       \* values written so far
    moves,        \* updates that gave a row to another client
    overlaps      \* requests that started beside another

vars == <<favourites, metas, last, req, stamps, moves, overlaps>>

Ids == 1..MaxRows
NoId == 0

Fields == [device: Nat, token: Nat]

Meta == [made: BOOLEAN, client: Clients, fields: Fields]

Blank == 0                    \* an empty string
Unset == {NotGiven, Blank}    \* values that set nothing

\* What a request sends: the fields it names, each with a new value or a blank.
Given == [client: Clients \cup {NotGiven}, device: Nat \cup {NotGiven},
          token: Nat \cup {NotGiven}]

Request == [pc: {"idle", "favourite", "create", "update"}, client: Clients,
            carWash: CarWashes, id: Ids \cup {NoId}, given: Given, row: Meta]

SomeClient == CHOOSE c \in Clients : TRUE
NoFields == [device |-> Blank, token |-> Blank]
NoMeta == [made |-> FALSE, client |-> SomeClient, fields |-> NoFields]
Nothing == [client |-> NotGiven, device |-> NotGiven, token |-> NotGiven]
Idle == [pc |-> "idle", client |-> SomeClient,
         carWash |-> CHOOSE w \in CarWashes : TRUE, id |-> NoId,
         given |-> Nothing, row |-> NoMeta]

Rows == {i \in Ids : metas[i].made}

(***************************************************************************)
(* Every variable has its type, the ids of device data are consecutive,    *)
(* and an update writes a row that is there.                               *)
(***************************************************************************)
TypeOK ==
    /\ favourites \in [Clients -> [CarWashes -> Nat]]
    /\ metas \in [Ids -> Meta]
    /\ last \in [Ids -> Fields]
    /\ req \in [Requests -> Request]
    /\ stamps \in Nat /\ moves \in Nat /\ overlaps \in Nat
    /\ Rows = 1..Cardinality(Rows)
    /\ \A r \in Requests : req[r].pc = "update" => req[r].id \in Rows

Init ==
    /\ favourites = [c \in Clients |-> [w \in CarWashes |-> 0]]
    /\ metas = [i \in Ids |-> NoMeta]
    /\ last = [i \in Ids |-> NoFields]
    /\ req = [r \in Requests |-> Idle]
    /\ stamps = 0
    /\ moves = 0
    /\ overlaps = 0

At(r, pc) == req[r].pc = pc
Busy == {r \in Requests : req[r].pc # "idle"}
Ends(r) == req' = [req EXCEPT ![r] = Idle]

\* A request starts; one that starts beside another is counted.
Starts(r, fields) ==
    /\ At(r, "idle")
    /\ IF Busy = {} THEN UNCHANGED overlaps
       ELSE overlaps < MaxOverlaps /\ overlaps' = overlaps + 1
    /\ req' = [req EXCEPT ![r] = fields]

----------------------------------------------------------------------------
(* Favourites *)

\* Mutant: what is there already is not noticed.
MissingAlways(c, w) == TRUE

Missing(c, w) == favourites[c][w] = 0

\* One that is there is left alone.
AddFavourite(r, c, w) ==
    /\ Missing(c, w)
    /\ Starts(r, [Idle EXCEPT !.pc = "favourite", !.client = c, !.carWash = w])
    /\ UNCHANGED <<favourites, metas, last, stamps, moves>>

SaveFavourite(r) ==
    /\ At(r, "favourite")
    /\ favourites' = [favourites EXCEPT ![req[r].client][req[r].carWash] = @ + 1]
    /\ Ends(r)
    /\ UNCHANGED <<metas, last, stamps, moves, overlaps>>

\* All rows of the pair go at once.
RemoveFavourite(c, w) ==
    /\ ~Missing(c, w)
    /\ favourites' = [favourites EXCEPT ![c][w] = 0]
    /\ UNCHANGED <<metas, last, req, stamps, moves, overlaps>>

----------------------------------------------------------------------------
(* Device data *)

\* Mutant: a field that is not given is emptied.
Emptied(fields, given) ==
    [device |-> IF given.device = NotGiven THEN Blank ELSE given.device,
     token |-> IF given.token = NotGiven THEN Blank ELSE given.token]

\* A field that is not given, or given as an empty string, stays as it is.
Merged(fields, given) ==
    [device |-> IF given.device \in Unset THEN fields.device ELSE given.device,
     token |-> IF given.token \in Unset THEN fields.token ELSE given.token]

\* Mutant: one id is left out.
NextIdSkips == Cardinality(Rows) + 2

NextId == Cardinality(Rows) + 1

\* Nobody has a row for this client.  All fields are given; an id is or is not.
CreateRead(r, c, i) ==
    LET given == [client |-> c, device |-> stamps + 1, token |-> stamps + 1]
    IN  /\ \A j \in Rows : metas[j].client # c
        /\ i \in Rows \cup {NoId}
        /\ stamps < MaxStamps
        /\ stamps' = stamps + 1
        /\ Starts(r, [Idle EXCEPT !.pc = "create", !.id = i, !.given = given])
        /\ UNCHANGED <<favourites, metas, last, moves>>

\* save(): a row with the id is overwritten, whoever it belonged to.
Create(r) ==
    LET i == IF req[r].id = NoId THEN NextId ELSE req[r].id
        fields == Merged(NoFields, req[r].given)
    IN  /\ At(r, "create")
        /\ i \in Ids
        /\ metas' = [metas EXCEPT ![i] = [made |-> TRUE, fields |-> fields,
                                          client |-> req[r].given.client]]
        /\ last' = [last EXCEPT ![i] = fields]
        /\ Ends(r)
        /\ UNCHANGED <<favourites, stamps, moves, overlaps>>

\* The row is read and merged with what is given.
UpdateRead(r, i, given) ==
    LET owner == IF given.client = NotGiven THEN metas[i].client ELSE given.client
    IN  /\ i \in Rows
        /\ stamps < MaxStamps
        /\ stamps' = stamps + 1
        /\ Starts(r, [Idle EXCEPT !.pc = "update", !.id = i, !.given = given,
                         !.row = [made |-> TRUE, client |-> owner,
                                  fields |-> Merged(metas[i].fields, given)]])
        /\ UNCHANGED <<favourites, metas, last, moves>>

\* It is written back whole.
Update(r) ==
    LET i == req[r].id
    IN  /\ At(r, "update")
        /\ metas' = [metas EXCEPT ![i] = req[r].row]
        /\ last' = [last EXCEPT ![i] =
              [f \in {"device", "token"} |-> IF req[r].given[f] \in Unset
                                             THEN @[f] ELSE req[r].given[f]]]
        /\ moves' = IF metas[i].client = req[r].row.client THEN moves ELSE moves + 1
        /\ Ends(r)
        /\ UNCHANGED <<favourites, stamps, overlaps>>

\* A call fails, or the process stops, before anything is written.
RequestError(r) ==
    /\ r \in Busy
    /\ Ends(r)
    /\ UNCHANGED <<favourites, metas, last, stamps, moves, overlaps>>

UpdatesToSend ==
    [client: Clients \cup {NotGiven}, device: {stamps + 1} \cup Unset,
     token: {stamps + 1} \cup Unset]

Next ==
    \/ \E r \in Requests :
        \/ \E c \in Clients, w \in CarWashes : AddFavourite(r, c, w)
        \/ SaveFavourite(r)
        \/ \E c \in Clients, i \in Ids \cup {NoId} : CreateRead(r, c, i)
        \/ Create(r)
        \/ \E i \in Ids, given \in UpdatesToSend : UpdateRead(r, i, given)
        \/ Update(r)
        \/ RequestError(r)
    \/ \E c \in Clients, w \in CarWashes : RemoveFavourite(c, w)

Spec == Init /\ [][Next]_vars

----------------------------------------------------------------------------
(* Properties *)

(***************************************************************************)
(* A client has a car wash once among its favourites and one row of device *)
(* data: one more for each request that started beside another, and for    *)
(* each update that gave it the row of another client.                     *)
(***************************************************************************)
OneRowEach ==
    \A c \in Clients :
        /\ \A w \in CarWashes : favourites[c][w] <= 1 + overlaps
        /\ Cardinality({i \in Rows : metas[i].client = c}) <= 1 + overlaps + moves

(***************************************************************************)
(* As long as no request started beside another, every field of a device   *)
(* shows what was sent for it last: a request that leaves it out or blank, *)
(* or that failed, does not touch it.                                      *)
(***************************************************************************)
UpdatesKept ==
    overlaps = 0 => \A i \in Rows : metas[i].fields = last[i]

=============================================================================
