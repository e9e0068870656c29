--------------------------- MODULE BalanceGateway ---------------------------
(***************************************************************************)
(* The balance of a card, pushed to the sockets of its holder.  A gateway  *)
(* keeps two maps in its memory, the sockets that are connected and, per   *)
(* card, the sockets to tell; a webhook says that a balance has changed    *)
(* and the gateway reads it and emits it.  Both maps change in handlers    *)
(* that run in one piece, and around awaits: the guard of a message, the   *)
(* reading of a balance.                                                   *)
(*                                                                         *)
(* The guard of request_balance is commented out, and nothing else puts a  *)
(* user into a handshake: as committed no socket ever gets a card.  The    *)
(* model holds both programs, this one and the one with the guard back.    *)
(***************************************************************************)
EXTENDS Naturals, FiniteSets

CONSTANTS
    Sockets,          \* socket ids; each is connected once
    Cards,            \* device numbers of cards
    NoCard, Absent,   \* a connected socket without a card; no entry
    Messages,         \* request_balance messages at a time
    Broadcasts,       \* webhooks at a time
    MaxChanges, MaxAsks, MaxUpsets   \* bounds on changes, messages and faults

ASSUME SetsAssumption == Sockets # {} /\ Cards # {}
ASSUME CardsAssumption ==
    NoCard \notin Cards /\ Absent \notin Cards /\ NoCard # Absent
ASSUME BoundsAssumption ==
    MaxChanges \in Nat /\ MaxAsks \in Nat /\ MaxUpsets \in Nat

VARIABLES
    guarded,     \* request_balance has its guard
    link,        \* link[s]: the socket itself
    clients,     \* connectedClients: the card of a socket
    byCard,      \* cardToSocketMap: the sockets of a card
    version,     \* version[c]: the balance of c, counted in its changes
    notices,     \* notices[c]: webhooks about c that have not come in
    msg,         \* msg[m]: a message
    cast,        \* cast[b]: a broadcast
    shown,       \* shown[s]: the last balance s was sent
    excuse,      \* excuse[s]: why s may know less than it should
    spent        \* changes, messages and faults so far

vars == <<guarded, link, clients, byCard, version, notices, msg, cast, shown,
          excuse, spent>>

Message == [pc: {"idle", "guard", "read", "answer"}, socket: Sockets,
            card: Cards, value: Nat]

Broadcast == [pc: {"idle", "read", "emit"}, card: Cards,
              sockets: SUBSET Sockets, value: Nat]

Shown == [card: Cards \cup {NoCard}, value: Nat]

(***************************************************************************)
(* Every variable has its type, and a broadcast under way has somebody to  *)
(* tell.                                                                   *)
(***************************************************************************)
TypeOK ==
    /\ guarded \in BOOLEAN
    /\ link \in [Sockets -> {"new", "open", "closed"}]
    /\ clients \in [Sockets -> Cards \cup {NoCard, Absent}]
    /\ byCard \in [Cards -> SUBSET Sockets]
    /\ version \in [Cards -> Nat]
    /\ notices \in [Cards -> Nat]
    /\ msg \in [Messages -> Message]
    /\ cast \in [Broadcasts -> Broadcast]
    /\ shown \in [Sockets -> Shown]
    /\ excuse \in [Sockets -> SUBSET {"moved", "missed", "overtaken"}]
    /\ spent \in [changes: Nat, asks: Nat, upsets: Nat]
    /\ \A b \in Broadcasts : cast[b].pc # "idle" => cast[b].sockets # {}

NoMessage == [pc |-> "idle", socket |-> CHOOSE s \in Sockets : TRUE,
              card |-> CHOOSE c \in Cards : TRUE, value |-> 0]

NoBroadcast == [pc |-> "idle", card |-> CHOOSE c \in Cards : TRUE,
                sockets |-> {}, value |-> 0]

Init ==
    /\ guarded \in BOOLEAN
    /\ link = [s \in Sockets |-> "new"]
    /\ clients = [s \in Sockets |-> Absent]
    /\ byCard = [c \in Cards |-> {}]
    /\ version = [c \in Cards |-> 0]
    /\ notices = [c \in Cards |-> 0]
    /\ msg = [m \in Messages |-> NoMessage]
    /\ cast = [b \in Broadcasts |-> NoBroadcast]
    /\ shown = [s \in Sockets |-> [card |-> NoCard, value |-> 0]]
    /\ excuse = [s \in Sockets |-> {}]
    /\ spent = [changes |-> 0, asks |-> 0, upsets |-> 0]

\* A call fails, a process stops, or an account gets another card.
Upset ==
    /\ spent.upsets < MaxUpsets
    /\ spent' = [spent EXCEPT !.upsets = @ + 1]

Excused(S, why) ==
    [s \in Sockets |-> IF s \in S THEN excuse[s] \cup {why} ELSE excuse[s]]

----------------------------------------------------------------------------
(* The maps *)

\* Mutant: the card of one that leaves is forgotten with all its sockets.
WithoutCards(S) == [c \in Cards |->
    IF \E s \in S : clients[s] = c THEN {} ELSE byCard[c]]

Without(S) == [c \in Cards |-> byCard[c] \ {s \in S : clients[s] = c}]

\* removeClient, for each of S; one that is not there changes nothing.
Remove(S) ==
    /\ clients' = [s \in Sockets |-> IF s \in S THEN Absent ELSE clients[s]]
    /\ byCard' = Without(S)

\* A socket that had another card stays in the list of that one.
Associate(s, c) ==
    /\ clients' = [clients EXCEPT ![s] = c]
    /\ byCard' = [byCard EXCEPT ![c] = @ \cup {s}]

Connect(s) ==
    /\ link[s] = "new"
    /\ link' = [link EXCEPT ![s] = "open"]
    /\ clients' = [clients EXCEPT ![s] = NoCard]
    /\ UNCHANGED <<guarded, byCard, version, notices, msg, cast, shown, excuse,
                   spent>>

Disconnect(s) ==
    /\ link[s] = "open"
    /\ link' = [link EXCEPT ![s] = "closed"]
    /\ Remove({s})
    /\ UNCHANGED <<guarded, version, notices, msg, cast, shown, excuse, spent>>

\* Mutant: the cleanup looks for sockets nobody has given a card.
StaleWithoutCard == {s \in Sockets : clients[s] = NoCard /\ link[s] # "open"}

Stale == {s \in Sockets : clients[s] # Absent /\ link[s] # "open"}

\* Once a minute.
CleanupStaleConnections ==
    /\ Stale # {}
    /\ Remove(Stale)
    /\ UNCHANGED <<guarded, link, version, notices, msg, cast, shown, excuse,
                   spent>>

\* Shutdown clears the maps; the process that follows starts with none, and
\* clients come back with new sockets.
Restart ==
    /\ Upset
    /\ link' = [s \in Sockets |-> IF link[s] = "open" THEN "closed" ELSE link[s]]
    /\ clients' = [s \in Sockets |-> Absent]
    /\ byCard' = [c \in Cards |-> {}]
    /\ msg' = [m \in Messages |-> NoMessage]
    /\ cast' = [b \in Broadcasts |-> NoBroadcast]
    /\ UNCHANGED <<guarded, version, notices, shown, excuse>>

----------------------------------------------------------------------------
(* What a socket is sent *)

\* Every socket of S that is open gets the balance of c, but the deaf ones.
Emit(S, deaf, c, value) ==
    LET told == {s \in S \ deaf : link[s] = "open"}
        late == {s \in told : shown[s].card = c /\ shown[s].value > value}
    IN  /\ shown' = [s \in Sockets |-> IF s \in told
                                       THEN [card |-> c, value |-> value]
                                       ELSE shown[s]]
        /\ excuse' = [s \in Sockets |->
              excuse[s] \cup (IF s \in late THEN {"overtaken"} ELSE {})
                        \cup (IF s \in deaf THEN {"missed"} ELSE {})]

Says(m) == msg[m].pc
Done(m) == msg' = [msg EXCEPT ![m] = NoMessage]

\* Without the guard a message finds no user and is answered with nothing.
RequestBalance(m, s) ==
    /\ guarded
    /\ Says(m) = "idle" /\ link[s] = "open"
    /\ spent.asks < MaxAsks
    /\ spent' = [spent EXCEPT !.asks = @ + 1]
    /\ msg' = [msg EXCEPT ![m].pc = "guard", ![m].socket = s]
    /\ UNCHANGED <<guarded, link, clients, byCard, version, notices, cast,
                   shown, excuse>>

\* The guard has read the account, and the handler runs up to its read: the
\* account has a card, has none, or is not let in.  The socket may have closed
\* meanwhile; it gets its entry all the same.
HandleMessage(m) ==
    LET s == msg[m].socket
    IN  /\ Says(m) = "guard"
        /\ \/ \E c \in Cards :
                /\ Associate(s, c)
                /\ msg' = [msg EXCEPT ![m].pc = "read", ![m].card = c]
                /\ \/ /\ \A d \in Cards \ {c} : s \notin byCard[d]
                      /\ UNCHANGED <<excuse, spent>>
                   \/ /\ \E d \in Cards \ {c} : s \in byCard[d]
                      /\ Upset
                      /\ excuse' = Excused({s}, "moved")
           \/ /\ Done(m)
              /\ UNCHANGED <<clients, byCard, excuse, spent>>
        /\ UNCHANGED <<guarded, link, version, notices, cast, shown>>

ReadBalance(m) ==
    /\ Says(m) = "read"
    /\ msg' = [msg EXCEPT ![m].pc = "answer", ![m].value = version[msg[m].card]]
    /\ UNCHANGED <<guarded, link, clients, byCard, version, notices, cast,
                   shown, excuse, spent>>

Answer(m) ==
    /\ Says(m) = "answer"
    /\ Emit({msg[m].socket}, {}, msg[m].card, msg[m].value)
    /\ Done(m)
    /\ UNCHANGED <<guarded, link, clients, byCard, version, notices, cast,
                   spent>>

\* The socket is told that the balance could not be read.
ReadFails(m) ==
    /\ Says(m) = "read"
    /\ Upset
    /\ excuse' = Excused({msg[m].socket}, "missed")
    /\ Done(m)
    /\ UNCHANGED <<guarded, link, clients, byCard, version, notices, cast,
                   shown>>

----------------------------------------------------------------------------
(* Changes of a balance and their webhooks *)

Phase(b) == cast[b].pc
Over(b) == cast' = [cast EXCEPT ![b] = NoBroadcast]

\* The balance changes outside, and a webhook will say so.
Change(c) ==
    /\ spent.changes < MaxChanges
    /\ spent' = [spent EXCEPT !.changes = @ + 1]
    /\ version' = [version EXCEPT ![c] = @ + 1]
    /\ notices' = [notices EXCEPT ![c] = @ + 1]
    /\ UNCHANGED <<guarded, link, clients, byCard, msg, cast, shown, excuse>>

\* Mutant: one socket per card is told.
OneListener(c) == IF byCard[c] = {} THEN {} ELSE {CHOOSE s \in byCard[c] : TRUE}

\* The list of the card when the webhook comes in.
Listeners(c) == byCard[c]

\* Mutant: a broadcast to nobody is begun.
WorthwhileAlways(S) == TRUE

Worthwhile(S) == S # {}

HandleBalanceUpdate(b, c) ==
    /\ Phase(b) = "idle"
    /\ notices[c] > 0
    /\ notices' = [notices EXCEPT ![c] = @ - 1]
    /\ \/ /\ Worthwhile(Listeners(c))
          /\ cast' = [cast EXCEPT ![b] = [pc |-> "read", card |-> c,
                                          sockets |-> Listeners(c), value |-> 0]]
       \/ /\ ~Worthwhile(Listeners(c))
          /\ UNCHANGED cast
    /\ UNCHANGED <<guarded, link, clients, byCard, version, msg, shown, excuse,
                   spent>>

ReadForBroadcast(b) ==
    /\ Phase(b) = "read"
    /\ cast' = [cast EXCEPT ![b].pc = "emit", ![b].value = version[cast[b].card]]
    /\ UNCHANGED <<guarded, link, clients, byCard, version, notices, msg,
                   shown, excuse, spent>>

\* Sockets that have gone are removed; so is one whose emit throws.
EmitBroadcast(b) ==
    LET here == {s \in cast[b].sockets : clients[s] # Absent /\ link[s] = "open"}
    IN  /\ Phase(b) = "emit"
        /\ \E deaf \in {{}} \cup {{s} : s \in here} :
            /\ IF deaf = {} THEN UNCHANGED spent ELSE Upset
            /\ Emit(here, deaf, cast[b].card, cast[b].value)
            /\ Remove((cast[b].sockets \ here) \cup deaf)
        /\ Over(b)
        /\ UNCHANGED <<guarded, link, version, notices, msg>>

\* The webhook is answered with success, and does not come again.
BroadcastFails(b) ==
    /\ Phase(b) = "read"
    /\ Upset
    /\ excuse' = Excused(cast[b].sockets, "missed")
    /\ Over(b)
    /\ UNCHANGED <<guarded, link, clients, byCard, version, notices, msg, shown>>

MessageStep(m) ==
    \/ \E s \in Sockets : RequestBalance(m, s)
    \/ HandleMessage(m) \/ ReadBalance(m) \/ Answer(m) \/ ReadFails(m)

BroadcastStep(b) ==
    \/ \E c \in Cards : HandleBalanceUpdate(b, c)
    \/ ReadForBroadcast(b) \/ EmitBroadcast(b) \/ BroadcastFails(b)

Next ==
    \/ \E s \in Sockets : Connect(s) \/ Disconnect(s)
    \/ \E m \in Messages : MessageStep(m)
    \/ \E b \in Broadcasts : BroadcastStep(b)
    \/ \E c \in Cards : Change(c)
    \/ CleanupStaleConnections
    \/ Restart

\* The interval of a process that runs keeps firing.
Spec == Init /\ [][Next]_vars /\ WF_vars(CleanupStaleConnections)

----------------------------------------------------------------------------
(* What the gateway promises *)

(***************************************************************************)
(* The two maps say the same: a socket with a card is in the list of that  *)
(* card, and one in the list of a card has it, unless its account got      *)
(* another card while it was connected.                                    *)
(***************************************************************************)
MapsAgree ==
    \A s \in Sockets, c \in Cards :
        /\ clients[s] = c => s \in byCard[c]
        /\ s \in byCard[c] => clients[s] = c \/ "moved" \in excuse[s]

Forgotten(s) ==
    /\ clients[s] = Absent
    /\ "moved" \notin excuse[s] => \A c \in Cards : s \notin byCard[c]

(***************************************************************************)
(* A socket that closed is forgotten for good, also when a message of it   *)
(* is handled only after it closed and puts it back.                       *)
(***************************************************************************)
StaleIsForgotten ==
    \A s \in Sockets : link[s] = "closed" ~> []Forgotten(s)

AtRest(s, c) ==
    /\ notices[c] = 0
    /\ \A m \in Messages : msg[m].pc # "idle" => msg[m].socket # s
    /\ \A b \in Broadcasts : cast[b].pc # "idle" => cast[b].card # c

(***************************************************************************)
(* When nothing is under way any more, an open socket with a card shows    *)
(* the balance that card has now, whatever changed while it was asking:    *)
(* unless a read or an emit failed, an answer was overtaken by a newer     *)
(* one, or the account got another card.                                   *)
(***************************************************************************)
LatestShown ==
    \A s \in Sockets, c \in Cards :
        clients[s] = c /\ link[s] = "open" /\ excuse[s] = {} /\ AtRest(s, c)
            => shown[s] = [card |-> c, value |-> version[c]]

=============================================================================
