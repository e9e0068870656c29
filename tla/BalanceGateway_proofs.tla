------------------------ MODULE BalanceGateway_proofs ------------------------
(***************************************************************************)
(* Proofs about BalanceGateway: its types, that its two maps agree, and    *)
(* that a socket at rest shows the balance of its card.                    *)
(***************************************************************************)
EXTENDS BalanceGateway, TLAPS

(***************************************************************************)
(* Types                                                                   *)
(***************************************************************************)

LEMMA IdleTyped == NoMessage \in Message /\ NoBroadcast \in Broadcast
<1>1. (CHOOSE s \in Sockets : TRUE) \in Sockets /\ (CHOOSE c \in Cards : TRUE) \in Cards
  BY SetsAssumption
<1> QED BY <1>1 DEF NoMessage, NoBroadcast, Message, Broadcast

LEMMA TypeInit == Init => TypeOK
<1> SUFFICES ASSUME Init PROVE TypeOK
  OBVIOUS
<1>1. NoBroadcast.pc = "idle"
  BY DEF NoBroadcast
<1>2. [card |-> NoCard, value |-> 0] \in Shown
  BY DEF Shown
<1>3. \A b \in Broadcasts : cast[b].pc # "idle" => cast[b].sockets # {}
  BY <1>1 DEF Init
<1>4. /\ msg \in [Messages -> Message] /\ cast \in [Broadcasts -> Broadcast]
      /\ shown \in [Sockets -> Shown]
  BY <1>2, IdleTyped DEF Init
<1> QED BY <1>3, <1>4 DEF Init, TypeOK

\* What is sent and why somebody was not.
LEMMA EmitTyped ==
    ASSUME TypeOK, NEW S, NEW deaf, NEW c \in Cards, NEW value \in Nat,
           Emit(S, deaf, c, value)
    PROVE  /\ shown' \in [Sockets -> Shown]
           /\ excuse' \in [Sockets -> SUBSET {"moved", "missed", "overtaken"}]
  BY DEF TypeOK, Emit, Shown

LEMMA ExcusedTyped ==
    ASSUME TypeOK, NEW S, NEW why \in {"moved", "missed", "overtaken"}
    PROVE  Excused(S, why) \in [Sockets -> SUBSET {"moved", "missed", "overtaken"}]
  BY DEF TypeOK, Excused

LEMMA RemoveTyped ==
    ASSUME TypeOK, NEW S, Remove(S)
    PROVE  /\ clients' \in [Sockets -> Cards \cup {NoCard, Absent}]
           /\ byCard' \in [Cards -> SUBSET Sockets]
  BY DEF TypeOK, Remove, Without

LEMMA UpsetTyped ==
    ASSUME TypeOK, Upset
    PROVE  spent' \in [changes: Nat, asks: Nat, upsets: Nat]
  BY DEF TypeOK, Upset

\* A message goes on.
LEMMA GoesOnTyped ==
    ASSUME TypeOK, NEW m \in Messages
    PROVE  /\ \A s \in Sockets :
                [msg EXCEPT ![m].pc = "guard", ![m].socket = s] \in [Messages -> Message]
           /\ \A c \in Cards :
                [msg EXCEPT ![m].pc = "read", ![m].card = c] \in [Messages -> Message]
           /\ \A v \in Nat :
                [msg EXCEPT ![m].pc = "answer", ![m].value = v] \in [Messages -> Message]
<1>1. msg \in [Messages -> Message] /\ msg[m] \in Message
  BY DEF TypeOK
<1>2. ASSUME NEW s \in Sockets
      PROVE  [msg[m] EXCEPT !.pc = "guard", !.socket = s] \in Message
  BY <1>1 DEF Message
<1>3. ASSUME NEW c \in Cards
      PROVE  [msg[m] EXCEPT !.pc = "read", !.card = c] \in Message
  BY <1>1 DEF Message
<1>4. ASSUME NEW v \in Nat
      PROVE  [msg[m] EXCEPT !.pc = "answer", !.value = v] \in Message
  BY <1>1 DEF Message
<1> QED BY <1>1, <1>2, <1>3, <1>4

LEMMA MessageTyped ==
    ASSUME TypeOK, NEW m \in Messages, MessageStep(m)
    PROVE  TypeOK'
<1>1. ASSUME NEW s \in Sockets, RequestBalance(m, s) PROVE TypeOK'
  <2>1. spent' \in [changes: Nat, asks: Nat, upsets: Nat]
    BY <1>1 DEF RequestBalance, TypeOK
  <2>2. msg' \in [Messages -> Message]
    BY <1>1, GoesOnTyped DEF RequestBalance
  <2> QED BY <1>1, <2>1, <2>2 DEF RequestBalance, TypeOK
<1>2. CASE HandleMessage(m)
  <2> DEFINE s == msg[m].socket
  <2>1. s \in Sockets
    BY DEF TypeOK, Message
  <2>2. UNCHANGED <<guarded, link, version, notices, cast, shown>>
    BY <1>2 DEF HandleMessage
  <2>3. ASSUME NEW c \in Cards, Associate(s, c),
               msg' = [msg EXCEPT ![m].pc = "read", ![m].card = c],
               \/ UNCHANGED <<excuse, spent>>
               \/ Upset /\ excuse' = Excused({s}, "moved")
        PROVE  TypeOK'
    <3>1. /\ clients' \in [Sockets -> Cards \cup {NoCard, Absent}]
          /\ byCard' \in [Cards -> SUBSET Sockets]
      BY <2>1, <2>3 DEF TypeOK, Associate
    <3>2. msg' \in [Messages -> Message]
      BY <2>3, GoesOnTyped
    <3>3. /\ excuse' \in [Sockets -> SUBSET {"moved", "missed", "overtaken"}]
          /\ spent' \in [changes: Nat, asks: Nat, upsets: Nat]
      BY <2>3, UpsetTyped, ExcusedTyped DEF TypeOK
    <3> QED BY <2>2, <3>1, <3>2, <3>3 DEF TypeOK
  <2>4. CASE Done(m) /\ UNCHANGED <<clients, byCard, excuse, spent>>
    BY <2>2, <2>4, IdleTyped DEF TypeOK, Done
  <2> QED BY <1>2, <2>3, <2>4 DEF HandleMessage
<1>3. CASE ReadBalance(m)
  <2>1. version[msg[m].card] \in Nat
    BY DEF TypeOK, Message
  <2> QED BY <1>3, <2>1, GoesOnTyped DEF ReadBalance, TypeOK
<1>4. CASE Answer(m)
  <2>1. msg[m].card \in Cards /\ msg[m].value \in Nat
    BY DEF TypeOK, Message
  <2>2. /\ shown' \in [Sockets -> Shown]
        /\ excuse' \in [Sockets -> SUBSET {"moved", "missed", "overtaken"}]
    BY <1>4, <2>1, EmitTyped DEF Answer
  <2> QED BY <1>4, <2>2, IdleTyped DEF Answer, Done, TypeOK
<1>5. CASE ReadFails(m)
  <2>1. excuse' \in [Sockets -> SUBSET {"moved", "missed", "overtaken"}]
    BY <1>5, ExcusedTyped DEF ReadFails
  <2>2. spent' \in [changes: Nat, asks: Nat, upsets: Nat]
    BY <1>5, UpsetTyped DEF ReadFails
  <2> QED BY <1>5, <2>1, <2>2, IdleTyped DEF ReadFails, Done, TypeOK
<1> QED BY <1>1, <1>2, <1>3, <1>4, <1>5 DEF MessageStep

LEMMA BroadcastTyped ==
    ASSUME TypeOK, NEW b \in Broadcasts, BroadcastStep(b)
    PROVE  TypeOK'
<1>o. ASSUME Over(b)
      PROVE  /\ cast' \in [Broadcasts -> Broadcast]
             /\ \A a \in Broadcasts : cast'[a].pc # "idle" => cast'[a].sockets # {}
  <2>1. NoBroadcast.pc = "idle"
    BY DEF NoBroadcast
  <2> QED BY <1>o, <2>1, IdleTyped DEF Over, TypeOK
<1>1. ASSUME NEW c \in Cards, HandleBalanceUpdate(b, c) PROVE TypeOK'
  <2>1. notices[c] \in Nat /\ notices[c] > 0
    BY <1>1 DEF HandleBalanceUpdate, TypeOK
  <2>2. notices' \in [Cards -> Nat]
    BY <1>1, <2>1 DEF HandleBalanceUpdate, TypeOK
  <2>3. CASE /\ Worthwhile(Listeners(c))
             /\ cast' = [cast EXCEPT ![b] = [pc |-> "read", card |-> c,
                                             sockets |-> Listeners(c), value |-> 0]]
    <3>1. byCard[c] \in SUBSET Sockets /\ byCard[c] # {}
      BY <2>3 DEF TypeOK, Worthwhile, Listeners
    <3>2. cast' \in [Broadcasts -> Broadcast]
      BY <2>3, <3>1 DEF TypeOK, Broadcast, Listeners
    <3>3. \A a \in Broadcasts : cast'[a].pc # "idle" => cast'[a].sockets # {}
      BY <2>3, <3>1 DEF TypeOK, Listeners
    <3> QED BY <1>1, <2>2, <3>2, <3>3 DEF HandleBalanceUpdate, TypeOK
  <2>4. CASE UNCHANGED cast
    BY <1>1, <2>2, <2>4 DEF HandleBalanceUpdate, TypeOK
  <2> QED BY <1>1, <2>3, <2>4 DEF HandleBalanceUpdate
<1>2. CASE ReadForBroadcast(b)
  <2>1. cast[b] \in Broadcast /\ version[cast[b].card] \in Nat
    BY DEF TypeOK, Broadcast
  <2>2. cast' \in [Broadcasts -> Broadcast]
    BY <1>2, <2>1 DEF ReadForBroadcast, TypeOK, Broadcast
  <2>3. \A a \in Broadcasts : cast'[a].pc # "idle" => cast'[a].sockets # {}
    BY <1>2 DEF ReadForBroadcast, Phase, TypeOK
  <2> QED BY <1>2, <2>2, <2>3 DEF ReadForBroadcast, TypeOK
<1>3. CASE EmitBroadcast(b)
  <2> DEFINE here == {s \in cast[b].sockets : clients[s] # Absent /\ link[s] = "open"}
  <2>1. PICK deaf \in {{}} \cup {{s} : s \in here} :
           /\ IF deaf = {} THEN UNCHANGED spent ELSE Upset
           /\ Emit(here, deaf, cast[b].card, cast[b].value)
           /\ Remove((cast[b].sockets \ here) \cup deaf)
    BY <1>3 DEF EmitBroadcast
  <2>2. cast[b].card \in Cards /\ cast[b].value \in Nat
    BY DEF TypeOK, Broadcast
  <2> HIDE DEF here
  <2>3. /\ shown' \in [Sockets -> Shown]
        /\ excuse' \in [Sockets -> SUBSET {"moved", "missed", "overtaken"}]
    BY <2>1, <2>2, EmitTyped
  <2>4. spent' \in [changes: Nat, asks: Nat, upsets: Nat]
    BY <2>1, UpsetTyped DEF TypeOK
  <2>5. /\ clients' \in [Sockets -> Cards \cup {NoCard, Absent}]
        /\ byCard' \in [Cards -> SUBSET Sockets]
    BY <2>1, RemoveTyped
  <2>6. Over(b) /\ UNCHANGED <<guarded, link, version, notices, msg>>
    BY <1>3 DEF EmitBroadcast
  <2> QED BY <1>o, <2>3, <2>4, <2>5, <2>6 DEF TypeOK
<1>4. CASE BroadcastFails(b)
  <2>1. /\ excuse' \in [Sockets -> SUBSET {"moved", "missed", "overtaken"}]
        /\ spent' \in [changes: Nat, asks: Nat, upsets: Nat]
    BY <1>4, ExcusedTyped, UpsetTyped DEF BroadcastFails
  <2> QED BY <1>o, <1>4, <2>1 DEF BroadcastFails, TypeOK
<1> QED BY <1>1, <1>2, <1>3, <1>4 DEF BroadcastStep

LEMMA TypeNext == TypeOK /\ [Next]_vars => TypeOK'
<1> SUFFICES ASSUME TypeOK, [Next]_vars PROVE TypeOK'
  OBVIOUS
<1>1. ASSUME NEW s \in Sockets, Connect(s) PROVE TypeOK'
  BY <1>1 DEF Connect, TypeOK
<1>2. ASSUME NEW s \in Sockets, Disconnect(s) PROVE TypeOK'
  BY <1>2, RemoveTyped DEF Disconnect, TypeOK
<1>3. ASSUME NEW c \in Cards, Change(c) PROVE TypeOK'
  BY <1>3 DEF Change, TypeOK
<1>4. CASE CleanupStaleConnections
  BY <1>4, RemoveTyped DEF CleanupStaleConnections, TypeOK
<1>5. CASE Restart
  <2>1. NoBroadcast.pc = "idle"
    BY DEF NoBroadcast
  <2>2. spent' \in [changes: Nat, asks: Nat, upsets: Nat]
    BY <1>5, UpsetTyped DEF Restart
  <2>3. link' \in [Sockets -> {"new", "open", "closed"}]
    BY <1>5 DEF Restart, TypeOK
  <2> QED BY <1>5, <2>1, <2>2, <2>3, IdleTyped DEF Restart, TypeOK
<1>6. CASE UNCHANGED vars
  BY <1>6 DEF vars, TypeOK
<1> QED
  BY <1>1, <1>2, <1>3, <1>4, <1>5, <1>6, MessageTyped, BroadcastTyped DEF Next

(***************************************************************************)
(* Every variable keeps its type, whatever order the handlers run in.      *)
(***************************************************************************)
THEOREM TypeCorrect == Spec => []TypeOK
  BY TypeInit, TypeNext, PTL DEF Spec

(***************************************************************************)
(* The maps, and what a socket at rest shows                               *)
(***************************************************************************)

\* A socket that ought to be told everything.
Live(s) == link[s] = "open" /\ excuse[s] = {}

\* A socket that has not connected is known nowhere.
Unknown(s) ==
    /\ clients[s] = Absent
    /\ \A c \in Cards : s \notin byCard[c]
    /\ \A m \in Messages : msg[m].pc # "idle" => msg[m].socket # s
    /\ \A b \in Broadcasts : cast[b].pc # "idle" => s \notin cast[b].sockets

NewIsUnknown == \A s \in Sockets : link[s] = "new" => Unknown(s)

\* A balance on its way to a live socket is that of its card, and a value that
\* has been read is not ahead of the balance.
Addressed(m) ==
    /\ msg[m].pc \in {"read", "answer"} /\ Live(msg[m].socket)
          => msg[m].socket \in byCard[msg[m].card]
    /\ msg[m].pc = "answer" => msg[m].value <= version[msg[m].card]
Directed(b) ==
    /\ cast[b].pc # "idle" =>
          \A s \in cast[b].sockets : Live(s) => s \in byCard[cast[b].card]
    /\ cast[b].pc = "emit" => cast[b].value <= version[cast[b].card]

\* The balance of c as it is now is on its way to s.
AnswerComes(s, c) ==
    \E m \in Messages :
        /\ msg[m].socket = s /\ msg[m].card = c
        /\ \/ msg[m].pc = "read"
           \/ msg[m].pc = "answer" /\ msg[m].value = version[c]
BroadcastComes(s, c) ==
    \E b \in Broadcasts :
        /\ s \in cast[b].sockets /\ cast[b].card = c
        /\ \/ cast[b].pc = "read"
           \/ cast[b].pc = "emit" /\ cast[b].value = version[c]

Informed(s, c) ==
    \/ shown[s] = [card |-> c, value |-> version[c]]
    \/ notices[c] > 0 \/ AnswerComes(s, c) \/ BroadcastComes(s, c)

InformedAll == \A s \in Sockets, c \in Cards : clients[s] = c /\ Live(s) => Informed(s, c)

GatewayInv ==
    /\ TypeOK /\ MapsAgree /\ NewIsUnknown
    /\ \A m \in Messages : Addressed(m)
    /\ \A b \in Broadcasts : Directed(b)
    /\ InformedAll

LEMMA GatewayInit == Init => GatewayInv
<1> SUFFICES ASSUME Init PROVE GatewayInv
  OBVIOUS
<1>1. NoMessage.pc = "idle" /\ NoBroadcast.pc = "idle"
  BY DEF NoMessage, NoBroadcast
<1>2. \A s \in Sockets : clients[s] = Absent /\ \A c \in Cards : s \notin byCard[c]
  BY DEF Init
<1>3. MapsAgree /\ InformedAll
  BY <1>2, CardsAssumption DEF MapsAgree, InformedAll
<1>4. \A m \in Messages : msg[m].pc = "idle"
  BY <1>1 DEF Init
<1>5. \A b \in Broadcasts : cast[b].pc = "idle"
  BY <1>1 DEF Init
<1> QED
  BY <1>2, <1>3, <1>4, <1>5, TypeInit DEF GatewayInv, NewIsUnknown, Unknown, Addressed, Directed

\* Excuses stay, and the sockets of S have one more.
LEMMA ExcusedGrows ==
    ASSUME TypeOK, NEW S, NEW why, excuse' = Excused(S, why)
    PROVE  /\ \A s \in Sockets : excuse[s] \subseteq excuse'[s]
           /\ \A s \in S \cap Sockets : excuse'[s] # {}
  BY DEF TypeOK, Excused

\* What a socket of S shows after an emission: the value, or it is excused; if
\* it showed a newer one of the card, it is excused as well.
LEMMA EmitTells ==
    ASSUME TypeOK, NEW S, NEW deaf, NEW c, NEW value, Emit(S, deaf, c, value)
    PROVE  /\ \A s \in Sockets : excuse[s] \subseteq excuse'[s]
           /\ \A s \in deaf \cap Sockets : excuse'[s] # {}
           /\ \A s \in Sockets \ S : shown'[s] = shown[s]
           /\ \A s \in (S \cap Sockets) \ deaf : link[s] = "open" =>
                 /\ shown'[s] = [card |-> c, value |-> value]
                 /\ shown[s].card = c /\ shown[s].value > value => excuse'[s] # {}
  BY DEF TypeOK, Emit

(***************************************************************************)
(* The two maps                                                            *)
(***************************************************************************)

LEMMA RemoveAgrees ==
    ASSUME TypeOK, MapsAgree, NEW S, Remove(S),
           \A s \in Sockets : excuse[s] \subseteq excuse'[s]
    PROVE  MapsAgree'
<1> SUFFICES ASSUME NEW s \in Sockets, NEW c \in Cards
             PROVE  /\ clients'[s] = c => s \in byCard'[c]
                    /\ s \in byCard'[c] => clients'[s] = c \/ "moved" \in excuse'[s]
  BY DEF MapsAgree
<1>1. /\ clients'[s] = IF s \in S THEN Absent ELSE clients[s]
      /\ byCard'[c] = byCard[c] \ {x \in S : clients[x] = c}
  BY DEF Remove, Without
<1>2. /\ clients[s] = c => s \in byCard[c]
      /\ s \in byCard[c] => clients[s] = c \/ "moved" \in excuse[s]
  BY DEF MapsAgree
<1> QED BY <1>1, <1>2, CardsAssumption

\* A socket becomes known by connecting.
LEMMA UnknownNext == TypeOK /\ NewIsUnknown /\ [Next]_vars => NewIsUnknown'
<1> SUFFICES ASSUME TypeOK, NewIsUnknown, [Next]_vars, NEW s \in Sockets, link'[s] = "new"
             PROVE  Unknown(s)'
  BY DEF NewIsUnknown
<1>i. NoMessage.pc = "idle" /\ NoBroadcast.pc = "idle"
  BY DEF NoMessage, NoBroadcast
<1>u. link[s] = "new" => Unknown(s)
  BY DEF NewIsUnknown
<1>r. ASSUME NEW S, Remove(S), Unknown(s)
      PROVE  clients'[s] = Absent /\ \A c \in Cards : s \notin byCard'[c]
  BY <1>r DEF Remove, Without, Unknown
<1>f. ASSUME UNCHANGED <<clients, byCard, msg, cast>>, Unknown(s) PROVE Unknown(s)'
  BY <1>f DEF Unknown
<1>1. ASSUME NEW x \in Sockets, Connect(x) PROVE Unknown(s)'
  <2>1. link[s] = "new" /\ clients'[s] = clients[s]
    BY <1>1 DEF Connect, TypeOK
  <2> QED BY <1>1, <1>u, <2>1 DEF Connect, Unknown
<1>2. ASSUME NEW x \in Sockets, Disconnect(x) PROVE Unknown(s)'
  <2>1. link[s] = "new"
    BY <1>2 DEF Disconnect, TypeOK
  <2> QED BY <1>2, <1>r, <1>u, <2>1 DEF Disconnect, Unknown
<1>3. ASSUME NEW c \in Cards, Change(c) PROVE Unknown(s)'
  BY <1>3, <1>f, <1>u DEF Change
<1>4. CASE CleanupStaleConnections
  BY <1>4, <1>r, <1>u DEF CleanupStaleConnections, Unknown
<1>5. CASE Restart
  BY <1>5, <1>i DEF Restart, Unknown
<1>6. ASSUME NEW m \in Messages, MessageStep(m) PROVE Unknown(s)'
  <2>1. link[s] = "new" /\ Unknown(s)
    BY <1>6, <1>u DEF MessageStep, RequestBalance, HandleMessage, ReadBalance, Answer, ReadFails
  <2>2. ASSUME NEW new, msg' = [msg EXCEPT ![m] = new], new.pc # "idle" => new.socket # s,
               UNCHANGED <<clients, byCard, cast>>
        PROVE  Unknown(s)'
    BY <2>1, <2>2 DEF Unknown, TypeOK
  <2>3. ASSUME NEW x \in Sockets, RequestBalance(m, x) PROVE Unknown(s)'
    <3>1. msg' = [msg EXCEPT ![m] = [msg[m] EXCEPT !.pc = "guard", !.socket = x]]
      BY <2>3 DEF RequestBalance, TypeOK, Message
    <3>2. [msg[m] EXCEPT !.pc = "guard", !.socket = x].socket = x
      BY DEF TypeOK, Message
    <3>3. x # s
      BY <2>1, <2>3 DEF RequestBalance
    <3> QED BY <2>2, <2>3, <3>1, <3>2, <3>3 DEF RequestBalance
  <2>4. CASE HandleMessage(m)
    <3>1. msg[m].socket # s /\ msg[m].socket \in Sockets /\ UNCHANGED cast
      BY <2>1, <2>4 DEF HandleMessage, Says, Unknown, TypeOK, Message
    <3>2. CASE Done(m) /\ UNCHANGED <<clients, byCard>>
      BY <1>i, <2>2, <3>1, <3>2 DEF Done
    <3>3. ASSUME NEW c \in Cards, Associate(msg[m].socket, c),
                 msg' = [msg EXCEPT ![m].pc = "read", ![m].card = c]
          PROVE  Unknown(s)'
      <4>1. clients'[s] = Absent /\ \A d \in Cards : s \notin byCard'[d]
        BY <2>1, <3>1, <3>3 DEF Associate, Unknown, TypeOK
      <4>2. \A q \in Messages : /\ msg'[q].socket = msg[q].socket
                                /\ q # m => msg'[q] = msg[q]
        BY <3>3 DEF TypeOK, Message
      <4>3. \A q \in Messages : msg'[q].pc # "idle" => msg'[q].socket # s
        <5> SUFFICES ASSUME NEW q \in Messages PROVE msg'[q].pc # "idle" => msg'[q].socket # s
          OBVIOUS
        <5>1. CASE q = m
          BY <3>1, <4>2, <5>1
        <5>2. CASE q # m
          BY <2>1, <4>2, <5>2 DEF Unknown
        <5> QED BY <5>1, <5>2
      <4> QED BY <2>1, <3>1, <4>1, <4>3 DEF Unknown
    <3> QED BY <2>4, <3>2, <3>3 DEF HandleMessage
  <2>5. CASE ReadBalance(m)
    <3>1. msg[m].socket # s
      BY <2>1, <2>5 DEF ReadBalance, Says, Unknown
    <3>2. \A q \in Messages : /\ msg'[q].socket = msg[q].socket
                              /\ q # m => msg'[q] = msg[q]
      BY <2>5 DEF ReadBalance, TypeOK, Message
    <3>3. \A q \in Messages : msg'[q].pc # "idle" => msg'[q].socket # s
      <4> SUFFICES ASSUME NEW q \in Messages PROVE msg'[q].pc # "idle" => msg'[q].socket # s
        OBVIOUS
      <4>1. CASE q = m
        BY <3>1, <3>2, <4>1
      <4>2. CASE q # m
        BY <2>1, <3>2, <4>2 DEF Unknown
      <4> QED BY <4>1, <4>2
    <3> QED BY <2>1, <2>5, <3>3 DEF ReadBalance, Unknown
  <2>6. CASE Answer(m) \/ ReadFails(m)
    BY <1>i, <2>2, <2>6 DEF Answer, ReadFails, Done
  <2> QED BY <1>6, <2>3, <2>4, <2>5, <2>6 DEF MessageStep
<1>7. ASSUME NEW b \in Broadcasts, BroadcastStep(b) PROVE Unknown(s)'
  <2>1. link[s] = "new" /\ Unknown(s)
    BY <1>7, <1>u DEF BroadcastStep, HandleBalanceUpdate, ReadForBroadcast, EmitBroadcast,
                      BroadcastFails
  <2>2. ASSUME NEW new, cast' = [cast EXCEPT ![b] = new],
               new.pc # "idle" => s \notin new.sockets,
               clients'[s] = Absent, \A c \in Cards : s \notin byCard'[c], UNCHANGED msg
        PROVE  Unknown(s)'
    BY <2>1, <2>2 DEF Unknown, TypeOK
  <2>3. ASSUME NEW c \in Cards, HandleBalanceUpdate(b, c) PROVE Unknown(s)'
    <3>1. UNCHANGED <<clients, byCard, msg>> /\ s \notin Listeners(c)
      BY <2>1, <2>3 DEF HandleBalanceUpdate, Unknown, Listeners
    <3>2. CASE UNCHANGED cast
      BY <1>f, <2>1, <3>1, <3>2
    <3>3. CASE cast' = [cast EXCEPT ![b] = [pc |-> "read", card |-> c,
                                            sockets |-> Listeners(c), value |-> 0]]
      BY <2>1, <2>2, <3>1, <3>3 DEF Unknown
    <3> QED BY <2>3, <3>2, <3>3 DEF HandleBalanceUpdate
  <2>4. CASE ReadForBroadcast(b)
    <3>1. s \notin cast[b].sockets
      BY <2>1, <2>4 DEF ReadForBroadcast, Phase, Unknown
    <3>2. \A a \in Broadcasts : /\ cast'[a].sockets = cast[a].sockets
                                /\ a # b => cast'[a] = cast[a]
      BY <2>4 DEF ReadForBroadcast, TypeOK, Broadcast
    <3>3. \A a \in Broadcasts : cast'[a].pc # "idle" => s \notin cast'[a].sockets
      <4> SUFFICES ASSUME NEW a \in Broadcasts
                   PROVE  cast'[a].pc # "idle" => s \notin cast'[a].sockets
        OBVIOUS
      <4>1. CASE a = b
        BY <3>1, <3>2, <4>1
      <4>2. CASE a # b
        BY <2>1, <3>2, <4>2 DEF Unknown
      <4> QED BY <4>1, <4>2
    <3> QED BY <2>1, <2>4, <3>3 DEF ReadForBroadcast, Unknown
  <2>5. CASE EmitBroadcast(b)
    <3> DEFINE here == {x \in cast[b].sockets : clients[x] # Absent /\ link[x] = "open"}
    <3>1. PICK deaf : Remove((cast[b].sockets \ here) \cup deaf)
      BY <2>5 DEF EmitBroadcast
    <3> HIDE DEF here
    <3>2. clients'[s] = Absent /\ \A c \in Cards : s \notin byCard'[c]
      BY <1>r, <2>1, <3>1
    <3> QED BY <1>i, <2>2, <2>5, <3>2 DEF EmitBroadcast, Over
  <2>6. CASE BroadcastFails(b)
    BY <1>i, <2>1, <2>2, <2>6 DEF BroadcastFails, Over, Unknown
  <2> QED BY <1>7, <2>3, <2>4, <2>5, <2>6 DEF BroadcastStep
<1>8. CASE UNCHANGED vars
  BY <1>8, <1>f, <1>u DEF vars
<1> QED
  BY <1>1, <1>2, <1>3, <1>4, <1>5, <1>6, <1>7, <1>8 DEF Next

LEMMA MapsNext == TypeOK /\ NewIsUnknown /\ MapsAgree /\ [Next]_vars => MapsAgree'
<1> SUFFICES ASSUME TypeOK, NewIsUnknown, MapsAgree, [Next]_vars PROVE MapsAgree'
  OBVIOUS
<1>f. ASSUME UNCHANGED <<clients, byCard>>,
             \A s \in Sockets : excuse[s] \subseteq excuse'[s]
      PROVE  MapsAgree'
  BY <1>f DEF MapsAgree
<1>1. ASSUME NEW s \in Sockets, Connect(s) PROVE MapsAgree'
  <2>1. \A x \in Sockets : clients'[x] = IF x = s THEN NoCard ELSE clients[x]
    BY <1>1 DEF Connect, TypeOK
  <2>2. \A c \in Cards : s \notin byCard[c]
    BY <1>1 DEF Connect, NewIsUnknown, Unknown
  <2>3. UNCHANGED <<byCard, excuse>>
    BY <1>1 DEF Connect
  <2> SUFFICES ASSUME NEW x \in Sockets, NEW c \in Cards
               PROVE  /\ clients'[x] = c => x \in byCard[c]
                      /\ x \in byCard[c] => clients'[x] = c \/ "moved" \in excuse[x]
    BY <2>3 DEF MapsAgree
  <2> QED BY <2>1, <2>2, CardsAssumption DEF MapsAgree
<1>2. ASSUME NEW s \in Sockets, Disconnect(s) PROVE MapsAgree'
  BY <1>2, RemoveAgrees DEF Disconnect
<1>3. ASSUME NEW c \in Cards, Change(c) PROVE MapsAgree'
  BY <1>f, <1>3 DEF Change
<1>4. CASE CleanupStaleConnections
  BY <1>4, RemoveAgrees DEF CleanupStaleConnections
<1>5. CASE Restart
  BY <1>5, CardsAssumption DEF Restart, MapsAgree
<1>6. ASSUME NEW m \in Messages, MessageStep(m) PROVE MapsAgree'
  <2>1. CASE HandleMessage(m)
    <3> DEFINE s == msg[m].socket
    <3>1. s \in Sockets
      BY DEF TypeOK, Message
    <3>2. CASE UNCHANGED <<clients, byCard, excuse, spent>>
      BY <1>f, <3>2
    <3>3. ASSUME NEW c \in Cards, Associate(s, c),
                 \/ (\A d \in Cards \ {c} : s \notin byCard[d]) /\ UNCHANGED excuse
                 \/ excuse' = Excused({s}, "moved")
          PROVE  MapsAgree'
      <4> HIDE DEF s
      <4>1. /\ \A x \in Sockets : clients'[x] = IF x = s THEN c ELSE clients[x]
            /\ \A d \in Cards : byCard'[d] = IF d = c THEN byCard[d] \cup {s}
                                                       ELSE byCard[d]
        BY <3>1, <3>3 DEF Associate, TypeOK
      <4>2. \A x \in Sockets : excuse[x] \subseteq excuse'[x]
        BY <3>3, ExcusedGrows
      <4>3. \/ \A d \in Cards \ {c} : s \notin byCard[d]
            \/ "moved" \in excuse'[s]
        BY <3>1, <3>3 DEF Excused
      <4> SUFFICES ASSUME NEW x \in Sockets, NEW d \in Cards
                   PROVE  /\ clients'[x] = d => x \in byCard'[d]
                          /\ x \in byCard'[d] => clients'[x] = d \/ "moved" \in excuse'[x]
        BY DEF MapsAgree
      <4>5. /\ clients[x] = d => x \in byCard[d]
            /\ x \in byCard[d] => clients[x] = d \/ "moved" \in excuse[x]
        BY DEF MapsAgree
      <4>6. CASE x = s
        BY <4>1, <4>3, <4>6
      <4>7. CASE x # s
        BY <4>1, <4>2, <4>5, <4>7
      <4> QED BY <4>6, <4>7
    <3> QED BY <2>1, <3>2, <3>3 DEF HandleMessage
  <2>2. ASSUME NEW s \in Sockets, RequestBalance(m, s) PROVE MapsAgree'
    BY <1>f, <2>2 DEF RequestBalance
  <2>3. CASE ReadBalance(m)
    BY <1>f, <2>3 DEF ReadBalance
  <2>4. CASE Answer(m)
    BY <1>f, <2>4, EmitTells DEF Answer
  <2>5. CASE ReadFails(m)
    BY <1>f, <2>5, ExcusedGrows DEF ReadFails
  <2> QED BY <1>6, <2>1, <2>2, <2>3, <2>4, <2>5 DEF MessageStep
<1>7. ASSUME NEW b \in Broadcasts, BroadcastStep(b) PROVE MapsAgree'
  <2>1. ASSUME NEW c \in Cards, HandleBalanceUpdate(b, c) PROVE MapsAgree'
    BY <1>f, <2>1 DEF HandleBalanceUpdate
  <2>2. CASE ReadForBroadcast(b)
    BY <1>f, <2>2 DEF ReadForBroadcast
  <2>3. CASE EmitBroadcast(b)
    <3> DEFINE here == {s \in cast[b].sockets : clients[s] # Absent /\ link[s] = "open"}
    <3>1. PICK deaf : /\ Emit(here, deaf, cast[b].card, cast[b].value)
                      /\ Remove((cast[b].sockets \ here) \cup deaf)
      BY <2>3 DEF EmitBroadcast
    <3> HIDE DEF here
    <3> QED BY <3>1, EmitTells, RemoveAgrees
  <2>4. CASE BroadcastFails(b)
    BY <1>f, <2>4, ExcusedGrows DEF BroadcastFails
  <2> QED BY <1>7, <2>1, <2>2, <2>3, <2>4 DEF BroadcastStep
<1>8. CASE UNCHANGED vars
  BY <1>f, <1>8 DEF vars
<1> QED
  BY <1>1, <1>2, <1>3, <1>4, <1>5, <1>6, <1>7, <1>8 DEF Next

(***************************************************************************)
(* connectedClients and cardToSocketMap agree, but for the sockets of an   *)
(* account that got another card while they were connected.                *)
(***************************************************************************)
THEOREM MapsStayTogether == Spec => []MapsAgree
<1>1. Init => MapsAgree /\ NewIsUnknown
  BY GatewayInit DEF GatewayInv
<1> QED BY <1>1, TypeInit, TypeNext, UnknownNext, MapsNext, PTL DEF Spec

(***************************************************************************)
(* What a live socket shows                                                *)
(***************************************************************************)

\* Excuses stay, balances only change forward, and only new sockets connect.
LEMMA StepGrows ==
    ASSUME TypeOK, [Next]_vars
    PROVE  /\ \A s \in Sockets : excuse[s] \subseteq excuse'[s]
           /\ \A s \in Sockets : link'[s] = "open" => link[s] \in {"new", "open"}
           /\ \A c \in Cards : version[c] <= version'[c]
<1>g. \A s \in Sockets : excuse[s] \subseteq excuse'[s]
  <2>1. ASSUME NEW m \in Messages, HandleMessage(m)
        PROVE  excuse' = excuse \/ excuse' = Excused({msg[m].socket}, "moved")
    BY <2>1 DEF HandleMessage
  <2>2. ASSUME NEW m \in Messages, MessageStep(m)
        PROVE  \A s \in Sockets : excuse[s] \subseteq excuse'[s]
    <3>1. CASE HandleMessage(m)
      BY <2>1, <3>1, ExcusedGrows
    <3>2. CASE Answer(m)
      BY <3>2, EmitTells DEF Answer
    <3>3. CASE ReadFails(m)
      BY <3>3, ExcusedGrows DEF ReadFails
    <3>4. CASE ReadBalance(m) \/ \E s \in Sockets : RequestBalance(m, s)
      BY <3>4 DEF ReadBalance, RequestBalance
    <3> QED BY <2>2, <3>1, <3>2, <3>3, <3>4 DEF MessageStep
  <2>3. ASSUME NEW b \in Broadcasts, BroadcastStep(b)
        PROVE  \A s \in Sockets : excuse[s] \subseteq excuse'[s]
    <3>1. CASE EmitBroadcast(b)
      <4> DEFINE here == {s \in cast[b].sockets : clients[s] # Absent /\ link[s] = "open"}
      <4>1. PICK deaf : Emit(here, deaf, cast[b].card, cast[b].value)
        BY <3>1 DEF EmitBroadcast
      <4> HIDE DEF here
      <4> QED BY <4>1, EmitTells
    <3>2. CASE BroadcastFails(b)
      BY <3>2, ExcusedGrows DEF BroadcastFails
    <3>3. CASE ReadForBroadcast(b) \/ \E c \in Cards : HandleBalanceUpdate(b, c)
      BY <3>3 DEF ReadForBroadcast, HandleBalanceUpdate
    <3> QED BY <2>3, <3>1, <3>2, <3>3 DEF BroadcastStep
  <2> QED
    BY <2>2, <2>3 DEF Next, Connect, Disconnect, Change, CleanupStaleConnections,
                      Restart, vars
<1>l. \A s \in Sockets : link'[s] = "open" => link[s] \in {"new", "open"}
  <2>1. ASSUME NEW s \in Sockets, Connect(s) \/ Disconnect(s)
        PROVE  \A x \in Sockets : link'[x] = "open" => link[x] \in {"new", "open"}
    BY <2>1 DEF Connect, Disconnect, TypeOK
  <2>2. CASE Restart
    BY <2>2 DEF Restart, TypeOK
  <2>3. CASE UNCHANGED link
    BY <2>3
  <2> QED
    BY <2>1, <2>2, <2>3 DEF Next, Change, CleanupStaleConnections, vars, MessageStep,
         RequestBalance, HandleMessage, ReadBalance, Answer, ReadFails, BroadcastStep,
         HandleBalanceUpdate, ReadForBroadcast, EmitBroadcast, BroadcastFails
<1>v. \A c \in Cards : version[c] <= version'[c]
  <2>1. ASSUME NEW c \in Cards, Change(c)
        PROVE  \A d \in Cards : version[d] <= version'[d]
    BY <2>1 DEF Change, TypeOK
  <2>2. CASE UNCHANGED version
    BY <2>2 DEF TypeOK
  <2> QED
    BY <2>1, <2>2 DEF Next, Connect, Disconnect, CleanupStaleConnections, Restart, vars,
         MessageStep, RequestBalance, HandleMessage, ReadBalance, Answer, ReadFails,
         BroadcastStep, HandleBalanceUpdate, ReadForBroadcast, EmitBroadcast,
         BroadcastFails
<1> QED BY <1>g, <1>l, <1>v

\* A live socket was live before, or it is new and known nowhere.
LEMMA LiveBefore ==
    ASSUME TypeOK, NewIsUnknown, [Next]_vars, NEW s \in Sockets, Live(s)'
    PROVE  Live(s) \/ Unknown(s)
<1>1. excuse[s] = {} /\ link[s] \in {"new", "open"}
  BY StepGrows DEF Live
<1> QED BY <1>1 DEF Live, NewIsUnknown

\* A broadcast that is over removes a socket that is live from no list.
LEMMA RemovesNoLive ==
    ASSUME TypeOK, NEW b \in Broadcasts, EmitBroadcast(b), NEW s \in Sockets,
           Live(s), Live(s)'
    PROVE  \A c \in Cards :
                /\ clients[s] = c <=> clients'[s] = c
                /\ s \in byCard[c] <=> s \in byCard'[c]
<1> DEFINE here == {x \in cast[b].sockets : clients[x] # Absent /\ link[x] = "open"}
<1>1. PICK deaf : /\ Emit(here, deaf, cast[b].card, cast[b].value)
                  /\ Remove((cast[b].sockets \ here) \cup deaf)
  BY DEF EmitBroadcast
<1>2. s \in cast[b].sockets \ here => clients[s] = Absent
  BY DEF Live
<1> HIDE DEF here
<1>3. s \notin deaf
  BY <1>1, EmitTells DEF Live
<1>4. /\ clients'[s] = IF s \in (cast[b].sockets \ here) \cup deaf THEN Absent
                       ELSE clients[s]
      /\ \A c \in Cards : byCard'[c] =
            byCard[c] \ {x \in (cast[b].sockets \ here) \cup deaf : clients[x] = c}
  BY <1>1 DEF Remove, Without
<1> QED BY <1>2, <1>3, <1>4, CardsAssumption

\* A live socket leaves no list.
LEMMA StaysListed ==
    ASSUME TypeOK, [Next]_vars, NEW s \in Sockets, Live(s), Live(s)', NEW c \in Cards,
           s \in byCard[c]
    PROVE  s \in byCard'[c]
<1>1. ASSUME NEW x \in Sockets, Connect(x) \/ Disconnect(x) PROVE s \in byCard'[c]
  <2>1. CASE Connect(x)
    BY <2>1 DEF Connect
  <2>2. CASE Disconnect(x)
    <3>1. x # s
      BY <2>2 DEF Disconnect, Live, TypeOK
    <3> QED BY <2>2, <3>1 DEF Disconnect, Remove, Without
  <2> QED BY <1>1, <2>1, <2>2
<1>2. CASE CleanupStaleConnections
  <2>1. s \notin Stale
    BY DEF Stale, Live
  <2> QED BY <1>2, <2>1 DEF CleanupStaleConnections, Remove, Without
<1>3. Restart => FALSE
  BY DEF Restart, Live, TypeOK
<1>4. ASSUME NEW m \in Messages, MessageStep(m) PROVE s \in byCard'[c]
  <2>1. CASE HandleMessage(m)
    BY <2>1 DEF HandleMessage, Associate, TypeOK
  <2> QED BY <1>4, <2>1 DEF MessageStep, RequestBalance, ReadBalance, Answer, ReadFails
<1>5. ASSUME NEW b \in Broadcasts, BroadcastStep(b) PROVE s \in byCard'[c]
  <2>1. CASE EmitBroadcast(b)
    BY <2>1, RemovesNoLive
  <2> QED
    BY <1>5, <2>1 DEF BroadcastStep, HandleBalanceUpdate, ReadForBroadcast, BroadcastFails
<1> QED BY <1>1, <1>2, <1>3, <1>4, <1>5 DEF Next, Change, vars

\* A message that does not move is addressed as before.
LEMMA AddressedFrame ==
    ASSUME GatewayInv, [Next]_vars, NEW m \in Messages, msg'[m] = msg[m]
    PROVE  Addressed(m)'
<1>t. msg[m].socket \in Sockets /\ msg[m].card \in Cards /\ msg[m].value \in Nat
  BY DEF GatewayInv, TypeOK, Message
<1>v. version[msg[m].card] \in Nat /\ version'[msg[m].card] \in Nat
  BY <1>t, TypeNext DEF GatewayInv, TypeOK
<1>1. msg[m].pc = "answer" => msg[m].value <= version'[msg[m].card]
  BY <1>t, <1>v, StepGrows DEF GatewayInv, Addressed
<1>2. ASSUME msg[m].pc \in {"read", "answer"}, Live(msg[m].socket)'
      PROVE  msg[m].socket \in byCard'[msg[m].card]
  <2> DEFINE s == msg[m].socket
  <2>1. Live(s) \/ Unknown(s)
    BY <1>t, <1>2, LiveBefore DEF GatewayInv
  <2>2. ~Unknown(s)
    BY <1>2 DEF Unknown
  <2>3. s \in byCard[msg[m].card]
    BY <1>2, <2>1, <2>2 DEF GatewayInv, Addressed
  <2> QED BY <1>t, <1>2, <2>1, <2>2, <2>3, StaysListed DEF GatewayInv
<1> QED BY <1>1, <1>2 DEF Addressed, Live

LEMMA AddressedNext == GatewayInv /\ [Next]_vars => \A m \in Messages : Addressed(m)'
<1> SUFFICES ASSUME GatewayInv, [Next]_vars, NEW q \in Messages PROVE Addressed(q)'
  OBVIOUS
<1>t. TypeOK /\ TypeOK'
  BY TypeNext DEF GatewayInv
<1>i. NoMessage.pc = "idle"
  BY DEF NoMessage
<1>f. msg'[q] = msg[q] => Addressed(q)'
  BY AddressedFrame
<1>p. msg'[q].pc \in {"idle", "guard"} => Addressed(q)'
  BY DEF Addressed
<1>1. ASSUME NEW m \in Messages, MessageStep(m) PROVE Addressed(q)'
  <2>1. ASSUME NEW s \in Sockets, RequestBalance(m, s) PROVE Addressed(q)'
    <3>1. msg'[q] = msg[q] \/ msg'[q].pc = "guard"
      BY <1>t, <2>1 DEF RequestBalance, TypeOK, Message
    <3> QED BY <1>f, <1>p, <3>1
  <2>2. CASE Done(m)
    <3>1. msg'[q] = msg[q] \/ msg'[q].pc = "idle"
      BY <1>i, <1>t, <2>2 DEF Done, TypeOK
    <3> QED BY <1>f, <1>p, <3>1
  <2>3. ASSUME NEW c \in Cards, Associate(msg[m].socket, c),
               msg' = [msg EXCEPT ![m].pc = "read", ![m].card = c]
        PROVE  Addressed(q)'
    <3>1. CASE q = m
      <4>1. /\ msg'[q].pc = "read" /\ msg'[q].card = c
            /\ msg'[q].socket = msg[m].socket /\ msg[m].socket \in Sockets
        BY <1>t, <2>3, <3>1 DEF TypeOK, Message
      <4>2. msg[m].socket \in byCard'[c]
        BY <1>t, <2>3, <4>1 DEF Associate, TypeOK
      <4> QED BY <4>1, <4>2 DEF Addressed
    <3>2. CASE q # m
      BY <1>f, <1>t, <2>3, <3>2 DEF TypeOK
    <3> QED BY <3>1, <3>2
  <2>4. CASE ReadBalance(m)
    <3>1. CASE q = m
      <4>1. /\ msg[q].pc = "read" /\ msg'[q].pc = "answer"
            /\ msg'[q].card = msg[q].card /\ msg'[q].socket = msg[q].socket
            /\ msg'[q].value = version[msg[q].card] /\ msg[q].card \in Cards
        BY <1>t, <2>4, <3>1 DEF ReadBalance, Says, TypeOK, Message
      <4>2. UNCHANGED <<link, excuse, byCard, version>> /\ Addressed(q)
        BY <2>4 DEF ReadBalance, GatewayInv
      <4>3. version[msg[q].card] \in Nat
        BY <1>t, <4>1 DEF TypeOK
      <4> QED BY <4>1, <4>2, <4>3 DEF Addressed, Live
    <3>2. CASE q # m
      BY <1>f, <1>t, <2>4, <3>2 DEF ReadBalance, TypeOK
    <3> QED BY <3>1, <3>2
  <2>5. HandleMessage(m) =>
           \/ Done(m)
           \/ \E c \in Cards : /\ Associate(msg[m].socket, c)
                               /\ msg' = [msg EXCEPT ![m].pc = "read", ![m].card = c]
    BY DEF HandleMessage
  <2>6. Answer(m) \/ ReadFails(m) => Done(m)
    BY DEF Answer, ReadFails
  <2> QED BY <1>1, <2>1, <2>2, <2>3, <2>4, <2>5, <2>6 DEF MessageStep
<1>2. CASE Restart
  <2>1. msg'[q].pc = "idle"
    BY <1>2, <1>i DEF Restart
  <2> QED BY <1>p, <2>1
<1>3. CASE UNCHANGED msg
  BY <1>3, <1>f
<1> QED
  BY <1>1, <1>2, <1>3 DEF Next, Connect, Disconnect, Change, CleanupStaleConnections, vars,
       BroadcastStep, HandleBalanceUpdate, ReadForBroadcast, EmitBroadcast, BroadcastFails

\* The same for a broadcast.
LEMMA DirectedFrame ==
    ASSUME GatewayInv, [Next]_vars, NEW b \in Broadcasts, cast'[b] = cast[b]
    PROVE  Directed(b)'
<1>t. /\ cast[b].sockets \subseteq Sockets /\ cast[b].card \in Cards
      /\ cast[b].value \in Nat
  BY DEF GatewayInv, TypeOK, Broadcast
<1>v. version[cast[b].card] \in Nat /\ version'[cast[b].card] \in Nat
  BY <1>t, TypeNext DEF GatewayInv, TypeOK
<1>1. cast[b].pc = "emit" => cast[b].value <= version'[cast[b].card]
  BY <1>t, <1>v, StepGrows DEF GatewayInv, Directed
<1>2. ASSUME cast[b].pc # "idle", NEW s \in cast[b].sockets, Live(s)'
      PROVE  s \in byCard'[cast[b].card]
  <2>1. Live(s) \/ Unknown(s)
    BY <1>t, <1>2, LiveBefore DEF GatewayInv
  <2>2. ~Unknown(s)
    BY <1>2 DEF Unknown
  <2>3. s \in byCard[cast[b].card]
    BY <1>2, <2>1, <2>2 DEF GatewayInv, Directed
  <2> QED BY <1>t, <1>2, <2>1, <2>2, <2>3, StaysListed DEF GatewayInv
<1> QED BY <1>1, <1>2 DEF Directed, Live

LEMMA DirectedNext == GatewayInv /\ [Next]_vars => \A b \in Broadcasts : Directed(b)'
<1> SUFFICES ASSUME GatewayInv, [Next]_vars, NEW a \in Broadcasts PROVE Directed(a)'
  OBVIOUS
<1>t. TypeOK /\ TypeOK'
  BY TypeNext DEF GatewayInv
<1>i. NoBroadcast.pc = "idle"
  BY DEF NoBroadcast
<1>f. cast'[a] = cast[a] => Directed(a)'
  BY DirectedFrame
<1>p. cast'[a].pc = "idle" => Directed(a)'
  BY DEF Directed
<1>1. ASSUME NEW b \in Broadcasts, BroadcastStep(b) PROVE Directed(a)'
  <2>1. ASSUME NEW c \in Cards,
               cast' = [cast EXCEPT ![b] = [pc |-> "read", card |-> c,
                                            sockets |-> Listeners(c), value |-> 0]],
               UNCHANGED byCard
        PROVE  Directed(a)'
    <3>1. CASE a = b
      BY <1>t, <2>1, <3>1 DEF Directed, Listeners, TypeOK
    <3>2. CASE a # b
      BY <1>f, <1>t, <2>1, <3>2 DEF TypeOK
    <3> QED BY <3>1, <3>2
  <2>2. CASE ReadForBroadcast(b)
    <3>1. CASE a = b
      <4>1. /\ cast[a].pc = "read" /\ cast'[a].pc = "emit"
            /\ cast'[a].card = cast[a].card /\ cast'[a].sockets = cast[a].sockets
            /\ cast'[a].value = version[cast[a].card] /\ cast[a].card \in Cards
        BY <1>t, <2>2, <3>1 DEF ReadForBroadcast, Phase, TypeOK, Broadcast
      <4>2. UNCHANGED <<link, excuse, byCard, version>> /\ Directed(a)
        BY <2>2 DEF ReadForBroadcast, GatewayInv
      <4>3. version[cast[a].card] \in Nat
        BY <1>t, <4>1 DEF TypeOK
      <4> QED BY <4>1, <4>2, <4>3 DEF Directed, Live
    <3>2. CASE a # b
      BY <1>f, <1>t, <2>2, <3>2 DEF ReadForBroadcast, TypeOK
    <3> QED BY <3>1, <3>2
  <2>3. CASE Over(b)
    <3>1. cast'[a] = cast[a] \/ cast'[a].pc = "idle"
      BY <1>i, <1>t, <2>3 DEF Over, TypeOK
    <3> QED BY <1>f, <1>p, <3>1
  <2>4. EmitBroadcast(b) \/ BroadcastFails(b) => Over(b)
    BY DEF EmitBroadcast, BroadcastFails
  <2> QED BY <1>1, <1>f, <2>1, <2>2, <2>3, <2>4 DEF BroadcastStep, HandleBalanceUpdate
<1>2. CASE Restart
  <2>1. cast'[a].pc = "idle"
    BY <1>2, <1>i DEF Restart
  <2> QED BY <1>p, <2>1
<1>3. CASE UNCHANGED cast
  BY <1>3, <1>f
<1> QED
  BY <1>1, <1>2, <1>3 DEF Next, Connect, Disconnect, Change, CleanupStaleConnections, vars,
       MessageStep, RequestBalance, HandleMessage, ReadBalance, Answer, ReadFails

\* Nothing about s and c changes but what others are sent.
LEMMA InformedFrame ==
    ASSUME NEW s \in Sockets, NEW c \in Cards, Informed(s, c),
           shown'[s] = shown[s], version'[c] = version[c], notices'[c] = notices[c],
           AnswerComes(s, c) => AnswerComes(s, c)',
           BroadcastComes(s, c) => BroadcastComes(s, c)'
    PROVE  Informed(s, c)'
  BY DEF Informed

\* A message or broadcast that is not for s and c, or idle, may do what it likes.
LEMMA AnswerFrame ==
    ASSUME NEW s \in Sockets, NEW c \in Cards, NEW m \in Messages,
           version'[c] = version[c], \A q \in Messages \ {m} : msg'[q] = msg[q],
           \/ msg[m].socket # s \/ msg[m].card # c
           \/ msg[m].pc \notin {"read", "answer"}
           \/ msg[m].pc = "answer" /\ msg[m].value # version[c]
    PROVE  AnswerComes(s, c) => AnswerComes(s, c)'
<1> SUFFICES ASSUME AnswerComes(s, c) PROVE AnswerComes(s, c)'
  OBVIOUS
<1>1. PICK q \in Messages :
         /\ msg[q].socket = s /\ msg[q].card = c
         /\ \/ msg[q].pc = "read"
            \/ msg[q].pc = "answer" /\ msg[q].value = version[c]
  BY DEF AnswerComes
<1>2. q # m
  BY <1>1
<1> QED BY <1>1, <1>2 DEF AnswerComes

LEMMA BroadcastFrame ==
    ASSUME NEW s \in Sockets, NEW c \in Cards, NEW b \in Broadcasts,
           version'[c] = version[c], \A a \in Broadcasts \ {b} : cast'[a] = cast[a],
           \/ s \notin cast[b].sockets \/ cast[b].card # c
           \/ cast[b].pc \notin {"read", "emit"}
           \/ cast[b].pc = "emit" /\ cast[b].value # version[c]
    PROVE  BroadcastComes(s, c) => BroadcastComes(s, c)'
<1> SUFFICES ASSUME BroadcastComes(s, c) PROVE BroadcastComes(s, c)'
  OBVIOUS
<1>1. PICK a \in Broadcasts :
         /\ s \in cast[a].sockets /\ cast[a].card = c
         /\ \/ cast[a].pc = "read"
            \/ cast[a].pc = "emit" /\ cast[a].value = version[c]
  BY DEF BroadcastComes
<1>2. a # b
  BY <1>1
<1> QED BY <1>1, <1>2 DEF BroadcastComes

\* A live socket of a card that is sent a balance of it shows that balance, and
\* when it is an old one the socket did not show the balance before.
LEMMA LiveIsTold ==
    ASSUME TypeOK, NEW S, NEW deaf, NEW c \in Cards, NEW value \in Nat,
           Emit(S, deaf, c, value), value <= version[c],
           NEW s \in S \cap Sockets, Live(s), Live(s)'
    PROVE  /\ shown'[s] = [card |-> c, value |-> value]
           /\ value # version[c] => shown[s] # [card |-> c, value |-> version[c]]
<1>1. s \notin deaf /\ link[s] = "open"
  BY EmitTells DEF Live
<1>2. /\ shown'[s] = [card |-> c, value |-> value]
      /\ ~(shown[s].card = c /\ shown[s].value > value)
  BY <1>1, EmitTells DEF Live
<1>3. version[c] \in Nat
  BY DEF TypeOK
<1>4. ASSUME shown[s] = [card |-> c, value |-> version[c]] PROVE value = version[c]
  <2>1. shown[s].card = c /\ shown[s].value = version[c]
    BY <1>4
  <2> QED BY <1>2, <1>3, <2>1
<1> QED BY <1>2, <1>4

LEMMA InformedNext == GatewayInv /\ [Next]_vars => InformedAll'
<1> SUFFICES ASSUME GatewayInv, [Next]_vars, NEW s \in Sockets, NEW c \in Cards,
                    clients'[s] = c, Live(s)'
             PROVE  Informed(s, c)'
  BY DEF InformedAll
<1>t. TypeOK /\ version[c] \in Nat /\ notices[c] \in Nat
  BY DEF GatewayInv, TypeOK
<1>l. Live(s) \/ Unknown(s)
  BY LiveBefore DEF GatewayInv
<1>n. Unknown(s) => clients[s] # c
  BY CardsAssumption DEF Unknown
<1>c. clients[s] = c => Live(s) /\ Informed(s, c)
  BY <1>l, <1>n DEF GatewayInv, InformedAll
<1>d. ASSUME NEW d \in Cards, s \in byCard[d], Live(s) PROVE clients[s] = d
  BY <1>d DEF GatewayInv, MapsAgree, Live
<1>f. ASSUME clients[s] = c, UNCHANGED <<shown, version, notices, msg, cast>>
      PROVE  Informed(s, c)'
  BY <1>c, <1>f DEF Informed, AnswerComes, BroadcastComes
<1>1. ASSUME NEW x \in Sockets, Connect(x) PROVE Informed(s, c)'
  <2>1. clients[s] = c
    BY <1>1, <1>t, CardsAssumption DEF Connect, TypeOK
  <2> QED BY <1>1, <1>f, <2>1 DEF Connect
<1>2. ASSUME NEW S, Remove(S), UNCHANGED <<shown, version, notices, msg, cast>>
      PROVE  Informed(s, c)'
  <2>1. clients[s] = c
    BY <1>2, CardsAssumption DEF Remove
  <2> QED BY <1>2, <1>f, <2>1
<1>3. ASSUME NEW d \in Cards, Change(d) PROVE Informed(s, c)'
  <2>1. clients[s] = c
    BY <1>3 DEF Change
  <2>2. CASE d = c
    BY <1>3, <1>t, <2>2 DEF Change, Informed, TypeOK
  <2>3. CASE d # c
    <3>1. /\ version'[c] = version[c] /\ notices'[c] = notices[c]
          /\ UNCHANGED <<shown, msg, cast>>
      BY <1>3, <1>t, <2>3 DEF Change, TypeOK
    <3> QED BY <1>c, <2>1, <3>1 DEF Informed, AnswerComes, BroadcastComes
  <2> QED BY <2>2, <2>3
<1>4. Restart => FALSE
  BY CardsAssumption DEF Restart
<1>5. ASSUME NEW m \in Messages, MessageStep(m) PROVE Informed(s, c)'
  <2> DEFINE d == msg[m].card
             x == msg[m].socket
             v == msg[m].value
  <2>m. msg[m] \in Message /\ d \in Cards /\ x \in Sockets /\ v \in Nat
    BY <1>t DEF TypeOK, Message
  <2>b. UNCHANGED <<version, notices, cast>>
    BY <1>5 DEF MessageStep, RequestBalance, HandleMessage, ReadBalance, Answer, ReadFails
  <2>q. \A q \in Messages \ {m} : msg'[q] = msg[q]
    BY <1>5, <1>t DEF MessageStep, RequestBalance, HandleMessage, ReadBalance, Answer,
                      ReadFails, Done, TypeOK
  <2>f. ASSUME clients[s] = c, shown'[s] = shown[s],
               AnswerComes(s, c) => AnswerComes(s, c)'
        PROVE  Informed(s, c)'
    <3>1. BroadcastComes(s, c) => BroadcastComes(s, c)'
      BY <2>b DEF BroadcastComes
    <3> QED BY <1>c, <2>b, <2>f, <3>1, InformedFrame
  <2>1. ASSUME NEW y \in Sockets, RequestBalance(m, y) PROVE Informed(s, c)'
    <3>1. AnswerComes(s, c) => AnswerComes(s, c)'
      BY <2>1, <2>b, <2>q, AnswerFrame DEF RequestBalance, Says
    <3> QED BY <2>1, <2>f, <3>1 DEF RequestBalance
  <2>2. CASE HandleMessage(m)
    <3>1. AnswerComes(s, c) => AnswerComes(s, c)'
      BY <2>2, <2>b, <2>q, AnswerFrame DEF HandleMessage, Says
    <3>2. UNCHANGED shown
      BY <2>2 DEF HandleMessage
    <3>3. CASE UNCHANGED clients
      BY <2>f, <3>1, <3>2, <3>3
    <3>4. ASSUME NEW e \in Cards, Associate(x, e),
                 msg' = [msg EXCEPT ![m].pc = "read", ![m].card = e]
          PROVE  Informed(s, c)'
      <4>1. clients' = [clients EXCEPT ![x] = e]
        BY <3>4 DEF Associate
      <4>2. CASE x = s
        <5>1. e = c
          BY <1>t, <4>1, <4>2 DEF TypeOK
        <5>2. msg'[m].socket = s /\ msg'[m].card = c /\ msg'[m].pc = "read"
          BY <1>t, <2>m, <3>4, <4>2, <5>1 DEF TypeOK, Message
        <5> QED BY <5>2 DEF Informed, AnswerComes
      <4>3. CASE x # s
        <5>1. clients[s] = c
          BY <1>t, <4>1, <4>3 DEF TypeOK
        <5> QED BY <2>f, <3>1, <3>2, <5>1
      <4> QED BY <4>2, <4>3
    <3> QED BY <2>2, <3>3, <3>4 DEF HandleMessage
  <2>3. CASE ReadBalance(m)
    <3>1. AnswerComes(s, c) => AnswerComes(s, c)'
      <4>1. CASE x = s /\ d = c
        <5>1. /\ msg'[m].socket = s /\ msg'[m].card = c /\ msg'[m].pc = "answer"
              /\ msg'[m].value = version[c]
          BY <1>t, <2>m, <2>3, <4>1 DEF ReadBalance, TypeOK, Message
        <5> QED BY <2>b, <5>1 DEF AnswerComes
      <4>2. CASE x # s \/ d # c
        BY <2>b, <2>q, <4>2, AnswerFrame
      <4> QED BY <4>1, <4>2
    <3> QED BY <2>3, <2>f, <3>1 DEF ReadBalance
  <2>4. CASE Answer(m)
    <3>1. Emit({x}, {}, d, v) /\ msg[m].pc = "answer" /\ UNCHANGED clients
      BY <2>4 DEF Answer, Says
    <3>2. CASE x # s
      <4>1. AnswerComes(s, c) => AnswerComes(s, c)'
        BY <2>b, <2>q, <3>2, AnswerFrame
      <4>2. s \in Sockets \ {x} /\ Emit({x}, {}, d, v)
        BY <3>1, <3>2
      <4>3. shown'[s] = shown[s]
        <5> HIDE DEF d, x, v
        <5> QED BY <1>t, <4>2, EmitTells
      <4> QED BY <2>f, <3>1, <4>1, <4>3
    <3>3. CASE x = s
      <4>1. Live(s) /\ clients[s] = c /\ Informed(s, c)
        BY <1>c, <3>1
      <4>2. d = c /\ v <= version[c]
        BY <1>d, <2>m, <3>1, <3>3, <4>1 DEF GatewayInv, Addressed
      <4>3. /\ shown'[s] = [card |-> c, value |-> v]
            /\ v # version[c] => shown[s] # [card |-> c, value |-> version[c]]
        BY <1>t, <2>m, <3>1, <3>3, <4>1, <4>2, LiveIsTold
      <4>4. CASE v = version[c]
        BY <2>b, <4>3, <4>4 DEF Informed
      <4>5. CASE v # version[c]
        <5>1. AnswerComes(s, c) => AnswerComes(s, c)'
          BY <2>b, <2>q, <3>1, <4>5, AnswerFrame
        <5>2. BroadcastComes(s, c) => BroadcastComes(s, c)'
          BY <2>b DEF BroadcastComes
        <5> QED BY <2>b, <4>1, <4>3, <4>5, <5>1, <5>2 DEF Informed
      <4> QED BY <4>4, <4>5
    <3> QED BY <3>2, <3>3
  <2>5. CASE ReadFails(m)
    <3>1. UNCHANGED <<clients, shown>> /\ excuse' = Excused({x}, "missed")
      BY <2>5 DEF ReadFails
    <3>2. x # s
      BY <1>t, <3>1, ExcusedGrows DEF Live
    <3>3. AnswerComes(s, c) => AnswerComes(s, c)'
      BY <2>b, <2>q, <3>2, AnswerFrame
    <3> QED BY <2>f, <3>1, <3>3
  <2> QED BY <1>5, <2>1, <2>2, <2>3, <2>4, <2>5 DEF MessageStep
<1>6. ASSUME NEW b \in Broadcasts, BroadcastStep(b) PROVE Informed(s, c)'
  <2> DEFINE d == cast[b].card
             S == cast[b].sockets
             v == cast[b].value
  <2>m. cast[b] \in Broadcast /\ d \in Cards /\ S \subseteq Sockets /\ v \in Nat
    BY <1>t DEF TypeOK, Broadcast
  <2>b. UNCHANGED <<version, msg>>
    BY <1>6 DEF BroadcastStep, HandleBalanceUpdate, ReadForBroadcast, EmitBroadcast,
                BroadcastFails
  <2>q. \A a \in Broadcasts \ {b} : cast'[a] = cast[a]
    BY <1>6, <1>t DEF BroadcastStep, HandleBalanceUpdate, ReadForBroadcast, EmitBroadcast,
                      BroadcastFails, Over, TypeOK
  <2>a. AnswerComes(s, c) => AnswerComes(s, c)'
    BY <2>b DEF AnswerComes
  <2>f. ASSUME clients[s] = c, shown'[s] = shown[s], notices'[c] = notices[c],
               BroadcastComes(s, c) => BroadcastComes(s, c)'
        PROVE  Informed(s, c)'
    BY <1>c, <2>a, <2>b, <2>f, InformedFrame
  <2>1. ASSUME NEW e \in Cards, HandleBalanceUpdate(b, e) PROVE Informed(s, c)'
    <3>1. UNCHANGED <<clients, shown>> /\ cast[b].pc = "idle"
      BY <2>1 DEF HandleBalanceUpdate, Phase
    <3>2. BroadcastComes(s, c) => BroadcastComes(s, c)'
      BY <2>b, <2>q, <3>1, BroadcastFrame
    <3>3. CASE e # c
      <4>1. notices'[c] = notices[c]
        BY <1>t, <2>1, <3>3 DEF HandleBalanceUpdate, TypeOK
      <4> QED BY <2>f, <3>1, <3>2, <4>1
    <3>4. CASE e = c
      <4>1. s \in byCard[c]
        BY <3>1 DEF GatewayInv, MapsAgree
      <4>2. cast'[b] = [pc |-> "read", card |-> c, sockets |-> byCard[c], value |-> 0]
        BY <1>t, <2>1, <3>4, <4>1 DEF HandleBalanceUpdate, Listeners, Worthwhile, TypeOK
      <4> QED BY <4>1, <4>2 DEF Informed, BroadcastComes
    <3> QED BY <3>3, <3>4
  <2>2. CASE ReadForBroadcast(b)
    <3>1. BroadcastComes(s, c) => BroadcastComes(s, c)'
      <4>1. CASE s \in S /\ d = c
        <5>1. /\ s \in cast'[b].sockets /\ cast'[b].card = c /\ cast'[b].pc = "emit"
              /\ cast'[b].value = version[c]
          BY <1>t, <2>m, <2>2, <4>1 DEF ReadForBroadcast, TypeOK, Broadcast
        <5> QED BY <2>b, <5>1 DEF BroadcastComes
      <4>2. CASE s \notin S \/ d # c
        BY <2>b, <2>q, <4>2, BroadcastFrame
      <4> QED BY <4>1, <4>2
    <3> QED BY <2>2, <2>f, <3>1 DEF ReadForBroadcast
  <2>3. CASE EmitBroadcast(b)
    <3> DEFINE here == {y \in S : clients[y] # Absent /\ link[y] = "open"}
    <3>1. PICK deaf : Emit(here, deaf, d, v) /\ Remove((S \ here) \cup deaf)
      BY <2>3 DEF EmitBroadcast
    <3>2. cast[b].pc = "emit" /\ UNCHANGED notices
      BY <2>3 DEF EmitBroadcast, Phase
    <3>3. clients[s] = c
      BY <3>1, CardsAssumption DEF Remove
    <3>4. Live(s) /\ Informed(s, c)
      BY <1>c, <3>3
    <3>5. s \in here <=> s \in S
      BY <3>3, <3>4, CardsAssumption DEF Live
    <3> HIDE DEF here
    <3>6. CASE s \notin S
      <4>1. BroadcastComes(s, c) => BroadcastComes(s, c)'
        BY <2>b, <2>q, <3>6, BroadcastFrame
      <4>2. shown'[s] = shown[s]
        BY <1>t, <3>1, <3>5, <3>6, EmitTells
      <4> QED BY <2>f, <3>2, <3>3, <4>1, <4>2
    <3>7. CASE s \in S
      <4>1. d = c /\ v <= version[c]
        BY <1>d, <2>m, <3>2, <3>3, <3>4, <3>7 DEF GatewayInv, Directed
      <4>2. /\ shown'[s] = [card |-> c, value |-> v]
            /\ v # version[c] => shown[s] # [card |-> c, value |-> version[c]]
        BY <1>t, <2>m, <3>1, <3>4, <3>5, <3>7, <4>1, LiveIsTold
      <4>3. CASE v = version[c]
        BY <2>b, <4>2, <4>3 DEF Informed
      <4>4. CASE v # version[c]
        <5>1. BroadcastComes(s, c) => BroadcastComes(s, c)'
          BY <2>b, <2>q, <3>2, <4>4, BroadcastFrame
        <5> QED BY <2>a, <2>b, <3>2, <3>4, <4>2, <4>4, <5>1 DEF Informed
      <4> QED BY <4>3, <4>4
    <3> QED BY <3>6, <3>7
  <2>4. CASE BroadcastFails(b)
    <3>1. UNCHANGED <<clients, shown, notices>> /\ excuse' = Excused(S, "missed")
      BY <2>4 DEF BroadcastFails
    <3>2. s \notin S
      BY <1>t, <3>1, ExcusedGrows DEF Live
    <3>3. BroadcastComes(s, c) => BroadcastComes(s, c)'
      BY <2>b, <2>q, <3>2, BroadcastFrame
    <3> QED BY <2>f, <3>1, <3>3
  <2> QED BY <1>6, <2>1, <2>2, <2>3, <2>4 DEF BroadcastStep
<1>7. CASE UNCHANGED vars
  BY <1>7, <1>f DEF vars
<1>8. ASSUME NEW x \in Sockets, Disconnect(x) PROVE Informed(s, c)'
  BY <1>2, <1>8 DEF Disconnect
<1>9. CASE CleanupStaleConnections
  BY <1>2, <1>9 DEF CleanupStaleConnections
<1> QED
  BY <1>1, <1>3, <1>4, <1>5, <1>6, <1>7, <1>8, <1>9 DEF Next

LEMMA GatewayNext == GatewayInv /\ [Next]_vars => GatewayInv'
  BY TypeNext, UnknownNext, MapsNext, AddressedNext, DirectedNext, InformedNext DEF GatewayInv

(***************************************************************************)
(* When nothing about it is under way, an open socket with a card shows    *)
(* the balance of the card, unless a read or an emit failed, an answer was *)
(* overtaken or its account got another card.                              *)
(***************************************************************************)
THEOREM RestShowsBalance == Spec => []LatestShown
<1>1. GatewayInv => LatestShown
  <2> SUFFICES ASSUME GatewayInv, NEW s \in Sockets, NEW c \in Cards,
                      clients[s] = c, Live(s), AtRest(s, c)
               PROVE  shown[s] = [card |-> c, value |-> version[c]]
    BY DEF LatestShown, Live
  <2>1. Informed(s, c)
    BY DEF GatewayInv, InformedAll
  <2>2. ~AnswerComes(s, c) /\ ~BroadcastComes(s, c)
    BY DEF AtRest, AnswerComes, BroadcastComes
  <2> QED BY <2>1, <2>2 DEF AtRest, Informed
<1> QED BY <1>1, GatewayInit, GatewayNext, PTL DEF Spec

=============================================================================
