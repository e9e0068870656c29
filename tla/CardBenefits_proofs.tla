------------------------ MODULE CardBenefits_proofs ------------------------
(* Proofs about CardBenefits: every limit the runs check, for any number   *)
(* of clients, any limits and any number of failures.                      *)
EXTENDS CardBenefits, FiniteSetTheorems, TLAPS

(***************************************************************************)
(* Types                                                                   *)
(***************************************************************************)

\* How often client r has used the code, and how many requests are somewhere.
Uses(r) == Cardinality({u \in usage : u.by = r})
Count(pcs) == Cardinality(Among(pcs))

\* What TypeOK cannot say without enumerating rows: the table is finite.
Typed == TypeOK /\ IsFiniteSet(usage)

PromoStep(r) ==
    \/ Validate(r) \/ ValidateUsage(r) \/ CreateDiscounted(r)
    \/ ReadUsage(r) \/ RecordUsage(r) \/ SaveDiscounted(r)
VacuumStep(r) == CreateFree(r) \/ CountVacuums(r) \/ SaveFree(r)
PromotionStep(r) == Apply(r) \/ CheckUnused(r) \/ Grant(r) \/ Mark(r)

\* The initial state is well typed.
LEMMA TypedInit == Init => Typed
  BY FS_EmptySet DEF Init, Typed, TypeOK, Vacuums, Request, Idle

\* A request that goes on, or ends, is a request.
LEMMA RequestTyped ==
    ASSUME TypeOK, NEW r \in Requests
    PROVE  /\ Ends(r) => req' \in [Requests -> Request]
           /\ \A pc \in {"validate", "accepted", "read", "record", "save", "count",
                         "saveFree", "used", "grant", "mark"} :
                 Goes(r, pc) => req' \in [Requests -> Request]
  BY DEF TypeOK, Request, Idle, Ends, Goes

LEMMA NumbersTyped == TypeOK => Numbers \subseteq Nat
  BY DEF TypeOK, UsageRow, Numbers

\* A usage row is written once more.
LEMMA RecordTyped ==
    ASSUME Typed, NEW r \in Requests, Record(r)
    PROVE  /\ usage' \subseteq UsageRow
           /\ IsFiniteSet(usage')
<1>1. Cardinality(usage) \in Nat
  BY FS_CardinalityType DEF Typed
<1>2. req[r].saw \in Nat
  BY DEF Typed, TypeOK, Request
<1>3. [id |-> Cardinality(usage) + 1, by |-> r, number |-> NextNumber(req[r].saw)]
        \in UsageRow
  BY <1>1, <1>2 DEF UsageRow, NextNumber
<1> QED BY <1>3, FS_AddElement DEF Record, Typed, TypeOK

LEMMA TypedNext == Typed /\ [Next]_vars => Typed'
<1> SUFFICES ASSUME Typed, [Next]_vars PROVE Typed'
  OBVIOUS
<1> USE DEF Typed
<1>1. ASSUME NEW r \in Requests, PromoStep(r) PROVE Typed'
  <2>1. CASE RecordUsage(r)
    BY <2>1, RecordTyped, RequestTyped DEF TypeOK, RecordUsage
  <2>2. CASE ReadUsage(r)
    <3>1. PICK n \in Nat : req' = [req EXCEPT ![r].pc = "record", ![r].saw = n]
      BY <2>2, NumbersTyped DEF ReadUsage
    <3>2. [req[r] EXCEPT !.pc = "record", !.saw = n] \in Request
      BY DEF TypeOK, Request
    <3>3. req' \in [Requests -> Request]
      BY <3>1, <3>2 DEF TypeOK
    <3> QED BY <2>2, <3>3 DEF TypeOK, ReadUsage
  <2>3. CASE Validate(r) \/ ValidateUsage(r) \/ CreateDiscounted(r)
    BY <2>3, RequestTyped DEF TypeOK, Validate, ValidateUsage, CreateDiscounted
  <2>4. CASE SaveDiscounted(r)
    BY <2>4, RequestTyped DEF TypeOK, SaveDiscounted
  <2> QED BY <1>1, <2>1, <2>2, <2>3, <2>4 DEF PromoStep
<1>2. ASSUME NEW r \in Requests, VacuumStep(r) PROVE Typed'
  <2>1. CASE SaveFree(r)
    BY <2>1, RequestTyped DEF TypeOK, SaveFree, Vacuums
  <2>2. CASE CreateFree(r) \/ CountVacuums(r)
    BY <2>2, RequestTyped DEF TypeOK, CreateFree, CountVacuums
  <2> QED BY <1>2, <2>1, <2>2 DEF VacuumStep
<1>3. ASSUME NEW r \in Requests, PromotionStep(r) PROVE Typed'
  BY <1>3, RequestTyped DEF TypeOK, PromotionStep, Apply, CheckUnused, Grant, Mark
<1>4. ASSUME NEW r \in Requests, RequestError(r) PROVE Typed'
  BY <1>4, RequestTyped DEF TypeOK, RequestError
<1>5. CASE Expire
  BY <1>5 DEF TypeOK, Expire
<1>6. CASE ServeFree
  <2>1. vacuums' \in Vacuums
    BY <1>6 DEF TypeOK, ServeFree, Waits, Vacuums
  <2> QED BY <1>6, <2>1 DEF TypeOK, ServeFree
<1>7. CASE Midnight
  <2>1. vacuums' \in Vacuums
    BY <1>7 DEF TypeOK, Midnight, Vacuums
  <2> QED BY <1>7, <2>1 DEF TypeOK, Midnight
<1>8. CASE Crash
  <2>1. req' \in [Requests -> Request]
    BY <1>8 DEF TypeOK, Crash, Request, Idle
  <2> QED BY <1>8, <2>1 DEF TypeOK, Crash
<1>9. CASE UNCHANGED vars
  BY <1>9 DEF TypeOK, vars
<1> QED
  BY <1>1, <1>2, <1>3, <1>4, <1>5, <1>6, <1>7, <1>8, <1>9
  DEF Next, PromoStep, VacuumStep, PromotionStep

(***************************************************************************)
(* Frames: which requests a step moves                                     *)
(***************************************************************************)

\* At most request r has moved.
OnlyMoves(r) ==
    req' \in [Requests -> Request] /\ \A q \in Requests \ {r} : req'[q] = req[q]

\* Counting the requests in some places: one moved in, one moved out.
LEMMA MovedCount ==
    ASSUME TypeOK, NEW r \in Requests, OnlyMoves(r), NEW P
    PROVE  /\ Count(P) \in Nat
           /\ Count(P)' = Count(P) + (IF req'[r].pc \in P THEN 1 ELSE 0)
                                   - (IF req[r].pc \in P THEN 1 ELSE 0)
<1>1. IsFiniteSet(Among(P))
  BY RequestsAssumption, FS_Subset DEF Among
<1>2. CASE req'[r].pc \in P
  <2>1. Among(P)' = Among(P) \cup {r}
    BY <1>2 DEF Among, OnlyMoves
  <2>2. r \in Among(P) <=> req[r].pc \in P
    BY DEF Among
  <2> QED BY <1>1, <1>2, <2>1, <2>2, FS_AddElement, FS_CardinalityType DEF Count
<1>3. CASE req'[r].pc \notin P
  <2>1. Among(P)' = Among(P) \ {r}
    BY <1>3 DEF Among, OnlyMoves
  <2>2. r \in Among(P) <=> req[r].pc \in P
    BY DEF Among
  <2>3. /\ Count(P) \in Nat
        /\ Count(P)' = IF req[r].pc \in P THEN Count(P) - 1 ELSE Count(P)
    BY <1>1, <2>1, <2>2, FS_RemoveElement, FS_CardinalityType DEF Count
  <2> QED BY <1>3, <2>3
<1> QED BY <1>2, <1>3

\* Requests that are in two different places are counted at most once.
LEMMA CountBounded ==
    ASSUME TypeOK, NEW P
    PROVE  Count(P) \in Nat /\ Count(P) <= Cardinality(Requests)
  BY RequestsAssumption, FS_Subset, FS_CardinalityType DEF Among, Count

\* Every step of a request moves that request only; a step of one benefit
\* leaves the others where they are.
LEMMA Moves ==
    ASSUME TypeOK, NEW r \in Requests
    PROVE  /\ PromoStep(r) =>
                 /\ OnlyMoves(r)
                 /\ UNCHANGED <<vacuums, granted, marks, spent>>
                 /\ {req[r].pc, req'[r].pc} \subseteq
                       {"idle", "validate", "accepted", "read", "record", "save"}
           /\ VacuumStep(r) =>
                 /\ OnlyMoves(r)
                 /\ UNCHANGED <<usage, discounts, granted, marks, spent>>
                 /\ {req[r].pc, req'[r].pc} \subseteq {"idle", "count", "saveFree"}
           /\ PromotionStep(r) =>
                 /\ OnlyMoves(r)
                 /\ UNCHANGED <<usage, discounts, vacuums, spent>>
                 /\ {req[r].pc, req'[r].pc} \subseteq {"idle", "used", "grant", "mark"}
           /\ RequestError(r) =>
                 /\ OnlyMoves(r)
                 /\ UNCHANGED <<usage, discounts, vacuums, granted, marks>>
                 /\ req'[r] = Idle
<1>1. ASSUME NEW pc \in {"validate", "accepted", "read", "record", "save", "count",
                         "saveFree", "used", "grant", "mark"}, Goes(r, pc)
      PROVE  OnlyMoves(r) /\ req'[r].pc = pc
  BY <1>1, RequestTyped DEF OnlyMoves, Goes, TypeOK, Request
<1>2. ASSUME Ends(r) PROVE OnlyMoves(r) /\ req'[r] = Idle
  BY <1>2, RequestTyped DEF OnlyMoves, Ends, TypeOK
<1>3. Idle.pc = "idle"
  BY DEF Idle
<1>4. ASSUME PromoStep(r)
      PROVE  /\ OnlyMoves(r)
             /\ UNCHANGED <<vacuums, granted, marks, spent>>
             /\ {req[r].pc, req'[r].pc} \subseteq
                   {"idle", "validate", "accepted", "read", "record", "save"}
  <2>1. CASE ReadUsage(r)
    <3>1. PICK n \in Numbers : req' = [req EXCEPT ![r].pc = "record", ![r].saw = n]
      BY <2>1 DEF ReadUsage
    <3>2. n \in Nat
      BY NumbersTyped
    <3>3. OnlyMoves(r) /\ req'[r].pc = "record"
      BY <3>1, <3>2 DEF OnlyMoves, TypeOK, Request
    <3> QED BY <2>1, <3>3 DEF ReadUsage, At
  <2>2. CASE Validate(r) \/ ValidateUsage(r) \/ CreateDiscounted(r)
    BY <1>1, <1>2, <1>3, <2>2 DEF Validate, ValidateUsage, CreateDiscounted, At
  <2>3. CASE RecordUsage(r)
    BY <1>1, <2>3 DEF RecordUsage, At
  <2>4. CASE SaveDiscounted(r)
    BY <1>2, <1>3, <2>4 DEF SaveDiscounted, At
  <2> QED BY <1>4, <2>1, <2>2, <2>3, <2>4 DEF PromoStep
<1>5. ASSUME VacuumStep(r)
      PROVE  /\ OnlyMoves(r)
             /\ UNCHANGED <<usage, discounts, granted, marks, spent>>
             /\ {req[r].pc, req'[r].pc} \subseteq {"idle", "count", "saveFree"}
  BY <1>1, <1>2, <1>3, <1>5 DEF VacuumStep, CreateFree, CountVacuums, SaveFree, At
<1>6. ASSUME PromotionStep(r)
      PROVE  /\ OnlyMoves(r)
             /\ UNCHANGED <<usage, discounts, vacuums, spent>>
             /\ {req[r].pc, req'[r].pc} \subseteq {"idle", "used", "grant", "mark"}
  BY <1>1, <1>2, <1>3, <1>6 DEF PromotionStep, Apply, CheckUnused, Grant, Mark, At
<1>7. ASSUME RequestError(r)
      PROVE  /\ OnlyMoves(r)
             /\ UNCHANGED <<usage, discounts, vacuums, granted, marks>>
             /\ req'[r] = Idle
  BY <1>2, <1>7 DEF RequestError
<1> QED BY <1>4, <1>5, <1>6, <1>7

\* The steps that are nobody's request.
LEMMA Aside ==
    ASSUME TypeOK, Expire \/ ServeFree \/ Midnight \/ UNCHANGED vars
    PROVE  UNCHANGED <<usage, discounts, granted, marks, req, spent>>
  BY DEF Expire, ServeFree, Midnight, vars

\* A crash leaves nobody under way in the server.
LEMMA CrashEmpties ==
    ASSUME TypeOK, Crash, NEW P, "idle" \notin P, "accepted" \notin P
    PROVE  Count(P)' = 0
<1>1. Among(P)' = {}
  BY DEF Crash, Among, Idle, At, TypeOK
<1> QED BY <1>1, FS_EmptySet DEF Count

(***************************************************************************)
(* Free vacuums                                                            *)
(***************************************************************************)

\* An order that passed the count takes its place among those under way until
\* it is completed or failed.
VacuumInv ==
    /\ Count({"count", "saveFree"}) + vacuums.waiting <= Parallel
    /\ vacuums.completed + vacuums.waiting + Count({"saveFree"}) < VacuumLimit + Parallel

LEMMA VacuumInit == Init => VacuumInv
<1> SUFFICES ASSUME Init PROVE VacuumInv
  OBVIOUS
<1>1. Among({"count", "saveFree"}) = {} /\ Among({"saveFree"}) = {}
  BY DEF Init, Among, Idle
<1> QED BY <1>1, FS_EmptySet, LimitsAssumption DEF Init, VacuumInv, Count

LEMMA VacuumNext == Typed /\ Typed' /\ VacuumInv /\ [Next]_vars => VacuumInv'
<1> SUFFICES ASSUME Typed, Typed', VacuumInv, [Next]_vars PROVE VacuumInv'
  OBVIOUS
<1> USE LimitsAssumption
<1>t. /\ TypeOK
      /\ vacuums.waiting \in Nat /\ vacuums.completed \in Nat
      /\ vacuums'.waiting \in Nat /\ vacuums'.completed \in Nat
  BY DEF Typed, TypeOK, Vacuums
<1>c. /\ Count({"count", "saveFree"}) \in Nat /\ Count({"count", "saveFree"})' \in Nat
      /\ Count({"saveFree"}) \in Nat /\ Count({"saveFree"})' \in Nat
      /\ Count({"saveFree"})' <= Count({"count", "saveFree"})'
  <2>1. \A P : Count(P) \in Nat
    BY <1>t, CountBounded
  <2>2. \A P : IsFiniteSet(Among(P)')
    BY RequestsAssumption, FS_Subset DEF Among
  <2>3. Among({"saveFree"})' \subseteq Among({"count", "saveFree"})'
    BY DEF Among
  <2> QED BY <2>1, <2>2, <2>3, FS_Subset, FS_CardinalityType DEF Count
\* Requests that move without touching the orders, and not into a vacuum.
<1>1. ASSUME NEW r \in Requests, OnlyMoves(r), vacuums' = vacuums,
             req'[r].pc \notin {"count", "saveFree"}
      PROVE  VacuumInv'
  <2>1. /\ Count({"count", "saveFree"})' <= Count({"count", "saveFree"})
        /\ Count({"saveFree"})' <= Count({"saveFree"})
    BY <1>1, <1>t, <1>c, MovedCount
  <2> QED BY <2>1, <1>1, <1>t, <1>c DEF VacuumInv
<1>2. ASSUME NEW r \in Requests, VacuumStep(r) PROVE VacuumInv'
  <2>m. OnlyMoves(r)
    BY <1>2, <1>t, Moves
  <2>1. CASE CreateFree(r)
    <3>1. req[r].pc = "idle" /\ req'[r].pc = "count" /\ vacuums' = vacuums
      BY <2>1, <1>t DEF CreateFree, At, Goes, TypeOK, Request
    <3>2. /\ Count({"count", "saveFree"})' = Count({"count", "saveFree"}) + 1
          /\ Count({"saveFree"})' = Count({"saveFree"})
      BY <2>m, <3>1, <1>t, <1>c, MovedCount
    <3>3. Count({"count", "saveFree"}) + vacuums.waiting < Parallel
      BY <2>1 DEF CreateFree, Underway, Count
    <3> QED BY <3>1, <3>2, <3>3, <1>t, <1>c DEF VacuumInv
  <2>2. CASE CountVacuums(r) /\ Remains
    <3>1. req[r].pc = "count" /\ req'[r].pc = "saveFree" /\ vacuums' = vacuums
      BY <2>2, <1>t DEF CountVacuums, At, Goes, TypeOK, Request
    <3>2. Count({"count", "saveFree"})' = Count({"count", "saveFree"})
      BY <2>m, <3>1, <1>t, <1>c, MovedCount
    <3>3. vacuums.completed < VacuumLimit
      BY <2>2 DEF Remains
    <3> QED BY <3>1, <3>2, <3>3, <1>t, <1>c DEF VacuumInv
  <2>3. CASE CountVacuums(r) /\ ~Remains
    <3>1. req'[r].pc = "idle" /\ vacuums' = vacuums
      BY <2>3, <1>t DEF CountVacuums, At, Ends, Idle, TypeOK, Request
    <3> QED BY <3>1, <2>m, <1>1
  <2>4. CASE SaveFree(r)
    <3>1. /\ req[r].pc = "saveFree" /\ req'[r].pc = "idle"
          /\ vacuums'.waiting = vacuums.waiting + 1
          /\ vacuums'.completed = vacuums.completed
      BY <2>4, <1>t DEF SaveFree, At, Ends, Idle, TypeOK, Request, Vacuums
    <3>2. /\ Count({"count", "saveFree"})' = Count({"count", "saveFree"}) - 1
          /\ Count({"saveFree"})' = Count({"saveFree"}) - 1
      BY <2>m, <3>1, <1>t, <1>c, MovedCount
    <3> QED BY <3>1, <3>2, <1>t, <1>c DEF VacuumInv
  <2> QED BY <1>2, <2>1, <2>2, <2>3, <2>4 DEF VacuumStep
<1>3. ASSUME NEW r \in Requests, PromoStep(r) \/ PromotionStep(r) \/ RequestError(r)
      PROVE  VacuumInv'
  <2>1. OnlyMoves(r) /\ vacuums' = vacuums /\ req'[r].pc \notin {"count", "saveFree"}
    BY <1>3, <1>t, Moves DEF Idle
  <2> QED BY <2>1, <1>1
<1>4. CASE ServeFree
  <2>1. /\ vacuums'.waiting = vacuums.waiting - 1
        /\ vacuums'.completed <= vacuums.completed + 1
        /\ req' = req
    BY <1>4, <1>t DEF ServeFree, TypeOK, Vacuums
  <2>2. \A P : Count(P)' = Count(P)
    BY <2>1 DEF Count, Among
  <2> QED BY <2>1, <2>2, <1>t, <1>c DEF VacuumInv
<1>5. CASE Midnight
  <2>1. /\ vacuums'.waiting = vacuums.waiting
        /\ vacuums'.completed = 0
        /\ req' = req
    BY <1>5, <1>t DEF Midnight, TypeOK, Vacuums
  <2>2. \A P : Count(P)' = Count(P)
    BY <2>1 DEF Count, Among
  <2> QED BY <2>1, <2>2, <1>t, <1>c DEF VacuumInv
<1>6. CASE Crash
  <2>1. vacuums' = vacuums
    BY <1>6 DEF Crash
  <2>2. Count({"count", "saveFree"})' = 0 /\ Count({"saveFree"})' = 0
    BY <1>6, <1>t, CrashEmpties
  <2> QED BY <2>1, <2>2, <1>t, <1>c DEF VacuumInv
<1>7. CASE Expire \/ UNCHANGED vars
  <2>1. vacuums' = vacuums /\ req' = req
    BY <1>7 DEF Expire, vars
  <2>2. \A P : Count(P)' = Count(P)
    BY <2>1 DEF Count, Among
  <2> QED BY <2>1, <2>2 DEF VacuumInv
<1> QED
  BY <1>2, <1>3, <1>4, <1>5, <1>6, <1>7 DEF Next, PromoStep, VacuumStep, PromotionStep

(***************************************************************************)
(* Promotions                                                              *)
(***************************************************************************)

\* Until the promotion is marked as used, whoever was granted it is on the way
\* to marking it, failed, or was lost in a crash.
Lost == Cardinality(Requests) * spent.crashes + spent.errors
PromotionInv ==
    /\ marks = 0 => granted + Count({"grant"}) <= Count({"grant", "mark"}) + Lost
    /\ granted + Count({"grant"}) <= Cardinality(Requests) + Lost

LEMMA LostTyped ==
    ASSUME TypeOK
    PROVE  /\ Cardinality(Requests) \in Nat
           /\ spent.errors \in Nat /\ spent.crashes \in Nat
           /\ Lost \in Nat
<1>1. Cardinality(Requests) \in Nat
  BY RequestsAssumption, FS_CardinalityType
<1>2. spent.errors \in Nat /\ spent.crashes \in Nat
  BY DEF TypeOK
<1>3. \A x, y \in Nat : x * y \in Nat
  OBVIOUS
<1> QED BY <1>1, <1>2, <1>3 DEF Lost

LEMMA PromotionInit == Init => PromotionInv
<1> SUFFICES ASSUME Init PROVE PromotionInv
  OBVIOUS
<1>1. Among({"grant"}) = {} /\ Among({"grant", "mark"}) = {}
  BY DEF Init, Among, Idle
<1>2. Count({"grant"}) = 0 /\ Count({"grant", "mark"}) = 0
  BY <1>1, FS_EmptySet DEF Count
<1>3. Cardinality(Requests) \in Nat
  BY RequestsAssumption, FS_CardinalityType
<1>4. Lost = 0
  BY <1>3 DEF Init, Lost
<1> QED BY <1>2, <1>3, <1>4 DEF Init, PromotionInv

LEMMA PromotionNext ==
    Typed /\ Typed' /\ PromotionInv /\ [Next]_vars => PromotionInv'
<1> SUFFICES ASSUME Typed, Typed', PromotionInv, [Next]_vars PROVE PromotionInv'
  OBVIOUS
<1>t. /\ TypeOK
      /\ granted \in Nat /\ granted' \in Nat /\ marks \in Nat /\ marks' \in Nat
  BY DEF Typed, TypeOK
<1>l. /\ Cardinality(Requests) \in Nat
      /\ Lost \in Nat
  BY <1>t, LostTyped
<1>c. /\ Count({"grant"}) \in Nat /\ Count({"grant", "mark"}) \in Nat
      /\ Count({"grant", "mark"}) <= Cardinality(Requests)
  BY <1>t, CountBounded
<1>d. /\ Count({"grant"})' \in Nat /\ Count({"grant", "mark"})' \in Nat
      /\ Count({"grant", "mark"})' <= Cardinality(Requests)
  <2>1. \A P : Among(P)' \in SUBSET Requests
    BY DEF Among
  <2>2. \A P : Count(P)' \in Nat /\ Count(P)' <= Cardinality(Requests)
    BY <2>1, RequestsAssumption, FS_Subset, FS_CardinalityType DEF Count
  <2> QED BY <2>2
<1>1. ASSUME NEW r \in Requests, PromotionStep(r) PROVE PromotionInv'
  <2>m. OnlyMoves(r) /\ UNCHANGED spent
    BY <1>1, <1>t, Moves
  <2>l. Lost' = Lost
    BY <2>m DEF Lost
  <2>1. CASE Apply(r)
    <3>1. /\ req[r].pc = "idle" /\ req'[r].pc = "used"
          /\ UNCHANGED <<granted, marks>>
      BY <2>1, <1>t DEF Apply, At, Goes, TypeOK, Request
    <3>2. UNCHANGED <<Count({"grant"}), Count({"grant", "mark"})>>
      BY <2>m, <3>1, <1>t, <1>c, MovedCount
    <3> QED BY <3>1, <3>2, <2>l DEF PromotionInv
  <2>2. CASE CheckUnused(r) /\ Unused
    <3>1. /\ req[r].pc = "used" /\ req'[r].pc = "grant"
          /\ UNCHANGED <<granted, marks>> /\ marks = 0
      BY <2>2, <1>t DEF CheckUnused, Unused, At, Goes, TypeOK, Request
    <3>2. /\ Count({"grant"})' = Count({"grant"}) + 1
          /\ Count({"grant", "mark"})' = Count({"grant", "mark"}) + 1
      BY <2>m, <3>1, <1>t, <1>c, MovedCount
    <3> QED BY <3>1, <3>2, <2>l, <1>t, <1>l, <1>c, <1>d DEF PromotionInv
  <2>3. CASE CheckUnused(r) /\ ~Unused
    <3>1. /\ req[r].pc = "used" /\ req'[r].pc = "idle"
          /\ UNCHANGED <<granted, marks>>
      BY <2>3, <1>t DEF CheckUnused, At, Ends, Idle, TypeOK, Request
    <3>2. UNCHANGED <<Count({"grant"}), Count({"grant", "mark"})>>
      BY <2>m, <3>1, <1>t, <1>c, MovedCount
    <3> QED BY <3>1, <3>2, <2>l DEF PromotionInv
  <2>4. CASE Grant(r)
    <3>1. /\ req[r].pc = "grant" /\ req'[r].pc = "mark"
          /\ marks' = marks /\ granted' = granted + 1
      BY <2>4, <1>t DEF Grant, At, Goes, TypeOK, Request
    <3>2. /\ Count({"grant"})' = Count({"grant"}) - 1
          /\ Count({"grant", "mark"})' = Count({"grant", "mark"})
      BY <2>m, <3>1, <1>t, <1>c, MovedCount
    <3> QED BY <3>1, <3>2, <2>l, <1>t, <1>l, <1>c, <1>d DEF PromotionInv
  <2>5. CASE Mark(r)
    <3>1. /\ req[r].pc = "mark" /\ req'[r].pc = "idle"
          /\ marks' = marks + 1 /\ granted' = granted
      BY <2>5, <1>t DEF Mark, At, Ends, Idle, TypeOK, Request
    <3>2. Count({"grant"})' = Count({"grant"})
      BY <2>m, <3>1, <1>t, <1>c, MovedCount
    <3> QED BY <3>1, <3>2, <2>l, <1>t DEF PromotionInv
  <2> QED BY <1>1, <2>1, <2>2, <2>3, <2>4, <2>5 DEF PromotionStep
<1>2. ASSUME NEW r \in Requests, PromoStep(r) \/ VacuumStep(r) PROVE PromotionInv'
  <2>1. /\ OnlyMoves(r) /\ UNCHANGED <<granted, marks, spent>>
        /\ req[r].pc \notin {"grant", "mark"} /\ req'[r].pc \notin {"grant", "mark"}
    BY <1>2, <1>t, Moves
  <2>2. UNCHANGED <<Count({"grant"}), Count({"grant", "mark"})>>
    BY <2>1, <1>t, <1>c, MovedCount
  <2> QED BY <2>1, <2>2 DEF PromotionInv, Lost
<1>3. ASSUME NEW r \in Requests, RequestError(r) PROVE PromotionInv'
  <2>1. /\ OnlyMoves(r) /\ UNCHANGED <<granted, marks>> /\ req'[r].pc = "idle"
    BY <1>3, <1>t, Moves DEF Idle
  <2>2. /\ Count({"grant"})' = Count({"grant"}) - (IF req[r].pc = "grant" THEN 1 ELSE 0)
        /\ Count({"grant", "mark"})' = Count({"grant", "mark"})
               - (IF req[r].pc \in {"grant", "mark"} THEN 1 ELSE 0)
    BY <2>1, <1>t, <1>c, MovedCount
  <2>3. spent'.errors = spent.errors + 1 /\ spent'.crashes = spent.crashes
    BY <1>3, <1>t DEF RequestError, TypeOK
  <2>4. Lost' = Lost + 1
    BY <2>3, <1>t, LostTyped DEF Lost
  <2> QED BY <2>1, <2>2, <2>4, <1>t, <1>l, <1>c, <1>d DEF PromotionInv
<1>4. CASE Crash
  <2>1. UNCHANGED <<granted, marks>>
    BY <1>4 DEF Crash
  <2>2. Count({"grant"})' = 0 /\ Count({"grant", "mark"})' = 0
    BY <1>4, <1>t, CrashEmpties
  <2>3. spent'.errors = spent.errors /\ spent'.crashes = spent.crashes + 1
    BY <1>4, <1>t DEF Crash, TypeOK
  <2>4. \A x, y \in Nat : x * (y + 1) = x * y + x
    OBVIOUS
  <2>5. Lost' = Lost + Cardinality(Requests)
    BY <2>3, <2>4, <1>t, LostTyped DEF Lost
  <2> QED BY <2>1, <2>2, <2>5, <1>t, <1>l, <1>c DEF PromotionInv
<1>5. CASE Expire \/ ServeFree \/ Midnight \/ UNCHANGED vars
  <2>1. UNCHANGED <<granted, marks, req, spent>>
    BY <1>5, <1>t, Aside
  <2> QED BY <2>1 DEF PromotionInv, Lost, Count, Among
<1> QED
  BY <1>1, <1>2, <1>3, <1>4, <1>5 DEF Next, PromoStep, VacuumStep, PromotionStep

(***************************************************************************)
(* Promo codes                                                             *)
(***************************************************************************)

\* The number a client read is at least the number of its own rows, because no
\* row of its own was written since, and the highest number covers them all.
UsesInv ==
    \A r \in Requests :
       /\ \E n \in Numbers : Uses(r) <= n
       /\ Uses(r) <= UsageAmount
       /\ At(r, "accepted") \/ At(r, "read") \/ At(r, "record") => Uses(r) < UsageAmount
       /\ At(r, "record") => Uses(r) <= req[r].saw

NumbersInv ==
    /\ NumbersHaveNoGap
    /\ \A r \in Requests : At(r, "record") => req[r].saw \in Numbers

\* Ids are not used again, and an order about to be saved has its row.
RecordsInv ==
    /\ \A u \in usage : u.id <= Cardinality(usage)
    /\ discounts + Count({"save"}) <= Cardinality(usage)

PromoInv == UsesInv /\ NumbersInv /\ RecordsInv

LEMMA UsesTyped == ASSUME Typed, NEW r \in Requests PROVE Uses(r) \in Nat
<1>1. {u \in usage : u.by = r} \in SUBSET usage
  OBVIOUS
<1> QED BY <1>1, FS_Subset, FS_CardinalityType DEF Uses, Typed

LEMMA PromoInit == Init => PromoInv
<1> SUFFICES ASSUME Init PROVE PromoInv
  OBVIOUS
<1>1. usage = {} /\ discounts = 0 /\ Numbers = {0}
  BY DEF Init, Numbers
<1>2. \A r \in Requests : Uses(r) = 0
  <2>1. \A r \in Requests : {u \in usage : u.by = r} = {}
    BY <1>1
  <2> QED BY <2>1, FS_EmptySet DEF Uses
<1>3. Among({"save"}) = {}
  BY DEF Init, Among, Idle
<1>4. Count({"save"}) = 0 /\ Cardinality(usage) = 0
  BY <1>1, <1>3, FS_EmptySet DEF Count
<1>5. \A r \in Requests : req[r].pc = "idle"
  BY DEF Init, Idle
<1>6. UsesInv
  BY <1>1, <1>2, <1>5, LimitsAssumption DEF UsesInv, At
<1> QED BY <1>1, <1>4, <1>5, <1>6
  DEF PromoInv, NumbersInv, NumbersHaveNoGap, RecordsInv, At

\* Requests that move without touching the usage rows, and not towards them.
LEMMA PromoKept ==
    ASSUME Typed, PromoInv, NEW r \in Requests, OnlyMoves(r),
           UNCHANGED <<usage, discounts>>,
           req'[r].pc \notin {"accepted", "read", "record", "save"}
    PROVE  PromoInv'
<1>1. Numbers' = Numbers /\ \A q \in Requests : Uses(q)' = Uses(q)
  BY DEF Numbers, Uses
<1>2. \A q \in Requests \ {r} : req'[q] = req[q]
  BY DEF OnlyMoves
<1>3. UsesInv'
  BY <1>1, <1>2 DEF PromoInv, UsesInv, At
<1>4. NumbersInv'
  BY <1>1, <1>2 DEF PromoInv, NumbersInv, NumbersHaveNoGap, At
<1>5. Count({"save"}) \in Nat /\ Count({"save"})' \in Int /\ Count({"save"})' <= Count({"save"})
  BY MovedCount DEF Typed
<1>6. RecordsInv'
  <2>1. Cardinality(usage)' = Cardinality(usage)
    OBVIOUS
  <2>2. /\ discounts + Count({"save"}) <= Cardinality(usage)
        /\ \A u \in usage : u.id <= Cardinality(usage)
    BY DEF PromoInv, RecordsInv
  <2>3. discounts \in Nat /\ Cardinality(usage) \in Nat
    BY FS_CardinalityType DEF Typed, TypeOK
  <2> QED BY <1>5, <2>1, <2>2, <2>3 DEF RecordsInv
<1> QED BY <1>3, <1>4, <1>6 DEF PromoInv

LEMMA PromoNext == Typed /\ Typed' /\ PromoInv /\ [Next]_vars => PromoInv'
<1> SUFFICES ASSUME Typed, Typed', PromoInv, [Next]_vars PROVE PromoInv'
  OBVIOUS
<1>t. /\ TypeOK /\ discounts \in Nat /\ discounts' \in Nat
      /\ Cardinality(usage) \in Nat /\ Cardinality(usage)' \in Nat
      /\ Count({"save"}) \in Nat /\ UsageAmount \in Nat
      /\ \A q \in Requests : Uses(q) \in Nat
      /\ Numbers \subseteq Nat
  BY FS_CardinalityType, CountBounded, UsesTyped, NumbersTyped, LimitsAssumption
  DEF Typed, TypeOK
\* A step of one request that leaves the rows alone keeps what holds of the others.
<1>k. ASSUME NEW r \in Requests, OnlyMoves(r), usage' = usage
      PROVE  /\ Numbers' = Numbers /\ NumbersHaveNoGap'
             /\ \A q \in Requests : Uses(q)' = Uses(q)
             /\ Cardinality(usage)' = Cardinality(usage)
             /\ \A q \in Requests \ {r} : req'[q] = req[q]
  BY <1>k DEF Numbers, Uses, PromoInv, NumbersInv, NumbersHaveNoGap, OnlyMoves
<1>1. ASSUME NEW r \in Requests, PromoStep(r) PROVE PromoInv'
  <2>m. OnlyMoves(r)
    BY <1>1, <1>t, Moves
  <2>1. CASE Validate(r)
    <3>1. req'[r].pc = "validate" /\ UNCHANGED <<usage, discounts>>
      BY <2>1, <1>t DEF Validate, Goes, TypeOK, Request
    <3> QED BY <3>1, <2>m, PromoKept
  <2>2. CASE ValidateUsage(r)
    <3>1. CASE req'[r].pc # "accepted"
      <4>1. req'[r].pc = "idle" /\ UNCHANGED <<usage, discounts>>
        BY <2>2, <3>1, <1>t DEF ValidateUsage, Goes, Ends, Idle, TypeOK, Request
      <4> QED BY <4>1, <2>m, PromoKept
    <3>2. CASE req'[r].pc = "accepted"
      <4>1. /\ req[r].pc = "validate" /\ UNCHANGED <<usage, discounts>>
            /\ \E n \in Numbers : IsMaxUsage(n) /\ Usable(n)
        BY <2>2, <3>2, <1>t DEF ValidateUsage, At, Ends, Idle, TypeOK, Request
      <4>2. PICK n \in Numbers : IsMaxUsage(n) /\ n < UsageAmount
        BY <4>1 DEF Usable
      <4>3. PICK k \in Numbers : Uses(r) <= k
        BY DEF PromoInv, UsesInv
      <4>4. k <= n
        BY <4>2, <1>t DEF Numbers, IsMaxUsage
      <4>5. Uses(r) < UsageAmount
        BY <4>2, <4>3, <4>4, <1>t
      <4>6. UsesInv' /\ NumbersInv'
        BY <4>1, <4>5, <3>2, <2>m, <1>k DEF PromoInv, UsesInv, NumbersInv, At
      <4>7. Count({"save"})' = Count({"save"})
        BY <4>1, <3>2, <2>m, <1>t, MovedCount
      <4> QED BY <4>1, <4>6, <4>7, <2>m, <1>k DEF PromoInv, RecordsInv
    <3> QED BY <3>1, <3>2
  <2>3. CASE CreateDiscounted(r)
    <3>1. /\ req[r].pc = "accepted" /\ req'[r].pc = "read"
          /\ UNCHANGED <<usage, discounts>>
      BY <2>3, <1>t DEF CreateDiscounted, At, Goes, TypeOK, Request
    <3>2. UsesInv' /\ NumbersInv'
      BY <3>1, <2>m, <1>k DEF PromoInv, UsesInv, NumbersInv, At
    <3>3. Count({"save"})' = Count({"save"})
      BY <3>1, <2>m, <1>t, MovedCount
    <3> QED BY <3>1, <3>2, <3>3, <2>m, <1>k DEF PromoInv, RecordsInv
  <2>4. CASE ReadUsage(r)
    <3>1. PICK n \in Numbers :
             IsMaxUsage(n) /\ req' = [req EXCEPT ![r].pc = "record", ![r].saw = n]
      BY <2>4 DEF ReadUsage
    <3>2. /\ req[r].pc = "read" /\ req'[r].pc = "record" /\ req'[r].saw = n
          /\ UNCHANGED <<usage, discounts>>
      BY <2>4, <3>1, <1>t DEF ReadUsage, At, TypeOK, Request
    <3>3. PICK k \in Numbers : Uses(r) <= k
      BY DEF PromoInv, UsesInv
    <3>4. Uses(r) <= n
      BY <3>1, <3>3, <1>t DEF Numbers, IsMaxUsage
    <3>5. UsesInv' /\ NumbersInv'
      BY <3>2, <3>4, <2>m, <1>k DEF PromoInv, UsesInv, NumbersInv, At
    <3>6. Count({"save"})' = Count({"save"})
      BY <3>2, <2>m, <1>t, MovedCount
    <3> QED BY <3>2, <3>5, <3>6, <2>m, <1>k DEF PromoInv, RecordsInv
  <2>5. CASE RecordUsage(r)
    <3> DEFINE row == [id |-> Cardinality(usage) + 1, by |-> r, number |-> req[r].saw + 1]
    <3>1. /\ req[r].pc = "record" /\ req'[r].pc = "save"
          /\ usage' = usage \cup {row} /\ discounts' = discounts
          /\ req[r].saw \in Nat
      BY <2>5, <1>t DEF RecordUsage, Record, NextNumber, At, Goes, TypeOK, Request
    <3>2. row.id = Cardinality(usage) + 1 /\ row.by = r /\ row.number = req[r].saw + 1
      OBVIOUS
    <3> HIDE DEF row
    <3>3. row \notin usage
      BY <3>2, <1>t DEF PromoInv, RecordsInv
    <3>4. Cardinality(usage)' = Cardinality(usage) + 1
      BY <3>1, <3>3, FS_AddElement DEF Typed
    <3>5. \A q \in Requests \ {r} : Uses(q)' = Uses(q) /\ req'[q] = req[q]
      <4>1. \A q \in Requests \ {r} : {u \in usage' : u.by = q} = {u \in usage : u.by = q}
        BY <3>1, <3>2
      <4> QED BY <4>1, <2>m DEF Uses, OnlyMoves
    <3>6. Uses(r)' = Uses(r) + 1
      <4>1. {u \in usage' : u.by = r} = {u \in usage : u.by = r} \cup {row}
        BY <3>1, <3>2
      <4>2. {u \in usage : u.by = r} \in SUBSET usage
        OBVIOUS
      <4>3. IsFiniteSet({u \in usage : u.by = r})
        BY <4>2, FS_Subset DEF Typed
      <4> QED BY <4>1, <4>3, <3>3, FS_AddElement DEF Uses
    <3>7. Numbers' = Numbers \cup {req[r].saw + 1}
      BY <3>1, <3>2 DEF Numbers
    <3>8. UsesInv'
      <4>1. Uses(r) < UsageAmount /\ Uses(r) <= req[r].saw
        BY <3>1 DEF PromoInv, UsesInv, At
      <4>2. Uses(r)' <= req[r].saw + 1 /\ Uses(r)' <= UsageAmount
        BY <3>1, <3>6, <4>1, <1>t
      <4> QED BY <3>1, <3>5, <3>7, <4>2 DEF PromoInv, UsesInv, At
    <3>9. NumbersInv'
      <4>1. req[r].saw \in Numbers
        BY <3>1 DEF PromoInv, NumbersInv, At
      <4>2. row.number > 1 => \E v \in usage : v.number = row.number - 1
        BY <3>1, <3>2, <4>1 DEF Numbers
      <4>3. NumbersHaveNoGap'
        BY <3>1, <3>2, <4>2 DEF PromoInv, NumbersInv, NumbersHaveNoGap
      <4> QED BY <4>3, <3>1, <3>5, <3>7 DEF PromoInv, NumbersInv, At
    <3>10. RecordsInv'
      <4>1. Count({"save"})' = Count({"save"}) + 1
        BY <3>1, <2>m, <1>t, MovedCount
      <4>2. \A u \in usage : u.id \in Nat
        BY <1>t DEF TypeOK, UsageRow
      <4> QED BY <4>1, <4>2, <3>1, <3>2, <3>4, <1>t DEF PromoInv, RecordsInv
    <3> QED BY <3>8, <3>9, <3>10 DEF PromoInv
  <2>6. CASE SaveDiscounted(r)
    <3>1. /\ req[r].pc = "save" /\ req'[r].pc = "idle"
          /\ usage' = usage /\ discounts' = discounts + 1
      BY <2>6, <1>t DEF SaveDiscounted, At, Ends, Idle, TypeOK, Request
    <3>2. UsesInv' /\ NumbersInv'
      BY <3>1, <2>m, <1>k DEF PromoInv, UsesInv, NumbersInv, At
    <3>3. Count({"save"})' = Count({"save"}) - 1
      BY <3>1, <2>m, <1>t, MovedCount
    <3> QED BY <3>1, <3>2, <3>3, <2>m, <1>k, <1>t DEF PromoInv, RecordsInv
  <2> QED BY <1>1, <2>1, <2>2, <2>3, <2>4, <2>5, <2>6 DEF PromoStep
<1>2. ASSUME NEW r \in Requests, VacuumStep(r) \/ PromotionStep(r) \/ RequestError(r)
      PROVE  PromoInv'
  <2>1. /\ OnlyMoves(r) /\ UNCHANGED <<usage, discounts>>
        /\ req'[r].pc \notin {"accepted", "read", "record", "save"}
    BY <1>2, <1>t, Moves DEF Idle
  <2> QED BY <2>1, PromoKept
<1>3. CASE Crash
  <2>1. /\ UNCHANGED <<usage, discounts>>
        /\ \A q \in Requests : (At(q, "accepted") /\ req'[q] = req[q]) \/ req'[q].pc = "idle"
    BY <1>3, <1>t DEF Crash, Idle
  <2>2. Numbers' = Numbers /\ \A q \in Requests : Uses(q)' = Uses(q)
    BY <2>1 DEF Numbers, Uses
  <2>3. UsesInv' /\ NumbersInv'
    BY <2>1, <2>2 DEF PromoInv, UsesInv, NumbersInv, NumbersHaveNoGap, At
  <2>4. Count({"save"})' = 0
    BY <1>3, <1>t, CrashEmpties
  <2> QED BY <2>1, <2>3, <2>4, <1>t DEF PromoInv, RecordsInv
<1>4. CASE Expire \/ ServeFree \/ Midnight \/ UNCHANGED vars
  <2>1. UNCHANGED <<usage, discounts, req>>
    BY <1>4, <1>t, Aside
  <2>2. UsesInv'
    BY <2>1 DEF PromoInv, UsesInv, Uses, Numbers, At
  <2>3. NumbersInv'
    BY <2>1 DEF PromoInv, NumbersInv, NumbersHaveNoGap, Numbers, At
  <2>4. RecordsInv'
    BY <2>1 DEF PromoInv, RecordsInv, Count, Among
  <2> QED BY <2>2, <2>3, <2>4 DEF PromoInv
<1> QED
  BY <1>1, <1>2, <1>3, <1>4 DEF Next, PromoStep, VacuumStep, PromotionStep

(***************************************************************************)
(* The theorems                                                            *)
(***************************************************************************)

IInv == Typed /\ VacuumInv /\ PromotionInv /\ PromoInv

\* The invariant of the three benefits together.
THEOREM Inductive == Spec => []IInv
<1>1. Init => IInv
  BY TypedInit, VacuumInit, PromotionInit, PromoInit DEF IInv
<1>2. IInv /\ [Next]_vars => IInv'
  BY TypedNext, VacuumNext, PromotionNext, PromoNext DEF IInv
<1> QED BY <1>1, <1>2, PTL DEF Spec

\* The state is always well typed.
THEOREM TypeCorrect == Spec => []TypeOK
<1>1. IInv => TypeOK
  BY DEF IInv, Typed
<1> QED BY <1>1, Inductive, PTL

\* A client that validates before it orders uses a code as often as it may,
\* whatever other clients of the card do in between.
THEOREM CodeUsesBounded == Spec => []UsageBounded
<1>1. IInv => UsageBounded
  BY DEF IInv, PromoInv, UsesInv, Uses, UsageBounded
<1> QED BY <1>1, Inductive, PTL

\* Usage numbers leave nothing out, although they repeat.
THEOREM CodeNumbersHaveNoGap == Spec => []NumbersHaveNoGap
<1>1. IInv => NumbersHaveNoGap
  BY DEF IInv, PromoInv, NumbersInv
<1> QED BY <1>1, Inductive, PTL

\* No order has a discount that the usage table does not show.
THEOREM EveryDiscountRecorded == Spec => []DiscountsAreRecorded
<1>1. IInv => DiscountsAreRecorded
  <2> SUFFICES ASSUME IInv PROVE DiscountsAreRecorded
    OBVIOUS
  <2>1. Count({"save"}) \in Nat
    BY CountBounded DEF IInv, Typed
  <2>2. discounts \in Nat /\ Cardinality(usage) \in Nat
    BY FS_CardinalityType DEF IInv, Typed, TypeOK
  <2> QED BY <2>1, <2>2 DEF IInv, PromoInv, RecordsInv, DiscountsAreRecorded
<1> QED BY <1>1, Inductive, PTL

\* A day has no more free vacuums than the limit and the orders that ran beside
\* the last of them.
THEOREM FreeVacuumsBounded == Spec => []VacuumsBounded
<1>1. IInv => VacuumsBounded
  <2> SUFFICES ASSUME IInv PROVE VacuumsBounded
    OBVIOUS
  <2>1. Count({"saveFree"}) \in Nat
    BY CountBounded DEF IInv, Typed
  <2>2. vacuums.completed \in Nat /\ vacuums.waiting \in Nat
    BY DEF IInv, Typed, TypeOK, Vacuums
  <2> QED BY <2>1, <2>2, LimitsAssumption DEF IInv, VacuumInv, VacuumsBounded
<1> QED BY <1>1, Inductive, PTL

\* A promotion is granted no more often than requests and failures account for.
THEOREM PromotionGrantsBounded == Spec => []GrantsBounded
<1>1. IInv => GrantsBounded
  <2> SUFFICES ASSUME IInv PROVE GrantsBounded
    OBVIOUS
  <2>1. /\ Count({"grant"}) \in Nat /\ Cardinality(Requests) \in Nat
        /\ spent.errors \in Nat /\ spent.crashes \in Nat
    BY CountBounded, LostTyped DEF IInv, Typed
  <2>2. granted \in Nat
    BY DEF IInv, Typed, TypeOK
  <2>3. \A x, y \in Nat : x * (1 + y) = x + x * y /\ x * y \in Nat
    OBVIOUS
  <2> QED BY <2>1, <2>2, <2>3 DEF IInv, PromotionInv, Lost, GrantsBounded
<1> QED BY <1>1, Inductive, PTL

=============================================================================
