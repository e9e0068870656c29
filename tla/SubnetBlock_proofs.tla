-------------------------- MODULE SubnetBlock_proofs --------------------------
(***************************************************************************)
(* Proofs about SubnetBlock: its types, what an address can get past the   *)
(* threshold, and who is ever listed.                                      *)
(***************************************************************************)
EXTENDS SubnetBlock, Integers, TLAPS

(***************************************************************************)
(* Types                                                                   *)
(***************************************************************************)

LEMMA ConstantsTyped ==
    /\ NoList \in Lists
    /\ Idle \in Request
    /\ Idle.pc = "idle"
    /\ NoCounter \in Counter
    /\ Blameless \in Past
<1>1. (CHOOSE s \in Servers : TRUE) \in Servers /\ (CHOOSE a \in Addresses : TRUE) \in Addresses
  BY SetsAssumption
<1>2. NoList \in Lists
  BY DEF NoList, Lists
<1> QED BY <1>1, <1>2 DEF Idle, Request, NoCounter, Counter, Blameless, Past

LEMMA TypeInit == Init => TypeOK
<1> SUFFICES ASSUME Init PROVE TypeOK
  OBVIOUS
<1>1. \A r \in Requests : req[r].pc = "idle"
  BY ConstantsTyped DEF Init
<1>2. object \in Objects
  BY ConstantsTyped DEF Init, Objects
<1>3. /\ config \in [Servers -> Lists] /\ counter \in [Addresses -> Counter]
      /\ req \in [Requests -> Request] /\ past \in [Addresses -> Past]
  BY ConstantsTyped DEF Init
<1> QED BY <1>1, <1>2, <1>3 DEF Init, TypeOK

\* What a request holds at its awaits.
Holds(r) ==
    /\ req[r].pc = "expire" => req[r].n = 1
    /\ req[r].pc = "put" => req[r].address \in req[r].body.subnets

LEMMA UpsetTyped ==
    ASSUME TypeOK, Upset PROVE spent' \in [starts: Nat, upsets: Nat]
  BY DEF TypeOK, Upset

LEMMA BanningTyped ==
    ASSUME NEW list \in Lists, NEW a \in Addresses
    PROVE  Banning(list, a) \in Lists /\ a \in Banning(list, a).subnets
  BY DEF Banning, Lists, Cidrs

\* A list stays one when a load is applied to it.
LEMMA ReplacedTyped ==
    ASSUME NEW list \in Lists
    PROVE  /\ Kept(list) \in Lists
           /\ \A o \in Objects : Replaced(list, o) \in Lists
  BY ConstantsTyped DEF Kept, Replaced, Objects

\* One request ends.
LEMMA EndsTyped ==
    ASSUME TypeOK, NEW r \in Requests, Ends(r)
    PROVE  /\ req' \in [Requests -> Request]
           /\ req'[r] = Idle
           /\ \A q \in Requests \ {r} : req'[q] = req[q]
           /\ \A q \in Requests : Holds(q)'
<1>1. /\ req' \in [Requests -> Request]
      /\ req'[r] = Idle
      /\ \A q \in Requests \ {r} : req'[q] = req[q]
  BY ConstantsTyped DEF TypeOK, Ends
<1>2. \A q \in Requests : Holds(q)'
  BY <1>1, ConstantsTyped DEF Holds, TypeOK
<1> QED BY <1>1, <1>2

\* What comes of a request that is decided: the code of its address, or a ban.
LEMMA DecidedTyped ==
    ASSUME TypeOK, NEW r \in Requests, NEW n \in Nat,
           NEW counted \in [Addresses -> Past], Decided(r, n, counted)
    PROVE  /\ req' \in [Requests -> Request]
           /\ config' \in [Servers -> Lists]
           /\ past' \in [Addresses -> Past]
           /\ \A q \in Requests \ {r} : req'[q] = req[q]
           /\ \A q \in Requests : Holds(q)'
           /\ req'[r].pc \in {"idle", "put"}
<1> DEFINE s == req[r].server
           a == req[r].address
           list == Banning(config[s], a)
<1>1. s \in Servers /\ a \in Addresses /\ config[s] \in Lists /\ req[r] \in Request
  BY DEF TypeOK, Request
<1>2. list \in Lists /\ a \in list.subnets
  BY <1>1, BanningTyped
<1> HIDE DEF list
<1>3. CASE /\ past' = [counted EXCEPT ![a].passed = @ + 1]
           /\ Ends(r)
           /\ UNCHANGED config
  <2>1. past' \in [Addresses -> Past]
    BY <1>1, <1>3 DEF Past
  <2> QED BY <1>3, <2>1, EndsTyped, ConstantsTyped DEF TypeOK
<1>4. CASE /\ past' = counted
           /\ config' = [config EXCEPT ![s] = list]
           /\ \/ s3 /\ req' = [req EXCEPT ![r].pc = "put", ![r].body = list]
              \/ ~s3 /\ Ends(r)
  <2>1. config' \in [Servers -> Lists]
    BY <1>2, <1>4 DEF TypeOK
  <2>2. CASE Ends(r)
    BY <1>4, <2>1, <2>2, EndsTyped, ConstantsTyped
  <2>3. CASE req' = [req EXCEPT ![r].pc = "put", ![r].body = list]
    <3> DEFINE new == [req[r] EXCEPT !.pc = "put", !.body = list]
    <3>1. new \in Request /\ new.pc = "put" /\ new.address = a /\ new.body = list
      BY <1>1, <1>2 DEF Request
    <3>2. req' = [req EXCEPT ![r] = new]
      BY <1>1, <2>3 DEF TypeOK, Request
    <3> HIDE DEF new
    <3>3. /\ req' \in [Requests -> Request] /\ req'[r] = new
          /\ \A q \in Requests \ {r} : req'[q] = req[q]
      BY <3>1, <3>2 DEF TypeOK
    <3>4. \A q \in Requests : Holds(q)'
      BY <1>2, <3>1, <3>3 DEF Holds, TypeOK
    <3> QED BY <1>4, <2>1, <3>1, <3>3, <3>4
  <2> QED BY <1>4, <2>2, <2>3
<1> QED BY <1>3, <1>4 DEF Decided, list

\* A request in the history of its address.
LEMMA CountedTyped ==
    ASSUME TypeOK, NEW a \in Addresses, NEW n \in Nat
    PROVE  /\ Counted(a, n) \in [Addresses -> Past]
           /\ \A x \in Addresses \ {a} : Counted(a, n)[x] = past[x]
           /\ Counted(a, n)[a].passed = past[a].passed
           /\ Counted(a, n)[a].failed = past[a].failed
           /\ Counted(a, n)[a].recent = past[a].recent + 1
           /\ Counted(a, n)[a].windows = IF n = 1 THEN past[a].windows + 1
                                         ELSE past[a].windows
           /\ past[a].reasons \subseteq Counted(a, n)[a].reasons
           /\ past[a].recent + 1 >= Threshold => Counted(a, n)[a].reasons # {}
<1>1. past[a] \in Past /\ past \in [Addresses -> Past]
  BY DEF TypeOK
<1> DEFINE recent == past[a].recent + 1
           asked == IF recent >= Threshold THEN {"asked"} ELSE {}
           new == [past[a] EXCEPT !.recent = recent,
                                  !.windows = IF n = 1 THEN @ + 1 ELSE @,
                                  !.reasons = @ \cup asked]
<1>5. /\ recent \in Nat
      /\ asked \in SUBSET {"operator", "asked", "undated", "resent"}
      /\ recent >= Threshold => asked # {}
  BY <1>1 DEF Past
<1> HIDE DEF recent, asked
<1>2. /\ new \in Past
      /\ new.passed = past[a].passed /\ new.failed = past[a].failed
      /\ new.recent = recent
      /\ new.windows = IF n = 1 THEN past[a].windows + 1 ELSE past[a].windows
      /\ new.reasons = past[a].reasons \cup asked
  <2> DEFINE w == IF n = 1 THEN past[a].windows + 1 ELSE past[a].windows
             why == past[a].reasons \cup asked
  <2>1. /\ past[a].passed \in Nat /\ past[a].failed \in Nat /\ past[a].windows \in Nat
        /\ past[a].reasons \in SUBSET {"operator", "asked", "undated", "resent"}
    BY <1>1 DEF Past
  <2>2. w \in Nat
    BY <2>1
  <2>3. why \in SUBSET {"operator", "asked", "undated", "resent"}
    BY <1>5, <2>1
  <2>4. new = [past[a] EXCEPT !.recent = recent, !.windows = w, !.reasons = why]
    OBVIOUS
  <2> HIDE DEF new, w, why
  <2>5. /\ new \in Past /\ new.passed = past[a].passed /\ new.failed = past[a].failed
        /\ new.recent = recent /\ new.windows = w /\ new.reasons = why
    BY <1>1, <1>5, <2>2, <2>3, <2>4 DEF Past
  <2> QED BY <2>5 DEF w, why
<1>3. Counted(a, n) = [past EXCEPT ![a] = new]
  BY <1>1 DEF Counted, Past, recent, asked
<1> HIDE DEF new
<1>4. Counted(a, n) \in [Addresses -> Past] /\ Counted(a, n)[a] = new
  BY <1>1, <1>2, <1>3
<1>6. recent = past[a].recent + 1
  BY DEF recent
<1> QED BY <1>1, <1>2, <1>3, <1>4, <1>5, <1>6

\* An INCR that counted although its answer was lost: the request, not over, counts
\* again, or it is let through.
LEMMA UnansweredCounts ==
    ASSUME TypeOK, NEW r \in Requests, NEW a \in Addresses, a = req[r].address,
           NEW n, n = counter[a].n + 1, IncrUnanswered(r)
    PROVE  /\ n \in Nat /\ past' \in [Addresses -> Past]
           /\ counter' \in [Addresses -> Counter]
           /\ counter'[a].n = n /\ counter'[a].expires = counter[a].expires
           /\ \A x \in Addresses \ {a} : past'[x] = past[x] /\ counter'[x] = counter[x]
           /\ past[a].reasons \subseteq past'[a].reasons
           /\ n = 1 => "undated" \in past'[a].reasons
           /\ past'[a].windows = IF n = 1 THEN past[a].windows + 1 ELSE past[a].windows
           /\ \/ /\ "resent" \in past'[a].reasons /\ UNCHANGED req
                 /\ past'[a].passed = past[a].passed /\ past'[a].failed = past[a].failed
                 /\ past'[a].recent = past[a].recent
              \/ /\ Ends(r)
                 /\ past'[a].passed = past[a].passed + 1
                 /\ past'[a].failed = past[a].failed + 1
                 /\ past'[a].recent = past[a].recent + 1
                 /\ past[a].recent + 1 >= Threshold => past'[a].reasons # {}
<1>1. n \in Nat /\ past[a] \in Past
  BY DEF TypeOK, Counter
<1>2. /\ counter' \in [Addresses -> Counter]
      /\ counter'[a].n = n /\ counter'[a].expires = counter[a].expires
      /\ \A x \in Addresses \ {a} : counter'[x] = counter[x]
  <2>1. counter' = [counter EXCEPT ![a].n = n]
    BY DEF IncrUnanswered
  <2> QED BY <1>1, <2>1 DEF TypeOK, Counter
<1> DEFINE w == IF n = 1 THEN past[a].windows + 1 ELSE past[a].windows
           undated == IF n = 1 THEN {"undated"} ELSE {}
           again == past[a].reasons \cup undated \cup {"resent"}
           counted == Counted(a, n)
           over == counted[a].reasons \cup undated
<1>3. /\ w \in Nat /\ undated \in SUBSET {"operator", "asked", "undated", "resent"}
      /\ past[a].reasons \in SUBSET {"operator", "asked", "undated", "resent"}
      /\ n = 1 => "undated" \in undated
  BY <1>1 DEF Past
<1>4. CASE /\ UNCHANGED req
           /\ past' = [past EXCEPT ![a].windows = w, ![a].reasons = again]
  <2>1. again \in SUBSET {"operator", "asked", "undated", "resent"}
    BY <1>3
  <2>4. "resent" \in again /\ past[a].reasons \subseteq again /\ undated \subseteq again
    OBVIOUS
  <2> HIDE DEF w, undated, again
  <2>2. past' = [past EXCEPT ![a] = [@ EXCEPT !.windows = w, !.reasons = again]]
    BY <1>1, <1>4 DEF TypeOK
  <2>3. /\ past' \in [Addresses -> Past]
        /\ \A x \in Addresses \ {a} : past'[x] = past[x]
        /\ past'[a].windows = w /\ past'[a].reasons = again
        /\ past'[a].passed = past[a].passed /\ past'[a].failed = past[a].failed
        /\ past'[a].recent = past[a].recent
    BY <1>1, <1>3, <2>1, <2>2 DEF TypeOK, Past
  <2>5. past[a].reasons \subseteq past'[a].reasons /\ "resent" \in past'[a].reasons
        /\ (n = 1 => "undated" \in past'[a].reasons)
    BY <1>3, <2>3, <2>4
  <2> QED BY <1>1, <1>2, <1>4, <2>3, <2>5 DEF w
<1>5. CASE /\ Ends(r)
           /\ past' = [counted EXCEPT ![a].passed = @ + 1, ![a].failed = @ + 1,
                                     ![a].reasons = over]
  <2>1. /\ counted \in [Addresses -> Past]
        /\ \A x \in Addresses \ {a} : counted[x] = past[x]
        /\ counted[a].passed = past[a].passed /\ counted[a].failed = past[a].failed
        /\ counted[a].recent = past[a].recent + 1 /\ counted[a].windows = w
        /\ past[a].reasons \subseteq counted[a].reasons
        /\ past[a].recent + 1 >= Threshold => counted[a].reasons # {}
    BY <1>1, CountedTyped
  <2>2. over \in SUBSET {"operator", "asked", "undated", "resent"}
    BY <1>3, <2>1 DEF Past
  <2>4. past[a].reasons \subseteq over /\ undated \subseteq over /\ counted[a].reasons \subseteq over
    BY <2>1
  <2> HIDE DEF w, undated, over, counted
  <2>6. counted[a] \in Past
    BY <2>1
  <2> DEFINE new == [counted[a] EXCEPT !.passed = counted[a].passed + 1,
                               !.failed = counted[a].failed + 1, !.reasons = over]
  <2>3. past' = [counted EXCEPT ![a] = new]
    BY <1>5, <2>1, <2>6 DEF Past
  <2>8. /\ new \in Past /\ new.passed = counted[a].passed + 1
        /\ new.failed = counted[a].failed + 1 /\ new.reasons = over
        /\ new.windows = counted[a].windows /\ new.recent = counted[a].recent
    <3>1. PICK i \in Nat, k \in Nat : /\ i = counted[a].passed + 1
                                       /\ k = counted[a].failed + 1
      BY <2>6 DEF Past
    <3>2. new = [counted[a] EXCEPT !.passed = i, !.failed = k, !.reasons = over]
      BY <3>1
    <3> HIDE DEF new
    <3>3. /\ new \in Past /\ new.passed = i /\ new.failed = k /\ new.reasons = over
          /\ new.windows = counted[a].windows /\ new.recent = counted[a].recent
      BY <2>2, <2>6, <3>2 DEF Past
    <3> QED BY <3>1, <3>3
  <2> HIDE DEF new
  <2>5. /\ past' \in [Addresses -> Past]
        /\ \A x \in Addresses \ {a} : past'[x] = counted[x]
        /\ past'[a].windows = counted[a].windows /\ past'[a].reasons = over
        /\ past'[a].passed = counted[a].passed + 1
        /\ past'[a].failed = counted[a].failed + 1
        /\ past'[a].recent = counted[a].recent
    BY <2>1, <2>3, <2>8
  <2>7. /\ past[a].reasons \subseteq past'[a].reasons
        /\ n = 1 => "undated" \in past'[a].reasons
        /\ past[a].recent + 1 >= Threshold => past'[a].reasons # {}
    BY <1>3, <2>1, <2>4, <2>5
  <2> QED BY <1>1, <1>2, <1>5, <2>1, <2>5, <2>7 DEF w
<1> QED BY <1>4, <1>5 DEF IncrUnanswered

\* An EXPIRE that dated its counter although its answer was lost.
LEMMA DatedCounts ==
    ASSUME TypeOK, NEW r \in Requests, NEW a \in Addresses, a = req[r].address,
           ExpireUnanswered(r)
    PROVE  /\ past' \in [Addresses -> Past] /\ counter' \in [Addresses -> Counter]
           /\ counter'[a].n = counter[a].n /\ counter'[a].expires
           /\ \A x \in Addresses \ {a} : past'[x] = past[x] /\ counter'[x] = counter[x]
           /\ past'[a].passed = past[a].passed + 1
           /\ past'[a].failed = past[a].failed + 1
           /\ past'[a].windows = past[a].windows /\ past'[a].recent = past[a].recent
           /\ past'[a].reasons = past[a].reasons
<1>1. /\ counter' = [counter EXCEPT ![a] = [@ EXCEPT !.expires = TRUE]]
      /\ past' = [past EXCEPT ![a].passed = @ + 1, ![a].failed = @ + 1]
  BY DEF ExpireUnanswered, Dated
<1>2. past[a] \in Past /\ counter[a] \in Counter
  BY DEF TypeOK
<1>3. /\ counter' \in [Addresses -> Counter]
      /\ counter'[a].n = counter[a].n /\ counter'[a].expires
      /\ \A x \in Addresses \ {a} : counter'[x] = counter[x]
  BY <1>1, <1>2 DEF TypeOK, Counter
<1> DEFINE new == [past[a] EXCEPT !.passed = past[a].passed + 1,
                                  !.failed = past[a].failed + 1]
<1>4. past' = [past EXCEPT ![a] = new] /\ past \in [Addresses -> Past]
  BY <1>1, <1>2 DEF TypeOK, Past
<1>5. /\ new \in Past /\ new.passed = past[a].passed + 1
      /\ new.failed = past[a].failed + 1 /\ new.reasons = past[a].reasons
      /\ new.windows = past[a].windows /\ new.recent = past[a].recent
  <2>1. PICK i \in Nat, k \in Nat : i = past[a].passed + 1 /\ k = past[a].failed + 1
    BY <1>2 DEF Past
  <2>2. new = [past[a] EXCEPT !.passed = i, !.failed = k]
    BY <2>1
  <2> HIDE DEF new
  <2>3. /\ new \in Past /\ new.passed = i /\ new.failed = k
        /\ new.reasons = past[a].reasons
        /\ new.windows = past[a].windows /\ new.recent = past[a].recent
    BY <1>2, <2>2 DEF Past
  <2> QED BY <2>1, <2>3
<1> HIDE DEF new
<1> QED BY <1>3, <1>4, <1>5

LEMMA RequestTyped ==
    ASSUME TypeOK, NEW r \in Requests, RequestStep(r)
    PROVE  TypeOK'
<1>r. req[r] \in Request /\ req[r].address \in Addresses /\ req[r].n \in Nat
  BY DEF TypeOK, Request
<1>h. ASSUME /\ s3' \in BOOLEAN /\ object' \in Objects /\ config' \in [Servers -> Lists]
             /\ loads' \in [Servers -> SUBSET Objects]
             /\ counter' \in [Addresses -> Counter]
             /\ req' \in [Requests -> Request] /\ past' \in [Addresses -> Past]
             /\ spent' \in [starts: Nat, upsets: Nat]
             /\ \A q \in Requests : Holds(q)'
      PROVE  TypeOK'
  BY <1>h DEF TypeOK, Holds
<1>1. ASSUME NEW s \in Servers, NEW a \in Addresses, Arrive(r, s, a) PROVE TypeOK'
  <2> DEFINE new == [Idle EXCEPT !.pc = "incr", !.server = s, !.address = a]
  <2>1. new \in Request /\ new.pc = "incr"
    BY ConstantsTyped DEF Request
  <2> HIDE DEF new
  <2>2. req' = [req EXCEPT ![r] = new]
    BY <1>1 DEF Arrive, new
  <2>3. req' \in [Requests -> Request]
    BY <2>1, <2>2 DEF TypeOK
  <2>4. \A q \in Requests : Holds(q)'
    BY <2>1, <2>2 DEF TypeOK, Holds
  <2>5. spent' \in [starts: Nat, upsets: Nat]
    BY <1>1 DEF Arrive, TypeOK
  <2> QED BY <1>1, <1>h, <2>3, <2>4, <2>5 DEF Arrive, TypeOK
<1>2. CASE Incr(r)
  <2> DEFINE a == req[r].address
             n == counter[a].n + 1
  <2>1. n \in Nat
    BY <1>r DEF TypeOK, Counter
  <2>2. counter' \in [Addresses -> Counter]
    BY <1>2, <1>r DEF Incr, TypeOK, Counter
  <2>3. Counted(a, n) \in [Addresses -> Past]
    BY <1>r, <2>1, CountedTyped
  <2>4. UNCHANGED <<s3, object, loads, spent>>
    BY <1>2 DEF Incr
  <2> HIDE DEF n
  <2>5. CASE /\ Dates(n)
             /\ req' = [req EXCEPT ![r].pc = "expire", ![r].n = n]
             /\ past' = Counted(a, n)
             /\ UNCHANGED config
    <3> DEFINE new == [req[r] EXCEPT !.pc = "expire", !.n = n]
    <3>1. new \in Request /\ new.pc = "expire" /\ new.n = 1
      BY <1>r, <2>1, <2>5 DEF Request, Dates
    <3>2. req' = [req EXCEPT ![r] = new]
      BY <1>r, <2>5 DEF TypeOK, Request
    <3> HIDE DEF new
    <3>3. req' \in [Requests -> Request] /\ \A q \in Requests : Holds(q)'
      BY <3>1, <3>2 DEF TypeOK, Holds
    <3> QED BY <1>h, <2>2, <2>3, <2>4, <2>5, <3>3 DEF TypeOK
  <2>6. CASE Decided(r, n, Counted(a, n))
    BY <1>h, <2>1, <2>2, <2>3, <2>4, <2>6, DecidedTyped DEF TypeOK
  <2> QED BY <1>2, <2>5, <2>6 DEF Incr, n
<1>3. CASE Expire(r)
  <2>1. counter' \in [Addresses -> Counter]
    BY <1>3, <1>r DEF Expire, Dated, TypeOK, Counter
  <2>2. Decided(r, req[r].n, past) /\ UNCHANGED <<s3, object, loads, spent>>
    BY <1>3 DEF Expire
  <2>3. past \in [Addresses -> Past]
    BY DEF TypeOK
  <2> QED BY <1>h, <1>r, <2>1, <2>2, <2>3, DecidedTyped DEF TypeOK
<1>4. CASE Put(r)
  <2>1. object' \in Objects
    BY <1>4, <1>r DEF Put, Objects, Request
  <2> QED BY <1>4, <1>h, <2>1, EndsTyped DEF Put, TypeOK
<1>5. CASE CallFails(r)
  <2>1. object' \in Objects
    <3>1. [there |-> TRUE, list |-> req[r].body] \in Objects
      BY <1>r DEF Objects, Request
    <3>2. object' = object \/ object' = [there |-> TRUE, list |-> req[r].body]
      BY <1>5 DEF CallFails
    <3> QED BY <3>1, <3>2 DEF TypeOK
  <2>2. PICK undated \in SUBSET {"undated"} :
           past' = [past EXCEPT ![req[r].address].passed = @ + 1,
                                ![req[r].address].failed = @ + 1,
                                ![req[r].address].reasons = @ \cup undated]
    BY <1>5 DEF CallFails
  <2>3. past' \in [Addresses -> Past]
    BY <1>r, <2>2 DEF TypeOK, Past
  <2> QED BY <1>5, <1>h, <2>1, <2>3, EndsTyped, UpsetTyped DEF CallFails, TypeOK
<1>6. CASE IncrUnanswered(r)
  <2>1. /\ past' \in [Addresses -> Past] /\ counter' \in [Addresses -> Counter]
        /\ UNCHANGED req \/ Ends(r)
    BY <1>6, <1>r, UnansweredCounts
  <2>2. req' \in [Requests -> Request] /\ \A q \in Requests : Holds(q)'
    <3>1. CASE UNCHANGED req
      BY <3>1 DEF TypeOK, Holds
    <3> QED BY <2>1, <3>1, EndsTyped
  <2> QED BY <1>6, <1>h, <2>1, <2>2, UpsetTyped DEF IncrUnanswered, TypeOK
<1>7. CASE ExpireUnanswered(r)
  BY <1>7, <1>h, <1>r, DatedCounts, EndsTyped, UpsetTyped DEF ExpireUnanswered, TypeOK
<1> QED BY <1>1, <1>2, <1>3, <1>4, <1>5, <1>6, <1>7 DEF RequestStep

LEMMA TypeNext == TypeOK /\ [Next]_vars => TypeOK'
<1> SUFFICES ASSUME TypeOK, [Next]_vars PROVE TypeOK'
  OBVIOUS
<1>1. ASSUME NEW s \in Servers, StartLoad(s) PROVE TypeOK'
  BY <1>1 DEF StartLoad, TypeOK
<1>2. ASSUME NEW s \in Servers, ApplyLoad(s) PROVE TypeOK'
  <2>1. PICK o \in loads[s] : /\ loads' = [loads EXCEPT ![s] = @ \ {o}]
                              /\ config' = [config EXCEPT ![s] = Replaced(@, o)]
    BY <1>2 DEF ApplyLoad
  <2>2. o \in Objects /\ config[s] \in Lists
    BY <2>1 DEF TypeOK
  <2>3. Replaced(config[s], o) \in Lists
    BY <2>2, ReplacedTyped
  <2> QED BY <1>2, <2>1, <2>3 DEF ApplyLoad, TypeOK
<1>3. ASSUME NEW s \in Servers, LoadFails(s) PROVE TypeOK'
  <2>1. Kept(config[s]) \in Lists
    BY ReplacedTyped DEF TypeOK
  <2> QED BY <1>3, <2>1, UpsetTyped DEF LoadFails, TypeOK
<1>4. ASSUME NEW s \in Servers, Restart(s) PROVE TypeOK'
  <2>1. NoList \in Lists /\ Replaced(NoList, object) \in Lists
    BY ConstantsTyped, ReplacedTyped DEF TypeOK
  <2>2. config' \in [Servers -> Lists]
    BY <1>4, <2>1 DEF Restart, TypeOK
  <2>3. /\ req' \in [Requests -> Request]
        /\ \A q \in Requests : req'[q] \in {Idle, req[q]}
    BY <1>4, ConstantsTyped DEF Restart, TypeOK
  <2>4. \A q \in Requests : Holds(q)'
    BY <2>3, ConstantsTyped DEF TypeOK, Holds
  <2>5. past' \in [Addresses -> Past]
    BY <1>4 DEF Restart, TypeOK, Past
  <2> QED BY <1>4, <2>2, <2>3, <2>4, <2>5, UpsetTyped DEF Restart, TypeOK, Holds
<1>5. ASSUME NEW list \in OperatorLists, Edit(list) PROVE TypeOK'
  <2>1. object' \in Objects
    BY <1>5, ListsAssumption DEF Edit, Objects
  <2>2. past' \in [Addresses -> Past]
    BY <1>5 DEF Edit, TypeOK, Past
  <2> QED BY <1>5, <2>1, <2>2, UpsetTyped DEF Edit, TypeOK
<1>6. ASSUME NEW a \in Addresses, Lapse(a) PROVE TypeOK'
  <2>1. counter' \in [Addresses -> Counter]
    BY <1>6, ConstantsTyped DEF Lapse, TypeOK
  <2>2. past' \in [Addresses -> Past]
    BY <1>6 DEF Lapse, TypeOK, Past
  <2> QED BY <1>6, <2>1, <2>2 DEF Lapse, TypeOK
<1>7. CASE UNCHANGED vars
  BY <1>7 DEF vars, TypeOK
<1> QED
  BY <1>1, <1>2, <1>3, <1>4, <1>5, <1>6, <1>7, RequestTyped DEF Next, ServerStep

(***************************************************************************)
(* Every variable keeps its type, and a request that writes the list       *)
(* writes its own address with it.                                         *)
(***************************************************************************)
THEOREM TypeCorrect == Spec => []TypeOK
  BY TypeInit, TypeNext, PTL DEF Spec

(***************************************************************************)
(* Counters and lists                                                      *)
(***************************************************************************)

\* The EXPIRE of a counter of a is under way.
Expiring(a) == \E r \in Requests : At(r, "expire") /\ req[r].address = a

\* Only one at a time, and its counter has begun.
ExpiringOnce ==
    \A r \in Requests : At(r, "expire") =>
        /\ counter[req[r].address].n >= 1
        /\ \A q \in Requests :
              At(q, "expire") /\ req[q].address = req[r].address => q = r

\* Requests that may still pass in the life of a counter: those to come, and the
\* one that waits for EXPIRE.
Left(a) ==
    IF counter[a].n = 0 \/ counter[a].n >= Threshold THEN 0
    ELSE Threshold - 1 - counter[a].n
Due(a) == IF Expiring(a) /\ Threshold > 1 THEN 1 ELSE 0

Quota(a) ==
    past[a].passed + Left(a) + Due(a)
        <= (Threshold - 1) * past[a].windows + past[a].failed

\* A counter holds recent requests only, each once, unless its EXPIRE was lost or an
\* INCR sent again; once it is at the threshold there is a reason to list its address.
Recent(a) ==
    /\ counter[a].n = 0 \/ counter[a].expires \/ Expiring(a) \/ "undated" \in past[a].reasons
    /\ \/ counter[a].n <= past[a].recent
       \/ {"undated", "resent"} \cap past[a].reasons # {}
    /\ counter[a].n >= Threshold => past[a].reasons # {}

\* Who is in a list is there for a reason.
Fair(list) == \A a \in Addresses : a \in list.subnets => past[a].reasons # {}

ListsAreFair ==
    /\ \A s \in Servers : Fair(config[s]) /\ \A o \in loads[s] : Fair(o.list)
    /\ Fair(object.list)
    /\ \A r \in Requests : At(r, "put") => Fair(req[r].body)

BanInv ==
    /\ TypeOK /\ ExpiringOnce
    /\ \A a \in Addresses : Quota(a) /\ Recent(a)
    /\ ListsAreFair

LEMMA BanInit == Init => BanInv
<1> SUFFICES ASSUME Init PROVE BanInv
  OBVIOUS
<1>1. \A r \in Requests : req[r].pc = "idle"
  BY ConstantsTyped DEF Init
<1>2. ASSUME NEW a \in Addresses
      PROVE  /\ counter[a].n = 0 /\ past[a].passed = 0 /\ past[a].windows = 0
             /\ past[a].failed = 0 /\ past[a].recent = 0 /\ ~Expiring(a)
  BY <1>1 DEF Init, NoCounter, Blameless, Expiring, At
<1>3. ASSUME NEW a \in Addresses PROVE Quota(a) /\ Recent(a)
  BY <1>2, ThresholdAssumption DEF Quota, Left, Due, Recent
<1>4. NoList.subnets = {} /\ object.list = NoList
  BY DEF NoList, Init
<1> QED
  BY <1>1, <1>3, <1>4, TypeInit
  DEF Init, BanInv, ExpiringOnce, ListsAreFair, Fair, At

\* The counters of a are as they were.
LEMMA QuotaFrame ==
    ASSUME TypeOK, NEW a \in Addresses, Quota(a), TypeOK',
           Expiring(a)' => Expiring(a),
           counter'[a].n = 0 \/ counter'[a].n = counter[a].n,
           past'[a].passed = past[a].passed, past'[a].windows = past[a].windows,
           past'[a].failed = past[a].failed
    PROVE  Quota(a)'
<1>1. /\ past[a].passed \in Nat /\ past[a].windows \in Nat /\ past[a].failed \in Nat
      /\ counter[a].n \in Nat /\ Threshold \in Nat
  BY ThresholdAssumption DEF TypeOK, Past, Counter
<1>2. /\ Left(a) \in Nat /\ Left(a)' \in Nat /\ Left(a)' <= Left(a)
  BY <1>1 DEF Left
<1>3. Due(a) \in Nat /\ Due(a)' \in Nat /\ Due(a)' <= Due(a)
  <2>1. CASE Expiring(a)
    BY <1>1, <2>1 DEF Due
  <2>2. CASE ~Expiring(a)
    BY <1>1, <2>2 DEF Due
  <2> QED BY <2>1, <2>2
<1>4. (Threshold - 1) * past[a].windows \in Int
  BY <1>1
<1> QED BY <1>1, <1>2, <1>3, <1>4 DEF Quota

LEMMA RecentFrame ==
    ASSUME NEW a \in Addresses, Recent(a), counter'[a] = counter[a],
           past'[a].recent = past[a].recent, past[a].reasons \subseteq past'[a].reasons,
           Expiring(a) => Expiring(a)' \/ "undated" \in past'[a].reasons
    PROVE  Recent(a)'
  BY DEF Recent

\* Only the EXPIRE of r begins or ends.
LEMMA ExpiringFrame ==
    ASSUME NEW r \in Requests, \A q \in Requests \ {r} : req'[q] = req[q]
    PROVE  /\ \A a \in Addresses : (~At(r, "expire") \/ req[r].address # a)
                                    => (Expiring(a) => Expiring(a)')
           /\ \A a \in Addresses : (~At(r, "expire")' \/ req'[r].address # a)
                                    => (Expiring(a)' => Expiring(a))
<1>1. ASSUME NEW a \in Addresses, Expiring(a), ~At(r, "expire") \/ req[r].address # a
      PROVE  Expiring(a)'
  <2>1. PICK q \in Requests : At(q, "expire") /\ req[q].address = a
    BY <1>1 DEF Expiring
  <2> QED BY <1>1, <2>1 DEF Expiring, At
<1>2. ASSUME NEW a \in Addresses, Expiring(a)', ~At(r, "expire")' \/ req'[r].address # a
      PROVE  Expiring(a)
  <2>1. PICK q \in Requests : req'[q].pc = "expire" /\ req'[q].address = a
    BY <1>2 DEF Expiring, At
  <2>2. q # r
    BY <1>2, <2>1 DEF At
  <2> QED BY <2>1, <2>2 DEF Expiring, At
<1> QED BY <1>1, <1>2

\* What becomes of the address of a request that is decided.
LEMMA DecidedCounts ==
    ASSUME TypeOK, NEW r \in Requests, NEW n \in Nat,
           NEW counted \in [Addresses -> Past], Decided(r, n, counted)
    PROVE  /\ \A a \in Addresses \ {req[r].address} : past'[a] = counted[a]
           /\ \A a \in Addresses :
                /\ past'[a].windows = counted[a].windows
                /\ past'[a].failed = counted[a].failed
                /\ past'[a].recent = counted[a].recent
                /\ past'[a].reasons = counted[a].reasons
           /\ past'[req[r].address].passed =
                 counted[req[r].address].passed + (IF n < Threshold THEN 1 ELSE 0)
           /\ \/ UNCHANGED config /\ req'[r].pc = "idle"
              \/ /\ n >= Threshold
                 /\ config' = [config EXCEPT ![req[r].server] = Banning(@, req[r].address)]
                 /\ \/ req'[r].pc = "idle"
                    \/ req'[r].body = Banning(config[req[r].server], req[r].address)
<1> DEFINE s == req[r].server
           a == req[r].address
           list == Banning(config[s], a)
<1>1. /\ s \in Servers /\ a \in Addresses /\ req[r] \in Request
      /\ counted[a] \in Past /\ Threshold \in Nat
  BY ThresholdAssumption DEF TypeOK, Request
<1>2. CASE /\ Below(n) /\ past' = [counted EXCEPT ![a].passed = @ + 1]
           /\ Ends(r) /\ UNCHANGED config
  <2>1. req'[r].pc = "idle"
    BY <1>2, EndsTyped, ConstantsTyped
  <2>2. n < Threshold
    BY <1>2 DEF Below
  <2>3. /\ \A x \in Addresses \ {a} : past'[x] = counted[x]
        /\ past'[a] = [counted[a] EXCEPT !.passed = @ + 1]
    BY <1>1, <1>2 DEF Past
  <2>4. /\ past'[a].passed = counted[a].passed + 1
        /\ past'[a].windows = counted[a].windows /\ past'[a].failed = counted[a].failed
        /\ past'[a].recent = counted[a].recent /\ past'[a].reasons = counted[a].reasons
    BY <1>1, <2>3 DEF Past
  <2> QED BY <1>2, <2>1, <2>2, <2>3, <2>4
<1>3. CASE /\ ~Below(n) /\ past' = counted
           /\ config' = [config EXCEPT ![s] = list]
           /\ \/ s3 /\ req' = [req EXCEPT ![r].pc = "put", ![r].body = list]
              \/ ~s3 /\ Ends(r)
  <2>1. n >= Threshold /\ ~(n < Threshold)
    BY <1>1, <1>3 DEF Below
  <2>2. counted[a].passed = counted[a].passed + 0
    BY <1>1 DEF Past
  <2>3. \/ req'[r].pc = "idle" \/ req'[r].body = list
    BY <1>1, <1>3, EndsTyped, ConstantsTyped DEF TypeOK, Request
  <2> QED BY <1>3, <2>1, <2>2, <2>3
<1> QED BY <1>2, <1>3 DEF Decided

\* Reasons stay.
LEMMA ReasonsGrow ==
    ASSUME TypeOK, [Next]_vars
    PROVE  \A a \in Addresses : past[a].reasons \subseteq past'[a].reasons
<1>1. ASSUME NEW r \in Requests, RequestStep(r)
      PROVE  \A a \in Addresses : past[a].reasons \subseteq past'[a].reasons
  <2>r. req[r].address \in Addresses /\ req[r].n \in Nat
    BY DEF TypeOK, Request
  <2>1. CASE Incr(r)
    <3> DEFINE n == counter[req[r].address].n + 1
               counted == Counted(req[r].address, n)
    <3>1. n \in Nat
      BY <2>r DEF TypeOK, Counter
    <3>2. /\ counted \in [Addresses -> Past]
          /\ \A a \in Addresses : past[a].reasons \subseteq counted[a].reasons
      <4> HIDE DEF n
      <4> QED BY <2>r, <3>1, CountedTyped
    <3>3. past' = counted \/ Decided(r, n, counted)
      BY <2>1 DEF Incr
    <3> HIDE DEF n, counted
    <3> QED BY <3>1, <3>2, <3>3, DecidedCounts
  <2>2. CASE Expire(r)
    <3>1. Decided(r, req[r].n, past) /\ past \in [Addresses -> Past]
      BY <2>2 DEF Expire, TypeOK
    <3> QED BY <2>r, <3>1, DecidedCounts
  <2>3. CASE CallFails(r)
    BY <2>3, <2>r DEF CallFails, TypeOK, Past
  <2>5. CASE IncrUnanswered(r) \/ ExpireUnanswered(r)
    BY <2>5, <2>r, UnansweredCounts, DatedCounts
  <2>4. CASE Put(r) \/ \E s \in Servers, a \in Addresses : Arrive(r, s, a)
    BY <2>4 DEF Put, Arrive
  <2> QED BY <1>1, <2>1, <2>2, <2>3, <2>4, <2>5 DEF RequestStep
<1>2. ASSUME NEW s \in Servers, Restart(s)
      PROVE  \A a \in Addresses : past[a].reasons \subseteq past'[a].reasons
  BY <1>2 DEF Restart, TypeOK, Past
<1>3. ASSUME NEW list \in OperatorLists, Edit(list)
      PROVE  \A a \in Addresses : past[a].reasons \subseteq past'[a].reasons
  BY <1>3 DEF Edit, TypeOK, Past
<1>4. ASSUME NEW b \in Addresses, Lapse(b)
      PROVE  \A a \in Addresses : past[a].reasons \subseteq past'[a].reasons
  BY <1>4 DEF Lapse, TypeOK, Past
<1> QED
  BY <1>1, <1>2, <1>3, <1>4
  DEF Next, ServerStep, StartLoad, ApplyLoad, LoadFails, vars

\* An EXPIRE is the only one of its counter, which has begun.
LEMMA ExpiringNext == BanInv /\ [Next]_vars => ExpiringOnce'
<1> SUFFICES ASSUME BanInv, [Next]_vars PROVE ExpiringOnce'
  OBVIOUS
<1>t. TypeOK /\ TypeOK' /\ \A x \in Requests : req[x].address \in Addresses
  BY TypeNext DEF BanInv, TypeOK, Request
<1>k. ASSUME NEW r \in Requests, \A x \in Requests \ {r} : req'[x] = req[x],
             req'[r].pc # "expire",
             \A a \in Addresses : counter[a].n >= 1 => counter'[a].n >= 1
      PROVE  ExpiringOnce'
  BY <1>t, <1>k DEF BanInv, ExpiringOnce, At
<1>1. ASSUME NEW r \in Requests, RequestStep(r) PROVE ExpiringOnce'
  <2> DEFINE a == req[r].address
  <2>a. a \in Addresses /\ counter[a].n \in Nat /\ req[r] \in Request
    BY <1>t DEF TypeOK, Counter
  <2>1. ASSUME NEW s \in Servers, NEW b \in Addresses, Arrive(r, s, b)
        PROVE  ExpiringOnce'
    <3>1. req'[r].pc = "incr"
      BY <1>t, <2>1, ConstantsTyped DEF Arrive, TypeOK, Request
    <3>2. \A x \in Requests \ {r} : req'[x] = req[x]
      BY <1>t, <2>1 DEF Arrive, TypeOK
    <3> QED BY <1>k, <2>1, <3>1, <3>2 DEF Arrive
  <2>2. CASE Incr(r)
    <3> DEFINE n == counter[a].n + 1
    <3>1. /\ counter' = [counter EXCEPT ![a].n = n] /\ n \in Nat
      BY <2>2, <2>a DEF Incr
    <3>2. \A b \in Addresses : counter'[b].n = IF b = a THEN n ELSE counter[b].n
      BY <1>t, <2>a, <3>1 DEF TypeOK, Counter
    <3>3. CASE Dates(n) /\ req' = [req EXCEPT ![r].pc = "expire", ![r].n = n]
      <4>1. /\ req'[r].pc = "expire" /\ req'[r].address = a
            /\ \A x \in Requests \ {r} : req'[x] = req[x]
        BY <1>t, <2>a, <3>3 DEF TypeOK, Request
      <4>2. counter[a].n = 0
        BY <2>a, <3>3 DEF Dates
      <4>3. \A x \in Requests : ~(At(x, "expire") /\ req[x].address = a)
        BY <4>2 DEF BanInv, ExpiringOnce
      <4> HIDE DEF n
      <4>4. \A x \in Requests : At(x, "expire")' => counter'[req'[x].address].n >= 1
        <5>1. n >= 1
          BY <2>a DEF n
        <5> QED BY <1>t, <2>a, <3>2, <4>1, <5>1 DEF BanInv, ExpiringOnce, At
      <4>5. \A x, q \in Requests :
               At(x, "expire")' /\ At(q, "expire")' /\ req'[q].address = req'[x].address
                 => q = x
        BY <4>1, <4>3 DEF BanInv, ExpiringOnce, At
      <4> QED BY <4>4, <4>5 DEF ExpiringOnce
    <3>4. CASE Decided(r, n, Counted(a, n))
      <4> HIDE DEF n
      <4>1. Counted(a, n) \in [Addresses -> Past]
        BY <1>t, <2>a, <3>1, CountedTyped
      <4>2. /\ \A x \in Requests \ {r} : req'[x] = req[x]
            /\ req'[r].pc # "expire"
        BY <1>t, <3>1, <3>4, <4>1, DecidedTyped
      <4>3. \A b \in Addresses : counter[b].n >= 1 => counter'[b].n >= 1
        BY <2>a, <3>2 DEF n
      <4> QED BY <1>k, <4>2, <4>3
    <3> QED BY <2>2, <3>3, <3>4 DEF Incr
  <2>3. CASE Expire(r)
    <3>1. Decided(r, req[r].n, past) /\ past \in [Addresses -> Past] /\ req[r].n \in Nat
      BY <1>t, <2>3, <2>a DEF Expire, TypeOK, Request
    <3>2. /\ \A x \in Requests \ {r} : req'[x] = req[x]
          /\ req'[r].pc # "expire"
      BY <1>t, <3>1, DecidedTyped
    <3>3. \A b \in Addresses : counter'[b].n = counter[b].n
      BY <1>t, <2>3, <2>a DEF Expire, Dated, TypeOK, Counter
    <3> QED BY <1>k, <3>2, <3>3
  <2>4. CASE Put(r) \/ CallFails(r)
    <3>1. Ends(r) /\ UNCHANGED counter
      BY <2>4 DEF Put, CallFails
    <3> QED BY <1>k, <1>t, <3>1, EndsTyped, ConstantsTyped
  <2>5. CASE IncrUnanswered(r) \/ ExpireUnanswered(r)
    <3>1. \A b \in Addresses : counter[b].n >= 1 => counter'[b].n >= 1
      BY <1>t, <2>5, <2>a, UnansweredCounts, DatedCounts DEF TypeOK, Counter
    <3>2. UNCHANGED req \/ Ends(r)
      BY <2>5 DEF IncrUnanswered, ExpireUnanswered
    <3>3. CASE UNCHANGED req
      BY <1>t, <3>1, <3>3 DEF BanInv, ExpiringOnce, At
    <3> QED BY <1>k, <1>t, <3>1, <3>2, <3>3, EndsTyped, ConstantsTyped
  <2> QED BY <1>1, <2>1, <2>2, <2>3, <2>4, <2>5 DEF RequestStep
<1>2. ASSUME NEW s \in Servers, Restart(s) PROVE ExpiringOnce'
  <2>1. \A x \in Requests : req'[x] = req[x] \/ req'[x].pc = "idle"
    BY <1>2, ConstantsTyped DEF Restart
  <2>2. UNCHANGED counter
    BY <1>2 DEF Restart
  <2> QED BY <2>1, <2>2 DEF BanInv, ExpiringOnce, At
<1>3. ASSUME NEW a \in Addresses, Lapse(a) PROVE ExpiringOnce'
  <2>1. UNCHANGED req /\ \A x \in Requests : At(x, "expire") => req[x].address # a
    BY <1>3 DEF Lapse
  <2>2. \A b \in Addresses \ {a} : counter'[b] = counter[b]
    BY <1>3, <1>t DEF Lapse, TypeOK
  <2> QED BY <1>t, <2>1, <2>2 DEF BanInv, ExpiringOnce, At
<1>4. CASE UNCHANGED <<req, counter>>
  BY <1>4 DEF BanInv, ExpiringOnce, At
<1> QED
  BY <1>1, <1>2, <1>3, <1>4 DEF Next, ServerStep, StartLoad, ApplyLoad, LoadFails, Edit, vars

LEMMA CountersNext ==
    BanInv /\ [Next]_vars => \A a \in Addresses : Quota(a)' /\ Recent(a)'
<1> SUFFICES ASSUME BanInv, [Next]_vars, NEW a \in Addresses PROVE Quota(a)' /\ Recent(a)'
  OBVIOUS
<1>t. TypeOK /\ TypeOK' /\ Quota(a) /\ Recent(a)
  BY TypeNext DEF BanInv
<1>g. past[a].reasons \subseteq past'[a].reasons
  BY <1>t, ReasonsGrow
<1>n. /\ past[a] \in Past /\ counter[a].n \in Nat /\ Threshold \in Nat /\ Threshold >= 1
      /\ past[a].passed \in Nat /\ past[a].windows \in Nat /\ past[a].failed \in Nat
      /\ past[a].recent \in Nat /\ (Threshold - 1) * past[a].windows \in Int
  BY <1>t, ThresholdAssumption DEF TypeOK, Past, Counter
<1>m. counter[a].n \in Nat /\ past[a].recent \in Nat
  BY <1>n
<1>f. ASSUME Expiring(a)' <=> Expiring(a), counter'[a] = counter[a],
             past'[a].passed = past[a].passed, past'[a].windows = past[a].windows,
             past'[a].failed = past[a].failed, past'[a].recent = past[a].recent
      PROVE  Quota(a)' /\ Recent(a)'
  BY <1>f, <1>g, <1>t, QuotaFrame, RecentFrame
<1>1. ASSUME NEW r \in Requests, RequestStep(r) PROVE Quota(a)' /\ Recent(a)'
  <2> DEFINE b == req[r].address
  <2>b. b \in Addresses /\ req[r] \in Request /\ req[r].n \in Nat
    BY <1>t DEF TypeOK, Request
  <2>1. ASSUME NEW s \in Servers, NEW c \in Addresses, Arrive(r, s, c)
        PROVE  Quota(a)' /\ Recent(a)'
    <3>1. /\ req'[r].pc = "incr" /\ req[r].pc = "idle"
          /\ \A x \in Requests \ {r} : req'[x] = req[x]
      BY <1>t, <2>1, ConstantsTyped DEF Arrive, At, TypeOK, Request
    <3>2. Expiring(a)' <=> Expiring(a)
      BY <3>1, ExpiringFrame DEF At
    <3> QED BY <1>f, <2>1, <3>2 DEF Arrive
  <2>2. CASE Incr(r)
    <3> DEFINE n == counter[b].n + 1
               counted == Counted(b, n)
    <3>1. /\ n \in Nat /\ counter' = [counter EXCEPT ![b].n = n]
          /\ req[r].pc = "incr"
          /\ \/ /\ Dates(n) /\ past' = counted
                /\ req' = [req EXCEPT ![r].pc = "expire", ![r].n = n]
             \/ ~Dates(n) /\ Decided(r, n, counted)
      BY <1>t, <2>2, <2>b DEF Incr, At, TypeOK, Counter
    <3> HIDE DEF n, counted
    <3>2. /\ counted \in [Addresses -> Past]
          /\ \A x \in Addresses \ {b} : counted[x] = past[x]
          /\ counted[b].passed = past[b].passed
          /\ counted[b].failed = past[b].failed
          /\ counted[b].recent = past[b].recent + 1
          /\ counted[b].windows = IF n = 1 THEN past[b].windows + 1 ELSE past[b].windows
          /\ past[b].reasons \subseteq counted[b].reasons
          /\ past[b].recent + 1 >= Threshold => counted[b].reasons # {}
      BY <1>t, <2>b, <3>1, CountedTyped DEF counted
    <3>3. \A x \in Requests \ {r} : req'[x] = req[x]
      BY <1>t, <3>1, <3>2, DecidedTyped DEF TypeOK
    <3>4. Dates(n) => req'[r].pc = "expire" /\ req'[r].address = b
      BY <1>t, <2>b, <3>1 DEF TypeOK, Request
    <3>5. ~Dates(n) => req'[r].pc # "expire"
      BY <1>t, <3>1, <3>2, DecidedTyped
    <3>6. Expiring(a) => Expiring(a)'
      BY <3>1, <3>3, ExpiringFrame DEF At
    <3>7. /\ counter'[b].n = n /\ counter'[b].expires = counter[b].expires
          /\ \A x \in Addresses \ {b} : counter'[x] = counter[x]
      BY <1>t, <2>b, <3>1 DEF TypeOK, Counter
    <3>8. CASE a # b
      <4>1. Expiring(a)' => Expiring(a)
        BY <3>3, <3>4, <3>5, <3>8, ExpiringFrame DEF At
      <4>2. /\ past'[a].passed = past[a].passed /\ past'[a].windows = past[a].windows
            /\ past'[a].failed = past[a].failed /\ past'[a].recent = past[a].recent
        BY <1>t, <2>b, <3>1, <3>2, <3>8, DecidedCounts
      <4> QED BY <1>f, <3>6, <3>7, <3>8, <4>1, <4>2
    <3>9. CASE a = b
      <4>n. n = counter[a].n + 1 /\ counter'[a].n = n
        BY <3>7, <3>9 DEF n
      <4>p. /\ past'[a].failed = past[a].failed /\ past'[a].recent = past[a].recent + 1
            /\ past'[a].windows = IF n = 1 THEN past[a].windows + 1 ELSE past[a].windows
            /\ past'[a].reasons = counted[a].reasons
            /\ past'[a].passed = past[a].passed + IF ~Dates(n) /\ n < Threshold THEN 1 ELSE 0
        BY <1>n, <1>t, <2>b, <3>1, <3>2, <3>9, DecidedCounts
      <4>1. CASE Dates(n)
        <5>1. n = 1 /\ counter[a].n = 0
          BY <1>m, <4>1, <4>n DEF Dates
        <5>2. ~Expiring(a)
          BY <5>1 DEF BanInv, ExpiringOnce, Expiring
        <5>3. Expiring(a)'
          BY <3>4, <3>9, <4>1 DEF Expiring, At
        <5>4. past[a].passed <= (Threshold - 1) * past[a].windows + past[a].failed
          BY <1>n, <1>t, <5>1, <5>2 DEF Quota, Left, Due
        <5>5. (Threshold - 1) * past'[a].windows =
                 (Threshold - 1) * past[a].windows + (Threshold - 1)
          BY <1>n, <4>p, <5>1
        <5>6. Left(a)' + Due(a)' <= Threshold - 1 /\ Left(a)' \in Nat /\ Due(a)' \in Nat
          <6>1. Due(a)' = IF Threshold > 1 THEN 1 ELSE 0
            BY <5>3 DEF Due
          <6>2. Left(a)' = IF 1 >= Threshold THEN 0 ELSE Threshold - 1 - 1
            BY <1>n, <4>n, <5>1 DEF Left
          <6> QED BY <1>n, <6>1, <6>2
        <5>7. past'[a].passed = past[a].passed
          BY <1>n, <4>1, <4>p
        <5>8. Quota(a)'
          BY <1>n, <4>p, <5>4, <5>5, <5>6, <5>7 DEF Quota
        <5>9. Recent(a)'
          BY <1>g, <1>n, <1>t, <3>2, <3>9, <4>n, <4>p, <5>1, <5>3 DEF Recent
        <5> QED BY <5>8, <5>9
      <4>2. CASE ~Dates(n)
        <5>1. n # 1 /\ counter[a].n >= 1
          BY <1>n, <4>2, <4>n DEF Dates
        <5>2. Expiring(a)' <=> Expiring(a)
          BY <3>3, <3>5, <3>6, <4>2, ExpiringFrame DEF At
        <5>3. Due(a)' = Due(a) /\ Due(a) \in Nat
          <6>1. CASE Expiring(a)
            BY <1>n, <5>2, <6>1 DEF Due
          <6>2. CASE ~Expiring(a)
            BY <1>n, <5>2, <6>2 DEF Due
          <6> QED BY <6>1, <6>2
        <5>4. past'[a].windows = past[a].windows
          BY <4>p, <5>1
        <5>5. /\ Left(a)' + (IF n < Threshold THEN 1 ELSE 0) <= Left(a)
              /\ Left(a) \in Nat /\ Left(a)' \in Nat
          BY <1>n, <4>n, <5>1 DEF Left
        <5>6. past'[a].passed = past[a].passed + IF n < Threshold THEN 1 ELSE 0
          BY <4>2, <4>p
        <5>7. Quota(a)'
          BY <1>n, <1>t, <4>p, <5>3, <5>4, <5>5, <5>6 DEF Quota
        <5>8. Recent(a)'
          <6>1. \/ n <= past'[a].recent
                \/ {"undated", "resent"} \cap past'[a].reasons # {}
            <7>1. \/ counter[a].n <= past[a].recent
                  \/ {"undated", "resent"} \cap past[a].reasons # {}
              BY <1>t DEF Recent
            <7>2. past'[a].recent = past[a].recent + 1
              BY <4>p
            <7> QED BY <1>g, <1>m, <4>n, <7>1, <7>2
          <6>2. counter[a].expires \/ Expiring(a)' \/ "undated" \in past'[a].reasons
            BY <1>g, <1>n, <1>t, <5>1, <5>2 DEF Recent
          <6>3. n >= Threshold => past'[a].reasons # {}
            BY <1>n, <3>2, <3>9, <4>n, <4>p, <6>1
          <6> QED BY <3>7, <3>9, <4>n, <6>1, <6>2, <6>3 DEF Recent
        <5> QED BY <5>7, <5>8
      <4> QED BY <4>1, <4>2
    <3> QED BY <3>8, <3>9
  <2>3. CASE Expire(r)
    <3>1. /\ Decided(r, req[r].n, past) /\ past \in [Addresses -> Past]
          /\ req[r].pc = "expire" /\ req[r].n = 1
      BY <1>t, <2>3 DEF Expire, At, TypeOK
    <3>2. /\ \A x \in Requests \ {r} : req'[x] = req[x]
          /\ req'[r].pc # "expire"
      BY <1>t, <2>b, <3>1, DecidedTyped
    <3>3. /\ \A x \in Addresses \ {b} : past'[x] = past[x]
          /\ past'[a].windows = past[a].windows /\ past'[a].failed = past[a].failed
          /\ past'[a].recent = past[a].recent
          /\ past'[b].passed = past[b].passed + IF 1 < Threshold THEN 1 ELSE 0
      BY <1>t, <2>b, <3>1, DecidedCounts
    <3>4. /\ counter'[b].n = counter[b].n /\ counter'[b].expires
          /\ \A x \in Addresses \ {b} : counter'[x] = counter[x]
      BY <1>t, <2>3, <2>b DEF Expire, Dated, TypeOK, Counter
    <3>5. Expiring(a)' => Expiring(a)
      BY <3>2, ExpiringFrame DEF At
    <3>6. CASE a # b
      <4>1. Expiring(a) => Expiring(a)'
        BY <3>2, <3>6, ExpiringFrame
      <4> QED BY <1>f, <3>3, <3>4, <3>5, <3>6, <4>1
    <3>7. CASE a = b
      <4>1. Expiring(a)
        BY <3>1, <3>7 DEF Expiring, At
      <4>2. ~Expiring(a)'
        <5> SUFFICES ASSUME NEW x \in Requests, req'[x].pc = "expire", req'[x].address = a
                     PROVE  FALSE
          BY DEF Expiring, At
        <5>1. x # r /\ req[x].pc = "expire" /\ req[x].address = a
          BY <3>2
        <5> QED BY <3>1, <3>7, <5>1 DEF BanInv, ExpiringOnce, At
      <4>3. Due(a) = (IF 1 < Threshold THEN 1 ELSE 0) /\ Due(a)' = 0
        BY <1>n, <4>1, <4>2 DEF Due
      <4>4. Left(a)' = Left(a) /\ Left(a) \in Nat
        BY <1>n, <3>4, <3>7 DEF Left
      <4>5. Quota(a)'
        BY <1>n, <1>t, <3>3, <3>7, <4>3, <4>4 DEF Quota
      <4>6. Recent(a)'
        BY <1>g, <1>t, <3>3, <3>4, <3>7 DEF Recent
      <4> QED BY <4>5, <4>6
    <3> QED BY <3>6, <3>7
  <2>4. CASE Put(r)
    <3>1. /\ req'[r].pc # "expire" /\ req[r].pc = "put"
          /\ \A x \in Requests \ {r} : req'[x] = req[x]
      BY <1>t, <2>4, EndsTyped, ConstantsTyped DEF Put, At
    <3>2. Expiring(a)' <=> Expiring(a)
      BY <3>1, ExpiringFrame DEF At
    <3> QED BY <1>f, <2>4, <3>2 DEF Put
  <2>5. CASE CallFails(r)
    <3>1. /\ req'[r].pc # "expire"
          /\ \A x \in Requests \ {r} : req'[x] = req[x]
      BY <1>t, <2>5, EndsTyped, ConstantsTyped DEF CallFails
    <3>2. Expiring(a)' => Expiring(a)
      BY <3>1, ExpiringFrame DEF At
    <3>3. UNCHANGED counter
      BY <2>5 DEF CallFails
    <3> DEFINE undated == IF At(r, "expire") THEN {"undated"} ELSE {}
    <3>4. past' = [past EXCEPT ![b].passed = @ + 1, ![b].failed = @ + 1,
                               ![b].reasons = @ \cup undated]
      BY <2>5 DEF CallFails
    <3> HIDE DEF undated
    <3>5. /\ \A x \in Addresses \ {b} : past'[x] = past[x]
          /\ past'[b].passed = past[b].passed + 1 /\ past'[b].failed = past[b].failed + 1
          /\ past'[b].windows = past[b].windows /\ past'[b].recent = past[b].recent
          /\ past'[b].reasons = past[b].reasons \cup undated
      BY <1>t, <2>b, <3>4 DEF TypeOK, Past
    <3>6. Expiring(a) => Expiring(a)' \/ "undated" \in past'[a].reasons
      <4>1. CASE a = b /\ At(r, "expire")
        BY <3>5, <4>1 DEF undated
      <4>2. CASE a # b \/ ~At(r, "expire")
        BY <3>1, <4>2, ExpiringFrame
      <4> QED BY <4>1, <4>2
    <3>7. Recent(a)'
      BY <1>g, <1>t, <3>3, <3>5, <3>6, RecentFrame
    <3>8. CASE a # b
      BY <1>t, <3>2, <3>3, <3>5, <3>7, <3>8, QuotaFrame
    <3>9. CASE a = b
      <4>1. Left(a)' = Left(a) /\ Left(a) \in Nat
        BY <1>n, <3>3 DEF Left
      <4>2. Due(a)' <= Due(a) /\ Due(a) \in Nat /\ Due(a)' \in Nat
        <5>1. CASE Expiring(a)
          BY <1>n, <5>1 DEF Due
        <5>2. CASE ~Expiring(a)
          BY <1>n, <3>2, <5>2 DEF Due
        <5> QED BY <5>1, <5>2
      <4>3. /\ past'[a].passed = past[a].passed + 1 /\ past'[a].failed = past[a].failed + 1
            /\ past'[a].windows = past[a].windows
        BY <3>5, <3>9
      <4>4. Quota(a)'
        BY <1>n, <1>t, <4>1, <4>2, <4>3 DEF Quota
      <4> QED BY <3>7, <4>4
    <3> QED BY <3>8, <3>9
  <2>6. CASE IncrUnanswered(r)
    <3> DEFINE n == counter[b].n + 1
    <3>1. /\ n \in Nat /\ counter'[b].n = n /\ counter'[b].expires = counter[b].expires
          /\ \A x \in Addresses \ {b} : past'[x] = past[x] /\ counter'[x] = counter[x]
          /\ n = 1 => "undated" \in past'[b].reasons
          /\ past'[b].windows = IF n = 1 THEN past[b].windows + 1 ELSE past[b].windows
          /\ \/ /\ "resent" \in past'[b].reasons /\ UNCHANGED req
                /\ past'[b].passed = past[b].passed /\ past'[b].failed = past[b].failed
                /\ past'[b].recent = past[b].recent
             \/ /\ Ends(r)
                /\ past'[b].passed = past[b].passed + 1
                /\ past'[b].failed = past[b].failed + 1
                /\ past'[b].recent = past[b].recent + 1
                /\ past[b].recent + 1 >= Threshold => past'[b].reasons # {}
      BY <1>t, <2>6, <2>b, UnansweredCounts
    <3>2. Expiring(a)' <=> Expiring(a)
      <4>1. CASE UNCHANGED req
        BY <4>1 DEF Expiring, At
      <4>2. CASE Ends(r)
        <5>1. /\ req[r].pc = "incr" /\ req'[r].pc = "idle"
              /\ \A x \in Requests \ {r} : req'[x] = req[x]
          BY <1>t, <2>6, <4>2, EndsTyped, ConstantsTyped DEF IncrUnanswered, At
        <5> QED BY <5>1, ExpiringFrame DEF At
      <4> QED BY <3>1, <4>1, <4>2
    <3> HIDE DEF n
    <3>3. CASE a # b
      BY <1>f, <3>1, <3>2, <3>3
    <3>4. CASE a = b
      <4>n. n = counter[a].n + 1 /\ counter'[a].n = n
        BY <3>1, <3>4 DEF n
      <4>d. Due(a)' = Due(a) /\ Due(a) \in Nat /\ (counter[a].n = 0 => Due(a) = 0)
        <5>1. counter[a].n = 0 => ~Expiring(a)
          BY DEF BanInv, ExpiringOnce, Expiring
        <5>2. CASE Expiring(a)
          BY <1>n, <3>2, <5>1, <5>2 DEF Due
        <5>3. CASE ~Expiring(a)
          BY <1>n, <3>2, <5>3 DEF Due
        <5> QED BY <5>2, <5>3
      <4>g. PICK k \in {0, 1} : /\ past'[a].passed = past[a].passed + k
                                /\ past'[a].failed = past[a].failed + k
        <5>1. CASE /\ past'[a].passed = past[a].passed
                   /\ past'[a].failed = past[a].failed
          BY <1>n, <5>1
        <5>2. CASE /\ past'[a].passed = past[a].passed + 1
                   /\ past'[a].failed = past[a].failed + 1
          BY <5>2
        <5> QED BY <3>1, <3>4, <5>1, <5>2
      <4>1. Quota(a)'
        <5>1. CASE counter[a].n = 0
          <6>1. past[a].passed <= (Threshold - 1) * past[a].windows + past[a].failed
            BY <1>n, <1>t, <4>d, <5>1 DEF Quota, Left
          <6>2. (Threshold - 1) * past'[a].windows =
                   (Threshold - 1) * past[a].windows + (Threshold - 1)
            BY <1>n, <3>1, <3>4, <4>n, <5>1
          <6>3. Left(a)' <= Threshold - 1 /\ Left(a)' \in Nat /\ Due(a)' = 0
            BY <1>n, <4>d, <4>n, <5>1 DEF Left
          <6> QED BY <1>n, <4>g, <6>1, <6>2, <6>3 DEF Quota
        <5>2. CASE counter[a].n # 0
          <6>0. n # 1
            BY <1>m, <4>n, <5>2
          <6>1. past'[a].windows = past[a].windows
            BY <3>1, <3>4, <6>0
          <6>2. Left(a)' <= Left(a) /\ Left(a) \in Nat /\ Left(a)' \in Nat
            BY <1>n, <4>n, <5>2 DEF Left
          <6> QED BY <1>n, <1>t, <4>d, <4>g, <6>1, <6>2 DEF Quota
        <5> QED BY <5>1, <5>2
      <4>2. \/ n <= past'[a].recent
            \/ {"undated", "resent"} \cap past'[a].reasons # {}
        <5>1. \/ counter[a].n <= past[a].recent
              \/ {"undated", "resent"} \cap past'[a].reasons # {}
          BY <1>g, <1>t DEF Recent
        <5> QED BY <1>m, <3>1, <3>4, <4>n, <5>1
      <4>3. \/ counter'[a].expires \/ Expiring(a)' \/ "undated" \in past'[a].reasons
        <5>1. CASE counter[a].n = 0
          BY <1>m, <3>1, <3>4, <4>n, <5>1
        <5>2. CASE counter[a].n # 0
          BY <1>g, <1>t, <3>1, <3>2, <3>4, <5>2 DEF Recent
        <5> QED BY <5>1, <5>2
      <4>4. n >= Threshold => past'[a].reasons # {}
        <5>1. CASE "resent" \in past'[a].reasons
          BY <5>1
        <5>2. CASE {"undated", "resent"} \cap past'[a].reasons # {}
          BY <5>2
        <5>3. CASE n <= past'[a].recent /\ past'[a].recent = past[a].recent + 1
                     /\ (past[a].recent + 1 >= Threshold => past'[a].reasons # {})
          BY <1>n, <3>1, <3>4, <5>3
        <5> QED BY <3>1, <3>4, <4>2, <5>1, <5>2, <5>3
      <4> QED BY <4>1, <4>2, <4>3, <4>4, <4>n DEF Recent
    <3> QED BY <3>3, <3>4
  <2>7. CASE ExpireUnanswered(r)
    <3>1. /\ counter'[b].n = counter[b].n /\ counter'[b].expires
          /\ \A x \in Addresses \ {b} : past'[x] = past[x] /\ counter'[x] = counter[x]
          /\ past'[b].passed = past[b].passed + 1
          /\ past'[b].failed = past[b].failed + 1
          /\ past'[b].windows = past[b].windows /\ past'[b].recent = past[b].recent
          /\ past'[b].reasons = past[b].reasons
      BY <1>t, <2>7, <2>b, DatedCounts
    <3>2. /\ req[r].pc = "expire" /\ req'[r].pc = "idle"
          /\ \A x \in Requests \ {r} : req'[x] = req[x]
      BY <1>t, <2>7, EndsTyped, ConstantsTyped DEF ExpireUnanswered, At
    <3>3. Expiring(a)' => Expiring(a)
      BY <3>2, ExpiringFrame DEF At
    <3>4. CASE a # b
      <4>1. Expiring(a) => Expiring(a)'
        BY <3>2, <3>4, ExpiringFrame
      <4> QED BY <1>f, <3>1, <3>3, <3>4, <4>1
    <3>5. CASE a = b
      <4>1. Left(a)' = Left(a) /\ Left(a) \in Nat
        BY <1>n, <3>1, <3>5 DEF Left
      <4>2. Due(a)' <= Due(a) /\ Due(a) \in Nat /\ Due(a)' \in Nat
        <5>1. CASE Expiring(a)
          BY <1>n, <5>1 DEF Due
        <5>2. CASE ~Expiring(a)
          BY <1>n, <3>3, <5>2 DEF Due
        <5> QED BY <5>1, <5>2
      <4>3. /\ past'[a].passed = past[a].passed + 1 /\ past'[a].failed = past[a].failed + 1
            /\ past'[a].windows = past[a].windows
        BY <3>1, <3>5
      <4>4. Quota(a)'
        BY <1>n, <1>t, <4>1, <4>2, <4>3 DEF Quota
      <4>5. Recent(a)'
        BY <1>t, <3>1, <3>5 DEF Recent
      <4> QED BY <4>4, <4>5
    <3> QED BY <3>4, <3>5
  <2> QED BY <1>1, <2>1, <2>2, <2>3, <2>4, <2>5, <2>6, <2>7 DEF RequestStep
<1>2. ASSUME NEW s \in Servers, Restart(s) PROVE Quota(a)' /\ Recent(a)'
  <2> DEFINE lost == {x \in Requests : req[x].pc # "idle" /\ req[x].server = s}
             undated == {req[x].address : x \in {q \in lost : At(q, "expire")}}
  <2>1. /\ UNCHANGED counter
        /\ req' = [x \in Requests |-> IF x \in lost THEN Idle ELSE req[x]]
        /\ past'[a] = IF a \in undated
                      THEN [past[a] EXCEPT !.reasons = @ \cup {"undated"}]
                      ELSE past[a]
    BY <1>2 DEF Restart
  <2>2. Expiring(a)' => Expiring(a)
    BY <2>1, ConstantsTyped DEF Expiring, At
  <2>3. Expiring(a) => Expiring(a)' \/ a \in undated
    <3> SUFFICES ASSUME NEW x \in Requests, At(x, "expire"), req[x].address = a
                 PROVE  Expiring(a)' \/ a \in undated
      BY DEF Expiring
    <3>1. CASE x \in lost
      BY <3>1
    <3>2. CASE x \notin lost
      BY <2>1, <3>2 DEF Expiring, At
    <3> QED BY <3>1, <3>2
  <2> HIDE DEF lost, undated
  <2>4. /\ past'[a].passed = past[a].passed /\ past'[a].windows = past[a].windows
        /\ past'[a].failed = past[a].failed /\ past'[a].recent = past[a].recent
        /\ a \in undated => "undated" \in past'[a].reasons
    BY <1>n, <2>1 DEF Past
  <2>5. Quota(a)'
    BY <1>t, <2>1, <2>2, <2>4, QuotaFrame
  <2>6. Recent(a)'
    BY <1>g, <1>t, <2>1, <2>3, <2>4, RecentFrame
  <2> QED BY <2>5, <2>6
<1>3. ASSUME NEW list \in OperatorLists, Edit(list) PROVE Quota(a)' /\ Recent(a)'
  <2>1. /\ past'[a].passed = past[a].passed /\ past'[a].windows = past[a].windows
        /\ past'[a].failed = past[a].failed /\ past'[a].recent = past[a].recent
    BY <1>3, <1>n DEF Edit, Past
  <2>2. Expiring(a)' <=> Expiring(a)
    BY <1>3 DEF Edit, Expiring, At
  <2> QED BY <1>3, <1>f, <2>1, <2>2 DEF Edit
<1>4. ASSUME NEW b \in Addresses, Lapse(b) PROVE Quota(a)' /\ Recent(a)'
  <2>1. /\ past'[a].passed = past[a].passed /\ past'[a].windows = past[a].windows
        /\ past'[a].failed = past[a].failed /\ past'[a].reasons = past[a].reasons
        /\ past'[a].recent = IF a = b THEN 0 ELSE past[a].recent
    BY <1>4, <1>n, <1>t DEF Lapse, TypeOK, Past
  <2>2. Expiring(a)' <=> Expiring(a)
    BY <1>4 DEF Lapse, Expiring, At
  <2>3. CASE a # b
    <3>1. counter'[a] = counter[a]
      BY <1>4, <1>t, <2>3 DEF Lapse, TypeOK
    <3> QED BY <1>f, <2>1, <2>2, <2>3, <3>1
  <2>4. CASE a = b
    <3>1. ~Expiring(a)
      BY <1>4, <2>4 DEF Lapse, Expiring
    <3>2. counter'[a] = IF counter[a].expires THEN NoCounter ELSE counter[a]
      BY <1>4, <1>t, <2>4 DEF Lapse, TypeOK
    <3>3. counter'[a].n = 0 \/ (counter'[a] = counter[a] /\ ~counter[a].expires)
      <4>1. CASE counter[a].expires
        <5>1. NoCounter.n = 0
          BY DEF NoCounter
        <5>2. counter'[a] = NoCounter
          BY <3>2, <4>1
        <5> QED BY <5>1, <5>2
      <4>2. CASE ~counter[a].expires
        BY <3>2, <4>2
      <4> QED BY <4>1, <4>2
    <3>4. Quota(a)'
      BY <1>t, <2>1, <2>2, <3>3, QuotaFrame
    <3>5. Recent(a)'
      BY <1>n, <1>t, <2>1, <2>4, <3>1, <3>3 DEF Recent
    <3> QED BY <3>4, <3>5
  <2> QED BY <2>3, <2>4
<1>5. CASE UNCHANGED <<req, counter, past>>
  <2>1. Expiring(a)' <=> Expiring(a)
    BY <1>5 DEF Expiring, At
  <2> QED BY <1>5, <1>f, <2>1
<1> QED
  BY <1>1, <1>2, <1>3, <1>4, <1>5 DEF Next, ServerStep, StartLoad, ApplyLoad, LoadFails, vars

\* Lists hold who may be listed.
LEMMA ListsNext == BanInv /\ [Next]_vars => ListsAreFair'
<1> SUFFICES ASSUME BanInv, [Next]_vars PROVE ListsAreFair'
  OBVIOUS
<1>t. TypeOK /\ TypeOK'
  BY TypeNext DEF BanInv
<1>g. \A a \in Addresses : past[a].reasons \subseteq past'[a].reasons
  BY <1>t, ReasonsGrow
<1> DEFINE Good(list) == \A a \in Addresses : a \in list.subnets => past'[a].reasons # {}
<1>l. /\ \A s \in Servers : Fair(config[s]) /\ \A o \in loads[s] : Fair(o.list)
      /\ Fair(object.list)
      /\ \A r \in Requests : At(r, "put") => Fair(req[r].body)
  BY DEF BanInv, ListsAreFair
<1>f. ASSUME NEW list, Fair(list) PROVE Good(list)
  BY <1>f, <1>g DEF Fair
<1>b. ASSUME NEW list, Good(list), NEW a \in Addresses, past'[a].reasons # {}
      PROVE  Good(Banning(list, a))
  BY <1>b DEF Banning
<1>e. Good(NoList)
  BY DEF NoList
<1>p. ASSUME NEW list, Good(list) PROVE Good(Kept(list))
  BY <1>e, <1>p DEF Kept
<1>o. ASSUME NEW list, Good(list), NEW o, Good(o.list) PROVE Good(Replaced(list, o))
  BY <1>o, <1>p DEF Replaced
<1> HIDE DEF Good
<1>h. ASSUME \A s \in Servers : Good(config'[s]) /\ \A o \in loads'[s] : Good(o.list),
             Good(object'.list),
             \A r \in Requests : req'[r].pc = "put" => Good(req'[r].body)
      PROVE  ListsAreFair'
  BY <1>h DEF ListsAreFair, Fair, At, Good
<1>c. /\ \A s \in Servers : Good(config[s]) /\ \A o \in loads[s] : Good(o.list)
      /\ Good(object.list)
      /\ \A r \in Requests : req[r].pc = "put" => Good(req[r].body)
  BY <1>f, <1>l DEF At
<1>1. ASSUME NEW r \in Requests, RequestStep(r) PROVE ListsAreFair'
  <2> DEFINE a == req[r].address
  <2>a. a \in Addresses /\ req[r].n \in Nat /\ req[r].server \in Servers
    BY <1>t DEF TypeOK, Request
  <2>d. ASSUME NEW n \in Nat, NEW counted \in [Addresses -> Past], Decided(r, n, counted),
               counter'[a].n >= n, UNCHANGED <<loads, object>>
        PROVE  ListsAreFair'
    <3>1. /\ \A q \in Requests \ {r} : req'[q] = req[q]
          /\ \/ UNCHANGED config /\ req'[r].pc = "idle"
             \/ /\ n >= Threshold
                /\ config' = [config EXCEPT ![req[r].server] = Banning(@, a)]
                /\ \/ req'[r].pc = "idle"
                   \/ req'[r].body = Banning(config[req[r].server], a)
      BY <1>t, <2>d, DecidedTyped, DecidedCounts
    <3>2. CASE UNCHANGED config /\ req'[r].pc = "idle"
      BY <1>c, <1>h, <2>d, <3>1, <3>2
    <3>3. CASE /\ n >= Threshold
               /\ config' = [config EXCEPT ![req[r].server] = Banning(@, a)]
               /\ \/ req'[r].pc = "idle"
                  \/ req'[r].body = Banning(config[req[r].server], a)
      <4>1. counter'[a].n >= Threshold
        BY <1>t, <2>a, <2>d, <3>3, ThresholdAssumption DEF TypeOK, Counter
      <4>2. past'[a].reasons # {}
        BY <2>a, <4>1, CountersNext DEF Recent
      <4>3. Good(Banning(config[req[r].server], a))
        BY <1>b, <1>c, <2>a, <4>2
      <4>4. \A s \in Servers : Good(config'[s])
        BY <1>c, <1>t, <2>a, <3>3, <4>3 DEF TypeOK
      <4>5. \A q \in Requests : req'[q].pc = "put" => Good(req'[q].body)
        BY <1>c, <3>1, <3>3, <4>3
      <4> QED BY <1>c, <1>h, <2>d, <4>4, <4>5
    <3> QED BY <3>1, <3>2, <3>3
  <2>1. ASSUME NEW s \in Servers, NEW b \in Addresses, Arrive(r, s, b)
        PROVE  ListsAreFair'
    <3>1. req'[r].pc = "incr" /\ \A x \in Requests \ {r} : req'[x] = req[x]
      BY <1>t, <2>1, ConstantsTyped DEF Arrive, TypeOK, Request
    <3> QED BY <1>c, <1>h, <2>1, <3>1 DEF Arrive
  <2>2. CASE Incr(r)
    <3> DEFINE n == counter[a].n + 1
    <3>1. n \in Nat /\ counter'[a].n = n
      BY <1>t, <2>2, <2>a DEF Incr, TypeOK, Counter
    <3>2. CASE req' = [req EXCEPT ![r].pc = "expire", ![r].n = n] /\ UNCHANGED config
      <4>1. req'[r].pc = "expire" /\ \A x \in Requests \ {r} : req'[x] = req[x]
        BY <1>t, <3>2 DEF TypeOK, Request
      <4>2. UNCHANGED <<config, loads, object>>
        BY <2>2, <3>2 DEF Incr
      <4> QED BY <1>c, <1>h, <4>1, <4>2
    <3>3. CASE Decided(r, n, Counted(a, n))
      <4>1. UNCHANGED <<loads, object>>
        BY <2>2 DEF Incr
      <4> HIDE DEF n
      <4>2. Counted(a, n) \in [Addresses -> Past] /\ counter'[a].n >= n
        BY <1>t, <2>a, <3>1, CountedTyped
      <4> QED BY <2>d, <3>1, <3>3, <4>1, <4>2
    <3> QED BY <2>2, <3>2, <3>3 DEF Incr
  <2>3. CASE Expire(r)
    <3>1. /\ Decided(r, req[r].n, past) /\ past \in [Addresses -> Past]
          /\ req[r].n = 1 /\ At(r, "expire") /\ UNCHANGED <<loads, object>>
      BY <1>t, <2>3 DEF Expire, At, TypeOK
    <3>2. counter'[a].n = counter[a].n /\ counter[a].n >= 1
      BY <1>t, <2>3, <2>a, <3>1 DEF Expire, Dated, TypeOK, Counter, BanInv, ExpiringOnce
    <3> QED BY <2>a, <2>d, <3>1, <3>2
  <2>4. CASE Put(r) \/ CallFails(r)
    <3>1. req'[r].pc = "idle" /\ \A x \in Requests \ {r} : req'[x] = req[x]
      BY <1>t, <2>4, EndsTyped, ConstantsTyped DEF Put, CallFails
    <3>2. UNCHANGED <<config, loads>>
      BY <2>4 DEF Put, CallFails
    <3>3. \/ object' = object
          \/ At(r, "put") /\ object' = [there |-> TRUE, list |-> req[r].body]
      <4>1. CASE Put(r)
        BY <4>1 DEF Put
      <4>2. CASE CallFails(r)
        BY <4>2 DEF CallFails
      <4> QED BY <2>4, <4>1, <4>2
    <3>4. Good(object'.list)
      <4>1. CASE object' = object
        BY <1>c, <4>1
      <4>2. CASE At(r, "put") /\ object' = [there |-> TRUE, list |-> req[r].body]
        BY <1>c, <4>2 DEF At
      <4> QED BY <3>3, <4>1, <4>2
    <3> QED BY <1>c, <1>h, <3>1, <3>2, <3>4
  <2>5. CASE IncrUnanswered(r) \/ ExpireUnanswered(r)
    <3>1. UNCHANGED <<config, loads, object>> /\ (UNCHANGED req \/ Ends(r))
      BY <2>5 DEF IncrUnanswered, ExpireUnanswered
    <3>2. \A x \in Requests : req'[x] = req[x] \/ req'[x].pc = "idle"
      BY <1>t, <3>1, EndsTyped, ConstantsTyped
    <3> QED BY <1>c, <1>h, <3>1, <3>2
  <2> QED BY <1>1, <2>1, <2>2, <2>3, <2>4, <2>5 DEF RequestStep
<1>2. ASSUME NEW s \in Servers, StartLoad(s) PROVE ListsAreFair'
  <2>1. \A x \in Servers : loads'[x] \subseteq loads[x] \cup {object}
    BY <1>2, <1>t DEF StartLoad, TypeOK
  <2>2. UNCHANGED <<config, object, req>>
    BY <1>2 DEF StartLoad
  <2> QED BY <1>c, <1>h, <2>1, <2>2
<1>3. ASSUME NEW s \in Servers, ApplyLoad(s) PROVE ListsAreFair'
  <2>1. PICK o \in loads[s] : /\ loads' = [loads EXCEPT ![s] = @ \ {o}]
                              /\ config' = [config EXCEPT ![s] = Replaced(@, o)]
    BY <1>3 DEF ApplyLoad
  <2>2. Good(Replaced(config[s], o))
    BY <1>c, <1>o
  <2>3. \A x \in Servers : loads'[x] \subseteq loads[x] /\ Good(config'[x])
    BY <1>c, <1>t, <2>1, <2>2 DEF TypeOK
  <2>4. UNCHANGED <<object, req>>
    BY <1>3 DEF ApplyLoad
  <2> QED BY <1>c, <1>h, <2>3, <2>4
<1>4. ASSUME NEW s \in Servers, LoadFails(s) PROVE ListsAreFair'
  <2>1. Good(Kept(config[s]))
    BY <1>c, <1>p
  <2>2. \A x \in Servers : Good(config'[x])
    BY <1>4, <1>c, <1>t, <2>1 DEF LoadFails, TypeOK
  <2>3. UNCHANGED <<loads, object, req>>
    BY <1>4 DEF LoadFails
  <2> QED BY <1>c, <1>h, <2>2, <2>3
<1>5. ASSUME NEW s \in Servers, Restart(s) PROVE ListsAreFair'
  <2>1. Good(Replaced(NoList, object))
    BY <1>c, <1>e, <1>o
  <2>2. \A x \in Servers : Good(config'[x])
    BY <1>5, <1>c, <1>e, <1>t, <2>1 DEF Restart, TypeOK
  <2>3. \A x \in Servers : loads'[x] \subseteq loads[x]
    BY <1>5, <1>t DEF Restart, TypeOK
  <2>4. \A x \in Requests : req'[x] = req[x] \/ req'[x].pc = "idle"
    BY <1>5, ConstantsTyped DEF Restart
  <2>5. UNCHANGED object
    BY <1>5 DEF Restart
  <2> QED BY <1>c, <1>h, <2>2, <2>3, <2>4, <2>5
<1>6. ASSUME NEW list \in OperatorLists, Edit(list) PROVE ListsAreFair'
  <2>1. \A a \in Addresses : a \in list.subnets => past'[a].reasons # {}
    BY <1>6 DEF Edit, TypeOK, Past
  <2>2. Good(list)
    BY <2>1 DEF Good
  <2>3. object'.list = list /\ UNCHANGED <<config, loads, req>>
    BY <1>6 DEF Edit
  <2> QED BY <1>c, <1>h, <2>2, <2>3
<1>7. CASE UNCHANGED <<config, loads, object, req>>
  BY <1>7, <1>c, <1>h
<1> QED
  BY <1>1, <1>2, <1>3, <1>4, <1>5, <1>6, <1>7 DEF Next, ServerStep, Lapse, vars

LEMMA BanNext == BanInv /\ [Next]_vars => BanInv'
  BY TypeNext, ExpiringNext, CountersNext, ListsNext DEF BanInv

(***************************************************************************)
(* Whatever becomes of its bans, an address gets fewer codes than the      *)
(* threshold out of every life of its counter, and one more for each call  *)
(* that fails.                                                             *)
(***************************************************************************)
THEOREM QuotaHolds == Spec => []PassesBounded
<1>1. BanInv => PassesBounded
  <2> SUFFICES ASSUME BanInv, NEW a \in Addresses
               PROVE  past[a].passed <= (Threshold - 1) * past[a].windows + past[a].failed
    BY DEF PassesBounded
  <2>1. /\ past[a].passed \in Nat /\ past[a].windows \in Nat /\ past[a].failed \in Nat
        /\ counter[a].n \in Nat /\ Threshold \in Nat
    BY ThresholdAssumption DEF BanInv, TypeOK, Past, Counter
  <2>2. Left(a) \in Nat /\ Due(a) \in Nat /\ (Threshold - 1) * past[a].windows \in Int
    BY <2>1 DEF Left, Due
  <2> QED BY <2>1, <2>2 DEF BanInv, Quota
<1> QED BY <1>1, BanInit, BanNext, PTL DEF Spec

(***************************************************************************)
(* Nobody is in any list who was not put there by an operator and never    *)
(* asked often enough in 900 seconds, unless an EXPIRE was lost or an      *)
(* INCR that had counted was sent again.                                   *)
(***************************************************************************)
THEOREM BansHaveAReason == Spec => []BansAreEarned
<1>1. BanInv => BansAreEarned
  <2> SUFFICES ASSUME BanInv, NEW list \in ListsAbout PROVE Fair(list)
    BY DEF BansAreEarned, Fair
  <2> QED BY DEF BanInv, ListsAreFair, ListsAbout
<1> QED BY <1>1, BanInit, BanNext, PTL DEF Spec

=============================================================================
