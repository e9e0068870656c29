---------------------------- MODULE OtpSend_proofs ----------------------------
(***************************************************************************)
(* Proofs about OtpSend: its types, who may be past lock and limits at one *)
(* time, the code that logs in, the distance of messages and what the rate *)
(* limits let through.                                                     *)
(***************************************************************************)
EXTENDS OtpSend, Integers, TLAPS, FiniteSetTheorems

(***************************************************************************)
(* Types                                                                   *)
(***************************************************************************)

Steps == {"idle", "lock", "cooldown", "last", "check", "remove",
          "create", "send", "mark", "release"}

LEMMA ChecksTyped ==
    ASSUME NEW s \in Settings
    PROVE  /\ DOMAIN s = 1..Len(s) /\ Len(s) \in Nat /\ 1 \in DOMAIN s
           /\ \A i \in DOMAIN s : /\ s[i] \in Limits /\ s[i].scope \in Scopes
                                  /\ s[i].ttl \in Nat \ {0}
                                  /\ s[i].limit \in Nat \ {0}
<1>1. s \in Seq(Limits) /\ s # <<>>
  BY SettingsAssumption
<1>2. DOMAIN s = 1..Len(s) /\ Len(s) \in Nat /\ Len(s) # 0
  BY <1>1
<1>3. \A i \in DOMAIN s : s[i] \in Limits
  BY <1>1, <1>2
<1> QED BY <1>2, <1>3 DEF Limits

LEMMA IdleTyped == /\ Idle \in Request
                   /\ Idle.pc = "idle" /\ Idle.check = 0
<1>1. (CHOOSE p \in Phones : TRUE) \in Phones /\ (CHOOSE a \in Ips : TRUE) \in Ips
  BY SenderAssumption
<1> QED BY <1>1 DEF Idle, Request

LEMMA NoWindowsTyped ==
    ASSUME NEW s \in Settings
    PROVE  NoWindows(s) \in [DOMAIN s -> [Subjects -> Window]]
  BY DEF NoWindows, NoWindow, Window

\* One request goes on to another step.
LEMMA GoesTyped ==
    ASSUME TypeOK, NEW r \in Requests, NEW pc \in Steps, Goes(r, pc)
    PROVE  /\ req' \in [Requests -> Request]
           /\ req'[r] = [req[r] EXCEPT !.pc = pc]
           /\ req'[r].pc = pc
           /\ req'[r].phone = req[r].phone /\ req'[r].ip = req[r].ip /\ req'[r].since = req[r].since
           /\ req'[r].check = req[r].check /\ req'[r].code = req[r].code
           /\ \A q \in Requests \ {r} : req'[q] = req[q]
<1>1. req \in [Requests -> Request] /\ req[r] \in Request
  BY DEF TypeOK
<1>2. [req[r] EXCEPT !.pc = pc] \in Request
  BY <1>1 DEF Request, Steps
<1>3. req' = [req EXCEPT ![r] = [req[r] EXCEPT !.pc = pc]]
  BY <1>1 DEF Goes, Request
<1> QED BY <1>1, <1>2, <1>3 DEF Request

\* One request ends.
LEMMA EndsTyped ==
    ASSUME TypeOK, NEW r \in Requests, Ends(r)
    PROVE  /\ req' \in [Requests -> Request]
           /\ req'[r] = Idle
           /\ \A q \in Requests \ {r} : req'[q] = req[q]
  BY IdleTyped DEF TypeOK, Ends

LEMMA FaultTyped ==
    ASSUME TypeOK, NEW kind \in {"outages", "restarts", "errors"}, Fault(kind)
    PROVE  /\ spent' \in [outages: Nat, restarts: Nat, errors: Nat, starts: Nat,
                          codes: Nat]
           /\ spent'.codes = spent.codes
           /\ spent.outages <= spent'.outages
           /\ kind = "outages" => spent'.outages # 0
           /\ kind # "outages" => spent'.outages = spent.outages
           /\ spent.errors + spent.restarts <= spent'.errors + spent'.restarts
           /\ kind # "outages" => spent'.errors + spent'.restarts # 0
<1>1. spent \in [outages: Nat, restarts: Nat, errors: Nat, starts: Nat, codes: Nat]
  BY DEF TypeOK
<1>2. CASE kind = "outages"
  <2>1. spent' = [spent EXCEPT !.outages = @ + 1]
    BY <1>1, <1>2 DEF Fault
  <2> QED BY <1>1, <1>2, <2>1
<1>3. CASE kind = "restarts"
  <2>1. spent' = [spent EXCEPT !.restarts = @ + 1]
    BY <1>1, <1>3 DEF Fault
  <2> QED BY <1>1, <1>3, <2>1
<1>4. CASE kind = "errors"
  <2>1. spent' = [spent EXCEPT !.errors = @ + 1]
    BY <1>1, <1>4 DEF Fault
  <2> QED BY <1>1, <1>4, <2>1
<1> QED BY <1>2, <1>3, <1>4

LEMMA SubjectTyped ==
    ASSUME TypeOK, NEW r \in Requests, NEW i \in DOMAIN checks
    PROVE  /\ Subject(r, i) \in Subjects
           /\ checks[i].scope = "phone" => Subject(r, i) = req[r].phone
  BY DEF TypeOK, Subject, Subjects, Request

\* A window is there or it has counted and not run out.
Opened(w) == w = NoWindow \/ (w.count >= 1 /\ w.until > now)

LEMMA IncrementTyped ==
    ASSUME now \in Nat, NEW w \in Window, NEW c \in Limits, Opened(w)
    PROVE  /\ Increment(w, c) \in Window
           /\ Increment(w, c).count >= 1 /\ Increment(w, c).until > now
           /\ w = NoWindow => /\ Increment(w, c).count = 1
                              /\ Increment(w, c).until = now + c.ttl
           /\ w # NoWindow => /\ Increment(w, c).until = w.until
                              /\ w.count >= 1
                              /\ Increment(w, c).count > c.limit \/ Increment(w, c).count = w.count + 1
<1>1. /\ c.ttl \in Nat /\ c.ttl > 0 /\ c.limit \in Nat /\ w.count \in Nat /\ w.until \in Nat
  BY DEF Limits, Window
<1>2. CASE w = NoWindow
  <2>1. Increment(w, c) = [count |-> 1, until |-> now + c.ttl]
    BY <1>2 DEF Increment
  <2> QED BY <1>1, <1>2, <2>1 DEF Window
<1>3. CASE w # NoWindow /\ w.count > c.limit + 1
  <2>1. Increment(w, c) = w
    BY <1>3 DEF Increment
  <2> QED BY <1>1, <1>3, <2>1 DEF Opened
<1>4. CASE w # NoWindow /\ ~(w.count > c.limit + 1)
  <2>1. Increment(w, c) = [w EXCEPT !.count = @ + 1]
    BY <1>4 DEF Increment
  <2>2. Increment(w, c) \in Window /\ Increment(w, c).count = w.count + 1 /\ Increment(w, c).until = w.until
    BY <1>1, <2>1 DEF Window
  <2> QED BY <1>1, <1>4, <2>2 DEF Opened
<1> QED BY <1>2, <1>3, <1>4

\* Nobody takes longer than Patience.
Punctual ==
    \A r \in Requests :
        ~At(r, "idle") => /\ 1 <= req[r].since /\ req[r].since <= now
                          /\ now <= req[r].since + Patience

Checking == \A r \in Requests : At(r, "check") => req[r].check \in DOMAIN checks

AllOpened ==
    \A s \in Stores, i \in DOMAIN checks, x \in Subjects : Opened(window[s][i][x])

Basics == TypeOK /\ 1 <= now /\ Punctual /\ Checking /\ AllOpened

\* What a step of one request keeps.
LEMMA RequestBasics ==
    ASSUME Basics, NEW r \in Requests,
           \A q \in Requests \ {r} : req'[q] = req[q],
           req' \in [Requests -> Request],
           \/ req'[r].pc = "idle"
           \/ ~At(r, "idle") /\ req'[r].since = req[r].since,
           req'[r].pc = "check" => req'[r].check \in DOMAIN checks,
           req'[r].check \in {0} \cup DOMAIN checks,
           UNCHANGED <<now, checks>>
    PROVE  /\ Punctual' /\ Checking'
           /\ \A q \in Requests : req'[q].check \in {0} \cup DOMAIN checks'
<1>1. Punctual'
  BY DEF Basics, Punctual, At
<1>2. Checking'
  BY DEF Basics, Checking, At
<1>3. \A q \in Requests : req'[q].check \in {0} \cup DOMAIN checks'
  BY DEF Basics, TypeOK
<1> QED BY <1>1, <1>2, <1>3

LEMMA BasicsInit == Init => Basics
<1> SUFFICES ASSUME Init PROVE Basics
  OBVIOUS
<1>1. \A r \in Requests : req[r] = Idle
  BY DEF Init
<1>2. req \in [Requests -> Request] /\ \A r \in Requests : req[r].check \in {0} \cup DOMAIN checks
  BY <1>1, IdleTyped DEF Init
<1>3. checks \in Settings /\ window \in [Stores -> [DOMAIN checks -> [Subjects -> Window]]]
  BY NoWindowsTyped DEF Init
<1>4. TypeOK
  BY <1>2, <1>3 DEF Init, TypeOK
<1>5. Punctual /\ Checking
  BY <1>1, IdleTyped DEF Punctual, Checking, At
<1>6. AllOpened
  BY <1>3 DEF AllOpened, Opened, Init, NoWindows
<1> QED BY <1>4, <1>5, <1>6 DEF Basics, Init

\* A step that only moves one request on.
LEMMA MoveBasics ==
    ASSUME Basics, NEW r \in Requests, ~At(r, "idle"),
           NEW pc \in Steps \ {"check"}, Goes(r, pc) \/ Ends(r),
           UNCHANGED <<now, checks>>
    PROVE  /\ Punctual' /\ Checking'
           /\ req' \in [Requests -> Request]
           /\ \A q \in Requests : req'[q].check \in {0} \cup DOMAIN checks'
<1> USE DEF Basics
<1>1. CASE Goes(r, pc)
  <2>1. /\ req' \in [Requests -> Request] /\ req'[r].pc = pc /\ req'[r].since = req[r].since
        /\ req'[r].check = req[r].check /\ \A q \in Requests \ {r} : req'[q] = req[q]
    BY <1>1, GoesTyped
  <2>2. req'[r].check \in {0} \cup DOMAIN checks
    BY <2>1 DEF TypeOK
  <2> QED BY <2>1, <2>2, RequestBasics
<1>2. CASE Ends(r)
  BY <1>2, EndsTyped, IdleTyped, RequestBasics
<1> QED BY <1>1, <1>2

LEMMA StartBasics ==
    ASSUME Basics, NEW r \in Requests, NEW p \in Phones, NEW a \in Ips, Start(r, p, a)
    PROVE  /\ Basics'
           /\ req'[r].pc = "lock" /\ req'[r].phone = p /\ req'[r].since = now
           /\ \A q \in Requests \ {r} : req'[q] = req[q]
           /\ spent'.codes = spent.codes /\ spent'.outages = spent.outages
           /\ spent'.errors = spent.errors /\ spent'.restarts = spent.restarts
<1> USE DEF Basics
<1> DEFINE new == [Idle EXCEPT !.pc = "lock", !.phone = p, !.ip = a, !.since = now]
<1>1. /\ new \in Request /\ new.pc = "lock" /\ new.since = now /\ new.check = 0
      /\ new.phone = p
  BY IdleTyped DEF Request, TypeOK
<1>2. req' = [req EXCEPT ![r] = new]
  BY DEF Start
<1> HIDE DEF new
<1>3. /\ req' \in [Requests -> Request] /\ req'[r] = new
      /\ \A q \in Requests \ {r} : req'[q] = req[q]
  BY <1>1, <1>2 DEF TypeOK
<1>4. Punctual'
  BY <1>1, <1>3, TimesAssumption DEF Punctual, At, Start, TypeOK
<1>5. Checking' /\ \A q \in Requests : req'[q].check \in {0} \cup DOMAIN checks'
  BY <1>1, <1>3 DEF Checking, At, Start, TypeOK
<1>6. /\ spent' \in [outages: Nat, restarts: Nat, errors: Nat, starts: Nat, codes: Nat]
      /\ spent'.codes = spent.codes /\ spent'.outages = spent.outages
      /\ spent'.errors = spent.errors /\ spent'.restarts = spent.restarts
  <2>1. spent \in [outages: Nat, restarts: Nat, errors: Nat, starts: Nat, codes: Nat]
        /\ spent' = [spent EXCEPT !.starts = @ + 1]
    BY DEF Start, TypeOK
  <2> QED BY <2>1
<1>7. UNCHANGED <<now, checks, redis, lock, cool, window, rows, texts, overruns>>
  BY DEF Start
<1>8. TypeOK'
  BY <1>3, <1>5, <1>6, <1>7 DEF TypeOK
<1>9. AllOpened'
  BY <1>7 DEF AllOpened, Opened
<1> QED BY <1>1, <1>3, <1>4, <1>5, <1>6, <1>7, <1>8, <1>9

LEMMA AcquireBasics ==
    ASSUME Basics, NEW r \in Requests, AcquireLock(r) PROVE Basics'
<1> USE DEF Basics
<1>1. Goes(r, "cooldown") \/ Ends(r)
  BY DEF AcquireLock
<1>2. lock' \in [Phones -> Nat]
  BY TimesAssumption DEF AcquireLock, TypeOK
<1>3. UNCHANGED <<now, checks, redis, cool, window, rows, texts, overruns, spent>> /\ ~At(r, "idle")
  BY DEF AcquireLock, At
<1>4. /\ Punctual' /\ Checking' /\ req' \in [Requests -> Request]
      /\ \A q \in Requests : req'[q].check \in {0} \cup DOMAIN checks'
  BY <1>1, <1>3, MoveBasics DEF Steps
<1>5. TypeOK'
  BY <1>2, <1>3, <1>4 DEF TypeOK
<1> QED BY <1>3, <1>4, <1>5 DEF AllOpened, Opened

LEMMA InCooldownBasics ==
    ASSUME Basics, NEW r \in Requests, InCooldown(r) PROVE Basics'
<1> USE DEF Basics
<1>1. Goes(r, "release") \/ Goes(r, "last")
  BY DEF InCooldown
<1>3. UNCHANGED <<now, checks, redis, lock, cool, window, rows, texts, overruns, spent>> /\ ~At(r, "idle")
  BY DEF InCooldown, At
<1>4. /\ Punctual' /\ Checking' /\ req' \in [Requests -> Request]
      /\ \A q \in Requests : req'[q].check \in {0} \cup DOMAIN checks'
  BY <1>1, <1>3, MoveBasics DEF Steps
<1>5. TypeOK'
  BY <1>3, <1>4 DEF TypeOK
<1> QED BY <1>3, <1>4, <1>5 DEF AllOpened, Opened

\* The last message decides whether the checks begin.
LEMMA LastSentTo ==
    ASSUME TypeOK, NEW r \in Requests, LastSentAt(r)
    PROVE  /\ req' \in [Requests -> Request]
           /\ req'[r].pc = IF SentLately(req[r].phone) THEN "release" ELSE "check"
           /\ req'[r].check = 1
           /\ req'[r].since = req[r].since /\ req'[r].phone = req[r].phone /\ req'[r].ip = req[r].ip
           /\ \A q \in Requests \ {r} : req'[q] = req[q]
<1> DEFINE pc == IF SentLately(req[r].phone) THEN "release" ELSE "check"
           new == [req[r] EXCEPT !.pc = pc, !.check = 1]
<1>1. req[r] \in Request /\ pc \in Steps
  BY DEF TypeOK, Steps
<1> HIDE DEF pc
<1>2. /\ new \in Request /\ new.pc = pc /\ new.check = 1
      /\ new.since = req[r].since /\ new.phone = req[r].phone /\ new.ip = req[r].ip
  BY <1>1 DEF Request, Steps
<1>3. req' = [req EXCEPT ![r] = new]
  BY <1>1 DEF LastSentAt, TypeOK, Request, pc
<1> HIDE DEF new
<1> QED BY <1>2, <1>3 DEF TypeOK, pc

LEMMA LastSentBasics ==
    ASSUME Basics, NEW r \in Requests, LastSentAt(r) PROVE Basics'
<1> USE DEF Basics
<1>2. 1 \in DOMAIN checks
  BY ChecksTyped DEF TypeOK
<1>3. UNCHANGED <<now, checks, redis, lock, cool, window, rows, texts, overruns, spent>> /\ ~At(r, "idle")
  BY DEF LastSentAt, At
<1>4. /\ Punctual' /\ Checking' /\ req' \in [Requests -> Request]
      /\ \A q \in Requests : req'[q].check \in {0} \cup DOMAIN checks'
  BY <1>2, <1>3, LastSentTo, RequestBasics
<1>5. TypeOK'
  BY <1>3, <1>4 DEF TypeOK
<1> QED BY <1>3, <1>4, <1>5 DEF AllOpened, Opened

\* The counter of one limit, and where its request goes.
Store == IF redis THEN "redis" ELSE "memory"
Counted(r) ==
    Increment(window[Store][req[r].check][Subject(r, req[r].check)], checks[req[r].check])

LEMMA CheckLimitTo ==
    ASSUME Basics, NEW r \in Requests, CheckLimit(r)
    PROVE  LET i == req[r].check
               x == Subject(r, i)
               w == Counted(r)
           IN  /\ i \in DOMAIN checks /\ i \in 1..Len(checks) /\ Len(checks) \in Nat
               /\ x \in Subjects /\ w \in Window
               /\ window[Store][i][x] \in Window /\ Opened(window[Store][i][x])
               /\ window' \in [Stores -> [DOMAIN checks -> [Subjects -> Window]]]
               /\ window'[Store][i][x] = w
               /\ \A s \in Stores, j \in DOMAIN checks, y \in Subjects :
                      s # Store \/ j # i \/ y # x => window'[s][j][y] = window[s][j][y]
               /\ req' \in [Requests -> Request]
               /\ \A q \in Requests \ {r} : req'[q] = req[q]
               /\ req'[r].since = req[r].since /\ req'[r].phone = req[r].phone /\ req'[r].ip = req[r].ip
               /\ req'[r].code = req[r].code
               /\ \/ ~Allowed(w, checks[i].limit) /\ req'[r].pc = "release" /\ req'[r].check = i
                  \/ /\ Allowed(w, checks[i].limit) /\ i = Len(checks)
                     /\ req'[r].pc = "remove" /\ req'[r].check = i
                  \/ /\ Allowed(w, checks[i].limit) /\ i < Len(checks)
                     /\ req'[r].pc = "check" /\ req'[r].check = i + 1
                     /\ i + 1 \in DOMAIN checks
<1> USE DEF Basics
<1> DEFINE i == req[r].check
           x == Subject(r, i)
           w == Counted(r)
           new == IF ~Allowed(w, checks[i].limit) THEN [req[r] EXCEPT !.pc = "release"]
                  ELSE IF LastCheck(i) THEN [req[r] EXCEPT !.pc = "remove"]
                  ELSE [req[r] EXCEPT !.check = i + 1]
<1>1. /\ i \in DOMAIN checks /\ i \in 1..Len(checks) /\ DOMAIN checks = 1..Len(checks)
      /\ Len(checks) \in Nat /\ checks[i] \in Limits
  BY ChecksTyped DEF CheckLimit, Checking, At, TypeOK
<1>2. x \in Subjects
  BY <1>1, SubjectTyped
<1>3. Store \in Stores
  BY DEF Store, Stores
<1>4. window[Store][i][x] \in Window /\ Opened(window[Store][i][x])
  BY <1>1, <1>2, <1>3 DEF TypeOK, AllOpened
<1>5. w \in Window
  BY <1>1, <1>4, IncrementTyped DEF Counted, TypeOK
<1>6. window' = [window EXCEPT ![Store][i][x] = w]
  BY DEF CheckLimit, Store, Counted
<1>7. req' = [req EXCEPT ![r] = new]
  BY DEF CheckLimit, Store, Counted, TypeOK
<1>8. req[r] \in Request /\ req[r].pc = "check"
  BY DEF CheckLimit, At, TypeOK
<1>13. window \in [Stores -> [DOMAIN checks -> [Subjects -> Window]]]
  BY DEF TypeOK
<1> HIDE DEF x, w
<1>9. /\ new \in Request
      /\ new.since = req[r].since /\ new.phone = req[r].phone /\ new.ip = req[r].ip /\ new.code = req[r].code
      /\ \/ ~Allowed(w, checks[i].limit) /\ new.pc = "release" /\ new.check = i
         \/ /\ Allowed(w, checks[i].limit) /\ i = Len(checks)
            /\ new.pc = "remove" /\ new.check = i
         \/ /\ Allowed(w, checks[i].limit) /\ i < Len(checks)
            /\ new.pc = "check" /\ new.check = i + 1
            /\ i + 1 \in DOMAIN checks
  <2>1. CASE ~Allowed(w, checks[i].limit)
    <3>1. new = [req[r] EXCEPT !.pc = "release"]
      BY <2>1
    <3> QED BY <2>1, <3>1, <1>8 DEF Request
  <2>2. CASE Allowed(w, checks[i].limit) /\ LastCheck(i)
    <3>1. new = [req[r] EXCEPT !.pc = "remove"]
      BY <2>2
    <3> QED BY <2>2, <3>1, <1>1, <1>8 DEF Request, LastCheck
  <2>3. CASE Allowed(w, checks[i].limit) /\ ~LastCheck(i)
    <3>1. new = [req[r] EXCEPT !.check = i + 1]
      BY <2>3
    <3>2. i < Len(checks) /\ i + 1 \in DOMAIN checks /\ i + 1 \in Nat
      BY <2>3, <1>1 DEF LastCheck
    <3> HIDE DEF i
    <3>3. i = req[r].check
      BY DEF i
    <3> QED BY <2>3, <3>1, <3>2, <1>8 DEF Request
  <2> QED BY <2>1, <2>2, <2>3
<1> HIDE DEF new
<1>10. /\ req' \in [Requests -> Request] /\ req'[r] = new
       /\ \A q \in Requests \ {r} : req'[q] = req[q]
  BY <1>7, <1>9 DEF TypeOK
<1> HIDE DEF i
<1>11. /\ window' \in [Stores -> [DOMAIN checks -> [Subjects -> Window]]]
       /\ window'[Store][i][x] = w
       /\ \A s \in Stores, j \in DOMAIN checks, y \in Subjects :
              s # Store \/ j # i \/ y # x => window'[s][j][y] = window[s][j][y]
  BY <1>1, <1>2, <1>3, <1>5, <1>6, <1>13
<1>12. i = req[r].check /\ x = Subject(r, i) /\ w = Counted(r)
  BY DEF i, x, w
<1> HIDE DEF x
<1> QED BY <1>1, <1>2, <1>4, <1>5, <1>9, <1>10, <1>11, <1>12

LEMMA CheckBasics ==
    ASSUME Basics, NEW r \in Requests, CheckLimit(r) PROVE Basics'
<1> DEFINE i == req[r].check
           x == Subject(r, i)
<1>1. UNCHANGED <<now, checks, redis, lock, cool, rows, texts, overruns, spent>> /\ ~At(r, "idle")
  BY DEF CheckLimit, At
<1>2. /\ i \in DOMAIN checks /\ x \in Subjects
      /\ window[Store][i][x] \in Window /\ Opened(window[Store][i][x])
      /\ window' \in [Stores -> [DOMAIN checks -> [Subjects -> Window]]]
      /\ window'[Store][i][x] = Counted(r)
      /\ \A s \in Stores, j \in DOMAIN checks, y \in Subjects :
             s # Store \/ j # i \/ y # x => window'[s][j][y] = window[s][j][y]
  BY CheckLimitTo
<1>3. /\ req' \in [Requests -> Request]
      /\ \A q \in Requests \ {r} : req'[q] = req[q]
      /\ req'[r].since = req[r].since
      /\ req'[r].pc = "check" => req'[r].check \in DOMAIN checks
      /\ req'[r].check \in {0} \cup DOMAIN checks
  BY CheckLimitTo
<1>4. /\ Punctual' /\ Checking'
      /\ \A q \in Requests : req'[q].check \in {0} \cup DOMAIN checks'
  BY <1>1, <1>3, RequestBasics
<1>5. TypeOK'
  BY <1>1, <1>2, <1>3, <1>4 DEF TypeOK, Basics
<1>6. checks[i] \in Limits
  BY <1>2, ChecksTyped DEF Basics, TypeOK
<1>7. Counted(r).count >= 1 /\ Counted(r).until > now
  BY <1>2, <1>6, IncrementTyped DEF Counted, Basics, TypeOK
<1> HIDE DEF i, x
<1>8. AllOpened'
  <2> SUFFICES ASSUME NEW s \in Stores, NEW j \in DOMAIN checks, NEW y \in Subjects
               PROVE  Opened(window[s][j][y])'
    BY <1>1 DEF AllOpened
  <2>1. CASE s = Store /\ j = i /\ y = x
    BY <2>1, <1>1, <1>2, <1>7 DEF Opened
  <2>2. CASE s # Store \/ j # i \/ y # x
    <3>1. window'[s][j][y] = window[s][j][y]
      BY <2>2, <1>2
    <3>2. Opened(window[s][j][y])
      BY DEF Basics, AllOpened
    <3> QED BY <3>1, <3>2, <1>1 DEF Opened
  <2> QED BY <2>1, <2>2
<1> QED BY <1>1, <1>4, <1>5, <1>8 DEF Basics

\* A code is drawn, and the phone's old ones go.
LEMMA RemoveTo ==
    ASSUME TypeOK, NEW r \in Requests, RemoveOne(r)
    PROVE  /\ req' \in [Requests -> Request]
           /\ \A q \in Requests \ {r} : req'[q] = req[q]
           /\ req'[r].since = req[r].since /\ req'[r].phone = req[r].phone /\ req'[r].ip = req[r].ip
           /\ req'[r].check = req[r].check
           /\ spent' \in [outages: Nat, restarts: Nat, errors: Nat, starts: Nat,
                          codes: Nat]
           /\ spent'.outages = spent.outages
           /\ spent'.errors = spent.errors /\ spent'.restarts = spent.restarts
           /\ rows' \in [Phones -> SUBSET OtpRow]
           /\ \A p \in Phones : p # req[r].phone => rows'[p] = rows[p]
           /\ \/ /\ req'[r].pc = "create" /\ req'[r].code = spent.codes + 1
                 /\ spent'.codes = spent.codes + 1
                 /\ rows'[req[r].phone] = {}
              \/ /\ req'[r].pc = "release" /\ UNCHANGED <<rows, spent>>
<1>0. /\ req[r] \in Request /\ req[r].phone \in Phones /\ spent.codes + 1 \in Nat
      /\ spent \in [outages: Nat, restarts: Nat, errors: Nat, starts: Nat, codes: Nat]
  BY DEF TypeOK, Request
<1>1. CASE /\ rows' = [rows EXCEPT ![req[r].phone] = OldCodesGone(req[r].phone)]
           /\ req' = [req EXCEPT ![r].pc = "create", ![r].code = spent.codes + 1]
           /\ spent' = [spent EXCEPT !.codes = @ + 1]
  <2> DEFINE n == spent.codes + 1
             new == [req[r] EXCEPT !.pc = "create", !.code = n]
  <2>1. req' = [req EXCEPT ![r] = new]
    BY <1>0, <1>1 DEF TypeOK, Request
  <2>2. n \in Nat
    BY <1>0
  <2>3. spent' \in [outages: Nat, restarts: Nat, errors: Nat, starts: Nat, codes: Nat]
        /\ spent'.outages = spent.outages /\ spent'.codes = n
        /\ spent'.errors = spent.errors /\ spent'.restarts = spent.restarts
    BY <1>0, <1>1
  <2> HIDE DEF n
  <2>4. /\ new \in Request /\ new.pc = "create" /\ new.code = n
        /\ new.since = req[r].since /\ new.phone = req[r].phone /\ new.ip = req[r].ip /\ new.check = req[r].check
    BY <1>0, <2>2 DEF Request
  <2> HIDE DEF new
  <2>5. /\ req' \in [Requests -> Request] /\ req'[r] = new
        /\ \A q \in Requests \ {r} : req'[q] = req[q]
    BY <2>1, <2>4 DEF TypeOK
  <2>6. /\ rows' \in [Phones -> SUBSET OtpRow] /\ rows'[req[r].phone] = {}
        /\ \A p \in Phones : p # req[r].phone => rows'[p] = rows[p]
    BY <1>0, <1>1 DEF TypeOK, OldCodesGone
  <2>7. n = spent.codes + 1
    BY DEF n
  <2> QED BY <2>3, <2>4, <2>5, <2>6, <2>7
<1>2. CASE Goes(r, "release") /\ UNCHANGED <<rows, spent>>
  BY <1>0, <1>2, GoesTyped DEF Steps, TypeOK
<1> QED BY <1>1, <1>2 DEF RemoveOne

LEMMA RemoveBasics ==
    ASSUME Basics, NEW r \in Requests, RemoveOne(r) PROVE Basics'
<1>1. UNCHANGED <<now, checks, redis, lock, cool, window, texts, overruns>> /\ ~At(r, "idle")
  BY DEF RemoveOne, At
<1>2. /\ req' \in [Requests -> Request]
      /\ \A q \in Requests \ {r} : req'[q] = req[q]
      /\ req'[r].since = req[r].since /\ req'[r].check = req[r].check
      /\ req'[r].pc # "check"
      /\ rows' \in [Phones -> SUBSET OtpRow]
      /\ spent' \in [outages: Nat, restarts: Nat, errors: Nat, starts: Nat, codes: Nat]
  BY RemoveTo DEF Basics
<1>3. req[r].check \in {0} \cup DOMAIN checks
  BY DEF Basics, TypeOK
<1>4. /\ Punctual' /\ Checking'
      /\ \A q \in Requests : req'[q].check \in {0} \cup DOMAIN checks'
  BY <1>1, <1>2, <1>3, RequestBasics
<1>5. TypeOK'
  BY <1>1, <1>2, <1>4 DEF TypeOK, Basics
<1> QED BY <1>1, <1>4, <1>5 DEF Basics, AllOpened, Opened

LEMMA CreateTo ==
    ASSUME Basics, NEW r \in Requests, CreateRow(r)
    PROVE  /\ Basics'
           /\ req'[r] = [req[r] EXCEPT !.pc = "send"]
           /\ req'[r].pc = "send"
           /\ req'[r].phone = req[r].phone /\ req'[r].ip = req[r].ip /\ req'[r].since = req[r].since
           /\ req'[r].code = req[r].code
           /\ \A q \in Requests \ {r} : req'[q] = req[q]
           /\ \A p \in Phones : p # req[r].phone => rows'[p] = rows[p]
           /\ rows'[req[r].phone] = rows[req[r].phone]
                  \cup {[code |-> req[r].code, date |-> IF Dated THEN now ELSE 0]}
<1> DEFINE row == [code |-> req[r].code, date |-> IF Dated THEN now ELSE 0]
<1>1. UNCHANGED <<now, checks, redis, lock, cool, window, texts, overruns, spent>> /\ ~At(r, "idle")
  BY DEF CreateRow, At
<1>2. Goes(r, "send") /\ TypeOK
  BY DEF CreateRow, Basics
<1>3. /\ Punctual' /\ Checking' /\ req' \in [Requests -> Request]
      /\ \A q \in Requests : req'[q].check \in {0} \cup DOMAIN checks'
  BY <1>1, <1>2, MoveBasics DEF Steps
<1>4. /\ req'[r] = [req[r] EXCEPT !.pc = "send"]
      /\ req'[r].pc = "send"
      /\ req'[r].phone = req[r].phone /\ req'[r].ip = req[r].ip /\ req'[r].since = req[r].since
      /\ req'[r].code = req[r].code
      /\ \A q \in Requests \ {r} : req'[q] = req[q]
  BY <1>2, GoesTyped DEF Steps
<1>5. req[r] \in Request /\ row \in OtpRow
  BY <1>2 DEF TypeOK, OtpRow, Request
<1>6. rows' = [rows EXCEPT ![req[r].phone] = @ \cup {row}]
  BY DEF CreateRow
<1> HIDE DEF row
<1>7. /\ rows' \in [Phones -> SUBSET OtpRow]
      /\ \A p \in Phones : p # req[r].phone => rows'[p] = rows[p]
      /\ rows'[req[r].phone] = rows[req[r].phone] \cup {row}
  BY <1>2, <1>5, <1>6 DEF TypeOK, Request
<1>8. TypeOK'
  BY <1>1, <1>2, <1>3, <1>7 DEF TypeOK
<1>9. Basics'
  BY <1>1, <1>3, <1>8 DEF Basics, AllOpened, Opened
<1> QED BY <1>4, <1>7, <1>9 DEF row

LEMMA SendTo ==
    ASSUME Basics, NEW r \in Requests, Send(r)
    PROVE  /\ Basics'
           /\ req'[r].phone = req[r].phone /\ req'[r].ip = req[r].ip /\ req'[r].since = req[r].since
           /\ req'[r].code = req[r].code
           /\ \A q \in Requests \ {r} : req'[q] = req[q]
           /\ spent'.codes = spent.codes /\ spent'.outages = spent.outages
           /\ spent.errors + spent.restarts <= spent'.errors + spent'.restarts
           /\ \/ /\ texts' = texts \cup {[phone |-> req[r].phone, ip |-> req[r].ip,
                                          code |-> req[r].code, at |-> now]}
                 /\ \/ req'[r].pc = "mark"
                    \/ req'[r].pc = "release" /\ spent'.errors + spent'.restarts # 0
              \/ UNCHANGED texts /\ req'[r].pc = "release"
<1> DEFINE m == [phone |-> req[r].phone, ip |-> req[r].ip, code |-> req[r].code, at |-> now]
<1>1. UNCHANGED <<now, checks, redis, lock, cool, window, rows, overruns>> /\ ~At(r, "idle")
  BY DEF Send, At
<1>2. (Goes(r, "mark") \/ Goes(r, "release")) /\ TypeOK
  BY DEF Send, Basics
<1>3. /\ Punctual' /\ Checking' /\ req' \in [Requests -> Request]
      /\ \A q \in Requests : req'[q].check \in {0} \cup DOMAIN checks'
  BY <1>1, <1>2, MoveBasics DEF Steps
<1>4. /\ req'[r].phone = req[r].phone /\ req'[r].ip = req[r].ip /\ req'[r].since = req[r].since
      /\ req'[r].code = req[r].code
      /\ \A q \in Requests \ {r} : req'[q] = req[q]
      /\ Goes(r, "mark") => req'[r].pc = "mark"
      /\ Goes(r, "release") => req'[r].pc = "release"
  BY <1>2, GoesTyped DEF Steps
<1>5. UNCHANGED spent \/ Fault("errors")
  BY DEF Send
<1>6. /\ spent' \in [outages: Nat, restarts: Nat, errors: Nat, starts: Nat, codes: Nat]
      /\ spent'.codes = spent.codes /\ spent'.outages = spent.outages
      /\ spent.errors + spent.restarts <= spent'.errors + spent'.restarts
      /\ Fault("errors") => spent'.errors + spent'.restarts # 0
  BY <1>2, <1>5, FaultTyped DEF TypeOK
<1>7. texts' \subseteq Text
  <2>1. m \in Text
    BY <1>2 DEF TypeOK, Request, Text
  <2> QED BY <1>2, <2>1 DEF Send, TypeOK
<1>8. TypeOK'
  BY <1>1, <1>2, <1>3, <1>6, <1>7 DEF TypeOK
<1>9. Basics'
  BY <1>1, <1>3, <1>8 DEF Basics, AllOpened, Opened
<1>10. \/ /\ texts' = texts \cup {m}
          /\ Goes(r, "mark") \/ (Fault("errors") /\ Goes(r, "release"))
       \/ UNCHANGED texts /\ Goes(r, "release")
  BY DEF Send
<1> QED BY <1>4, <1>6, <1>9, <1>10

LEMMA MarkTo ==
    ASSUME Basics, NEW r \in Requests, SetCooldown(r)
    PROVE  /\ Basics'
           /\ req'[r].pc = "release"
           /\ req'[r].phone = req[r].phone /\ req'[r].ip = req[r].ip /\ req'[r].since = req[r].since
           /\ \A q \in Requests \ {r} : req'[q] = req[q]
           /\ redis => cool'[req[r].phone] = now + Cooldown
           /\ \A p \in Phones : p # req[r].phone => cool'[p] = cool[p]
<1>1. UNCHANGED <<now, checks, redis, lock, window, rows, texts, overruns, spent>> /\ ~At(r, "idle")
  BY DEF SetCooldown, At
<1>2. Goes(r, "release") /\ TypeOK
  BY DEF SetCooldown, Basics
<1>3. /\ Punctual' /\ Checking' /\ req' \in [Requests -> Request]
      /\ \A q \in Requests : req'[q].check \in {0} \cup DOMAIN checks'
  BY <1>1, <1>2, MoveBasics DEF Steps
<1>4. /\ req'[r].pc = "release"
      /\ req'[r].phone = req[r].phone /\ req'[r].ip = req[r].ip /\ req'[r].since = req[r].since
      /\ \A q \in Requests \ {r} : req'[q] = req[q]
  BY <1>2, GoesTyped DEF Steps
<1>5. req[r].phone \in Phones /\ now + Cooldown \in Nat
  BY <1>2, TimesAssumption DEF TypeOK, Request
<1>7. /\ cool' \in [Phones -> Nat]
      /\ redis => cool'[req[r].phone] = now + Cooldown
      /\ \A p \in Phones : p # req[r].phone => cool'[p] = cool[p]
  BY <1>2, <1>5 DEF TypeOK, SetCooldown
<1>8. TypeOK'
  BY <1>1, <1>2, <1>3, <1>7 DEF TypeOK
<1>9. Basics'
  BY <1>1, <1>3, <1>8 DEF Basics, AllOpened, Opened
<1> QED BY <1>4, <1>7, <1>9

LEMMA ReleaseTo ==
    ASSUME Basics, NEW r \in Requests, ReleaseLock(r)
    PROVE  /\ Basics'
           /\ req'[r].pc = "idle"
           /\ \A q \in Requests \ {r} : req'[q] = req[q]
           /\ \A p \in Phones : p # req[r].phone => lock'[p] = lock[p]
<1>1. UNCHANGED <<now, checks, redis, cool, window, rows, texts, overruns, spent>> /\ ~At(r, "idle")
  BY DEF ReleaseLock, At
<1>2. Ends(r) /\ TypeOK
  BY DEF ReleaseLock, Basics
<1>3. /\ Punctual' /\ Checking' /\ req' \in [Requests -> Request]
      /\ \A q \in Requests : req'[q].check \in {0} \cup DOMAIN checks'
  BY <1>1, <1>2, MoveBasics DEF Steps
<1>4. req'[r].pc = "idle" /\ \A q \in Requests \ {r} : req'[q] = req[q]
  BY <1>2, EndsTyped, IdleTyped
<1>7. /\ lock' \in [Phones -> Nat]
      /\ \A p \in Phones : p # req[r].phone => lock'[p] = lock[p]
  BY <1>2 DEF TypeOK, ReleaseLock, Request
<1>8. TypeOK'
  BY <1>1, <1>2, <1>3, <1>7 DEF TypeOK
<1>9. Basics'
  BY <1>1, <1>3, <1>8 DEF Basics, AllOpened, Opened
<1> QED BY <1>4, <1>7, <1>9

LEMMA ErrorTo ==
    ASSUME Basics, NEW r \in Requests, RequestError(r)
    PROVE  /\ Basics'
           /\ req'[r].pc = "release"
           /\ req'[r].phone = req[r].phone /\ req'[r].ip = req[r].ip /\ req'[r].since = req[r].since
           /\ \A q \in Requests \ {r} : req'[q] = req[q]
           /\ spent'.codes = spent.codes /\ spent'.outages = spent.outages
           /\ spent.errors + spent.restarts <= spent'.errors + spent'.restarts
<1>1. UNCHANGED <<now, checks, redis, lock, cool, window, rows, texts, overruns>> /\ ~At(r, "idle")
  BY DEF RequestError, At
<1>2. Goes(r, "release") /\ TypeOK /\ Fault("errors")
  BY DEF RequestError, Basics
<1>3. /\ Punctual' /\ Checking' /\ req' \in [Requests -> Request]
      /\ \A q \in Requests : req'[q].check \in {0} \cup DOMAIN checks'
  BY <1>1, <1>2, MoveBasics DEF Steps
<1>4. /\ req'[r].pc = "release"
      /\ req'[r].phone = req[r].phone /\ req'[r].ip = req[r].ip /\ req'[r].since = req[r].since
      /\ \A q \in Requests \ {r} : req'[q] = req[q]
  BY <1>2, GoesTyped DEF Steps
<1>6. /\ spent' \in [outages: Nat, restarts: Nat, errors: Nat, starts: Nat, codes: Nat]
      /\ spent'.codes = spent.codes /\ spent'.outages = spent.outages
      /\ spent.errors + spent.restarts <= spent'.errors + spent'.restarts
  BY <1>2, FaultTyped
<1>8. TypeOK'
  BY <1>1, <1>2, <1>3, <1>6 DEF TypeOK
<1>9. Basics'
  BY <1>1, <1>3, <1>8 DEF Basics, AllOpened, Opened
<1> QED BY <1>4, <1>6, <1>9

LEMMA TickTo ==
    ASSUME Basics, Tick
    PROVE  /\ Basics'
           /\ now' = now + 1
           /\ \A r \in Requests : ~At(r, "idle") => now < req[r].since + Patience
           /\ \A p \in Phones : lock[p] > now' => lock'[p] = lock[p]
           /\ \A p \in Phones : cool[p] > now' => cool'[p] = cool[p]
           /\ \A s \in Stores, i \in DOMAIN checks, x \in Subjects :
                  window[s][i][x].until > now' => window'[s][i][x] = window[s][i][x]
           /\ \A p \in Phones : overruns'[p] = IF Outlived(p) THEN overruns[p] + 1
                                                            ELSE overruns[p]
<1> DEFINE left(s, i, x) == IF Kept(window[s][i][x].until) = 0 THEN NoWindow
                                                              ELSE window[s][i][x]
<1>1. /\ UNCHANGED <<checks, redis, rows, req, texts, spent>>
      /\ now' = now + 1 /\ now \in Nat /\ TypeOK
      /\ \A r \in Requests : ~At(r, "idle") => now < req[r].since + Patience
  BY DEF Tick, TypeOK, Basics
<1>2. \A p \in Phones : lock[p] \in Nat /\ cool[p] \in Nat
  BY <1>1 DEF TypeOK
<1>3. /\ lock' \in [Phones -> Nat] /\ cool' \in [Phones -> Nat]
      /\ \A p \in Phones : lock[p] > now' => lock'[p] = lock[p]
      /\ \A p \in Phones : cool[p] > now' => cool'[p] = cool[p]
  BY <1>1, <1>2 DEF Tick, Kept
<1>4. \A s \in Stores, i \in DOMAIN checks, x \in Subjects :
          window[s][i][x] \in Window /\ Opened(window[s][i][x])
  BY DEF Basics, TypeOK, AllOpened
<1>5. \A s \in Stores, i \in DOMAIN checks, x \in Subjects :
          /\ left(s, i, x) \in Window
          /\ window[s][i][x].until > now' => left(s, i, x) = window[s][i][x]
          /\ left(s, i, x) = NoWindow \/ (left(s, i, x).count >= 1 /\ left(s, i, x).until > now')
  <2> SUFFICES ASSUME NEW s \in Stores, NEW i \in DOMAIN checks, NEW x \in Subjects
               PROVE  /\ left(s, i, x) \in Window
                      /\ window[s][i][x].until > now' => left(s, i, x) = window[s][i][x]
                      /\ left(s, i, x) = NoWindow \/ (left(s, i, x).count >= 1 /\ left(s, i, x).until > now')
    OBVIOUS
  <2>1. window[s][i][x].until \in Nat /\ NoWindow \in Window
    BY <1>4 DEF Window, NoWindow
  <2>2. CASE window[s][i][x].until <= now + 1
    <3>1. left(s, i, x) = NoWindow
      BY <2>2 DEF Kept
    <3> QED BY <1>1, <2>1, <2>2, <3>1
  <2>3. CASE window[s][i][x].until > now + 1
    <3>1. left(s, i, x) = window[s][i][x]
      BY <1>1, <2>1, <2>3 DEF Kept
    <3>2. window[s][i][x] # NoWindow
      BY <1>1, <2>3 DEF NoWindow
    <3> QED BY <1>1, <1>4, <2>1, <2>3, <3>1, <3>2 DEF Opened
  <2> QED BY <1>1, <2>1, <2>2, <2>3
<1>6. window' = [s \in Stores |-> [i \in DOMAIN checks |-> [x \in Subjects |-> left(s, i, x)]]]
  BY DEF Tick
<1> HIDE DEF left
<1>7. /\ window' \in [Stores -> [DOMAIN checks -> [Subjects -> Window]]]
      /\ \A s \in Stores, i \in DOMAIN checks, x \in Subjects : window'[s][i][x] = left(s, i, x)
  BY <1>5, <1>6
<1>12. /\ overruns' \in [Phones -> Nat]
       /\ \A p \in Phones : overruns'[p] = IF Outlived(p) THEN overruns[p] + 1
                                                        ELSE overruns[p]
  <2>1. \A p \in Phones : overruns[p] \in Nat
    BY <1>1 DEF TypeOK
  <2> QED BY <2>1 DEF Tick
<1>8. TypeOK'
  BY <1>1, <1>3, <1>7, <1>12 DEF TypeOK
<1>9. AllOpened'
  BY <1>1, <1>5, <1>7 DEF AllOpened, Opened
<1>10. Punctual'
  <2> SUFFICES ASSUME NEW r \in Requests, ~At(r, "idle")
               PROVE  /\ 1 <= req[r].since /\ req[r].since <= now + 1
                      /\ now + 1 <= req[r].since + Patience
    BY <1>1 DEF Punctual, At
  <2>1. req[r].since \in Nat /\ Patience \in Nat
    BY <1>1, TimesAssumption DEF TypeOK, Request
  <2> QED BY <1>1, <2>1 DEF Basics, Punctual
<1>11. Checking' /\ 1 <= now'
  BY <1>1 DEF Basics, Checking, At
<1> QED BY <1>1, <1>3, <1>5, <1>7, <1>8, <1>9, <1>10, <1>11, <1>12 DEF Basics

LEMMA ChangesTo ==
    ASSUME Basics, RedisChanges PROVE Basics' /\ ~Steady'
<1>1. /\ UNCHANGED <<now, checks, lock, cool, window, rows, req, texts, overruns>>
      /\ redis' \in BOOLEAN /\ Fault("outages") /\ TypeOK
  BY DEF RedisChanges, Basics, TypeOK
<1>2. /\ spent' \in [outages: Nat, restarts: Nat, errors: Nat, starts: Nat, codes: Nat]
      /\ spent'.outages # 0
  BY <1>1, FaultTyped
<1>3. TypeOK'
  BY <1>1, <1>2 DEF TypeOK
<1> QED BY <1>1, <1>2, <1>3 DEF Basics, Punctual, Checking, AllOpened, Opened, At, Steady

LEMMA RestartTo ==
    ASSUME Basics, Restart
    PROVE  /\ Basics'
           /\ \A r \in Requests : req'[r].pc = "idle"
           /\ spent'.codes = spent.codes /\ spent'.outages = spent.outages
           /\ spent'.errors + spent'.restarts # 0
<1>1. /\ UNCHANGED <<now, checks, redis, lock, cool, rows, texts, overruns>>
      /\ Fault("restarts") /\ TypeOK
      /\ req' = [r \in Requests |-> Idle]
      /\ window' = [window EXCEPT !["memory"] = NoWindows(checks)]
  BY DEF Restart, Basics
<1>2. /\ spent' \in [outages: Nat, restarts: Nat, errors: Nat, starts: Nat, codes: Nat]
      /\ spent'.codes = spent.codes /\ spent'.outages = spent.outages
      /\ spent'.errors + spent'.restarts # 0
  BY <1>1, FaultTyped
<1>3. /\ req' \in [Requests -> Request]
      /\ \A r \in Requests : req'[r].pc = "idle" /\ req'[r].check = 0
  BY <1>1, IdleTyped
<1>4. /\ NoWindows(checks) \in [DOMAIN checks -> [Subjects -> Window]]
      /\ window \in [Stores -> [DOMAIN checks -> [Subjects -> Window]]]
      /\ "memory" \in Stores
  BY <1>1, NoWindowsTyped DEF TypeOK, Stores
<1>5. /\ window' \in [Stores -> [DOMAIN checks -> [Subjects -> Window]]]
      /\ window'["memory"] = NoWindows(checks)
      /\ \A s \in Stores : s # "memory" => window'[s] = window[s]
  BY <1>1, <1>4
<1>6. TypeOK'
  BY <1>1, <1>2, <1>3, <1>5 DEF TypeOK
<1>7. AllOpened'
  <2> SUFFICES ASSUME NEW s \in Stores, NEW i \in DOMAIN checks, NEW x \in Subjects
               PROVE  Opened(window[s][i][x])'
    BY <1>1 DEF AllOpened
  <2>1. CASE s = "memory"
    <3>1. window'[s][i][x] = NoWindow
      BY <1>5, <2>1 DEF NoWindows
    <3> QED BY <3>1 DEF Opened
  <2>2. CASE s # "memory"
    <3>1. window'[s][i][x] = window[s][i][x]
      BY <1>5, <2>2
    <3>2. Opened(window[s][i][x])
      BY DEF Basics, AllOpened
    <3> QED BY <1>1, <3>1, <3>2 DEF Opened
  <2> QED BY <2>1, <2>2
<1> QED BY <1>1, <1>2, <1>3, <1>6, <1>7 DEF Basics, Punctual, Checking, At

LEMMA BasicsStep == Basics /\ [Next]_vars => Basics'
<1> SUFFICES ASSUME Basics, [Next]_vars PROVE Basics'
  OBVIOUS
<1>1. CASE \E r \in Requests, p \in Phones, a \in Ips : Start(r, p, a)
  BY <1>1, StartBasics
<1>2. CASE \E r \in Requests : RequestStep(r)
  BY <1>2, AcquireBasics, InCooldownBasics, LastSentBasics, CheckBasics,
     RemoveBasics, CreateTo, SendTo, MarkTo, ReleaseTo DEF RequestStep
<1>3. CASE \E r \in Requests : RequestError(r)
  BY <1>3, ErrorTo
<1>4. CASE UNCHANGED vars
  BY <1>4 DEF Basics, TypeOK, Punctual, Checking, AllOpened, Opened, At, vars
<1> QED BY <1>1, <1>2, <1>3, <1>4, TickTo, ChangesTo, RestartTo DEF Next

\* The state of locks, windows, codes and requests is well typed, for any rate
\* limits, times and numbers of requests.
THEOREM TypeCorrect == Spec => []TypeOK
<1>1. Basics => TypeOK
  BY DEF Basics
<1> QED BY BasicsInit, BasicsStep, <1>1, PTL DEF Spec

(***************************************************************************)
(* One request at a time, and one more each time one outlived its guard    *)
(***************************************************************************)

LEMMA Overrunning ==
    ASSUME Basics, [Next]_vars
    PROVE  \A p \in Phones : /\ overruns[p] \in Nat /\ overruns'[p] \in Nat
                             /\ overruns[p] <= overruns'[p]
<1>0. Basics'
  BY BasicsStep
<1>1. \A p \in Phones : overruns[p] \in Nat /\ overruns'[p] \in Nat
  BY <1>0 DEF Basics, TypeOK
<1>2. CASE Tick
  BY <1>1, <1>2, TickTo
<1>3. CASE UNCHANGED overruns
  BY <1>1, <1>3
<1>4. Tick \/ UNCHANGED overruns
  BY DEF Next, RequestStep, Start, AcquireLock, InCooldown, LastSentAt, CheckLimit, RemoveOne,
         CreateRow, Send, SetCooldown, ReleaseLock, RequestError, RedisChanges, Restart, vars
<1> QED BY <1>2, <1>3, <1>4

Active == {r \in Requests : ~At(r, "idle")}

LEMMA ActiveInit == Init => IsFiniteSet(Active)
<1> SUFFICES ASSUME Init PROVE IsFiniteSet(Active)
  OBVIOUS
<1>1. Active = {}
  BY IdleTyped DEF Init, Active, At
<1> QED BY <1>1, FS_EmptySet

LEMMA ActiveStep ==
    ASSUME Basics, IsFiniteSet(Active), [Next]_vars PROVE IsFiniteSet(Active')
<1> USE DEF Basics
<1>2. ASSUME NEW r \in Requests, \A q \in Requests \ {r} : req'[q] = req[q]
      PROVE  IsFiniteSet(Active')
  <2>1. Active' \subseteq Active \cup {r}
    BY <1>2 DEF Active, At
  <2> QED BY <2>1, FS_AddElement, FS_Subset
<1>3. ASSUME NEW r \in Requests,
             (\E pc \in Steps : Goes(r, pc)) \/ Ends(r)
      PROVE  IsFiniteSet(Active')
  BY <1>2, <1>3, GoesTyped, EndsTyped
<1>4. ASSUME NEW r \in Requests, NEW p \in Phones, NEW a \in Ips, Start(r, p, a)
      PROVE  IsFiniteSet(Active')
  BY <1>2, <1>4, StartBasics
<1>5. ASSUME NEW r \in Requests, RequestStep(r) \/ RequestError(r)
      PROVE  IsFiniteSet(Active')
  <2>1. \/ \E pc \in Steps : Goes(r, pc)
        \/ Ends(r)
        \/ LastSentAt(r) \/ CheckLimit(r) \/ RemoveOne(r) \/ Send(r)
    BY <1>5 DEF RequestStep, AcquireLock, InCooldown, CreateRow, SetCooldown, ReleaseLock,
                RequestError, Steps
  <2> QED BY <1>2, <1>3, <2>1, LastSentTo, CheckLimitTo, RemoveTo, SendTo
<1>6. CASE Tick \/ RedisChanges \/ UNCHANGED vars
  BY <1>6 DEF Tick, RedisChanges, vars, Active, At
<1>7. CASE Restart
  <2>1. \A r \in Requests : req'[r].pc = "idle"
    BY <1>7, RestartTo
  <2>2. Active' = {}
    BY <2>1 DEF Active, At
  <2> QED BY <2>2, FS_EmptySet
<1> QED BY <1>4, <1>5, <1>6, <1>7 DEF Next

\* A set of requests under way that lost members, or gained one.
LEMMA Fewer ==
    ASSUME IsFiniteSet(Active), NEW S \in SUBSET Active
    PROVE  /\ IsFiniteSet(S) /\ Cardinality(S) \in Nat
           /\ \A T \in SUBSET S : /\ IsFiniteSet(T) /\ Cardinality(T) \in Nat
                                  /\ Cardinality(T) <= Cardinality(S)
           /\ \A r : \A T \in SUBSET (S \cup {r}) :
                  /\ IsFiniteSet(T) /\ Cardinality(T) \in Nat
                  /\ Cardinality(T) <= Cardinality(S) + 1
           /\ \A r \in S : \A T \in SUBSET (S \ {r}) :
                  /\ IsFiniteSet(T) /\ Cardinality(T) \in Nat
                  /\ Cardinality(T) + 1 <= Cardinality(S)
<1>1. IsFiniteSet(S) /\ Cardinality(S) \in Nat
  BY FS_Subset, FS_CardinalityType
<1>2. ASSUME NEW T \in SUBSET S
      PROVE  IsFiniteSet(T) /\ Cardinality(T) \in Nat /\ Cardinality(T) <= Cardinality(S)
  BY <1>1, FS_Subset, FS_CardinalityType
<1>3. ASSUME NEW r, NEW T \in SUBSET (S \cup {r})
      PROVE  /\ IsFiniteSet(T) /\ Cardinality(T) \in Nat
             /\ Cardinality(T) <= Cardinality(S) + 1
  <2>1. /\ IsFiniteSet(S \cup {r})
        /\ Cardinality(S \cup {r}) \in Nat
        /\ Cardinality(S \cup {r}) <= Cardinality(S) + 1
    <3>1. /\ IsFiniteSet(S \cup {r})
          /\ \/ Cardinality(S \cup {r}) = Cardinality(S)
             \/ Cardinality(S \cup {r}) = Cardinality(S) + 1
      BY <1>1, FS_AddElement, Zenon
    <3> QED BY <1>1, <3>1
  <2>2. IsFiniteSet(T) /\ Cardinality(T) \in Nat /\ Cardinality(T) <= Cardinality(S \cup {r})
    BY <2>1, FS_Subset, FS_CardinalityType
  <2> QED BY <1>1, <2>1, <2>2
<1>4. ASSUME NEW r \in S, NEW T \in SUBSET (S \ {r})
      PROVE  /\ IsFiniteSet(T) /\ Cardinality(T) \in Nat
             /\ Cardinality(T) + 1 <= Cardinality(S)
  <2>1. IsFiniteSet(S \ {r}) /\ Cardinality(S \ {r}) = Cardinality(S) - 1
    BY <1>1, FS_RemoveElement
  <2>2. IsFiniteSet(T) /\ Cardinality(T) \in Nat /\ Cardinality(T) <= Cardinality(S \ {r})
    BY <2>1, FS_Subset, FS_CardinalityType
  <2> QED BY <1>1, <2>1, <2>2
<1> QED BY <1>1, <1>2, <1>3, <1>4

\* Requests of a phone that got past the lock.
Locked(p) == {r \in Requests : PastLock(r) /\ req[r].phone = p}

\* They are as many as outlived the lock, and one if it is not free.
LockInv ==
    Steady /\ redis =>
        \A p \in Phones :
            Cardinality(Locked(p)) + (IF lock[p] = 0 THEN 1 ELSE 0) <= 1 + overruns[p]

LEMMA LockedActive == \A p : Locked(p) \in SUBSET Active
  BY DEF Locked, Active, PastLock, At

LEMMA LockKept ==
    ASSUME Basics, Basics', LockInv, IsFiniteSet(Active),
           spent'.outages = spent.outages, UNCHANGED <<redis, lock, overruns>>,
           \A q \in Requests : PastLock(q)' => PastLock(q) /\ req'[q].phone = req[q].phone
    PROVE  LockInv'
<1> SUFFICES ASSUME Steady, redis, NEW p \in Phones
             PROVE  Cardinality(Locked(p))' + (IF lock[p] = 0 THEN 1 ELSE 0) <= 1 + overruns[p]
  BY DEF LockInv, Steady
<1>1. Locked(p)' \in SUBSET Locked(p)
  BY DEF Locked
<1>2. PICK S, T : S = Locked(p) /\ T = Locked(p)'
  OBVIOUS
<1>3. /\ Cardinality(S) \in Nat /\ Cardinality(T) \in Nat /\ Cardinality(T) <= Cardinality(S)
  BY <1>1, <1>2, LockedActive, Fewer
<1>4. Cardinality(S) + (IF lock[p] = 0 THEN 1 ELSE 0) <= 1 + overruns[p]
  BY <1>2 DEF LockInv
<1>5. overruns[p] \in Nat /\ Cardinality(Locked(p))' = Cardinality(T)
  BY <1>2 DEF Basics, TypeOK
<1> QED BY <1>3, <1>4, <1>5

LEMMA LockAcquire ==
    ASSUME Basics, IsFiniteSet(Active), LockInv, NEW r \in Requests, AcquireLock(r)
    PROVE  LockInv'
<1> DEFINE p == req[r].phone
<1>1. /\ TypeOK /\ p \in Phones /\ req[r].pc = "lock"
      /\ UNCHANGED <<now, redis, spent, overruns>> /\ now + LockTtl \in Nat /\ now + LockTtl # 0
      /\ Basics'
  BY TimesAssumption, AcquireBasics DEF Basics, TypeOK, AcquireLock, At, Request
<1>2. CASE Ends(r)
  <2>1. UNCHANGED lock
    BY <1>1, <1>2, EndsTyped, IdleTyped, GoesTyped DEF AcquireLock, Steps
  <2>2. /\ req'[r].pc = "idle" /\ \A q \in Requests \ {r} : req'[q] = req[q]
    BY <1>1, <1>2, EndsTyped, IdleTyped
  <2> QED BY <1>1, <2>1, <2>2, LockKept DEF PastLock
<1>3. CASE Goes(r, "cooldown") /\ redis /\ Lockable(p) /\ lock' = [lock EXCEPT ![p] = now + LockTtl]
  <2>1. /\ req'[r].pc = "cooldown" /\ req'[r].phone = p
        /\ \A q \in Requests \ {r} : req'[q] = req[q]
    BY <1>1, <1>3, GoesTyped DEF Steps
  <2>2. /\ lock'[p] # 0 /\ lock[p] = 0
        /\ \A x \in Phones : x # p => lock'[x] = lock[x]
    BY <1>1, <1>3 DEF TypeOK, Lockable
  <2> HIDE DEF p
  <2> SUFFICES ASSUME Steady, NEW x \in Phones
               PROVE  Cardinality(Locked(x))' + (IF lock'[x] = 0 THEN 1 ELSE 0) <= 1 + overruns[x]
    BY <1>1 DEF LockInv, Steady
  <2>3. PICK S, T : S = Locked(x) /\ T = Locked(x)'
    OBVIOUS
  <2>4. Cardinality(S) + (IF lock[x] = 0 THEN 1 ELSE 0) <= 1 + overruns[x]
    BY <1>3, <2>3 DEF LockInv
  <2>5. overruns[x] \in Nat /\ Cardinality(Locked(x))' = Cardinality(T)
    BY <1>1, <2>3 DEF TypeOK
  <2>6. CASE x = p
    <3>1. T \in SUBSET (S \cup {r})
      BY <2>1, <2>3, <2>6 DEF Locked, PastLock
    <3>2. Cardinality(S) \in Nat /\ Cardinality(T) \in Nat /\ Cardinality(T) <= Cardinality(S) + 1
      BY <2>3, <3>1, LockedActive, Fewer
    <3> QED BY <2>2, <2>4, <2>5, <2>6, <3>2
  <2>7. CASE x # p
    <3>1. T = S
      BY <1>1, <2>1, <2>3, <2>7 DEF Locked, PastLock
    <3> QED BY <2>2, <2>4, <2>5, <2>7, <3>1
  <2> QED BY <2>6, <2>7
<1>4. CASE Goes(r, "cooldown") /\ ~redis
  BY <1>1, <1>4 DEF LockInv
<1> QED BY <1>2, <1>3, <1>4 DEF AcquireLock

LEMMA LockRelease ==
    ASSUME Basics, IsFiniteSet(Active), LockInv, NEW r \in Requests, ReleaseLock(r)
    PROVE  LockInv'
<1>1. /\ Basics' /\ req'[r].pc = "idle" /\ \A q \in Requests \ {r} : req'[q] = req[q]
      /\ \A p \in Phones : p # req[r].phone => lock'[p] = lock[p]
  BY ReleaseTo
<1>2. UNCHANGED <<redis, spent, overruns>> /\ PastLock(r)
  BY DEF ReleaseLock, PastLock, At
<1> SUFFICES ASSUME Steady, redis, NEW x \in Phones
             PROVE  Cardinality(Locked(x))' + (IF lock'[x] = 0 THEN 1 ELSE 0) <= 1 + overruns[x]
  BY <1>2 DEF LockInv, Steady
<1>3. PICK S, T : S = Locked(x) /\ T = Locked(x)'
  OBVIOUS
<1>4. Cardinality(S) + (IF lock[x] = 0 THEN 1 ELSE 0) <= 1 + overruns[x]
  BY <1>3 DEF LockInv
<1>5. overruns[x] \in Nat /\ Cardinality(Locked(x))' = Cardinality(T)
  BY <1>3 DEF Basics, TypeOK
<1>6. CASE x = req[r].phone
  <2>1. T \in SUBSET (S \ {r}) /\ r \in S
    BY <1>1, <1>2, <1>3, <1>6 DEF Locked, PastLock
  <2>2. Cardinality(S) \in Nat /\ Cardinality(T) \in Nat /\ Cardinality(T) + 1 <= Cardinality(S)
    BY <1>3, <2>1, LockedActive, Fewer
  <2> QED BY <1>4, <1>5, <2>2
<1>7. CASE x # req[r].phone
  <2>1. T = S
    BY <1>1, <1>2, <1>3, <1>7 DEF Locked, PastLock
  <2> QED BY <1>1, <1>4, <1>5, <1>7, <2>1
<1> QED BY <1>6, <1>7

\* The lock lapses under those it let through, and that is counted.
LEMMA LockTick ==
    ASSUME Basics, IsFiniteSet(Active), LockInv, Tick PROVE LockInv'
<1>1. /\ UNCHANGED <<redis, spent, req>>
      /\ \A x \in Phones : /\ overruns[x] \in Nat
                           /\ overruns'[x] = IF Outlived(x) THEN overruns[x] + 1 ELSE overruns[x]
                           /\ lock'[x] = Kept(lock[x])
  BY TickTo DEF Tick, Basics, TypeOK
<1> SUFFICES ASSUME Steady, redis, NEW x \in Phones
             PROVE  Cardinality(Locked(x))' + (IF lock'[x] = 0 THEN 1 ELSE 0) <= 1 + overruns'[x]
  BY <1>1 DEF LockInv, Steady
<1>2. Locked(x)' = Locked(x)
  BY <1>1 DEF Locked, PastLock
<1>3. PICK S : S = Locked(x)
  OBVIOUS
<1>4. /\ Cardinality(S) + (IF lock[x] = 0 THEN 1 ELSE 0) <= 1 + overruns[x]
      /\ Cardinality(Locked(x))' = Cardinality(S) /\ Cardinality(S) \in Nat
  BY <1>2, <1>3, LockedActive, Fewer DEF LockInv
<1>5. CASE S = {}
  BY <1>1, <1>4, <1>5, FS_EmptySet
<1>6. CASE S # {} /\ lock[x] # 0 /\ lock'[x] = 0
  <2>1. Outlived(x)
    BY <1>1, <1>3, <1>6 DEF Outlived, Over, Locked
  <2> QED BY <1>1, <1>4, <1>6, <2>1
<1>7. CASE lock[x] = 0 \/ lock'[x] # 0
  BY <1>1, <1>4, <1>7
<1> QED BY <1>5, <1>6, <1>7

LEMMA LockInit == Init => LockInv
<1> SUFFICES ASSUME Init, NEW p \in Phones
             PROVE  Cardinality(Locked(p)) + (IF lock[p] = 0 THEN 1 ELSE 0) <= 1 + overruns[p]
  BY DEF LockInv
<1>1. Locked(p) = {} /\ lock[p] = 0 /\ overruns[p] = 0
  BY IdleTyped DEF Init, Locked, PastLock
<1> QED BY <1>1, FS_EmptySet

LEMMA LockStep ==
    ASSUME Basics, IsFiniteSet(Active), LockInv, [Next]_vars PROVE LockInv'
<1> USE DEF Basics
<1>0. Basics'
  BY BasicsStep
<1>1. ASSUME NEW r \in Requests, NEW p \in Phones, NEW a \in Ips, Start(r, p, a)
      PROVE  LockInv'
  <2>1. /\ req'[r].pc = "lock" /\ \A q \in Requests \ {r} : req'[q] = req[q]
        /\ spent'.outages = spent.outages /\ UNCHANGED <<redis, lock, overruns>>
    BY <1>1, StartBasics DEF Start
  <2> QED BY <1>0, <2>1, LockKept DEF PastLock
<1>12. ASSUME NEW r \in Requests, PastLock(r),
              \A q \in Requests \ {r} : req'[q] = req[q], req'[r].phone = req[r].phone,
              spent'.outages = spent.outages, UNCHANGED <<redis, lock, overruns>>
       PROVE  LockInv'
  <2>1. \A q \in Requests : PastLock(q)' => PastLock(q) /\ req'[q].phone = req[q].phone
    BY <1>12 DEF PastLock
  <2> QED BY <1>0, <1>12, <2>1, LockKept
<1>2. ASSUME NEW r \in Requests, InCooldown(r) PROVE LockInv'
  <2>1. (Goes(r, "release") \/ Goes(r, "last")) /\ PastLock(r)
        /\ spent'.outages = spent.outages /\ UNCHANGED <<redis, lock, overruns>>
    BY <1>2 DEF InCooldown, PastLock, At
  <2>2. /\ \A q \in Requests \ {r} : req'[q] = req[q]
        /\ req'[r].phone = req[r].phone
    BY <2>1, GoesTyped DEF Steps
  <2> QED BY <1>12, <2>1, <2>2
<1>3. ASSUME NEW r \in Requests, LastSentAt(r) PROVE LockInv'
  <2>1. PastLock(r) /\ spent'.outages = spent.outages /\ UNCHANGED <<redis, lock, overruns>>
    BY <1>3 DEF LastSentAt, PastLock, At
  <2> QED BY <1>3, <1>12, <2>1, LastSentTo
<1>4. ASSUME NEW r \in Requests, CheckLimit(r) PROVE LockInv'
  <2>1. PastLock(r) /\ spent'.outages = spent.outages /\ UNCHANGED <<redis, lock, overruns>>
    BY <1>4 DEF CheckLimit, PastLock, At
  <2>2. /\ \A q \in Requests \ {r} : req'[q] = req[q]
        /\ req'[r].phone = req[r].phone
    BY <1>4, CheckLimitTo
  <2> QED BY <1>12, <2>1, <2>2
<1>5. ASSUME NEW r \in Requests, RemoveOne(r) PROVE LockInv'
  <2>1. PastLock(r) /\ UNCHANGED <<redis, lock, overruns>>
    BY <1>5 DEF RemoveOne, PastLock, At
  <2> QED BY <1>5, <1>12, <2>1, RemoveTo
<1>6. ASSUME NEW r \in Requests, CreateRow(r) PROVE LockInv'
  <2>1. PastLock(r) /\ spent'.outages = spent.outages /\ UNCHANGED <<redis, lock, overruns>>
    BY <1>6 DEF CreateRow, PastLock, At
  <2> QED BY <1>6, <1>12, <2>1, CreateTo
<1>7. ASSUME NEW r \in Requests, Send(r) PROVE LockInv'
  <2>1. PastLock(r) /\ UNCHANGED <<redis, lock, overruns>>
    BY <1>7 DEF Send, PastLock, At
  <2> QED BY <1>7, <1>12, <2>1, SendTo
<1>8. ASSUME NEW r \in Requests, SetCooldown(r) PROVE LockInv'
  <2>1. PastLock(r) /\ spent'.outages = spent.outages /\ UNCHANGED <<redis, lock, overruns>>
    BY <1>8 DEF SetCooldown, PastLock, At
  <2> QED BY <1>8, <1>12, <2>1, MarkTo
<1>9. ASSUME NEW r \in Requests, RequestError(r) PROVE LockInv'
  <2>1. PastLock(r) /\ UNCHANGED <<redis, lock, overruns>>
    BY <1>9 DEF RequestError, PastLock, At
  <2> QED BY <1>9, <1>12, <2>1, ErrorTo
<1>10. ASSUME RedisChanges PROVE LockInv'
  BY <1>10, ChangesTo DEF LockInv
<1>11. ASSUME Restart PROVE LockInv'
  <2>1. UNCHANGED <<redis, lock, overruns>> /\ spent'.outages = spent.outages
        /\ \A r \in Requests : req'[r].pc = "idle"
    BY <1>11, RestartTo DEF Restart
  <2> QED BY <1>0, <2>1, LockKept DEF PastLock
<1>13. CASE UNCHANGED vars
  <2>1. UNCHANGED <<redis, lock, overruns, req, spent>>
    BY <1>13 DEF vars
  <2> QED BY <1>0, <2>1, LockKept DEF PastLock
<1> QED BY <1>1, <1>2, <1>3, <1>4, <1>5, <1>6, <1>7, <1>8, <1>9, <1>10, <1>11,
           <1>13, LockAcquire, LockRelease, LockTick DEF Next, RequestStep

OneLimit(i) == /\ checks[i].scope = "phone" /\ checks[i].limit = 1
               /\ checks[i].ttl >= Cooldown

\* Requests of a phone that the i-th limit let through.
Passing(p, i) == {r \in Requests : Past(r, i) /\ req[r].phone = p}

\* In memory, a limit of one lets one through, and another when its window lapses.
WindowInv ==
    Steady /\ ~redis =>
        \A p \in Phones, i \in DOMAIN checks : OneLimit(i) =>
            Cardinality(Passing(p, i)) + (IF window["memory"][i][p] = NoWindow THEN 1 ELSE 0)
                <= 1 + overruns[p]

LEMMA PassingActive == \A p, i : Passing(p, i) \in SUBSET Active
  BY DEF Passing, Active, Past, Late, At

LEMMA WindowKept ==
    ASSUME Basics, Basics', WindowInv, IsFiniteSet(Active),
           spent'.outages = spent.outages, UNCHANGED <<redis, checks, overruns>>,
           NEW p \in Phones, NEW i \in DOMAIN checks, Steady, ~redis, OneLimit(i),
           Passing(p, i)' \in SUBSET Passing(p, i),
           window'["memory"][i][p] = NoWindow => window["memory"][i][p] = NoWindow
    PROVE  Cardinality(Passing(p, i))' + (IF window'["memory"][i][p] = NoWindow THEN 1 ELSE 0)
               <= 1 + overruns'[p]
<1>2. PICK S, T : S = Passing(p, i) /\ T = Passing(p, i)'
  OBVIOUS
<1>3. /\ Cardinality(S) \in Nat /\ Cardinality(T) \in Nat /\ Cardinality(T) <= Cardinality(S)
  BY <1>2, PassingActive, Fewer
<1>4. Cardinality(S) + (IF window["memory"][i][p] = NoWindow THEN 1 ELSE 0) <= 1 + overruns[p]
  BY <1>2 DEF WindowInv
<1>5. overruns[p] \in Nat /\ overruns'[p] = overruns[p]
      /\ Cardinality(Passing(p, i))' = Cardinality(T)
  BY <1>2 DEF Basics, TypeOK
<1> QED BY <1>3, <1>4, <1>5

\* The steps that leave the windows alone and pass no limit.
LEMMA WindowMove ==
    ASSUME Basics, Basics', IsFiniteSet(Active), WindowInv, NEW r \in Requests,
           \A q \in Requests \ {r} : req'[q] = req[q],
           \A i \in DOMAIN checks :
               Past(r, i)' => Past(r, i) /\ req'[r].phone = req[r].phone,
           spent'.outages = spent.outages, UNCHANGED <<redis, checks, window, overruns>>
    PROVE  WindowInv'
<1> SUFFICES ASSUME Steady, ~redis, NEW p \in Phones, NEW i \in DOMAIN checks, OneLimit(i)
             PROVE  Cardinality(Passing(p, i))'
                        + (IF window'["memory"][i][p] = NoWindow THEN 1 ELSE 0) <= 1 + overruns'[p]
  BY DEF WindowInv, Steady, OneLimit
<1>1. ASSUME NEW q \in Requests, Past(q, i)' PROVE Past(q, i) /\ req'[q].phone = req[q].phone
  <2>1. CASE q = r
    BY <1>1, <2>1
  <2>2. CASE q # r
    BY <1>1, <2>2 DEF Past, Late, At
  <2> QED BY <2>1, <2>2
<1>2. Passing(p, i)' \in SUBSET Passing(p, i)
  BY <1>1 DEF Passing
<1> QED BY <1>2, WindowKept

LEMMA WindowCheck ==
    ASSUME Basics, IsFiniteSet(Active), WindowInv, NEW r \in Requests, CheckLimit(r)
    PROVE  WindowInv'
<1> DEFINE k == req[r].check
           x == Subject(r, k)
           p == req[r].phone
<1>1. /\ UNCHANGED <<now, checks, redis, spent, overruns>> /\ req[r].pc = "check"
      /\ p \in Phones /\ TypeOK /\ checks \in Settings /\ now \in Nat /\ Basics'
  BY CheckBasics DEF CheckLimit, At, Basics, TypeOK, Request
<1>2. /\ k \in DOMAIN checks /\ k \in 1..Len(checks) /\ Len(checks) \in Nat
      /\ x \in Subjects /\ Counted(r) \in Window
      /\ window[Store][k][x] \in Window /\ Opened(window[Store][k][x])
      /\ window'[Store][k][x] = Counted(r)
      /\ \A s \in Stores, j \in DOMAIN checks, y \in Subjects :
             s # Store \/ j # k \/ y # x => window'[s][j][y] = window[s][j][y]
      /\ \A q \in Requests \ {r} : req'[q] = req[q]
      /\ req'[r].phone = req[r].phone
      /\ \/ ~Allowed(Counted(r), checks[k].limit) /\ req'[r].pc = "release" /\ req'[r].check = k
         \/ /\ Allowed(Counted(r), checks[k].limit) /\ k = Len(checks)
            /\ req'[r].pc = "remove" /\ req'[r].check = k
         \/ /\ Allowed(Counted(r), checks[k].limit) /\ k < Len(checks)
            /\ req'[r].pc = "check" /\ req'[r].check = k + 1
  BY CheckLimitTo
<1>3. DOMAIN checks = 1..Len(checks)
  BY <1>1, ChecksTyped
<1> SUFFICES ASSUME Steady, ~redis, NEW y \in Phones, NEW i \in DOMAIN checks, OneLimit(i)
             PROVE  Cardinality(Passing(y, i))'
                        + (IF window'["memory"][i][y] = NoWindow THEN 1 ELSE 0) <= 1 + overruns'[y]
  BY <1>1 DEF WindowInv, Steady, OneLimit
<1>5. Store = "memory" /\ "memory" \in Stores /\ y \in Subjects
  BY DEF Store, Stores, Subjects
<1>8. checks[i].limit = 1 /\ checks[i].scope = "phone" /\ checks[i] \in Limits
  BY <1>1, ChecksTyped DEF OneLimit
<1>9. CASE k = i /\ y = p
  <2>1. x = p
    BY <1>1, <1>8, <1>9, SubjectTyped
  <2>11. PICK w, c : w = window["memory"][i][p] /\ c = Counted(r)
    OBVIOUS
  <2>2. /\ w \in Window /\ Opened(w) /\ c = Increment(w, checks[i])
        /\ window'["memory"][i][p] = c
    BY <1>2, <1>5, <1>9, <2>1, <2>11 DEF Counted
  <2>9. w.count \in Nat /\ c.count \in Nat
    BY <1>2, <2>2, <2>11 DEF Window
  <2>10. c.count >= 1 /\ (w # NoWindow => w.count >= 1 /\ (c.count > 1 \/ c.count = w.count + 1))
    BY <1>1, <1>8, <2>2, IncrementTyped
  <2>12. c # NoWindow
    BY <2>9, <2>10 DEF NoWindow
  <2>4. CASE w = NoWindow
    <3>1. PICK S, T : S = Passing(y, i) /\ T = Passing(y, i)'
      OBVIOUS
    <3>2. T \in SUBSET (S \cup {r})
      BY <1>2, <3>1 DEF Passing, Past, Late, At
    <3>3. Cardinality(S) \in Nat /\ Cardinality(T) \in Nat /\ Cardinality(T) <= Cardinality(S) + 1
      BY <3>1, <3>2, PassingActive, Fewer
    <3>4. Cardinality(S) + 1 <= 1 + overruns[p]
      BY <1>1, <1>9, <2>4, <2>11, <3>1 DEF WindowInv
    <3>5. overruns[p] \in Nat /\ overruns' = overruns
      BY <1>1 DEF TypeOK
    <3>6. Cardinality(Passing(y, i))' = Cardinality(T) /\ window'["memory"][i][y] # NoWindow
      BY <1>9, <2>2, <2>12, <3>1
    <3> QED BY <1>9, <3>3, <3>4, <3>5, <3>6
  <2>5. CASE w # NoWindow
    <3>1. ~Allowed(c, checks[i].limit)
      BY <1>8, <2>5, <2>9, <2>10 DEF Allowed
    <3>2. req'[r].pc = "release"
      BY <1>2, <1>9, <2>11, <3>1
    <3>3. Passing(y, i)' \in SUBSET Passing(y, i)
      BY <1>2, <3>2 DEF Passing, Past, Late, At
    <3>4. window'["memory"][i][y] # NoWindow
      BY <1>9, <2>2, <2>12
    <3> QED BY <1>1, <3>3, <3>4, WindowKept
  <2> QED BY <2>4, <2>5
<1>10. CASE k # i \/ y # p
  <2>1. window'["memory"][i][y] = window["memory"][i][y]
    <3>1. CASE k # i
      BY <1>2, <1>5, <3>1
    <3>2. CASE k = i /\ y # p
      <4>1. x = p
        BY <1>1, <1>8, <3>2, SubjectTyped
      <4> QED BY <1>2, <1>5, <3>2, <4>1
    <3> QED BY <1>10, <3>1, <3>2
  <2>2. k # i /\ Past(r, i)' => Past(r, i)
    BY <1>1, <1>2, <1>3 DEF Past, Late, At
  <2>3. Passing(y, i)' \in SUBSET Passing(y, i)
    BY <1>2, <1>10, <2>2 DEF Passing, Past, Late, At
  <2> QED BY <1>1, <2>1, <2>3, WindowKept
<1> QED BY <1>9, <1>10

\* A window lapses under those it let through, and that is counted.
LEMMA WindowTick ==
    ASSUME Basics, IsFiniteSet(Active), WindowInv, Tick PROVE WindowInv'
<1>1. /\ UNCHANGED <<redis, spent, req, checks>> /\ now \in Nat /\ now' = now + 1 /\ TypeOK
      /\ \A x \in Phones : /\ overruns[x] \in Nat
                           /\ overruns'[x] = IF Outlived(x) THEN overruns[x] + 1 ELSE overruns[x]
      /\ \A s \in Stores, i \in DOMAIN checks, x \in Subjects :
             window[s][i][x].until > now' => window'[s][i][x] = window[s][i][x]
  BY TickTo DEF Tick, Basics, TypeOK
<1> SUFFICES ASSUME Steady, ~redis, NEW y \in Phones, NEW i \in DOMAIN checks, OneLimit(i)
             PROVE  Cardinality(Passing(y, i))'
                        + (IF window'["memory"][i][y] = NoWindow THEN 1 ELSE 0) <= 1 + overruns'[y]
  BY <1>1 DEF WindowInv, Steady, OneLimit
<1>2. PICK S, w, v : S = Passing(y, i) /\ w = window["memory"][i][y] /\ v = window'["memory"][i][y]
  OBVIOUS
<1>3. Passing(y, i)' = S
  BY <1>1, <1>2 DEF Passing, Past, Late, At
<1>4. /\ Cardinality(S) + (IF w = NoWindow THEN 1 ELSE 0) <= 1 + overruns[y]
      /\ Cardinality(S) \in Nat
  BY <1>2, PassingActive, Fewer DEF WindowInv
<1>5. CASE S = {}
  BY <1>1, <1>2, <1>3, <1>4, <1>5, FS_EmptySet
<1>6. CASE S # {} /\ w # NoWindow /\ v = NoWindow
  <2>1. "memory" \in Stores /\ y \in Subjects
    BY DEF Stores, Subjects
  <2>2. w \in Window /\ Opened(w) /\ w.until \in Nat
    BY <1>1, <1>2, <2>1 DEF Basics, AllOpened, TypeOK, Window
  <2>3. w.until > now /\ ~(w.until > now')
    BY <1>1, <1>2, <1>6, <2>1, <2>2 DEF Opened
  <2>4. Over(w.until)
    BY <1>1, <2>2, <2>3 DEF Over, Kept
  <2>5. PICK q \in Requests : Past(q, i) /\ req[q].phone = y
    BY <1>2, <1>6 DEF Passing
  <2>6. Outlived(y)
    BY <1>2, <2>4, <2>5 DEF Outlived, OneLimit
  <2> QED BY <1>1, <1>2, <1>3, <1>4, <1>6, <2>6
<1>7. CASE w = NoWindow \/ v # NoWindow
  BY <1>1, <1>2, <1>3, <1>4, <1>7
<1> QED BY <1>5, <1>6, <1>7

LEMMA WindowRestart ==
    ASSUME Basics, WindowInv, Restart PROVE WindowInv'
<1>1. UNCHANGED <<redis, checks, overruns>> /\ spent'.outages = spent.outages
      /\ \A r \in Requests : req'[r].pc = "idle"
  BY RestartTo DEF Restart
<1> SUFFICES ASSUME NEW p \in Phones, NEW i \in DOMAIN checks
             PROVE  Cardinality(Passing(p, i))'
                        + (IF window'["memory"][i][p] = NoWindow THEN 1 ELSE 0) <= 1 + overruns[p]
  BY <1>1 DEF WindowInv
<1>2. Passing(p, i)' = {}
  BY <1>1 DEF Passing, Past, Late, At
<1>3. overruns[p] \in Nat
  BY DEF Basics, TypeOK
<1> QED BY <1>2, <1>3, FS_EmptySet

LEMMA WindowInit == Init => WindowInv
<1> SUFFICES ASSUME Init, NEW p \in Phones, NEW i \in DOMAIN checks
             PROVE  Cardinality(Passing(p, i))
                        + (IF window["memory"][i][p] = NoWindow THEN 1 ELSE 0) <= 1 + overruns[p]
  BY DEF WindowInv
<1>1. Passing(p, i) = {} /\ overruns[p] = 0
  BY IdleTyped DEF Init, Passing, Past, Late, At
<1> QED BY <1>1, FS_EmptySet

LEMMA WindowStep ==
    ASSUME Basics, IsFiniteSet(Active), WindowInv, [Next]_vars PROVE WindowInv'
<1> USE DEF Basics
<1>0. Basics'
  BY BasicsStep
<1>1. ASSUME NEW r \in Requests, NEW p \in Phones, NEW a \in Ips, Start(r, p, a)
      PROVE  WindowInv'
  <2>1. /\ req'[r].pc = "lock" /\ \A q \in Requests \ {r} : req'[q] = req[q]
        /\ spent'.outages = spent.outages /\ UNCHANGED <<redis, checks, window, overruns>>
    BY <1>1, StartBasics DEF Start
  <2> QED BY <1>0, <2>1, WindowMove DEF Past, Late, At
<1>2. ASSUME NEW r \in Requests, NEW pc \in Steps \ {"check"}, Goes(r, pc) \/ Ends(r),
             pc \in {"remove", "create", "send", "mark"} => Late(r),
             spent'.outages = spent.outages, UNCHANGED <<redis, checks, window, overruns>>
      PROVE  WindowInv'
  <2>1. CASE Goes(r, pc)
    <3>1. /\ \A q \in Requests \ {r} : req'[q] = req[q]
          /\ req'[r].pc = pc
          /\ req'[r].phone = req[r].phone
      BY <1>2, <2>1, GoesTyped
    <3> QED BY <1>0, <1>2, <3>1, WindowMove DEF Past, Late, At
  <2>2. CASE Ends(r)
    <3>1. req'[r].pc = "idle" /\ \A q \in Requests \ {r} : req'[q] = req[q]
      BY <2>2, EndsTyped, IdleTyped
    <3> QED BY <1>0, <1>2, <3>1, WindowMove DEF Past, Late, At
  <2> QED BY <1>2, <2>1, <2>2
<1>3. ASSUME NEW r \in Requests, AcquireLock(r) PROVE WindowInv'
  <2>1. (Goes(r, "cooldown") \/ Ends(r)) /\ UNCHANGED <<spent, redis, checks, window, overruns>>
    BY <1>3 DEF AcquireLock
  <2> QED BY <1>2, <2>1 DEF Steps
<1>4. ASSUME NEW r \in Requests, InCooldown(r) PROVE WindowInv'
  <2>1. (Goes(r, "release") \/ Goes(r, "last")) /\ UNCHANGED <<spent, redis, checks, window, overruns>>
    BY <1>4 DEF InCooldown
  <2> QED BY <1>2, <2>1 DEF Steps
<1>5. ASSUME NEW r \in Requests, LastSentAt(r) PROVE WindowInv'
  <2>1. UNCHANGED <<spent, redis, checks, window, overruns>>
    BY <1>5 DEF LastSentAt
  <2>2. /\ \A q \in Requests \ {r} : req'[q] = req[q]
        /\ req'[r].pc \in {"release", "check"} /\ req'[r].check = 1
    BY <1>5, LastSentTo
  <2>3. \A i \in DOMAIN checks : i >= 1 /\ i \in Nat
    BY ChecksTyped DEF TypeOK
  <2>4. \A i \in DOMAIN checks : ~Past(r, i)'
    BY <2>2, <2>3 DEF Past, Late, At
  <2> QED BY <1>0, <2>1, <2>2, <2>4, WindowMove
<1>6. ASSUME NEW r \in Requests, RemoveOne(r) PROVE WindowInv'
  <2>1. Late(r) /\ UNCHANGED <<redis, checks, window, overruns>>
    BY <1>6 DEF RemoveOne, Late, At
  <2>2. /\ \A q \in Requests \ {r} : req'[q] = req[q]
        /\ req'[r].phone = req[r].phone
        /\ spent'.outages = spent.outages
    BY <1>6, RemoveTo
  <2>3. \A i \in DOMAIN checks : Past(r, i)
    BY <2>1 DEF Past
  <2> QED BY <1>0, <2>1, <2>2, <2>3, WindowMove
<1>7. ASSUME NEW r \in Requests, CreateRow(r) PROVE WindowInv'
  <2>1. Late(r) /\ Goes(r, "send") /\ UNCHANGED <<spent, redis, checks, window, overruns>>
    BY <1>7 DEF CreateRow, Late, At
  <2> QED BY <1>2, <2>1 DEF Steps
<1>8. ASSUME NEW r \in Requests, Send(r) PROVE WindowInv'
  <2>1. Late(r) /\ (Goes(r, "mark") \/ Goes(r, "release")) /\ UNCHANGED <<redis, checks, window, overruns>>
    BY <1>8 DEF Send, Late, At
  <2>2. spent'.outages = spent.outages
    BY <1>8, SendTo
  <2> QED BY <1>2, <2>1, <2>2 DEF Steps
<1>9. ASSUME NEW r \in Requests, SetCooldown(r) PROVE WindowInv'
  <2>1. Goes(r, "release") /\ UNCHANGED <<spent, redis, checks, window, overruns>>
    BY <1>9 DEF SetCooldown
  <2> QED BY <1>2, <2>1 DEF Steps
<1>10. ASSUME NEW r \in Requests, ReleaseLock(r) PROVE WindowInv'
  <2>1. Ends(r) /\ UNCHANGED <<spent, redis, checks, window, overruns>>
    BY <1>10 DEF ReleaseLock
  <2>2. "idle" \in Steps \ {"check"}
    BY DEF Steps
  <2> QED BY <1>2, <2>1, <2>2
<1>11. ASSUME NEW r \in Requests, RequestError(r) PROVE WindowInv'
  <2>1. Goes(r, "release") /\ UNCHANGED <<redis, checks, window, overruns>>
    BY <1>11 DEF RequestError
  <2>2. spent'.outages = spent.outages
    BY <1>11, ErrorTo
  <2> QED BY <1>2, <2>1, <2>2 DEF Steps
<1>12. ASSUME RedisChanges PROVE WindowInv'
  BY <1>12, ChangesTo DEF WindowInv
<1>14. CASE UNCHANGED vars
  <2>1. UNCHANGED <<redis, checks, overruns, req, spent, window>>
    BY <1>14 DEF vars
  <2>2. \A p, i : Passing(p, i)' = Passing(p, i)
    BY <2>1 DEF Passing, Past, Late, At
  <2> QED BY <2>1, <2>2 DEF WindowInv, Steady, OneLimit
<1> QED BY <1>1, <1>3, <1>4, <1>5, <1>6, <1>7, <1>8, <1>9, <1>10, <1>11, <1>12,
           <1>14, WindowRestart, WindowCheck, WindowTick DEF Next, RequestStep

\* However it is guarded, a phone has one request past its checks at most, and one
\* more each time one outlived lock or window.
Guarded == Steady /\ (redis \/ OnePerWindow)

LateOf(p) == {r \in Requests : Late(r) /\ req[r].phone = p}

LEMMA LateActive == \A p : LateOf(p) \in SUBSET Active
  BY DEF LateOf, Active, Late, At

LEMMA FewLate ==
    ASSUME Basics, IsFiniteSet(Active), LockInv, WindowInv, Guarded, NEW p \in Phones
    PROVE  IsFiniteSet(LateOf(p)) /\ Cardinality(LateOf(p)) <= 1 + overruns[p]
<1>0. PICK S : S = LateOf(p)
  OBVIOUS
<1>1. IsFiniteSet(S) /\ Cardinality(S) \in Nat /\ overruns[p] \in Nat
  BY <1>0, LateActive, Fewer DEF Basics, TypeOK
<1>2. CASE redis
  <2>1. PICK T : T = Locked(p)
    OBVIOUS
  <2>2. S \in SUBSET T
    BY <1>0, <2>1 DEF LateOf, Locked, Late, PastLock
  <2>3. Cardinality(T) \in Nat /\ Cardinality(S) <= Cardinality(T)
    BY <2>1, <2>2, LockedActive, Fewer
  <2>4. Cardinality(T) + (IF lock[p] = 0 THEN 1 ELSE 0) <= 1 + overruns[p]
    BY <1>2, <2>1 DEF LockInv, Guarded
  <2> QED BY <1>0, <1>1, <2>3, <2>4
<1>3. CASE ~redis
  <2>1. PICK i \in DOMAIN checks : OneLimit(i)
    BY <1>3 DEF Guarded, OnePerWindow, OneLimit
  <2>2. PICK T : T = Passing(p, i)
    OBVIOUS
  <2>3. S \in SUBSET T
    BY <1>0, <2>2 DEF LateOf, Passing, Past
  <2>4. Cardinality(T) \in Nat /\ Cardinality(S) <= Cardinality(T)
    BY <2>2, <2>3, PassingActive, Fewer
  <2>5. Cardinality(T) + (IF window["memory"][i][p] = NoWindow THEN 1 ELSE 0) <= 1 + overruns[p]
    BY <1>3, <2>1, <2>2 DEF WindowInv, Guarded
  <2> QED BY <1>0, <1>1, <2>4, <2>5
<1> QED BY <1>2, <1>3

LEMMA AtMost ==
    ASSUME NEW S, IsFiniteSet(S), Cardinality(S) <= 1, NEW x \in S, NEW y \in S
    PROVE  x = y
<1>1. Cardinality(S) \in Nat /\ Cardinality(S \ {x}) = Cardinality(S) - 1 /\ IsFiniteSet(S \ {x})
  BY FS_CardinalityType, FS_RemoveElement
<1>2. Cardinality(S \ {x}) \in Nat
  BY <1>1, FS_CardinalityType
<1>3. Cardinality(S \ {x}) = 0
  BY <1>1, <1>2
<1>4. S \ {x} = {}
  BY <1>1, <1>3, FS_EmptySet
<1> QED BY <1>4

LEMMA OneLate ==
    ASSUME Basics, IsFiniteSet(Active), LockInv, WindowInv, Guarded,
           NEW r \in Requests, NEW q \in Requests,
           Late(r), Late(q), req[r].phone = req[q].phone, overruns[req[r].phone] = 0
    PROVE  r = q
<1>1. req[r].phone \in Phones
  BY DEF Basics, TypeOK, Request
<1>2. IsFiniteSet(LateOf(req[r].phone)) /\ Cardinality(LateOf(req[r].phone)) <= 1
  BY <1>1, FewLate
<1>3. r \in LateOf(req[r].phone) /\ q \in LateOf(req[r].phone)
  BY DEF LateOf
<1> QED BY <1>2, <1>3, AtMost

\* Likewise past the lock.
LEMMA OneLocked ==
    ASSUME Basics, IsFiniteSet(Active), LockInv, Steady, redis,
           NEW r \in Requests, NEW q \in Requests,
           PastLock(r), PastLock(q), req[r].phone = req[q].phone, overruns[req[r].phone] = 0
    PROVE  r = q
<1>1. req[r].phone \in Phones
  BY DEF Basics, TypeOK, Request
<1>0. PICK S : S = Locked(req[r].phone)
  OBVIOUS
<1>2. IsFiniteSet(S) /\ Cardinality(S) \in Nat
  BY <1>0, LockedActive, Fewer
<1>3. Cardinality(S) + (IF lock[req[r].phone] = 0 THEN 1 ELSE 0) <= 1
  BY <1>0, <1>1 DEF LockInv
<1>4. Cardinality(S) <= 1
  BY <1>2, <1>3
<1>5. r \in S /\ q \in S
  BY <1>0 DEF Locked
<1> QED BY <1>2, <1>4, <1>5, AtMost

(***************************************************************************)
(* The code that works                                                     *)
(***************************************************************************)

\* What is known of codes and dates however requests overlap.
Stamped ==
    /\ \A m \in texts : m.code <= spent.codes /\ m.at <= now
    /\ \A p \in Phones : \A row \in rows[p] :
           /\ row.code <= spent.codes /\ row.date <= now
           /\ Dated => row.date >= 1
    /\ \A r \in Requests :
           req[r].pc \in {"create", "send"} => req[r].code <= spent.codes

LEMMA StampedStep ==
    ASSUME Basics, Stamped, [Next]_vars PROVE Stamped'
<1> USE DEF Basics
<1>0. Basics' /\ TypeOK'
  BY BasicsStep
<1>1. /\ now \in Nat /\ spent.codes \in Nat /\ texts \subseteq Text
      /\ rows \in [Phones -> SUBSET OtpRow] /\ TypeOK
      /\ \A q \in Requests : req[q].code \in Nat /\ req[q].phone \in Phones
      /\ \A m \in texts : m.at \in Nat /\ m.code \in Nat
      /\ \A p \in Phones : \A row \in rows[p] : row.date \in Nat /\ row.code \in Nat
  BY DEF TypeOK, Request, Text, OtpRow
<1>2. ASSUME NEW r \in Requests, NEW p \in Phones, NEW a \in Ips, Start(r, p, a)
      PROVE  Stamped'
  <2>1. /\ req'[r].pc = "lock" /\ \A q \in Requests \ {r} : req'[q] = req[q]
        /\ spent'.codes = spent.codes /\ UNCHANGED <<now, texts, rows>>
    BY <1>2, StartBasics DEF Start
  <2> QED BY <2>1 DEF Stamped
<1>3. ASSUME NEW r \in Requests, NEW pc \in Steps \ {"create", "send"}, Goes(r, pc) \/ Ends(r),
             UNCHANGED <<now, texts, rows>>, spent'.codes = spent.codes
      PROVE  Stamped'
  <2>1. req'[r].pc \notin {"create", "send"} /\ \A q \in Requests \ {r} : req'[q] = req[q]
    BY <1>3, GoesTyped, EndsTyped, IdleTyped
  <2> QED BY <1>3, <2>1 DEF Stamped
<1>4. ASSUME NEW r \in Requests, AcquireLock(r) \/ InCooldown(r) \/ SetCooldown(r)
             \/ ReleaseLock(r) PROVE Stamped'
  <2>1. /\ \E pc \in Steps \ {"create", "send"} : Goes(r, pc) \/ Ends(r)
        /\ UNCHANGED <<now, texts, rows>> /\ spent'.codes = spent.codes
    BY <1>4 DEF AcquireLock, InCooldown, SetCooldown, ReleaseLock, Steps
  <2> QED BY <1>3, <2>1
<1>5. ASSUME NEW r \in Requests, LastSentAt(r) \/ CheckLimit(r) PROVE Stamped'
  <2>1. /\ req'[r].pc \notin {"create", "send"} /\ \A q \in Requests \ {r} : req'[q] = req[q]
    BY <1>5, LastSentTo, CheckLimitTo
  <2>2. UNCHANGED <<now, texts, rows, spent>>
    BY <1>5 DEF LastSentAt, CheckLimit
  <2> QED BY <2>1, <2>2 DEF Stamped
<1>6. ASSUME NEW r \in Requests, RemoveOne(r) PROVE Stamped'
  <2>1. UNCHANGED <<now, texts, overruns>>
    BY <1>6 DEF RemoveOne
  <2>2. /\ \A q \in Requests \ {r} : req'[q] = req[q]
        /\ \A p \in Phones : p # req[r].phone => rows'[p] = rows[p]
        /\ \/ /\ req'[r].code = spent.codes + 1
              /\ spent'.codes = spent.codes + 1
              /\ rows'[req[r].phone] = {}
           \/ req'[r].pc = "release" /\ UNCHANGED <<rows, spent>>
    BY <1>6, RemoveTo
  <2>3. spent.codes <= spent'.codes
    BY <1>1, <2>2
  <2>4. \A m \in texts' : m.code <= spent'.codes /\ m.at <= now'
    BY <1>0, <1>1, <2>1, <2>2 DEF Stamped
  <2>5. \A p \in Phones : \A row \in rows'[p] :
            /\ row.code <= spent'.codes /\ row.date <= now'
            /\ Dated => row.date >= 1
    BY <1>1, <2>1, <2>2 DEF Stamped
  <2>6. \A q \in Requests : req'[q].pc \in {"create", "send"} => req'[q].code <= spent'.codes
    BY <1>1, <2>2 DEF Stamped
  <2> QED BY <2>4, <2>5, <2>6 DEF Stamped
<1>7. ASSUME NEW r \in Requests, CreateRow(r) PROVE Stamped'
  <2> DEFINE row == [code |-> req[r].code, date |-> IF Dated THEN now ELSE 0]
  <2>1. UNCHANGED <<now, texts, overruns, spent>> /\ req[r].pc = "create"
    BY <1>7 DEF CreateRow, At
  <2>2. /\ req'[r].code = req[r].code
        /\ \A q \in Requests \ {r} : req'[q] = req[q]
        /\ \A p \in Phones : p # req[r].phone => rows'[p] = rows[p]
        /\ rows'[req[r].phone] = rows[req[r].phone] \cup {row}
    BY <1>7, CreateTo
  <2>3. row.code <= spent.codes /\ row.date <= now /\ (Dated => row.date >= 1)
    BY <1>1, <2>1 DEF Stamped
  <2> HIDE DEF row
  <2>4. \A p \in Phones : \A x \in rows'[p] :
            x.code <= spent.codes /\ x.date <= now /\ (Dated => x.date >= 1)
    BY <2>2, <2>3 DEF Stamped
  <2>5. \A q \in Requests : req'[q].pc \in {"create", "send"} => req'[q].code <= spent.codes
    BY <2>1, <2>2 DEF Stamped
  <2> QED BY <2>1, <2>4, <2>5 DEF Stamped
<1>8. ASSUME NEW r \in Requests, Send(r) PROVE Stamped'
  <2> DEFINE m == [phone |-> req[r].phone, ip |-> req[r].ip, code |-> req[r].code, at |-> now]
  <2>1. UNCHANGED <<now, rows>> /\ req[r].pc = "send"
    BY <1>8 DEF Send, At
  <2>2. /\ req'[r].pc \in {"mark", "release"}
        /\ \A q \in Requests \ {r} : req'[q] = req[q]
        /\ spent'.codes = spent.codes
        /\ texts' = texts \cup {m} \/ texts' = texts
    BY <1>8, SendTo
  <2>3. m.code <= spent.codes /\ m.at <= now
    BY <1>1, <2>1 DEF Stamped
  <2> HIDE DEF m
  <2> QED BY <2>1, <2>2, <2>3 DEF Stamped
<1>9. ASSUME NEW r \in Requests, RequestError(r) PROVE Stamped'
  <2>1. Goes(r, "release") /\ UNCHANGED <<now, texts, rows>>
    BY <1>9 DEF RequestError
  <2>2. spent'.codes = spent.codes
    BY <1>9, ErrorTo
  <2> QED BY <1>3, <2>1, <2>2 DEF Steps
<1>10. ASSUME Tick PROVE Stamped'
  <2>1. now' = now + 1 /\ UNCHANGED <<texts, rows, req, spent>>
    BY <1>10 DEF Tick
  <2> QED BY <1>1, <2>1 DEF Stamped
<1>11. ASSUME RedisChanges PROVE Stamped'
  <2>1. Fault("outages") /\ UNCHANGED <<now, texts, rows, req>>
    BY <1>11 DEF RedisChanges
  <2> QED BY <2>1, FaultTyped DEF Stamped
<1>12. ASSUME Restart PROVE Stamped'
  <2>1. UNCHANGED <<now, texts, rows>> /\ spent'.codes = spent.codes
        /\ \A r \in Requests : req'[r].pc = "idle"
    BY <1>12, RestartTo DEF Restart
  <2> QED BY <2>1 DEF Stamped
<1>13. CASE UNCHANGED vars
  BY <1>13 DEF vars, Stamped
<1> QED BY <1>2, <1>4, <1>5, <1>6, <1>7, <1>8, <1>9, <1>10, <1>11, <1>12, <1>13
        DEF Next, RequestStep

LEMMA StampedInit == Init => Stamped
  BY IdleTyped DEF Init, Stamped

\* A guarded phone that no request has outlived has one code at most, no older than
\* its last message; a request about to send has the only one, newer than every message.
CodesFit(p) ==
    /\ \A x, y \in rows[p] : x = y
    /\ \A m \in texts, row \in rows[p] : m.phone = p => m.code <= row.code
    /\ \A r \in Requests : req[r].phone = p /\ req[r].pc \in {"create", "send"} =>
           /\ \A m \in texts : m.phone = p => m.code < req[r].code
           /\ req[r].pc = "create" => rows[p] = {}
           /\ req[r].pc = "send" =>
                  /\ rows[p] # {}
                  /\ \A row \in rows[p] : /\ row.code = req[r].code
                                          /\ Dated => row.date >= req[r].since

CodesInv == Guarded => \A p \in Phones : overruns[p] = 0 => CodesFit(p)

\* Guarding does not come back.
LEMMA GuardedBefore ==
    ASSUME spent'.outages = spent.outages, UNCHANGED <<redis, checks>>, Guarded'
    PROVE  Guarded
  BY DEF Guarded, Steady, OnePerWindow

\* The steps that leave codes alone and come to no new one.
LEMMA CodesKept ==
    ASSUME CodesInv, spent'.outages = spent.outages,
           UNCHANGED <<redis, checks, rows, texts>>,
           \A p \in Phones : overruns'[p] = 0 => overruns[p] = 0,
           \A q \in Requests : req'[q].pc \in {"create", "send"} => req'[q] = req[q]
    PROVE  CodesInv'
<1> SUFFICES ASSUME Guarded', NEW p \in Phones, overruns'[p] = 0 PROVE CodesFit(p)'
  BY DEF CodesInv
<1>1. CodesFit(p)
  BY GuardedBefore DEF CodesInv
<1> QED BY <1>1 DEF CodesFit

LEMMA CodesRemove ==
    ASSUME Basics, IsFiniteSet(Active), LockInv, WindowInv, Stamped, CodesInv,
           NEW r \in Requests, RemoveOne(r)
    PROVE  CodesInv'
<1>1. UNCHANGED <<redis, checks, texts, overruns>> /\ req[r].pc = "remove"
  BY DEF RemoveOne, At
<1>2. /\ req' \in [Requests -> Request]
      /\ \A q \in Requests \ {r} : req'[q] = req[q]
      /\ req'[r].phone = req[r].phone
      /\ spent'.outages = spent.outages
      /\ \A p \in Phones : p # req[r].phone => rows'[p] = rows[p]
      /\ \/ /\ req'[r].pc = "create" /\ req'[r].code = spent.codes + 1
            /\ spent'.codes = spent.codes + 1
            /\ rows'[req[r].phone] = {}
         \/ req'[r].pc = "release" /\ UNCHANGED <<rows, spent>>
  BY RemoveTo DEF Basics
<1> SUFFICES ASSUME Guarded', NEW p \in Phones, overruns'[p] = 0 PROVE CodesFit(p)'
  BY DEF CodesInv
<1>3. Guarded /\ CodesFit(p)
  BY <1>1, <1>2, GuardedBefore DEF CodesInv
<1>4. CASE req'[r].pc = "release"
  BY <1>1, <1>2, <1>3, <1>4 DEF CodesFit
<1>5. CASE p # req[r].phone
  BY <1>1, <1>2, <1>3, <1>5 DEF CodesFit
<1>6. CASE p = req[r].phone /\ req'[r].pc = "create"
  <2>1. \A q \in Requests \ {r} : req[q].phone = p => ~Late(q)
    BY <1>1, <1>3, <1>6, OneLate DEF Late
  <2>2. \A m \in texts : m.code < spent.codes + 1
    BY DEF Stamped, Basics, TypeOK, Text
  <2>3. rows'[p] = {} /\ req'[r].code = spent.codes + 1
    BY <1>2, <1>6
  <2> QED BY <1>1, <1>2, <1>6, <2>1, <2>2, <2>3 DEF CodesFit, Late
<1> QED BY <1>2, <1>4, <1>5, <1>6

LEMMA CodesCreate ==
    ASSUME Basics, IsFiniteSet(Active), LockInv, WindowInv, CodesInv, NEW r \in Requests, CreateRow(r)
    PROVE  CodesInv'
<1> DEFINE row == [code |-> req[r].code, date |-> IF Dated THEN now ELSE 0]
<1>1. UNCHANGED <<redis, checks, texts, overruns, spent>> /\ req[r].pc = "create"
  BY DEF CreateRow, At
<1>2. /\ req'[r].pc = "send" /\ req'[r].code = req[r].code
      /\ req'[r].phone = req[r].phone /\ req'[r].since = req[r].since
      /\ \A q \in Requests \ {r} : req'[q] = req[q]
      /\ \A p \in Phones : p # req[r].phone => rows'[p] = rows[p]
      /\ rows'[req[r].phone] = rows[req[r].phone] \cup {row}
  BY CreateTo
<1> SUFFICES ASSUME Guarded', NEW p \in Phones, overruns'[p] = 0 PROVE CodesFit(p)'
  BY DEF CodesInv
<1>3. Guarded /\ CodesFit(p)
  BY <1>1, GuardedBefore DEF CodesInv
<1>4. row.code = req[r].code /\ (Dated => row.date >= req[r].since)
  BY <1>1 DEF Basics, Punctual, At, TypeOK, Request
<1> HIDE DEF row
<1>5. CASE p # req[r].phone
  BY <1>1, <1>2, <1>3, <1>5 DEF CodesFit
<1>6. CASE p = req[r].phone
  <2>1. \A q \in Requests \ {r} : req[q].phone = p => ~Late(q)
    BY <1>1, <1>3, <1>6, OneLate DEF Late
  <2>2. rows'[p] = {row} /\ \A m \in texts : m.phone = p => m.code < req[r].code
    BY <1>1, <1>2, <1>3, <1>6 DEF CodesFit
  <2>3. req[r].code \in Nat /\ \A m \in texts : m.code \in Nat
    BY DEF Basics, TypeOK, Request, Text
  <2>4. \A m \in texts', x \in rows'[p] : m.phone = p => m.code <= x.code
    BY <1>1, <1>4, <2>2, <2>3
  <2> QED BY <1>1, <1>2, <1>4, <1>6, <2>1, <2>2, <2>4 DEF CodesFit, Late
<1> QED BY <1>5, <1>6

LEMMA CodesSend ==
    ASSUME Basics, IsFiniteSet(Active), LockInv, WindowInv, CodesInv, NEW r \in Requests, Send(r)
    PROVE  CodesInv'
<1> DEFINE m == [phone |-> req[r].phone, ip |-> req[r].ip, code |-> req[r].code, at |-> now]
<1>1. UNCHANGED <<redis, checks, rows, overruns>> /\ req[r].pc = "send"
  BY DEF Send, At
<1>2. /\ req'[r].pc \in {"mark", "release"}
      /\ \A q \in Requests \ {r} : req'[q] = req[q]
      /\ spent'.outages = spent.outages
      /\ texts' = texts \cup {m} \/ texts' = texts
  BY SendTo
<1> SUFFICES ASSUME Guarded', NEW p \in Phones, overruns'[p] = 0 PROVE CodesFit(p)'
  BY DEF CodesInv
<1>3. Guarded /\ CodesFit(p)
  BY <1>1, <1>2, GuardedBefore DEF CodesInv
<1>4. m.phone = req[r].phone /\ m.code = req[r].code
  OBVIOUS
<1> HIDE DEF m
<1>5. CASE p # req[r].phone
  BY <1>1, <1>2, <1>3, <1>4, <1>5 DEF CodesFit
<1>6. CASE p = req[r].phone
  <2>1. \A q \in Requests \ {r} : req[q].phone = p => ~Late(q)
    BY <1>1, <1>3, <1>6, OneLate DEF Late
  <2>2. \A x \in rows[p] : x.code = req[r].code /\ x.code \in Nat
    BY <1>1, <1>3, <1>6 DEF CodesFit, Basics, TypeOK, OtpRow
  <2>3. \A n \in texts', x \in rows'[p] : n.phone = p => n.code <= x.code
    BY <1>1, <1>2, <1>3, <1>4, <2>2 DEF CodesFit
  <2> QED BY <1>1, <1>2, <1>3, <2>1, <2>3 DEF CodesFit, Late
<1> QED BY <1>5, <1>6

LEMMA CodesStep ==
    ASSUME Basics, IsFiniteSet(Active), LockInv, WindowInv, Stamped, CodesInv, [Next]_vars PROVE CodesInv'
<1> USE DEF Basics
<1>0. \A p \in Phones : overruns'[p] = 0 => overruns[p] = 0
  BY Overrunning
<1>1. ASSUME NEW r \in Requests, NEW p \in Phones, NEW a \in Ips, Start(r, p, a)
      PROVE  CodesInv'
  <2>1. /\ req'[r].pc = "lock" /\ \A q \in Requests \ {r} : req'[q] = req[q]
        /\ spent'.outages = spent.outages /\ UNCHANGED <<redis, checks, texts, rows>>
    BY <1>1, StartBasics DEF Start
  <2>2. \A q \in Requests : req'[q].pc \in {"create", "send"} => req'[q] = req[q]
    BY <2>1
  <2> QED BY <1>0, <2>1, <2>2, CodesKept
<1>2. ASSUME NEW r \in Requests, NEW pc \in Steps \ {"create", "send"}, Goes(r, pc) \/ Ends(r),
             UNCHANGED <<redis, checks, texts, rows>>, spent'.outages = spent.outages
      PROVE  CodesInv'
  <2>1. req'[r].pc \notin {"create", "send"} /\ \A q \in Requests \ {r} : req'[q] = req[q]
    BY <1>2, GoesTyped, EndsTyped, IdleTyped
  <2>2. \A q \in Requests : req'[q].pc \in {"create", "send"} => req'[q] = req[q]
    BY <2>1
  <2> QED BY <1>0, <1>2, <2>2, CodesKept
<1>3. ASSUME NEW r \in Requests, AcquireLock(r) \/ InCooldown(r) \/ SetCooldown(r)
             \/ ReleaseLock(r) PROVE CodesInv'
  <2>1. /\ \E pc \in Steps \ {"create", "send"} : Goes(r, pc) \/ Ends(r)
        /\ UNCHANGED <<redis, checks, texts, rows>> /\ spent'.outages = spent.outages
    BY <1>3 DEF AcquireLock, InCooldown, SetCooldown, ReleaseLock, Steps
  <2> QED BY <1>2, <2>1
<1>4. ASSUME NEW r \in Requests, LastSentAt(r) \/ CheckLimit(r) PROVE CodesInv'
  <2>1. /\ req'[r].pc \notin {"create", "send"} /\ \A q \in Requests \ {r} : req'[q] = req[q]
    BY <1>4, LastSentTo, CheckLimitTo
  <2>2. UNCHANGED <<redis, checks, texts, rows, spent>>
    BY <1>4 DEF LastSentAt, CheckLimit
  <2>3. \A q \in Requests : req'[q].pc \in {"create", "send"} => req'[q] = req[q]
    BY <2>1
  <2> QED BY <1>0, <2>2, <2>3, CodesKept
<1>5. ASSUME NEW r \in Requests, RequestError(r) PROVE CodesInv'
  <2>1. Goes(r, "release") /\ UNCHANGED <<redis, checks, texts, rows>>
    BY <1>5 DEF RequestError
  <2>2. spent'.outages = spent.outages
    BY <1>5, ErrorTo
  <2> QED BY <1>2, <2>1, <2>2 DEF Steps
<1>6. ASSUME Tick PROVE CodesInv'
  BY <1>0, <1>6, CodesKept DEF Tick
<1>7. ASSUME RedisChanges PROVE CodesInv'
  BY <1>7, ChangesTo DEF CodesInv, Guarded
<1>8. ASSUME Restart PROVE CodesInv'
  <2>1. UNCHANGED <<redis, checks, texts, rows>> /\ spent'.outages = spent.outages
        /\ \A r \in Requests : req'[r].pc = "idle"
    BY <1>8, RestartTo DEF Restart
  <2>2. \A q \in Requests : req'[q].pc \in {"create", "send"} => req'[q] = req[q]
    BY <2>1
  <2> QED BY <1>0, <2>1, <2>2, CodesKept
<1>9. CASE UNCHANGED vars
  BY <1>0, <1>9, CodesKept DEF vars
<1> QED BY <1>1, <1>3, <1>4, <1>5, <1>6, <1>7, <1>8, <1>9,
           CodesRemove, CodesCreate, CodesSend DEF Next, RequestStep

LEMMA CodesInit == Init => CodesInv
  BY IdleTyped DEF Init, CodesInv, CodesFit

AtMostOne(S) == \A x, y \in S : x = y

LEMMA OneAtMost ==
    ASSUME NEW S, AtMostOne(S)
    PROVE  Cardinality(S) = 0 \/ Cardinality(S) = 1
<1>1. CASE S = {}
  BY <1>1, FS_EmptySet
<1>2. CASE S # {}
  <2>1. PICK x \in S : TRUE
    BY <1>2
  <2>2. S = {x}
    BY <2>1 DEF AtMostOne
  <2> QED BY <2>2, FS_Singleton
<1> QED BY <1>1, <1>2

\* Requests of a phone that have deleted its codes and write their own next.
Creating(p) == {r \in Requests : At(r, "create") /\ req[r].phone = p}

RowsInv ==
    /\ \A p \in Phones : IsFiniteSet(rows[p])
    /\ Guarded => \A p \in Phones :
           Cardinality(rows[p]) + Cardinality(Creating(p)) <= 1 + overruns[p]

LEMMA CreatingActive == \A p : Creating(p) \in SUBSET Active
  BY DEF Creating, Active, At

LEMMA RowsKept ==
    ASSUME Basics, IsFiniteSet(Active), RowsInv, spent'.outages = spent.outages,
           UNCHANGED <<redis, checks, rows>>,
           \A p \in Phones : /\ overruns[p] \in Nat /\ overruns'[p] \in Nat
                             /\ overruns[p] <= overruns'[p],
           \A q \in Requests : req'[q].pc = "create" => req'[q] = req[q]
    PROVE  RowsInv'
<1> SUFFICES ASSUME Guarded', NEW p \in Phones
             PROVE  Cardinality(rows[p]) + Cardinality(Creating(p))' <= 1 + overruns'[p]
  BY DEF RowsInv
<1>1. PICK S, T : S = Creating(p) /\ T = Creating(p)'
  OBVIOUS
<1>2. T \in SUBSET S
  BY <1>1 DEF Creating, At
<1>3. Cardinality(S) \in Nat /\ Cardinality(T) \in Nat /\ Cardinality(T) <= Cardinality(S)
  BY <1>1, <1>2, CreatingActive, Fewer
<1>4. Cardinality(rows[p]) + Cardinality(S) <= 1 + overruns[p]
  BY <1>1, GuardedBefore DEF RowsInv
<1>5. Cardinality(rows[p]) \in Nat /\ Cardinality(Creating(p))' = Cardinality(T)
  BY <1>1, FS_CardinalityType DEF RowsInv
<1> QED BY <1>3, <1>4, <1>5

LEMMA RowsRemove ==
    ASSUME Basics, IsFiniteSet(Active), LockInv, WindowInv, RowsInv,
           NEW r \in Requests, RemoveOne(r)
    PROVE  RowsInv'
<1>1. /\ UNCHANGED <<redis, checks, texts, overruns>> /\ req[r].pc = "remove"
      /\ \A p \in Phones : overruns[p] \in Nat
  BY DEF RemoveOne, At, Basics, TypeOK
<1>2. /\ \A q \in Requests \ {r} : req'[q] = req[q]
      /\ req'[r].phone = req[r].phone
      /\ spent'.outages = spent.outages
      /\ \A p \in Phones : p # req[r].phone => rows'[p] = rows[p]
      /\ \/ req'[r].pc = "create" /\ rows'[req[r].phone] = {}
         \/ req'[r].pc = "release" /\ UNCHANGED rows
  BY RemoveTo DEF Basics
<1>3. CASE req'[r].pc = "release" /\ UNCHANGED rows
  <2>1. \A q \in Requests : req'[q].pc = "create" => req'[q] = req[q]
    BY <1>2, <1>3
  <2> QED BY <1>1, <1>2, <1>3, <2>1, RowsKept
<1>4. CASE req'[r].pc = "create" /\ rows'[req[r].phone] = {}
  <2>1. \A p \in Phones : IsFiniteSet(rows'[p])
    BY <1>2, <1>4, FS_EmptySet DEF RowsInv
  <2>2. ASSUME Guarded', NEW p \in Phones
        PROVE  Cardinality(rows'[p]) + Cardinality(Creating(p))' <= 1 + overruns'[p]
    <3>1. PICK S, T : S = LateOf(p) /\ T = Creating(p)'
      OBVIOUS
    <3>2. Guarded /\ Cardinality(Creating(p))' = Cardinality(T)
      BY <1>1, <1>2, <2>2, <3>1, GuardedBefore
    <3>3. CASE p = req[r].phone
      <4>1. T \in SUBSET S
        BY <1>1, <1>2, <3>1, <3>3 DEF Creating, LateOf, Late, At
      <4>2. Cardinality(S) \in Nat /\ Cardinality(T) \in Nat /\ Cardinality(T) <= Cardinality(S)
        BY <3>1, <4>1, LateActive, Fewer
      <4>3. Cardinality(S) <= 1 + overruns[p]
        BY <3>1, <3>2, FewLate
      <4>4. Cardinality(rows'[p]) = 0
        BY <1>4, <3>3, FS_EmptySet
      <4> QED BY <1>1, <3>2, <4>2, <4>3, <4>4
    <3>4. CASE p # req[r].phone
      <4>1. T = Creating(p) /\ rows'[p] = rows[p]
        BY <1>2, <3>1, <3>4 DEF Creating, At
      <4> QED BY <1>1, <3>2, <4>1 DEF RowsInv
    <3> QED BY <3>3, <3>4
  <2> QED BY <2>1, <2>2 DEF RowsInv
<1> QED BY <1>2, <1>3, <1>4

LEMMA RowsCreate ==
    ASSUME Basics, IsFiniteSet(Active), RowsInv, NEW r \in Requests, CreateRow(r)
    PROVE  RowsInv'
<1> DEFINE row == [code |-> req[r].code, date |-> IF Dated THEN now ELSE 0]
<1>1. /\ UNCHANGED <<redis, checks, texts, overruns, spent>> /\ req[r].pc = "create"
      /\ \A p \in Phones : overruns[p] \in Nat
  BY DEF CreateRow, At, Basics, TypeOK
<1>2. /\ req'[r].pc = "send"
      /\ \A q \in Requests \ {r} : req'[q] = req[q]
      /\ \A p \in Phones : p # req[r].phone => rows'[p] = rows[p]
      /\ rows'[req[r].phone] = rows[req[r].phone] \cup {row}
  BY CreateTo
<1> HIDE DEF row
<1>3. ASSUME NEW p \in Phones
      PROVE  /\ IsFiniteSet(rows'[p])
             /\ Guarded' => Cardinality(rows'[p]) + Cardinality(Creating(p))' <= 1 + overruns'[p]
  <2>1. PICK S, T : S = Creating(p) /\ T = Creating(p)'
    OBVIOUS
  <2>2. /\ IsFiniteSet(rows[p]) /\ Cardinality(rows[p]) \in Nat
        /\ Guarded' => Cardinality(rows[p]) + Cardinality(S) <= 1 + overruns[p]
    BY <1>1, <2>1, GuardedBefore, FS_CardinalityType DEF RowsInv
  <2>3. CASE p = req[r].phone
    <3>1. T \in SUBSET (S \ {r}) /\ r \in S
      BY <1>1, <1>2, <2>1, <2>3 DEF Creating, At
    <3>2. Cardinality(S) \in Nat /\ Cardinality(T) \in Nat /\ Cardinality(T) + 1 <= Cardinality(S)
      BY <2>1, <3>1, CreatingActive, Fewer
    <3>3. /\ IsFiniteSet(rows'[p]) /\ Cardinality(rows'[p]) \in Nat
          /\ Cardinality(rows'[p]) <= Cardinality(rows[p]) + 1
      <4>1. /\ IsFiniteSet(rows[p] \cup {row})
            /\ \/ Cardinality(rows[p] \cup {row}) = Cardinality(rows[p])
               \/ Cardinality(rows[p] \cup {row}) = Cardinality(rows[p]) + 1
        BY <2>2, FS_AddElement, Zenon
      <4>2. rows'[p] = rows[p] \cup {row}
        BY <1>2, <2>3
      <4> QED BY <2>2, <4>1, <4>2
    <3> QED BY <1>1, <2>1, <2>2, <3>2, <3>3
  <2>4. CASE p # req[r].phone
    <3>1. T = S /\ rows'[p] = rows[p]
      BY <1>1, <1>2, <2>1, <2>4 DEF Creating, At
    <3> QED BY <1>1, <2>1, <2>2, <3>1
  <2> QED BY <2>3, <2>4
<1> QED BY <1>3 DEF RowsInv

LEMMA RowsStep ==
    ASSUME Basics, IsFiniteSet(Active), LockInv, WindowInv, RowsInv, [Next]_vars PROVE RowsInv'
<1> USE DEF Basics
<1>0. \A p \in Phones : /\ overruns[p] \in Nat /\ overruns'[p] \in Nat
                        /\ overruns[p] <= overruns'[p]
  BY Overrunning
<1>1. ASSUME NEW r \in Requests, \A q \in Requests \ {r} : req'[q] = req[q],
             req'[r].pc # "create", spent'.outages = spent.outages,
             UNCHANGED <<redis, checks, rows>>
      PROVE  RowsInv'
  <2>1. \A q \in Requests : req'[q].pc = "create" => req'[q] = req[q]
    BY <1>1
  <2> QED BY <1>0, <1>1, <2>1, RowsKept
<1>2. ASSUME NEW r \in Requests, NEW p \in Phones, NEW a \in Ips, Start(r, p, a)
      PROVE  RowsInv'
  <2>1. /\ req'[r].pc = "lock" /\ \A q \in Requests \ {r} : req'[q] = req[q]
        /\ spent'.outages = spent.outages /\ UNCHANGED <<redis, checks, rows>>
    BY <1>2, StartBasics DEF Start
  <2> QED BY <1>1, <2>1
<1>3. ASSUME NEW r \in Requests, AcquireLock(r) \/ InCooldown(r) \/ SetCooldown(r)
             \/ ReleaseLock(r) PROVE RowsInv'
  <2>1. /\ \E pc \in Steps \ {"create", "send"} : Goes(r, pc) \/ Ends(r)
        /\ UNCHANGED <<redis, checks, rows>> /\ spent'.outages = spent.outages
    BY <1>3 DEF AcquireLock, InCooldown, SetCooldown, ReleaseLock, Steps
  <2>2. req'[r].pc # "create" /\ \A q \in Requests \ {r} : req'[q] = req[q]
    BY <2>1, GoesTyped, EndsTyped, IdleTyped
  <2> QED BY <1>1, <2>1, <2>2
<1>4. ASSUME NEW r \in Requests, LastSentAt(r) \/ CheckLimit(r) PROVE RowsInv'
  <2>1. req'[r].pc # "create" /\ \A q \in Requests \ {r} : req'[q] = req[q]
    BY <1>4, LastSentTo, CheckLimitTo
  <2>2. UNCHANGED <<redis, checks, rows, spent>>
    BY <1>4 DEF LastSentAt, CheckLimit
  <2> QED BY <1>1, <2>1, <2>2
<1>5. ASSUME NEW r \in Requests, RequestError(r) \/ Send(r) PROVE RowsInv'
  <2>1. UNCHANGED <<redis, checks, rows>>
    BY <1>5 DEF RequestError, Send
  <2>2. req'[r].pc # "create"
    BY <1>5, ErrorTo, SendTo
  <2>3. \A q \in Requests \ {r} : req'[q] = req[q]
    BY <1>5, ErrorTo, SendTo
  <2>4. spent'.outages = spent.outages
    BY <1>5, ErrorTo, SendTo
  <2> QED BY <1>1, <2>1, <2>2, <2>3, <2>4
<1>6. ASSUME Tick PROVE RowsInv'
  BY <1>0, <1>6, RowsKept DEF Tick
<1>7. ASSUME RedisChanges PROVE RowsInv'
  BY <1>7, ChangesTo DEF RowsInv, Guarded, RedisChanges
<1>8. ASSUME Restart PROVE RowsInv'
  <2>1. UNCHANGED <<redis, checks, rows>> /\ spent'.outages = spent.outages
        /\ \A r \in Requests : req'[r].pc # "create"
    BY <1>8, RestartTo DEF Restart
  <2> QED BY <1>0, <2>1, RowsKept
<1>9. CASE UNCHANGED vars
  BY <1>0, <1>9, RowsKept DEF vars
<1> QED BY <1>2, <1>3, <1>4, <1>5, <1>6, <1>7, <1>8, <1>9, RowsRemove, RowsCreate
        DEF Next, RequestStep

LEMMA RowsInit == Init => RowsInv
<1> SUFFICES ASSUME Init, NEW p \in Phones
             PROVE  /\ IsFiniteSet(rows[p])
                    /\ Cardinality(rows[p]) + Cardinality(Creating(p)) <= 1 + overruns[p]
  BY DEF RowsInv
<1>1. rows[p] = {} /\ Creating(p) = {} /\ overruns[p] = 0
  BY IdleTyped DEF Init, Creating, At
<1> QED BY <1>1, FS_EmptySet

LEMMA CodesWork ==
    Basics /\ IsFiniteSet(Active) /\ RowsInv /\ CodesInv => LatestCodeWorks
<1> SUFFICES ASSUME Basics, IsFiniteSet(Active), RowsInv, CodesInv, Guarded, NEW p \in Phones
             PROVE  /\ Cardinality(rows[p]) <= 1 + overruns[p]
                    /\ overruns[p] = 0 =>
                          \A m \in texts :
                              m.phone = p => \/ {row.code : row \in rows[p]} = {m.code}
                                             \/ \A row \in rows[p] : row.code > m.code
  BY DEF LatestCodeWorks, Guarded
<1>1. Cardinality(rows[p]) <= 1 + overruns[p]
  <2>1. PICK S : S = Creating(p)
    OBVIOUS
  <2>2. Cardinality(S) \in Nat /\ Cardinality(rows[p]) \in Nat /\ overruns[p] \in Nat
    BY <2>1, CreatingActive, Fewer, FS_CardinalityType DEF RowsInv, Basics, TypeOK
  <2>3. Cardinality(rows[p]) + Cardinality(S) <= 1 + overruns[p]
    BY <2>1 DEF RowsInv
  <2> QED BY <2>2, <2>3
<1>2. ASSUME overruns[p] = 0, NEW m \in texts, m.phone = p,
             {row.code : row \in rows[p]} # {m.code}, NEW row \in rows[p]
      PROVE  row.code > m.code
  <2>0. CodesFit(p)
    BY <1>2 DEF CodesInv
  <2>1. rows[p] = {row}
    BY <1>2, <2>0 DEF CodesFit
  <2>2. row.code # m.code
    BY <1>2, <2>1
  <2>3. m.code <= row.code /\ m.code \in Nat /\ row.code \in Nat
    BY <1>2, <2>0 DEF CodesFit, Basics, TypeOK, Text, OtpRow
  <2> QED BY <2>2, <2>3
<1> QED BY <1>1, <1>2

\* While Redis stays as it is, and there or making up for it with a limit of one, a
\* phone has one code, and one more at most each time a request outlived the lock or
\* that limit.  As long as none did, it is the code last sent until a later request
\* deletes it: delete and insert (auth.usecase.ts:461) are never those of two requests.
THEOREM LastCodeWorks == Spec => []LatestCodeWorks
<1> DEFINE Inv == /\ Basics /\ IsFiniteSet(Active) /\ LockInv /\ WindowInv /\ Stamped
                  /\ CodesInv /\ RowsInv
<1>1. Init => Inv
  BY BasicsInit, ActiveInit, LockInit, WindowInit, StampedInit, CodesInit, RowsInit
<1>2. Inv /\ [Next]_vars => Inv'
  BY BasicsStep, ActiveStep, LockStep, WindowStep, StampedStep, CodesStep, RowsStep
<1>3. Inv => LatestCodeWorks
  BY CodesWork
<1> QED BY <1>1, <1>2, <1>3, PTL DEF Spec

(***************************************************************************)
(* Messages spaced by lock and date                                        *)
(***************************************************************************)

\* The conditions under which lock and date keep messages at their distance, whatever
\* stops a request, as long as none of the phone outlives the lock.
Watched == Steady /\ redis /\ Dated

\* The next message may not come yet.
Recent(m) == now + Patience < m.at + Cooldown

\* What is left of a message, for the next request to find.
Remembered(m) == \E row \in rows[m.phone] : row.date + Patience >= m.at

\* Where a request for the phone of a recent message can be.
Behind(r) == req[r].pc \notin {"check", "remove", "create", "send"}

Apart(m, n) == m.at + Cooldown <= n.at + Patience

Followed(m) == Remembered(m) /\ \A r \in Requests : req[r].phone = m.phone => Behind(r)

SpacedInv ==
    Watched => \A m \in texts : overruns[m.phone] = 0 =>
        /\ Recent(m) => Followed(m)
        /\ \A n \in texts : m.phone = n.phone /\ m # n => Apart(m, n) \/ Apart(n, m)

LEMMA WatchedGuarded == Watched => Guarded /\ redis /\ Steady
  BY DEF Watched, Guarded

LEMMA WatchedBefore ==
    ASSUME spent'.outages = spent.outages, UNCHANGED redis, Watched' PROVE Watched
  BY DEF Watched, Steady

LEMMA RecentTyped ==
    ASSUME Basics, NEW m \in texts
    PROVE  m.phone \in Phones /\ m.at \in Nat /\ now \in Nat /\ Patience \in Nat /\ Cooldown \in Nat
  BY TimesAssumption DEF Basics, TypeOK, Text

\* The steps that send nothing: what is left of recent messages stays, and
\* nobody gets in front of them.
LEMMA SpacedKept ==
    ASSUME Basics, Basics', SpacedInv, UNCHANGED <<redis, texts>>,
           spent'.outages = spent.outages, now' >= now,
           \A p \in Phones : overruns'[p] = 0 => overruns[p] = 0,
           Watched => \A m \in texts :
               Recent(m) /\ overruns[m.phone] = 0 /\ Followed(m) => Followed(m)'
    PROVE  SpacedInv'
<1> SUFFICES ASSUME Watched', NEW m \in texts, overruns'[m.phone] = 0
             PROVE  /\ Recent(m)' => Followed(m)'
                    /\ \A n \in texts :
                           m.phone = n.phone /\ m # n => Apart(m, n)' \/ Apart(n, m)'
  BY DEF SpacedInv
<1>1. Watched /\ overruns[m.phone] = 0
  BY WatchedBefore, RecentTyped
<1>2. ASSUME Recent(m)' PROVE Followed(m)'
  <2>1. now' \in Nat
    BY DEF Basics, TypeOK
  <2>2. Recent(m)
    BY <1>2, <2>1, RecentTyped DEF Recent
  <2>3. Followed(m)
    BY <1>1, <2>2 DEF SpacedInv
  <2> QED BY <1>1, <2>2, <2>3
<1>3. \A n \in texts : m.phone = n.phone /\ m # n => Apart(m, n)' \/ Apart(n, m)'
  BY <1>1 DEF SpacedInv, Apart
<1> QED BY <1>2, <1>3

\* One request moves on without a message.
LEMMA SpacedMove ==
    ASSUME Basics, Basics', SpacedInv, UNCHANGED <<redis, texts, now, overruns>>,
           spent'.outages = spent.outages,
           NEW r \in Requests,
           \A q \in Requests \ {r} : req'[q] = req[q],
           Watched => \A m \in texts :
               Recent(m) /\ overruns[m.phone] = 0 /\ Followed(m) =>
                   /\ req'[r].phone = m.phone => Behind(r)'
                   /\ \A row \in rows[m.phone] : row \in rows'[m.phone]
    PROVE  SpacedInv'
<1>1. ASSUME Watched, NEW m \in texts, Recent(m), overruns[m.phone] = 0, Followed(m)
      PROVE  Followed(m)'
  <2>1. Remembered(m)'
    BY <1>1 DEF Followed, Remembered
  <2>2. ASSUME NEW q \in Requests, req'[q].phone = m.phone PROVE Behind(q)'
    <3>1. CASE q = r
      BY <1>1, <2>2, <3>1
    <3>2. CASE q # r
      BY <1>1, <2>2, <3>2 DEF Behind, Followed
    <3> QED BY <3>1, <3>2
  <2> QED BY <2>1, <2>2 DEF Followed
<1>2. now' >= now
  BY DEF Basics, TypeOK
<1> QED BY <1>1, <1>2, SpacedKept

LEMMA SpacedLast ==
    ASSUME Basics, SpacedInv, NEW r \in Requests, CodesInv, Stamped, LastSentAt(r)
    PROVE  SpacedInv'
<1>1. /\ UNCHANGED <<now, checks, redis, lock, cool, window, rows, texts, overruns, spent>>
      /\ req[r].pc = "last" /\ Basics'
  BY LastSentBasics DEF LastSentAt, At
<1>2. /\ req'[r].pc = IF SentLately(req[r].phone) THEN "release" ELSE "check"
      /\ req'[r].phone = req[r].phone
      /\ \A q \in Requests \ {r} : req'[q] = req[q]
  BY LastSentTo DEF Basics
<1>3. ASSUME Watched, NEW m \in texts, Recent(m), overruns[m.phone] = 0, Followed(m),
             req[r].phone = m.phone
      PROVE  Behind(r)'
  <2>2. PICK row \in rows[m.phone] : row.date + Patience >= m.at
    BY <1>3 DEF Remembered, Followed
  <2>3. CodesFit(m.phone) /\ m.phone \in Phones /\ Dated
    BY <1>3, WatchedGuarded, RecentTyped DEF CodesInv, Watched
  <2>4. /\ \A other \in rows[m.phone] : other = row
        /\ row.date >= 1 /\ row.date <= now /\ row.date \in Nat
    BY <2>3 DEF CodesFit, Stamped, Basics, TypeOK, OtpRow
  <2>5. now - row.date < Cooldown
    BY <1>3, <2>2, <2>4, RecentTyped DEF Recent
  <2>6. SentLately(m.phone)
    BY <2>2, <2>4, <2>5 DEF SentLately
  <2> QED BY <1>2, <1>3, <2>6 DEF Behind
<1> QED BY <1>1, <1>2, <1>3, SpacedMove

\* A request goes on or ends behind the messages, with the codes as they are.
LEMMA SpacedGoes ==
    ASSUME Basics, Basics', SpacedInv, NEW r \in Requests,
           NEW pc \in {"idle", "cooldown", "last", "release"}, Goes(r, pc) \/ Ends(r),
           UNCHANGED <<now, redis, rows, texts, overruns>>,
           spent'.outages = spent.outages
    PROVE  SpacedInv'
<1>1. /\ req'[r].pc \in {"idle", "cooldown", "last", "release"}
      /\ \A q \in Requests \ {r} : req'[q] = req[q]
  BY GoesTyped, EndsTyped, IdleTyped DEF Steps, Basics
<1>2. Behind(r)'
  BY <1>1 DEF Behind
<1>3. \A m \in texts : \A row \in rows[m.phone] : row \in rows'[m.phone]
  OBVIOUS
<1> QED BY <1>1, <1>2, <1>3, SpacedMove

LEMMA SpacedStart ==
    ASSUME Basics, SpacedInv, NEW r \in Requests, NEW p \in Phones, NEW a \in Ips, Start(r, p, a)
    PROVE  SpacedInv'
<1>1. /\ UNCHANGED <<now, redis, rows, texts, overruns>>
      /\ Basics' /\ req'[r].pc = "lock" /\ \A q \in Requests \ {r} : req'[q] = req[q]
      /\ spent'.outages = spent.outages
  BY StartBasics DEF Start
<1>2. Behind(r)'
  BY <1>1 DEF Behind
<1>3. \A m \in texts : \A row \in rows[m.phone] : row \in rows'[m.phone]
  BY <1>1
<1> QED BY <1>1, <1>2, <1>3, SpacedMove

\* The steps of a request that no recent message is behind.
LEMMA SpacedAhead ==
    ASSUME Basics, Basics', SpacedInv, NEW r \in Requests, ~Behind(r),
           \A q \in Requests \ {r} : req'[q] = req[q], req'[r].phone = req[r].phone,
           UNCHANGED <<now, redis, texts, overruns>>, spent'.outages = spent.outages,
           \A p \in Phones : p # req[r].phone => rows'[p] = rows[p]
    PROVE  SpacedInv'
<1>1. \A m \in texts : req[r].phone = m.phone => ~Followed(m)
  BY DEF Followed
<1>2. \A m \in texts : req[r].phone # m.phone =>
          \A row \in rows[m.phone] : row \in rows'[m.phone]
  BY RecentTyped
<1> QED BY <1>1, <1>2, SpacedMove

LEMMA SpacedFront ==
    ASSUME Basics, SpacedInv, NEW r \in Requests, CheckLimit(r) \/ RemoveOne(r) \/ CreateRow(r)
    PROVE  SpacedInv'
<1>1. UNCHANGED <<now, redis, texts, overruns>> /\ ~Behind(r)
  BY DEF CheckLimit, RemoveOne, CreateRow, At, Behind
<1>2. Basics'
  BY CheckBasics, RemoveBasics, CreateTo
<1>3. CASE CheckLimit(r)
  <2>1. UNCHANGED <<rows, spent>>
    BY <1>3 DEF CheckLimit
  <2>2. req'[r].phone = req[r].phone /\ \A q \in Requests \ {r} : req'[q] = req[q]
    BY <1>3, CheckLimitTo
  <2> QED BY <1>1, <1>2, <2>1, <2>2, SpacedAhead
<1>4. CASE RemoveOne(r)
  BY <1>1, <1>2, <1>4, RemoveTo, SpacedAhead DEF Basics
<1>5. CASE CreateRow(r)
  <2>1. UNCHANGED spent
    BY <1>5 DEF CreateRow
  <2> QED BY <1>1, <1>2, <1>5, <2>1, CreateTo, SpacedAhead
<1> QED BY <1>3, <1>4, <1>5

\* The message itself: it is remembered, the others for its phone have had their
\* time, and nobody is in front of it.
LEMMA SpacedSend ==
    ASSUME Basics, IsFiniteSet(Active), LockInv, CodesInv, Stamped, SpacedInv,
           NEW r \in Requests, Send(r)
    PROVE  SpacedInv'
<1> DEFINE p == req[r].phone
<1>0. PICK n : n = [phone |-> req[r].phone, ip |-> req[r].ip, code |-> req[r].code, at |-> now]
  OBVIOUS
<1>1. UNCHANGED <<now, checks, redis, rows, overruns>> /\ req[r].pc = "send" /\ ~Behind(r)
  BY DEF Send, At, Behind
<1>2. /\ Basics'
      /\ req'[r].phone = p /\ req'[r].pc \in {"mark", "release"}
      /\ \A q \in Requests \ {r} : req'[q] = req[q]
      /\ spent'.outages = spent.outages
      /\ texts' = texts \cup {n} \/ texts' = texts
  BY <1>0, SendTo
<1>4. CASE texts' = texts
  BY <1>1, <1>2, <1>4, SpacedAhead
<1>5. CASE texts' = texts \cup {n}
  <2>2. n.phone = p /\ n.at = now
    BY <1>0
  <2>3. /\ p \in Phones /\ now \in Nat /\ Patience \in Nat /\ Cooldown \in Nat
        /\ req[r].since \in Nat /\ now <= req[r].since + Patience /\ req[r].since <= now
    BY <1>1, TimesAssumption DEF Basics, TypeOK, Request, Punctual, At
  <2> SUFFICES ASSUME Watched', NEW m \in texts', overruns[m.phone] = 0
               PROVE  /\ Recent(m)' => Followed(m)'
                      /\ \A x \in texts' :
                             m.phone = x.phone /\ m # x => Apart(m, x)' \/ Apart(x, m)'
    BY <1>1 DEF SpacedInv
  <2>1. Watched /\ Guarded /\ redis /\ Steady /\ Dated
    BY <1>1, <1>2, WatchedBefore, WatchedGuarded DEF Watched
  <2>4. ASSUME overruns[p] = 0, NEW x \in texts, x.phone = p PROVE ~Recent(x)
    BY <1>1, <2>1, <2>4 DEF SpacedInv, Followed
  <2>5. ASSUME m.phone # p, Recent(m)' PROVE Followed(m)'
    <3>0. m \in texts
      BY <1>5, <2>2, <2>5
    <3>1. Recent(m)
      BY <1>1, <2>5 DEF Recent
    <3>2. Followed(m)
      BY <2>1, <3>0, <3>1 DEF SpacedInv
    <3>3. Remembered(m)'
      BY <1>1, <3>2 DEF Remembered, Followed
    <3>4. ASSUME NEW q \in Requests, req'[q].phone = m.phone PROVE Behind(q)'
      <4>1. q # r
        BY <1>2, <2>5, <3>4
      <4>2. req'[q] = req[q] /\ Behind(q)
        BY <1>2, <3>2, <3>4, <4>1 DEF Followed
      <4> QED BY <4>2 DEF Behind
    <3> QED BY <3>3, <3>4 DEF Followed
  <2>6. ASSUME m.phone = p, Recent(m)' PROVE Followed(m)'
    <3>1. m = n
      BY <1>1, <1>5, <2>4, <2>6 DEF Recent
    <3>2. Remembered(n)'
      <4>1. CodesFit(p)
        BY <2>1, <2>3, <2>6 DEF CodesInv
      <4>2. PICK row \in rows[p] : row.date >= req[r].since
        BY <1>1, <2>1, <4>1 DEF CodesFit
      <4>3. row.date \in Nat
        BY <2>3, <4>2 DEF Basics, TypeOK, OtpRow
      <4>4. row.date + Patience >= n.at
        BY <2>2, <2>3, <4>2, <4>3
      <4> QED BY <1>1, <2>2, <4>2, <4>4 DEF Remembered
    <3>3. ASSUME NEW q \in Requests, req'[q].phone = p PROVE Behind(q)'
      <4>1. CASE q = r
        BY <1>2, <4>1 DEF Behind
      <4>2. CASE q # r
        <5>1. req'[q] = req[q] /\ req[q].phone = p
          BY <1>2, <3>3, <4>2
        <5>2. ~PastLock(q)
          BY <1>1, <2>1, <2>6, <4>2, <5>1, OneLocked DEF PastLock
        <5> QED BY <5>1, <5>2 DEF PastLock, Behind
      <4> QED BY <4>1, <4>2
    <3> QED BY <2>2, <3>1, <3>2, <3>3 DEF Followed
  <2>7. ASSUME NEW x \in texts', m.phone = x.phone, m # x
        PROVE  Apart(m, x)' \/ Apart(x, m)'
    <3>1. CASE m \in texts /\ x \in texts
      BY <2>1, <2>7, <3>1 DEF SpacedInv, Apart
    <3>2. ASSUME overruns[p] = 0, NEW y \in texts, y.phone = p PROVE Apart(y, n)'
      <4>1. ~Recent(y) /\ y.at \in Nat
        BY <2>4, <3>2, RecentTyped
      <4> QED BY <1>1, <2>2, <2>3, <4>1 DEF Recent, Apart
    <3>3. CASE m = n
      BY <1>5, <2>2, <2>7, <3>2, <3>3
    <3>4. CASE x = n
      BY <1>5, <2>2, <2>7, <3>2, <3>4
    <3> QED BY <1>5, <3>1, <3>3, <3>4
  <2> QED BY <2>5, <2>6, <2>7
<1> QED BY <1>2, <1>4, <1>5

LEMMA SpacedStep ==
    ASSUME Basics, IsFiniteSet(Active), LockInv, Stamped, CodesInv, SpacedInv, [Next]_vars
    PROVE  SpacedInv'
<1>0. /\ Basics' /\ now' >= now
      /\ \A p \in Phones : overruns'[p] = 0 => overruns[p] = 0
  <2>1. Basics' /\ \A p \in Phones : overruns'[p] = 0 => overruns[p] = 0
    BY BasicsStep, Overrunning
  <2>2. now \in Nat /\ (now' = now \/ now' = now + 1)
    BY DEF Basics, TypeOK, Next, RequestStep, Start, AcquireLock, InCooldown, LastSentAt,
           CheckLimit, RemoveOne, CreateRow, Send, SetCooldown, ReleaseLock, RequestError,
           Tick, RedisChanges, Restart, vars
  <2> QED BY <2>1, <2>2
<1>1. ASSUME NEW r \in Requests,
             AcquireLock(r) \/ InCooldown(r) \/ SetCooldown(r) \/ ReleaseLock(r)
      PROVE  SpacedInv'
  <2>1. /\ \E pc \in {"idle", "cooldown", "last", "release"} : Goes(r, pc) \/ Ends(r)
        /\ UNCHANGED <<now, redis, rows, texts, overruns, spent>>
    BY <1>1 DEF AcquireLock, InCooldown, SetCooldown, ReleaseLock
  <2> QED BY <1>0, <2>1, SpacedGoes
<1>2. ASSUME NEW r \in Requests, RequestError(r) PROVE SpacedInv'
  <2>1. Goes(r, "release") /\ UNCHANGED <<now, redis, rows, texts, overruns>>
    BY <1>2 DEF RequestError
  <2> QED BY <1>0, <1>2, <2>1, ErrorTo, SpacedGoes
<1>3. ASSUME RedisChanges PROVE SpacedInv'
  BY <1>3, ChangesTo DEF SpacedInv, Watched
<1>4. ASSUME UNCHANGED <<redis, texts, rows>>, spent'.outages = spent.outages,
             \A q \in Requests : Behind(q)' \/ req'[q] = req[q]
      PROVE  SpacedInv'
  <2>1. ASSUME NEW m \in texts, Followed(m) PROVE Followed(m)'
    BY <1>4, <2>1 DEF Followed, Remembered, Behind
  <2> QED BY <1>0, <1>4, <2>1, SpacedKept
<1>5. CASE Tick \/ UNCHANGED vars
  BY <1>4, <1>5 DEF Tick, vars
<1>6. CASE Restart
  <2>1. \A q \in Requests : Behind(q)'
    BY <1>6, RestartTo DEF Behind
  <2> QED BY <1>4, <1>6, <2>1, RestartTo DEF Restart
<1> QED BY <1>1, <1>2, <1>3, <1>5, <1>6, SpacedStart, SpacedLast, SpacedFront, SpacedSend
        DEF Next, RequestStep

LEMMA SpacedInit == Init => SpacedInv
  BY DEF Init, SpacedInv

LEMMA Spaced ==
    ASSUME Basics, SpacedInv, Watched, NEW p \in Phones, overruns[p] = 0, NEW t \in 1..now
    PROVE  Cardinality(Sent(p, t, Cooldown)) <= 1
<1>1. AtMostOne(Sent(p, t, Cooldown))
  <2> SUFFICES ASSUME NEW m \in texts, NEW n \in texts, m.phone = p, n.phone = p, m # n,
                      t <= m.at, m.at + Patience < t + Cooldown,
                      t <= n.at, n.at + Patience < t + Cooldown
               PROVE  FALSE
    BY DEF AtMostOne, Sent
  <2>1. Apart(m, n) \/ Apart(n, m)
    BY DEF SpacedInv
  <2>2. t \in Nat
    BY DEF Basics, TypeOK
  <2> QED BY <2>1, <2>2, RecentTyped DEF Apart
<1> QED BY <1>1, OneAtMost

(***************************************************************************)
(* Rate limits                                                             *)
(***************************************************************************)

\* A window is named by the store that counts and by its opening; a request that
\* it lets through takes the next number of it along, and leaves it to its message.
Ticket == [store: Stores, opened: Nat, n: Nat]

\* The i-th limit counts message m for subject x.
Hits(m, i, x) == CASE checks[i].scope = "phone" -> m.phone = x
                   [] checks[i].scope = "ip" -> m.ip = x
                   [] OTHER -> x = Everyone

\* A request that the i-th limit let through for x, its message not sent yet.
Ahead(r, i, x) ==
    /\ req[r].pc \in {"remove", "create", "send"} \/ (At(r, "check") /\ req[r].check > i)
    /\ Subject(r, i) = x

\* A ticket is one of the window that is open in its store, or of an earlier one.
Given(k, w, ttl, time) ==
    IF w = NoWindow THEN k.opened + ttl <= time
    ELSE \/ k.opened + 2 * ttl <= w.until
         \/ k.opened + ttl = w.until /\ k.n <= w.count

\* Until Redis goes or comes, one store does all the counting.
Valid(k, i, x) ==
    /\ Steady => k.store = Store
    /\ Given(k, window[k.store][i][x], checks[i].ttl, now)

OfMessage(k, m, c) ==
    /\ 1 <= k.n /\ k.n <= c.limit /\ k.opened <= m.at
    /\ m.at < k.opened + c.ttl + Patience
    /\ k.n = 1 => m.at <= k.opened + Patience

OfRequest(k, since, c, time) ==
    /\ 1 <= k.n /\ k.n <= c.limit /\ k.opened <= time
    /\ since < k.opened + c.ttl
    /\ k.n = 1 => since <= k.opened

Spread(a, b, ttl) ==
    \/ a.store # b.store \/ a.opened = b.opened
    \/ a.opened + ttl <= b.opened \/ b.opened + ttl <= a.opened

InTerm(w, ttl) == w = NoWindow \/ (ttl <= w.until /\ w.until <= now + ttl)

\* Messages and requests of one subject hold different tickets, and the windows of
\* one store do not overlap.
Fits(i, x, t, q) ==
    LET c == checks[i]
    IN  /\ \A s \in Stores : InTerm(window[s][i][x], c.ttl)
        /\ \A m \in texts : Hits(m, i, x) => OfMessage(t[m], m, c) /\ Valid(t[m], i, x)
        /\ \A r \in Requests : Ahead(r, i, x) =>
               OfRequest(q[r], req[r].since, c, now) /\ Valid(q[r], i, x)
        /\ \A m, n \in texts : Hits(m, i, x) /\ Hits(n, i, x) /\ m # n =>
               t[m] # t[n] /\ Spread(t[m], t[n], c.ttl)
        /\ \A m \in texts, r \in Requests : Hits(m, i, x) /\ Ahead(r, i, x) =>
               t[m] # q[r] /\ Spread(t[m], q[r], c.ttl)
        /\ \A r, s \in Requests : Ahead(r, i, x) /\ Ahead(s, i, x) /\ r # s =>
               q[r] # q[s] /\ Spread(q[r], q[s], c.ttl)

\* No counter that somebody relies on was lost in a restart.
Counting == (Steady /\ redis) \/ spent.restarts = 0

RateInv ==
    Counting =>
        \A i \in DOMAIN checks, x \in Subjects :
            \E t \in [Text -> Ticket], q \in [Requests -> Ticket] : Fits(i, x, t, q)

LEMMA SubjectKept ==
    ASSUME NEW r \in Requests, req'[r].phone = req[r].phone, req'[r].ip = req[r].ip,
           checks' = checks, NEW i \in DOMAIN checks
    PROVE  Subject(r, i)' = Subject(r, i)
  BY DEF Subject

LEMMA HitsKept ==
    ASSUME checks' = checks, NEW m, NEW i, NEW x
    PROVE  Hits(m, i, x)' <=> Hits(m, i, x)
  BY DEF Hits

\* A window is as it was, or over.
Passed(w, v, time) == v = w \/ (v = NoWindow /\ w.until <= time)

LEMMA GivenKept ==
    ASSUME NEW w \in Window, NEW v \in Window, NEW ttl \in Nat \ {0}, NEW k \in Ticket,
           NEW time \in Nat, NEW later \in Nat, time <= later,
           Passed(w, v, later), Given(k, w, ttl, time)
    PROVE  Given(k, v, ttl, later)
<1>1. k.opened \in Nat /\ w.until \in Nat
  BY DEF Ticket, Window
<1>2. CASE w = NoWindow
  <2>1. v = NoWindow
    BY <1>2 DEF Passed
  <2> QED BY <1>1, <1>2, <2>1 DEF Given
<1>3. CASE w # NoWindow /\ v = w
  BY <1>3 DEF Given
<1>4. CASE w # NoWindow /\ v = NoWindow /\ w.until <= later
  BY <1>1, <1>4 DEF Given
<1> QED BY <1>2, <1>3, <1>4 DEF Passed

\* Counters of the i-th limit for x are as they were, or over, or nobody's.
Lapsed(i, x) ==
    \A s \in Stores :
        \/ Passed(window[s][i][x], window'[s][i][x], now')
        \/ Steady /\ s # Store /\ window'[s][i][x] = NoWindow

LEMMA ValidKept ==
    ASSUME Basics, Basics', checks' = checks, now' >= now,
           Steady' => Steady /\ Store' = Store,
           NEW i \in DOMAIN checks, NEW x \in Subjects, Lapsed(i, x),
           NEW k \in Ticket, Valid(k, i, x)
    PROVE  Valid(k, i, x)'
<1>1. PICK w, v, ttl : /\ w = window[k.store][i][x] /\ v = window'[k.store][i][x]
                       /\ ttl = checks[i].ttl
  OBVIOUS
<1>2. /\ k.store \in Stores /\ checks \in Settings /\ now \in Nat /\ now' \in Nat
      /\ w \in Window /\ ttl \in Nat \ {0}
  <2>1. k.store \in Stores
    BY DEF Ticket
  <2>2. w \in Window
    BY <1>1, <2>1 DEF Basics, TypeOK
  <2> QED BY <1>1, <2>1, <2>2, ChecksTyped DEF Basics, TypeOK
<1>3. v \in Window
  <2>1. window' \in [Stores -> [DOMAIN checks' -> [Subjects -> Window]]]
    BY DEF Basics, TypeOK
  <2> QED BY <1>1, <1>2, <2>1
<1>4. Given(k, w, ttl, now)
  BY <1>1 DEF Valid
<1>5. CASE Passed(w, v, now')
  <2>1. Given(k, v, ttl, now')
    BY <1>2, <1>3, <1>4, <1>5, GivenKept
  <2> QED BY <1>1, <2>1 DEF Valid
<1>6. CASE Steady /\ k.store # Store
  BY <1>6 DEF Valid
<1> QED BY <1>1, <1>2, <1>5, <1>6 DEF Lapsed

LEMMA InTermKept ==
    ASSUME NEW w \in Window, NEW v \in Window, NEW ttl \in Nat, now \in Nat, now' \in Nat,
           now' >= now, InTerm(w, ttl), v = w \/ v = NoWindow
    PROVE  InTerm(v, ttl)'
<1>1. w.until \in Nat
  BY DEF Window
<1> QED BY <1>1 DEF InTerm

\* The steps that neither count for a subject nor send.
LEMMA FitsKept ==
    ASSUME Basics, Basics', UNCHANGED <<checks, texts>>, now' >= now,
           Steady' => Steady /\ Store' = Store,
           NEW i \in DOMAIN checks, NEW x \in Subjects,
           NEW t \in [Text -> Ticket], NEW q \in [Requests -> Ticket], Fits(i, x, t, q),
           Lapsed(i, x),
           \A r \in Requests :
               Ahead(r, i, x)' => Ahead(r, i, x) /\ req'[r].since = req[r].since
    PROVE  Fits(i, x, t, q)'
<1>1. PICK c : c = checks[i]
  OBVIOUS
<1>2. /\ now \in Nat /\ now' \in Nat /\ checks'[i] = c /\ checks \in Settings
      /\ c.ttl \in Nat \ {0} /\ c.limit \in Nat /\ texts \subseteq Text
  BY <1>1, ChecksTyped DEF Basics, TypeOK
<1>3. /\ \A m \in texts : t[m] \in Ticket
      /\ \A r \in Requests : q[r] \in Ticket
  BY <1>2
<1>4. \A k \in Ticket : Valid(k, i, x) => Valid(k, i, x)'
  BY ValidKept
<1>5. ASSUME NEW s \in Stores PROVE InTerm(window[s][i][x], c.ttl)'
  <2>1. PICK w, v : w = window[s][i][x] /\ v = window'[s][i][x]
    OBVIOUS
  <2>2. InTerm(w, c.ttl)
    BY <1>1, <2>1 DEF Fits
  <2>3. w \in Window
    BY <2>1 DEF Basics, TypeOK
  <2>4. v \in Window
    <3>1. window' \in [Stores -> [DOMAIN checks' -> [Subjects -> Window]]]
      BY DEF Basics, TypeOK
    <3> QED BY <2>1, <3>1
  <2>5. v = w \/ v = NoWindow
    BY <2>1 DEF Lapsed, Passed
  <2>6. InTerm(v, c.ttl)'
    BY <1>2, <2>2, <2>3, <2>4, <2>5, InTermKept
  <2> QED BY <2>1, <2>6 DEF InTerm
<1>6. \A m \in texts : Hits(m, i, x) => OfMessage(t[m], m, c) /\ Valid(t[m], i, x)'
  BY <1>1, <1>3, <1>4 DEF Fits
<1>7. \A r \in Requests : Ahead(r, i, x)' =>
           OfRequest(q[r], req'[r].since, c, now') /\ Valid(q[r], i, x)'
  <2> SUFFICES ASSUME NEW r \in Requests, Ahead(r, i, x)'
               PROVE  OfRequest(q[r], req'[r].since, c, now') /\ Valid(q[r], i, x)'
    OBVIOUS
  <2>1. Ahead(r, i, x) /\ req'[r].since = req[r].since
    OBVIOUS
  <2>2. OfRequest(q[r], req[r].since, c, now) /\ Valid(q[r], i, x)
    BY <1>1, <2>1 DEF Fits
  <2>3. OfRequest(q[r], req'[r].since, c, now')
    BY <1>2, <1>3, <2>1, <2>2 DEF OfRequest, Ticket
  <2> QED BY <1>3, <1>4, <2>2, <2>3
<1>8. /\ \A m, n \in texts : Hits(m, i, x) /\ Hits(n, i, x) /\ m # n =>
             t[m] # t[n] /\ Spread(t[m], t[n], c.ttl)
      /\ \A m \in texts, r \in Requests : Hits(m, i, x) /\ Ahead(r, i, x)' =>
             t[m] # q[r] /\ Spread(t[m], q[r], c.ttl)
      /\ \A r, s \in Requests : Ahead(r, i, x)' /\ Ahead(s, i, x)' /\ r # s =>
             q[r] # q[s] /\ Spread(q[r], q[s], c.ttl)
  BY <1>1 DEF Fits
<1>9. \A m : Hits(m, i, x)' <=> Hits(m, i, x)
  BY HitsKept
<1> QED BY <1>2, <1>5, <1>6, <1>7, <1>8, <1>9 DEF Fits

LEMMA RateKept ==
    ASSUME Basics, Basics', RateInv, UNCHANGED <<checks, texts>>, now' >= now,
           Counting' => Counting, Steady' => Steady /\ Store' = Store,
           Counting' => \A i \in DOMAIN checks, x \in Subjects : Lapsed(i, x),
           \A r \in Requests, i \in DOMAIN checks, x \in Subjects :
               Ahead(r, i, x)' => Ahead(r, i, x) /\ req'[r].since = req[r].since
    PROVE  RateInv'
<1> SUFFICES ASSUME Counting', NEW i \in DOMAIN checks, NEW x \in Subjects
             PROVE  \E t \in [Text -> Ticket], q \in [Requests -> Ticket] : Fits(i, x, t, q)'
  BY DEF RateInv
<1>1. PICK t \in [Text -> Ticket], q \in [Requests -> Ticket] : Fits(i, x, t, q)
  BY DEF RateInv
<1>2. Fits(i, x, t, q)'
  BY <1>1, FitsKept
<1> QED BY <1>2

\* A request is counted, and takes a ticket if it is let through.
LEMMA RateCheck ==
    ASSUME Basics, RateInv, NEW r \in Requests, CheckLimit(r) PROVE RateInv'
<1>1. /\ UNCHANGED <<now, checks, redis, texts, overruns, spent>> /\ req[r].pc = "check"
      /\ Basics' /\ checks \in Settings /\ now \in Nat
      /\ req[r].since \in Nat /\ req[r].since <= now
      /\ Store' = Store /\ Store \in Stores
  BY CheckBasics DEF CheckLimit, At, Basics, TypeOK, Request, Punctual, Store, Stores
<1>2. PICK k, y, v : k = req[r].check /\ y = Subject(r, k) /\ v = Counted(r)
  OBVIOUS
<1>3. /\ k \in DOMAIN checks /\ k \in 1..Len(checks) /\ Len(checks) \in Nat
      /\ y \in Subjects /\ v \in Window
      /\ window[Store][k][y] \in Window /\ Opened(window[Store][k][y])
      /\ window'[Store][k][y] = v
      /\ \A s \in Stores, j \in DOMAIN checks, z \in Subjects :
             s # Store \/ j # k \/ z # y => window'[s][j][z] = window[s][j][z]
      /\ \A p \in Requests \ {r} : req'[p] = req[p]
      /\ req'[r].since = req[r].since /\ req'[r].phone = req[r].phone
      /\ req'[r].ip = req[r].ip
      /\ \/ ~Allowed(v, checks[k].limit) /\ req'[r].pc = "release" /\ req'[r].check = k
         \/ /\ Allowed(v, checks[k].limit) /\ k = Len(checks)
            /\ req'[r].pc = "remove" /\ req'[r].check = k
         \/ /\ Allowed(v, checks[k].limit) /\ k < Len(checks)
            /\ req'[r].pc = "check" /\ req'[r].check = k + 1
  BY <1>2, CheckLimitTo
<1>4. DOMAIN checks = 1..Len(checks)
  BY <1>1, ChecksTyped
<1>5. \A i \in DOMAIN checks : Subject(r, i)' = Subject(r, i)
  BY <1>1, <1>3, SubjectKept
<1>6. \A p \in Requests \ {r}, i \in DOMAIN checks, x \in Subjects :
          Ahead(p, i, x)' <=> Ahead(p, i, x)
  <2> SUFFICES ASSUME NEW p \in Requests \ {r}, NEW i \in DOMAIN checks, NEW x \in Subjects
               PROVE  Ahead(p, i, x)' <=> Ahead(p, i, x)
    OBVIOUS
  <2>1. req'[p] = req[p]
    BY <1>3
  <2>2. Subject(p, i)' = Subject(p, i)
    BY <1>1, <2>1, SubjectKept
  <2> QED BY <2>1, <2>2 DEF Ahead, At
<1> SUFFICES ASSUME Counting', NEW i \in DOMAIN checks, NEW x \in Subjects
             PROVE  \E t \in [Text -> Ticket], q \in [Requests -> Ticket] : Fits(i, x, t, q)'
  BY <1>1 DEF RateInv
<1>7. PICK t \in [Text -> Ticket], q \in [Requests -> Ticket] : Fits(i, x, t, q)
  BY <1>1 DEF RateInv, Counting, Steady
<1>71. Steady' <=> Steady
  BY <1>1 DEF Steady
<1>8. CASE k # i \/ y # x
  <2>1. Lapsed(i, x)
    BY <1>1, <1>3, <1>8 DEF Lapsed, Passed
  <2>2. Ahead(r, i, x)' => Ahead(r, i, x)
    <3> SUFFICES ASSUME Ahead(r, i, x)' PROVE Ahead(r, i, x)
      OBVIOUS
    <3>1. Subject(r, i) = x
      BY <1>5 DEF Ahead
    <3>2. k # i
      BY <1>2, <1>8, <3>1
    <3>3. k > i
      BY <1>1, <1>3, <1>4, <3>2 DEF Ahead, At
    <3> QED BY <1>1, <1>2, <3>1, <3>3 DEF Ahead, At
  <2>3. Fits(i, x, t, q)'
    BY <1>1, <1>3, <1>6, <1>7, <1>71, <2>1, <2>2, FitsKept
  <2> QED BY <2>3
<1>9. CASE k = i /\ y = x
  <2>1. PICK w, c : w = window[Store][i][x] /\ c = checks[i]
    OBVIOUS
  <2>2. /\ w \in Window /\ v \in Window /\ now \in Nat /\ c \in Limits /\ Opened(w)
        /\ c.ttl \in Nat /\ c.ttl > 0 /\ c.limit \in Nat /\ c.limit > 0
        /\ v = Increment(w, c) /\ window'[Store'][i][x] = v /\ checks'[i] = c
        /\ w.count \in Nat /\ w.until \in Nat /\ v.count \in Nat /\ v.until \in Nat
    <3>1. checks[i] \in Limits /\ checks[i].ttl \in Nat \ {0} /\ checks[i].limit \in Nat \ {0}
      BY <1>1, ChecksTyped
    <3>2. v = Increment(w, c)
      BY <1>2, <1>9, <2>1 DEF Counted
    <3> QED BY <1>1, <1>3, <1>9, <2>1, <3>1, <3>2 DEF Window
  <2>3. /\ v.count >= 1 /\ v.until > now
        /\ w = NoWindow => v.count = 1 /\ v.until = now + c.ttl
        /\ w # NoWindow => /\ v.until = w.until /\ w.count >= 1
                           /\ v.count > c.limit \/ v.count = w.count + 1
    BY <2>2, IncrementTyped
  <2>4. w = NoWindow \/ (c.ttl <= w.until /\ w.until <= now + c.ttl)
    BY <1>1, <1>7, <2>1 DEF Fits, InTerm
  <2>5. v # NoWindow /\ c.ttl <= v.until /\ v.until <= now + c.ttl
    BY <2>2, <2>3, <2>4 DEF NoWindow
  <2>61. ASSUME NEW p \in Ticket, Given(p, w, c.ttl, now)
         PROVE  Given(p, v, c.ttl, now)
    <3>1. p.opened \in Nat /\ p.n \in Nat
      BY DEF Ticket
    <3>2. CASE w = NoWindow
      BY <2>2, <2>3, <2>5, <2>61, <3>1, <3>2 DEF Given
    <3>3. CASE w # NoWindow
      <4>1. p.n <= w.count => p.n <= v.count
        <5>1. w.count <= v.count
          BY <2>2, <2>3, <3>3 DEF Increment
        <5> QED BY <2>2, <3>1, <5>1
      <4> QED BY <2>2, <2>3, <2>5, <2>61, <3>3, <4>1 DEF Given
    <3> QED BY <3>2, <3>3
  <2>62. \A s \in Stores : InTerm(window[s][i][x], c.ttl)'
    <3> SUFFICES ASSUME NEW s \in Stores PROVE InTerm(window[s][i][x], c.ttl)'
      OBVIOUS
    <3>1. CASE s = Store
      BY <1>1, <2>2, <2>5, <3>1 DEF InTerm
    <3>2. CASE s # Store
      BY <1>1, <1>3, <1>7, <2>1, <3>2 DEF InTerm, Fits
    <3> QED BY <3>1, <3>2
  <2>6. \A p \in Ticket : Valid(p, i, x) => Valid(p, i, x)'
    <3> SUFFICES ASSUME NEW p \in Ticket, Valid(p, i, x) PROVE Valid(p, i, x)'
      OBVIOUS
    <3>1. p.store \in Stores
      BY DEF Ticket
    <3>2. CASE p.store = Store
      BY <1>1, <1>71, <2>1, <2>2, <2>61, <3>2 DEF Valid
    <3>3. CASE p.store # Store
      BY <1>1, <1>3, <1>71, <3>1, <3>3 DEF Valid
    <3> QED BY <3>2, <3>3
  <2>7. /\ \A m \in texts : t[m] \in Ticket
        /\ \A p \in Requests : q[p] \in Ticket
    BY DEF Basics, TypeOK
  <2>8. \A m : Hits(m, i, x)' <=> Hits(m, i, x)
    BY <1>1, HitsKept
  <2>9. \A m \in texts : Hits(m, i, x) => OfMessage(t[m], m, c) /\ Valid(t[m], i, x)
    BY <1>7, <2>1 DEF Fits
  <2>10. \A p \in Requests : Ahead(p, i, x) =>
             OfRequest(q[p], req[p].since, c, now) /\ Valid(q[p], i, x)
    BY <1>7, <2>1 DEF Fits
  <2>11. ~Ahead(r, i, x)
    BY <1>1, <1>2, <1>3, <1>9 DEF Ahead, At
  <2>12. /\ \A m, n \in texts : Hits(m, i, x) /\ Hits(n, i, x) /\ m # n =>
                t[m] # t[n] /\ Spread(t[m], t[n], c.ttl)
         /\ \A m \in texts, p \in Requests : Hits(m, i, x) /\ Ahead(p, i, x) =>
                t[m] # q[p] /\ Spread(t[m], q[p], c.ttl)
         /\ \A p, s \in Requests : Ahead(p, i, x) /\ Ahead(s, i, x) /\ p # s =>
                q[p] # q[s] /\ Spread(q[p], q[s], c.ttl)
    BY <1>7, <2>1 DEF Fits
  <2>13. PICK new : new = [store |-> Store, opened |-> v.until - c.ttl, n |-> v.count]
    OBVIOUS
  <2>14. new \in Ticket /\ new.store = Store /\ new.opened + c.ttl = v.until /\ new.n = v.count
         /\ new.opened \in Nat /\ new.n \in Nat
    BY <1>1, <2>2, <2>5, <2>13 DEF Ticket
  <2>15. CASE ~Allowed(v, c.limit)
    <3>1. \A p \in Requests : Ahead(p, i, x)' => Ahead(p, i, x) /\ req'[p].since = req[p].since
      BY <1>3, <1>6, <1>9, <2>1, <2>15 DEF Ahead, At
    <3>2. \A m \in texts : Hits(m, i, x) => OfMessage(t[m], m, c) /\ Valid(t[m], i, x)'
      BY <2>6, <2>7, <2>9
    <3>3. \A p \in Requests : Ahead(p, i, x)' =>
              OfRequest(q[p], req'[p].since, c, now) /\ Valid(q[p], i, x)'
      BY <2>6, <2>7, <2>10, <3>1
    <3>4. Fits(i, x, t, q)'
      BY <1>1, <2>2, <2>62, <2>8, <2>12, <3>1, <3>2, <3>3 DEF Fits
    <3> QED BY <3>4
  <2>16. CASE Allowed(v, c.limit)
    <3>1. v.count <= c.limit /\ (w # NoWindow => v.count = w.count + 1)
      BY <2>2, <2>3, <2>16 DEF Allowed
    <3>2. \A p \in Ticket : Valid(p, i, x) => p # new /\ Spread(p, new, c.ttl)
      <4> SUFFICES ASSUME NEW p \in Ticket, Valid(p, i, x), p.store = Store
                   PROVE  p # new /\ Spread(p, new, c.ttl)
        BY <2>14 DEF Spread
      <4>0. Given(p, w, c.ttl, now)
        BY <2>1 DEF Valid
      <4>1. p.opened \in Nat /\ p.n \in Nat
        BY DEF Ticket
      <4>2. CASE w = NoWindow
        <5>1. p.opened + c.ttl <= new.opened
          BY <2>2, <2>3, <2>14, <4>0, <4>1, <4>2 DEF Given
        <5>2. p.opened # new.opened
          BY <2>2, <2>14, <4>1, <5>1
        <5> QED BY <5>1, <5>2 DEF Spread
      <4>3. CASE w # NoWindow
        <5>1. \/ p.opened + 2 * c.ttl <= w.until
              \/ p.opened + c.ttl = w.until /\ p.n <= w.count
          BY <4>0, <4>3 DEF Given
        <5>2. \/ p.opened + c.ttl <= new.opened
              \/ p.opened = new.opened /\ p.n < new.n
          BY <2>2, <2>3, <2>14, <3>1, <4>1, <4>3, <5>1
        <5>3. p.opened # new.opened \/ p.n # new.n
          BY <2>2, <2>14, <4>1, <5>2
        <5> QED BY <5>2, <5>3 DEF Spread
      <4> QED BY <4>2, <4>3
    <3>3. OfRequest(new, req[r].since, c, now) /\ Valid(new, i, x)'
      <4>1. new.opened <= now /\ req[r].since < new.opened + c.ttl
        BY <1>1, <2>2, <2>3, <2>5, <2>14
      <4>2. new.n = 1 => req[r].since <= new.opened
        BY <1>1, <2>2, <2>3, <2>14, <3>1
      <4>3. Given(new, v, c.ttl, now)
        BY <2>2, <2>5, <2>14 DEF Given
      <4>4. Valid(new, i, x)'
        BY <1>1, <2>2, <2>14, <4>3 DEF Valid
      <4> QED BY <2>2, <2>3, <2>14, <3>1, <4>1, <4>2, <4>4 DEF OfRequest
    <3>4. PICK q1 \in [Requests -> Ticket] : q1 = [q EXCEPT ![r] = new]
      BY <2>14
    <3>5. q1[r] = new /\ \A p \in Requests \ {r} : q1[p] = q[p]
      BY <3>4
    <3>6. \A m \in texts : Hits(m, i, x) => OfMessage(t[m], m, c) /\ Valid(t[m], i, x)'
      BY <2>6, <2>7, <2>9
    <3>7. \A p \in Requests : Ahead(p, i, x)' =>
              OfRequest(q1[p], req'[p].since, c, now) /\ Valid(q1[p], i, x)'
      <4> SUFFICES ASSUME NEW p \in Requests, Ahead(p, i, x)'
                   PROVE  OfRequest(q1[p], req'[p].since, c, now) /\ Valid(q1[p], i, x)'
        OBVIOUS
      <4>1. CASE p = r
        BY <1>3, <3>3, <3>5, <4>1
      <4>2. CASE p # r
        BY <1>3, <1>6, <2>6, <2>7, <2>10, <3>5, <4>2
      <4> QED BY <4>1, <4>2
    <3>8. \A m, n \in texts : Hits(m, i, x) /\ Hits(n, i, x) /\ m # n =>
              t[m] # t[n] /\ Spread(t[m], t[n], c.ttl)
      BY <2>12
    <3>9. \A m \in texts, p \in Requests : Hits(m, i, x) /\ Ahead(p, i, x)' =>
              t[m] # q1[p] /\ Spread(t[m], q1[p], c.ttl)
      <4> SUFFICES ASSUME NEW m \in texts, NEW p \in Requests, Hits(m, i, x), Ahead(p, i, x)'
                   PROVE  t[m] # q1[p] /\ Spread(t[m], q1[p], c.ttl)
        OBVIOUS
      <4>1. CASE p = r
        BY <2>7, <2>9, <3>2, <3>5, <4>1
      <4>2. CASE p # r
        BY <1>6, <2>12, <3>5, <4>2
      <4> QED BY <4>1, <4>2
    <3>10. \A p, s \in Requests : Ahead(p, i, x)' /\ Ahead(s, i, x)' /\ p # s =>
               q1[p] # q1[s] /\ Spread(q1[p], q1[s], c.ttl)
      <4> SUFFICES ASSUME NEW p \in Requests, NEW s \in Requests,
                          Ahead(p, i, x)', Ahead(s, i, x)', p # s
                   PROVE  q1[p] # q1[s] /\ Spread(q1[p], q1[s], c.ttl)
        OBVIOUS
      <4>1. CASE p # r /\ s # r
        BY <1>6, <2>12, <3>5, <4>1
      <4>2. CASE p # r /\ s = r
        BY <1>6, <2>7, <2>10, <3>2, <3>5, <4>2
      <4>3. CASE p = r /\ s # r
        <5>1. q[s] # new /\ Spread(q[s], new, c.ttl)
          BY <1>6, <2>7, <2>10, <3>2, <4>3
        <5> QED BY <3>5, <4>3, <5>1 DEF Spread
      <4> QED BY <4>1, <4>2, <4>3
    <3>11. Fits(i, x, t, q1)'
      BY <1>1, <2>2, <2>62, <2>8, <3>6, <3>7, <3>8, <3>9, <3>10 DEF Fits
    <3> QED BY <3>11
  <2> QED BY <2>15, <2>16
<1> QED BY <1>8, <1>9

\* One request moves on without passing a limit.
LEMMA RateMove ==
    ASSUME Basics, Basics', RateInv, UNCHANGED <<now, redis, checks, texts, window>>,
           spent'.outages = spent.outages, spent'.restarts = spent.restarts,
           NEW r \in Requests,
           \A p \in Requests \ {r} : req'[p] = req[p],
           \/ /\ req[r].pc \in {"remove", "create", "send"}
              /\ req'[r].phone = req[r].phone /\ req'[r].ip = req[r].ip
              /\ req'[r].since = req[r].since
           \/ /\ req'[r].pc \notin {"remove", "create", "send"}
              /\ At(r, "check")' => req'[r].check = 1
    PROVE  RateInv'
<1>1. ASSUME NEW p \in Requests, NEW i \in DOMAIN checks, NEW x \in Subjects, Ahead(p, i, x)'
      PROVE  Ahead(p, i, x) /\ req'[p].since = req[p].since
  <2>1. i \in Nat /\ i >= 1
    BY ChecksTyped DEF Basics, TypeOK
  <2>2. CASE p # r
    <3>1. req'[p] = req[p]
      BY <2>2
    <3>2. Subject(p, i)' = Subject(p, i)
      BY <3>1, SubjectKept
    <3> QED BY <1>1, <3>1, <3>2 DEF Ahead, At
  <2>3. CASE p = r
    <3>1. req'[r].pc \in {"remove", "create", "send"} \/ (At(r, "check")' /\ req'[r].check > i)
      BY <1>1, <2>3 DEF Ahead, At
    <3>2. /\ req[r].pc \in {"remove", "create", "send"}
          /\ req'[r].phone = req[r].phone /\ req'[r].ip = req[r].ip
          /\ req'[r].since = req[r].since
      BY <2>1, <3>1
    <3>3. Subject(r, i)' = Subject(r, i)
      BY <3>2, SubjectKept
    <3> QED BY <1>1, <2>3, <3>2, <3>3 DEF Ahead
  <2> QED BY <2>2, <2>3
<1>2. now' >= now /\ (Counting' => Counting) /\ (Steady' => Steady /\ Store' = Store)
  BY DEF Basics, TypeOK, Counting, Steady, Store
<1>3. \A i \in DOMAIN checks, x \in Subjects : Lapsed(i, x)
  BY DEF Lapsed, Passed
<1> QED BY <1>1, <1>2, <1>3, RateKept

\* The message takes over the ticket of its request.
LEMMA RateSend ==
    ASSUME Basics, RateInv, NEW r \in Requests, Send(r) PROVE RateInv'
<1>0. PICK n : n = [phone |-> req[r].phone, ip |-> req[r].ip, code |-> req[r].code, at |-> now]
  OBVIOUS
<1>1. /\ UNCHANGED <<now, checks, redis, lock, cool, window, rows>> /\ req[r].pc = "send"
      /\ spent'.restarts = spent.restarts
  BY DEF Send, At, Fault, Basics, TypeOK
<1>2. /\ Basics'
      /\ req'[r].phone = req[r].phone /\ req'[r].ip = req[r].ip
      /\ req'[r].since = req[r].since
      /\ \A p \in Requests \ {r} : req'[p] = req[p]
      /\ req'[r].pc \in {"mark", "release"}
      /\ spent'.outages = spent.outages
      /\ texts' = texts \cup {n} \/ texts' = texts
  BY <1>0, SendTo
<1>3. CASE texts' = texts
  BY <1>1, <1>2, <1>3, RateMove
<1>4. CASE texts' = texts \cup {n} /\ n \notin texts
  <2> SUFFICES ASSUME Counting', NEW i \in DOMAIN checks, NEW x \in Subjects
               PROVE  \E t \in [Text -> Ticket], q \in [Requests -> Ticket] : Fits(i, x, t, q)'
    BY <1>1 DEF RateInv
  <2>1. PICK t \in [Text -> Ticket], q \in [Requests -> Ticket] : Fits(i, x, t, q)
    BY <1>1, <1>2 DEF RateInv, Counting, Steady
  <2>2. PICK c : c = checks[i]
    OBVIOUS
  <2>3. Store' = Store /\ checks'[i] = c /\ n.at = now
        /\ now \in Nat /\ Patience \in Nat /\ req[r].since \in Nat
        /\ req[r].since <= now /\ now <= req[r].since + Patience
        /\ c.ttl \in Nat /\ c.limit \in Nat
    <3>1. Store' = Store /\ n.at = now
      BY <1>0, <1>1 DEF Store
    <3>2. /\ now \in Nat /\ Patience \in Nat /\ req[r].since \in Nat
          /\ req[r].since <= now /\ now <= req[r].since + Patience
      BY <1>1, TimesAssumption DEF Basics, TypeOK, Request, Punctual, At
    <3>3. c.ttl \in Nat /\ c.limit \in Nat
      BY <2>2, ChecksTyped DEF Basics, TypeOK
    <3> QED BY <1>1, <2>2, <3>1, <3>2, <3>3
  <2>4. \A p \in Requests : Ahead(p, i, x)' => p # r /\ Ahead(p, i, x) /\ req'[p] = req[p]
    <3> SUFFICES ASSUME NEW p \in Requests, Ahead(p, i, x)'
                 PROVE  p # r /\ Ahead(p, i, x) /\ req'[p] = req[p]
      OBVIOUS
    <3>1. p # r
      BY <1>2 DEF Ahead, At
    <3>2. req'[p] = req[p]
      BY <1>2, <3>1
    <3>3. Subject(p, i)' = Subject(p, i)
      BY <1>1, <3>2, SubjectKept
    <3> QED BY <3>1, <3>2, <3>3 DEF Ahead, At
  <2>5. \A m : Hits(m, i, x)' <=> Hits(m, i, x)
    BY <1>1, HitsKept
  <2>51. \A k : Valid(k, i, x)' <=> Valid(k, i, x)
    BY <1>1, <1>2, <2>3 DEF Valid, Steady
  <2>6. Hits(n, i, x) => Ahead(r, i, x)
    <3>1. n.phone = req[r].phone /\ n.ip = req[r].ip
      BY <1>0
    <3> QED BY <1>1, <3>1 DEF Hits, Ahead, Subject
  <2>7. n \in Text /\ q[r] \in Ticket /\ texts \subseteq Text
    BY <1>0 DEF Basics, TypeOK, Text, Request
  <2>8. PICK t1 \in [Text -> Ticket] : t1 = [t EXCEPT ![n] = q[r]]
    BY <2>7
  <2>9. t1[n] = q[r] /\ \A m \in texts : t1[m] = t[m]
    BY <1>4, <2>7, <2>8
  <2>10. /\ \A m \in texts : Hits(m, i, x) => OfMessage(t[m], m, c) /\ Valid(t[m], i, x)
         /\ \A p \in Requests : Ahead(p, i, x) =>
                OfRequest(q[p], req[p].since, c, now) /\ Valid(q[p], i, x)
         /\ \A m, o \in texts : Hits(m, i, x) /\ Hits(o, i, x) /\ m # o =>
                t[m] # t[o] /\ Spread(t[m], t[o], c.ttl)
         /\ \A m \in texts, p \in Requests : Hits(m, i, x) /\ Ahead(p, i, x) =>
                t[m] # q[p] /\ Spread(t[m], q[p], c.ttl)
         /\ \A p, s \in Requests : Ahead(p, i, x) /\ Ahead(s, i, x) /\ p # s =>
                q[p] # q[s] /\ Spread(q[p], q[s], c.ttl)
    BY <2>1, <2>2 DEF Fits
  <2>11. Hits(n, i, x) => OfMessage(t1[n], n, c) /\ Valid(t1[n], i, x)
    <3> SUFFICES ASSUME Hits(n, i, x)
                 PROVE  OfMessage(q[r], n, c) /\ Valid(q[r], i, x)
      BY <2>9
    <3>1. OfRequest(q[r], req[r].since, c, now) /\ Valid(q[r], i, x)
      BY <2>6, <2>10
    <3>2. q[r].opened \in Nat /\ q[r].n \in Nat
      BY <2>7 DEF Ticket
    <3>3. OfMessage(q[r], n, c)
      BY <2>3, <3>1, <3>2 DEF OfRequest, OfMessage
    <3> QED BY <3>1, <3>3
  <2>12. \A m \in texts' : Hits(m, i, x) => OfMessage(t1[m], m, c) /\ Valid(t1[m], i, x)
    BY <1>4, <2>9, <2>10, <2>11
  <2>13. \A p \in Requests : Ahead(p, i, x)' =>
             OfRequest(q[p], req'[p].since, c, now) /\ Valid(q[p], i, x)
    BY <2>4, <2>10
  <2>14. \A m, o \in texts' : Hits(m, i, x) /\ Hits(o, i, x) /\ m # o =>
             t1[m] # t1[o] /\ Spread(t1[m], t1[o], c.ttl)
    <3> SUFFICES ASSUME NEW m \in texts', NEW o \in texts', Hits(m, i, x), Hits(o, i, x), m # o
                 PROVE  t1[m] # t1[o] /\ Spread(t1[m], t1[o], c.ttl)
      OBVIOUS
    <3>1. CASE m \in texts /\ o \in texts
      BY <2>9, <2>10, <3>1
    <3>2. CASE m \in texts /\ o = n
      BY <2>6, <2>9, <2>10, <3>2
    <3>3. CASE m = n /\ o \in texts
      <4>1. t[o] # q[r] /\ Spread(t[o], q[r], c.ttl)
        BY <2>6, <2>10, <3>3
      <4> QED BY <2>9, <3>3, <4>1 DEF Spread
    <3> QED BY <1>4, <3>1, <3>2, <3>3
  <2>15. \A m \in texts', p \in Requests : Hits(m, i, x) /\ Ahead(p, i, x)' =>
             t1[m] # q[p] /\ Spread(t1[m], q[p], c.ttl)
    <3> SUFFICES ASSUME NEW m \in texts', NEW p \in Requests, Hits(m, i, x), Ahead(p, i, x)'
                 PROVE  t1[m] # q[p] /\ Spread(t1[m], q[p], c.ttl)
      OBVIOUS
    <3>1. CASE m \in texts
      BY <2>4, <2>9, <2>10, <3>1
    <3>2. CASE m = n
      BY <2>4, <2>6, <2>9, <2>10, <3>2
    <3> QED BY <1>4, <3>1, <3>2
  <2>16. \A p, s \in Requests : Ahead(p, i, x)' /\ Ahead(s, i, x)' /\ p # s =>
             q[p] # q[s] /\ Spread(q[p], q[s], c.ttl)
    BY <2>4, <2>10
  <2>17. \A s \in Stores : InTerm(window[s][i][x], c.ttl)
    BY <2>1, <2>2 DEF Fits
  <2>18. Fits(i, x, t1, q)'
    BY <1>1, <2>3, <2>5, <2>51, <2>12, <2>13, <2>14, <2>15, <2>16, <2>17 DEF Fits, InTerm
  <2> QED BY <2>18
<1> QED BY <1>2, <1>3, <1>4

LEMMA RateTick == ASSUME Basics, RateInv, Tick PROVE RateInv'
<1>1. /\ UNCHANGED <<redis, checks, texts, req, spent>> /\ now' = now + 1
      /\ Basics' /\ now \in Nat /\ checks \in Settings
  BY TickTo DEF Tick, Basics, TypeOK
<1>2. ASSUME NEW i \in DOMAIN checks, NEW x \in Subjects PROVE Lapsed(i, x)
  <2>1. ASSUME NEW s \in Stores PROVE Passed(window[s][i][x], window'[s][i][x], now')
    <3>1. window'[s][i][x] = IF Kept(window[s][i][x].until) = 0 THEN NoWindow
                                                               ELSE window[s][i][x]
      BY <1>1 DEF Tick
    <3>2. window[s][i][x].until \in Nat
      BY <1>1 DEF Basics, TypeOK, Window
    <3> QED BY <1>1, <3>1, <3>2 DEF Kept, Passed
  <2> QED BY <2>1 DEF Lapsed
<1>3. \A p \in Requests, i \in DOMAIN checks, x \in Subjects :
          Ahead(p, i, x)' => Ahead(p, i, x) /\ req'[p].since = req[p].since
  BY <1>1 DEF Ahead, At, Subject
<1>4. now' >= now /\ (Counting' => Counting) /\ (Steady' => Steady /\ Store' = Store)
  BY <1>1 DEF Counting, Steady, Store
<1> QED BY <1>1, <1>2, <1>3, <1>4, RateKept

\* The counters in memory are lost, on which only those without Redis rely.
LEMMA RateRestart == ASSUME Basics, RateInv, Restart PROVE RateInv'
<1>1. /\ UNCHANGED <<now, redis, checks, texts, overruns>>
      /\ window' = [window EXCEPT !["memory"] = NoWindows(checks)]
      /\ Fault("restarts") /\ Basics' /\ TypeOK
      /\ \A r \in Requests : req'[r].pc = "idle"
      /\ spent'.outages = spent.outages
  BY RestartTo DEF Restart, Basics
<1>2. spent'.restarts # 0
  <2>1. spent' = [spent EXCEPT !.restarts = @ + 1] /\ spent.restarts \in Nat
    BY <1>1 DEF Fault, TypeOK
  <2> QED BY <1>1, <2>1 DEF TypeOK
<1>3. CASE Steady /\ redis
  <2>1. ASSUME NEW i \in DOMAIN checks, NEW x \in Subjects PROVE Lapsed(i, x)
    <3>1. window'["redis"] = window["redis"] /\ window'["memory"] = NoWindows(checks)
      BY <1>1 DEF TypeOK, Stores
    <3>2. window'["memory"][i][x] = NoWindow
      BY <3>1 DEF NoWindows
    <3> QED BY <1>3, <3>1, <3>2 DEF Lapsed, Passed, Store, Stores
  <2>2. \A p \in Requests, i \in DOMAIN checks, x \in Subjects : ~Ahead(p, i, x)'
    BY <1>1 DEF Ahead, At
  <2>3. now' >= now /\ Counting /\ Steady /\ Store' = Store
    BY <1>1, <1>3 DEF Counting, TypeOK, Store
  <2> QED BY <1>1, <2>1, <2>2, <2>3, RateKept
<1>4. CASE ~(Steady /\ redis)
  BY <1>1, <1>2, <1>4 DEF RateInv, Counting, Steady
<1> QED BY <1>3, <1>4

\* Redis goes or comes: the counters of both stores stay, and are no longer of one.
LEMMA RateChanges == ASSUME Basics, RateInv, RedisChanges PROVE RateInv'
<1>1. UNCHANGED <<now, checks, window, req, texts, overruns>> /\ Fault("outages") /\ TypeOK /\ Basics'
  BY BasicsStep DEF RedisChanges, Basics, Next
<1>2. spent'.outages # 0 /\ spent'.restarts = spent.restarts
  <2>1. spent' = [spent EXCEPT !.outages = @ + 1] /\ spent.outages \in Nat
    BY <1>1 DEF Fault, TypeOK
  <2> QED BY <1>1, <2>1 DEF TypeOK
<1>3. ~Steady' /\ (Counting' => Counting) /\ now' >= now
  BY <1>1, <1>2 DEF Steady, Counting, TypeOK
<1>4. \A i \in DOMAIN checks, x \in Subjects : Lapsed(i, x)
  BY <1>1 DEF Lapsed, Passed
<1>5. \A r \in Requests, i \in DOMAIN checks, x \in Subjects :
          Ahead(r, i, x)' => Ahead(r, i, x) /\ req'[r].since = req[r].since
  BY <1>1 DEF Ahead, At, Subject
<1> QED BY <1>1, <1>3, <1>4, <1>5, RateKept

LEMMA RateStep == ASSUME Basics, RateInv, [Next]_vars PROVE RateInv'
<1> USE DEF Basics
<1>0. Basics'
  BY BasicsStep
<1>1. ASSUME NEW r \in Requests, NEW pc \in {"idle", "cooldown", "last", "release"},
             Goes(r, pc) \/ Ends(r),
             UNCHANGED <<now, redis, checks, texts, window>>,
             spent'.outages = spent.outages, spent'.restarts = spent.restarts
      PROVE  RateInv'
  <2>1. /\ req'[r].pc \in {"idle", "cooldown", "last", "release"}
        /\ \A p \in Requests \ {r} : req'[p] = req[p]
    BY <1>1, GoesTyped, EndsTyped, IdleTyped DEF Steps
  <2> QED BY <1>0, <1>1, <2>1, RateMove DEF At
<1>2. ASSUME NEW r \in Requests, NEW p \in Phones, NEW a \in Ips, Start(r, p, a)
      PROVE  RateInv'
  <2>1. /\ req'[r].pc = "lock" /\ \A q \in Requests \ {r} : req'[q] = req[q]
        /\ spent'.outages = spent.outages /\ spent'.restarts = spent.restarts
    BY <1>2, StartBasics
  <2>2. UNCHANGED <<now, redis, checks, texts, window>>
    BY <1>2 DEF Start
  <2> QED BY <1>0, <2>1, <2>2, RateMove DEF At
<1>3. ASSUME NEW r \in Requests,
             AcquireLock(r) \/ InCooldown(r) \/ SetCooldown(r) \/ ReleaseLock(r)
      PROVE  RateInv'
  <2>1. /\ \E pc \in {"idle", "cooldown", "last", "release"} : Goes(r, pc) \/ Ends(r)
        /\ UNCHANGED <<now, redis, checks, texts, window, spent>>
    BY <1>3 DEF AcquireLock, InCooldown, SetCooldown, ReleaseLock
  <2> QED BY <1>1, <2>1
<1>4. ASSUME NEW r \in Requests, LastSentAt(r) PROVE RateInv'
  <2>1. /\ req'[r].pc \in {"release", "check"} /\ req'[r].check = 1
        /\ \A q \in Requests \ {r} : req'[q] = req[q]
    BY <1>4, LastSentTo
  <2>2. UNCHANGED <<now, redis, checks, texts, window, spent>>
    BY <1>4 DEF LastSentAt
  <2> QED BY <1>0, <2>1, <2>2, RateMove DEF At
<1>5. ASSUME NEW r \in Requests, RemoveOne(r) PROVE RateInv'
  <2>1. UNCHANGED <<now, redis, checks, texts, window>> /\ req[r].pc = "remove"
    BY <1>5 DEF RemoveOne, At
  <2> QED BY <1>0, <1>5, <2>1, RemoveTo, RateMove
<1>6. ASSUME NEW r \in Requests, CreateRow(r) PROVE RateInv'
  <2>1. UNCHANGED <<now, redis, checks, texts, window, spent>> /\ req[r].pc = "create"
    BY <1>6 DEF CreateRow, At
  <2> QED BY <1>0, <1>6, <2>1, CreateTo, RateMove
<1>7. ASSUME NEW r \in Requests, RequestError(r) PROVE RateInv'
  <2>1. Goes(r, "release") /\ UNCHANGED <<now, redis, checks, texts, window>>
        /\ Fault("errors")
    BY <1>7 DEF RequestError
  <2>2. spent'.outages = spent.outages /\ spent'.restarts = spent.restarts
    BY <2>1 DEF Fault, TypeOK
  <2> QED BY <1>1, <2>1, <2>2
<1>9. CASE UNCHANGED vars
  <2>1. \A i \in DOMAIN checks, x \in Subjects : Lapsed(i, x)
    BY <1>9 DEF vars, Lapsed, Passed
  <2>2. \A r \in Requests, i \in DOMAIN checks, x \in Subjects :
            Ahead(r, i, x)' => Ahead(r, i, x) /\ req'[r].since = req[r].since
    BY <1>9 DEF vars, Ahead, At, Subject
  <2>3. /\ UNCHANGED <<checks, texts>> /\ now' >= now /\ (Counting' => Counting)
        /\ Steady' => Steady /\ Store' = Store
    BY <1>9 DEF vars, TypeOK, Counting, Steady, Store
  <2> QED BY <1>0, <2>1, <2>2, <2>3, RateKept
<1> QED BY <1>2, <1>3, <1>4, <1>5, <1>6, <1>7, <1>9, RateCheck, RateSend, RateTick,
           RateRestart, RateChanges DEF Next, RequestStep

LEMMA RateInit == Init => RateInv
<1> SUFFICES ASSUME Init, NEW i \in DOMAIN checks, NEW x \in Subjects
             PROVE  \E t \in [Text -> Ticket], q \in [Requests -> Ticket] : Fits(i, x, t, q)
  BY DEF RateInv
<1>1. PICK t, q : /\ t = [m \in Text |-> [store |-> "redis", opened |-> 0, n |-> 0]]
                  /\ q = [r \in Requests |-> [store |-> "redis", opened |-> 0, n |-> 0]]
  OBVIOUS
<1>2. t \in [Text -> Ticket] /\ q \in [Requests -> Ticket]
  BY <1>1 DEF Ticket, Stores
<1>3. texts = {} /\ \A r \in Requests : ~Ahead(r, i, x)
  BY IdleTyped DEF Init, Ahead, At
<1>4. \A s \in Stores : window[s][i][x] = NoWindow
  BY DEF Init, NoWindows
<1>5. Fits(i, x, t, q)
  BY <1>3, <1>4 DEF Fits, InTerm
<1> QED BY <1>2, <1>5

\* As many members as there are different numbers from 1 to N for them.
LEMMA Numbered ==
    ASSUME NEW S, NEW N \in Nat, NEW f, N >= 1, f \in [S -> 1..N], \A m, n \in S : m # n => f[m] # f[n]
    PROVE  Cardinality(S) <= N
<1>1. f \in Injection(S, 1..N)
  BY DEF Injection, IsInjective
<1>2. IsFiniteSet(1..N) /\ Cardinality(1..N) = N
  BY FS_Interval
<1>3. Cardinality(S) <= Cardinality(1..N)
  BY <1>1, <1>2, FS_Injection
<1> QED BY <1>2, <1>3

\* Tickets of the messages in a period of the length T of a window, less the time
\* of a request: two windows at most, and the one that opened before the period
\* has its first ticket elsewhere.
LEMMA TicketsOfPeriod ==
    ASSUME NEW T \in Nat, NEW L \in Nat, L > 0, T > 0, Patience \in Nat,
           NEW from \in Nat, NEW S, NEW o, NEW k, NEW at,
           \A m \in S : /\ o[m] \in Nat /\ k[m] \in Nat /\ at[m] \in Nat
                        /\ 1 <= k[m] /\ k[m] <= L /\ o[m] <= at[m]
                        /\ at[m] < o[m] + T + Patience
                        /\ (k[m] = 1 => at[m] <= o[m] + Patience)
                        /\ from <= at[m] /\ at[m] + Patience < from + T,
           \A m, n \in S : m # n => o[m] # o[n] \/ k[m] # k[n],
           \A m, n \in S : m # n => o[m] = o[n] \/ o[m] + T <= o[n] \/ o[n] + T <= o[m]
    PROVE  Cardinality(S) <= 2 * L - 1
<1>1. PICK N \in Nat : N = 2 * L - 1
  OBVIOUS
<1>2. ASSUME NEW m \in S, NEW n \in S
      PROVE  o[n] < o[m] + 2 * T
  <2>1. /\ o[n] \in Nat /\ o[m] \in Nat /\ at[n] \in Nat /\ at[m] \in Nat
        /\ o[n] <= at[n] /\ at[n] + Patience < from + T /\ from <= at[m]
        /\ at[m] < o[m] + T + Patience
    OBVIOUS
  <2> QED BY <2>1
<1>3. CASE \A m, n \in S : o[m] = o[n]
  <2>1. PICK f : f = [m \in S |-> k[m]]
    OBVIOUS
  <2>2. \A m \in S : f[m] \in 1..N
    BY <1>1, <2>1
  <2>3. f \in [S -> 1..N]
    BY <2>1, <2>2
  <2>4. \A m, n \in S : m # n => f[m] # f[n]
    BY <1>3, <2>1
  <2>5. N >= 1
    BY <1>1
  <2> QED BY <1>1, <2>3, <2>4, <2>5, Numbered
<1>4. CASE \E m, n \in S : o[m] # o[n]
  <2>1. PICK a \in S, b \in S : o[a] + T <= o[b]
    BY <1>4
  <2>2. PICK early \in Nat, late \in Nat : early = o[a] /\ late = o[b]
    OBVIOUS
  <2>3. early + T <= late /\ early # late
    BY <2>1, <2>2
  <2>4. ASSUME NEW m \in S PROVE o[m] = early \/ o[m] = late
    <3>1. PICK x \in Nat : x = o[m]
      OBVIOUS
    <3>2. x = early \/ x + T <= early \/ early + T <= x
      BY <2>2, <3>1
    <3>3. x = late \/ x + T <= late \/ late + T <= x
      BY <2>2, <3>1
    <3>4. x < early + 2 * T /\ late < x + 2 * T /\ late < early + 2 * T
      BY <1>2, <2>2, <3>1
    <3>5. x = early \/ x = late
      BY <2>3, <3>2, <3>3, <3>4
    <3> QED BY <3>1, <3>5
  <2>5. ASSUME NEW m \in S, o[m] = early PROVE k[m] >= 2
    <3>1. k[m] = 1 => at[m] <= early + Patience
      BY <2>5
    <3>2. /\ from <= at[m] /\ at[m] \in Nat /\ k[m] \in Nat /\ k[m] >= 1
      OBVIOUS
    <3>3. late <= at[b] /\ at[b] + Patience < from + T /\ at[b] \in Nat
      BY <2>2
    <3> QED BY <2>3, <3>1, <3>2, <3>3
  <2>6. PICK f : f = [m \in S |-> IF o[m] = early THEN k[m] - 1 ELSE L - 1 + k[m]]
    OBVIOUS
  <2>7. ASSUME NEW m \in S
        PROVE  /\ k[m] \in Nat /\ 1 <= k[m] /\ k[m] <= L
               /\ (o[m] = early => k[m] >= 2 /\ f[m] = k[m] - 1)
               /\ (o[m] # early => o[m] = late /\ f[m] = L - 1 + k[m])
    BY <2>4, <2>5, <2>6
  <2>8. ASSUME NEW m \in S PROVE f[m] \in 1..N
    BY <1>1, <2>7
  <2>9. f \in [S -> 1..N]
    BY <2>6, <2>8
  <2>10. ASSUME NEW m \in S, NEW n \in S, m # n PROVE f[m] # f[n]
    <3>1. o[m] # o[n] \/ k[m] # k[n]
      BY <2>10
    <3>2. CASE o[m] = early /\ o[n] = early
      BY <2>7, <3>1, <3>2
    <3>3. CASE o[m] # early /\ o[n] # early
      BY <2>7, <3>1, <3>3
    <3>4. CASE o[m] = early /\ o[n] # early
      BY <2>7, <3>4
    <3>5. CASE o[m] # early /\ o[n] = early
      BY <2>7, <3>5
    <3> QED BY <3>2, <3>3, <3>4, <3>5
  <2>11. N >= 1
    BY <1>1
  <2> QED BY <1>1, <2>9, <2>10, <2>11, Numbered
<1> QED BY <1>3, <1>4

\* What one store lets through in a period of the length of a window.
LEMMA RatedByStore ==
    ASSUME Basics, NEW i \in DOMAIN checks, NEW from \in Nat, NEW x \in Subjects,
           NEW t \in [Text -> Ticket], NEW q \in [Requests -> Ticket], Fits(i, x, t, q),
           NEW s \in Stores, NEW S \in SUBSET texts,
           \A m \in S : /\ Hits(m, i, x) /\ t[m].store = s
                        /\ from <= m.at /\ m.at + Patience < from + checks[i].ttl
    PROVE  Cardinality(S) <= 2 * checks[i].limit - 1
<1>3. checks[i] \in Limits /\ checks[i].limit \in Nat
  BY ChecksTyped DEF Basics, TypeOK
<1>5. \A m \in S : OfMessage(t[m], m, checks[i])
  BY DEF Fits
<1>6. \A m, n \in S : m # n => t[m] # t[n] /\ Spread(t[m], t[n], checks[i].ttl)
  BY DEF Fits
<1>7. PICK T \in Nat, L \in Nat : T = checks[i].ttl /\ L = checks[i].limit /\ T > 0 /\ L > 0
  BY <1>3 DEF Limits
<1>8. PICK o, k, at : /\ o = [m \in S |-> t[m].opened] /\ k = [m \in S |-> t[m].n]
                      /\ at = [m \in S |-> m.at]
  OBVIOUS
<1>9. \A m \in S : /\ t[m] \in Ticket /\ t[m].opened \in Nat /\ t[m].n \in Nat
                   /\ m.at \in Nat
                   /\ t[m] = [store |-> s, opened |-> t[m].opened, n |-> t[m].n]
  BY DEF Ticket, Basics, TypeOK, Text
<1>10. Patience \in Nat
  BY TimesAssumption
<1>11. ASSUME NEW m \in S
       PROVE  /\ o[m] \in Nat /\ k[m] \in Nat /\ at[m] \in Nat
              /\ 1 <= k[m] /\ k[m] <= L /\ o[m] <= at[m]
              /\ at[m] < o[m] + T + Patience
              /\ (k[m] = 1 => at[m] <= o[m] + Patience)
              /\ from <= at[m] /\ at[m] + Patience < from + T
  BY <1>5, <1>7, <1>8, <1>9 DEF OfMessage
<1>12. \A m, n \in S : m # n => o[m] # o[n] \/ k[m] # k[n]
  <2> SUFFICES ASSUME NEW m \in S, NEW n \in S, m # n, o[m] = o[n], k[m] = k[n]
               PROVE  FALSE
    OBVIOUS
  <2>1. t[m].opened = t[n].opened /\ t[m].n = t[n].n
    BY <1>8
  <2>2. t[m] = t[n]
    BY <1>9, <2>1
  <2> QED BY <1>6, <2>2
<1>13. \A m, n \in S : m # n => o[m] = o[n] \/ o[m] + T <= o[n] \/ o[n] + T <= o[m]
  BY <1>6, <1>7, <1>8 DEF Spread
<1>14. Cardinality(S) <= 2 * L - 1
  BY <1>7, <1>10, <1>11, <1>12, <1>13, TicketsOfPeriod
<1> QED BY <1>7, <1>14

LEMMA Twice ==
    ASSUME NEW N \in Nat, NEW k \in Nat, k >= 1 PROVE N + N <= N * (1 + k)
<1>1. PICK j \in Nat : k = 1 + j
  <2>1. k - 1 \in Nat /\ k = 1 + (k - 1)
    OBVIOUS
  <2> QED BY <2>1
<1>2. N * (1 + k) = N + N + N * j
  BY <1>1
<1>3. N * j \in Nat
  OBVIOUS
<1>4. PICK a \in Nat, b \in Nat : a = N * j /\ b = N * (1 + k)
  BY <1>3
<1> QED BY <1>2, <1>4

LEMMA Rated == Basics /\ RateInv /\ IsFiniteSet(texts) => RateBounded
<1> SUFFICES ASSUME Basics, RateInv, IsFiniteSet(texts), Counting,
                    NEW i \in DOMAIN checks, NEW from \in 1..now, NEW x \in Subjects
             PROVE  Cardinality({m \in UNION {Sent(p, from, checks[i].ttl) : p \in Phones} :
                                     Hits(m, i, x)})
                        <= (2 * checks[i].limit - 1) * (1 + spent.outages)
  BY DEF RateBounded, Counting, Steady, Hits
<1>1. PICK S : S = {m \in UNION {Sent(p, from, checks[i].ttl) : p \in Phones} : Hits(m, i, x)}
  OBVIOUS
<1>2. PICK t \in [Text -> Ticket], q \in [Requests -> Ticket] : Fits(i, x, t, q)
  BY DEF RateInv
<1>3. /\ checks[i] \in Limits /\ from \in Nat /\ checks[i].limit \in Nat
      /\ checks[i].limit >= 1 /\ spent.outages \in Nat
  BY ChecksTyped DEF Basics, TypeOK
<1>4. S \in SUBSET texts /\ S \subseteq Text
  BY <1>1 DEF Sent, Basics, TypeOK
<1>5. \A m \in S : /\ Hits(m, i, x)
                   /\ from <= m.at /\ m.at + Patience < from + checks[i].ttl
  BY <1>1 DEF Sent
<1>6. PICK N \in Nat : N = 2 * checks[i].limit - 1
  BY <1>3
<1>7. CASE Steady
  <2>1. \A m \in S : t[m].store = Store
    BY <1>2, <1>4, <1>5, <1>7 DEF Fits, Valid
  <2>2. Store \in Stores
    BY DEF Store, Stores
  <2>3. Cardinality(S) <= 2 * checks[i].limit - 1
    BY <1>2, <1>3, <1>4, <1>5, <2>1, <2>2, RatedByStore
  <2>4. (2 * checks[i].limit - 1) * (1 + spent.outages) = 2 * checks[i].limit - 1
    BY <1>3, <1>7 DEF Steady
  <2> QED BY <1>1, <2>3, <2>4
<1>8. CASE ~Steady
  <2>1. PICK A, B : /\ A = {m \in S : t[m].store = "redis"}
                    /\ B = {m \in S : t[m].store = "memory"}
    OBVIOUS
  <2>2. S = A \cup B /\ A \in SUBSET texts /\ B \in SUBSET texts
    BY <1>4, <2>1 DEF Ticket, Stores
  <2>3. Cardinality(A) <= N /\ Cardinality(B) <= N
    <3>1. "redis" \in Stores /\ "memory" \in Stores
      BY DEF Stores
    <3>2. Cardinality(A) <= 2 * checks[i].limit - 1
      BY <1>2, <1>3, <1>5, <2>1, <2>2, <3>1, RatedByStore
    <3>3. Cardinality(B) <= 2 * checks[i].limit - 1
      BY <1>2, <1>3, <1>5, <2>1, <2>2, <3>1, RatedByStore
    <3> QED BY <1>6, <3>2, <3>3
  <2>4. /\ IsFiniteSet(A) /\ IsFiniteSet(B)
        /\ Cardinality(A) \in Nat /\ Cardinality(B) \in Nat
    BY <2>2, FS_Subset, FS_CardinalityType
  <2>5. Cardinality(S) <= Cardinality(A) + Cardinality(B) /\ Cardinality(S) \in Nat
    <3>1. /\ Cardinality(S) = Cardinality(A) + Cardinality(B) - Cardinality(A \cap B)
          /\ IsFiniteSet(S)
      BY <2>2, <2>4, FS_Union
    <3>2. Cardinality(A \cap B) \in Nat /\ Cardinality(S) \in Nat
      BY <2>4, <3>1, FS_Intersection, FS_CardinalityType
    <3> QED BY <2>4, <3>1, <3>2
  <2>6. Cardinality(S) <= N + N
    BY <2>3, <2>4, <2>5
  <2>7. N + N <= N * (1 + spent.outages)
    BY <1>3, <1>8, Twice DEF Steady
  <2>8. PICK card \in Nat, bound \in Nat :
            card = Cardinality(S) /\ bound = N * (1 + spent.outages)
    BY <1>3, <2>5
  <2>9. card <= bound
    BY <2>6, <2>7, <2>8
  <2> QED BY <1>1, <1>6, <2>8, <2>9
<1> QED BY <1>7, <1>8

LEMMA FiniteTexts ==
    ASSUME Basics, IsFiniteSet(texts), [Next]_vars PROVE IsFiniteSet(texts')
<1>1. CASE UNCHANGED texts
  BY <1>1
<1>2. ASSUME NEW r \in Requests, Send(r) PROVE IsFiniteSet(texts')
  BY <1>2, SendTo, FS_AddElement
<1> QED BY <1>1, <1>2 DEF Next, RequestStep, Start, AcquireLock, InCooldown, LastSentAt,
           CheckLimit, RemoveOne, CreateRow, SetCooldown, ReleaseLock, RequestError, Tick,
           RedisChanges, Restart, vars

\* However long requests take and whatever limits a server has, a fixed window
\* (rate-limiter.service.ts:72) lets twice its limit less one through in any period
\* of its length, less the time of a request; and as much again when the count
\* moves from Redis to memory or back.
THEOREM RatesHold == Spec => []RateBounded
<1> DEFINE Inv == Basics /\ RateInv /\ IsFiniteSet(texts)
<1>1. Init => Inv
  BY BasicsInit, RateInit, FS_EmptySet DEF Init
<1>2. Inv /\ [Next]_vars => Inv'
  BY BasicsStep, RateStep, FiniteTexts
<1>3. Inv => RateBounded
  BY Rated
<1> QED BY <1>1, <1>2, <1>3, PTL DEF Spec

(***************************************************************************)
(* Messages spaced by a limit of one and the date of the code              *)
(***************************************************************************)

\* A bounded set of numbers has a greatest member.
LEMMA Greatest ==
    ASSUME NEW S \in SUBSET Nat, NEW x \in S, NEW top \in Nat, \A y \in S : y <= top
    PROVE  \E y \in S : \A z \in S : z <= y
<1> DEFINE R == {ab \in Nat \X Nat : ab[1] < ab[2]}
           T == {top - y : y \in S}
<1>1. IsWellFoundedOn(R, Nat)
  BY NatLessThanWellFounded DEF OpToRel
<1>2. T \subseteq Nat /\ T # {}
  OBVIOUS
<1> HIDE DEF R
<1>3. PICK t \in T : \A u \in T : ~ (<<u, t>> \in R)
  BY <1>1, <1>2, WFMin
<1> USE DEF R
<1>4. PICK y \in S : t = top - y
  BY <1>3
<1>5. ASSUME NEW z \in S PROVE z <= y
  <2>1. top - z \in T
    OBVIOUS
  <2>2. ~ (top - z < top - y)
    BY <1>2, <1>3, <1>4, <2>1
  <2>3. y \in Nat /\ z \in Nat
    BY <1>4
  <2> QED BY <2>2, <2>3
<1> QED BY <1>4, <1>5

\* A request of p that the i-th limit let through and that has not sent yet.
Through(r, i, p) ==
    /\ req[r].phone = p
    /\ req[r].pc \in {"remove", "create", "send"} \/ (At(r, "check") /\ req[r].check > i)

Under(p, i) == {r \in Requests : Through(r, i, p)}

\* One of them still writes its row, or there is a row that keeps the next request
\* away for the rest of the period, if need be from one of them when it sends.
Evident(p, i, from) ==
    \/ \E r \in Under(p, i) : ~At(r, "send")
    \/ \E row \in rows[p] : \/ row.date + Patience >= from
                            \/ \E r \in Under(p, i) : req[r].since <= row.date

\* The limit is used up for the rest of the period, or for that of a request that
\* it let through; or, after a restart, nobody has passed the date of the code.
Full(p, i, from) ==
    LET w == window[Store][i][p]
    IN  /\ w # NoWindow
        /\ \/ w.until + Patience >= from + Cooldown
           \/ \E r \in Under(p, i) : req[r].since + Cooldown <= w.until

Afresh(p) ==
    \A r \in Requests :
        req[r].phone = p => req[r].pc \notin {"check", "remove", "create", "send"}

Barred(p, i, from) == Full(p, i, from) \/ Afresh(p)

\* Messages of a period, and requests that may still send one, are no more than one
\* and the times Redis went or came; and when they are as many, no other follows.
InPeriod(from) == now + Patience < from + Cooldown

Used(p, i, from) == Cardinality(Sent(p, from, Cooldown)) + Cardinality(Under(p, i))

Slack(p, i, from) ==
    /\ Cardinality(Sent(p, from, Cooldown)) <= 1 + spent.outages
    /\ InPeriod(from) =>
           /\ Used(p, i, from) <= 1 + spent.outages
           /\ Used(p, i, from) = 1 + spent.outages =>
                  Evident(p, i, from) /\ Barred(p, i, from)

SlackInv ==
    Dated /\ Patience < Cooldown =>
        \A p \in Phones, i \in DOMAIN checks, from \in Nat : OneLimit(i) => Slack(p, i, from)

Bounded == IsFiniteSet(texts) /\ IsFiniteSet(Active)

LEMMA Countable ==
    ASSUME Bounded, NEW p, NEW i, NEW from
    PROVE  /\ IsFiniteSet(Under(p, i)) /\ IsFiniteSet(Sent(p, from, Cooldown))
           /\ Cardinality(Under(p, i)) \in Nat
           /\ Cardinality(Sent(p, from, Cooldown)) \in Nat
<1>1. Under(p, i) \subseteq Active
  BY DEF Under, Through, Active, At
<1>2. Sent(p, from, Cooldown) \subseteq texts
  BY DEF Sent
<1> QED BY <1>1, <1>2, FS_Subset, FS_CardinalityType DEF Bounded

\* A step that sends nothing and lets nobody through.
LEMMA SlackMoves ==
    ASSUME Basics, Basics', Bounded, NEW p \in Phones, NEW i \in DOMAIN checks, NEW from \in Nat,
           Slack(p, i, from), now' >= now, spent'.outages >= spent.outages,
           Sent(p, from, Cooldown)' = Sent(p, from, Cooldown),
           Under(p, i)' \subseteq Under(p, i),
           (/\ Under(p, i)' = Under(p, i) /\ InPeriod(from)' /\ InPeriod(from)
            /\ spent'.outages = spent.outages
            /\ Evident(p, i, from) /\ Barred(p, i, from))
               => Evident(p, i, from)' /\ Barred(p, i, from)'
    PROVE  Slack(p, i, from)'
<1>1. PICK s, u, v : /\ s = Cardinality(Sent(p, from, Cooldown))
                     /\ u = Cardinality(Under(p, i)) /\ v = Cardinality(Under(p, i)')
  OBVIOUS
<1>2. /\ s \in Nat /\ u \in Nat /\ v \in Nat /\ v <= u
      /\ v = u => Under(p, i)' = Under(p, i)
  BY <1>1, Countable, FS_Subset, FS_CardinalityType
<1>3. Cardinality(Sent(p, from, Cooldown))' = s /\ Cardinality(Under(p, i))' = v
  BY <1>1
<1>4. /\ spent.outages \in Nat /\ spent'.outages \in Nat /\ now \in Nat /\ now' \in Nat
      /\ Patience \in Nat /\ Cooldown \in Nat
  BY TimesAssumption DEF Basics, TypeOK
<1>5. InPeriod(from)' => InPeriod(from)
  <2>1. PICK a \in Nat, b \in Nat, l \in Nat : a = now /\ b = now' /\ l = from + Cooldown
    BY <1>4
  <2>2. a <= b
    BY <2>1
  <2>3. b + Patience < l => a + Patience < l
    BY <1>4, <2>2
  <2> QED BY <2>1, <2>3 DEF InPeriod
<1>6. /\ s <= 1 + spent.outages
      /\ InPeriod(from) => s + u <= 1 + spent.outages
      /\ InPeriod(from) /\ s + u = 1 + spent.outages => Evident(p, i, from) /\ Barred(p, i, from)
  BY <1>1 DEF Slack, Used
<1>7. s <= 1 + spent'.outages /\ (InPeriod(from)' => s + v <= 1 + spent'.outages)
  BY <1>2, <1>4, <1>5, <1>6
<1>8. ASSUME InPeriod(from)', s + v = 1 + spent'.outages
      PROVE  Evident(p, i, from)' /\ Barred(p, i, from)'
  <2>1. s + u <= 1 + spent.outages /\ InPeriod(from)
    BY <1>5, <1>6, <1>8
  <2>2. u = v /\ spent'.outages = spent.outages /\ s + u = 1 + spent.outages
    BY <1>2, <1>4, <1>8, <2>1
  <2>3. Evident(p, i, from) /\ Barred(p, i, from)
    BY <1>6, <2>1, <2>2
  <2>4. Under(p, i)' = Under(p, i)
    BY <1>2, <2>2
  <2> QED BY <1>8, <2>1, <2>2, <2>3, <2>4
<1> QED BY <1>3, <1>7, <1>8 DEF Slack, Used

\* What holds a request back is still there for those that stay.
LEMMA HeldStill ==
    ASSUME NEW p \in Phones, NEW i \in DOMAIN checks, NEW from \in Nat,
           UNCHANGED <<redis, checks>>,
           Under(p, i)' = Under(p, i),
           \A r \in Under(p, i) : /\ req'[r].since = req[r].since
                                  /\ At(r, "send")' => At(r, "send")
    PROVE  /\ Evident(p, i, from) /\ (\A row \in rows[p] : row \in rows'[p])
                  => Evident(p, i, from)'
           /\ (/\ Full(p, i, from) /\ window'[Store][i][p] # NoWindow
               /\ window'[Store][i][p].until = window[Store][i][p].until)
                  => Full(p, i, from)'
<1>1. Store' = Store
  BY DEF Store
<1>2. ASSUME Evident(p, i, from), \A row \in rows[p] : row \in rows'[p]
      PROVE  Evident(p, i, from)'
  BY <1>2 DEF Evident
<1>3. ASSUME Full(p, i, from), window'[Store][i][p] # NoWindow,
             window'[Store][i][p].until = window[Store][i][p].until
      PROVE  Full(p, i, from)'
  BY <1>1, <1>3 DEF Full
<1> QED BY <1>2, <1>3

\* One request ends, or stays away from the limits.
LEMMA SlackGoes ==
    ASSUME Basics, Basics', Bounded, SlackInv, NEW r \in Requests,
           UNCHANGED <<now, redis, checks, texts, window, rows>>,
           spent'.outages = spent.outages,
           \A q \in Requests \ {r} : req'[q] = req[q],
           req'[r].pc \notin {"check", "remove", "create", "send"}
    PROVE  SlackInv'
<1> SUFFICES ASSUME Dated, Patience < Cooldown, NEW p \in Phones, NEW i \in DOMAIN checks, NEW from \in Nat,
                    OneLimit(i), Slack(p, i, from)
             PROVE  Slack(p, i, from)'
  BY DEF SlackInv, OneLimit
<1>1. r \notin Under(p, i)'
  BY DEF Under, Through, At
<1>2. \A q \in Requests \ {r} : Through(q, i, p)' <=> Through(q, i, p)
  BY DEF Through, At
<1>3. Under(p, i)' \subseteq Under(p, i)
  BY <1>1, <1>2 DEF Under
<1>4. ASSUME Under(p, i)' = Under(p, i), Evident(p, i, from), Barred(p, i, from)
      PROVE  Evident(p, i, from)' /\ Barred(p, i, from)'
  <2>1. \A q \in Under(p, i) : /\ req'[q].since = req[q].since
                               /\ At(q, "send")' => At(q, "send")
    BY <1>1, <1>4 DEF Under, At
  <2>2. Evident(p, i, from)'
    BY <1>4, <2>1, HeldStill
  <2>3. Full(p, i, from) => Full(p, i, from)'
    BY <1>4, <2>1, HeldStill DEF Full
  <2>4. Afresh(p) => Afresh(p)'
    BY DEF Afresh
  <2> QED BY <1>4, <2>2, <2>3, <2>4 DEF Barred
<1>5. now' >= now /\ spent'.outages >= spent.outages
  BY DEF Basics, TypeOK
<1>6. Sent(p, from, Cooldown)' = Sent(p, from, Cooldown)
  BY DEF Sent
<1> QED BY <1>3, <1>4, <1>5, <1>6, SlackMoves

\* A row young enough holds the next request back, or a younger one does.
LEMMA HeldByRow ==
    ASSUME Basics, Stamped, Dated, NEW p \in Phones, NEW row \in rows[p],
           now - row.date < Cooldown
    PROVE  SentLately(p)
<1> DEFINE dates == {x.date : x \in rows[p]}
<1>1. /\ now \in Nat /\ Cooldown \in Nat
      /\ \A x \in rows[p] : x.date \in Nat /\ x.date <= now /\ x.date >= 1
  BY TimesAssumption DEF Basics, TypeOK, OtpRow, Stamped
<1>2. PICK d \in dates : \A z \in dates : z <= d
  <2>1. dates \in SUBSET Nat /\ row.date \in dates /\ \A y \in dates : y <= now
    BY <1>1
  <2> QED BY <1>1, <2>1, Greatest
<1>3. PICK last \in rows[p] : last.date = d
  BY <1>2
<1>4. \A other \in rows[p] : other.date <= last.date
  BY <1>2, <1>3
<1>5. last.date # 0 /\ now - last.date < Cooldown
  <2>1. row.date <= last.date /\ row.date \in Nat /\ last.date \in Nat /\ last.date >= 1
    BY <1>1, <1>4
  <2> QED BY <1>1, <2>1
<1> QED BY <1>4, <1>5 DEF SentLately

\* Where nobody is under way, the date of the last code is what keeps others away.
LEMMA EvidentRow ==
    ASSUME NEW p \in Phones, NEW i \in DOMAIN checks, NEW from \in Nat,
           Evident(p, i, from), Under(p, i) = {}
    PROVE  \E row \in rows[p] : row.date + Patience >= from
  BY DEF Evident

LEMMA SlackLast ==
    ASSUME Basics, Bounded, Stamped, SlackInv, NEW r \in Requests, LastSentAt(r)
    PROVE  SlackInv'
<1>1. /\ UNCHANGED <<now, checks, redis, window, rows, texts, overruns, spent>>
      /\ req[r].pc = "last" /\ Basics' /\ TypeOK
  BY LastSentBasics DEF LastSentAt, At, Basics
<1>2. /\ req'[r].pc = IF SentLately(req[r].phone) THEN "release" ELSE "check"
      /\ req'[r].check = 1 /\ req'[r].phone = req[r].phone
      /\ \A q \in Requests \ {r} : req'[q] = req[q]
  BY <1>1, LastSentTo
<1>3. CASE SentLately(req[r].phone)
  BY <1>1, <1>2, <1>3, SlackGoes
<1>4. CASE ~SentLately(req[r].phone)
  <2> SUFFICES ASSUME Dated, Patience < Cooldown, NEW p \in Phones, NEW i \in DOMAIN checks, NEW from \in Nat,
                      OneLimit(i), Slack(p, i, from)
               PROVE  Slack(p, i, from)'
    BY <1>1 DEF SlackInv, OneLimit
  <2>1. i \in Nat /\ i >= 1
    BY ChecksTyped DEF Basics, TypeOK
  <2>2. /\ \A q \in Requests \ {r} : Through(q, i, p)' <=> Through(q, i, p)
        /\ ~Through(r, i, p) /\ ~Through(r, i, p)'
    BY <1>1, <1>2, <1>4, <2>1 DEF Through, At
  <2>3. Under(p, i)' = Under(p, i)
    BY <2>2 DEF Under
  <2>4. ASSUME InPeriod(from), Evident(p, i, from), Barred(p, i, from)
        PROVE  Evident(p, i, from)' /\ Barred(p, i, from)'
    <3>1. \A q \in Under(p, i) : /\ req'[q].since = req[q].since
                                 /\ At(q, "send")' => At(q, "send")
      BY <1>2, <2>2 DEF Under, At
    <3>2. Evident(p, i, from)'
      BY <1>1, <2>3, <2>4, <3>1, HeldStill
    <3>3. Full(p, i, from) => Full(p, i, from)'
      BY <1>1, <2>3, <3>1, HeldStill DEF Full
    <3>4. CASE Afresh(p) /\ req[r].phone = p
      <4>1. Under(p, i) = {}
        BY <3>4 DEF Afresh, Under, Through, At
      <4>2. PICK row \in rows[p] : row.date + Patience >= from
        BY <2>4, <4>1, EvidentRow
      <4>3. /\ now \in Nat /\ row.date \in Nat /\ Patience \in Nat /\ Cooldown \in Nat
        BY TimesAssumption DEF Basics, TypeOK, OtpRow
      <4>4. now + Patience < from + Cooldown
        BY <2>4 DEF InPeriod
      <4>5. now - row.date < Cooldown
        BY <4>2, <4>3, <4>4
      <4> QED BY <1>4, <3>4, <4>5, HeldByRow
    <3>5. CASE Afresh(p) /\ req[r].phone # p
      BY <1>2, <3>2, <3>5 DEF Afresh, Barred
    <3> QED BY <2>4, <3>2, <3>3, <3>4, <3>5 DEF Barred
  <2>5. /\ now' >= now /\ spent'.outages >= spent.outages
        /\ Sent(p, from, Cooldown)' = Sent(p, from, Cooldown)
    BY <1>1 DEF Sent, TypeOK
  <2> QED BY <1>1, <2>3, <2>4, <2>5, SlackMoves
<1> QED BY <1>3, <1>4

\* The limit lets one request through, or none.
LEMMA SlackCheck ==
    ASSUME Basics, Bounded, SlackInv, NEW r \in Requests, CheckLimit(r)
    PROVE  SlackInv'
<1>1. /\ UNCHANGED <<now, checks, redis, rows, texts, overruns, spent>> /\ req[r].pc = "check"
      /\ Basics' /\ checks \in Settings /\ now \in Nat
      /\ req[r].since \in Nat /\ req[r].since <= now /\ Store' = Store
      /\ req[r].phone \in Phones
  BY CheckBasics DEF CheckLimit, At, Basics, TypeOK, Request, Punctual, Store
<1>2. PICK k, y, v : k = req[r].check /\ y = Subject(r, k) /\ v = Counted(r)
  OBVIOUS
<1>3. /\ k \in DOMAIN checks /\ k \in 1..Len(checks) /\ Len(checks) \in Nat
      /\ y \in Subjects /\ v \in Window
      /\ window[Store][k][y] \in Window /\ Opened(window[Store][k][y])
      /\ window'[Store][k][y] = v
      /\ \A s \in Stores, j \in DOMAIN checks, z \in Subjects :
             s # Store \/ j # k \/ z # y => window'[s][j][z] = window[s][j][z]
      /\ \A q \in Requests \ {r} : req'[q] = req[q]
      /\ req'[r].since = req[r].since /\ req'[r].phone = req[r].phone
      /\ \/ ~Allowed(v, checks[k].limit) /\ req'[r].pc = "release" /\ req'[r].check = k
         \/ /\ Allowed(v, checks[k].limit) /\ k = Len(checks)
            /\ req'[r].pc = "remove" /\ req'[r].check = k
         \/ /\ Allowed(v, checks[k].limit) /\ k < Len(checks)
            /\ req'[r].pc = "check" /\ req'[r].check = k + 1
  BY <1>2, CheckLimitTo
<1>4. DOMAIN checks = 1..Len(checks) /\ Store \in Stores
  BY <1>1, ChecksTyped DEF Store, Stores
<1> SUFFICES ASSUME Dated, Patience < Cooldown, NEW p \in Phones, NEW i \in DOMAIN checks, NEW from \in Nat,
                    OneLimit(i), Slack(p, i, from)
             PROVE  Slack(p, i, from)'
  BY <1>1 DEF SlackInv, OneLimit
<1>5. p \in Subjects /\ i \in Nat /\ i >= 1 /\ i <= Len(checks)
  BY <1>3, <1>4 DEF Subjects
<1>6. \A q \in Requests \ {r} : Through(q, i, p)' <=> Through(q, i, p)
  BY <1>3 DEF Through, At
<1>7. /\ now' >= now /\ spent'.outages >= spent.outages /\ spent'.outages = spent.outages
      /\ Sent(p, from, Cooldown)' = Sent(p, from, Cooldown)
      /\ InPeriod(from)' <=> InPeriod(from)
  BY <1>1 DEF Sent, Basics, TypeOK, InPeriod
<1>8. \A q \in Under(p, i) : /\ req'[q].since = req[q].since
                             /\ At(q, "send")' => At(q, "send")
  BY <1>3 DEF At, Under
<1>9. Evident(p, i, from) /\ Under(p, i)' = Under(p, i) => Evident(p, i, from)'
  BY <1>1, <1>8, HeldStill
<1>10. req[r].phone # p \/ k # i => window'[Store][i][p] = window[Store][i][p]
  <2>1. k = i => y = req[r].phone
    BY <1>2 DEF OneLimit, Subject
  <2> QED BY <1>3, <1>4, <1>5, <2>1
<1>11. CASE req[r].phone # p
  <2>1. Under(p, i)' = Under(p, i)
    BY <1>3, <1>6, <1>11 DEF Under, Through
  <2>2. Barred(p, i, from) => Barred(p, i, from)'
    <3>1. Afresh(p) => Afresh(p)'
      BY <1>3, <1>11 DEF Afresh
    <3>2. Full(p, i, from) => Full(p, i, from)'
      BY <1>1, <1>8, <1>10, <1>11, <2>1, HeldStill DEF Full
    <3> QED BY <3>1, <3>2 DEF Barred
  <2> QED BY <1>1, <1>7, <1>9, <2>1, <2>2, SlackMoves
<1>12. CASE req[r].phone = p /\ k # i
  <2>1. Through(r, i, p)' => Through(r, i, p)
    BY <1>1, <1>2, <1>3, <1>4, <1>5, <1>12 DEF Through, At
  <2>2. Under(p, i)' \subseteq Under(p, i)
    BY <1>6, <2>1 DEF Under
  <2>3. Barred(p, i, from) /\ Under(p, i)' = Under(p, i) => Barred(p, i, from)'
    <3>1. ~Afresh(p)
      BY <1>1, <1>12 DEF Afresh
    <3>2. Full(p, i, from) /\ Under(p, i)' = Under(p, i) => Full(p, i, from)'
      BY <1>1, <1>8, <1>10, <1>12, HeldStill DEF Full
    <3> QED BY <3>1, <3>2 DEF Barred
  <2> QED BY <1>1, <1>7, <1>9, <2>2, <2>3, SlackMoves
<1>13. CASE req[r].phone = p /\ k = i
  <2>1. PICK w, c : w = window[Store][i][p] /\ c = checks[i]
    OBVIOUS
  <2>2. y = p /\ c.limit = 1 /\ c.ttl >= Cooldown
    BY <1>2, <1>13, <2>1 DEF OneLimit, Subject
  <2>3. /\ w \in Window /\ v \in Window /\ c \in Limits /\ Opened(w)
        /\ v = Increment(w, c) /\ window'[Store][i][p] = v
        /\ w.count \in Nat /\ w.until \in Nat /\ v.count \in Nat /\ v.until \in Nat
        /\ c.ttl \in Nat /\ Cooldown \in Nat
    <3>1. c \in Limits /\ c.ttl \in Nat
      BY <1>1, <2>1, ChecksTyped
    <3>2. v = Increment(w, c)
      BY <1>2, <1>13, <2>1, <2>2 DEF Counted
    <3> QED BY <1>3, <1>13, <2>1, <2>2, <3>1, <3>2, TimesAssumption DEF Window
  <2>4. /\ v.count >= 1 /\ v.until > now
        /\ w = NoWindow => v.count = 1 /\ v.until = now + c.ttl
        /\ w # NoWindow => /\ v.until = w.until /\ w.count >= 1
                           /\ v.count > c.limit \/ v.count = w.count + 1
    BY <1>1, <2>3, IncrementTyped
  <2>5. v # NoWindow /\ ~Through(r, i, p) /\ ~Afresh(p)
    BY <1>1, <1>2, <1>5, <1>13, <2>3, <2>4 DEF NoWindow, Through, At, Afresh
  <2>6. CASE w # NoWindow
    <3>1. ~Allowed(v, c.limit)
      BY <2>2, <2>3, <2>4, <2>6 DEF Allowed
    <3>2. req'[r].pc = "release"
      BY <1>3, <1>13, <2>1, <3>1
    <3>3. Under(p, i)' = Under(p, i)
      BY <1>6, <2>5, <3>2 DEF Under, Through, At
    <3>4. Full(p, i, from) => Full(p, i, from)'
      BY <1>1, <1>8, <2>1, <2>3, <2>4, <2>5, <2>6, <3>3, HeldStill
    <3> QED BY <1>1, <1>7, <1>9, <2>5, <3>3, <3>4, SlackMoves DEF Barred
  <2>7. CASE w = NoWindow
    <3>1. req'[r].pc \in {"check", "remove"} /\ (At(r, "check")' => req'[r].check > i)
      <4>1. Allowed(v, c.limit)
        BY <2>2, <2>4, <2>7 DEF Allowed
      <4> QED BY <1>3, <1>5, <1>13, <2>1, <4>1 DEF At
    <3>2. Through(r, i, p)' /\ Under(p, i)' = Under(p, i) \cup {r} /\ r \notin Under(p, i)
      <4>1. Through(r, i, p)'
        BY <1>3, <1>13, <3>1 DEF Through, At
      <4> QED BY <1>6, <2>5, <4>1 DEF Under
    <3>3. PICK s \in Nat, u \in Nat : s = Cardinality(Sent(p, from, Cooldown))
                                      /\ u = Cardinality(Under(p, i))
      BY Countable
    <3>4. Cardinality(Under(p, i))' = u + 1 /\ Cardinality(Sent(p, from, Cooldown))' = s
      BY <1>7, <3>2, <3>3, Countable, FS_AddElement
    <3>5. spent.outages \in Nat
      BY DEF Basics, TypeOK
    <3>6. ~Barred(p, i, from)
      BY <2>1, <2>5, <2>7 DEF Barred, Full
    <3>7. s <= 1 + spent.outages /\ (InPeriod(from) => s + u < 1 + spent.outages)
      BY <3>3, <3>5, <3>6 DEF Slack, Used
    <3>8. Evident(p, i, from)'
      BY <3>1, <3>2 DEF Evident, At
    <3>9. Full(p, i, from)'
      <4>1. req'[r].since + Cooldown <= v.until
        BY <1>1, <1>3, <2>2, <2>3, <2>4, <2>7
      <4>2. r \in Under(p, i)' /\ window'[Store'][i][p] = v
        BY <1>1, <2>3, <3>2
      <4> QED BY <2>5, <4>1, <4>2 DEF Full
    <3>10. InPeriod(from) => s + (u + 1) <= 1 + spent.outages
      BY <3>3, <3>5, <3>7
    <3> QED BY <1>7, <3>4, <3>7, <3>8, <3>9, <3>10 DEF Slack, Used, Barred
  <2> QED BY <2>6, <2>7
<1> QED BY <1>11, <1>12, <1>13

\* A request that keeps its place among those let through.
LEMMA StaysUnder ==
    ASSUME NEW r \in Requests, req[r].pc \in {"remove", "create", "send"},
           req'[r].pc \in {"remove", "create", "send"},
           req'[r].phone = req[r].phone,
           \A q \in Requests \ {r} : req'[q] = req[q],
           NEW p, NEW i
    PROVE  /\ Under(p, i)' = Under(p, i)
           /\ req[r].phone = p => r \in Under(p, i)
           /\ req[r].phone = p => ~Afresh(p)
           /\ req[r].phone # p /\ Afresh(p) => Afresh(p)'
<1>1. \A q \in Requests : Through(q, i, p)' <=> Through(q, i, p)
  BY DEF Through, At
<1>2. Under(p, i)' = Under(p, i)
  BY <1>1 DEF Under
<1>3. req[r].phone = p => r \in Under(p, i) /\ ~Afresh(p)
  BY DEF Under, Through, Afresh
<1>4. req[r].phone # p /\ Afresh(p) => Afresh(p)'
  BY DEF Afresh
<1> QED BY <1>2, <1>3, <1>4

\* The old codes go, and the request will write a new one.
LEMMA SlackRemove ==
    ASSUME Basics, Bounded, SlackInv, NEW r \in Requests, RemoveOne(r)
    PROVE  SlackInv'
<1>1. /\ UNCHANGED <<now, checks, redis, window, texts, overruns>> /\ req[r].pc = "remove"
      /\ Basics' /\ TypeOK
  BY RemoveBasics DEF RemoveOne, At, Basics
<1>2. /\ req'[r].since = req[r].since /\ req'[r].phone = req[r].phone
      /\ \A q \in Requests \ {r} : req'[q] = req[q]
      /\ \A p \in Phones : p # req[r].phone => rows'[p] = rows[p]
      /\ spent'.outages = spent.outages
      /\ \/ req'[r].pc = "create"
         \/ req'[r].pc = "release" /\ UNCHANGED rows
  BY <1>1, RemoveTo
<1>3. CASE req'[r].pc = "release" /\ UNCHANGED rows
  BY <1>1, <1>2, <1>3, SlackGoes
<1>4. CASE req'[r].pc = "create"
  <2> SUFFICES ASSUME Dated, Patience < Cooldown, NEW p \in Phones, NEW i \in DOMAIN checks, NEW from \in Nat,
                      OneLimit(i), Slack(p, i, from)
               PROVE  Slack(p, i, from)'
    BY <1>1 DEF SlackInv, OneLimit
  <2>1. /\ Under(p, i)' = Under(p, i)
        /\ req[r].phone = p => r \in Under(p, i)
        /\ req[r].phone = p => ~Afresh(p)
        /\ req[r].phone # p /\ Afresh(p) => Afresh(p)'
    BY <1>1, <1>2, <1>4, StaysUnder
  <2>2. \A q \in Under(p, i) : /\ req'[q].since = req[q].since
                               /\ At(q, "send")' => At(q, "send")
    BY <1>2, <1>4 DEF At, Under
  <2>3. Evident(p, i, from) => Evident(p, i, from)'
    <3>1. CASE req[r].phone = p
      BY <1>4, <2>1, <3>1 DEF Evident, At
    <3>2. CASE req[r].phone # p
      BY <1>1, <1>2, <2>1, <2>2, <3>2, HeldStill
    <3> QED BY <3>1, <3>2
  <2>4. Full(p, i, from) => Full(p, i, from)'
    BY <1>1, <2>1, <2>2, HeldStill DEF Full
  <2>5. /\ now' >= now /\ spent'.outages >= spent.outages
        /\ Sent(p, from, Cooldown)' = Sent(p, from, Cooldown)
    BY <1>1, <1>2 DEF Sent, TypeOK
  <2> QED BY <1>1, <2>1, <2>3, <2>4, <2>5, SlackMoves DEF Barred
<1> QED BY <1>2, <1>3, <1>4

\* The row of a request is as young as the request.
LEMMA SlackCreate ==
    ASSUME Basics, Bounded, SlackInv, NEW r \in Requests, CreateRow(r)
    PROVE  SlackInv'
<1>1. /\ UNCHANGED <<now, checks, redis, window, texts, overruns, spent>> /\ req[r].pc = "create"
      /\ Basics' /\ TypeOK
  BY CreateTo DEF CreateRow, At, Basics
<1>2. /\ req'[r].since = req[r].since /\ req'[r].phone = req[r].phone
      /\ req'[r].pc = "send"
      /\ \A q \in Requests \ {r} : req'[q] = req[q]
      /\ \A p \in Phones : p # req[r].phone => rows'[p] = rows[p]
      /\ rows'[req[r].phone] = rows[req[r].phone]
             \cup {[code |-> req[r].code, date |-> IF Dated THEN now ELSE 0]}
  BY CreateTo
<1> SUFFICES ASSUME Dated, Patience < Cooldown, NEW p \in Phones, NEW i \in DOMAIN checks, NEW from \in Nat,
                    OneLimit(i), Slack(p, i, from)
             PROVE  Slack(p, i, from)'
  BY <1>1 DEF SlackInv, OneLimit
<1>3. /\ Under(p, i)' = Under(p, i)
      /\ req[r].phone = p => r \in Under(p, i)
      /\ req[r].phone = p => ~Afresh(p)
      /\ req[r].phone # p /\ Afresh(p) => Afresh(p)'
  BY <1>1, <1>2, StaysUnder
<1>4. Evident(p, i, from) => Evident(p, i, from)'
  <2>1. CASE req[r].phone = p
    <3>1. PICK row : row = [code |-> req[r].code, date |-> now]
      OBVIOUS
    <3>2. row \in rows'[p] /\ row.date = now
      BY <1>2, <2>1, <3>1
    <3>3. req'[r].since <= row.date
      BY <1>1, <1>2, <3>2 DEF Basics, Punctual, At
    <3> QED BY <1>3, <2>1, <3>2, <3>3 DEF Evident
  <2>2. CASE req[r].phone # p
    <3>1. \A q \in Under(p, i) : /\ req'[q].since = req[q].since
                                 /\ At(q, "send")' => At(q, "send")
      BY <1>2, <2>2 DEF At, Under, Through
    <3> QED BY <1>1, <1>2, <1>3, <2>2, <3>1, HeldStill
  <2> QED BY <2>1, <2>2
<1>5. Full(p, i, from) => Full(p, i, from)'
  <2>1. Store' = Store /\ \A q \in Under(p, i) : req'[q].since = req[q].since
    BY <1>1, <1>2 DEF Under, Store
  <2> QED BY <1>1, <1>3, <2>1 DEF Full
<1>6. /\ now' >= now /\ spent'.outages >= spent.outages
      /\ Sent(p, from, Cooldown)' = Sent(p, from, Cooldown)
  BY <1>1 DEF Sent, TypeOK
<1> QED BY <1>1, <1>3, <1>4, <1>5, <1>6, SlackMoves DEF Barred

\* A message takes the place of its request, if it falls into the period.
LEMMA SlackSend ==
    ASSUME Basics, Bounded, SlackInv, NEW r \in Requests, Send(r)
    PROVE  SlackInv'
<1>0. PICK n : n = [phone |-> req[r].phone, ip |-> req[r].ip, code |-> req[r].code, at |-> now]
  OBVIOUS
<1>1. /\ UNCHANGED <<now, checks, redis, window, rows>> /\ req[r].pc = "send" /\ TypeOK
      /\ n.phone = req[r].phone /\ n.at = now
  BY <1>0 DEF Send, At, Basics
<1>2. /\ Basics'
      /\ \A q \in Requests \ {r} : req'[q] = req[q]
      /\ spent'.outages = spent.outages
      /\ req'[r].pc \in {"mark", "release"}
      /\ texts' = texts \cup {n} \/ texts' = texts
  BY <1>0, SendTo
<1>3. CASE texts' = texts
  BY <1>1, <1>2, <1>3, SlackGoes
<1>4. CASE texts' = texts \cup {n}
  <2> SUFFICES ASSUME Dated, Patience < Cooldown, NEW p \in Phones, NEW i \in DOMAIN checks, NEW from \in Nat,
                      OneLimit(i), Slack(p, i, from)
               PROVE  Slack(p, i, from)'
    BY <1>1 DEF SlackInv, OneLimit
  <2>1. /\ ~Through(r, i, p)'
        /\ \A q \in Requests \ {r} : Through(q, i, p)' <=> Through(q, i, p)
    BY <1>2 DEF Through, At
  <2>2. Under(p, i)' = Under(p, i) \ {r}
    BY <2>1 DEF Under
  <2>3. /\ now' >= now /\ spent'.outages >= spent.outages /\ Under(p, i)' \subseteq Under(p, i)
        /\ InPeriod(from)' <=> InPeriod(from)
    BY <1>1, <1>2, <2>2 DEF TypeOK, InPeriod
  <2>4. CASE req[r].phone # p
    <3>1. Under(p, i)' = Under(p, i) /\ Sent(p, from, Cooldown)' = Sent(p, from, Cooldown)
      BY <1>1, <1>4, <2>2, <2>4 DEF Under, Through, Sent
    <3>2. \A q \in Under(p, i) : /\ req'[q].since = req[q].since
                                 /\ At(q, "send")' => At(q, "send")
      BY <1>2, <2>4 DEF At, Under, Through
    <3>3. Evident(p, i, from) => Evident(p, i, from)'
      BY <1>1, <3>1, <3>2, HeldStill
    <3>4. Full(p, i, from) => Full(p, i, from)'
      BY <1>1, <3>1, <3>2, HeldStill DEF Full
    <3>5. Afresh(p) => Afresh(p)'
      BY <1>2, <2>4 DEF Afresh
    <3> QED BY <1>2, <2>3, <3>1, <3>3, <3>4, <3>5, SlackMoves DEF Barred
  <2>5. CASE req[r].phone = p
    <3>1. r \in Under(p, i) /\ ~Afresh(p)
      BY <1>1, <2>5 DEF Under, Through, Afresh
    <3>2. CASE n \notin Sent(p, from, Cooldown)'
      <4>1. Sent(p, from, Cooldown)' = Sent(p, from, Cooldown)
        BY <1>1, <1>4, <3>2 DEF Sent
      <4>2. Under(p, i)' # Under(p, i)
        BY <2>2, <3>1
      <4> QED BY <1>2, <2>3, <4>1, <4>2, SlackMoves
    <3>3. CASE n \in Sent(p, from, Cooldown)'
      <4>1. from <= now /\ InPeriod(from)
        BY <1>1, <3>3 DEF Sent, InPeriod
      <4>2. Sent(p, from, Cooldown)' = Sent(p, from, Cooldown) \cup {n}
        BY <1>1, <1>4, <3>3 DEF Sent
      <4>3. PICK s \in Nat, t \in Nat, u \in Nat, o \in Nat :
                /\ s = Cardinality(Sent(p, from, Cooldown)) /\ u = Cardinality(Under(p, i))
                /\ t = Cardinality(Sent(p, from, Cooldown) \cup {n}) /\ o = spent.outages
        BY Countable, FS_AddElement, FS_CardinalityType DEF Basics, TypeOK
      <4>4. t <= s + 1 /\ Cardinality(Under(p, i) \ {r}) = u - 1 /\ u >= 1
        <5>1. t <= s + 1
          <6>1. IsFiniteSet(Sent(p, from, Cooldown))
            BY Countable
          <6>2. t = s \/ t = s + 1
            BY <4>3, <6>1, FS_AddElement
          <6> QED BY <6>2
        <5>2. Cardinality(Under(p, i) \ {r}) = u - 1 /\ Cardinality(Under(p, i) \ {r}) \in Nat
          BY <3>1, <4>3, Countable, FS_RemoveElement, FS_CardinalityType
        <5> QED BY <4>3, <5>1, <5>2
      <4>5. s + u <= 1 + o /\ (s + u = 1 + o => Evident(p, i, from) /\ Full(p, i, from))
        BY <3>1, <4>1, <4>3 DEF Slack, Used, Barred
      <4>6. t <= 1 + o /\ t + (u - 1) <= 1 + o /\ (t + (u - 1) = 1 + o => s + u = 1 + o)
        BY <4>3, <4>4, <4>5
      <4>7. /\ Patience \in Nat /\ Cooldown \in Nat /\ now \in Nat
            /\ \A q \in Under(p, i) : /\ req[q].since \in Nat /\ req[q].since + Patience >= now
                                      /\ req[q].since + Patience >= from
        <5>1. Patience \in Nat /\ Cooldown \in Nat /\ now \in Nat
          BY <1>1, TimesAssumption DEF TypeOK
        <5>2. ASSUME NEW q \in Under(p, i)
              PROVE  /\ req[q].since \in Nat /\ req[q].since + Patience >= now
                     /\ req[q].since + Patience >= from
          <6>1. q \in Requests /\ ~At(q, "idle")
            BY DEF Under, Through, At
          <6>2. req[q].since \in Nat /\ now <= req[q].since + Patience
            BY <1>1, <6>1 DEF Basics, Punctual, TypeOK, Request
          <6> QED BY <4>1, <5>1, <6>2
        <5> QED BY <5>1, <5>2
      <4>8. ASSUME Evident(p, i, from) PROVE Evident(p, i, from)'
        <5>1. CASE \E q \in Under(p, i) : ~At(q, "send")
          <6>1. PICK q \in Under(p, i) : ~At(q, "send")
            BY <5>1
          <6>2. q # r /\ q \in Requests
            BY <1>1, <6>1 DEF At, Under
          <6>3. q \in Under(p, i)' /\ req'[q] = req[q]
            BY <1>2, <2>2, <6>1, <6>2
          <6> QED BY <6>1, <6>3 DEF Evident, At
        <5>2. CASE \E row \in rows[p] : \/ row.date + Patience >= from
                                        \/ \E q \in Under(p, i) : req[q].since <= row.date
          <6>1. PICK row \in rows[p] : \/ row.date + Patience >= from
                                       \/ \E q \in Under(p, i) : req[q].since <= row.date
            BY <5>2
          <6>2. row.date \in Nat
            BY <1>1 DEF TypeOK, OtpRow
          <6>3. row.date + Patience >= from
            <7>1. CASE \E q \in Under(p, i) : req[q].since <= row.date
              <8>1. PICK q \in Under(p, i) : req[q].since <= row.date
                BY <7>1
              <8> QED BY <4>7, <6>2, <8>1
            <7> QED BY <6>1, <7>1
          <6> QED BY <1>1, <6>3 DEF Evident
        <5> QED BY <4>8, <5>1, <5>2 DEF Evident
      <4>9. ASSUME Full(p, i, from) PROVE Full(p, i, from)'
        <5>1. PICK w : w = window[Store][i][p]
          OBVIOUS
        <5>2. window'[Store'][i][p] = w /\ w # NoWindow /\ w.until \in Nat
          <6>1. Store' = Store /\ Store \in Stores /\ p \in Subjects
            BY <1>1 DEF Store, Stores, Subjects
          <6>2. w \in Window
            BY <1>1, <5>1, <6>1 DEF TypeOK
          <6> QED BY <1>1, <4>9, <5>1, <6>1, <6>2 DEF Full, Window
        <5>3. w.until + Patience >= from + Cooldown
          <6>1. CASE \E q \in Under(p, i) : req[q].since + Cooldown <= w.until
            <7>1. PICK q \in Under(p, i) : req[q].since + Cooldown <= w.until
              BY <6>1
            <7> QED BY <4>7, <5>2, <7>1
          <6> QED BY <4>9, <5>1, <6>1 DEF Full
        <5> QED BY <5>2, <5>3 DEF Full
      <4>10. /\ Cardinality(Sent(p, from, Cooldown))' = t
             /\ Cardinality(Under(p, i))' = u - 1 /\ (1 + spent.outages)' = 1 + o
        BY <1>2, <2>2, <4>2, <4>3, <4>4
      <4> QED BY <4>5, <4>6, <4>8, <4>9, <4>10 DEF Slack, Used, Barred
    <3> QED BY <3>2, <3>3
  <2> QED BY <2>4, <2>5
<1> QED BY <1>2, <1>3, <1>4

\* A window outlasts the request that opened it.
LEMMA SlackTick ==
    ASSUME Basics, Bounded, SlackInv, Tick PROVE SlackInv'
<1>1. /\ UNCHANGED <<redis, checks, rows, texts, req, spent>> /\ now' = now + 1
      /\ Basics' /\ TypeOK /\ now \in Nat /\ Patience \in Nat /\ Cooldown \in Nat
      /\ \A q \in Requests : ~At(q, "idle") => now < req[q].since + Patience
      /\ \A s \in Stores, j \in DOMAIN checks, x \in Subjects :
             window[s][j][x].until > now' => window'[s][j][x] = window[s][j][x]
  BY TickTo, TimesAssumption DEF Tick, Basics, TypeOK
<1> SUFFICES ASSUME Dated, Patience < Cooldown, NEW p \in Phones, NEW i \in DOMAIN checks, NEW from \in Nat,
                    OneLimit(i), Slack(p, i, from)
             PROVE  Slack(p, i, from)'
  BY <1>1 DEF SlackInv, OneLimit
<1>2. /\ Under(p, i)' = Under(p, i) /\ Sent(p, from, Cooldown)' = Sent(p, from, Cooldown)
      /\ Evident(p, i, from) => Evident(p, i, from)'
      /\ Afresh(p) => Afresh(p)'
  BY <1>1 DEF Under, Through, At, Sent, Evident, Afresh
<1>3. ASSUME Full(p, i, from), InPeriod(from)' PROVE Full(p, i, from)'
  <2>1. PICK w : w = window[Store][i][p]
    OBVIOUS
  <2>2. Store' = Store /\ Store \in Stores /\ p \in Subjects
    BY <1>1 DEF Store, Stores, Subjects
  <2>3. w \in Window /\ w.until \in Nat
    BY <1>1, <2>1, <2>2 DEF TypeOK, Window
  <2>4. w.until > now + 1
    <3>1. CASE w.until + Patience >= from + Cooldown
      <4>1. (now + 1) + Patience < from + Cooldown
        BY <1>1, <1>3 DEF InPeriod
      <4> QED BY <1>1, <2>3, <3>1, <4>1
    <3>2. CASE \E q \in Under(p, i) : req[q].since + Cooldown <= w.until
      <4>1. PICK q \in Under(p, i) : req[q].since + Cooldown <= w.until
        BY <3>2
      <4>2. q \in Requests /\ ~At(q, "idle")
        BY DEF Under, Through, At
      <4>3. req[q].since \in Nat /\ now < req[q].since + Patience /\ Patience < Cooldown
        BY <1>1, <4>2 DEF TypeOK, Request
      <4> QED BY <1>1, <2>3, <4>1, <4>3
    <3> QED BY <1>3, <2>1, <3>1, <3>2 DEF Full
  <2>5. window'[Store'][i][p] = w
    BY <1>1, <2>1, <2>2, <2>4
  <2> QED BY <1>1, <1>2, <1>3, <2>1, <2>5 DEF Full
<1>4. now' >= now /\ spent'.outages >= spent.outages
  BY <1>1 DEF TypeOK
<1> QED BY <1>1, <1>2, <1>3, <1>4, SlackMoves DEF Barred

\* Another store counts now, and one message more may come.
LEMMA SlackChanges ==
    ASSUME Basics, Bounded, SlackInv, RedisChanges PROVE SlackInv'
<1>1. UNCHANGED <<now, checks, window, rows, req, texts, overruns>> /\ Fault("outages") /\ TypeOK /\ Basics'
  BY BasicsStep DEF RedisChanges, Basics, Next
<1>2. /\ spent.outages \in Nat /\ spent'.outages \in Nat /\ spent'.outages # spent.outages
      /\ spent'.outages >= spent.outages
  <2>1. spent' = [spent EXCEPT !.outages = @ + 1] /\ spent.outages \in Nat
    BY <1>1 DEF Fault, TypeOK
  <2> QED BY <1>1, <2>1 DEF TypeOK
<1> SUFFICES ASSUME Dated, Patience < Cooldown, NEW p \in Phones, NEW i \in DOMAIN checks, NEW from \in Nat,
                    OneLimit(i), Slack(p, i, from)
             PROVE  Slack(p, i, from)'
  BY <1>1 DEF SlackInv, OneLimit
<1>3. Under(p, i)' = Under(p, i) /\ Sent(p, from, Cooldown)' = Sent(p, from, Cooldown)
  BY <1>1 DEF Under, Through, At, Sent
<1>4. now' >= now
  BY <1>1 DEF TypeOK
<1> QED BY <1>1, <1>2, <1>3, <1>4, SlackMoves

\* Nobody is left who could pass, and the date of the code is still there.
LEMMA SlackRestart ==
    ASSUME Basics, Bounded, SlackInv, Restart PROVE SlackInv'
<1>1. /\ UNCHANGED <<now, redis, checks, rows, texts, overruns>> /\ Basics' /\ TypeOK
      /\ \A r \in Requests : req'[r].pc = "idle"
      /\ spent'.outages = spent.outages
  BY RestartTo DEF Restart, Basics
<1> SUFFICES ASSUME Dated, Patience < Cooldown, NEW p \in Phones, NEW i \in DOMAIN checks, NEW from \in Nat,
                    OneLimit(i), Slack(p, i, from)
             PROVE  Slack(p, i, from)'
  BY <1>1 DEF SlackInv, OneLimit
<1>2. Under(p, i)' = {} /\ Sent(p, from, Cooldown)' = Sent(p, from, Cooldown)
  BY <1>1 DEF Under, Through, At, Sent
<1>3. ASSUME Under(p, i)' = Under(p, i), Evident(p, i, from)
      PROVE  Evident(p, i, from)'
  <2>1. PICK row \in rows[p] : row.date + Patience >= from
    BY <1>2, <1>3, EvidentRow
  <2> QED BY <1>1, <2>1 DEF Evident
<1>4. Afresh(p)'
  BY <1>1 DEF Afresh
<1>5. now' >= now /\ spent'.outages >= spent.outages /\ Under(p, i)' \subseteq Under(p, i)
  BY <1>1, <1>2 DEF TypeOK
<1> QED BY <1>1, <1>2, <1>3, <1>4, <1>5, SlackMoves DEF Barred

LEMMA SlackStep ==
    ASSUME Basics, Stamped, Bounded, SlackInv, [Next]_vars PROVE SlackInv'
<1> USE DEF Basics
<1>0. Basics'
  BY BasicsStep
<1>1. ASSUME NEW r \in Requests, NEW pc \in {"idle", "cooldown", "last", "release"},
             Goes(r, pc) \/ Ends(r),
             UNCHANGED <<now, redis, checks, texts, window, rows>>,
             spent'.outages = spent.outages
      PROVE  SlackInv'
  <2>1. /\ req'[r].pc \in {"idle", "cooldown", "last", "release"}
        /\ \A p \in Requests \ {r} : req'[p] = req[p]
    BY <1>1, GoesTyped, EndsTyped, IdleTyped DEF Steps
  <2> QED BY <1>0, <1>1, <2>1, SlackGoes
<1>2. ASSUME NEW r \in Requests, NEW p \in Phones, NEW a \in Ips, Start(r, p, a)
      PROVE  SlackInv'
  <2>1. /\ req'[r].pc = "lock" /\ \A q \in Requests \ {r} : req'[q] = req[q]
        /\ spent'.outages = spent.outages
    BY <1>2, StartBasics
  <2>2. UNCHANGED <<now, redis, checks, texts, window, rows>>
    BY <1>2 DEF Start
  <2> QED BY <1>0, <2>1, <2>2, SlackGoes
<1>3. ASSUME NEW r \in Requests,
             AcquireLock(r) \/ InCooldown(r) \/ SetCooldown(r) \/ ReleaseLock(r)
      PROVE  SlackInv'
  <2>1. /\ \E pc \in {"idle", "cooldown", "last", "release"} : Goes(r, pc) \/ Ends(r)
        /\ UNCHANGED <<now, redis, checks, texts, window, rows, spent>>
    BY <1>3 DEF AcquireLock, InCooldown, SetCooldown, ReleaseLock
  <2> QED BY <1>1, <2>1
<1>4. ASSUME NEW r \in Requests, RequestError(r) PROVE SlackInv'
  <2>1. Goes(r, "release") /\ UNCHANGED <<now, redis, checks, texts, window, rows>>
    BY <1>4 DEF RequestError
  <2>2. spent'.outages = spent.outages
    BY <1>4, ErrorTo
  <2> QED BY <1>1, <2>1, <2>2
<1>5. CASE UNCHANGED vars
  <2> SUFFICES ASSUME Dated, Patience < Cooldown, NEW p \in Phones, NEW i \in DOMAIN checks, NEW from \in Nat,
                      OneLimit(i), Slack(p, i, from)
               PROVE  Slack(p, i, from)'
    BY <1>5 DEF SlackInv, OneLimit, vars
  <2> QED BY <1>5 DEF vars, Slack, Used, InPeriod, Evident, Barred, Full, Afresh, Under,
                      Through, Sent, Store, At
<1> QED BY <1>2, <1>3, <1>4, <1>5, SlackLast, SlackCheck, SlackRemove, SlackCreate, SlackSend,
           SlackTick, SlackChanges, SlackRestart DEF Next, RequestStep

LEMMA BoundedStep == ASSUME Basics, Bounded, [Next]_vars PROVE Bounded'
<1>1. IsFiniteSet(texts') /\ IsFiniteSet(Active')
  BY FiniteTexts, ActiveStep DEF Bounded, Basics
<1> QED BY <1>1 DEF Bounded

LEMMA SlackInit == Init => Bounded /\ SlackInv
<1> SUFFICES ASSUME Init PROVE Bounded /\ SlackInv
  OBVIOUS
<1>1. \A r \in Requests : req[r].pc = "idle"
  BY IdleTyped DEF Init
<1>2. texts = {} /\ Active = {} /\ spent.outages = 0
  BY <1>1 DEF Init, Active, At
<1>3. ASSUME NEW p \in Phones, NEW i \in DOMAIN checks, NEW from \in Nat
      PROVE  Slack(p, i, from)
  <2>1. Sent(p, from, Cooldown) = {} /\ Under(p, i) = {}
    BY <1>1, <1>2 DEF Sent, Under, Through, At
  <2> QED BY <1>2, <2>1, FS_EmptySet DEF Slack, Used
<1> QED BY <1>2, <1>3, FS_EmptySet DEF Bounded, SlackInv

(***************************************************************************)
(* Messages spaced by lock and cooldown, overruns counted                  *)
(***************************************************************************)

\* Redis is there throughout and no request stops halfway.
Calm == Steady /\ redis /\ spent.errors + spent.restarts = 0

\* Requests of a phone past the cooldown that have not sent, and those that have and
\* not set it.
Before(p) == {r \in Requests : /\ req[r].phone = p
                               /\ req[r].pc \in {"last", "check", "remove", "create", "send"}}

Marking(p) == {r \in Requests : At(r, "mark") /\ req[r].phone = p}

\* Messages of a period and requests that may still send one are no more than one and
\* the overruns; and the cooldown lasts to its end, or those that sent have to set it.
CalmFits(p, from) ==
    LET sent == Cardinality(Sent(p, from, Cooldown))
    IN  /\ sent <= 1 + overruns[p]
        /\ InPeriod(from) =>
               /\ sent + Cardinality(Before(p)) <= 1 + overruns[p]
               /\ cool[p] >= from + Cooldown \/ sent <= Cardinality(Marking(p))

CalmInv == Calm => \A p \in Phones, from \in Nat : CalmFits(p, from)

LEMMA CalmBefore ==
    ASSUME Basics, Basics', spent'.outages = spent.outages, UNCHANGED redis,
           spent.errors + spent.restarts <= spent'.errors + spent'.restarts, Calm'
    PROVE  Calm
<1>1. spent.errors \in Nat /\ spent.restarts \in Nat /\ spent'.errors \in Nat /\ spent'.restarts \in Nat
  BY DEF Basics, TypeOK
<1>2. spent'.errors + spent'.restarts = 0 => spent.errors + spent.restarts = 0
  BY <1>1
<1> QED BY <1>2 DEF Calm, Steady

LEMMA BeforeActive ==
    \A p : Before(p) \in SUBSET Active /\ Marking(p) \in SUBSET Active
  BY DEF Before, Marking, Active, At

LEMMA SentFinite ==
    ASSUME Bounded, NEW p, NEW from
    PROVE  IsFiniteSet(Sent(p, from, Cooldown)) /\ Cardinality(Sent(p, from, Cooldown)) \in Nat
<1>1. Sent(p, from, Cooldown) \subseteq texts
  BY DEF Sent
<1> QED BY <1>1, FS_Subset, FS_CardinalityType DEF Bounded

LEMMA PeriodBefore ==
    ASSUME now \in Nat, now' \in Nat, now' >= now, NEW from \in Nat, InPeriod(from)'
    PROVE  InPeriod(from)
<1>1. Patience \in Nat /\ Cooldown \in Nat
  BY TimesAssumption
<1>2. PICK a \in Nat, b \in Nat : a = now /\ b = now' /\ a <= b
  OBVIOUS
<1>3. b + Patience < from + Cooldown
  BY <1>2 DEF InPeriod
<1>4. \A x, y, c, d, f \in Nat : x <= y /\ y + c < f + d => x + c < f + d
  OBVIOUS
<1>5. a + Patience < from + Cooldown
  BY <1>1, <1>2, <1>3, <1>4
<1> QED BY <1>2, <1>5 DEF InPeriod

\* A step that sends nothing for the phone and lets nobody past its cooldown.
LEMMA CalmKept ==
    ASSUME Basics, Basics', Bounded, Bounded', NEW p \in Phones, NEW from \in Nat,
           CalmFits(p, from), now' >= now, overruns[p] <= overruns'[p],
           Sent(p, from, Cooldown)' = Sent(p, from, Cooldown),
           Before(p)' \in SUBSET Before(p), Marking(p) \in SUBSET Marking(p)',
           InPeriod(from)' /\ cool[p] >= from + Cooldown => cool'[p] >= from + Cooldown
    PROVE  CalmFits(p, from)'
<1>1. PICK s, S, T, M, N : /\ s = Cardinality(Sent(p, from, Cooldown))
                           /\ S = Before(p) /\ T = Before(p)' /\ M = Marking(p) /\ N = Marking(p)'
  OBVIOUS
<1>2. /\ s \in Nat /\ Cardinality(S) \in Nat /\ Cardinality(T) \in Nat
      /\ Cardinality(T) <= Cardinality(S)
  BY <1>1, SentFinite, BeforeActive, Fewer DEF Bounded
<1>3. /\ Cardinality(M) \in Nat /\ Cardinality(N) \in Nat /\ Cardinality(M) <= Cardinality(N)
  <2>1. N \in SUBSET Active' /\ IsFiniteSet(Active')
    BY <1>1 DEF Marking, Active, At, Bounded
  <2>2. IsFiniteSet(N) /\ M \subseteq N
    BY <1>1, <2>1, FS_Subset
  <2> QED BY <2>2, FS_Subset, FS_CardinalityType
<1>4. /\ overruns[p] \in Nat /\ overruns'[p] \in Nat /\ now \in Nat /\ now' \in Nat
  BY DEF Basics, TypeOK
<1>5. /\ s <= 1 + overruns[p]
      /\ InPeriod(from) => /\ s + Cardinality(S) <= 1 + overruns[p]
                           /\ cool[p] >= from + Cooldown \/ s <= Cardinality(M)
  BY <1>1 DEF CalmFits
<1>6. InPeriod(from)' => InPeriod(from)
  BY <1>4, PeriodBefore
<1>7. /\ s <= 1 + overruns'[p]
      /\ InPeriod(from)' => s + Cardinality(T) <= 1 + overruns'[p]
  BY <1>2, <1>4, <1>5, <1>6
<1>8. InPeriod(from)' => cool'[p] >= from + Cooldown \/ s <= Cardinality(N)
  <2>1. ASSUME InPeriod(from)', s <= Cardinality(M) PROVE s <= Cardinality(N)
    BY <1>2, <1>3, <2>1
  <2> QED BY <1>5, <1>6, <2>1
<1>9. /\ Cardinality(Sent(p, from, Cooldown))' = s
      /\ Cardinality(Before(p))' = Cardinality(T) /\ Cardinality(Marking(p))' = Cardinality(N)
  BY <1>1
<1> QED BY <1>7, <1>8, <1>9 DEF CalmFits

\* One request moves on, with messages and cooldowns as they are.
LEMMA CalmMove ==
    ASSUME Basics, Basics', Bounded, Bounded', CalmInv,
           UNCHANGED <<redis, texts, now, overruns, cool>>,
           spent'.outages = spent.outages,
           spent.errors + spent.restarts <= spent'.errors + spent'.restarts,
           NEW r \in Requests, \A q \in Requests \ {r} : req'[q] = req[q], ~At(r, "mark"),
           req'[r].pc \in {"last", "check", "remove", "create", "send"} =>
               /\ req[r].pc \in {"last", "check", "remove", "create", "send"}
               /\ req'[r].phone = req[r].phone
    PROVE  CalmInv'
<1> SUFFICES ASSUME Calm', NEW p \in Phones, NEW from \in Nat PROVE CalmFits(p, from)'
  BY DEF CalmInv
<1>1. CalmFits(p, from)
  BY CalmBefore DEF CalmInv
<1>2. Sent(p, from, Cooldown)' = Sent(p, from, Cooldown)
  BY DEF Sent
<1>3. Before(p)' \in SUBSET Before(p)
  BY DEF Before
<1>4. Marking(p) \in SUBSET Marking(p)'
  BY DEF Marking, At
<1>5. now' >= now /\ overruns[p] <= overruns'[p]
  BY DEF Basics, TypeOK
<1> QED BY <1>1, <1>2, <1>3, <1>4, <1>5, CalmKept

\* Only the messages whose cooldown is still to be set are of this period, and those
\* that have sent them are past the lock beside this request.
LEMMA CalmCooldown ==
    ASSUME Basics, Bounded, Bounded', LockInv, CalmInv, NEW r \in Requests, InCooldown(r)
    PROVE  CalmInv'
<1>1. /\ UNCHANGED <<now, checks, redis, lock, cool, window, rows, texts, overruns, spent>>
      /\ req[r].pc = "cooldown" /\ Basics' /\ req[r].phone \in Phones
      /\ Goes(r, IF Cooling(req[r].phone) THEN "release" ELSE "last")
      /\ spent.errors + spent.restarts \in Nat
  BY InCooldownBasics DEF InCooldown, At, Basics, TypeOK, Request
<1>2. /\ req'[r].pc = IF Cooling(req[r].phone) THEN "release" ELSE "last"
      /\ req'[r].phone = req[r].phone
      /\ \A q \in Requests \ {r} : req'[q] = req[q]
  BY <1>1, GoesTyped DEF Steps, Basics
<1>3. CASE Cooling(req[r].phone)
  <2>1. req'[r].pc = "release" /\ ~At(r, "mark")
        /\ spent.errors + spent.restarts <= spent'.errors + spent'.restarts
    BY <1>1, <1>2, <1>3 DEF At
  <2> QED BY <1>1, <1>2, <2>1, CalmMove
<1>4. CASE ~Cooling(req[r].phone)
  <2> SUFFICES ASSUME Calm', NEW p \in Phones, NEW from \in Nat PROVE CalmFits(p, from)'
    BY DEF CalmInv
  <2>1. Calm /\ Steady /\ redis /\ CalmFits(p, from)
    BY <1>1 DEF Calm, Steady, CalmInv
  <2>2. Sent(p, from, Cooldown)' = Sent(p, from, Cooldown) /\ Marking(p)' = Marking(p)
    BY <1>1, <1>2 DEF Sent, Marking, At
  <2>3. CASE p # req[r].phone
    <3>1. Before(p)' \in SUBSET Before(p)
      BY <1>2, <2>3 DEF Before
    <3>2. now' >= now /\ overruns[p] <= overruns'[p]
      BY <1>1 DEF Basics, TypeOK
    <3> QED BY <1>1, <2>1, <2>2, <3>1, <3>2, CalmKept
  <2>4. CASE p = req[r].phone
    <3>1. PICK s, S, T, M, L :
              /\ s = Cardinality(Sent(p, from, Cooldown))
              /\ S = Before(p) /\ T = Before(p)' /\ M = Marking(p) /\ L = Locked(p)
      OBVIOUS
    <3>2. T \in SUBSET (S \cup {r}) /\ r \notin M \cup S
      BY <1>1, <1>2, <3>1 DEF Before, Marking, At
    <3>3. /\ s \in Nat /\ Cardinality(T) \in Nat /\ Cardinality(T) <= Cardinality(S) + 1
          /\ IsFiniteSet(S) /\ Cardinality(S) \in Nat
          /\ IsFiniteSet(M) /\ Cardinality(M) \in Nat
      BY <3>1, <3>2, SentFinite, BeforeActive, Fewer DEF Bounded
    <3>4. S \cap M = {}
      BY <3>1 DEF Before, Marking, At
    <3>5. IsFiniteSet(S \cup M) /\ Cardinality(S \cup M) = Cardinality(S) + Cardinality(M)
      <4>1. /\ IsFiniteSet(S \cup M)
            /\ Cardinality(S \cup M)
                   = Cardinality(S) + Cardinality(M) - Cardinality(S \cap M)
        BY <3>3, FS_Union, Zenon
      <4>2. Cardinality(S \cap M) = 0
        BY <3>4, FS_EmptySet, Zenon
      <4> QED BY <3>3, <4>1, <4>2
    <3>6. (S \cup M) \in SUBSET (L \ {r}) /\ r \in L
      BY <1>1, <2>4, <3>1, <3>2 DEF Before, Marking, At, Locked, PastLock
    <3>7. Cardinality(L) \in Nat /\ Cardinality(S \cup M) + 1 <= Cardinality(L)
      BY <3>1, <3>6, LockedActive, Fewer DEF Bounded
    <3>8. Cardinality(L) + (IF lock[p] = 0 THEN 1 ELSE 0) <= 1 + overruns[p]
      BY <2>1, <3>1 DEF LockInv
    <3>9. /\ cool[p] = 0 /\ overruns[p] \in Nat /\ cool[p] < from + Cooldown
          /\ Cooldown \in Nat /\ Cooldown # 0
      BY <1>4, <2>1, <2>4, TimesAssumption DEF Cooling, Basics, TypeOK
    <3>10. s <= 1 + overruns[p] /\ (InPeriod(from) => s <= Cardinality(M))
      BY <2>1, <3>1, <3>9 DEF CalmFits
    <3>11. InPeriod(from) => s + Cardinality(T) <= 1 + overruns[p]
      BY <3>3, <3>5, <3>7, <3>8, <3>9, <3>10
    <3>12. /\ Cardinality(Sent(p, from, Cooldown))' = s /\ Cardinality(Before(p))' = Cardinality(T)
           /\ Cardinality(Marking(p))' = Cardinality(M) /\ (InPeriod(from)' <=> InPeriod(from))
      BY <1>1, <2>2, <3>1 DEF InPeriod
    <3> QED BY <1>1, <3>10, <3>11, <3>12 DEF CalmFits
  <2> QED BY <2>3, <2>4
<1> QED BY <1>3, <1>4

LEMMA CalmSend ==
    ASSUME Basics, Bounded, Bounded', CalmInv, NEW r \in Requests, Send(r) PROVE CalmInv'
<1>0. PICK n : n = [phone |-> req[r].phone, ip |-> req[r].ip, code |-> req[r].code, at |-> now]
  OBVIOUS
<1>1. UNCHANGED <<now, redis, cool, overruns>> /\ req[r].pc = "send" /\ ~At(r, "mark")
  BY DEF Send, At
<1>2. /\ Basics'
      /\ req'[r].phone = req[r].phone
      /\ \A q \in Requests \ {r} : req'[q] = req[q]
      /\ spent'.outages = spent.outages
      /\ spent.errors + spent.restarts <= spent'.errors + spent'.restarts
      /\ \/ /\ texts' = texts \cup {n}
            /\ \/ req'[r].pc = "mark"
               \/ req'[r].pc = "release" /\ spent'.errors + spent'.restarts # 0
         \/ UNCHANGED texts /\ req'[r].pc = "release"
  BY <1>0, SendTo
<1>3. CASE UNCHANGED texts /\ req'[r].pc = "release"
  BY <1>1, <1>2, <1>3, CalmMove
<1>4. CASE req'[r].pc = "release" /\ spent'.errors + spent'.restarts # 0
  BY <1>4 DEF CalmInv, Calm
<1>5. CASE texts' = texts \cup {n} /\ req'[r].pc = "mark"
  <2> SUFFICES ASSUME Calm', NEW p \in Phones, NEW from \in Nat PROVE CalmFits(p, from)'
    BY DEF CalmInv
  <2>1. CalmFits(p, from)
    BY <1>1, <1>2, CalmBefore DEF CalmInv
  <2>2. overruns[p] \in Nat /\ now \in Nat /\ overruns[p] <= overruns'[p] /\ now' >= now
    BY <1>1 DEF Basics, TypeOK
  <2>3. CASE p # req[r].phone
    <3>1. Sent(p, from, Cooldown)' = Sent(p, from, Cooldown)
      BY <1>0, <1>5, <2>3 DEF Sent
    <3>2. Before(p)' \in SUBSET Before(p)
      BY <1>2, <2>3 DEF Before
    <3>3. Marking(p) \in SUBSET Marking(p)'
      BY <1>1, <1>2 DEF Marking, At
    <3> QED BY <1>1, <1>2, <2>1, <2>2, <3>1, <3>2, <3>3, CalmKept
  <2>4. CASE p = req[r].phone
    <3>1. PICK S, T, M, N, U, V :
              /\ S = Before(p) /\ T = Before(p)' /\ M = Marking(p) /\ N = Marking(p)'
              /\ U = Sent(p, from, Cooldown) /\ V = Sent(p, from, Cooldown)'
      OBVIOUS
    <3>2. T \in SUBSET (S \ {r}) /\ r \in S
      BY <1>1, <1>2, <1>5, <2>4, <3>1 DEF Before
    <3>3. N = M \cup {r} /\ r \notin M
      BY <1>1, <1>2, <1>5, <2>4, <3>1 DEF Marking, At
    <3>4. V \in SUBSET (U \cup {n}) /\ (~InPeriod(from) => V = U)
      BY <1>0, <1>1, <1>5, <3>1 DEF Sent, InPeriod
    <3>5. /\ Cardinality(S) \in Nat /\ Cardinality(T) \in Nat /\ Cardinality(T) + 1 <= Cardinality(S)
          /\ IsFiniteSet(M) /\ Cardinality(M) \in Nat
      BY <3>1, <3>2, BeforeActive, Fewer DEF Bounded
    <3>6. Cardinality(N) = Cardinality(M) + 1
      BY <3>3, <3>5, FS_AddElement
    <3>7. IsFiniteSet(U) /\ Cardinality(U) \in Nat
      BY <3>1, SentFinite
    <3>8. Cardinality(V) \in Nat /\ Cardinality(V) <= Cardinality(U) + 1
      <4>1. /\ IsFiniteSet(U \cup {n}) /\ Cardinality(U \cup {n}) \in Nat
            /\ Cardinality(U \cup {n}) <= Cardinality(U) + 1
        <5>1. /\ IsFiniteSet(U \cup {n})
              /\ \/ Cardinality(U \cup {n}) = Cardinality(U)
                 \/ Cardinality(U \cup {n}) = Cardinality(U) + 1
          BY <3>7, FS_AddElement, Zenon
        <5> QED BY <3>7, <5>1
      <4>2. IsFiniteSet(V) /\ Cardinality(V) \in Nat /\ Cardinality(V) <= Cardinality(U \cup {n})
        BY <3>4, <4>1, FS_Subset, FS_CardinalityType
      <4> QED BY <3>7, <4>1, <4>2
    <3>9. /\ Cardinality(U) <= 1 + overruns[p]
          /\ InPeriod(from) =>
                 /\ Cardinality(U) + Cardinality(S) <= 1 + overruns[p]
                 /\ cool[p] >= from + Cooldown \/ Cardinality(U) <= Cardinality(M)
      BY <2>1, <3>1 DEF CalmFits
    <3>10. InPeriod(from) =>
               /\ Cardinality(V) + Cardinality(T) <= 1 + overruns[p]
               /\ Cardinality(V) <= 1 + overruns[p]
      BY <2>2, <3>5, <3>7, <3>8, <3>9
    <3>11. InPeriod(from) => cool[p] >= from + Cooldown \/ Cardinality(V) <= Cardinality(N)
      <4>1. Cardinality(U) <= Cardinality(M) => Cardinality(V) <= Cardinality(N)
        BY <3>5, <3>6, <3>7, <3>8
      <4> QED BY <3>9, <4>1
    <3>12. Cardinality(V) <= 1 + overruns[p]
      BY <3>4, <3>9, <3>10
    <3>13. /\ Cardinality(Sent(p, from, Cooldown))' = Cardinality(V)
           /\ Cardinality(Before(p))' = Cardinality(T) /\ Cardinality(Marking(p))' = Cardinality(N)
           /\ InPeriod(from)' <=> InPeriod(from)
      BY <1>1, <3>1 DEF InPeriod
    <3> QED BY <1>1, <3>10, <3>11, <3>12, <3>13 DEF CalmFits
  <2> QED BY <2>3, <2>4
<1> QED BY <1>2, <1>3, <1>4, <1>5

\* The cooldown is set for longer than the period of any message before it.
LEMMA CalmMark ==
    ASSUME Basics, Bounded, Bounded', Stamped, CalmInv, NEW r \in Requests, SetCooldown(r)
    PROVE  CalmInv'
<1>1. UNCHANGED <<now, redis, texts, overruns, spent>> /\ req[r].pc = "mark"
  BY DEF SetCooldown, At
<1>2. /\ Basics' /\ req'[r].pc = "release" /\ req'[r].phone = req[r].phone
      /\ \A q \in Requests \ {r} : req'[q] = req[q]
      /\ redis => cool'[req[r].phone] = now + Cooldown
      /\ \A p \in Phones : p # req[r].phone => cool'[p] = cool[p]
  BY MarkTo
<1> SUFFICES ASSUME Calm', NEW p \in Phones, NEW from \in Nat PROVE CalmFits(p, from)'
  BY DEF CalmInv
<1>3. Calm /\ redis /\ CalmFits(p, from)
  BY <1>1 DEF Calm, Steady, CalmInv
<1>4. /\ overruns[p] \in Nat /\ now \in Nat /\ overruns[p] <= overruns'[p] /\ now' >= now
      /\ Cooldown \in Nat
  BY <1>1, TimesAssumption DEF Basics, TypeOK
<1>5. Sent(p, from, Cooldown)' = Sent(p, from, Cooldown) /\ Before(p)' = Before(p)
  BY <1>1, <1>2 DEF Sent, Before
<1>6. CASE p # req[r].phone
  <2>1. Marking(p) \in SUBSET Marking(p)'
    BY <1>2, <1>6 DEF Marking, At
  <2> QED BY <1>2, <1>3, <1>4, <1>5, <1>6, <2>1, CalmKept
<1>7. CASE p = req[r].phone
  <2>1. cool'[p] = now + Cooldown
    BY <1>2, <1>3, <1>7
  <2>2. PICK s, N : s = Cardinality(Sent(p, from, Cooldown)) /\ N = Marking(p)'
    OBVIOUS
  <2>3. cool'[p] >= from + Cooldown \/ s <= Cardinality(N)
    <3>1. CASE from <= now
      BY <1>4, <2>1, <3>1
    <3>2. CASE ~(from <= now)
      <4>1. Sent(p, from, Cooldown) = {}
        <5>1. ASSUME NEW m \in texts PROVE ~(from <= m.at)
          <6>1. m.at <= now /\ m.at \in Nat
            BY RecentTyped DEF Stamped
          <6> QED BY <1>4, <3>2, <6>1
        <5> QED BY <5>1 DEF Sent
      <4>2. N \in SUBSET Active' /\ IsFiniteSet(Active')
        BY <2>2 DEF Marking, Active, At, Bounded
      <4>3. Cardinality(N) \in Nat /\ s = 0
        BY <2>2, <4>1, <4>2, FS_EmptySet, FS_Subset, FS_CardinalityType
      <4> QED BY <4>3
    <3> QED BY <3>1, <3>2
  <2>4. /\ Cardinality(Sent(p, from, Cooldown))' = s
        /\ Cardinality(Before(p))' = Cardinality(Before(p))
        /\ Cardinality(Marking(p))' = Cardinality(N) /\ (InPeriod(from)' <=> InPeriod(from))
    BY <1>1, <1>5, <2>2 DEF InPeriod
  <2>5. s <= 1 + overruns[p] /\ (InPeriod(from) => s + Cardinality(Before(p)) <= 1 + overruns[p])
    BY <1>3, <2>2 DEF CalmFits
  <2> QED BY <1>1, <2>3, <2>4, <2>5 DEF CalmFits
<1> QED BY <1>6, <1>7

LEMMA CalmTick ==
    ASSUME Basics, Bounded, Bounded', CalmInv, Tick PROVE CalmInv'
<1>1. /\ UNCHANGED <<redis, texts, req, spent>> /\ now' = now + 1 /\ now \in Nat
      /\ Basics'
      /\ \A p \in Phones : cool[p] > now' => cool'[p] = cool[p]
      /\ \A p \in Phones : overruns[p] <= overruns'[p]
  BY TickTo, Overrunning DEF Tick, Basics, TypeOK, Next
<1> SUFFICES ASSUME Calm', NEW p \in Phones, NEW from \in Nat PROVE CalmFits(p, from)'
  BY DEF CalmInv
<1>2. CalmFits(p, from)
  BY <1>1 DEF Calm, Steady, CalmInv
<1>3. /\ Sent(p, from, Cooldown)' = Sent(p, from, Cooldown)
      /\ Before(p)' = Before(p) /\ Marking(p)' = Marking(p)
  BY <1>1 DEF Sent, Before, Marking, At
<1>4. ASSUME InPeriod(from)', cool[p] >= from + Cooldown PROVE cool'[p] >= from + Cooldown
  <2>1. cool[p] \in Nat /\ Patience \in Nat /\ Cooldown \in Nat
    BY TimesAssumption DEF Basics, TypeOK
  <2>2. (now + 1) + Patience < from + Cooldown
    BY <1>1, <1>4 DEF InPeriod
  <2>3. cool[p] > now'
    BY <1>1, <1>4, <2>1, <2>2
  <2> QED BY <1>1, <1>4, <2>3
<1>5. now' >= now
  BY <1>1
<1> QED BY <1>1, <1>2, <1>3, <1>4, <1>5, CalmKept

LEMMA CalmStep ==
    ASSUME Basics, Bounded, LockInv, Stamped, CalmInv, [Next]_vars PROVE CalmInv'
<1>0. Basics' /\ Bounded'
  BY BasicsStep, BoundedStep
<1>1. spent.errors + spent.restarts \in Nat
  BY DEF Basics, TypeOK
<1>2. ASSUME NEW r \in Requests, NEW p \in Phones, NEW a \in Ips, Start(r, p, a)
      PROVE  CalmInv'
  <2>1. UNCHANGED <<redis, texts, now, overruns, cool>> /\ ~At(r, "mark")
    BY <1>2 DEF Start, At
  <2>2. /\ req'[r].pc = "lock" /\ \A q \in Requests \ {r} : req'[q] = req[q]
        /\ spent'.outages = spent.outages
        /\ spent.errors + spent.restarts <= spent'.errors + spent'.restarts
    BY <1>1, <1>2, StartBasics
  <2> QED BY <1>0, <2>1, <2>2, CalmMove
<1>3. ASSUME NEW r \in Requests, AcquireLock(r) \/ ReleaseLock(r) PROVE CalmInv'
  <2>1. /\ \E pc \in {"cooldown", "idle"} : Goes(r, pc) \/ Ends(r)
        /\ UNCHANGED <<redis, texts, now, overruns, cool, spent>> /\ ~At(r, "mark")
    BY <1>3 DEF AcquireLock, ReleaseLock, At
  <2>2. req'[r].pc \in {"cooldown", "idle"} /\ \A q \in Requests \ {r} : req'[q] = req[q]
    BY <2>1, GoesTyped, EndsTyped, IdleTyped DEF Steps, Basics
  <2> QED BY <1>0, <1>1, <2>1, <2>2, CalmMove
<1>4. ASSUME NEW r \in Requests, LastSentAt(r) \/ CheckLimit(r) \/ RemoveOne(r) \/ CreateRow(r)
      PROVE  CalmInv'
  <2>1. /\ UNCHANGED <<redis, texts, now, overruns, cool>> /\ ~At(r, "mark")
        /\ req[r].pc \in {"last", "check", "remove", "create", "send"}
    BY <1>4 DEF LastSentAt, CheckLimit, RemoveOne, CreateRow, At
  <2>2. UNCHANGED spent \/ RemoveOne(r)
    BY <1>4 DEF LastSentAt, CheckLimit, CreateRow
  <2>3. req'[r].phone = req[r].phone
    BY <1>4, LastSentTo, CheckLimitTo, RemoveTo, CreateTo DEF Basics
  <2>4. \A q \in Requests \ {r} : req'[q] = req[q]
    BY <1>4, LastSentTo, CheckLimitTo, RemoveTo, CreateTo DEF Basics
  <2>5. /\ spent'.outages = spent.outages
        /\ spent.errors + spent.restarts <= spent'.errors + spent'.restarts
    <3>1. CASE UNCHANGED spent
      BY <1>1, <3>1
    <3>2. CASE RemoveOne(r)
      BY <1>1, <3>2, RemoveTo DEF Basics
    <3> QED BY <2>2, <3>1, <3>2
  <2> QED BY <1>0, <2>1, <2>3, <2>4, <2>5, CalmMove
<1>5. ASSUME NEW r \in Requests, RequestError(r) PROVE CalmInv'
  <2>1. Fault("errors")
    BY <1>5 DEF RequestError
  <2>2. spent'.errors + spent'.restarts # 0
    BY <2>1, FaultTyped DEF Basics
  <2> QED BY <2>2 DEF CalmInv, Calm
<1>6. CASE RedisChanges
  BY <1>6, ChangesTo DEF CalmInv, Calm
<1>7. CASE Restart
  BY <1>7, RestartTo DEF CalmInv, Calm
<1>8. CASE UNCHANGED vars
  BY <1>8 DEF vars, CalmInv, Calm, Steady, CalmFits, Sent, Before, Marking, InPeriod, At
<1> QED BY <1>0, <1>2, <1>3, <1>4, <1>5, <1>6, <1>7, <1>8, CalmCooldown, CalmSend, CalmMark,
           CalmTick DEF Next, RequestStep

LEMMA CalmInit == Init => CalmInv
<1> SUFFICES ASSUME Init, NEW p \in Phones, NEW from \in Nat PROVE CalmFits(p, from)
  BY DEF CalmInv
<1>1. /\ Sent(p, from, Cooldown) = {} /\ Before(p) = {} /\ Marking(p) = {}
      /\ overruns[p] = 0
  BY IdleTyped DEF Init, Sent, Before, Marking, At
<1> QED BY <1>1, FS_EmptySet DEF CalmFits

LEMMA AllSpaced ==
    Basics /\ SpacedInv /\ CalmInv /\ SlackInv => SpacedTexts
<1> SUFFICES ASSUME Basics, SpacedInv, CalmInv, SlackInv, NEW p \in Phones, NEW t \in 1..now
             PROVE  /\ Steady /\ redis /\ (\/ spent.errors + spent.restarts = 0
                                           \/ Dated /\ overruns[p] = 0)
                          => Cardinality(Sent(p, t, Cooldown)) <= 1 + overruns[p]
                    /\ OnePerWindow /\ Dated
                          => Cardinality(Sent(p, t, Cooldown)) <= 1 + spent.outages
  BY DEF SpacedTexts
<1>1. t \in Nat /\ overruns[p] \in Nat /\ spent.outages \in Nat
  BY DEF Basics, TypeOK
<1>2. Calm => Cardinality(Sent(p, t, Cooldown)) <= 1 + overruns[p]
  BY <1>1 DEF CalmInv, CalmFits
<1>3. Watched /\ overruns[p] = 0 => Cardinality(Sent(p, t, Cooldown)) <= 1 + overruns[p]
  BY <1>1, Spaced
<1>4. ASSUME OnePerWindow, Dated
      PROVE  Cardinality(Sent(p, t, Cooldown)) <= 1 + spent.outages
  <2>1. CASE Patience < Cooldown
    <3>1. PICK i \in DOMAIN checks : OneLimit(i)
      BY <1>4 DEF OnePerWindow, OneLimit
    <3> QED BY <1>1, <1>4, <2>1, <3>1 DEF SlackInv, Slack
  <2>2. CASE ~(Patience < Cooldown)
    <3>1. Sent(p, t, Cooldown) = {}
      BY <1>1, <2>2, RecentTyped DEF Sent
    <3> QED BY <1>1, <3>1, FS_EmptySet
  <2> QED BY <2>1, <2>2
<1>5. Steady /\ redis /\ (spent.errors + spent.restarts = 0 \/ (Dated /\ overruns[p] = 0))
          => Cardinality(Sent(p, t, Cooldown)) <= 1 + overruns[p]
  BY <1>2, <1>3 DEF Calm, Watched
<1> QED BY <1>4, <1>5

\* A phone gets one message in the time of a cooldown, less the time of a request.
\* With Redis there all the time, lock and cooldown see to it, up to one more for each
\* request that outlived the lock, and if none did the date of the code does so even
\* where a request stops halfway.  With a limit of one and the date it is one through
\* restarts and lost answers of the SMS provider too, however slow requests are, and
\* one more for each time Redis goes or comes.
THEOREM MessagesSpaced == Spec => []SpacedTexts
<1> DEFINE Inv == /\ Basics /\ LockInv /\ WindowInv /\ Stamped /\ CodesInv /\ SpacedInv
                  /\ Bounded /\ CalmInv /\ SlackInv
<1>1. Init => Inv
  BY BasicsInit, LockInit, WindowInit, StampedInit, CodesInit, SpacedInit, CalmInit, SlackInit
<1>2. Inv /\ [Next]_vars => Inv'
  BY BasicsStep, LockStep, WindowStep, StampedStep, CodesStep, SpacedStep, BoundedStep,
     CalmStep, SlackStep DEF Bounded
<1>3. Inv => SpacedTexts
  BY AllSpaced
<1> QED BY <1>1, <1>2, <1>3, PTL DEF Spec

===============================================================================
