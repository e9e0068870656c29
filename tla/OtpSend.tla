------------------------------- MODULE OtpSend -------------------------------
(***************************************************************************)
(* POST /auth/send/otp: a one-time code is stored for a phone and sent to  *)
(* it by SMS, behind four defences that overlap: a lock per phone, a       *)
(* cooldown in Redis, a cooldown in the database and fixed-window rate     *)
(* limits.  Redis may be missing or fail, and then the lock is granted to  *)
(* everyone, the cooldown is unknown and the limits are counted in the     *)
(* server's memory; the server may restart and lose that memory.           *)
(*                                                                         *)
(* A request is cut at its awaits.  Time is counted in ticks; a request    *)
(* takes at most Patience ticks, which may be more than its lock lives.    *)
(* The ban of an address that asks too often, ahead of all this, only      *)
(* refuses requests: those never start.                                    *)
(***************************************************************************)
EXTENDS Naturals, FiniteSets, Sequences

CONSTANTS
    Requests,    \* concurrent requests
    Phones,      \* normalized phone numbers
    Ips,         \* client addresses
    Everyone,    \* the subject of the global limit
    Settings,    \* the rate limits a server may be started with
    LockTtl,     \* OTP_LOCK_TTL_MS
    Cooldown,    \* OTP_COOLDOWN_SECONDS
    Patience,    \* how long a request may take, in ticks
    Dated,       \* the table fills CREATE_DATE, which the code leaves out
    MaxTime, MaxStarts, MaxFaults   \* bounds on the clock, requests and faults

Scopes == {"phone", "ip", "global"}

Limits == [scope: Scopes, ttl: Nat \ {0}, limit: Nat \ {0}]

ASSUME SettingsAssumption == \A s \in Settings : s \in Seq(Limits) /\ s # <<>>
ASSUME SenderAssumption == Phones # {} /\ Ips # {}
ASSUME TimesAssumption ==
    /\ LockTtl \in Nat \ {0} /\ Cooldown \in Nat \ {0} /\ Patience \in Nat
    /\ Dated \in BOOLEAN /\ MaxTime \in Nat
    /\ MaxStarts \in Nat /\ MaxFaults \in Nat

VARIABLES
    now,         \* the clock
    checks,      \* the limits this server was started with, in their order
    redis,       \* Redis answers
    lock,        \* lock[p]: when the key lock:otp:p expires, 0 if there is none
    cool,        \* cool[p]: when the key otp:cooldown:p expires
    window,      \* window[store][i][subject]: the counter of the i-th limit
    rows,        \* rows[p]: the rows of PHONE_CODE
    req,         \* req[r]: a request
    texts,       \* the messages the SMS provider took
    overruns,    \* overruns[p]: how often a request of p outlived its defence
    spent        \* faults that have happened, requests, and codes drawn

vars == <<now, checks, redis, lock, cool, window, rows, req, texts, overruns, spent>>

Stores == {"redis", "memory"}
Subjects == Phones \cup Ips \cup {Everyone}

Window == [count: Nat, until: Nat]
NoWindow == [count |-> 0, until |-> 0]

OtpRow == [code: Nat, date: Nat]

Request == [pc: {"idle", "lock", "cooldown", "last", "check", "remove",
                 "create", "send", "mark", "release"},
            phone: Phones, ip: Ips, since: Nat, check: Nat, code: Nat]

Text == [phone: Phones, ip: Ips, code: Nat, at: Nat]

TypeOK ==
    /\ now \in Nat
    /\ checks \in Settings
    /\ redis \in BOOLEAN
    /\ lock \in [Phones -> Nat]
    /\ cool \in [Phones -> Nat]
    /\ window \in [Stores -> [DOMAIN checks -> [Subjects -> Window]]]
    /\ rows \in [Phones -> SUBSET OtpRow]
    /\ req \in [Requests -> Request]
    /\ \A r \in Requests : req[r].check \in {0} \cup DOMAIN checks
    /\ texts \subseteq Text
    /\ overruns \in [Phones -> Nat]
    /\ spent \in [outages: Nat, restarts: Nat, errors: Nat, starts: Nat,
                  codes: Nat]

NoWindows(s) == [i \in DOMAIN s |-> [x \in Subjects |-> NoWindow]]

Idle == [pc |-> "idle", phone |-> CHOOSE p \in Phones : TRUE,
         ip |-> CHOOSE a \in Ips : TRUE, since |-> 0, check |-> 0, code |-> 0]

\* A server with Redis, or one configured without it.
Init ==
    /\ now = 1
    /\ checks \in Settings
    /\ redis \in BOOLEAN
    /\ lock = [p \in Phones |-> 0]
    /\ cool = [p \in Phones |-> 0]
    /\ window = [s \in Stores |-> NoWindows(checks)]
    /\ rows = [p \in Phones |-> {}]
    /\ req = [r \in Requests |-> Idle]
    /\ texts = {}
    /\ overruns = [p \in Phones |-> 0]
    /\ spent = [outages |-> 0, restarts |-> 0, errors |-> 0, starts |-> 0,
                codes |-> 0]

\* A fault happens, within the bound on all of them.
Fault(kind) ==
    /\ spent.outages + spent.restarts + spent.errors < MaxFaults
    /\ spent' = [spent EXCEPT ![kind] = @ + 1]

----------------------------------------------------------------------------
(* The request *)

At(r, pc) == req[r].pc = pc
Goes(r, pc) == req' = [req EXCEPT ![r].pc = pc]
Ends(r) == req' = [req EXCEPT ![r] = Idle]

Start(r, p, a) ==
    /\ At(r, "idle")
    /\ spent.starts < MaxStarts
    /\ spent' = [spent EXCEPT !.starts = @ + 1]
    /\ req' = [req EXCEPT ![r] = [Idle EXCEPT !.pc = "lock", !.phone = p,
                                              !.ip = a, !.since = now]]
    /\ UNCHANGED <<now, checks, redis, lock, cool, window, rows, texts, overruns>>

\* Mutant: SET without NX.
LockableAlways(p) == TRUE

\* SET lock NX PX: no such key.
Lockable(p) == lock[p] = 0

\* Without Redis everyone gets the lock.
AcquireLock(r) ==
    LET p == req[r].phone
    IN  /\ At(r, "lock")
        /\ \/ /\ redis
              /\ Lockable(p)
              /\ lock' = [lock EXCEPT ![p] = now + LockTtl]
              /\ Goes(r, "cooldown")
           \/ /\ redis /\ ~Lockable(p)
              /\ Ends(r)
              /\ UNCHANGED lock
           \/ /\ ~redis
              /\ Goes(r, "cooldown")
              /\ UNCHANGED lock
        /\ UNCHANGED <<now, checks, redis, cool, window, rows, texts, overruns, spent>>

\* Without Redis the cooldown is unknown.
Cooling(p) == redis /\ cool[p] # 0

InCooldown(r) ==
    /\ At(r, "cooldown")
    /\ Goes(r, IF Cooling(req[r].phone) THEN "release" ELSE "last")
    /\ UNCHANGED <<now, checks, redis, lock, cool, window, rows, texts, overruns, spent>>

\* Mutant: the cooldown of the database is not checked.
SentLatelyNever(p) == FALSE

\* A row without a date does not count.
SentLately(p) ==
    \E row \in rows[p] :
        /\ row.date # 0
        /\ \A other \in rows[p] : other.date <= row.date
        /\ now - row.date < Cooldown

LastSentAt(r) ==
    /\ At(r, "last")
    /\ req' = [req EXCEPT ![r] = [@ EXCEPT
                  !.pc = IF SentLately(req[r].phone) THEN "release" ELSE "check",
                  !.check = 1]]
    /\ UNCHANGED <<now, checks, redis, lock, cool, window, rows, texts, overruns, spent>>

Subject(r, i) ==
    CASE checks[i].scope = "phone" -> req[r].phone
      [] checks[i].scope = "ip" -> req[r].ip
      [] OTHER -> Everyone

\* INCR, and EXPIRE when the count is 1: a window opens with its first request.
\* Counts further past the limit are all alike.
Increment(w, c) ==
    IF w = NoWindow THEN [count |-> 1, until |-> now + c.ttl]
    ELSE IF w.count > c.limit + 1 THEN w
    ELSE [w EXCEPT !.count = @ + 1]

\* Mutant: the count before this request is compared.
AllowedBefore(w, limit) == w.count - 1 <= limit

Allowed(w, limit) == w.count <= limit

\* Mutant: the loop runs one check too far.
LastCheckMissed(i) == i > Len(checks)

LastCheck(i) == i = Len(checks)

\* One limit after the other; a refused request has counted.
CheckLimit(r) ==
    LET i == req[r].check
        store == IF redis THEN "redis" ELSE "memory"
        x == Subject(r, i)
        w == Increment(window[store][i][x], checks[i])
    IN  /\ At(r, "check")
        /\ window' = [window EXCEPT ![store][i][x] = w]
        /\ req' = [req EXCEPT ![r] =
                     IF ~Allowed(w, checks[i].limit) THEN [@ EXCEPT !.pc = "release"]
                     ELSE IF LastCheck(i) THEN [@ EXCEPT !.pc = "remove"]
                     ELSE [@ EXCEPT !.check = i + 1]]
        /\ UNCHANGED <<now, checks, redis, lock, cool, rows, texts, overruns, spent>>

\* Mutant: the old code stays.
OldCodesStay(p) == rows[p]

OldCodesGone(p) == {}

\* In attack mode a phone without an account is skipped; otherwise a code is
\* drawn and the old ones are deleted.
RemoveOne(r) ==
    /\ At(r, "remove")
    /\ \/ /\ rows' = [rows EXCEPT ![req[r].phone] = OldCodesGone(req[r].phone)]
          /\ req' = [req EXCEPT ![r].pc = "create", ![r].code = spent.codes + 1]
          /\ spent' = [spent EXCEPT !.codes = @ + 1]
       \/ /\ Goes(r, "release")
          /\ UNCHANGED <<rows, spent>>
    /\ UNCHANGED <<now, checks, redis, lock, cool, window, texts, overruns>>

CreateRow(r) ==
    /\ At(r, "create")
    /\ rows' = [rows EXCEPT ![req[r].phone] =
                  @ \cup {[code |-> req[r].code, date |-> IF Dated THEN now ELSE 0]}]
    /\ Goes(r, "send")
    /\ UNCHANGED <<now, checks, redis, lock, cool, window, texts, overruns, spent>>

\* The provider takes the message, or the request gives up on it.
Send(r) ==
    /\ At(r, "send")
    /\ \/ /\ texts' = texts \cup {[phone |-> req[r].phone, ip |-> req[r].ip,
                                   code |-> req[r].code, at |-> now]}
          /\ \/ Goes(r, "mark") /\ UNCHANGED spent
             \/ Fault("errors") /\ Goes(r, "release")
       \/ /\ Goes(r, "release")
          /\ UNCHANGED <<texts, spent>>
    /\ UNCHANGED <<now, checks, redis, lock, cool, window, rows, overruns>>

SetCooldown(r) ==
    /\ At(r, "mark")
    /\ cool' = IF redis THEN [cool EXCEPT ![req[r].phone] = now + Cooldown] ELSE cool
    /\ Goes(r, "release")
    /\ UNCHANGED <<now, checks, redis, lock, window, rows, texts, overruns, spent>>

\* DEL lock, whoever holds it now.
ReleaseLock(r) ==
    /\ At(r, "release")
    /\ lock' = IF redis THEN [lock EXCEPT ![req[r].phone] = 0] ELSE lock
    /\ Ends(r)
    /\ UNCHANGED <<now, checks, redis, cool, window, rows, texts, overruns, spent>>

\* A call to the database fails.
RequestError(r) ==
    /\ req[r].pc \in {"last", "remove", "create"}
    /\ Fault("errors")
    /\ Goes(r, "release")
    /\ UNCHANGED <<now, checks, redis, lock, cool, window, rows, texts, overruns>>

RequestStep(r) ==
    \/ AcquireLock(r) \/ InCooldown(r) \/ LastSentAt(r) \/ CheckLimit(r)
    \/ RemoveOne(r) \/ CreateRow(r) \/ Send(r) \/ SetCooldown(r)
    \/ ReleaseLock(r)

----------------------------------------------------------------------------
(* The environment *)

Kept(until) == IF until <= now + 1 THEN 0 ELSE until
Over(until) == until # 0 /\ Kept(until) = 0

\* Requests past the lock, and past the i-th limit.
PastLock(r) == req[r].pc \notin {"idle", "lock"}
Late(r) == req[r].pc \in {"remove", "create", "send", "mark"}
Past(r, i) == Late(r) \/ (At(r, "check") /\ req[r].check > i)

\* The lock of p, or the count of p in memory, is over before a request that it
\* let through: others may pass beside it.
Outlived(p) ==
    \E r \in Requests :
        /\ req[r].phone = p
        /\ \/ PastLock(r) /\ Over(lock[p])
           \/ \E i \in DOMAIN checks :
                 /\ checks[i].scope = "phone" /\ Past(r, i)
                 /\ Over(window["memory"][i][p].until)

\* Time passes, unless a request would take longer than Patience; keys and
\* windows whose time is over are gone, whether Redis answers or not.
Tick ==
    /\ now < MaxTime
    /\ \A r \in Requests : ~At(r, "idle") => now < req[r].since + Patience
    /\ now' = now + 1
    /\ lock' = [p \in Phones |-> Kept(lock[p])]
    /\ cool' = [p \in Phones |-> Kept(cool[p])]
    /\ window' = [s \in Stores |-> [i \in DOMAIN checks |-> [x \in Subjects |->
                     IF Kept(window[s][i][x].until) = 0 THEN NoWindow
                                                       ELSE window[s][i][x]]]]
    /\ overruns' = [p \in Phones |-> IF Outlived(p) THEN overruns[p] + 1
                                                    ELSE overruns[p]]
    /\ UNCHANGED <<checks, redis, rows, req, texts, spent>>

\* Redis goes away with its keys kept, or comes back.
RedisChanges ==
    /\ Fault("outages")
    /\ redis' = ~redis
    /\ UNCHANGED <<now, checks, lock, cool, window, rows, req, texts, overruns>>

\* The requests under way and the counters in memory are gone.
Restart ==
    /\ Fault("restarts")
    /\ req' = [r \in Requests |-> Idle]
    /\ window' = [window EXCEPT !["memory"] = NoWindows(checks)]
    /\ UNCHANGED <<now, checks, redis, lock, cool, rows, texts, overruns>>

Next ==
    \/ \E r \in Requests, p \in Phones, a \in Ips : Start(r, p, a)
    \/ \E r \in Requests : RequestStep(r) \/ RequestError(r)
    \/ Tick \/ RedisChanges \/ Restart

Spec == Init /\ [][Next]_vars

----------------------------------------------------------------------------
(* Properties *)

Steady == spent.outages = 0

\* Every phone gets one code per PhoneWindow at most, as the defaults have it.
OnePerWindow ==
    \E i \in DOMAIN checks : /\ checks[i].scope = "phone" /\ checks[i].limit = 1
                             /\ checks[i].ttl >= Cooldown

Sent(p, from, length) ==
    {m \in texts : m.phone = p /\ from <= m.at /\ m.at + Patience < from + length}

\* Messages to a phone in the time of a cooldown, less the time a request may take
\* between its checks and its message.  While Redis is there throughout, lock and
\* cooldown allow one, whatever the limits are, and one more each time a request
\* outlived its lock; where a request stopped between its message and its cooldown,
\* this takes rows with a date and no overrun.  With or without Redis, slow requests
\* and restarts included, the limit of one per window and the date of the stored
\* code allow one, and one more each time Redis goes or comes.
SpacedTexts ==
    \A p \in Phones, t \in 1..now :
        LET sent == Cardinality(Sent(p, t, Cooldown))
        IN  /\ Steady /\ redis /\ (\/ spent.errors + spent.restarts = 0
                                   \/ Dated /\ overruns[p] = 0)
                  => sent <= 1 + overruns[p]
            /\ OnePerWindow /\ Dated => sent <= 1 + spent.outages

\* However requests, windows and messages overlap, a window that opens with its
\* first request lets at most twice its limit less one through in any period of
\* its length, less the time a request may take after its check; and once more
\* when the count moves from Redis to memory or back.
RateBounded ==
    (Steady /\ redis) \/ spent.restarts = 0 =>
        \A i \in DOMAIN checks, t \in 1..now, x \in Subjects :
            LET hit(m) == CASE checks[i].scope = "phone" -> m.phone = x
                            [] checks[i].scope = "ip" -> m.ip = x
                            [] OTHER -> x = Everyone
                sent == UNION {Sent(p, t, checks[i].ttl) : p \in Phones}
            IN  Cardinality({m \in sent : hit(m)})
                    <= (2 * checks[i].limit - 1) * (1 + spent.outages)

\* A phone has one code it can log in with, and one more at most each time a request
\* outlived the lock, or without Redis the limit of one.  As long as none did, it is
\* the code of the last message, unless a later request has deleted that, and then
\* at most that request's own is stored.
LatestCodeWorks ==
    \A p \in Phones :
        Steady /\ (redis \/ OnePerWindow) =>
            /\ Cardinality(rows[p]) <= 1 + overruns[p]
            /\ overruns[p] = 0 =>
                  \A m \in texts :
                      m.phone = p /\ (\A n \in texts : n.phone = p => n.code <= m.code)
                          => \/ {row.code : row \in rows[p]} = {m.code}
                             \/ \A row \in rows[p] : row.code > m.code

=============================================================================
