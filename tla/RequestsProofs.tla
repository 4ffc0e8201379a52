--------------------------- MODULE RequestsProofs ---------------------------
(***************************************************************************)
(* What the limits of Requests guarantee, for any number of requests, any  *)
(* limits, any length of the hour and any number of failures.              *)
(***************************************************************************)
EXTENDS Requests, FiniteSetTheorems, TLAPS

(* Facts about the hour of a time.                                         *)
LEMMA HourIsNat == \A t \in Nat : HourOf(t) \in Nat
  BY RequestsAssumption DEF HourOf

LEMMA HourGrows == \A t, u \in Nat : t <= u => HourOf(t) <= HourOf(u)
  BY RequestsAssumption, SMTT(60) DEF HourOf

LEMMA HourLater == \A t \in Nat : HourOf(t + HourLength) > HourOf(t)
  BY RequestsAssumption, SMTT(60) DEF HourOf

LEMMA HourInRange == \A t \in Time : HourOf(t) \in Hour
  BY RequestsAssumption, HourIsNat, HourGrows DEF Time, Hour

-----------------------------------------------------------------------------
USE DEF GoTo, Fault, counters, locals, Counter, InLimiter, InQuota, Ended

LEMMA TypeInit == Init => TypeOK
  BY RequestsAssumption DEF Init, TypeOK, Absent, Never, NotYet, Time

(* Every step that touches a counter leaves a counter.                     *)
LEMMA CounterOps ==
  ASSUME NEW c \in Counter, now \in Nat
  PROVE  /\ Absent \in Counter
         /\ Incremented(c) \in Counter
         /\ \A ttl \in Nat : Expiring(c, ttl) \in Counter
         /\ Remaining(c) \in Int
  BY DEF Absent, Incremented, Expiring, Remaining, Never

LEMMA TypeStep == TypeOK /\ [Next]_vars => TypeOK'
<1> SUFFICES ASSUME TypeOK, [Next]_vars PROVE TypeOK'
  OBVIOUS
<1> USE RequestsAssumption DEF TypeOK, Time
<1>0. now \in Nat /\ HourOf(now) \in Hour
  BY HourInRange
<1>1. CASE Tick
  BY <1>0, <1>1 DEF Tick, Absent, Never
<1>2. ASSUME NEW r \in Request, NameHour(r) PROVE TypeOK'
  BY <1>0, <1>2 DEF NameHour
<1>h. ASSUME NEW r \in Request, pc[r] # "free", CountedInHour(r)
      PROVE  /\ hours' \in [Hour -> Counter]
             /\ count' \in [Request -> Nat] /\ inHour' \subseteq Request
  <2>1. hours[hour[r]] \in Counter
    BY <1>h
  <2>2. Incremented(hours[hour[r]]) \in Counter
    BY <2>1, <1>0, CounterOps
  <2> QED
    BY <1>h, <2>1, <2>2 DEF CountedInHour
<1>e. ASSUME NEW r \in Request, pc[r] # "free", HourExpiring(r)
      PROVE  hours' \in [Hour -> Counter]
  <2>1. hours[hour[r]] \in Counter
    BY <1>e
  <2>2. Expiring(hours[hour[r]], HourLength) \in Counter
    BY <2>1, <1>0, CounterOps
  <2> QED
    BY <1>e, <2>2 DEF HourExpiring
<1>3. ASSUME NEW r \in Request, CountQuery(r) PROVE TypeOK'
  BY <1>0, <1>3, <1>h DEF CountQuery, Judged
<1>4. ASSUME NEW r \in Request, ExpireHour(r) PROVE TypeOK'
  BY <1>0, <1>4, <1>e DEF ExpireHour, Judged
<1>5. ASSUME NEW r \in Request, AskTtl(r) PROVE TypeOK'
  <2>1. hours[hour[r]] \in Counter
    BY <1>5 DEF AskTtl
  <2>2. Remaining(hours[hour[r]]) \in Int
    BY <2>1, <1>0, CounterOps
  <2> QED
    BY <1>0, <1>5, <2>2 DEF AskTtl
<1>6. ASSUME NEW r \in Request, LimiterFails(r) PROVE TypeOK'
  <2>1. /\ hours' \in [Hour -> Counter]
        /\ count' \in [Request -> Nat] /\ inHour' \subseteq Request
    <3>1. pc[r] # "free"
      BY <1>6 DEF LimiterFails
    <3>2. CASE UNCHANGED <<hours, inHour, count>>
      BY <3>2
    <3>3. CASE CountedInHour(r)
      BY <3>1, <3>3, <1>h
    <3>4. CASE HourExpiring(r) /\ UNCHANGED <<inHour, count>>
      BY <3>1, <3>4, <1>e
    <3> QED
      BY <1>6, <3>2, <3>3, <3>4 DEF LimiterFails
  <2>2. /\ pc[r] \in InLimiter /\ pc' = [pc EXCEPT ![r] = "failed"]
        /\ faults < MaxFaults /\ faults' = faults + 1
        /\ UNCHANGED <<now, seconds, hour, second, inSecond, retryAt>>
    BY <1>6 DEF LimiterFails
  <2> QED
    BY <2>1, <2>2
<1>7. ASSUME NEW r \in Request, NameSecond(r) PROVE TypeOK'
  BY <1>0, <1>7 DEF NameSecond
<1>s. ASSUME NEW r \in Request, second[r] \in Time, CountedInSecond(r)
      PROVE  seconds' \in [Time -> Counter] /\ inSecond' \subseteq Request
  <2>1. seconds[second[r]] \in Counter
    BY <1>s
  <2>2. Incremented(seconds[second[r]]) \in Counter
    BY <2>1, <1>0, CounterOps
  <2> QED
    BY <1>s, <2>2 DEF CountedInSecond
<1>k. ASSUME NEW r \in Request, second[r] \in Time, SecondExpiring(r)
      PROVE  seconds' \in [Time -> Counter]
  <2>1. seconds[second[r]] \in Counter
    BY <1>k
  <2>2. Expiring(seconds[second[r]], 2) \in Counter
    BY <2>1, <1>0, CounterOps
  <2> QED
    BY <1>k, <2>2 DEF SecondExpiring
<1>8. ASSUME NEW r \in Request, CountCall(r) PROVE TypeOK'
  BY <1>0, <1>8, <1>s DEF CountCall
<1>9. ASSUME NEW r \in Request, ExpireSecond(r) PROVE TypeOK'
  BY <1>0, <1>9, <1>k DEF ExpireSecond
<1>10. ASSUME NEW r \in Request, Nap(r) PROVE TypeOK'
  BY <1>10 DEF Nap
<1>11. ASSUME NEW r \in Request, QuotaFails(r) PROVE TypeOK'
  <2>1. seconds' \in [Time -> Counter] /\ inSecond' \subseteq Request
    <3>1. second[r] \in Time
      BY <1>11 DEF QuotaFails
    <3>2. CASE UNCHANGED <<seconds, inSecond>>
      BY <3>2
    <3>3. CASE CountedInSecond(r)
      BY <3>1, <3>3, <1>s
    <3>4. CASE SecondExpiring(r) /\ UNCHANGED inSecond
      BY <3>1, <3>4, <1>k
    <3> QED
      BY <1>11, <3>2, <3>3, <3>4 DEF QuotaFails
  <2>2. /\ pc[r] \in InQuota /\ pc' = [pc EXCEPT ![r] = "callFailed"]
        /\ faults < MaxFaults /\ faults' = faults + 1
        /\ UNCHANGED <<now, hours, hour, second, inHour, count, retryAt>>
    BY <1>11 DEF QuotaFails
  <2>3. /\ pc' \in [Request -> {"free"} \cup InLimiter \cup InQuota \cup Ended]
        /\ \A q \in Request : /\ pc'[q] # "free" => hour'[q] \in Hour
                              /\ pc'[q] \in {"countCall", "expireSecond", "nap"}
                                     => second'[q] \in Time
    BY <2>2
  <2>4. faults' \in 0..MaxFaults
    BY <2>2
  <2> QED
    BY <2>1, <2>2, <2>3, <2>4
<1>12. CASE UNCHANGED vars
  BY <1>12 DEF vars
<1> QED
  BY <1>1, <1>2, <1>3, <1>4, <1>5, <1>6, <1>7, <1>8, <1>9, <1>10, <1>11, <1>12
  DEF Next, Step

(* The variables keep their types.                                         *)
THEOREM TypeCorrect == Spec => []TypeOK
  BY TypeInit, TypeStep, PTL DEF Spec

-----------------------------------------------------------------------------
(* What the rate limiter relies on: where a query stands in relation to    *)
(* its number, a counter in relation to its hour.                          *)
QueryInv ==
    \A r \in Request :
        /\ pc[r] # "free" => hour[r] <= HourOf(now)
        /\ pc[r] \in {"free", "countQuery"} => r \notin inHour /\ count[r] = 0
        /\ pc[r] \notin {"free", "countQuery", "failed"} => count[r] > 0
        /\ pc[r] = "expireHour" => count[r] = 1
        /\ pc[r] # "limited" => retryAt[r] = NotYet

ExpiryInv ==
    \A h \in Hour :
        /\ hours[h].n = 0 => hours[h] = Absent
        /\ hours[h].until # Never => hours[h].until > now /\ HourOf(hours[h].until) > h

(* The counter of a query that has been counted is gone after the hour     *)
(* only.                                                                   *)
GoneInv ==
    \A r \in Request : count[r] > 0 /\ hours[hour[r]].n = 0 => HourOf(now) > hour[r]

LimiterInv == QueryInv /\ ExpiryInv /\ GoneInv /\ RetryAfterLeavesTheHour

(* The steps that are not the limiter's leave all of this alone.           *)
LEMMA LimiterApart ==
  ASSUME TypeOK, LimiterInv, NEW r \in Request,
         NameSecond(r) \/ CountCall(r) \/ ExpireSecond(r) \/ Nap(r) \/ QuotaFails(r)
  PROVE  LimiterInv'
<1>1. /\ UNCHANGED <<now, hours, hour, inHour, count, retryAt>>
      /\ pc[r] \in InQuota
      /\ \E place \in InQuota \cup {"called", "callFailed"} : pc' = [pc EXCEPT ![r] = place]
  BY DEF NameSecond, CountCall, ExpireSecond, Nap, QuotaFails
<1>2. \A q \in Request : \/ q # r /\ pc'[q] = pc[q]
                         \/ /\ q = r /\ pc[q] \in InQuota
                            /\ pc'[q] \in InQuota \cup {"called", "callFailed"}
  BY <1>1 DEF TypeOK
<1>3. QueryInv'
  BY <1>1, <1>2 DEF LimiterInv, QueryInv, TypeOK
<1>4. ExpiryInv' /\ GoneInv' /\ RetryAfterLeavesTheHour'
  BY <1>1 DEF LimiterInv, ExpiryInv, GoneInv, RetryAfterLeavesTheHour
<1> QED
  BY <1>3, <1>4 DEF LimiterInv

LEMMA LimiterInit == Init => LimiterInv
  BY RequestsAssumption
  DEF Init, LimiterInv, QueryInv, ExpiryInv, GoneInv, RetryAfterLeavesTheHour, Absent, Never, NotYet

(* Time passes: an hour that is over stays over, and a counter that        *)
(* expires takes its hour with it.                                         *)
LEMMA LimiterTick == TypeOK /\ LimiterInv /\ Tick => LimiterInv'
<1> SUFFICES ASSUME TypeOK, LimiterInv, Tick PROVE LimiterInv'
  OBVIOUS
<1>1. /\ now \in Nat /\ now' = now + 1
      /\ HourOf(now) \in Nat /\ HourOf(now') \in Nat /\ HourOf(now) <= HourOf(now')
      /\ UNCHANGED <<pc, hour, inHour, count, retryAt>>
  <2>1. /\ now \in Nat /\ now' = now + 1
        /\ UNCHANGED <<pc, hour, inHour, count, retryAt>>
    BY RequestsAssumption DEF TypeOK, Time, Tick
  <2> QED
    BY <2>1, HourIsNat, HourGrows
<1>2. \A h \in Hour : /\ h \in Nat
                      /\ hours[h] \in Counter
                      /\ \/ hours[h].until = now' /\ hours'[h] = Absent
                         \/ hours[h].until # now' /\ hours'[h] = hours[h]
  BY RequestsAssumption, HourInRange, <1>1 DEF TypeOK, Tick, Hour
<1>3. QueryInv'
  <2>1. \A r \in Request : pc[r] # "free" => hour[r] \in Nat /\ hour[r] <= HourOf(now')
    BY <1>1, <1>2 DEF LimiterInv, QueryInv, TypeOK
  <2> QED
    BY <1>1, <2>1 DEF LimiterInv, QueryInv
<1>4. ExpiryInv'
  BY <1>1, <1>2 DEF LimiterInv, ExpiryInv, Absent, Never
<1>5. GoneInv'
  <2> SUFFICES ASSUME NEW r \in Request, count[r] > 0, hours'[hour[r]].n = 0
               PROVE  HourOf(now') > hour[r]
    BY <1>1 DEF GoneInv
  <2>1. hour[r] \in Hour /\ hour[r] \in Nat
    BY <1>2 DEF LimiterInv, QueryInv, TypeOK
  <2>2. CASE hours[hour[r]].until = now'
    BY <1>1, <2>1, <2>2 DEF LimiterInv, ExpiryInv, Never
  <2>3. CASE hours'[hour[r]] = hours[hour[r]]
    BY <1>1, <2>1, <2>3 DEF LimiterInv, GoneInv
  <2> QED
    BY <1>2, <2>1, <2>2, <2>3
<1>6. RetryAfterLeavesTheHour'
  BY <1>1 DEF LimiterInv, RetryAfterLeavesTheHour
<1> QED
  BY <1>3, <1>4, <1>5, <1>6 DEF LimiterInv

(* A query that names the hour or is refused touches no counter; its       *)
(* Retry-After is the expiry of a counter, or the next second when that    *)
(* is gone.                                                                *)
LEMMA LimiterReads ==
  ASSUME TypeOK, LimiterInv, NEW r \in Request, NameHour(r) \/ AskTtl(r)
  PROVE  LimiterInv'
<1>0. now \in Nat /\ HourOf(now) \in Hour /\ HourOf(now) \in Nat
  <2>1. now \in Time /\ now \in Nat
    BY RequestsAssumption DEF TypeOK, Time
  <2> QED
    BY <2>1, HourInRange, HourIsNat
<1>1. CASE NameHour(r)
  <2>1. /\ UNCHANGED <<now, hours, inHour, count, retryAt>> /\ pc[r] = "free"
        /\ hour' = [hour EXCEPT ![r] = HourOf(now)]
        /\ pc' = [pc EXCEPT ![r] = "countQuery"]
    BY <1>1 DEF NameHour
  <2>2. QueryInv'
    BY <1>0, <2>1 DEF LimiterInv, QueryInv, TypeOK
  <2>3. ExpiryInv'
    BY <2>1 DEF LimiterInv, ExpiryInv
  <2>4. count[r] = 0
    BY <2>1 DEF LimiterInv, QueryInv
  <2>5. GoneInv'
    BY <2>1, <2>4 DEF LimiterInv, GoneInv, TypeOK
  <2>6. RetryAfterLeavesTheHour'
    BY <2>1 DEF LimiterInv, QueryInv, RetryAfterLeavesTheHour, TypeOK
  <2> QED
    BY <2>2, <2>3, <2>5, <2>6 DEF LimiterInv
<1>2. CASE AskTtl(r)
  <2> DEFINE c == hours[hour[r]]
  <2>1. /\ UNCHANGED <<now, hours, hour, inHour, count>> /\ pc[r] = "askTtl"
        /\ pc' = [pc EXCEPT ![r] = "limited"]
    BY <1>2 DEF AskTtl
  <2>2. hour[r] \in Hour /\ hour[r] \in Nat /\ c \in Counter
    BY <2>1, RequestsAssumption, HourInRange DEF TypeOK, Hour, Time
  <2>3. QueryInv' /\ ExpiryInv' /\ GoneInv'
    BY <1>2, <2>1 DEF LimiterInv, QueryInv, ExpiryInv, GoneInv, TypeOK, AskTtl
  <2>4. \A t \in Nat : retryAt' = [retryAt EXCEPT ![r] = t] /\ HourOf(t) > hour[r]
                          => RetryAfterLeavesTheHour'
    BY <2>1 DEF LimiterInv, RetryAfterLeavesTheHour, TypeOK
  <2>5. CASE c = Absent
    <3>1. HourOf(now) > hour[r]
      BY <2>1, <2>2, <2>5 DEF LimiterInv, QueryInv, GoneInv, Absent
    <3>2. retryAt' = [retryAt EXCEPT ![r] = now + 1]
      BY <1>0, <1>2, <2>5 DEF AskTtl, Remaining
    <3>3. HourOf(now + 1) > hour[r]
      BY <1>0, <2>2, <3>1, HourGrows, HourIsNat
    <3> QED
      <4>1. now + 1 \in Nat
        BY <1>0
      <4>2. RetryAfterLeavesTheHour'
        BY <2>4, <3>2, <3>3, <4>1
      <4> QED
        BY <2>3, <4>2 DEF LimiterInv
  <2>6. CASE c # Absent /\ c.until = Never
    <3>1. retryAt' = [retryAt EXCEPT ![r] = NotYet]
      BY <1>2, <2>6 DEF AskTtl, Remaining
    <3> QED
      BY <2>1, <2>3, <3>1 DEF LimiterInv, RetryAfterLeavesTheHour, TypeOK
  <2>7. CASE c # Absent /\ c.until # Never
    <3>1. c.until \in Nat /\ c.until > now /\ HourOf(c.until) > hour[r]
      BY <2>2, <2>7 DEF LimiterInv, ExpiryInv
    <3>2. Remaining(c) = c.until - now /\ Remaining(c) # -1
      BY <1>0, <2>7, <3>1 DEF Remaining
    <3>3. retryAt' = [retryAt EXCEPT ![r] = now + (IF Remaining(c) > 1 THEN Remaining(c) ELSE 1)]
      BY <1>2, <3>2 DEF AskTtl
    <3>4. now + (IF Remaining(c) > 1 THEN Remaining(c) ELSE 1) = c.until
      BY <1>0, <3>1, <3>2
    <3> QED
      BY <2>3, <2>4, <3>1, <3>3, <3>4 DEF LimiterInv
  <2> QED
    BY <2>5, <2>6, <2>7
<1> QED
  BY <1>1, <1>2

(* A query that counts itself finds the counter of its hour, or makes it.  *)
LEMMA LimiterCounts ==
  ASSUME TypeOK, LimiterInv, NEW r \in Request, pc[r] = "countQuery", CountedInHour(r),
         NEW place \in {"expireHour", "askTtl", "nameSecond", "failed"},
         pc' = [pc EXCEPT ![r] = place],
         place = "expireHour" => count'[r] = 1,
         UNCHANGED <<now, hour, retryAt>>
  PROVE  LimiterInv'
<1> DEFINE h == hour[r]
<1>1. h \in Hour /\ hours[h] \in Counter /\ hours[h].n \in Nat
  BY DEF TypeOK
<1>2. hours' = [hours EXCEPT ![h] = [hours[h] EXCEPT !.n = hours[h].n + 1]]
  BY DEF CountedInHour, Incremented
<1>3. count' = [count EXCEPT ![r] = hours[h].n + 1]
  BY DEF CountedInHour
<1>4. \A k \in Hour : hours'[k].until = hours[k].until
                      /\ (k # h => hours'[k] = hours[k]) /\ (k = h => hours'[k].n = hours[h].n + 1)
  BY <1>1, <1>2 DEF TypeOK
<1>5. QueryInv'
  <2>1. inHour' \subseteq inHour \cup {r}
    BY DEF CountedInHour
  <2> QED
    BY <1>1, <1>3, <2>1 DEF LimiterInv, QueryInv, TypeOK
<1>6. ExpiryInv'
  BY <1>1, <1>4 DEF LimiterInv, ExpiryInv
<1>7. GoneInv'
  <2> SUFFICES ASSUME NEW q \in Request, count'[q] > 0, hours'[hour[q]].n = 0
               PROVE  HourOf(now) > hour[q]
    BY DEF GoneInv
  <2>1. CASE q = r
    BY <1>1, <1>4, <2>1
  <2>2. CASE q # r
    <3>1. count[q] > 0 /\ hour[q] \in Hour
      BY <1>3, <2>2 DEF TypeOK, LimiterInv, QueryInv
    <3>2. hours[hour[q]].n = 0
      BY <1>1, <1>4, <3>1
    <3> QED
      BY <3>1, <3>2 DEF LimiterInv, GoneInv
  <2> QED
    BY <2>1, <2>2
<1>8. RetryAfterLeavesTheHour'
  BY DEF LimiterInv, RetryAfterLeavesTheHour
<1> QED
  BY <1>5, <1>6, <1>7, <1>8 DEF LimiterInv

(* The expiry that a query sets ends after the hour it has named.          *)
LEMMA LimiterExpires ==
  ASSUME TypeOK, LimiterInv, NEW r \in Request, pc[r] = "expireHour", HourExpiring(r),
         NEW place \in {"askTtl", "nameSecond", "failed"},
         pc' = [pc EXCEPT ![r] = place],
         UNCHANGED <<now, hour, inHour, count, retryAt>>
  PROVE  LimiterInv'
<1> DEFINE h == hour[r]
<1>1. h \in Hour /\ hours[h] \in Counter /\ h \in Nat /\ h <= HourOf(now)
  BY RequestsAssumption, HourInRange DEF TypeOK, LimiterInv, QueryInv, Hour, Time
<1>2. now \in Nat /\ now + HourLength \in Nat /\ now + HourLength > now
  BY RequestsAssumption DEF TypeOK, Time
<1>3. HourOf(now + HourLength) > h
  BY <1>1, <1>2, HourLater, HourIsNat
<1>4. \A k \in Hour : /\ hours'[k].n = hours[k].n
                      /\ \/ hours'[k] = hours[k]
                         \/ k = h /\ hours[k] # Absent /\ hours'[k].until = now + HourLength
  BY <1>1 DEF HourExpiring, Expiring, TypeOK
<1>5. QueryInv'
  BY DEF LimiterInv, QueryInv, TypeOK
<1>6. ExpiryInv'
  <2> SUFFICES ASSUME NEW k \in Hour
               PROVE  /\ hours'[k].n = 0 => hours'[k] = Absent
                      /\ hours'[k].until # Never =>
                             hours'[k].until > now /\ HourOf(hours'[k].until) > k
    BY DEF ExpiryInv
  <2>1. CASE hours'[k] = hours[k]
    BY <2>1 DEF LimiterInv, ExpiryInv
  <2>2. CASE k = h /\ hours[k] # Absent /\ hours'[k].until = now + HourLength
    BY <1>2, <1>3, <1>4, <2>2 DEF LimiterInv, ExpiryInv
  <2> QED
    BY <1>4, <2>1, <2>2
<1>7. GoneInv'
  <2> SUFFICES ASSUME NEW q \in Request, count[q] > 0, hours'[hour[q]].n = 0
               PROVE  HourOf(now) > hour[q]
    BY DEF GoneInv
  <2>1. hour[q] \in Hour
    BY DEF TypeOK, LimiterInv, QueryInv
  <2> QED
    BY <1>4, <2>1 DEF LimiterInv, GoneInv
<1>8. RetryAfterLeavesTheHour'
  BY DEF LimiterInv, RetryAfterLeavesTheHour
<1> QED
  BY <1>5, <1>6, <1>7, <1>8 DEF LimiterInv

LEMMA LimiterStep == TypeOK /\ LimiterInv /\ [Next]_vars => LimiterInv'
<1> SUFFICES ASSUME TypeOK, LimiterInv, [Next]_vars PROVE LimiterInv'
  OBVIOUS
<1>1. CASE Tick
  BY <1>1, LimiterTick
<1>2. ASSUME NEW r \in Request, CountQuery(r) PROVE LimiterInv'
  <2>1. CASE count'[r] = 1
    BY <1>2, <2>1, LimiterCounts DEF CountQuery
  <2>2. CASE count'[r] # 1
    <3>1. Judged(count'[r]) \in {"askTtl", "nameSecond"}
      BY DEF Judged
    <3> QED
      BY <1>2, <2>2, <3>1, LimiterCounts DEF CountQuery
  <2> QED
    BY <2>1, <2>2
<1>3. ASSUME NEW r \in Request, ExpireHour(r) PROVE LimiterInv'
  <2>1. Judged(count[r]) \in {"askTtl", "nameSecond"}
    BY DEF Judged
  <2> QED
    BY <1>3, <2>1, LimiterExpires DEF ExpireHour
<1>4. ASSUME NEW r \in Request, LimiterFails(r) PROVE LimiterInv'
  <2>1. /\ pc[r] \in InLimiter /\ pc' = [pc EXCEPT ![r] = "failed"]
        /\ UNCHANGED <<now, hour, retryAt>>
    BY <1>4 DEF LimiterFails
  <2>2. CASE UNCHANGED <<hours, inHour, count>>
    <3>1. QueryInv'
      BY <2>1, <2>2 DEF LimiterInv, QueryInv, TypeOK
    <3> QED
      BY <2>1, <2>2, <3>1 DEF LimiterInv, ExpiryInv, GoneInv, RetryAfterLeavesTheHour
  <2>3. CASE pc[r] = "countQuery" /\ CountedInHour(r)
    BY <2>1, <2>3, LimiterCounts
  <2>4. CASE pc[r] = "expireHour" /\ HourExpiring(r) /\ UNCHANGED <<inHour, count>>
    BY <2>1, <2>4, LimiterExpires
  <2> QED
    BY <1>4, <2>2, <2>3, <2>4 DEF LimiterFails
<1>5. CASE UNCHANGED vars
  BY <1>5 DEF vars, LimiterInv, QueryInv, ExpiryInv, GoneInv, RetryAfterLeavesTheHour
<1> QED
  BY <1>1, <1>2, <1>3, <1>4, <1>5, LimiterReads, LimiterApart DEF Next, Step

(* A Retry-After read off an expiry leads out of the hour that is used up. *)
THEOREM RetrySafety == Spec => []RetryAfterLeavesTheHour
<1>1. TypeOK /\ LimiterInv => RetryAfterLeavesTheHour
  BY DEF LimiterInv
<1> QED
  BY <1>1, TypeInit, TypeStep, LimiterInit, LimiterStep, PTL DEF Spec

-----------------------------------------------------------------------------
(* The queries that hold a number within the limit of an hour; while the   *)
(* hour lasts, its counter has counted each of them.                       *)
Holding == InQuota \cup {"called", "callFailed", "expireHour"}
Serving(h) == {r \in inHour : hour[r] = h /\ pc[r] \in Holding}

AdmissionInv ==
    \A h \in Hour :
        /\ Cardinality(Serving(h)) <= HourLimit
        /\ HourOf(now) = h => Cardinality(Serving(h)) <= hours[h].n

LEMMA ServingFinite ==
  ASSUME TypeOK, NEW h
  PROVE  IsFiniteSet(Serving(h)) /\ Cardinality(Serving(h)) \in Nat
<1>1. Serving(h) \subseteq Request
  BY DEF Serving, TypeOK
<1> QED
  BY <1>1, RequestsAssumption, FS_Subset, FS_CardinalityType

(* A step after which nobody else holds a number, and no counter is less.  *)
LEMMA AdmissionKept ==
  ASSUME TypeOK, TypeOK', AdmissionInv, now' = now,
         \A h \in Hour : Serving(h)' \subseteq Serving(h) /\ hours'[h].n >= hours[h].n
  PROVE  AdmissionInv'
<1> SUFFICES ASSUME NEW h \in Hour
             PROVE  /\ Cardinality(Serving(h)') <= HourLimit
                    /\ HourOf(now) = h => Cardinality(Serving(h)') <= hours'[h].n
  BY DEF AdmissionInv
<1>1. Cardinality(Serving(h)') <= Cardinality(Serving(h))
  BY ServingFinite, FS_Subset
<1>2. Cardinality(Serving(h)) \in Nat /\ Cardinality(Serving(h)') \in Nat
  <2>1. IsFiniteSet(Serving(h)')
    BY ServingFinite, FS_Subset
  <2> QED
    BY <2>1, ServingFinite, FS_CardinalityType
<1>3. hours[h].n \in Nat /\ hours'[h].n \in Nat
  BY DEF TypeOK
<1> QED
  BY <1>1, <1>2, <1>3, RequestsAssumption DEF AdmissionInv

LEMMA AdmissionInit == Init => AdmissionInv
<1> SUFFICES ASSUME Init, NEW h \in Hour
             PROVE  /\ Cardinality(Serving(h)) <= HourLimit
                    /\ HourOf(now) = h => Cardinality(Serving(h)) <= hours[h].n
  BY DEF AdmissionInv
<1>1. Serving(h) = {}
  BY DEF Init, Serving
<1>2. Cardinality(Serving(h)) = 0
  BY <1>1, FS_EmptySet
<1> QED
  BY <1>2, RequestsAssumption DEF Init, Absent

(* Nobody has counted itself in an hour that begins.                       *)
LEMMA AdmissionTick == TypeOK /\ TypeOK' /\ LimiterInv /\ AdmissionInv /\ Tick => AdmissionInv'
<1> SUFFICES ASSUME TypeOK, TypeOK', LimiterInv, AdmissionInv, Tick, NEW h \in Hour
             PROVE  /\ Cardinality(Serving(h)') <= HourLimit
                    /\ HourOf(now') = h => Cardinality(Serving(h)') <= hours'[h].n
  BY DEF AdmissionInv
<1>1. Serving(h)' = Serving(h)
  BY DEF Serving, Tick
<1>2. Cardinality(Serving(h)) <= HourLimit
  BY DEF AdmissionInv
<1>3. /\ now \in Nat /\ now' = now + 1 /\ h \in Nat
      /\ hours[h] \in Counter /\ hours'[h] \in Counter
  <2>1. h \in Nat
    BY RequestsAssumption, HourIsNat DEF Hour
  <2> QED
    BY <2>1, RequestsAssumption DEF TypeOK, Time, Tick
<1>4. HourOf(now) \in Nat /\ HourOf(now') \in Nat /\ HourOf(now) <= HourOf(now')
  BY <1>3, HourIsNat, HourGrows
<1>5. ASSUME HourOf(now') = h PROVE Cardinality(Serving(h)) <= hours'[h].n
  <2>1. CASE HourOf(now) = h
    <3>1. hours'[h] = hours[h]
      <4>1. hours[h].until # now'
        BY <1>3, <1>5 DEF LimiterInv, ExpiryInv, Never
      <4> QED
        BY <1>3, <4>1 DEF Tick
    <3> QED
      BY <2>1, <3>1 DEF AdmissionInv
  <2>2. CASE HourOf(now) # h
    <3>1. Serving(h) = {}
      <4> SUFFICES ASSUME NEW r \in Serving(h) PROVE FALSE
        OBVIOUS
      <4>1. r \in Request /\ r \in inHour /\ hour[r] = h
        BY DEF Serving, TypeOK
      <4>2. pc[r] # "free" /\ hour[r] <= HourOf(now)
        BY <4>1 DEF LimiterInv, QueryInv
      <4> QED
        BY <1>4, <1>5, <2>2, <4>1, <4>2
    <3>2. Cardinality(Serving(h)) = 0
      BY <3>1, FS_EmptySet
    <3> QED
      BY <1>3, <3>2
  <2> QED
    BY <2>1, <2>2
<1> QED
  BY <1>1, <1>2, <1>5

(* A query that counts itself in time is one more to the counter too, and  *)
(* holds its number only if that is within the limit.                      *)
LEMMA AdmissionCounts ==
  ASSUME TypeOK, TypeOK', LimiterInv, AdmissionInv, NEW r \in Request, CountQuery(r)
  PROVE  AdmissionInv'
<1> DEFINE k == hour[r]
<1>1. /\ k \in Hour /\ hours[k] \in Counter /\ hours[k].n \in Nat
      /\ r \notin inHour /\ pc[r] = "countQuery"
  BY DEF TypeOK, CountQuery, LimiterInv, QueryInv
<1>2. /\ \A h \in Hour : hours'[h].n = IF h = k THEN hours[h].n + 1 ELSE hours[h].n
      /\ count'[r] = hours[k].n + 1
      /\ inHour' = IF k = HourOf(now) THEN inHour \cup {r} ELSE inHour
      /\ UNCHANGED <<now, hour>>
  BY <1>1 DEF CountQuery, CountedInHour, Incremented, TypeOK
<1>3. /\ \A q \in Request \ {r} : pc'[q] = pc[q]
      /\ pc'[r] \in Holding => count'[r] <= HourLimit
  BY <1>1, <1>2, RequestsAssumption DEF CountQuery, Judged, Holding, TypeOK
<1> SUFFICES ASSUME NEW h \in Hour
             PROVE  /\ Cardinality(Serving(h)') <= HourLimit
                    /\ HourOf(now') = h => Cardinality(Serving(h)') <= hours'[h].n
  BY DEF AdmissionInv
<1>4. CASE h = k /\ k = HourOf(now) /\ pc'[r] \in Holding
  <2>1. Serving(h)' = Serving(h) \cup {r}
    BY <1>1, <1>2, <1>3, <1>4 DEF Serving, TypeOK
  <2>2. Cardinality(Serving(h)) \in Nat /\ Cardinality(Serving(h)') \in Nat
    BY <2>1, ServingFinite, FS_AddElement, FS_CardinalityType
  <2>3. Cardinality(Serving(h)') <= Cardinality(Serving(h)) + 1
    BY <2>1, <2>2, ServingFinite, FS_AddElement
  <2>4. Cardinality(Serving(h)) <= hours[h].n /\ hours'[h].n = hours[h].n + 1
    BY <1>2, <1>4 DEF AdmissionInv
  <2>5. hours'[h].n <= HourLimit
    BY <1>2, <1>3, <1>4
  <2> QED
    BY <1>1, <1>4, <2>2, <2>3, <2>4, <2>5, RequestsAssumption
<1>5. CASE ~(h = k /\ k = HourOf(now) /\ pc'[r] \in Holding)
  <2>1. Serving(h)' = Serving(h)
    BY <1>1, <1>2, <1>3, <1>5 DEF Serving, TypeOK
  <2>2. Cardinality(Serving(h)) \in Nat
    BY ServingFinite
  <2>3. hours'[h].n >= hours[h].n /\ hours[h].n \in Nat
    BY <1>2 DEF TypeOK
  <2>4. hours'[h].n \in Nat
    BY DEF TypeOK
  <2> QED
    BY <1>2, <2>1, <2>2, <2>3, <2>4 DEF AdmissionInv
<1> QED
  BY <1>4, <1>5

LEMMA AdmissionStep ==
  TypeOK /\ TypeOK' /\ LimiterInv /\ AdmissionInv /\ [Next]_vars => AdmissionInv'
<1> SUFFICES ASSUME TypeOK, TypeOK', LimiterInv, AdmissionInv, [Next]_vars PROVE AdmissionInv'
  OBVIOUS
<1>a. ASSUME NEW r \in Request, NEW place, pc' = [pc EXCEPT ![r] = place],
             place \in Holding => pc[r] \in Holding,
             inHour' = inHour, UNCHANGED <<now, hour>>, \A h \in Hour : hours'[h].n >= hours[h].n
      PROVE  AdmissionInv'
  <2>1. \A h \in Hour : Serving(h)' \subseteq Serving(h)
    BY <1>a DEF Serving, TypeOK
  <2> QED
    BY <1>a, <2>1, AdmissionKept
<1>n. \A h \in Hour : hours[h].n >= hours[h].n
  BY DEF TypeOK
<1>1. CASE Tick
  BY <1>1, AdmissionTick
<1>2. ASSUME NEW r \in Request, NameHour(r) PROVE AdmissionInv'
  <2>1. \A h \in Hour : Serving(h)' \subseteq Serving(h)
    BY <1>2 DEF NameHour, Serving, TypeOK, LimiterInv, QueryInv, Holding
  <2> QED
    BY <1>2, <1>n, <2>1, AdmissionKept DEF NameHour
<1>3. ASSUME NEW r \in Request, CountQuery(r) PROVE AdmissionInv'
  BY <1>3, AdmissionCounts
<1>x. ASSUME NEW r \in Request, pc[r] # "free", HourExpiring(r), NEW h \in Hour
      PROVE  hours'[h].n >= hours[h].n
  BY <1>x DEF HourExpiring, Expiring, TypeOK
<1>4. ASSUME NEW r \in Request, ExpireHour(r) PROVE AdmissionInv'
  <2>1. pc[r] = "expireHour" /\ pc[r] \in Holding
    BY <1>4 DEF ExpireHour, Holding
  <2> QED
    BY <1>4, <1>a, <1>x, <2>1 DEF ExpireHour
<1>5. ASSUME NEW r \in Request, AskTtl(r) PROVE AdmissionInv'
  BY <1>5, <1>a, <1>n DEF AskTtl, Holding
<1>6. ASSUME NEW r \in Request, LimiterFails(r) PROVE AdmissionInv'
  <2>1. /\ pc[r] \in InLimiter /\ pc' = [pc EXCEPT ![r] = "failed"] /\ UNCHANGED <<now, hour>>
        /\ "failed" \notin Holding
    BY <1>6 DEF LimiterFails, Holding
  <2>2. CASE UNCHANGED <<hours, inHour, count>>
    BY <1>a, <1>n, <2>1, <2>2
  <2>3. CASE pc[r] = "countQuery" /\ CountedInHour(r)
    <3>1. \A h \in Hour : Serving(h)' \subseteq Serving(h)
      BY <2>1, <2>3 DEF CountedInHour, Serving, TypeOK
    <3>2. \A h \in Hour : hours'[h].n >= hours[h].n
      BY <2>3 DEF CountedInHour, Incremented, TypeOK
    <3> QED
      BY <2>1, <3>1, <3>2, AdmissionKept
  <2>4. CASE pc[r] = "expireHour" /\ HourExpiring(r) /\ UNCHANGED <<inHour, count>>
    BY <1>a, <1>x, <2>1, <2>4
  <2> QED
    BY <1>6, <2>2, <2>3, <2>4 DEF LimiterFails
<1>7. ASSUME NEW r \in Request,
             NameSecond(r) \/ CountCall(r) \/ ExpireSecond(r) \/ Nap(r) \/ QuotaFails(r)
      PROVE  AdmissionInv'
  <2>1. /\ pc[r] \in Holding /\ UNCHANGED <<now, hours, hour, inHour>>
        /\ \E place : pc' = [pc EXCEPT ![r] = place]
    BY <1>7 DEF NameSecond, CountCall, ExpireSecond, Nap, QuotaFails, Holding
  <2> QED
    BY <1>a, <1>n, <2>1
<1>8. CASE UNCHANGED vars
  <2>1. \A h \in Hour : Serving(h)' \subseteq Serving(h)
    BY <1>8 DEF vars, Serving
  <2> QED
    BY <1>8, <1>n, <2>1, AdmissionKept DEF vars
<1> QED
  BY <1>1, <1>2, <1>3, <1>4, <1>5, <1>6, <1>7, <1>8 DEF Next, Step

(* In no hour are more queries admitted than the limit.                    *)
THEOREM AdmissionSafety == Spec => []AdmittedPerHour
<1>1. TypeOK /\ AdmissionInv => AdmittedPerHour
  <2> SUFFICES ASSUME TypeOK, AdmissionInv, NEW h \in Hour
               PROVE  Cardinality({r \in inHour : Admitted(r) /\ hour[r] = h}) <= HourLimit
    BY DEF AdmittedPerHour
  <2> DEFINE A == {r \in inHour : Admitted(r) /\ hour[r] = h}
  <2>1. A \subseteq Serving(h)
    BY DEF Serving, Holding, Admitted
  <2>2. Cardinality(A) <= Cardinality(Serving(h)) /\ Cardinality(A) \in Nat
    BY <2>1, ServingFinite, FS_Subset, FS_CardinalityType
  <2> QED
    BY <2>2, ServingFinite, RequestsAssumption DEF AdmissionInv
<1> QED
  BY <1>1, TypeInit, TypeStep, LimiterInit, LimiterStep, AdmissionInit, AdmissionStep, PTL DEF Spec

-----------------------------------------------------------------------------
(* The quota: calls that hold a unit of a second, as queries hold a number *)
(* of an hour.                                                             *)
Calling(s) == {r \in inSecond : second[r] = s /\ pc[r] \in {"called", "expireSecond"}}

QuotaInv ==
    /\ \A r \in Request : second[r] <= now
    /\ \A s \in Time :
        /\ Cardinality(Calling(s)) <= SecondLimit
        /\ now = s => Cardinality(Calling(s)) <= seconds[s].n

LEMMA CallingFinite ==
  ASSUME TypeOK, NEW s
  PROVE  IsFiniteSet(Calling(s)) /\ Cardinality(Calling(s)) \in Nat
<1>1. Calling(s) \subseteq Request
  BY DEF Calling, TypeOK
<1> QED
  BY <1>1, RequestsAssumption, FS_Subset, FS_CardinalityType

(* A step after which nobody else holds a unit, and no counter is less.    *)
LEMMA QuotaKept ==
  ASSUME TypeOK, TypeOK', QuotaInv, now' = now,
         \A r \in Request : second'[r] <= now,
         \A s \in Time : Calling(s)' \subseteq Calling(s) /\ seconds'[s].n >= seconds[s].n
  PROVE  QuotaInv'
<1> SUFFICES ASSUME NEW s \in Time
             PROVE  /\ Cardinality(Calling(s)') <= SecondLimit
                    /\ now = s => Cardinality(Calling(s)') <= seconds'[s].n
  BY DEF QuotaInv
<1>1. Cardinality(Calling(s)') <= Cardinality(Calling(s))
  BY CallingFinite, FS_Subset
<1>2. Cardinality(Calling(s)) \in Nat /\ Cardinality(Calling(s)') \in Nat
  <2>1. IsFiniteSet(Calling(s)')
    BY CallingFinite, FS_Subset
  <2> QED
    BY <2>1, CallingFinite, FS_CardinalityType
<1>3. seconds[s].n \in Nat /\ seconds'[s].n \in Nat
  BY DEF TypeOK
<1> QED
  BY <1>1, <1>2, <1>3, RequestsAssumption DEF QuotaInv

LEMMA QuotaInit == Init => QuotaInv
<1> SUFFICES ASSUME Init PROVE QuotaInv
  OBVIOUS
<1>1. ASSUME NEW s \in Time
      PROVE  seconds[s].n = 0 /\ Cardinality(Calling(s)) = 0
  <2>1. Calling(s) = {}
    BY DEF Init, Calling
  <2> QED
    BY <1>1, <2>1, FS_EmptySet DEF Init, Absent
<1>2. \A r \in Request : second[r] <= now
  BY DEF Init, NotYet
<1> QED
  BY <1>1, <1>2, RequestsAssumption DEF QuotaInv

LEMMA QuotaTick == TypeOK /\ TypeOK' /\ QuotaInv /\ Tick => QuotaInv'
<1> SUFFICES ASSUME TypeOK, TypeOK', QuotaInv, Tick PROVE QuotaInv'
  OBVIOUS
<1>1. /\ now \in Nat /\ now' = now + 1 /\ UNCHANGED <<pc, second, inSecond>>
      /\ \A r \in Request : second[r] \in Int
  BY RequestsAssumption DEF TypeOK, Time, Tick, NotYet
<1>2. \A r \in Request : second'[r] <= now'
  BY <1>1 DEF QuotaInv
<1>3. ASSUME NEW s \in Time
      PROVE  /\ Cardinality(Calling(s)') <= SecondLimit
             /\ now' = s => Cardinality(Calling(s)') <= seconds'[s].n
  <2>1. seconds'[s] \in Counter
    BY <1>3 DEF TypeOK
  <2>2. Calling(s)' = Calling(s)
    BY <1>1 DEF Calling
  <2>3. ASSUME now' = s PROVE Cardinality(Calling(s)) = 0
    <3>1. Calling(s) = {}
      <4> SUFFICES ASSUME NEW r \in Calling(s) PROVE FALSE
        OBVIOUS
      <4>1. r \in Request /\ second[r] = s
        BY DEF Calling, TypeOK
      <4> QED
        BY <1>1, <2>3, <4>1 DEF QuotaInv
    <3> QED
      BY <3>1, FS_EmptySet
  <2> QED
    BY <1>3, <2>1, <2>2, <2>3 DEF QuotaInv
<1> QED
  BY <1>2, <1>3 DEF QuotaInv

(* A call that counts itself in time is one more to the counter too, and   *)
(* is let through only if its unit is within the limit.                    *)
LEMMA QuotaCounts ==
  ASSUME TypeOK, TypeOK', QuotaInv, NEW r \in Request, CountCall(r)
  PROVE  QuotaInv'
<1> DEFINE k == second[r]
<1>1. k \in Time /\ seconds[k] \in Counter /\ seconds[k].n \in Nat /\ pc[r] = "countCall"
  BY DEF TypeOK, CountCall
<1>2. /\ \A s \in Time : seconds'[s].n = IF s = k THEN seconds[s].n + 1 ELSE seconds[s].n
      /\ inSecond' = IF k = now THEN inSecond \cup {r} ELSE inSecond \ {r}
      /\ UNCHANGED <<now, second>>
  BY <1>1 DEF CountCall, CountedInSecond, Incremented, TypeOK
<1>3. /\ \A q \in Request \ {r} : pc'[q] = pc[q]
      /\ pc'[r] \in {"called", "expireSecond"} => seconds[k].n + 1 <= SecondLimit
  BY <1>1, RequestsAssumption DEF CountCall, Units, Granted, TypeOK
<1> SUFFICES ASSUME NEW s \in Time
             PROVE  /\ Cardinality(Calling(s)') <= SecondLimit
                    /\ now = s => Cardinality(Calling(s)') <= seconds'[s].n
  BY <1>2 DEF QuotaInv
<1>4. CASE s = k /\ k = now /\ pc'[r] \in {"called", "expireSecond"}
  <2>1. Calling(s)' = Calling(s) \cup {r}
    BY <1>1, <1>2, <1>3, <1>4 DEF Calling, TypeOK
  <2>2. Cardinality(Calling(s)) \in Nat /\ Cardinality(Calling(s)') \in Nat
    BY <2>1, CallingFinite, FS_AddElement, FS_CardinalityType
  <2>3. Cardinality(Calling(s)') <= Cardinality(Calling(s)) + 1
    <3>1. Cardinality(Calling(s) \cup {r}) =
              IF r \in Calling(s) THEN Cardinality(Calling(s)) ELSE Cardinality(Calling(s)) + 1
      BY CallingFinite, FS_AddElement
    <3> QED
      BY <2>1, <2>2, <3>1
  <2>4. Cardinality(Calling(s)) <= seconds[s].n
    BY <1>4 DEF QuotaInv
  <2> QED
    BY <1>1, <1>2, <1>3, <1>4, <2>2, <2>3, <2>4, RequestsAssumption
<1>5. CASE ~(s = k /\ k = now /\ pc'[r] \in {"called", "expireSecond"})
  <2>1. Calling(s)' = Calling(s)
    BY <1>1, <1>2, <1>3, <1>5 DEF Calling, TypeOK
  <2>2. Cardinality(Calling(s)) \in Nat
    BY CallingFinite
  <2>3. seconds'[s].n >= seconds[s].n /\ seconds[s].n \in Nat /\ seconds'[s].n \in Nat
    BY <1>2 DEF TypeOK
  <2> QED
    BY <2>1, <2>2, <2>3 DEF QuotaInv
<1> QED
  BY <1>4, <1>5

LEMMA QuotaStep == TypeOK /\ TypeOK' /\ QuotaInv /\ [Next]_vars => QuotaInv'
<1> SUFFICES ASSUME TypeOK, TypeOK', QuotaInv, [Next]_vars PROVE QuotaInv'
  OBVIOUS
<1>n. \A s \in Time : seconds[s].n >= seconds[s].n
  BY DEF TypeOK
<1>o. \A r \in Request : second[r] <= now
  BY DEF QuotaInv
<1>1. CASE Tick
  BY <1>1, QuotaTick
<1>2. ASSUME NEW r \in Request, CountCall(r) PROVE QuotaInv'
  BY <1>2, QuotaCounts
<1>3. ASSUME NEW r \in Request, NameSecond(r) PROVE QuotaInv'
  <2>1. /\ UNCHANGED <<now, seconds, inSecond>> /\ now \in Nat
        /\ second' = [second EXCEPT ![r] = now] /\ pc' = [pc EXCEPT ![r] = "countCall"]
    BY <1>3, RequestsAssumption DEF NameSecond, TypeOK, Time
  <2>2. \A q \in Request : second'[q] <= now
    BY <1>o, <2>1 DEF TypeOK
  <2>3. \A s \in Time : Calling(s)' \subseteq Calling(s)
    BY <2>1 DEF Calling, TypeOK
  <2> QED
    BY <1>n, <2>1, <2>2, <2>3, QuotaKept
<1>4. ASSUME NEW r \in Request, pc[r] = "expireSecond", SecondExpiring(r),
             UNCHANGED <<now, second, inSecond>>, NEW place, pc' = [pc EXCEPT ![r] = place]
      PROVE  QuotaInv'
  <2>1. \A s \in Time : seconds'[s].n >= seconds[s].n
    BY <1>4 DEF SecondExpiring, Expiring, TypeOK
  <2>2. \A s \in Time : Calling(s)' \subseteq Calling(s)
    BY <1>4 DEF Calling, TypeOK
  <2> QED
    BY <1>o, <1>4, <2>1, <2>2, QuotaKept
<1>5. ASSUME NEW r \in Request, QuotaFails(r) PROVE QuotaInv'
  <2>1. /\ UNCHANGED <<now, second>> /\ pc' = [pc EXCEPT ![r] = "callFailed"]
    BY <1>5 DEF QuotaFails
  <2>2. CASE UNCHANGED <<seconds, inSecond>>
    <3>1. \A s \in Time : Calling(s)' \subseteq Calling(s)
      BY <2>1, <2>2 DEF Calling, TypeOK
    <3> QED
      BY <1>n, <1>o, <2>1, <2>2, <3>1, QuotaKept
  <2>3. CASE pc[r] = "countCall" /\ CountedInSecond(r)
    <3>1. \A s \in Time : Calling(s)' \subseteq Calling(s)
      BY <2>1, <2>3 DEF CountedInSecond, Calling, TypeOK
    <3>2. \A s \in Time : seconds'[s].n >= seconds[s].n
      BY <2>3 DEF CountedInSecond, Incremented, TypeOK
    <3> QED
      BY <1>o, <2>1, <3>1, <3>2, QuotaKept
  <2>4. CASE pc[r] = "expireSecond" /\ SecondExpiring(r) /\ UNCHANGED inSecond
    BY <1>4, <2>1, <2>4
  <2> QED
    BY <1>5, <2>2, <2>3, <2>4 DEF QuotaFails
<1>6. ASSUME NEW r \in Request,
             NameHour(r) \/ CountQuery(r) \/ ExpireHour(r) \/ AskTtl(r) \/ LimiterFails(r)
                 \/ Nap(r)
      PROVE  QuotaInv'
  <2>1. /\ UNCHANGED <<now, seconds, second, inSecond>>
        /\ \E place : pc' = [pc EXCEPT ![r] = place] /\ place \notin {"called", "expireSecond"}
    BY <1>6 DEF NameHour, CountQuery, ExpireHour, AskTtl, LimiterFails, Nap, Judged
  <2>2. \A s \in Time : Calling(s)' \subseteq Calling(s)
    BY <2>1 DEF Calling, TypeOK
  <2> QED
    BY <1>n, <1>o, <2>1, <2>2, QuotaKept
<1>7. CASE UNCHANGED vars
  <2>1. \A s \in Time : Calling(s)' \subseteq Calling(s)
    BY <1>7 DEF vars, Calling
  <2> QED
    BY <1>7, <1>n, <1>o, <2>1, QuotaKept DEF vars
<1> QED
  BY <1>1, <1>2, <1>3, <1>4, <1>5, <1>6, <1>7 DEF Next, Step, ExpireSecond

(* Google is called no more often in a second than the quota allows.       *)
THEOREM QuotaSafety == Spec => []CallsPerSecond
<1>1. TypeOK /\ QuotaInv => CallsPerSecond
  <2> SUFFICES ASSUME TypeOK, QuotaInv, NEW s \in Time
               PROVE  Cardinality({r \in inSecond : pc[r] = "called" /\ second[r] = s})
                          <= SecondLimit
    BY DEF CallsPerSecond
  <2> DEFINE C == {r \in inSecond : pc[r] = "called" /\ second[r] = s}
  <2>1. C \subseteq Calling(s)
    BY DEF Calling
  <2>2. Cardinality(C) <= Cardinality(Calling(s)) /\ Cardinality(C) \in Nat
    BY <2>1, CallingFinite, FS_Subset, FS_CardinalityType
  <2> QED
    BY <2>2, CallingFinite, RequestsAssumption DEF QuotaInv
<1> QED
  BY <1>1, TypeInit, TypeStep, QuotaInit, QuotaStep, PTL DEF Spec
-----------------------------------------------------------------------------
(* Counters without an expiry, of hours and of seconds.                    *)
HoursExpire ==
    \A h \in Hour : hours[h].n > 0 /\ hours[h].until = Never =>
        \E r \in Request : hour[r] = h /\ count[r] = 1 /\ pc[r] \in {"expireHour", "failed"}

SecondsExpire ==
    \A s \in Time : seconds[s].n > 0 /\ seconds[s].until = Never =>
        \E r \in Request : second[r] = s /\ pc[r] \in {"expireSecond", "callFailed"}

(* An expiry is a time.                                                    *)
LEMMA ExpiringEnds ==
  ASSUME TypeOK, NEW c \in Counter, NEW ttl \in Nat, Expiring(c, ttl).n > 0
  PROVE  Expiring(c, ttl).until # Never
  BY RequestsAssumption DEF Expiring, Absent, Never, TypeOK, Time

LEMMA HoursExpireStep == TypeOK /\ HoursExpire /\ [Next]_vars => HoursExpire'
<1> SUFFICES ASSUME TypeOK, HoursExpire, [Next]_vars,
                    NEW h \in Hour, hours'[h].n > 0, hours'[h].until = Never
             PROVE  \E q \in Request : hour'[q] = h /\ count'[q] = 1
                                       /\ pc'[q] \in {"expireHour", "failed"}
  BY DEF HoursExpire
<1> DEFINE Witnessed == \E q \in Request : hour'[q] = h /\ count'[q] = 1
                                           /\ pc'[q] \in {"expireHour", "failed"}
<1>w. hours[h].n > 0 /\ hours[h].until = Never =>
          \E q \in Request : hour[q] = h /\ count[q] = 1 /\ pc[q] \in {"expireHour", "failed"}
  BY DEF HoursExpire
<1> HIDE DEF HoursExpire
(* The witness stays one when the counter is as it was.                    *)
<1>k. ASSUME NEW r \in Request, hours'[h] = hours[h],
             \A q \in Request \ {r} : UNCHANGED <<pc[q], hour[q], count[q]>>,
             \/ pc[r] \notin {"expireHour", "failed"}
             \/ pc'[r] = "failed" /\ UNCHANGED <<hour[r], count[r]>>
             \/ UNCHANGED <<pc[r], hour[r], count[r]>>
             \/ hour[r] # h
      PROVE  Witnessed
  <2>1. PICK q \in Request : hour[q] = h /\ count[q] = 1 /\ pc[q] \in {"expireHour", "failed"}
    BY <1>k, <1>w
  <2> QED
    BY <1>k, <2>1
<1>c. ASSUME NEW r \in Request, pc[r] = "countQuery", CountedInHour(r), UNCHANGED hour,
             NEW place, pc' = [pc EXCEPT ![r] = place],
             count'[r] = 1 => place \in {"expireHour", "failed"}
      PROVE  Witnessed
  <2>1. /\ hour[r] \in Hour /\ hours[hour[r]].n \in Nat
        /\ count'[r] = hours[hour[r]].n + 1
        /\ \A q \in Request \ {r} : UNCHANGED <<pc[q], count[q]>>
        /\ pc'[r] = place
    BY <1>c DEF CountedInHour, TypeOK
  <2>2. /\ hour[r] # h => hours'[h] = hours[h]
        /\ hour[r] = h => hours'[h].n = hours[h].n + 1 /\ hours'[h].until = hours[h].until
    BY <1>c DEF CountedInHour, Incremented, TypeOK
  <2>3. CASE hour[r] # h
    BY <1>c, <1>k, <2>1, <2>2, <2>3
  <2>4. CASE hour[r] = h /\ hours[h].n = 0
    BY <1>c, <2>1, <2>4
  <2>5. CASE hour[r] = h /\ hours[h].n > 0
    <3>1. PICK q \in Request : hour[q] = h /\ count[q] = 1 /\ pc[q] \in {"expireHour", "failed"}
      BY <1>w, <2>2, <2>5
    <3> QED
      BY <1>c, <2>1, <3>1
  <2> QED
    BY <2>1, <2>3, <2>4, <2>5
<1>x. ASSUME NEW r \in Request, pc[r] = "expireHour", HourExpiring(r)
      PROVE  hour[r] # h /\ hours'[h] = hours[h]
  <2>1. hour[r] \in Hour /\ hours[hour[r]] \in Counter
    BY <1>x DEF TypeOK
  <2>2. hour[r] = h => hours'[h] = Expiring(hours[h], HourLength)
    BY <1>x, <2>1 DEF HourExpiring, TypeOK
  <2>3. hour[r] # h
    BY <2>1, <2>2, ExpiringEnds, RequestsAssumption
  <2> QED
    BY <1>x, <2>3 DEF HourExpiring, TypeOK
<1>1. CASE Tick
  <2>1. hours'[h] = hours[h] /\ UNCHANGED <<pc, hour, count>>
    BY <1>1 DEF Tick, Absent
  <2> QED
    BY <1>w, <2>1
<1>2. ASSUME NEW r \in Request, NameHour(r) PROVE Witnessed
  BY <1>2, <1>k DEF NameHour, TypeOK
<1>3. ASSUME NEW r \in Request, CountQuery(r) PROVE Witnessed
  BY <1>3, <1>c DEF CountQuery
<1>4. ASSUME NEW r \in Request, ExpireHour(r) PROVE Witnessed
  BY <1>4, <1>x, <1>k DEF ExpireHour, TypeOK
<1>5. ASSUME NEW r \in Request, AskTtl(r) PROVE Witnessed
  BY <1>5, <1>k DEF AskTtl, TypeOK
<1>6. ASSUME NEW r \in Request, LimiterFails(r) PROVE Witnessed
  <2>1. pc' = [pc EXCEPT ![r] = "failed"] /\ UNCHANGED hour
    BY <1>6 DEF LimiterFails
  <2>2. CASE UNCHANGED <<hours, inHour, count>>
    BY <1>k, <2>1, <2>2 DEF TypeOK
  <2>3. CASE pc[r] = "countQuery" /\ CountedInHour(r)
    BY <1>c, <2>1, <2>3
  <2>4. CASE pc[r] = "expireHour" /\ HourExpiring(r) /\ UNCHANGED <<inHour, count>>
    BY <1>k, <1>x, <2>1, <2>4 DEF TypeOK
  <2> QED
    BY <1>6, <2>2, <2>3, <2>4 DEF LimiterFails
<1>7. ASSUME NEW r \in Request,
             NameSecond(r) \/ CountCall(r) \/ ExpireSecond(r) \/ Nap(r) \/ QuotaFails(r)
      PROVE  Witnessed
  <2>1. /\ pc[r] \in InQuota /\ UNCHANGED <<hours, hour, count>>
        /\ \E place : pc' = [pc EXCEPT ![r] = place]
    BY <1>7 DEF NameSecond, CountCall, ExpireSecond, Nap, QuotaFails
  <2> QED
    BY <1>k, <2>1 DEF TypeOK
<1>8. CASE UNCHANGED vars
  BY <1>8, <1>w DEF vars
<1> QED
  BY <1>1, <1>2, <1>3, <1>4, <1>5, <1>6, <1>7, <1>8 DEF Next, Step

LEMMA SecondsExpireStep == TypeOK /\ SecondsExpire /\ [Next]_vars => SecondsExpire'
<1> SUFFICES ASSUME TypeOK, SecondsExpire, [Next]_vars,
                    NEW s \in Time, seconds'[s].n > 0, seconds'[s].until = Never
             PROVE  \E q \in Request : second'[q] = s /\ pc'[q] \in {"expireSecond", "callFailed"}
  BY DEF SecondsExpire
<1> DEFINE Witnessed ==
               \E q \in Request : second'[q] = s /\ pc'[q] \in {"expireSecond", "callFailed"}
<1>w. seconds[s].n > 0 /\ seconds[s].until = Never =>
          \E q \in Request : second[q] = s /\ pc[q] \in {"expireSecond", "callFailed"}
  BY DEF SecondsExpire
<1> HIDE DEF SecondsExpire
<1>k. ASSUME NEW r \in Request, seconds'[s] = seconds[s],
             \A q \in Request \ {r} : UNCHANGED <<pc[q], second[q]>>,
             \/ pc[r] \notin {"expireSecond", "callFailed"}
             \/ pc'[r] = "callFailed" /\ UNCHANGED second[r]
             \/ second[r] # s
      PROVE  Witnessed
  <2>1. PICK q \in Request : second[q] = s /\ pc[q] \in {"expireSecond", "callFailed"}
    BY <1>k, <1>w
  <2> QED
    BY <1>k, <2>1
<1>c. ASSUME NEW r \in Request, pc[r] = "countCall", CountedInSecond(r), UNCHANGED second,
             NEW place, pc' = [pc EXCEPT ![r] = place],
             Units(r) = 1 => place \in {"expireSecond", "callFailed"}
      PROVE  Witnessed
  <2>1. /\ second[r] \in Time /\ seconds[second[r]].n \in Nat
        /\ Units(r) = seconds[second[r]].n + 1
        /\ \A q \in Request \ {r} : UNCHANGED pc[q]
        /\ pc'[r] = place
    BY <1>c DEF Units, TypeOK
  <2>2. /\ second[r] # s => seconds'[s] = seconds[s]
        /\ second[r] = s => seconds'[s].n = seconds[s].n + 1 /\ seconds'[s].until = seconds[s].until
    BY <1>c DEF CountedInSecond, Incremented, TypeOK
  <2>3. CASE second[r] # s
    BY <1>c, <1>k, <2>1, <2>2, <2>3
  <2>4. CASE second[r] = s /\ seconds[s].n = 0
    BY <1>c, <2>1, <2>4
  <2>5. CASE second[r] = s /\ seconds[s].n > 0
    <3>1. PICK q \in Request : second[q] = s /\ pc[q] \in {"expireSecond", "callFailed"}
      BY <1>w, <2>2, <2>5
    <3> QED
      BY <1>c, <2>1, <3>1
  <2> QED
    BY <2>1, <2>3, <2>4, <2>5
<1>x. ASSUME NEW r \in Request, pc[r] = "expireSecond", SecondExpiring(r)
      PROVE  second[r] # s /\ seconds'[s] = seconds[s]
  <2>1. second[r] \in Time /\ seconds[second[r]] \in Counter
    BY <1>x DEF TypeOK
  <2>2. second[r] = s => seconds'[s] = Expiring(seconds[s], 2)
    BY <1>x, <2>1 DEF SecondExpiring, TypeOK
  <2>3. second[r] # s
    BY <2>1, <2>2, ExpiringEnds
  <2> QED
    BY <1>x, <2>3 DEF SecondExpiring, TypeOK
<1>1. CASE Tick
  <2>1. seconds'[s] = seconds[s] /\ UNCHANGED <<pc, second>>
    BY <1>1 DEF Tick, Absent
  <2> QED
    BY <1>w, <2>1
<1>2. ASSUME NEW r \in Request, NameSecond(r) PROVE Witnessed
  BY <1>2, <1>k DEF NameSecond, TypeOK
<1>3. ASSUME NEW r \in Request, CountCall(r) PROVE Witnessed
  BY <1>3, <1>c DEF CountCall
<1>4. ASSUME NEW r \in Request, ExpireSecond(r) PROVE Witnessed
  BY <1>4, <1>x, <1>k DEF ExpireSecond, TypeOK
<1>5. ASSUME NEW r \in Request, Nap(r) PROVE Witnessed
  BY <1>5, <1>k DEF Nap, TypeOK
<1>6. ASSUME NEW r \in Request, QuotaFails(r) PROVE Witnessed
  <2>1. pc' = [pc EXCEPT ![r] = "callFailed"] /\ UNCHANGED second
    BY <1>6 DEF QuotaFails
  <2>2. CASE UNCHANGED <<seconds, inSecond>>
    BY <1>k, <2>1, <2>2 DEF TypeOK
  <2>3. CASE pc[r] = "countCall" /\ CountedInSecond(r)
    BY <1>c, <2>1, <2>3
  <2>4. CASE pc[r] = "expireSecond" /\ SecondExpiring(r) /\ UNCHANGED inSecond
    BY <1>k, <1>x, <2>1, <2>4 DEF TypeOK
  <2> QED
    BY <1>6, <2>2, <2>3, <2>4 DEF QuotaFails
<1>7. ASSUME NEW r \in Request,
             NameHour(r) \/ CountQuery(r) \/ ExpireHour(r) \/ AskTtl(r) \/ LimiterFails(r)
      PROVE  Witnessed
  <2>1. /\ pc[r] \in InLimiter \cup {"free"} /\ UNCHANGED <<seconds, second>>
        /\ \E place : pc' = [pc EXCEPT ![r] = place]
    BY <1>7 DEF NameHour, CountQuery, ExpireHour, AskTtl, LimiterFails
  <2> QED
    BY <1>k, <2>1 DEF TypeOK
<1>8. CASE UNCHANGED vars
  BY <1>8, <1>w DEF vars
<1> QED
  BY <1>1, <1>2, <1>3, <1>4, <1>5, <1>6, <1>7, <1>8 DEF Next, Step

(* A counter that would stay in Redis for good is about to get its expiry, *)
(* or its maker failed on the way to that.                                 *)
THEOREM ExpirySafety == Spec => []CountersExpire
<1>1. Init => HoursExpire /\ SecondsExpire
  BY DEF Init, HoursExpire, SecondsExpire, Absent
<1>2. TypeOK /\ HoursExpire /\ SecondsExpire => CountersExpire
  BY DEF HoursExpire, SecondsExpire, CountersExpire
<1> QED
  BY <1>1, <1>2, TypeInit, TypeStep, HoursExpireStep, SecondsExpireStep, PTL DEF Spec

-----------------------------------------------------------------------------
(* The queries that have a number in an hour, of which its counter never   *)
(* shows more, because each counts itself once.                            *)
Counted(h) == {q \in Request : count[q] > 0 /\ hour[q] = h}

Refused == {"askTtl", "limited"}

RefusalInv ==
    /\ \A h \in Hour : hours[h].n <= Cardinality(Counted(h))
    /\ \A r \in Request : pc[r] \in Refused =>
           Cardinality(Counted(hour[r]) \ {r}) >= HourLimit

LEMMA RequestsFinite ==
  ASSUME NEW Q \in SUBSET Request
  PROVE  /\ IsFiniteSet(Q) /\ Cardinality(Q) \in Nat
         /\ \A P \in SUBSET Q : Cardinality(P) <= Cardinality(Q)
         /\ \A r \in Request \ Q : Cardinality(Q \cup {r}) = Cardinality(Q) + 1
<1>1. IsFiniteSet(Q)
  BY RequestsAssumption, FS_Subset
<1> QED
  BY <1>1, FS_Subset, FS_AddElement, FS_CardinalityType

(* A step after which as many are counted, and no other is refused.        *)
LEMMA RefusalKept ==
  ASSUME TypeOK, TypeOK', RefusalInv,
         \A q \in Request : pc[q] # "free" => count'[q] >= count[q] /\ hour'[q] = hour[q],
         \A q \in Request : pc[q] = "free" => count[q] = 0,
         \A h \in Hour : hours'[h].n <= hours[h].n,
         \A q \in Request : pc'[q] \in Refused => pc[q] \in Refused
  PROVE  RefusalInv'
<1> USE RequestsAssumption DEF TypeOK
<1>1. \A h \in Hour : Counted(h) \subseteq Counted(h)'
  BY DEF Counted
<1>2. \A h : Counted(h) \in SUBSET Request /\ Counted(h)' \in SUBSET Request
  BY DEF Counted
<1>3. ASSUME NEW h \in Hour PROVE hours'[h].n <= Cardinality(Counted(h)')
  <2>1. Cardinality(Counted(h)) <= Cardinality(Counted(h)')
    BY <1>1, <1>2, RequestsFinite
  <2>2. Cardinality(Counted(h)) \in Nat /\ Cardinality(Counted(h)') \in Nat
    BY <1>2, RequestsFinite
  <2>3. hours[h].n <= Cardinality(Counted(h)) /\ hours'[h].n <= hours[h].n
    BY DEF RefusalInv
  <2>4. hours[h].n \in Nat /\ hours'[h].n \in Nat
    OBVIOUS
  <2> QED
    BY ONLY <2>1, <2>2, <2>3, <2>4
<1>4. ASSUME NEW r \in Request, pc'[r] \in Refused, NEW h \in Hour, h = hour'[r]
      PROVE  Cardinality(Counted(h)' \ {r}) >= HourLimit
  <2>1. pc[r] \in Refused /\ hour[r] = h
    BY <1>4 DEF Refused
  <2>2. Counted(h) \ {r} \subseteq Counted(h)' \ {r} /\ Counted(h)' \ {r} \in SUBSET Request
    BY <1>1, <1>2
  <2>3. /\ Cardinality(Counted(h) \ {r}) <= Cardinality(Counted(h)' \ {r})
        /\ Cardinality(Counted(h) \ {r}) \in Nat
        /\ Cardinality(Counted(h)' \ {r}) \in Nat
    BY <2>2, RequestsFinite
  <2>4. Cardinality(Counted(h) \ {r}) >= HourLimit
    BY <2>1 DEF RefusalInv
  <2> QED
    BY ONLY <2>3, <2>4, RequestsAssumption
<1>5. \A r \in Request : pc'[r] \in Refused => hour'[r] \in Hour
  BY DEF Refused
<1> QED
  BY <1>3, <1>4, <1>5 DEF RefusalInv

(* A query that counts itself, and is refused when the others are at the   *)
(* limit.                                                                  *)
LEMMA RefusalCounts ==
  ASSUME TypeOK, TypeOK', QueryInv, RefusalInv, NEW r \in Request, pc[r] = "countQuery",
         CountedInHour(r), UNCHANGED hour, \A q \in Request \ {r} : pc'[q] = pc[q],
         pc'[r] \in Refused => count'[r] > HourLimit
  PROVE  RefusalInv'
<1> DEFINE k == hour[r]
<1>1. /\ k \in Hour /\ hours[k].n \in Nat /\ count[r] = 0
      /\ count'[r] = hours[k].n + 1
      /\ \A q \in Request \ {r} : count'[q] = count[q]
      /\ \A h \in Hour : hours'[h].n = IF h = k THEN hours[h].n + 1 ELSE hours[h].n
  BY DEF QueryInv, CountedInHour, Incremented, TypeOK
<1>2. /\ Counted(k)' = Counted(k) \cup {r} /\ r \notin Counted(k)
      /\ \A h \in Hour \ {k} : Counted(h)' = Counted(h) /\ r \notin Counted(h)
      /\ \A h : Counted(h) \in SUBSET Request
  BY <1>1 DEF Counted
<1>3. \A h \in Hour : Cardinality(Counted(h)) \in Nat /\ hours[h].n <= Cardinality(Counted(h))
  BY <1>2, RequestsFinite DEF RefusalInv
<1>4. ASSUME NEW h \in Hour PROVE hours'[h].n <= Cardinality(Counted(h)')
  <2>1. CASE h = k
    <3>1. Cardinality(Counted(k)') = Cardinality(Counted(k)) + 1
      BY <1>2, RequestsFinite
    <3> QED
      BY <1>1, <1>3, <2>1, <3>1
  <2>2. CASE h # k
    BY <1>1, <1>2, <1>3, <2>2
  <2> QED
    BY <2>1, <2>2
<1>5. ASSUME NEW q \in Request, pc'[q] \in Refused, NEW h \in Hour, h = hour[q]
      PROVE  Cardinality(Counted(h)' \ {q}) >= HourLimit
  <2>1. CASE q = r
    <3>1. h = k /\ Counted(h)' \ {q} = Counted(k)
      BY <1>2, <1>5, <2>1
    <3>2. hours[k].n >= HourLimit
      BY <1>1, <1>5, <2>1, RequestsAssumption
    <3>3. Cardinality(Counted(k)) >= HourLimit
      BY <1>1, <1>3, <3>2, RequestsAssumption
    <3> QED
      BY ONLY <3>1, <3>3
  <2>2. CASE q # r
    <3>1. pc[q] \in Refused
      BY <1>5, <2>2
    <3>2. Counted(h) \ {q} \subseteq Counted(h)' \ {q} /\ Counted(h)' \ {q} \in SUBSET Request
      BY <1>2 DEF Counted
    <3>3. /\ Cardinality(Counted(h) \ {q}) <= Cardinality(Counted(h)' \ {q})
          /\ Cardinality(Counted(h) \ {q}) \in Nat
          /\ Cardinality(Counted(h)' \ {q}) \in Nat
      BY <3>2, RequestsFinite
    <3>4. Cardinality(Counted(h) \ {q}) >= HourLimit
      BY <1>5, <3>1 DEF RefusalInv
    <3> QED
      BY ONLY <3>3, <3>4, RequestsAssumption
  <2> QED
    BY <2>1, <2>2
<1>6. \A q \in Request : pc'[q] \in Refused => hour'[q] \in Hour /\ hour'[q] = hour[q]
  BY DEF Refused, TypeOK
<1> QED
  BY <1>4, <1>5, <1>6 DEF RefusalInv

LEMMA RefusalStep == TypeOK /\ TypeOK' /\ QueryInv /\ RefusalInv /\ [Next]_vars => RefusalInv'
<1> SUFFICES ASSUME TypeOK, TypeOK', QueryInv, RefusalInv, [Next]_vars PROVE RefusalInv'
  OBVIOUS
<1> USE DEF TypeOK
<1>0. /\ \A q \in Request : pc[q] = "free" => count[q] = 0
      /\ \A q \in Request : count[q] \in Nat
      /\ \A h \in Hour : hours[h].n \in Nat
  BY DEF QueryInv
<1>a. ASSUME NEW r \in Request, NEW place, pc' = [pc EXCEPT ![r] = place],
             place \in Refused => pc[r] \in Refused,
             UNCHANGED <<hour, count>>, \A h \in Hour : hours'[h].n <= hours[h].n
      PROVE  RefusalInv'
  <2>1. \A q \in Request : pc'[q] \in Refused => pc[q] \in Refused
    BY <1>a
  <2>2. \A q \in Request : count'[q] >= count[q] /\ hour'[q] = hour[q]
    BY <1>0, <1>a
  <2> QED
    BY <1>0, <1>a, <2>1, <2>2, RefusalKept
<1>x. ASSUME NEW r \in Request, pc[r] = "expireHour", HourExpiring(r)
      PROVE  \A h \in Hour : hours'[h].n <= hours[h].n
  BY <1>x DEF HourExpiring, Expiring
<1>1. CASE Tick
  <2>1. UNCHANGED <<pc, hour, count>> /\ \A h \in Hour : hours'[h].n <= hours[h].n
    BY <1>0, <1>1 DEF Tick, Absent
  <2>2. \A q \in Request : count'[q] >= count[q] /\ hour'[q] = hour[q]
    BY <1>0, <2>1
  <2> QED
    BY <1>0, <2>1, <2>2, RefusalKept
<1>2. ASSUME NEW r \in Request, NameHour(r) PROVE RefusalInv'
  <2>1. /\ pc' = [pc EXCEPT ![r] = "countQuery"] /\ pc[r] = "free"
        /\ UNCHANGED <<hours, count>>
        /\ \A q \in Request : pc[q] # "free" => hour'[q] = hour[q]
    BY <1>2 DEF NameHour
  <2>2. \A q \in Request : pc'[q] \in Refused => pc[q] \in Refused
    BY <2>1 DEF Refused
  <2>3. /\ \A q \in Request : count'[q] >= count[q]
        /\ \A h \in Hour : hours'[h].n <= hours[h].n
    BY <1>0, <2>1
  <2> QED
    BY <1>0, <2>1, <2>2, <2>3, RefusalKept
<1>3. ASSUME NEW r \in Request, CountQuery(r) PROVE RefusalInv'
  <2>1. /\ pc[r] = "countQuery" /\ CountedInHour(r) /\ UNCHANGED hour
        /\ \A q \in Request \ {r} : pc'[q] = pc[q]
    BY <1>3 DEF CountQuery
  <2>2. pc'[r] \in Refused => count'[r] > HourLimit
    BY <1>3 DEF CountQuery, Judged, Refused
  <2> QED
    BY <2>1, <2>2, RefusalCounts
<1>4. ASSUME NEW r \in Request, ExpireHour(r) PROVE RefusalInv'
  <2>1. pc[r] = "expireHour" /\ HourExpiring(r) /\ count[r] = 1 /\ UNCHANGED <<hour, count>>
    BY <1>4 DEF ExpireHour, QueryInv
  <2>2. Judged(count[r]) = "nameSecond" /\ "nameSecond" \notin Refused
    BY ONLY <2>1, RequestsAssumption DEF Judged, Refused
  <2>3. pc' = [pc EXCEPT ![r] = "nameSecond"]
    BY <1>4, <2>2 DEF ExpireHour
  <2> QED
    BY <1>a, <1>x, <2>1, <2>2, <2>3
<1>5. ASSUME NEW r \in Request, AskTtl(r) PROVE RefusalInv'
  <2>1. \A h \in Hour : hours'[h].n <= hours[h].n
    BY <1>0, <1>5 DEF AskTtl
  <2> QED
    BY <1>5, <1>a, <2>1 DEF AskTtl, Refused
<1>6. ASSUME NEW r \in Request, LimiterFails(r) PROVE RefusalInv'
  <2>1. /\ pc' = [pc EXCEPT ![r] = "failed"] /\ UNCHANGED hour /\ "failed" \notin Refused
    BY <1>6 DEF LimiterFails, Refused
  <2>2. CASE UNCHANGED <<hours, inHour, count>>
    <3>1. \A h \in Hour : hours'[h].n <= hours[h].n
      BY <1>0, <2>2
    <3> QED
      BY <1>a, <2>1, <2>2, <3>1
  <2>3. CASE pc[r] = "countQuery" /\ CountedInHour(r)
    BY <2>1, <2>3, RefusalCounts
  <2>4. CASE pc[r] = "expireHour" /\ HourExpiring(r) /\ UNCHANGED <<inHour, count>>
    BY <1>a, <1>x, <2>1, <2>4
  <2> QED
    BY <1>6, <2>2, <2>3, <2>4 DEF LimiterFails
<1>7. ASSUME NEW r \in Request,
             NameSecond(r) \/ CountCall(r) \/ ExpireSecond(r) \/ Nap(r) \/ QuotaFails(r)
      PROVE  RefusalInv'
  <2>1. /\ UNCHANGED <<hours, hour, count>>
        /\ \E place : pc' = [pc EXCEPT ![r] = place] /\ place \notin Refused
    BY <1>7 DEF NameSecond, CountCall, ExpireSecond, Nap, QuotaFails, Refused
  <2>2. \A h \in Hour : hours'[h].n <= hours[h].n
    BY <1>0, <2>1
  <2> QED
    BY <1>a, <2>1, <2>2
<1>8. CASE UNCHANGED vars
  <2>1. UNCHANGED <<pc, hours, hour, count>>
    BY <1>8 DEF vars
  <2>2. /\ \A q \in Request : count'[q] >= count[q]
        /\ \A h \in Hour : hours'[h].n <= hours[h].n
    BY <1>0, <2>1
  <2> QED
    BY <1>0, <2>1, <2>2, RefusalKept
<1> QED
  BY <1>1, <1>2, <1>3, <1>4, <1>5, <1>6, <1>7, <1>8 DEF Next, Step

(* No query is refused unless as many others as the limit allows have      *)
(* counted themselves in its hour.                                         *)
THEOREM RefusalSafety == Spec => []RefusedOnlyAtTheLimit
<1>1. Init => RefusalInv
  <2> SUFFICES ASSUME Init PROVE RefusalInv
    OBVIOUS
  <2>1. \A h \in Hour : hours[h].n = 0 /\ Counted(h) = {}
    BY DEF Init, Absent, Counted
  <2> QED
    BY <2>1, FS_EmptySet DEF Init, RefusalInv, Refused
<1>2. RefusalInv => RefusedOnlyAtTheLimit
  <2>1. \A r : Counted(hour[r]) \ {r} =
                   {q \in Request \ {r} : count[q] > 0 /\ hour[q] = hour[r]}
    BY DEF Counted
  <2> QED
    BY <2>1 DEF RefusalInv, RefusedOnlyAtTheLimit, Refused
<1>3. LimiterInv => QueryInv
  BY DEF LimiterInv
<1> QED
  BY <1>1, <1>2, <1>3, TypeInit, TypeStep, LimiterInit, LimiterStep, RefusalStep, PTL DEF Spec

-----------------------------------------------------------------------------
(* The calls that hold a unit of a second or lost it in a failure.  Polls  *)
(* count too, but not before the units are gone.                           *)
Holders(s) ==
    {q \in Request : pc[q] \in {"called", "expireSecond", "callFailed"} /\ second[q] = s}

WaitInv ==
    /\ \A s \in Time : \/ seconds[s].n <= Cardinality(Holders(s))
                       \/ SecondLimit <= Cardinality(Holders(s))
    /\ \A r \in Request : pc[r] = "nap" => Cardinality(Holders(second[r])) >= SecondLimit

(* A step by which no holder goes, no counter grows and nobody is made to  *)
(* wait.                                                                   *)
LEMMA WaitKept ==
  ASSUME TypeOK, TypeOK', WaitInv,
         \A s \in Time : Holders(s) \subseteq Holders(s)' /\ seconds'[s].n <= seconds[s].n,
         \A q \in Request : pc'[q] = "nap" => pc[q] = "nap" /\ second'[q] = second[q]
  PROVE  WaitInv'
<1> USE RequestsAssumption DEF TypeOK
<1>1. \A s : Holders(s) \in SUBSET Request /\ Holders(s)' \in SUBSET Request
  BY DEF Holders
<1>2. ASSUME NEW s \in Time
      PROVE  /\ Cardinality(Holders(s)) \in Nat /\ Cardinality(Holders(s)') \in Nat
             /\ Cardinality(Holders(s)) <= Cardinality(Holders(s)')
  BY <1>1, RequestsFinite
<1>3. ASSUME NEW s \in Time
      PROVE  \/ seconds'[s].n <= Cardinality(Holders(s)')
             \/ SecondLimit <= Cardinality(Holders(s)')
  <2>1. /\ seconds'[s].n \in Nat /\ seconds[s].n \in Nat /\ seconds'[s].n <= seconds[s].n
        /\ seconds[s].n <= Cardinality(Holders(s)) \/ SecondLimit <= Cardinality(Holders(s))
    BY DEF WaitInv
  <2> QED
    BY <1>2, <2>1
<1>4. ASSUME NEW r \in Request, pc'[r] = "nap", NEW s \in Time, s = second'[r]
      PROVE  Cardinality(Holders(s)') >= SecondLimit
  <2>1. pc[r] = "nap" /\ second[r] = s
    BY <1>4
  <2>2. Cardinality(Holders(s)) >= SecondLimit
    BY <2>1 DEF WaitInv
  <2> QED
    BY <1>2, <2>2
<1>5. \A r \in Request : pc'[r] = "nap" => second'[r] \in Time
  OBVIOUS
<1> QED
  BY <1>3, <1>4, <1>5 DEF WaitInv

(* A call that counts itself takes a unit, or finds them all taken.        *)
LEMMA WaitCounts ==
  ASSUME TypeOK, TypeOK', WaitInv, NEW r \in Request, pc[r] = "countCall",
         CountedInSecond(r), UNCHANGED second, \A q \in Request \ {r} : pc'[q] = pc[q],
         \/ pc'[r] \in {"called", "expireSecond", "callFailed"}
         \/ pc'[r] = "nap" /\ Units(r) > SecondLimit
  PROVE  WaitInv'
<1> DEFINE k == second[r]
<1>1. /\ k \in Time /\ Units(r) = seconds[k].n + 1
      /\ \A s \in Time : /\ seconds[s].n \in Nat
                         /\ seconds'[s].n = IF s = k THEN seconds[s].n + 1 ELSE seconds[s].n
  BY DEF CountedInSecond, Units, Incremented, TypeOK
<1>2. /\ r \notin Holders(k) /\ \A s \in Time \ {k} : Holders(s)' = Holders(s)
      /\ pc'[r] # "nap" => Holders(k)' = Holders(k) \cup {r}
      /\ pc'[r] = "nap" => Holders(k)' = Holders(k)
      /\ \A s : Holders(s) \in SUBSET Request
  BY DEF Holders
<1>3. \A s \in Time : /\ Cardinality(Holders(s)) \in Nat
                      /\ \/ seconds[s].n <= Cardinality(Holders(s))
                         \/ SecondLimit <= Cardinality(Holders(s))
  BY <1>2, RequestsFinite DEF WaitInv
<1>6. \A q \in Request : pc'[q] = "nap" => second'[q] \in Time /\ second'[q] = second[q]
  BY DEF TypeOK
<1>4. CASE pc'[r] # "nap"
  <2>1. Cardinality(Holders(k)') = Cardinality(Holders(k)) + 1
    BY <1>2, <1>4, RequestsFinite
  <2>2. ASSUME NEW s \in Time
        PROVE  \/ seconds'[s].n <= Cardinality(Holders(s)')
               \/ SecondLimit <= Cardinality(Holders(s)')
    <3>1. CASE s = k
      BY <1>1, <1>3, <2>1, <3>1, RequestsAssumption
    <3>2. CASE s # k
      BY <1>1, <1>2, <1>3, <3>2
    <3> QED
      BY <3>1, <3>2
  <2>3. ASSUME NEW q \in Request, pc'[q] = "nap", NEW s \in Time, s = second[q]
        PROVE  Cardinality(Holders(s)') >= SecondLimit
    <3>1. q # r /\ pc[q] = "nap"
      BY <1>4, <2>3
    <3>2. Cardinality(Holders(s)) >= SecondLimit
      BY <2>3, <3>1 DEF WaitInv
    <3> QED
      BY <1>2, <1>3, <2>1, <3>2, RequestsAssumption
  <2> QED
    BY <1>6, <2>2, <2>3 DEF WaitInv
<1>5. CASE pc'[r] = "nap"
  <2>1. Cardinality(Holders(k)) >= SecondLimit
    BY <1>1, <1>3, <1>5, RequestsAssumption
  <2>2. \A s \in Time : Holders(s)' = Holders(s)
    BY <1>2, <1>5
  <2>3. ASSUME NEW s \in Time
        PROVE  \/ seconds'[s].n <= Cardinality(Holders(s)')
               \/ SecondLimit <= Cardinality(Holders(s)')
    BY <1>1, <1>3, <2>1, <2>2
  <2>4. ASSUME NEW q \in Request, pc'[q] = "nap", NEW s \in Time, s = second[q]
        PROVE  Cardinality(Holders(s)') >= SecondLimit
    <3>1. CASE q = r
      BY <2>1, <2>2, <2>4, <3>1
    <3>2. CASE q # r
      BY <2>2, <2>4, <3>2 DEF WaitInv
    <3> QED
      BY <3>1, <3>2
  <2> QED
    BY <1>6, <2>3, <2>4 DEF WaitInv
<1> QED
  BY <1>4, <1>5

LEMMA WaitStep == TypeOK /\ TypeOK' /\ WaitInv /\ [Next]_vars => WaitInv'
<1> SUFFICES ASSUME TypeOK, TypeOK', WaitInv, [Next]_vars PROVE WaitInv'
  OBVIOUS
<1> USE DEF TypeOK
<1>0. \A s \in Time : seconds[s].n \in Nat /\ seconds[s].n <= seconds[s].n
  OBVIOUS
<1>a. ASSUME NEW r \in Request, NEW place, pc' = [pc EXCEPT ![r] = place], place # "nap",
             pc[r] \in {"called", "expireSecond", "callFailed"}
                 => place \in {"called", "expireSecond", "callFailed"} /\ second'[r] = second[r],
             \A q \in Request \ {r} : second'[q] = second[q],
             \A s \in Time : seconds'[s].n <= seconds[s].n
      PROVE  WaitInv'
  <2>1. \A s \in Time : Holders(s) \subseteq Holders(s)'
    BY <1>a DEF Holders
  <2>2. \A q \in Request : pc'[q] = "nap" => pc[q] = "nap" /\ second'[q] = second[q]
    BY <1>a
  <2> QED
    BY <1>a, <2>1, <2>2, WaitKept
<1>x. ASSUME NEW r \in Request, pc[r] = "expireSecond", SecondExpiring(r)
      PROVE  \A s \in Time : seconds'[s].n <= seconds[s].n
  BY <1>x DEF SecondExpiring, Expiring
<1>1. CASE Tick
  <2>1. UNCHANGED <<pc, second>> /\ \A s \in Time : seconds'[s].n <= seconds[s].n
    BY <1>0, <1>1 DEF Tick, Absent
  <2>2. \A s \in Time : Holders(s) \subseteq Holders(s)'
    BY <2>1 DEF Holders
  <2> QED
    BY <2>1, <2>2, WaitKept
<1>2. ASSUME NEW r \in Request,
             NameHour(r) \/ CountQuery(r) \/ ExpireHour(r) \/ AskTtl(r) \/ LimiterFails(r)
      PROVE  WaitInv'
  <2>1. /\ pc[r] \in InLimiter \cup {"free"} /\ UNCHANGED <<seconds, second>>
        /\ \E place : pc' = [pc EXCEPT ![r] = place] /\ place # "nap"
    BY <1>2 DEF NameHour, CountQuery, ExpireHour, AskTtl, LimiterFails, Judged
  <2> QED
    BY <1>0, <1>a, <2>1
<1>3. ASSUME NEW r \in Request, NameSecond(r) PROVE WaitInv'
  BY <1>0, <1>3, <1>a DEF NameSecond
<1>4. ASSUME NEW r \in Request, CountCall(r) PROVE WaitInv'
  <2>1. /\ pc[r] = "countCall" /\ CountedInSecond(r) /\ UNCHANGED second
        /\ \A q \in Request \ {r} : pc'[q] = pc[q]
    BY <1>4 DEF CountCall
  <2>2. Units(r) \in Nat
    BY <2>1 DEF Units
  <2>3. \/ pc'[r] \in {"called", "expireSecond", "callFailed"}
        \/ pc'[r] = "nap" /\ Units(r) > SecondLimit
    BY <1>4, <2>2, RequestsAssumption DEF CountCall, Granted
  <2> QED
    BY <2>1, <2>3, WaitCounts
<1>5. ASSUME NEW r \in Request, ExpireSecond(r) PROVE WaitInv'
  <2>0. Granted(1)
    BY RequestsAssumption DEF Granted
  <2>1. pc' = [pc EXCEPT ![r] = "called"]
    BY <1>5, <2>0 DEF ExpireSecond
  <2> QED
    BY <1>5, <1>a, <1>x, <2>1 DEF ExpireSecond
<1>6. ASSUME NEW r \in Request, Nap(r) PROVE WaitInv'
  BY <1>0, <1>6, <1>a DEF Nap
<1>7. ASSUME NEW r \in Request, QuotaFails(r) PROVE WaitInv'
  <2>1. pc' = [pc EXCEPT ![r] = "callFailed"] /\ UNCHANGED second
    BY <1>7 DEF QuotaFails
  <2>2. CASE UNCHANGED <<seconds, inSecond>>
    BY <1>0, <1>a, <2>1, <2>2
  <2>3. CASE pc[r] = "countCall" /\ CountedInSecond(r)
    BY <2>1, <2>3, WaitCounts
  <2>4. CASE pc[r] = "expireSecond" /\ SecondExpiring(r) /\ UNCHANGED inSecond
    BY <1>a, <1>x, <2>1, <2>4
  <2> QED
    BY <1>7, <2>2, <2>3, <2>4 DEF QuotaFails
<1>8. CASE UNCHANGED vars
  <2>1. \A s \in Time : Holders(s) \subseteq Holders(s)' /\ seconds'[s].n <= seconds[s].n
    BY <1>0, <1>8 DEF vars, Holders
  <2> QED
    BY <1>8, <2>1, WaitKept DEF vars
<1> QED
  BY <1>1, <1>2, <1>3, <1>4, <1>5, <1>6, <1>7, <1>8 DEF Next, Step

(* A call waits only in a second whose units have all gone to others.      *)
THEOREM WaitSafety == Spec => []WaitsOnlyForOthers
<1>1. Init => WaitInv
  <2> SUFFICES ASSUME Init PROVE WaitInv
    OBVIOUS
  <2>1. \A s \in Time : seconds[s].n = 0 /\ Holders(s) = {}
    BY DEF Init, Absent, Holders
  <2> QED
    BY <2>1, FS_EmptySet DEF Init, WaitInv
<1>2. WaitInv => WaitsOnlyForOthers
  <2> SUFFICES ASSUME WaitInv, NEW r \in Request, pc[r] = "nap"
               PROVE  Cardinality({q \in Request \ {r} :
                          pc[q] \in {"called", "expireSecond", "callFailed"}
                              /\ second[q] = second[r]}) >= SecondLimit
    BY DEF WaitsOnlyForOthers
  <2>1. Holders(second[r]) = {q \in Request \ {r} :
            pc[q] \in {"called", "expireSecond", "callFailed"} /\ second[q] = second[r]}
    BY DEF Holders
  <2> QED
    BY <2>1 DEF WaitInv
<1> QED
  BY <1>1, <1>2, TypeInit, TypeStep, WaitStep, PTL DEF Spec
=============================================================================
