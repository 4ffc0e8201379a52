------------------------------ MODULE Requests ------------------------------
(***************************************************************************)
(* The two limits that API and worker processes share through Redis, as    *)
(* counters of fixed windows: queries of a user per hour                   *)
(* (app/cache/rate_limiter.py) and calls of Google per second              *)
(* (app/cache/google_quota.py).  The requests are those of one user, who   *)
(* has a counter of its own; each makes one call of Google once admitted.  *)
(* A request names its window, counts itself, and sets the expiry of a     *)
(* counter it has made: three steps, between which time passes, others     *)
(* count, and Redis or the process may fail.                               *)
(***************************************************************************)
EXTENDS Integers, FiniteSets

CONSTANTS Request,
          HourLimit,    \* rate_limit_per_user_per_hour
          SecondLimit,  \* google_api_units_per_second
          HourLength,   \* seconds of an hour
          MaxTime,      \* bound: seconds that pass
          MaxPolls,     \* bound: calls counted in a second
          MaxFaults     \* bound: calls of Redis that fail

ASSUME RequestsAssumption ==
    /\ IsFiniteSet(Request)
    /\ HourLimit \in Nat \ {0} /\ SecondLimit \in Nat \ {0}
    /\ HourLength \in Nat \ {0}
    /\ MaxTime \in Nat /\ MaxPolls \in Nat /\ MaxFaults \in Nat

Time == 0..MaxTime
HourOf(t) == t \div HourLength
Hour == 0..HourOf(MaxTime)

(* Redis: a counter has a value, 0 if there is none, and an expiry.        *)
Never == -1
Absent == [n |-> 0, until |-> Never]

VARIABLES
    now, faults,
    hours,     \* hour -> the counter of its queries
    seconds,   \* second -> the counter of its calls
    pc,        \* request -> where it stands
    hour,      \* request -> the hour it has named
    second,    \* request -> the second it has named last
    inHour,    \* the requests that counted themselves before their hour
               \* was over
    inSecond,  \* the same, of the second in which they did so last
    count,     \* request -> its number in the hour, 0 before it has one
    retryAt    \* request -> when its 429 lets it try again, if it knows

counters == <<hours, seconds>>
locals == <<hour, second, inHour, inSecond, count, retryAt>>
vars == <<now, faults, counters, pc, locals>>

NotYet == -1

Init ==
    /\ now = 0 /\ faults = 0
    /\ hours = [h \in Hour |-> Absent]
    /\ seconds = [s \in Time |-> Absent]
    /\ pc = [r \in Request |-> "free"]
    /\ hour = [r \in Request |-> NotYet]
    /\ second = [r \in Request |-> NotYet]
    /\ inHour = {} /\ inSecond = {}
    /\ count = [r \in Request |-> 0]
    /\ retryAt = [r \in Request |-> NotYet]

GoTo(r, place) == pc' = [pc EXCEPT ![r] = place]

Fault == faults < MaxFaults /\ faults' = faults + 1

Incremented(c) == [c EXCEPT !.n = @ + 1]

(* EXPIRE, of a key that INCR has just made.                               *)
Expiring(c, ttl) == IF c = Absent THEN c ELSE [c EXCEPT !.until = now + ttl]

Remaining(c) == IF c = Absent THEN -2 ELSE IF c.until = Never THEN -1 ELSE c.until - now

(* A second passes, and Redis drops what expires.                          *)
Tick ==
    /\ now < MaxTime
    /\ now' = now + 1
    /\ hours' = [h \in Hour |-> IF hours[h].until = now + 1 THEN Absent ELSE hours[h]]
    /\ seconds' = [s \in Time |-> IF seconds[s].until = now + 1 THEN Absent ELSE seconds[s]]
    /\ UNCHANGED <<faults, pc, locals>>

-----------------------------------------------------------------------------
(* check_and_increment                                                     *)

(* Mutant: the hour is not named before the query counts itself.           *)
NameHourLater(r) ==
    /\ pc[r] = "free"
    /\ GoTo(r, "countQuery")
    /\ UNCHANGED <<now, faults, counters, locals>>

NameHour(r) ==
    /\ pc[r] = "free"
    /\ hour' = [hour EXCEPT ![r] = HourOf(now)]
    /\ GoTo(r, "countQuery")
    /\ UNCHANGED <<now, faults, counters, second, inHour, inSecond, count, retryAt>>

(* Mutant: the query that exceeds the limit is let in.                     *)
JudgedLate(n) == IF n > HourLimit + 1 THEN "askTtl" ELSE "nameSecond"

(* Mutant: the query that reaches the limit is refused.                    *)
JudgedEarly(n) == IF n >= HourLimit THEN "askTtl" ELSE "nameSecond"

Judged(n) == IF n > HourLimit THEN "askTtl" ELSE "nameSecond"

CountedInHour(r) ==
    /\ hours' = [hours EXCEPT ![hour[r]] = Incremented(@)]
    /\ count' = [count EXCEPT ![r] = hours[hour[r]].n + 1]
    /\ inHour' = IF hour[r] = HourOf(now) THEN inHour \cup {r} ELSE inHour

(* Mutant: an expiry is set by a query that finds a counter.               *)
CountQueryExpiringOthers(r) ==
    /\ pc[r] = "countQuery"
    /\ CountedInHour(r)
    /\ GoTo(r, IF count'[r] # 1 THEN "expireHour" ELSE Judged(count'[r]))
    /\ UNCHANGED <<now, faults, seconds, hour, second, inSecond, retryAt>>

CountQuery(r) ==
    /\ pc[r] = "countQuery"
    /\ CountedInHour(r)
    /\ GoTo(r, IF count'[r] = 1 THEN "expireHour" ELSE Judged(count'[r]))
    /\ UNCHANGED <<now, faults, seconds, hour, second, inSecond, retryAt>>

(* Mutant: an expiry that is shorter than the window.                      *)
HourExpiringEarly(r) == hours' = [hours EXCEPT ![hour[r]] = Expiring(@, HourLength - 1)]

HourExpiring(r) == hours' = [hours EXCEPT ![hour[r]] = Expiring(@, HourLength)]

ExpireHour(r) ==
    /\ pc[r] = "expireHour"
    /\ HourExpiring(r)
    /\ GoTo(r, Judged(count[r]))
    /\ UNCHANGED <<now, faults, seconds, locals>>

(* The query is refused with a Retry-After: one second when the counter    *)
(* has no expiry or has expired since.                                     *)
AskTtl(r) ==
    /\ pc[r] = "askTtl"
    /\ LET ttl == Remaining(hours[hour[r]])
       IN  retryAt' = [retryAt EXCEPT ![r] = IF ttl = -1 THEN NotYet
                                             ELSE now + (IF ttl > 1 THEN ttl ELSE 1)]
    /\ GoTo(r, "limited")
    /\ UNCHANGED <<now, faults, counters, hour, second, inHour, inSecond, count>>

(* A call of Redis fails, before or after its effect, or the process dies. *)
LimiterFails(r) ==
    /\ pc[r] \in {"countQuery", "expireHour", "askTtl"}
    /\ Fault
    /\ \/ UNCHANGED <<hours, inHour, count>>
       \/ pc[r] = "countQuery" /\ CountedInHour(r)
       \/ pc[r] = "expireHour" /\ HourExpiring(r) /\ UNCHANGED <<inHour, count>>
    /\ GoTo(r, "failed")
    /\ UNCHANGED <<now, seconds, hour, second, inSecond, retryAt>>

-----------------------------------------------------------------------------
(* acquire_google_quota, of one unit                                       *)

NameSecond(r) ==
    /\ pc[r] = "nameSecond"
    /\ second' = [second EXCEPT ![r] = now]
    /\ GoTo(r, "countCall")
    /\ UNCHANGED <<now, faults, counters, hour, inHour, inSecond, count, retryAt>>

Units(r) == seconds[second[r]].n + 1

CountedInSecond(r) ==
    /\ Units(r) <= MaxPolls
    /\ seconds' = [seconds EXCEPT ![second[r]] = Incremented(@)]
    /\ inSecond' = IF second[r] = now THEN inSecond \cup {r} ELSE inSecond \ {r}

(* Mutant: a call beyond the limit is let through.                         *)
GrantedLate(n) == n <= SecondLimit + 1

(* Mutant: the last unit of a second is never given out.                   *)
GrantedEarly(n) == n < SecondLimit

Granted(n) == n <= SecondLimit

CountCall(r) ==
    /\ pc[r] = "countCall"
    /\ CountedInSecond(r)
    /\ GoTo(r, IF Units(r) = 1 THEN "expireSecond"
               ELSE IF Granted(Units(r)) THEN "called" ELSE "nap")
    /\ UNCHANGED <<now, faults, hours, hour, second, inHour, count, retryAt>>

SecondExpiring(r) == seconds' = [seconds EXCEPT ![second[r]] = Expiring(@, 2)]

ExpireSecond(r) ==
    /\ pc[r] = "expireSecond"
    /\ SecondExpiring(r)
    /\ GoTo(r, IF Granted(1) THEN "called" ELSE "nap")
    /\ UNCHANGED <<now, faults, hours, locals>>

(* asyncio.sleep is shorter than a second: time need not pass.             *)
Nap(r) ==
    /\ pc[r] = "nap"
    /\ GoTo(r, "nameSecond")
    /\ UNCHANGED <<now, faults, counters, locals>>

QuotaFails(r) ==
    /\ pc[r] \in {"countCall", "expireSecond"}
    /\ Fault
    /\ \/ UNCHANGED <<seconds, inSecond>>
       \/ pc[r] = "countCall" /\ CountedInSecond(r)
       \/ pc[r] = "expireSecond" /\ SecondExpiring(r) /\ UNCHANGED inSecond
    /\ GoTo(r, "callFailed")
    /\ UNCHANGED <<now, hours, hour, second, inHour, count, retryAt>>

-----------------------------------------------------------------------------
Step(r) == \/ NameHour(r) \/ CountQuery(r) \/ ExpireHour(r) \/ AskTtl(r)
           \/ LimiterFails(r)
           \/ NameSecond(r) \/ CountCall(r) \/ ExpireSecond(r) \/ Nap(r)
           \/ QuotaFails(r)

Next == Tick \/ \E r \in Request : Step(r)

Spec == Init /\ [][Next]_vars

-----------------------------------------------------------------------------
InLimiter == {"countQuery", "expireHour", "askTtl"}
InQuota == {"nameSecond", "countCall", "expireSecond", "nap"}
Ended == {"limited", "failed", "called", "callFailed"}

Counter == [n : Nat, until : Nat \cup {Never}]

TypeOK ==
    /\ now \in Time /\ faults \in 0..MaxFaults
    /\ hours \in [Hour -> Counter] /\ seconds \in [Time -> Counter]
    /\ pc \in [Request -> {"free"} \cup InLimiter \cup InQuota \cup Ended]
    /\ hour \in [Request -> Hour \cup {NotYet}]
    /\ second \in [Request -> Time \cup {NotYet}]
    /\ inHour \subseteq Request /\ inSecond \subseteq Request
    /\ count \in [Request -> Nat]
    /\ retryAt \in [Request -> Nat \cup {NotYet}]
    /\ \A r \in Request : /\ pc[r] # "free" => hour[r] \in Hour
                          /\ pc[r] \in {"countCall", "expireSecond", "nap"} => second[r] \in Time

Admitted(r) == pc[r] \in InQuota \cup {"called", "callFailed"}

(* In no hour are more queries of a user admitted than the limit, whatever *)
(* the order in which they count themselves and set the expiry, which must *)
(* not end before the hour does.  A query that names an hour and counts    *)
(* itself after its end is not meant: the counter may be gone by then      *)
(* (rate_limiter.py:18-25).                                                *)
AdmittedPerHour ==
    \A h \in Hour :
        Cardinality({r \in inHour : Admitted(r) /\ hour[r] = h}) <= HourLimit

(* No query is refused below the limit: as many others as the limit allows *)
(* have been counted in its hour (rate_limiter.py:20-25).                  *)
RefusedOnlyAtTheLimit ==
    \A r \in Request : pc[r] \in {"askTtl", "limited"} =>
        Cardinality({q \in Request \ {r} : count[q] > 0 /\ hour[q] = hour[r]}) >= HourLimit

(* A Retry-After that was read off an expiry leads out of the hour that is *)
(* used up, to the second, to which Redis rounds (rate_limiter.py:22-25).  *)
RetryAfterLeavesTheHour ==
    \A r \in Request : retryAt[r] # NotYet => HourOf(retryAt[r]) > hour[r]

(* A counter without an expiry, which stays in Redis for good, is about to *)
(* get one or is the work of a request that failed on the way              *)
(* (rate_limiter.py:20-22, google_quota.py:23-25).                         *)
CountersExpire ==
    /\ \A h \in Hour : hours[h].n > 0 /\ hours[h].until = Never =>
           \E r \in Request : hour[r] = h /\ count[r] = 1 /\ pc[r] \in {"expireHour", "failed"}
    /\ \A s \in Time : seconds[s].n > 0 /\ seconds[s].until = Never =>
           \E r \in Request : second[r] = s /\ pc[r] \in {"expireSecond", "callFailed"}

(* Google is called no more often in a second than the quota allows, by    *)
(* calls that count themselves in it while it lasts                        *)
(* (google_quota.py:21-27).                                                *)
CallsPerSecond ==
    \A s \in Time :
        Cardinality({r \in inSecond : pc[r] = "called" /\ second[r] = s}) <= SecondLimit

(* The polling of calls that wait, although it counts, takes no unit away  *)
(* from anyone: a call is made to wait only in a second whose units have   *)
(* all gone to other calls (google_quota.py:20-28).                        *)
WaitsOnlyForOthers ==
    \A r \in Request : pc[r] = "nap" =>
        Cardinality({q \in Request \ {r} :
            pc[q] \in {"called", "expireSecond", "callFailed"} /\ second[q] = second[r]})
                >= SecondLimit
=============================================================================
