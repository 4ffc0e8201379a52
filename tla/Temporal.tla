------------------------------ MODULE Temporal ------------------------------
(***************************************************************************)
(* The date phrases of a query (app/utils/temporal.py), resolved against   *)
(* the user's time zone into an interval of UTC.  Time is counted in       *)
(* hours, and days in the ordinals of Python's datetime.date.  "until" is  *)
(* the first hour that the interval excludes: the code's bound is the last *)
(* microsecond before it.                                                  *)
(***************************************************************************)
EXTENDS Integers, Sequences, FiniteSetsExt

(* A time zone is the sequence of its periods: the UTC hour from which one *)
(* holds, and how many hours ahead of UTC its clocks are.                  *)
Latest(zone, Holds(_)) == Max({1} \cup {i \in 2..Len(zone) : Holds(i)})

LocalHour(zone, now) == now + zone[Latest(zone, LAMBDA i : zone[i].from <= now)].ahead

(* The UTC hour at which clocks show wall.  An hour that they skip or show *)
(* twice is taken by the period before the change (fold = 0).              *)
Instant(zone, wall) ==
    LET Over(i) == zone[i].from + Max({zone[i - 1].ahead, zone[i].ahead}) <= wall
    IN  wall - zone[Latest(zone, Over)].ahead

(* datetime.date: the proleptic Gregorian calendar.                        *)
Leap(y) == y % 4 = 0 /\ (y % 100 # 0 \/ y % 400 = 0)

DaysBefore(y, month) ==
    <<0, 31, 59, 90, 120, 151, 181, 212, 243, 273, 304, 334>>[month]
        + (IF month > 2 /\ Leap(y) THEN 1 ELSE 0)

Ordinal(y, month) == 365 * (y - 1) + (y - 1) \div 4 - (y - 1) \div 100 + (y - 1) \div 400
                         + DaysBefore(y, month) + 1

YearOf(day)  == LET y == (400 * day) \div 146097
                IN  Max({n \in y .. y + 2 : Ordinal(n, 1) <= day})
MonthOf(day) == LET y == YearOf(day)
                IN  [year |-> y, month |-> Max({n \in 1..12 : Ordinal(y, n) <= day})]
Weekday(day) == (day + 6) % 7

Today(zone, now) == LocalHour(zone, now) \div 24

(* Mutant: a day has 24 hours.                                             *)
DayBoundsOf24Hours(zone, day) ==
    [since |-> Instant(zone, 24 * day), until |-> Instant(zone, 24 * day) + 24]

DayBounds(zone, day) ==
    [since |-> Instant(zone, 24 * day), until |-> Instant(zone, 24 * day + 23) + 1]

Days(zone, first, last) ==
    [since |-> DayBounds(zone, first).since, until |-> DayBounds(zone, last).until]

WeekBounds(zone, monday) == Days(zone, monday, monday + 6)

NextMonth(m) == IF m.month = 12 THEN [year |-> m.year + 1, month |-> 1]
                ELSE [m EXCEPT !.month = @ + 1]

LastMonth(m) == IF m.month = 1 THEN [year |-> m.year - 1, month |-> 12]
                ELSE [m EXCEPT !.month = @ - 1]

MonthBounds(zone, m) ==
    LET next == NextMonth(m)
    IN  Days(zone, Ordinal(m.year, m.month), Ordinal(next.year, next.month) - 1)

(* "monday" and "next monday" are one phrase: the first Monday after today *)
Weekdays == <<"monday", "tuesday", "wednesday", "thursday", "friday", "saturday", "sunday">>

DaysAhead(today, name) ==
    LET target == CHOOSE i \in 1..7 : Weekdays[i] = name
        ahead  == (target - 1 - Weekday(today)) % 7
    IN  IF ahead = 0 THEN 7 ELSE ahead

Monday(today) == today - Weekday(today)

(* resolve_date_phrase, for the phrases that it knows.                     *)
Resolve(zone, now, phrase) ==
    LET today == Today(zone, now)
        month == MonthOf(today)
    IN  CASE phrase = "this month" -> MonthBounds(zone, month)
          [] phrase = "last month" -> MonthBounds(zone, LastMonth(month))
          [] phrase = "next month" -> MonthBounds(zone, NextMonth(month))
          [] phrase = "today"      -> DayBounds(zone, today)
          [] phrase = "tomorrow"   -> DayBounds(zone, today + 1)
          [] phrase = "yesterday"  -> DayBounds(zone, today - 1)
          [] phrase = "this week"  -> WeekBounds(zone, Monday(today))
          [] phrase = "next week"  -> WeekBounds(zone, Monday(today) + 7)
          [] phrase = "last week"  -> WeekBounds(zone, Monday(today) - 7)
          [] \E i \in 1..7 : phrase = Weekdays[i] ->
                 DayBounds(zone, today + DaysAhead(today, phrase))

Within(hour, bounds) == bounds.since <= hour /\ hour < bounds.until
=============================================================================
