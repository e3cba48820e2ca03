------------------------------ MODULE Calendar ------------------------------
(***************************************************************************)
(* Dates and times: compute_epoch() and compute_datetime_from_epoch() of   *)
(* kernel/time.c and the clock of user/date.c.                             *)
(*                                                                         *)
(* An epoch, seconds since 1970 in a uint64_t, is written as whole days    *)
(* and the seconds of the day, so that the year 2100, which is no leap     *)
(* year, is within reach of small numbers.                                 *)
(***************************************************************************)
EXTENDS Integers, FiniteSets

DAY                  == 86400
TIMEZONE_OFFSET_SECS == 2 * 3600
Years                == 1970 .. 2105       \* bound: the years looked at
month_days           == <<31, 28, 31, 30, 31, 30, 31, 31, 30, 31, 30, 31>>

\* The number days * 86400 + secs.
Epoch(days, secs) == [days |-> days + secs \div DAY, secs |-> secs % DAY]

\* Variant: the century rule is forgotten.
Leap_julian(y) == y % 4 = 0

Leap(y) == y % 4 = 0 /\ (y % 100 # 0 \/ y % 400 = 0)

DaysInYear(y) == IF Leap(y) THEN 366 ELSE 365

DaysInMonth(y, m) == month_days[m] + (IF m = 2 /\ Leap(y) THEN 1 ELSE 0)

\* The two loops over years and months, as sums.
DaysBeforeYear[y \in Years] ==
    IF y = 1970 THEN 0 ELSE DaysBeforeYear[y - 1] + DaysInYear(y - 1)

DaysBeforeMonth(y, m) ==
    LET before[k \in 1..12] == IF k = 1 THEN 0 ELSE before[k - 1] + DaysInMonth(y, k - 1)
    IN  before[m]

compute_epoch(dt) ==
    Epoch(DaysBeforeYear[dt.year] + DaysBeforeMonth(dt.year, dt.month) + dt.day - 1,
          dt.hour * 3600 + dt.minute * 60 + dt.second)

\* The first loop of compute_datetime_from_epoch: years are taken off while they fit.
YearOf(days) ==
    LET from[y \in Years] ==
            IF days - DaysBeforeYear[y] < DaysInYear(y) THEN y ELSE from[y + 1]
    IN  from[1970]

\* The second loop: months are taken off the rest.
MonthOf(y, rest) ==
    LET from[m \in 1..12] ==
            IF rest - DaysBeforeMonth(y, m) < DaysInMonth(y, m) THEN m ELSE from[m + 1]
    IN  from[1]

\* 1970-01-01 was a Thursday (4).
compute_datetime_from_epoch(epoch) ==
    LET local == Epoch(epoch.days, epoch.secs + TIMEZONE_OFFSET_SECS)
        year  == YearOf(local.days)
        rest  == local.days - DaysBeforeYear[year]
        month == MonthOf(year, rest)
    IN  [year    |-> year,
         month   |-> month,
         day     |-> rest - DaysBeforeMonth(year, month) + 1,
         hour    |-> (local.secs \div 3600) % 24,
         minute  |-> (local.secs \div 60) % 60,
         second  |-> local.secs % 60,
         weekday |-> (local.days + 4) % 7]

\* Ticks since the boot, in seconds, on top of the time of the build.
compute_datetime(build, seconds_since_boot) ==
    LET base == compute_epoch(build)
    IN  compute_datetime_from_epoch(Epoch(base.days, base.secs + seconds_since_boot))

\* The hour date prints, with AM or PM.
Clock(hour) ==
    [hour |-> IF hour > 12 THEN hour - 12 ELSE IF hour = 0 THEN 12 ELSE hour,
     pm   |-> hour >= 12]

-----------------------------------------------------------------------------
(* Reference: the Gregorian calendar, told from one day to the next.        *)

Feb29(y) == y % 400 = 0 \/ (y % 4 = 0 /\ ~ y % 100 = 0)

LastDay(y, m) ==
    IF m = 2 THEN IF Feb29(y) THEN 29 ELSE 28
    ELSE IF m \in {4, 6, 9, 11} THEN 30 ELSE 31

Tomorrow(dt) ==
    LET next == [dt EXCEPT !.weekday = (@ + 1) % 7]
    IN  IF dt.day < LastDay(dt.year, dt.month) THEN [next EXCEPT !.day = @ + 1]
        ELSE IF dt.month < 12 THEN [next EXCEPT !.day = 1, !.month = @ + 1]
        ELSE [next EXCEPT !.day = 1, !.month = 1, !.year = @ + 1]

\* A moment on the first day, which was a Thursday.
FirstDay(secs) ==
    [year |-> 1970, month |-> 1, day |-> 1, hour |-> secs \div 3600,
     minute |-> (secs % 3600) \div 60, second |-> secs % 60, weekday |-> 4]
=============================================================================
