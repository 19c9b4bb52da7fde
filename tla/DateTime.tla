------------------------------ MODULE DateTime ------------------------------
(***************************************************************************)
(* common::DateTime, a Julian day and the milliseconds since midnight, its *)
(* arithmetic, and Now::unique.  C++ division truncates toward zero and    *)
(* the remainder has the sign of the dividend.  A duration is the tm that  *)
(* parse_duration fills.  "moved" keeps the step from which a value came.  *)
(***************************************************************************)
EXTENDS Integers, FiniteSetsExt

CONSTANTS
  Starts,       \* dates <<year, month, day>> to start from
  Clocks,       \* times of day <<hour, minute, second>>
  Seconds,      \* what operator+= is given
  Durations,    \* [year, mon, mday, hour, min, sec]
  Threads, Times, MaxStamps   \* for Now::unique: what gettimeofday may say

VARIABLES m_date, m_time, moved, read, last_unique, stamps

dtVars == <<m_date, m_time, moved, read, last_unique, stamps>>

MILLIS_PER_DAY == 86400000
SECONDS_PER_DAY == 86400
JULIAN_19700101 == 2440588

Quot(a, b) == IF a >= 0 THEN a \div b ELSE -((-a) \div b)
Rem(a, b) == a - b * Quot(a, b)

make_hms(c) == 1000 * ((3600 * c[1]) + (60 * c[2]) + c[3])
get_hms(t) == LET ticks == Quot(t, 1000) IN <<Quot(ticks, 3600), Rem(Quot(ticks, 60), 60), Rem(ticks, 60)>>

julian_date_NoCentury(y0, month, day) ==
  LET a == Quot(14 - month, 12)
      y == y0 + 4800 - a
      m == month + (12 * a) - 3
  IN  day + Quot((153 * m) + 2, 5) + (y * 365) + Quot(y, 4) - 32083

julian_date(y0, month, day) ==
  LET a == Quot(14 - month, 12)
      y == y0 + 4800 - a
      m == month + (12 * a) - 3
  IN  day + Quot((153 * m) + 2, 5) + (y * 365) + Quot(y, 4) - Quot(y, 100) + Quot(y, 400) - 32045

get_ymd(jday) ==
  LET a == jday + 32044
      b == Quot((4 * a) + 3, 146097)
      c == a - Quot(b * 146097, 4)
      d == Quot((4 * c) + 3, 1461)
      e == c - Quot(1461 * d, 4)
      m == Quot((5 * e) + 2, 153)
  IN  <<(b * 100) + d - 4800 + Quot(m, 10), m + 3 - (12 * Quot(m, 10)), e - Quot((153 * m) + 2, 5) + 1>>

to_time_t(date, time) == (SECONDS_PER_DAY * (date - JULIAN_19700101)) + Quot(time, 1000)

\* gmtime_r's reading of a time_t.
from_time_t(t) == <<JULIAN_19700101 + (t \div SECONDS_PER_DAY), 1000 * (t % SECONDS_PER_DAY)>>

\* A whole day of milliseconds is not carried.
add_seconds(date, time, seconds) ==
  LET d == date + Quot(seconds, SECONDS_PER_DAY)
      t == time + (1000 * Rem(seconds, SECONDS_PER_DAY))
  IN  CASE t > MILLIS_PER_DAY -> <<d + 1, Rem(t, MILLIS_PER_DAY)>>
        [] t < 0 -> <<d - 1, t + MILLIS_PER_DAY>>
        [] OTHER -> <<d, t>>

max_day_in_month_for(yr, month) ==
  LET m == Rem(month - 1, 12) + 1
      y == yr + Quot(m - 1, 12)
  IN  CASE m \in {1, 3, 5, 7, 8, 10, 12} -> 31
        [] m \in {4, 6, 9, 11} -> 30
        [] m = 2 /\ (Rem(y, 400) = 0 \/ (Rem(y, 100) # 0 /\ Rem(y, 4) = 0)) -> 29
        [] OTHER -> 28

\* The loop that carries days into months.
RECURSIVE Carried(_, _, _)
Carried(y, month, day) ==
  LET over == day > max_day_in_month_for(y, month)
      tmp == IF over THEN month + 1 ELSE month - 1
      e_day == IF over THEN day - max_day_in_month_for(y, month) ELSE day + max_day_in_month_for(y, month - 1)
  IN  IF day >= 1 /\ ~over THEN <<y, month, day>>
      ELSE Carried(y + Quot(tmp - 1, 12), Rem(tmp - 1, 12) + 1, e_day)

add_duration_date_time(date, time, dur) ==
  LET s == get_ymd(date)
      h == get_hms(time)
      tmp_month == s[2] + dur.mon
      e_month == Rem(tmp_month - 1, 12) + 1
      e_year == s[1] + dur.year + Quot(tmp_month - 1, 12)
      sec == h[3] + dur.sec
      min == h[2] + dur.min + Quot(sec, 60)
      hour == h[1] + dur.hour + Quot(min, 60)
      max == max_day_in_month_for(e_year, e_month)
      tmp_day == IF s[3] > max THEN max ELSE IF s[3] < 1 THEN 1 ELSE s[3]
      e == Carried(e_year, e_month, tmp_day + dur.mday + Quot(hour, 24))
  IN  <<julian_date(e[1], e[2], e[3]), make_hms(<<Rem(hour, 24), Rem(min, 60), Rem(sec, 60)>>)>>

DInit ==
  /\ \E s \in Starts, c \in Clocks : m_date = julian_date(s[1], s[2], s[3]) /\ m_time = make_hms(c)
  /\ moved = <<"none">>
  /\ read = [t \in Threads |-> -1] /\ last_unique = 0 /\ stamps = {}

Moves(how, by, to) ==
  /\ moved[1] = "none"
  /\ m_date' = to[1] /\ m_time' = to[2] /\ moved' = <<how, by, m_date, m_time>>
  /\ UNCHANGED <<read, last_unique, stamps>>

AddSeconds == \E n \in Seconds : Moves("seconds", n, add_seconds(m_date, m_time, n))
AddDuration == \E d \in Durations : Moves("duration", d, add_duration_date_time(m_date, m_time, d))

\* Now::unique: the clock is read before the mutex is taken.
ReadClock(t) ==
  /\ read[t] = -1
  /\ \E now \in Times : read' = [read EXCEPT ![t] = now]
  /\ UNCHANGED <<m_date, m_time, moved, last_unique, stamps>>

unique_NotKept(t) ==
  /\ read[t] # -1 /\ Cardinality(stamps) < MaxStamps
  /\ LET stamp == IF read[t] > last_unique THEN read[t] ELSE last_unique + 1
     IN  /\ last_unique' = IF read[t] > last_unique THEN read[t] ELSE last_unique
         /\ stamps' = stamps \cup {<<stamp, t, Cardinality(stamps)>>}
  /\ read' = [read EXCEPT ![t] = -1]
  /\ UNCHANGED <<m_date, m_time, moved>>

unique(t) ==
  /\ read[t] # -1 /\ Cardinality(stamps) < MaxStamps
  /\ last_unique' = IF read[t] > last_unique THEN read[t] ELSE last_unique + 1
  /\ stamps' = stamps \cup {<<last_unique', t, Cardinality(stamps)>>}
  /\ read' = [read EXCEPT ![t] = -1]
  /\ UNCHANGED <<m_date, m_time, moved>>

Move == AddSeconds \/ AddDuration
Stamp == \E t \in Threads : ReadClock(t) \/ unique(t)
DNext == Move \/ Stamp
DSpec == DInit /\ [][DNext]_dtVars

-----------------------------------------------------------------------------
\* The calendar, counted: days before a year, before a month, in a month.
Leap(y) == (y % 4 = 0 /\ y % 100 # 0) \/ y % 400 = 0
Days(y, m) == CASE m = 2 -> IF Leap(y) THEN 29 ELSE 28 [] m \in {4, 6, 9, 11} -> 30 [] OTHER -> 31
DayNumber(y, m, d) ==
  (365 * (y - 1900)) + Cardinality({x \in 1900 .. (y - 1) : Leap(x)})
    + MapThenSumSet(LAMBDA x : Days(y, x), 1 .. (m - 1)) + d
\* The date a number of months later, the day cut to the month.
MonthsOn(s, n) ==
  LET k == (12 * s[1]) + s[2] - 1 + n
      y == k \div 12
      m == (k % 12) + 1
  IN  <<y, m, IF s[3] > Days(y, m) THEN Days(y, m) ELSE s[3]>>
\* Seconds since 1900 by the counted calendar, in days and seconds.
Instant(s, secs) == <<DayNumber(s[1], s[2], s[3]) + (secs \div SECONDS_PER_DAY), secs % SECONDS_PER_DAY>>
Now(date, time) == Instant(get_ymd(date), time \div 1000)

\* The days whose seconds are an int: 1970-01-01 to 2038-01-18.
IntDays == JULIAN_19700101 .. JULIAN_19700101 + 24854

(* Time arithmetic against a calendar counted day by day: operator+= moves
   the instant by its seconds, a duration first by its months (the day cut to
   the month's end) and then by its days, hours, minutes and seconds, over
   leap days, centuries and the turn of the year; a Julian day reads back, and
   so does a time_t while its seconds are an int. *)
MovesRight ==
  /\ LET s == get_ymd(m_date) IN julian_date(s[1], s[2], s[3]) = m_date /\ s[3] \in 1 .. Days(s[1], s[2])
  /\ m_date \in IntDays =>
       LET p == from_time_t(to_time_t(m_date, m_time)) IN Now(p[1], p[2]) = Now(m_date, m_time)
  /\ moved[1] = "seconds" =>
       Now(m_date, m_time) = Instant(get_ymd(moved[3]), (moved[4] \div 1000) + moved[2])
  /\ moved[1] = "duration" =>
       LET d == moved[2]
       IN  Now(m_date, m_time) =
             Instant(MonthsOn(get_ymd(moved[3]), (12 * d.year) + d.mon),
                     (moved[4] \div 1000) + (SECONDS_PER_DAY * d.mday) + (3600 * d.hour) + (60 * d.min) + d.sec)

(* Every stamp of Now::unique is another one, also when the clock goes back
   or two threads read it before either takes the mutex. *)
StampsUnique == \A a, b \in stamps : a # b => a[1] # b[1]

(* The time of a DateTime is the milliseconds since midnight. *)
SinceMidnight == m_time \in 0 .. MILLIS_PER_DAY - 1
=============================================================================
