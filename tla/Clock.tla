------------------------------- MODULE Clock -------------------------------
(***************************************************************************)
(* Arithmetic on times: dates in src/src/timeut.h and src/src/cstrbuf.h,   *)
(* differences of times, and the timeouts of pthreads-w32.  Dates are in   *)
(* seconds and days as in the code.  For the rest a second is MilliPerSec  *)
(* milliseconds of NanoPerMilli nanoseconds, a DWORD counts to Word and an  *)
(* unsigned long, of the 64 bits it has where it is longer than an int, to *)
(* LongWord, so that small numbers reach every limit of a DWORD.  A clock  *)
(* runs while a thread waits for an absolute time.                         *)
(***************************************************************************)
EXTENDS Integers, Sequences, FiniteSetsExt

CONSTANTS
  MilliPerSec, NanoPerMilli, Word, LongWord,
  MktimeFails,      \* the dates and times that mktime refuses, as in time_is_valid
  Days, Seconds,    \* the days since 1970 and the seconds of a day to look at
  MaxSec            \* the clock stops there

ASSUME ClockAssumption ==
  /\ MilliPerSec \in Nat \ {0} /\ NanoPerMilli \in Nat \ {0} /\ Word \in Nat \ {0, 1}
  /\ LongWord \in Nat /\ MilliPerSec * NanoPerMilli <= LongWord
  /\ (MaxSec + 1) * MilliPerSec <= LongWord \div 2
  /\ Days \subseteq Nat /\ Seconds \subseteq 0..86399 /\ MaxSec \in Nat

NanoPerSec == MilliPerSec * NanoPerMilli

VARIABLES
  date,       \* a time that is shown, days and seconds, or <<>>
  abstime,    \* a timespec: the end of a wait
  now         \* a timespec: the time of the system

clockVars == <<date, abstime, now>>

-----------------------------------------------------------------------------
(* Dates *)

TM_YEAR_IS_LEAP(year) == year % 4 = 0 /\ (year % 100 # 0 \/ year % 400 = 0)
YearDays(year) == IF TM_YEAR_IS_LEAP(year) THEN 366 ELSE 365
MonthDays(year) ==
  [[m \in 1..12 |-> IF m \in {4, 6, 9, 11} THEN 30 ELSE 31]
    EXCEPT ![2] = IF TM_YEAR_IS_LEAP(year) THEN 29 ELSE 28]

\* Division of C, towards zero.
Quot(x, y) == IF x < 0 THEN -((-x) \div y) ELSE x \div y
Rem(x, y) == x - Quot(x, y) * y

YearEnds(n, year) == n < YearDays(year)

\* getlocaltime_safe: the loops take years from 1970 on off the days, and then
\* months.  tm_year and tm_mon are here what is printed of them.
getlocaltime_safe(time, tz, dst) ==
  LET t == time - tz + 3600 * dst
      days == Quot(t, 86400)
      seconds == Rem(t, 86400)
      year[n \in Int, y \in Nat] == IF YearEnds(n, y) THEN <<y, n>> ELSE year[n - YearDays(y), y + 1]
      y == year[days, 1970]
      month[n \in Int, m \in 1..12] ==
        IF n < MonthDays(y[1])[m] THEN <<m, n>> ELSE month[n - MonthDays(y[1])[m], m + 1]
      m == month[y[2], 1]
  IN  [tm_year |-> y[1], tm_mon |-> m[1], tm_mday |-> m[2] + 1, tm_yday |-> y[2],
       tm_wday |-> Rem(days + 4, 7), tm_hour |-> Quot(seconds, 3600),
       tm_min |-> Quot(Rem(seconds, 3600), 60), tm_sec |-> Rem(Rem(seconds, 3600), 60)]

\* An hour of 24 and a second of 60 are valid.
time_is_valid(year, mon, day, hour, min, sec) ==
  /\ year \in 1900..9999 /\ mon \in 1..12 /\ hour \in 0..24 /\ min \in 0..59 /\ sec \in 0..60
  /\ day \in 1..MonthDays(year)[mon]

\* A timezone is hours and minutes with a sign, as one number; -1 is none.
cstr_parse_timezone(sign, h, m) ==
  IF sign = 0 \/ h > 23 \/ m > 59 THEN -1 ELSE (h * 100 + m) * sign
TimezoneSign(tz) == IF tz < 0 THEN -1 ELSE 1
TimezoneAbs(tz) == IF tz < 0 THEN -tz ELSE tz

\* What cstr_datetime_print writes: a date, a time, milliseconds and a timezone,
\* each of them or none; -1 stands for a field that is left out.
cstr_datetime_print(dt) ==
  [ymd |-> IF dt.year = -1 THEN <<>> ELSE <<dt.year, dt.month, dt.day>>,
   hms |-> IF dt.hour = -1 THEN <<>> ELSE <<dt.hour, dt.minute, dt.second>>,
   mmm |-> dt.millisecond,
   zone |-> IF dt.timezone = -1 THEN <<>>
            ELSE <<TimezoneSign(dt.timezone),
                   TimezoneAbs(dt.timezone) \div 100, TimezoneAbs(dt.timezone) % 100>>]

\* What cstr_parse_timestamp makes of such a text, or none.  The lengths 10, 19
\* and 23 that it accepts are those of a date, with a time, with milliseconds.
\* mktime refuses what the system cannot count: before 1970 and after 3000 on
\* Windows, and everywhere the one second that it would count as -1.
cstr_parse_timestamp(p) ==
  LET tz == IF p.zone = <<>> THEN -1 ELSE cstr_parse_timezone(p.zone[1], p.zone[2], p.zone[3])
      hms == IF p.hms = <<>> THEN <<0, 0, 0>> ELSE p.hms
  IN  IF \/ p.ymd = <<>> \/ (p.hms = <<>> /\ p.mmm # -1)
         \/ (p.zone # <<>> /\ tz = -1)
         \/ ~time_is_valid(p.ymd[1], p.ymd[2], p.ymd[3], hms[1], hms[2], hms[3])
         \/ <<p.ymd[1], p.ymd[2], p.ymd[3], hms[1], hms[2], hms[3]>> \in MktimeFails
      THEN <<>>
      ELSE [year |-> p.ymd[1], month |-> p.ymd[2], day |-> p.ymd[3],
            hour |-> IF p.hms = <<>> THEN -1 ELSE hms[1], minute |-> hms[2], second |-> hms[3],
            millisecond |-> p.mmm, timezone |-> tz]

-----------------------------------------------------------------------------
(* Differences *)

Nanos(ts) == ts.sec * NanoPerSec + ts.nsec

\* An operation with an unsigned long converts the other operand; the result
\* is converted back.
Unsigned(x) == x % LongWord
Signed(x) == IF Unsigned(x) < LongWord \div 2 THEN Unsigned(x) ELSE Unsigned(x) - LongWord
Millis(nsec) == Unsigned(nsec) \div NanoPerMilli

difftime_msec(old, new) ==
  LET sec == new.sec - old.sec
      nsec == new.nsec - old.nsec
  IN  Signed(
        IF sec > 0 /\ nsec < 0 THEN (sec - 1) * MilliPerSec + Millis(nsec + NanoPerSec)
        ELSE IF sec < 0 /\ nsec > 0 THEN (sec + 1) * MilliPerSec + Millis(nsec - NanoPerSec)
        ELSE sec * MilliPerSec + Millis(nsec))

\* Faulty, not used here: the longest wait is taken for one without an end.
RelmillisecsInfinite(until, current) ==
  LET abs == until.sec * MilliPerSec + (until.nsec + NanoPerMilli \div 2) \div NanoPerMilli
      curr == current.sec * MilliPerSec + current.nsec \div NanoPerMilli
  IN  IF abs <= curr THEN 0 ELSE (abs - curr) % Word

\* Until when a thread waits, as the milliseconds that Windows takes: the end is
\* rounded, the time of the system, _ftime, is cut, a DWORD keeps what it can.
INFINITE == Word - 1
ptw32_relmillisecs(until, current) ==
  LET abs == until.sec * MilliPerSec + (until.nsec + NanoPerMilli \div 2) \div NanoPerMilli
      curr == current.sec * MilliPerSec + current.nsec \div NanoPerMilli
      milliseconds == (abs - curr) % Word
  IN  IF abs <= curr THEN 0
      ELSE IF milliseconds = INFINITE THEN milliseconds - 1 ELSE milliseconds

-----------------------------------------------------------------------------
Timespecs == [sec : 0..MaxSec, nsec : 0..(NanoPerSec - 1)]
Zero == [sec |-> 0, nsec |-> 0]

\* The program shows a time, or it asks for a wait until some time while the clock
\* runs.
ClockInit == date = <<>> /\ abstime = Zero /\ now = Zero
Shows ==
  /\ date = <<>> /\ abstime = Zero /\ now = Zero
  /\ date' \in Days \X Seconds /\ UNCHANGED <<abstime, now>>
Asks ==
  /\ date = <<>> /\ abstime = Zero /\ now = Zero
  /\ abstime' \in Timespecs /\ UNCHANGED <<date, now>>
Ticks ==
  /\ date = <<>>
  /\ now' \in {ts \in Timespecs : Nanos(ts) = Nanos(now) + 1}
  /\ UNCHANGED <<date, abstime>>
ClockNext == Shows \/ Asks \/ Ticks

ClockSpec == ClockInit /\ [][ClockNext]_clockVars

-----------------------------------------------------------------------------
\* The days from the first of 1970 to a date, by the rule for leap years.
DayNumber(y, m, d) ==
  LET leaps(n) == (n \div 4) - (n \div 100) + (n \div 400)
      before == {k \in 1..12 : k < m}
  IN  (y - 1970) * 365 + leaps(y - 1) - leaps(1969) + d - 1
        + MapThenSumSet(LAMBDA k : MonthDays(y)[k], before)

\* What mktime is asked for a date dt with a time or none.
TimeOf(dt) ==
  <<dt.year, dt.month, dt.day, IF dt.hour = -1 THEN 0 ELSE dt.hour, dt.minute, dt.second>>

\* A time is shown as the one date that is so many days after the first of 1970,
\* in every timezone, and what is printed of it is read back as the same, or
\* refused, which happens to what mktime refuses and to nothing else.
DatesRight ==
  date # <<>> => \A tz \in {-28800, 0, 18000}, dst \in {0, 1} :
    LET time == date[1] * 86400 + date[2]
        tm == getlocaltime_safe(time, tz, dst)
        Stamp(hour, ms, zone) ==
          [year |-> tm.tm_year, month |-> tm.tm_mon, day |-> tm.tm_mday, hour |-> hour,
           minute |-> IF hour = -1 THEN 0 ELSE tm.tm_min,
           second |-> IF hour = -1 THEN 0 ELSE tm.tm_sec,
           millisecond |-> ms, timezone |-> zone]
    IN  time - tz + 3600 * dst >= 0 =>
          /\ time_is_valid(tm.tm_year, tm.tm_mon, tm.tm_mday, tm.tm_hour, tm.tm_min, tm.tm_sec)
          /\ DayNumber(tm.tm_year, tm.tm_mon, tm.tm_mday) * 86400
               + tm.tm_hour * 3600 + tm.tm_min * 60 + tm.tm_sec = time - tz + 3600 * dst
          /\ tm.tm_yday = DayNumber(tm.tm_year, tm.tm_mon, tm.tm_mday) - DayNumber(tm.tm_year, 1, 1)
          /\ \A zone \in {-1, 0, 800, -330, -2359} :
               \A dt \in {Stamp(-1, -1, zone), Stamp(tm.tm_hour, -1, zone), Stamp(tm.tm_hour, 7, zone)} :
                 cstr_parse_timestamp(cstr_datetime_print(dt)) =
                   IF TimeOf(dt) \in MktimeFails THEN <<>> ELSE dt

\* A difference that is not negative, or of whole seconds, is cut to milliseconds;
\* and a wait until abstime, if a DWORD can hold it, does not become one without
\* an end, is too short by less than a millisecond, and too long by less than one
\* and a half.
WaitsRight ==
  LET diff == Nanos(abstime) - Nanos(now)
      wait == ptw32_relmillisecs(abstime, now)
      error == wait * NanoPerMilli - (IF diff < 0 THEN 0 ELSE diff)
  IN  /\ diff >= 0 \/ abstime.nsec = now.nsec =>
           difftime_msec(now, abstime) = Quot(diff, NanoPerMilli)
      /\ wait # INFINITE
      /\ diff < (Word - 2) * NanoPerMilli =>
           -NanoPerMilli < error /\ error < NanoPerMilli + NanoPerMilli \div 2

ClockRight == WaitsRight /\ DatesRight
=============================================================================
