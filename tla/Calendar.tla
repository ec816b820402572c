------------------------------ MODULE Calendar ------------------------------
(* The date an item expires is compared with today's, which index/tier.rs     *)
(* computes from the system clock with Hinnant's civil_from_days. A day at a  *)
(* time, from a few days whose dates are known, the result is compared with   *)
(* the calendar's own rule.                                                   *)
EXTENDS Naturals

CONSTANTS
  KnownDays,    \* pairs of a day number since the epoch and its date
  DaysCounted   \* bound: days counted from each of them

ASSUME DaysAreKnown ==
  KnownDays \subseteq
    {<<0, <<1970, 1, 1>>>>, <<10957, <<2000, 1, 1>>>>, <<47482, <<2100, 1, 1>>>>}

VARIABLES day, date, left

calendarVars == <<day, date, left>>

-----------------------------------------------------------------------------

(* The year of the era, and a day of the year as a date: both counted from    *)
(* March, so that January and February belong to the year before.             *)
YearOfEra(doe) == (doe - doe \div 1460 + doe \div 36524 - doe \div 146096) \div 365
FromMarch(y, doy) ==
  LET mp == (5 * doy + 2) \div 153
      m == IF mp < 10 THEN mp + 3 ELSE mp - 9
  IN  <<IF m <= 2 THEN y + 1 ELSE y, m, doy - (153 * mp + 2) \div 5 + 1>>

\* fault: the correction for the year that ends a century left out
YearOfEra_NoCentury(doe) == (doe - doe \div 1460) \div 365
CivilFromDays_NoCentury(d) ==
  LET z == d + 719468
      era == z \div 146097
      doe == z - era * 146097
      yoe == YearOfEra_NoCentury(doe)
  IN  FromMarch(yoe + era * 400, doe - (365 * yoe + yoe \div 4))

(* civil_from_days: years counted from March, in eras of 400.                 *)
CivilFromDays(d) ==
  LET z == d + 719468
      era == z \div 146097
      doe == z - era * 146097
      yoe == YearOfEra(doe)
  IN  FromMarch(yoe + era * 400, doe - (365 * yoe + yoe \div 4 - yoe \div 100))

(* today_iso_date, and the comparison of is_expired: by year, then month,     *)
(* then day, as strings of fixed width compare (to the end of the year 9999). *)
Before(d1, d2) ==
  \/ d1[1] < d2[1]
  \/ d1[1] = d2[1] /\ d1[2] < d2[2]
  \/ d1[1] = d2[1] /\ d1[2] = d2[2] /\ d1[3] < d2[3]

Expired(expires, d) == Before(expires, CivilFromDays(d))

-----------------------------------------------------------------------------

(* The calendar itself.                                                       *)
LeapYear(y) == y % 4 = 0 /\ (y % 100 # 0 \/ y % 400 = 0)
MonthLength(y, m) ==
  CASE m = 2              -> IF LeapYear(y) THEN 29 ELSE 28
    [] m \in {4, 6, 9, 11} -> 30
    [] OTHER              -> 31
NextDate(d) ==
  IF d[3] < MonthLength(d[1], d[2]) THEN <<d[1], d[2], d[3] + 1>>
  ELSE IF d[2] < 12 THEN <<d[1], d[2] + 1, 1>>
  ELSE <<d[1] + 1, 1, 1>>

CalendarInit == \E k \in KnownDays : day = k[1] /\ date = k[2] /\ left = DaysCounted

NextDay == left > 0 /\ left' = left - 1 /\ day' = day + 1 /\ date' = NextDate(date)

CalendarSpec == CalendarInit /\ [][NextDay]_calendarVars

-----------------------------------------------------------------------------

(* "Leap-year-correct" (tier.rs:103-106), over leap days, year ends and the   *)
(* century without a leap day, for the two answers that hang on it: an item   *)
(* is not expired on its own day and is expired on the next.                  *)
ExpiresOnTime ==
  /\ ~Expired(date, day)
  /\ Expired(date, day + 1)
  /\ Expired(date, day + 366)

=============================================================================
