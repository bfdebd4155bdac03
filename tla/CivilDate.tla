----------------------------- MODULE CivilDate -----------------------------
(***************************************************************************)
(* civil_date of usage.rs: the calendar day usage is counted under, from   *)
(* the number of days since 1970-01-01.  Compared with a calendar that     *)
(* counts on day by day.                                                   *)
(***************************************************************************)
EXTENDS Integers

\* Mutant: every fourth year is a leap year.
YearOfEraJulian(doe) == (doe - doe \div 1460) \div 365

YearOfEra(doe) == (doe - doe \div 1460 + doe \div 36524 - doe \div 146096) \div 365

\* Day numbers are not negative: as_secs() is unsigned.
Civil(days) ==
  LET z == days + 719468
      era == z \div 146097
      doe == z - era * 146097
      yoe == YearOfEra(doe)
      doy == doe - (365 * yoe + yoe \div 4 - yoe \div 100)
      mp == (5 * doy + 2) \div 153
      m == IF mp < 10 THEN mp + 3 ELSE mp - 9
      y == yoe + era * 400
  IN [year |-> IF m <= 2 THEN y + 1 ELSE y, month |-> m,
      day |-> doy - (153 * mp + 2) \div 5 + 1]

-----------------------------------------------------------------------------
(* The Gregorian calendar.                                                 *)

Epoch == [year |-> 1970, month |-> 1, day |-> 1]

Leap(y) == y % 4 = 0 /\ (y % 100 # 0 \/ y % 400 = 0)

LastDay(y, m) ==
  CASE m = 2 -> IF Leap(y) THEN 29 ELSE 28
    [] m \in {4, 6, 9, 11} -> 30
    [] OTHER -> 31

DayAfter(d) ==
  IF d.day < LastDay(d.year, d.month) THEN [d EXCEPT !.day = @ + 1]
  ELSE IF d.month < 12 THEN [d EXCEPT !.day = 1, !.month = @ + 1]
  ELSE [year |-> d.year + 1, month |-> 1, day |-> 1]

\* Usage of the day that is `days` after the epoch is counted under that
\* calendar day.
DateIs(days, date) == Civil(days) = date
=============================================================================
