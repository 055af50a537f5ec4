------------------------------ MODULE Calendar ------------------------------
(***************************************************************************)
(* The dates of update-users-groups (expiry dates to days since the epoch)   *)
(* and of init-script (days since the epoch to the date in a label), which   *)
(* both do without a date library.                                           *)
(*                                                                           *)
(* The variables are a calendar on a wall: it starts at 1970-01-01, day 0,   *)
(* and is turned one leaf at a time, in either direction.  The code's        *)
(* arithmetic has to agree with it on every leaf.                            *)
(***************************************************************************)
EXTENDS Integers, Sequences

CONSTANTS
  FirstYear, LastYear,  \* bounds of the walk
  MaxDay                \* bound: times of day are looked at up to this day

ASSUME CalendarOK ==
  FirstYear \in Int /\ FirstYear < 1970 /\ LastYear \in Nat /\ LastYear > 1970
  /\ MaxDay \in Nat

VARIABLES z, year, month, day

wall == <<z, year, month, day>>
----------------------------------------------------------------------------
\* The wall calendar.
MonthLength(y, m) ==
  CASE m \in {4, 6, 9, 11} -> 30
    [] m = 2 -> IF 4 * (y \div 4) = y /\ (100 * (y \div 100) = y => 400 * (y \div 400) = y)
                THEN 29 ELSE 28
    [] OTHER -> 31

Hung == z = 0 /\ year = 1970 /\ month = 1 /\ day = 1

Tomorrow ==
  /\ z >= 0 /\ year <= LastYear
  /\ z' = z + 1
  /\ IF day < MonthLength(year, month) THEN day' = day + 1 /\ UNCHANGED <<year, month>>
     ELSE /\ day' = 1 /\ month' = (month % 12) + 1
          /\ year' = IF month = 12 THEN year + 1 ELSE year

Yesterday ==
  /\ z <= 0 /\ year >= FirstYear
  /\ z' = z - 1
  /\ IF day > 1 THEN day' = day - 1 /\ UNCHANGED <<year, month>>
     ELSE LET m == IF month = 1 THEN 12 ELSE month - 1
              y == IF month = 1 THEN year - 1 ELSE year
          IN year' = y /\ month' = m /\ day' = MonthLength(y, m)

Turned == Tomorrow \/ Yesterday
WallSpec == Hung /\ [][Turned]_wall
----------------------------------------------------------------------------
\* Division of signed integers rounds towards zero.
Quot(a, b) == IF a >= 0 THEN a \div b ELSE -((-a) \div b)

\* Mutant: eras before year 0 are rounded towards zero as well.
DayEraZero(zz) == Quot(zz, 146097)
DayEra(zz) == Quot(IF zz >= 0 THEN zz ELSE zz - 146096, 146097)

YearOfEra(doe) == (doe - doe \div 1460 + doe \div 36524 - doe \div 146096) \div 365

\* The cast of the year to 32 bits wraps around.
I32 == -2147483647 - 1 .. 2147483647
AsI32(y) ==
  IF y \in I32 THEN y ELSE ((y + 2147483647 + 1) % (65536 * 65536)) - 2147483647 - 1

\* civil_from_days: year, month and day of a day since the epoch.
CivilFromDays(days) ==
  LET zz  == days + 719468
      era == DayEra(zz)
      doe == zz - era * 146097
      yoe == YearOfEra(doe)
      doy == doe - (365 * yoe + yoe \div 4 - yoe \div 100)
      mp  == (5 * doy + 2) \div 153
      m   == IF mp < 10 THEN mp + 3 ELSE mp - 9
  IN <<AsI32(yoe + era * 400 + (IF m <= 2 THEN 1 ELSE 0)), m, doy - (153 * mp + 2) \div 5 + 1>>

SplitTimestamp(ts) == <<ts \div 86400, ts % 86400>>

\* format_utc_datetime: the fields it prints.
FormatUtc(ts) ==
  LET tod == SplitTimestamp(ts)[2]
  IN CivilFromDays(SplitTimestamp(ts)[1])
     \o <<tod \div 3600, (tod \div 60) % 60, tod % 60>>

\* Mutant: centuries are leap years.
IsLeapJulian(y) == y % 4 = 0
IsLeap(y) == (y % 4 = 0 /\ y % 100 # 0) \/ y % 400 = 0

DaysInMonth(y, m) ==
  CASE m \in {1, 3, 5, 7, 8, 10, 12} -> 31
    [] m \in {4, 6, 9, 11} -> 30
    [] m = 2 -> IF IsLeap(y) THEN 29 ELSE 28
    [] OTHER -> 0

DayOfYear(m, d) == (153 * (IF m > 2 THEN m - 3 ELSE m + 9) + 2) \div 5 + d - 1

DaysFromCivil(y0, m, d) ==
  LET y   == IF m <= 2 THEN y0 - 1 ELSE y0
      era == Quot(IF y >= 0 THEN y ELSE y - 399, 400)
      yoe == y - era * 400
  IN era * 146097 + yoe * 365 + yoe \div 4 - yoe \div 100 + DayOfYear(m, d) - 719468

\* date_to_days: the set of what it returns, empty for an error.
DateToDays(y, m, d) ==
  {n \in {DaysFromCivil(y, m, d)} : m \in 1 .. 12 /\ d \in 1 .. DaysInMonth(y, m) /\ n >= 0}
----------------------------------------------------------------------------
\* Every day is formatted as the date the wall calendar has for it, the days before
\* the epoch, leap days and the turns of centuries and eras included, as long as its year
\* fits into 32 bits.
LabelsRight == year \in I32 => CivilFromDays(z) = <<year, month, day>>

\* What the code converts to an unsigned number is never negative, and what it
\* divides never leaves the era: an underflow would be a date millions of years off.
NoUnderflow ==
  LET zz == z + 719468
      doe == zz - DayEra(zz) * 146097
  IN 0 <= doe /\ doe <= 146096 /\ YearOfEra(doe) \in 0 .. 399

\* The first and last second of a day, of an hour and of a minute are labelled with
\* that day and time, before the epoch as well as after it.
Moments == {0, 59, 60, 3599, 3600, 43200, 86340, 86399}
TimesRight ==
  year \in I32 /\ z \in -MaxDay .. MaxDay =>
    \A s \in Moments :
      FormatUtc(86400 * z + s) = <<year, month, day, s \div 3600, (s % 3600) \div 60, s % 60>>

\* The label of a generation names the second its link was made.
LabelExact == LabelsRight /\ NoUnderflow /\ TimesRight

\* An expiry date is accepted exactly when the wall calendar has it and it is not
\* before the epoch, and is stored as its day; the two programs agree on it.
DatesAccepted ==
  0 <= year /\ year <= 9999 =>
    DateToDays(year, month, day) = IF z >= 0 THEN {z} ELSE {}

\* A day the wall calendar does not have is an error, not a day of the next month:
\* an account would expire on another day than was asked for.
NonDatesRejected ==
  0 <= year /\ year <= 9999 =>
    /\ \A d \in {0} \cup (MonthLength(year, month) + 1) .. 40 : DateToDays(year, month, d) = {}
    /\ \A m \in {0, 13, 99} : DateToDays(year, m, day) = {}

\* Days and dates correspond one to one, and nothing else is taken for a date.
ExpiryExact == DatesAccepted /\ NonDatesRejected
=============================================================================
