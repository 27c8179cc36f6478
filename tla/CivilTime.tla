----------------------------- MODULE CivilTime -----------------------------
(***************************************************************************)
(* The reference the clock is compared with: a moment is a day since       *)
(* 1 January 2000, a second of that day and a day of the week.  Days and   *)
(* seconds are counted, so that nothing here carries from one unit to the  *)
(* next except at midnight.                                                *)
(***************************************************************************)
EXTENDS Integers, Sequences

\* Years are 0 .. 99 for 2000 .. 2099, where every fourth year is leap.
LeapYear(year) == year % 4 = 0

MonthLength(month, year) ==
  CASE month = 2 -> IF LeapYear(year) THEN 29 ELSE 28
    [] month \in {4, 6, 9, 11} -> 30
    [] OTHER -> 31

IsDate(date, month, year) ==
  year \in 0 .. 99 /\ month \in 1 .. 12 /\ date \in 1 .. MonthLength(month, year)

DaysBefore(month, year) ==
  <<0, 31, 59, 90, 120, 151, 181, 212, 243, 273, 304, 334>>[month]
  + IF month > 2 /\ LeapYear(year) THEN 1 ELSE 0

DayNumber(date, month, year) ==
  365 * year + ((year + 3) \div 4) + DaysBefore(month, year) + date - 1

Moment(day, second, weekday) == [day |-> day, second |-> second, weekday |-> weekday]

\* The day after 31 December 2099 is the first again: the part counts two
\* digits of the year.
NextSecond(moment) ==
  IF moment.second < 86399 THEN [moment EXCEPT !.second = @ + 1]
  ELSE [day |-> (moment.day + 1) % 36525, second |-> 0, weekday |-> (moment.weekday % 7) + 1]
=============================================================================
