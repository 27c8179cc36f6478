--------------------------- MODULE Ds3231Calendar ---------------------------
(***************************************************************************)
(* The time registers of the DS3231 and how a second is added to them.  A  *)
(* register holds two decimal digits and, above them, bits that configure  *)
(* the clock; "tens" is the number of values of the tens digit, which is   *)
(* what the code's tens_mask leaves of the upper nibble.                   *)
(***************************************************************************)
EXTENDS Integers

Nvram == 0 .. 63

SECONDS == 0
MINUTES == 1
HOURS == 2
DAY == 3
DATE == 4
MONTH == 5
YEAR == 6
CONTROL == 14

\* UNPACK_BCD: both nibbles, configuration bits and all
UnpackBcd(b) == (b % 16) + 10 * (b \div 16)

Value(b, tens) == (b % 16) + 10 * ((b \div 16) % tens)

\* The bits of a register that are not digits
Config(b, tens) == b - ((b % 16) + 16 * ((b \div 16) % tens))

Packed(x) == 16 * (x \div 10) + (x % 10)

Cascades(b, max, tens) == Value(b, tens) + 1 > max

\* Mutant: starts again from nought.
MutantTicked(b, min, max, tens) ==
  Config(b, tens) + Packed(IF Cascades(b, max, tens) THEN 0 ELSE Value(b, tens) + 1)

\* ds3231_virt_tick_bcd_reg
Ticked(b, min, max, tens) ==
  Config(b, tens) + Packed(IF Cascades(b, max, tens) THEN min ELSE Value(b, tens) + 1)

TwelveHours(b) == (b \div 64) % 2 = 1
PM(b) == (b \div 32) % 2 = 1

\* In the 12-hour mode the AM/PM bit changes between 12 and 1.
TickedHour(b) ==
  LET next == Ticked(b, 1, 12, 2)
  IN  CASE ~TwelveHours(b) -> Ticked(b, 0, 23, 4)
        [] TwelveHours(b) /\ ~Cascades(b, 12, 2) -> next
        [] OTHER -> IF PM(b) THEN next - 32 ELSE next + 32

HourCascades(b) ==
  IF TwelveHours(b) THEN PM(b) /\ Cascades(b, 12, 2) ELSE Cascades(b, 23, 4)

\* Leap years have the shorter February, and month 0 has 32 days, because
\* the remainder of -1 is -1.
DaysInMonth(month, year) ==
  CASE month = 0 -> 32
    [] month = 2 -> IF year % 4 = 0 /\ (year % 25 # 0 \/ year % 16 = 0) THEN 28 ELSE 29
    [] OTHER -> 31 - (((month - 1) % 7) % 2)

LastDate(nvram) == DaysInMonth(UnpackBcd(nvram[MONTH]), 2000 + UnpackBcd(nvram[YEAR]))

SecondsCarry(nvram) == Cascades(nvram[SECONDS], 59, 8)
MinutesCarry(nvram) == SecondsCarry(nvram) /\ Cascades(nvram[MINUTES], 59, 8)
HoursCarry(nvram) == MinutesCarry(nvram) /\ HourCascades(nvram[HOURS])
DateCarry(nvram) == HoursCarry(nvram) /\ Cascades(nvram[DATE], LastDate(nvram), 4)
MonthCarry(nvram) == DateCarry(nvram) /\ Cascades(nvram[MONTH], 12, 2)

\* ds3231_virt_tick_time: a register changes when the ones before it carry.
TickTime(nvram) ==
  [r \in Nvram |->
     CASE r = SECONDS -> Ticked(nvram[r], 0, 59, 8)
       [] r = MINUTES /\ SecondsCarry(nvram) -> Ticked(nvram[r], 0, 59, 8)
       [] r = HOURS /\ MinutesCarry(nvram) -> TickedHour(nvram[r])
       [] r = DAY /\ HoursCarry(nvram) -> Ticked(nvram[r], 1, 7, 1)
       [] r = DATE /\ HoursCarry(nvram) -> Ticked(nvram[r], 1, LastDate(nvram), 4)
       [] r = MONTH /\ DateCarry(nvram) -> Ticked(nvram[r], 1, 12, 2)
       [] r = YEAR /\ MonthCarry(nvram) -> Ticked(nvram[r], 0, 99, 16)
       [] OTHER -> nvram[r]]
=============================================================================
