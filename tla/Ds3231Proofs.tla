---------------------------- MODULE Ds3231Proofs ----------------------------
(* Proofs about the real-time clock, for every firmware and every modulus. *)
EXTENDS Ds3231, TwiMasterProofs

-----------------------------------------------------------------------------
(* The calendar                                                            *)

\* Outside February the formula for the length of a month, which has no
\* table and no case for thirty days, agrees with the civil calendar in
\* every year the part can count (ds3231_virt.cpp:155-166).
THEOREM MonthLengths ==
  ASSUME NEW month \in 1 .. 12, month # 2, NEW year \in 0 .. 99
  PROVE  DaysInMonth(month, 2000 + year) = Civil!MonthLength(month, year)
<1>1. DaysInMonth(month, 2000 + year) = 31 - (((month - 1) % 7) % 2)
  BY DEF DaysInMonth
<1>2. CASE month \in {4, 6, 9, 11}
  <2>1. 31 - (((month - 1) % 7) % 2) = 30
    BY <1>2
  <2>2. Civil!MonthLength(month, year) = 30
    BY <1>2 DEF Civil!MonthLength
  <2> QED BY <1>1, <2>1, <2>2
<1>3. CASE month \in {1, 3, 5, 7, 8, 10, 12}
  <2>1. 31 - (((month - 1) % 7) % 2) = 31
    BY <1>3
  <2>2. Civil!MonthLength(month, year) = 31
    BY <1>3 DEF Civil!MonthLength
  <2> QED BY <1>1, <2>1, <2>2
<1> QED BY <1>2, <1>3

\* February has the other of its two lengths in every year the part can
\* count, not in some: the cases of the leap year are swapped
\* (ds3231_virt.cpp:156-161), against "Leap year correction until 2100"
\* (ds3231_virt.h:33).
THEOREM FebruariesAreSwapped ==
  ASSUME NEW year \in 0 .. 99
  PROVE  {DaysInMonth(2, 2000 + year), Civil!MonthLength(2, year)} = {28, 29}
<1> DEFINE leap == (2000 + year) % 4 = 0 /\ ((2000 + year) % 25 # 0 \/ (2000 + year) % 16 = 0)
<1>1. DaysInMonth(2, 2000 + year) = IF leap THEN 28 ELSE 29
  BY DEF DaysInMonth
<1>2. Civil!MonthLength(2, year) = IF year % 4 = 0 THEN 29 ELSE 28
  BY DEF Civil!MonthLength, Civil!LeapYear
<1>3. leap <=> year % 4 = 0
  OBVIOUS
<1> QED BY <1>1, <1>2, <1>3

\* A month has at most 32 days, the 32 being month 0's.
LEMMA DaysInMonthBounds ==
  ASSUME NEW month \in Nat, NEW year \in Nat
  PROVE  DaysInMonth(month, year) \in 28 .. 32
<1>1. CASE month = 0
  BY <1>1 DEF DaysInMonth
<1>2. CASE month = 2
  BY <1>2 DEF DaysInMonth
<1>3. CASE month # 0 /\ month # 2
  <2>1. DaysInMonth(month, year) = 31 - (((month - 1) % 7) % 2)
    BY <1>3 DEF DaysInMonth
  <2>2. (month - 1) % 7 \in 0 .. 6
    OBVIOUS
  <2> QED BY <2>1, <2>2
<1> QED BY <1>1, <1>2, <1>3

LEMMA LastDateBounds ==
  ASSUME NEW registers \in [Nvram -> Byte]
  PROVE  LastDate(registers) \in 28 .. 32
<1>1. registers[MONTH] \in Byte /\ registers[YEAR] \in Byte
  BY DEF Nvram, MONTH, YEAR
<1>2. UnpackBcd(registers[MONTH]) \in Nat /\ 2000 + UnpackBcd(registers[YEAR]) \in Nat
  BY <1>1 DEF UnpackBcd, Byte
<1> QED BY <1>2, DaysInMonthBounds DEF LastDate

-----------------------------------------------------------------------------
(* A ticked register is a byte                                             *)

LEMMA TickedIsByte ==
  ASSUME NEW b \in Byte, NEW min \in {0, 1}
  PROVE  /\ Ticked(b, min, 59, 8) \in Byte
         /\ Ticked(b, min, 23, 4) \in Byte
         /\ Ticked(b, min, 12, 2) \in Byte
         /\ Ticked(b, min, 7, 1) \in Byte
         /\ Ticked(b, min, 99, 16) \in Byte
         /\ \A max \in 28 .. 32 : Ticked(b, min, max, 4) \in Byte
<1> DEFINE units == b % 16
           high == b \div 16
<1>1. units \in 0 .. 15 /\ high \in 0 .. 15 /\ b = 16 * high + units
  BY DEF Byte
<1> HIDE DEF units, high
<1>2. ASSUME NEW tens \in {1, 2, 4, 8, 16}, NEW max \in 1 .. 99, max < 10 * tens
      PROVE  Ticked(b, min, max, tens) \in Byte
  <2> DEFINE digit == high % tens
             n == IF Cascades(b, max, tens) THEN min ELSE Value(b, tens) + 1
  <2>1. digit \in 0 .. high /\ high - digit \in 0 .. 16 - tens
    BY <1>1
  <2>2. Value(b, tens) = units + 10 * digit
    BY DEF Value, units, high
  <2>3. Value(b, tens) \in Nat
    <3> HIDE DEF digit
    <3> QED BY <1>1, <2>1, <2>2
  <2> HIDE DEF digit
  <2>4. n \in 0 .. 99 /\ n < 10 * tens
    <3>1. CASE Cascades(b, max, tens)
      BY <3>1, <1>2
    <3>2. CASE ~Cascades(b, max, tens)
      BY <3>2, <2>3, <1>2 DEF Cascades
    <3> QED BY <3>1, <3>2
  <2> HIDE DEF n
  <2>5. Packed(n) \in 0 .. (16 * tens) - 1
    <3>1. n \div 10 \in 0 .. tens - 1 /\ n % 10 \in 0 .. 9
      BY <2>4, SMTT(30)
    <3> DEFINE t == n \div 10
               u == n % 10
    <3>2. Packed(n) = 16 * t + u
      BY DEF Packed
    <3> HIDE DEF t, u
    <3> QED BY <3>1, <3>2 DEF t, u
  <2>6. Config(b, tens) = 16 * (high - digit)
    <3>1. Config(b, tens) = b - (units + 16 * digit)
      BY DEF Config, units, high, digit
    <3> QED BY <1>1, <2>1, <3>1
  <2>7. Ticked(b, min, max, tens) = Config(b, tens) + Packed(n)
    BY DEF Ticked, n
  <2> QED BY <2>1, <2>5, <2>6, <2>7 DEF Byte
<1> QED BY <1>2

LEMMA TickedHourIsByte ==
  ASSUME NEW b \in Byte
  PROVE  TickedHour(b) \in Byte
<1> DEFINE next == Ticked(b, 1, 12, 2)
<1>1. Ticked(b, 0, 23, 4) \in Byte /\ next \in Byte
  BY TickedIsByte
<1>2. CASE TwelveHours(b) /\ Cascades(b, 12, 2)
  <2> DEFINE kept == Config(b, 2)
  <2>1. next = kept + 1
    BY <1>2 DEF Ticked, Packed
  <2>2. PM(b) => kept - 31 \in Byte
    BY DEF PM, Config, Byte
  <2>3. ~PM(b) => kept + 33 \in Byte
    BY DEF PM, Config, Byte
  <2>4. kept \in Int
    BY DEF Config, Byte
  <2> HIDE DEF kept
  <2>5. next - 32 = kept - 31 /\ next + 32 = kept + 33
    BY <2>1, <2>4
  <2> HIDE DEF next
  <2>6. TickedHour(b) = IF PM(b) THEN next - 32 ELSE next + 32
    BY <1>2 DEF TickedHour, next
  <2> QED BY <2>2, <2>3, <2>5, <2>6
<1>3. CASE TwelveHours(b) /\ ~Cascades(b, 12, 2)
  BY <1>1, <1>3 DEF TickedHour
<1>4. CASE ~TwelveHours(b)
  BY <1>1, <1>4 DEF TickedHour
<1> QED BY <1>2, <1>3, <1>4

LEMMA TickTimeType ==
  ASSUME NEW registers \in [Nvram -> Byte]
  PROVE  TickTime(registers) \in [Nvram -> Byte]
<1>1. ASSUME NEW r \in Nvram
      PROVE  TickTime(registers)[r] \in Byte
  <2>1. registers[r] \in Byte
    OBVIOUS
  <2>2. CASE r = SECONDS
    BY <2>1, <2>2, TickedIsByte DEF TickTime, SECONDS, MINUTES, HOURS, DAY, DATE, MONTH, YEAR
  <2>3. CASE r = MINUTES
    BY <2>1, <2>3, TickedIsByte DEF TickTime, SECONDS, MINUTES, HOURS, DAY, DATE, MONTH, YEAR
  <2>4. CASE r = HOURS
    BY <2>1, <2>4, TickedHourIsByte DEF TickTime, SECONDS, MINUTES, HOURS, DAY, DATE, MONTH, YEAR
  <2>5. CASE r = DAY
    BY <2>1, <2>5, TickedIsByte DEF TickTime, SECONDS, MINUTES, HOURS, DAY, DATE, MONTH, YEAR
  <2>6. CASE r = DATE
    <3>1. Ticked(registers[r], 1, LastDate(registers), 4) \in Byte
      BY <2>1, LastDateBounds, TickedIsByte
    <3> QED BY <2>1, <2>6, <3>1 DEF TickTime, SECONDS, MINUTES, HOURS, DAY, DATE, MONTH, YEAR
  <2>7. CASE r = MONTH
    BY <2>1, <2>7, TickedIsByte DEF TickTime, SECONDS, MINUTES, HOURS, DAY, DATE, MONTH, YEAR
  <2>8. CASE r = YEAR
    BY <2>1, <2>8, TickedIsByte DEF TickTime, SECONDS, MINUTES, HOURS, DAY, DATE, MONTH, YEAR
  <2>9. CASE r \notin {SECONDS, MINUTES, HOURS, DAY, DATE, MONTH, YEAR}
    BY <2>1, <2>9 DEF TickTime
  <2> QED BY <2>2, <2>3, <2>4, <2>5, <2>6, <2>7, <2>8, <2>9
<1> QED BY <1>1 DEF TickTime

-----------------------------------------------------------------------------
(* Types                                                                   *)

LEMMA ClockInitTyped == ClockInit => DsTypeOK /\ LinkType
<1> SUFFICES ASSUME ClockInit PROVE DsTypeOK /\ LinkType
  OBVIOUS
<1> USE DEF ClockInit, DsInit
<1>1. LinkType
  BY DEF LinkInit, LinkType, Free, Direction
<1>2. nvram \in [Nvram -> Byte]
  BY DEF Byte
<1>3. dsReply \in Reply
  BY RepliesAreTyped
<1>4. rtc \in 0 .. RtcModulus - 1
  BY DsModulus
<1>5. edges \in Nat \cup {Disturbed} /\ seconds \in Nat
  OBVIOUS
<1>6. regAddr \in Byte /\ target \in Byte
  BY DEF Byte
<1>7. /\ dsSelected \in BOOLEAN /\ regSelected \in BOOLEAN
      /\ squareWave \in BOOLEAN /\ outOfBounds \in BOOLEAN /\ naming \in BOOLEAN
  OBVIOUS
<1> QED BY <1>1, <1>2, <1>3, <1>4, <1>5, <1>6, <1>7 DEF DsTypeOK

LEMMA HookTyped ==
  ASSUME DsTypeOK, LinkType, NEW m \in Offered, DsInHook(m), UNCHANGED clock
  PROVE  DsTypeOK'
<1> USE DEF DsTypeOK
<1>1. m.data \in Byte
  BY OfferedCarriesByte
<1>2. (target + 1) % 256 \in Byte /\ (regAddr \in Nvram => IncrementedAddr(regAddr) \in Byte)
  BY DEF Byte, Nvram, IncrementedAddr
<1>3. /\ rtc' \in 0 .. RtcModulus - 1 /\ squareWave' \in BOOLEAN /\ seconds' \in Nat
  BY DEF clock
<1>4. CASE DsOnStop(m)
  BY <1>3, <1>4, RepliesAreTyped DEF DsOnStop, dsHistory
<1>5. CASE DsOnStart(m)
  BY <1>3, <1>5, RepliesAreTyped DEF DsOnStart
<1>6. CASE DsIgnore(m)
  BY <1>3, <1>6, RepliesAreTyped DEF DsIgnore, dsHistory, pointer
<1>7. CASE DsOnWrite(m)
  <2>1. dsReply' \in Reply /\ naming' \in BOOLEAN /\ target' \in Byte /\ dsSelected' \in BOOLEAN
    BY <1>1, <1>2, <1>7, RepliesAreTyped DEF DsOnWrite
  <2>2. CASE SelectPointer(m)
    BY <1>1, <1>3, <2>1, <2>2 DEF SelectPointer
  <2>3. CASE StoreRegister(m)
    BY <1>1, <1>2, <1>3, <2>1, <2>3 DEF StoreRegister
  <2>4. CASE PastTheEnd
    BY <1>3, <2>1, <2>4 DEF PastTheEnd
  <2> QED BY <1>7, <2>2, <2>3, <2>4 DEF DsOnWrite
<1>8. CASE DsOnRead(m)
  <2>1. naming' \in BOOLEAN /\ target' \in Byte /\ dsSelected' \in BOOLEAN
    BY <1>2, <1>8 DEF DsOnRead
  <2>2. CASE PastTheEnd /\ dsReply' = Silent
    BY <1>3, <2>1, <2>2, RepliesAreTyped DEF PastTheEnd
  <2>3. CASE ~(PastTheEnd /\ dsReply' = Silent)
    <3>1. /\ regAddr \in Nvram
          /\ dsReply' = Data(nvram[regAddr])
          /\ regAddr' = IncrementedAddr(regAddr)
          /\ UNCHANGED <<regSelected, nvram, outOfBounds, edges>>
      BY <1>8, <2>3 DEF DsOnRead
    <3>2. dsReply' \in Reply
      BY <3>1, RepliesAreTyped
    <3> QED BY <1>2, <1>3, <2>1, <3>1, <3>2
  <2> QED BY <2>2, <2>3
<1> QED BY <1>4, <1>5, <1>6, <1>7, <1>8 DEF DsInHook

LEMMA ClockTickTyped ==
  ASSUME DsTypeOK, LinkType, ClockTick
  PROVE  DsTypeOK' /\ LinkType'
<1> USE DEF DsTypeOK
<1>1. rtc' \in 0 .. RtcModulus - 1
  BY DsModulus DEF ClockTick, NextRtc
<1>2. nvram' \in [Nvram -> Byte]
  BY TickTimeType DEF ClockTick
<1>3. edges' \in Nat \cup {Disturbed}
  BY DEF ClockTick, EdgesAfter, Disturbed
<1>4. squareWave' \in BOOLEAN
  <2>1. CASE EdgeAt(rtc')
    BY <2>1 DEF ClockTick, CycledSquareWave
  <2>2. CASE ~EdgeAt(rtc')
    BY <2>2 DEF ClockTick, CycledSquareWave
  <2> QED BY <2>1, <2>2
<1>5. seconds' \in Nat
  BY DEF ClockTick
<1>6. LinkType'
  BY DEF ClockTick, LinkType
<1> QED BY <1>1, <1>2, <1>3, <1>4, <1>5, <1>6 DEF ClockTick, pointer, dsHistory

LEMMA DsStepTyped ==
  DsTypeOK /\ LinkType /\ [DsNext]_<<link, dsVars>> => DsTypeOK' /\ LinkType'
<1> SUFFICES ASSUME DsTypeOK, LinkType, [DsNext]_<<link, dsVars>>
             PROVE  DsTypeOK' /\ LinkType'
  OBVIOUS
<1>1. CASE DsBusStep
  <2>1. PICK m \in Offered : Emit(m) /\ DsInHook(m)
    BY <1>1 DEF DsBusStep
  <2>2. UNCHANGED clock
    BY <1>1 DEF DsBusStep
  <2> QED BY <2>1, <2>2, HookTyped, LinkStepTyped
<1>2. CASE ClockTick
  BY <1>2, ClockTickTyped
<1>3. CASE UNCHANGED <<link, dsVars>>
  BY <1>3 DEF dsVars, DsTypeOK, LinkType, pointer, clock, dsHistory
<1> QED BY <1>1, <1>2, <1>3 DEF DsNext

\* The registers hold bytes, whatever the firmware wrote and however the
\* clock carried, and the counter stays within its width.
THEOREM DsTypeCorrect == DsSpec => []DsTypeOK
BY ClockInitTyped, DsStepTyped, PTL DEF DsSpec

-----------------------------------------------------------------------------
(* The register pointer                                                    *)

\* The property says nothing of a device that is not selected.  Between its
\* transactions the pointer stays where the firmware means it, and a free
\* bus finds no register number half sent.
PointerInv ==
  ~outOfBounds =>
    /\ regAddr = target
    /\ link = Free => ~regSelected
    /\ dsSelected => link.dev = DsAddress
    /\ dsSelected /\ link.rw = "W" => (naming <=> ~regSelected)

LEMMA PointerInitially == ClockInit => PointerInv
<1> SUFFICES ASSUME ClockInit PROVE PointerInv
  OBVIOUS
<1> QED BY DEF ClockInit, DsInit, PointerInv

LEMMA PointerKeptByHook ==
  ASSUME OpensWithStop, ~outOfBounds, DsTypeOK, LinkType, PointerInv,
         NEW m \in Offered, DsFirmwareSends(m), Emit(m), DsInHook(m)
  PROVE  PointerInv'
<1> USE DEF PointerInv
<1>1. \/ m \in Starts
      \/ link # Free /\ m.dev = link.dev /\ m.cond = "STOP"
      \/ link # Free /\ m.dev = link.dev /\ m.cond = "WRITE" /\ link.rw = "W"
      \/ link # Free /\ m.dev = link.dev /\ m.cond = "READ" /\ link.rw # "W"
  BY OfferedShape
<1>2. m \in Starts => m.cond = "START" /\ m.dev \in 0 .. 127 /\ m.rw \in Direction
  BY AddressesAssumption DEF Starts
<1>3. target \in Byte /\ m.data \in Byte
  BY OfferedCarriesByte DEF DsTypeOK
<1>4. CASE DsOnStop(m)
  <2>1. link' = Free
    BY <1>4 DEF DsOnStop, Emit
  <2> QED BY <1>4, <2>1 DEF DsOnStop, dsHistory
<1>5. CASE DsOnStart(m)
  <2>1. m \in Starts /\ m.cond = "START"
    BY <1>1, <1>5 DEF DsOnStart
  <2>2. link' = [dev |-> m.dev, rw |-> m.rw]
    BY <2>1 DEF Emit
  <2>3. link' # Free
    BY <1>2, <2>1, <2>2 DEF Free, NoDevice
  <2>4. m.dev = DsAddress /\ m.rw = "W" => link = Free
    BY <2>1 DEF DsFirmwareSends
  <2> QED BY <1>5, <2>2, <2>3, <2>4 DEF DsOnStart
<1>6. CASE DsIgnore(m)
  <2>1. link' = link
    BY <1>6 DEF DsIgnore, Emit
  <2> QED BY <1>6, <2>1 DEF DsIgnore, pointer, dsHistory
<1>7. CASE DsOnWrite(m)
  <2>1. /\ m.cond = "WRITE" /\ dsSelected /\ dsSelected' = dsSelected
        /\ naming' = FALSE
        /\ target' = IF naming THEN m.data ELSE (target + 1) % 256
    BY <1>7 DEF DsOnWrite
  <2>2. link' = link /\ link # Free /\ link.rw = "W"
    BY <1>1, <1>2, <2>1 DEF Emit
  <2>3. naming <=> ~regSelected
    BY <2>1, <2>2
  <2>4. CASE SelectPointer(m)
    BY <2>1, <2>2, <2>3, <2>4 DEF SelectPointer
  <2>5. CASE StoreRegister(m)
    <3>1. regAddr + 1 = (target + 1) % 256 /\ IncrementedAddr(regAddr) = regAddr + 1
      BY <1>3, <2>5 DEF StoreRegister, IncrementedAddr, Nvram, Byte
    <3> QED BY <2>1, <2>2, <2>3, <2>5, <3>1 DEF StoreRegister
  <2>6. CASE PastTheEnd
    BY <2>6 DEF PastTheEnd
  <2> QED BY <1>7, <2>4, <2>5, <2>6 DEF DsOnWrite
<1>8. CASE DsOnRead(m)
  <2>1. /\ m.cond = "READ" /\ dsSelected' = dsSelected
        /\ target' = (target + 1) % 256
    BY <1>8 DEF DsOnRead
  <2>2. link' = link /\ link # Free /\ link.rw # "W"
    BY <1>1, <1>2, <2>1 DEF Emit
  <2>3. CASE PastTheEnd
    BY <2>3 DEF PastTheEnd
  <2>4. CASE ~PastTheEnd
    <3>1. /\ regAddr \in Nvram
          /\ regAddr' = IncrementedAddr(regAddr)
          /\ UNCHANGED regSelected
      BY <1>8, <2>4 DEF DsOnRead
    <3>2. regAddr + 1 = (target + 1) % 256 /\ IncrementedAddr(regAddr) = regAddr + 1
      BY <1>3, <3>1 DEF IncrementedAddr, Nvram, Byte
    <3> QED BY <2>1, <2>2, <3>1, <3>2
  <2> QED BY <2>3, <2>4
<1> QED BY <1>4, <1>5, <1>6, <1>7, <1>8 DEF DsInHook

\* Every byte is read from or written to the register the firmware means,
\* for every firmware that opens its writes on a free bus: over any number
\* of transactions, repeated STARTs and other devices' traffic.
THEOREM BytesGoWhereMeantCorrect ==
  ASSUME OpensWithStop
  PROVE  DsSpec => []BytesGoWhereMeant
<1>1. /\ DsTypeOK /\ LinkType /\ PointerInv /\ [DsNext]_<<link, dsVars>>
      => DsTypeOK' /\ LinkType' /\ PointerInv'
  <2> SUFFICES ASSUME DsTypeOK, LinkType, PointerInv, [DsNext]_<<link, dsVars>>
               PROVE  DsTypeOK' /\ LinkType' /\ PointerInv'
    OBVIOUS
  <2>1. CASE ~outOfBounds /\ DsBusStep
    <3>1. PICK m \in Offered : DsFirmwareSends(m) /\ Emit(m) /\ DsInHook(m)
      BY <2>1 DEF DsBusStep
    <3>2. UNCHANGED clock
      BY <2>1 DEF DsBusStep
    <3>3. PointerInv'
      BY <2>1, <3>1, PointerKeptByHook
    <3> QED BY <3>1, <3>2, <3>3, HookTyped, LinkStepTyped
  <2>2. CASE ClockTick
    <3>1. PointerInv'
      BY <2>2 DEF ClockTick, PointerInv, pointer, dsHistory
    <3> QED BY <2>2, <3>1, ClockTickTyped
  <2>3. CASE UNCHANGED <<link, dsVars>>
    BY <2>3 DEF dsVars, DsTypeOK, LinkType, PointerInv, pointer, clock, dsHistory
  <2> QED BY <2>1, <2>2, <2>3 DEF DsNext
<1>2. PointerInv => BytesGoWhereMeant
  BY DEF PointerInv, BytesGoWhereMeant
<1> QED BY <1>1, <1>2, ClockInitTyped, PointerInitially, PTL DEF DsSpec

-----------------------------------------------------------------------------
(* The square wave                                                         *)

SlowestWave == SquareWaveEnabled /\ PrescalerMode = 0

\* In the slowest mode the wave has turned as often as the counter of this
\* second has passed the middle and the end of its range.
WaveInv ==
  edges # Disturbed /\ SlowestWave =>
    edges = IF rtc < ClkFreq - 1 THEN 0 ELSE IF rtc < RtcModulus - 1 THEN 1 ELSE 2

LEMMA HalfModulus == ClkFreq \in Nat /\ ClkFreq >= 32 /\ RtcModulus = 2 * ClkFreq
BY DsModulus DEF ClkFreq

\* Within one wrap of the counter the slowest wave turns twice.
LEMMA EdgesOfTheSlowestWave ==
  ASSUME SlowestWave, NEW count \in 0 .. RtcModulus - 1
  PROVE  EdgeAt(count) <=> count \in {ClkFreq - 1, RtcModulus - 1}
<1>1. EdgeEvery = ClkFreq
  BY DEF SlowestWave, EdgeEvery
<1>2. EdgeAt(count) <=> (count + 1) % ClkFreq = 0
  BY <1>1 DEF EdgeAt, SlowestWave
<1> DEFINE half == ClkFreq
<1>3. half \in Nat /\ half >= 32 /\ RtcModulus = 2 * half
  BY HalfModulus
<1>4. EdgeAt(count) <=> (count + 1) % half = 0
  BY <1>2
<1>5. count \in {ClkFreq - 1, RtcModulus - 1} <=> count + 1 = half \/ count + 1 = 2 * half
  BY <1>3
<1> HIDE DEF half
<1>6. count + 1 \in 1 .. 2 * half
  BY <1>3
<1>7. (count + 1) % half = 0 <=> count + 1 = half \/ count + 1 = 2 * half
  <2>1. CASE count + 1 < half
    BY <1>3, <1>6, <2>1
  <2>2. CASE count + 1 = half
    BY <1>3, <2>2
  <2>3. CASE half < count + 1 /\ count + 1 < 2 * half
    BY <1>3, <1>6, <2>3
  <2>4. CASE count + 1 = 2 * half
    BY <1>3, <2>4
  <2> QED BY <1>3, <1>6, <2>1, <2>2, <2>3, <2>4
<1> QED BY <1>4, <1>5, <1>7

\* A control byte with the same wave bits selects the same wave.
LEMMA WaveBitsSelectTheWave ==
  ASSUME NEW a \in Byte, NEW b \in Byte, WaveBits(a) = WaveBits(b)
  PROVE  /\ (a \div 4) % 2 = (b \div 4) % 2
         /\ (a \div 8) % 4 = (b \div 8) % 4
BY DEF Byte, WaveBits

LEMMA ControlKeptByTheTick ==
  ASSUME DsTypeOK, ClockTick
  PROVE  nvram'[CONTROL] = nvram[CONTROL]
BY DEF DsTypeOK, ClockTick, TickTime, Nvram, CONTROL, SECONDS, MINUTES, HOURS, DAY, DATE,
       MONTH, YEAR

LEMMA WaveInitially == ClockInit => WaveInv
<1> SUFFICES ASSUME ClockInit PROVE WaveInv
  OBVIOUS
<1>1. rtc = 0 /\ edges = 0
  BY DEF ClockInit, DsInit
<1> QED BY <1>1, HalfModulus DEF WaveInv

LEMMA WaveKeptByHook ==
  ASSUME DsTypeOK, WaveInv, NEW m \in Offered, DsInHook(m), UNCHANGED clock
  PROVE  WaveInv'
<1>1. rtc' = rtc
  BY DEF clock
<1>2. CASE nvram'[CONTROL] = nvram[CONTROL] /\ edges' = edges
  BY <1>1, <1>2 DEF WaveInv, SlowestWave, SquareWaveEnabled, PrescalerMode
<1>3. CASE regSelected /\ StoreRegister(m)
  <2>1. m.data \in Byte /\ nvram[CONTROL] \in Byte /\ CONTROL \in Nvram
    BY OfferedCarriesByte DEF DsTypeOK, CONTROL, Nvram
  <2>2. CASE regAddr # CONTROL
    BY <1>2, <1>3, <2>1, <2>2 DEF StoreRegister, DsTypeOK
  <2>3. CASE regAddr = CONTROL
    <3>1. nvram'[CONTROL] = m.data
      BY <1>3, <2>1, <2>3 DEF StoreRegister, DsTypeOK
    <3>2. CASE WaveBits(m.data) = WaveBits(nvram[CONTROL])
      <4>1. edges' = edges
        BY <1>3, <3>2 DEF StoreRegister
      <4>2. SlowestWave' <=> SlowestWave
        BY <2>1, <3>1, <3>2, WaveBitsSelectTheWave
           DEF SlowestWave, SquareWaveEnabled, PrescalerMode
      <4> QED BY <1>1, <4>1, <4>2 DEF WaveInv
    <3>3. CASE WaveBits(m.data) # WaveBits(nvram[CONTROL])
      BY <1>3, <2>3, <3>3 DEF StoreRegister, WaveInv
    <3> QED BY <3>2, <3>3
  <2> QED BY <2>2, <2>3
<1>4. CASE DsOnWrite(m)
  BY <1>2, <1>3, <1>4 DEF DsOnWrite, SelectPointer, PastTheEnd, StoreRegister
<1>5. CASE DsOnStop(m) \/ DsOnStart(m) \/ DsOnRead(m) \/ DsIgnore(m)
  BY <1>2, <1>5 DEF DsOnStop, DsOnStart, DsOnRead, DsIgnore, PastTheEnd
<1> QED BY <1>4, <1>5 DEF DsInHook

LEMMA WaveKeptByTheTick ==
  ASSUME DsTypeOK, WaveInv, ClockTick
  PROVE  WaveInv'
<1>1. SlowestWave' <=> SlowestWave
  BY ControlKeptByTheTick DEF SlowestWave, SquareWaveEnabled, PrescalerMode
<1>2. SUFFICES ASSUME SlowestWave, edges' # Disturbed
               PROVE  edges' = IF rtc' < ClkFreq - 1 THEN 0
                               ELSE IF rtc' < RtcModulus - 1 THEN 1 ELSE 2
  BY <1>1 DEF WaveInv, ClkFreq
<1> DEFINE half == ClkFreq
<1>3. half \in Nat /\ half >= 32 /\ RtcModulus = 2 * half
  BY HalfModulus
<1>4. rtc \in 0 .. RtcModulus - 1
  BY DEF DsTypeOK
<1>5. rtc' = IF rtc = RtcModulus - 1 THEN 0 ELSE rtc + 1
  BY <1>3, <1>4 DEF ClockTick, NextRtc
<1>6. rtc' \in 0 .. RtcModulus - 1
  BY <1>3, <1>4, <1>5
<1>7. EdgeAt(rtc') <=> rtc' \in {half - 1, RtcModulus - 1}
  BY <1>2, <1>6, EdgesOfTheSlowestWave
<1>8. rtc' # 0 => edges # Disturbed
  BY <1>2 DEF ClockTick, EdgesAfter
<1>9. rtc' # 0 => edges = IF rtc < half - 1 THEN 0 ELSE IF rtc < RtcModulus - 1 THEN 1 ELSE 2
  BY <1>2, <1>8 DEF WaveInv
<1>10. edges' = (IF rtc' = 0 THEN 0 ELSE edges) + (IF EdgeAt(rtc') THEN 1 ELSE 0)
  <2>1. edges' = EdgesAfter(rtc')
    BY DEF ClockTick
  <2>2. (IF rtc' = 0 THEN 0 ELSE edges) # Disturbed
    BY <1>8 DEF Disturbed
  <2>3. edges \in Int
    BY DEF DsTypeOK, Disturbed
  <2> QED BY <2>1, <2>2, <2>3 DEF EdgesAfter
<1> HIDE DEF half
<1>11. edges' = IF rtc' < half - 1 THEN 0 ELSE IF rtc' < RtcModulus - 1 THEN 1 ELSE 2
  <2>1. CASE rtc' = 0
    <3>1. ~EdgeAt(rtc') /\ rtc' < half - 1
      BY <1>3, <1>7, <2>1
    <3> QED BY <1>10, <2>1, <3>1
  <2>2. CASE rtc' # 0
    <3>1. rtc' = rtc + 1 /\ rtc < RtcModulus - 1
      BY <1>3, <1>4, <1>5, <2>2
    <3>2. edges' = IF EdgeAt(rtc') THEN edges + 1 ELSE edges
      <4>1. edges \in Int
        BY DEF DsTypeOK, Disturbed
      <4> QED BY <1>10, <2>2, <4>1
    <3>3. edges = IF rtc < half - 1 THEN 0 ELSE 1
      BY <1>9, <2>2, <3>1
    <3> QED BY <1>3, <1>4, <1>7, <3>1, <3>2, <3>3
  <2> QED BY <2>1, <2>2
<1> QED BY <1>11 DEF half

\* In its slowest mode the wave makes two edges in every second the calendar
\* counts, for every firmware, every modulus of the counter and any stops of
\* the oscillator (ds3231_virt.cpp:344-354).
THEOREM OneHertzCorrect == DsSpec => OneHertz
<1>1. /\ DsTypeOK /\ LinkType /\ WaveInv /\ [DsNext]_<<link, dsVars>>
      => DsTypeOK' /\ LinkType' /\ WaveInv'
  <2> SUFFICES ASSUME DsTypeOK, LinkType, WaveInv, [DsNext]_<<link, dsVars>>
               PROVE  DsTypeOK' /\ LinkType' /\ WaveInv'
    OBVIOUS
  <2>1. CASE DsBusStep
    <3>1. PICK m \in Offered : Emit(m) /\ DsInHook(m)
      BY <2>1 DEF DsBusStep
    <3>2. UNCHANGED clock
      BY <2>1 DEF DsBusStep
    <3> QED BY <3>1, <3>2, HookTyped, LinkStepTyped, WaveKeptByHook
  <2>2. CASE ClockTick
    BY <2>2, ClockTickTyped, WaveKeptByTheTick
  <2>3. CASE UNCHANGED <<link, dsVars>>
    BY <2>3 DEF dsVars, DsTypeOK, LinkType, WaveInv, SlowestWave, SquareWaveEnabled,
                PrescalerMode, pointer, clock, dsHistory
  <2> QED BY <2>1, <2>2, <2>3 DEF DsNext
<1>2. /\ DsTypeOK /\ WaveInv /\ [DsNext]_<<link, dsVars>>
      => [/\ seconds' # seconds /\ edges # Disturbed
          /\ SquareWaveEnabled /\ PrescalerMode = 0
          => edges = 2]_dsVars
  <2> SUFFICES ASSUME DsTypeOK, WaveInv, [DsNext]_<<link, dsVars>>, seconds' # seconds,
                      edges # Disturbed, SquareWaveEnabled, PrescalerMode = 0
               PROVE  edges = 2
    OBVIOUS
  <2>1. ClockTick
    BY DEF DsNext, DsBusStep, dsVars, clock
  <2>2. rtc' = 0 /\ rtc \in 0 .. RtcModulus - 1
    BY <2>1 DEF ClockTick, DsTypeOK
  <2>3. rtc = RtcModulus - 1
    <3>1. CASE rtc < RtcModulus - 1
      BY <2>1, <2>2, <3>1, DsModulus DEF ClockTick, NextRtc
    <3> QED BY <2>2, <3>1, DsModulus
  <2>4. ~(rtc < ClkFreq - 1) /\ ~(rtc < RtcModulus - 1)
    BY <2>3, HalfModulus
  <2> QED BY <2>4 DEF WaveInv, SlowestWave
<1> QED BY <1>1, <1>2, ClockInitTyped, WaveInitially, PTL DEF DsSpec, OneHertz

-----------------------------------------------------------------------------
(* Seconds of the civil calendar                                           *)

\* A byte of two decimal digits is ticked as the number it stands for.
LEMMA TickedNumber ==
  ASSUME NEW b \in Byte, NEW tens \in {2, 4, 8, 16}, b % 16 < 10, b \div 16 < tens,
         NEW min \in {0, 1}, NEW max \in 1 .. 99, max < 10 * tens
  PROVE  /\ Cascades(b, max, tens) <=> UnpackBcd(b) + 1 > max
         /\ UnpackBcd(Ticked(b, min, max, tens)) =
              IF Cascades(b, max, tens) THEN min ELSE UnpackBcd(b) + 1
         /\ Ticked(b, min, max, tens) % 16 < 10
         /\ Ticked(b, min, max, tens) \div 16 \in 0 .. 9
<1> DEFINE units == b % 16
           high == b \div 16
           digit == high % tens
           n == IF Cascades(b, max, tens) THEN min ELSE Value(b, tens) + 1
           t == n \div 10
           u == n % 10
<1>1. /\ units \in 0 .. 9 /\ high \in 0 .. 15 /\ high < tens /\ b = 16 * high + units
      /\ UnpackBcd(b) = units + 10 * high
  BY DEF Byte, UnpackBcd
<1>2. Value(b, tens) = units + 10 * digit /\ Config(b, tens) = b - (units + 16 * digit)
  BY DEF Value, Config
<1> HIDE DEF units, high
<1>3. digit = high
  BY <1>1
<1> HIDE DEF digit
<1>4. Value(b, tens) = UnpackBcd(b) /\ Config(b, tens) = 0 /\ UnpackBcd(b) \in Nat
  BY <1>1, <1>2, <1>3
<1>5. Ticked(b, min, max, tens) = Config(b, tens) + Packed(n)
  BY DEF Ticked
<1>6. Cascades(b, max, tens) <=> UnpackBcd(b) + 1 > max
  BY <1>4 DEF Cascades
<1>7. n = IF Cascades(b, max, tens) THEN min ELSE UnpackBcd(b) + 1
  BY <1>4
<1>8. n \in 0 .. 99
  BY <1>4, <1>6, <1>7
<1> HIDE DEF n
<1>9. Packed(n) = 16 * t + u
  BY DEF Packed
<1>10. t \in 0 .. 9 /\ u \in 0 .. 9 /\ n = 10 * t + u
  BY <1>8
<1> HIDE DEF t, u
<1>11. Ticked(b, min, max, tens) = 16 * t + u
  BY <1>4, <1>5, <1>9, <1>10
<1>12. (16 * t + u) % 16 = u /\ (16 * t + u) \div 16 = t
  BY <1>10
<1>13. UnpackBcd(Ticked(b, min, max, tens)) = n
  BY <1>10, <1>11, <1>12 DEF UnpackBcd
<1> QED BY <1>6, <1>7, <1>10, <1>11, <1>12, <1>13

\* The day of the week is a digit of its own.
LEMMA TickedDay ==
  ASSUME NEW b \in 1 .. 7
  PROVE  Ticked(b, 1, 7, 1) = (b % 7) + 1
<1>1. Value(b, 1) = b /\ Config(b, 1) = 0
  BY DEF Value, Config
<1>2. CASE b = 7
  BY <1>1, <1>2 DEF Ticked, Cascades, Packed
<1>3. CASE b # 7
  BY <1>1, <1>3 DEF Ticked, Cascades, Packed
<1> QED BY <1>2, <1>3

\* In the 12-hour mode the hours up to ten are ticked within their half of
\* the day.
LEMMA TickedTwelveHour ==
  ASSUME NEW b \in 64 .. 127, b % 16 < 10, Value(b, 2) \in 1 .. 10
  PROVE  /\ ~HourCascades(b)
         /\ TickedHour(b) \in 64 .. 127
         /\ TickedHour(b) % 16 < 10
         /\ Value(TickedHour(b), 2) = Value(b, 2) + 1
         /\ PM(TickedHour(b)) <=> PM(b)
<1> DEFINE v == Value(b, 2)
           pm == (b \div 32) % 2
<1>1. TwelveHours(b) /\ (PM(b) <=> pm = 1) /\ pm \in 0 .. 1
  BY DEF TwelveHours, PM
<1>2. ~Cascades(b, 12, 2)
  BY DEF Cascades
<1>3. TickedHour(b) = Config(b, 2) + Packed(v + 1)
  BY <1>1, <1>2 DEF TickedHour, Ticked
<1>4. Config(b, 2) = 64 + 32 * pm
  BY DEF Config
<1>5. v \in 1 .. 10
  OBVIOUS
<1> HIDE DEF v, pm
<1>6. Packed(v + 1) = IF v < 9 THEN v + 1 ELSE v + 7
  BY <1>5 DEF Packed
<1> DEFINE next == TickedHour(b)
<1>7. next = 64 + 32 * pm + IF v < 9 THEN v + 1 ELSE v + 7
  BY <1>3, <1>4, <1>6
<1> HIDE DEF next
<1>8. next \in 64 .. 127 /\ next % 16 < 10 /\ Value(next, 2) = v + 1 /\ (next \div 32) % 2 = pm
  <2>1. CASE v < 9
    BY <1>1, <1>5, <1>7, <2>1 DEF Value
  <2>2. CASE ~(v < 9)
    BY <1>1, <1>5, <1>7, <2>2 DEF Value
  <2> QED BY <2>1, <2>2
<1>9. ~HourCascades(b)
  BY <1>1, <1>2 DEF HourCascades
<1>10. PM(next) <=> PM(b)
  BY <1>1, <1>8 DEF PM
<1> QED BY <1>8, <1>9, <1>10 DEF next, v

LeapDays(year) == IF Civil!LeapYear(year) THEN 1 ELSE 0

\* Twelve months and their days, added up
LEMMA MonthsAddUp ==
  ASSUME NEW month \in 1 .. 12, NEW year \in 0 .. 99
  PROVE  /\ Civil!DaysBefore(1, year) = 0
         /\ Civil!DaysBefore(month, year) \in 0 .. 334 + LeapDays(year)
         /\ Civil!MonthLength(month, year) \in 28 .. 31
         /\ month # 12 => Civil!DaysBefore(month + 1, year) =
                            Civil!DaysBefore(month, year) + Civil!MonthLength(month, year)
         /\ Civil!DaysBefore(12, year) = 334 + LeapDays(year)
         /\ Civil!MonthLength(12, year) = 31
         /\ LeapDays(year) \in 0 .. 1
<1> USE DEF Civil!DaysBefore, Civil!MonthLength, LeapDays
<1>1. Civil!DaysBefore(1, year) = 0
  OBVIOUS
<1>2. Civil!DaysBefore(12, year) = 334 + LeapDays(year) /\ Civil!MonthLength(12, year) = 31
  OBVIOUS
<1>5. CASE month = 1
  BY <1>5
<1>6. CASE month = 2
  BY <1>6
<1>7. CASE month = 3
  BY <1>7
<1>8. CASE month \in {4, 5, 6}
  BY <1>8
<1>9. CASE month \in {7, 8, 9}
  BY <1>9
<1>10. CASE month \in {10, 11, 12}
  BY <1>10
<1> QED BY <1>5, <1>6, <1>7, <1>8, <1>9, <1>10

DaysOfTheCentury == 36525

LEMMA DayNumberBounds ==
  ASSUME NEW year \in 0 .. 99, NEW month \in 1 .. 12,
         NEW date \in 1 .. Civil!MonthLength(month, year)
  PROVE  Civil!DayNumber(date, month, year) \in 0 .. DaysOfTheCentury - 1
<1> DEFINE leap == LeapDays(year)
           before == Civil!DaysBefore(month, year)
           length == Civil!MonthLength(month, year)
           number == Civil!DayNumber(date, month, year)
           leaps == (year + 3) \div 4
<1>1. before \in Nat /\ length \in 28 .. 31 /\ before + length <= 365 + leap /\ date \in 1 .. length
  <2>1. before \in Nat /\ length \in 28 .. 31
    <3>1. before \in 0 .. 334 + leap /\ length \in 28 .. 31 /\ leap \in 0 .. 1
      BY MonthsAddUp, Zenon
    <3> HIDE DEF before, length, leap
    <3> QED BY <3>1
  <2>2. date \in 1 .. length
    OBVIOUS
  <2>3. CASE month = 12
    <3>1. before = 334 + leap /\ length = 31 /\ leap \in 0 .. 1
      BY <2>3, MonthsAddUp, Zenon
    <3> HIDE DEF before, length, leap
    <3> QED BY <2>1, <2>2, <3>1
  <2>4. CASE month # 12
    <3>1. month + 1 \in 1 .. 12
      BY <2>4
    <3> DEFINE then == Civil!DaysBefore(month + 1, year)
    <3>2. then = before + length
      BY <2>4, MonthsAddUp, Zenon
    <3>3. then \in 0 .. 334 + leap /\ leap \in 0 .. 1
      BY <3>1, MonthsAddUp, Zenon
    <3> HIDE DEF leap, before, length, then
    <3> QED BY <2>1, <2>2, <3>2, <3>3
  <2> QED BY <2>3, <2>4
<1>2. number = 365 * year + leaps + before + date - 1
  BY DEF Civil!DayNumber
<1>3. leaps \in 0 .. 25 /\ leap \in 0 .. 1 /\ (year = 99 => leap = 0)
  BY DEF Civil!LeapYear, LeapDays
<1> HIDE DEF leap, before, length, number, leaps
<1>4. number \in 0 .. 36524
  BY <1>1, <1>2, <1>3
<1> QED BY <1>4 DEF number, DaysOfTheCentury

LEMMA NextDayOfTheCentury ==
  ASSUME NEW n \in 0 .. DaysOfTheCentury - 1, NEW next \in 0 .. DaysOfTheCentury - 1, next = n + 1
  PROVE  next = (n + 1) % DaysOfTheCentury
BY SMT DEF DaysOfTheCentury

\* One date is the day after another, whose month has "last" days.
IsNextDate(date, month, year, last, date1, month1, year1) ==
  /\ year \in 0 .. 99 /\ month \in 1 .. 12 /\ last \in Int /\ date \in 1 .. last
  /\ year1 \in 0 .. 99 /\ month1 \in 1 .. 12 /\ date1 \in 1 .. 31
  /\ last = Civil!MonthLength(month, year)
  /\ date # last => date1 = date + 1 /\ month1 = month /\ year1 = year
  /\ date = last => date1 = 1
  /\ date = last /\ month # 12 => month1 = month + 1 /\ year1 = year
  /\ date = last /\ month = 12 => month1 = 1 /\ year1 = (year + 1) % 100

LEMMA NextCivilDay ==
  ASSUME NEW date, NEW month, NEW year, NEW last, NEW date1, NEW month1, NEW year1,
         IsNextDate(date, month, year, last, date1, month1, year1)
  PROVE  /\ Civil!IsDate(date1, month1, year1)
         /\ Civil!DayNumber(date1, month1, year1) =
              (Civil!DayNumber(date, month, year) + 1) % DaysOfTheCentury
<1> SUFFICES ASSUME year \in 0 .. 99, month \in 1 .. 12, last \in Int, date \in 1 .. last,
                    year1 \in 0 .. 99, month1 \in 1 .. 12, date1 \in 1 .. 31,
                    last = Civil!MonthLength(month, year),
                    date # last => date1 = date + 1 /\ month1 = month /\ year1 = year,
                    date = last => date1 = 1,
                    date = last /\ month # 12 => month1 = month + 1 /\ year1 = year,
                    date = last /\ month = 12 => month1 = 1 /\ year1 = (year + 1) % 100
             PROVE  /\ Civil!IsDate(date1, month1, year1)
                    /\ Civil!DayNumber(date1, month1, year1) =
                         (Civil!DayNumber(date, month, year) + 1) % DaysOfTheCentury
  BY DEF IsNextDate
<1> DEFINE now == Civil!DayNumber(date, month, year)
           next == Civil!DayNumber(date1, month1, year1)
<1>1. last \in 28 .. 31 /\ date \in 1 .. last
  BY MonthsAddUp, Zenon
<1>2. date1 \in 1 .. Civil!MonthLength(month1, year1)
  <2>1. CASE date # last
    <3>1. month1 = month /\ year1 = year /\ date1 = date + 1
      BY <2>1
    <3>2. date + 1 \in 1 .. last
      BY <1>1, <2>1
    <3> QED BY <3>1, <3>2
  <2>2. CASE date = last
    <3>1. date1 = 1
      BY <2>2
    <3>2. Civil!MonthLength(month1, year1) \in 28 .. 31
      BY MonthsAddUp, Zenon
    <3> QED BY <3>1, <3>2
  <2> QED BY <2>1, <2>2
<1>3. Civil!IsDate(date1, month1, year1)
  BY <1>2 DEF Civil!IsDate
<1>4. now \in 0 .. DaysOfTheCentury - 1 /\ next \in 0 .. DaysOfTheCentury - 1
  <2>1. date \in 1 .. Civil!MonthLength(month, year)
    OBVIOUS
  <2> QED BY <1>2, <2>1, DayNumberBounds, Zenon
<1>5. /\ now = 365 * year + ((year + 3) \div 4) + Civil!DaysBefore(month, year) + date - 1
      /\ next = 365 * year1 + ((year1 + 3) \div 4) + Civil!DaysBefore(month1, year1) + date1 - 1
  BY DEF Civil!DayNumber
<1>6. CASE date # last
  <2>1. month1 = month /\ year1 = year /\ date1 = date + 1
    BY <1>6
  <2>2. Civil!DaysBefore(month, year) \in Int
    <3>1. /\ LeapDays(year) \in 0 .. 1
          /\ Civil!DaysBefore(month, year) \in 0 .. 334 + LeapDays(year)
      BY MonthsAddUp, Zenon
    <3> QED BY <3>1
  <2>3. next = now + 1
    <3> HIDE DEF now, next
    <3> QED BY <1>5, <2>1, <2>2
  <2> HIDE DEF now, next
  <2>4. next = (now + 1) % DaysOfTheCentury
    BY <1>4, <2>3, NextDayOfTheCentury, Zenon
  <2> QED BY <1>3, <2>4 DEF now, next
<1>7. CASE date = last /\ month # 12
  <2>1. month1 = month + 1 /\ year1 = year /\ date1 = 1
    BY <1>7
  <2>2. /\ Civil!DaysBefore(month, year) \in Int
        /\ Civil!DaysBefore(month1, year) = Civil!DaysBefore(month, year) + last
    <3>1. /\ LeapDays(year) \in 0 .. 1
          /\ Civil!DaysBefore(month, year) \in 0 .. 334 + LeapDays(year)
          /\ Civil!DaysBefore(month + 1, year) = Civil!DaysBefore(month, year) + last
      BY <1>7, MonthsAddUp, Zenon
    <3> QED BY <2>1, <3>1
  <2>3. next = now + 1
    <3> HIDE DEF now, next
    <3> QED BY <1>1, <1>5, <1>7, <2>1, <2>2
  <2> HIDE DEF now, next
  <2>4. next = (now + 1) % DaysOfTheCentury
    BY <1>4, <2>3, NextDayOfTheCentury, Zenon
  <2> QED BY <1>3, <2>4 DEF now, next
<1>8. CASE date = last /\ month = 12
  <2>1. month1 = 1 /\ date1 = 1 /\ year1 = (year + 1) % 100
    BY <1>8
  <2> DEFINE leap == LeapDays(year)
  <2>2. date = 31 /\ Civil!DaysBefore(12, year) = 334 + leap /\ Civil!DaysBefore(1, year1) = 0
    <3>1. Civil!MonthLength(12, year) = 31 /\ Civil!DaysBefore(12, year) = 334 + leap
      BY MonthsAddUp, Zenon
    <3>2. Civil!DaysBefore(1, year1) = 0
      BY DEF Civil!DaysBefore
    <3> QED BY <1>8, <3>1, <3>2
  <2>3. leap = ((year + 4) \div 4) - ((year + 3) \div 4)
    BY DEF Civil!LeapYear, LeapDays
  <2>4. leap \in 0 .. 1
    BY MonthsAddUp
  <2>5. now = 365 * year + ((year + 3) \div 4) + 334 + leap + 30
    <3> HIDE DEF now, next, leap
    <3> QED BY <1>5, <1>8, <2>2, <2>4
  <2>6. next = 365 * year1 + ((year1 + 3) \div 4)
    <3> HIDE DEF now, next
    <3> QED BY <1>5, <2>1, <2>2
  <2> HIDE DEF now, next, leap
  <2>7. next = (now + 1) % DaysOfTheCentury
    <3>1. CASE year = 99
      BY <2>1, <2>3, <2>5, <2>6, <3>1 DEF DaysOfTheCentury
    <3>2. CASE year # 99
      <4>1. year1 = year + 1
        BY <2>1, <3>2
      <4>2. next = now + 1
        BY <2>3, <2>5, <2>6, <4>1
      <4> QED BY <1>4, <4>2, NextDayOfTheCentury, Zenon
    <3> QED BY <3>1, <3>2
  <2> QED BY <1>3, <2>7 DEF now, next
<1> QED BY <1>6, <1>7, <1>8

\* What the property says of the hour, of a byte
HourDigitsOf(b) == IF TwelveHours(b) THEN Value(b, 2) ELSE UnpackBcd(b)
HourOf(b) ==
  IF TwelveHours(b) THEN (HourDigitsOf(b) % 12) + (IF PM(b) THEN 12 ELSE 0) ELSE HourDigitsOf(b)
ShowsAnHour(b) ==
  /\ b % 16 < 10 /\ b < 128
  /\ HourDigitsOf(b) \in IF TwelveHours(b) THEN 1 .. 12 ELSE 0 .. 23

LEMMA TickedHourOfTheDay ==
  ASSUME NEW b \in Byte, ShowsAnHour(b), TwelveHours(b) => HourDigitsOf(b) \notin {11, 12}
  PROVE  /\ HourOf(b) \in 0 .. 23
         /\ HourCascades(b) <=> HourOf(b) = 23
         /\ ShowsAnHour(TickedHour(b))
         /\ HourOf(TickedHour(b)) = IF HourOf(b) = 23 THEN 0 ELSE HourOf(b) + 1
         /\ TwelveHours(TickedHour(b)) <=> TwelveHours(b)
<1> DEFINE next == TickedHour(b)
<1>1. CASE TwelveHours(b)
  <2> DEFINE v == Value(b, 2)
             w == Value(next, 2)
  <2>1. b \in 64 .. 127 /\ b % 16 < 10
    BY <1>1 DEF TwelveHours, ShowsAnHour, Byte
  <2>2. v \in 1 .. 10
    BY <1>1 DEF ShowsAnHour, HourDigitsOf
  <2>3. /\ ~HourCascades(b) /\ next \in 64 .. 127 /\ next % 16 < 10
        /\ w = v + 1 /\ (PM(next) <=> PM(b))
    BY <2>1, <2>2, TickedTwelveHour, Zenon
  <2> HIDE DEF next, v, w
  <2>4. TwelveHours(next)
    BY <2>3 DEF TwelveHours
  <2>5. HourDigitsOf(b) = v /\ HourDigitsOf(next) = w
    BY <1>1, <2>4 DEF HourDigitsOf, v, w
  <2>6. v % 12 = v /\ w % 12 = v + 1
    BY <2>2, <2>3
  <2>7. /\ HourOf(b) = v + (IF PM(b) THEN 12 ELSE 0)
        /\ HourOf(next) = v + 1 + (IF PM(b) THEN 12 ELSE 0)
    BY <1>1, <2>3, <2>4, <2>5, <2>6 DEF HourOf
  <2>8. HourOf(b) \in 0 .. 22 /\ HourOf(next) = HourOf(b) + 1
    BY <2>2, <2>7
  <2>9. ShowsAnHour(next)
    BY <2>2, <2>3, <2>4, <2>5 DEF ShowsAnHour
  <2> QED BY <1>1, <2>3, <2>4, <2>8, <2>9 DEF next
<1>2. CASE ~TwelveHours(b)
  <2>1. b \in 0 .. 63 /\ b % 16 < 10 /\ b \div 16 < 4
    BY <1>2 DEF TwelveHours, ShowsAnHour, Byte
  <2>2. next = Ticked(b, 0, 23, 4)
    BY <1>2 DEF TickedHour
  <2>3. /\ Cascades(b, 23, 4) <=> UnpackBcd(b) + 1 > 23
        /\ UnpackBcd(next) = IF Cascades(b, 23, 4) THEN 0 ELSE UnpackBcd(b) + 1
        /\ next % 16 < 10 /\ next \div 16 \in 0 .. 9
    BY <2>1, <2>2, TickedNumber
  <2>4. UnpackBcd(b) \in 0 .. 23 /\ HourOf(b) = UnpackBcd(b)
    BY <1>2 DEF ShowsAnHour, HourDigitsOf, HourOf
  <2>5. HourCascades(b) <=> Cascades(b, 23, 4)
    BY <1>2 DEF HourCascades
  <2>6. UnpackBcd(next) \in 0 .. 23
    BY <2>3, <2>4
  <2>7. next \in Byte
    BY <2>2, TickedIsByte
  <2> HIDE DEF next
  <2>8. next \in 0 .. 63 /\ ~TwelveHours(next)
    BY <2>3, <2>6, <2>7 DEF UnpackBcd, TwelveHours, Byte
  <2>9. HourOf(next) = UnpackBcd(next) /\ HourDigitsOf(next) = UnpackBcd(next)
    BY <2>8 DEF HourOf, HourDigitsOf
  <2>10. ShowsAnHour(next)
    BY <2>3, <2>6, <2>8, <2>9 DEF ShowsAnHour
  <2> QED BY <1>2, <2>3, <2>4, <2>5, <2>8, <2>9, <2>10 DEF next
<1> QED BY <1>1, <1>2

\* The registers a tick leaves, each by the carry that reaches it
LEMMA TickedRegisters ==
  ASSUME DsTypeOK, nvram' = TickTime(nvram)
  PROVE  /\ \A r \in 0 .. 6 : nvram[r] \in Byte
         /\ nvram'[SECONDS] = Ticked(nvram[SECONDS], 0, 59, 8)
         /\ nvram'[MINUTES] =
              IF SecondsCarry(nvram) THEN Ticked(nvram[MINUTES], 0, 59, 8) ELSE nvram[MINUTES]
         /\ nvram'[HOURS] = IF MinutesCarry(nvram) THEN TickedHour(nvram[HOURS]) ELSE nvram[HOURS]
         /\ nvram'[DAY] = IF HoursCarry(nvram) THEN Ticked(nvram[DAY], 1, 7, 1) ELSE nvram[DAY]
         /\ nvram'[DATE] =
              IF HoursCarry(nvram) THEN Ticked(nvram[DATE], 1, LastDate(nvram), 4) ELSE nvram[DATE]
         /\ nvram'[MONTH] =
              IF DateCarry(nvram) THEN Ticked(nvram[MONTH], 1, 12, 2) ELSE nvram[MONTH]
         /\ nvram'[YEAR] =
              IF MonthCarry(nvram) THEN Ticked(nvram[YEAR], 0, 99, 16) ELSE nvram[YEAR]
<1> USE DEF SECONDS, MINUTES, HOURS, DAY, DATE, MONTH, YEAR
<1>1. \A r \in 0 .. 6 : r \in Nvram /\ nvram[r] \in Byte
  BY DEF DsTypeOK, Nvram
<1>2. nvram'[SECONDS] = Ticked(nvram[SECONDS], 0, 59, 8)
  BY <1>1 DEF TickTime
<1>3. nvram'[MINUTES] =
        IF SecondsCarry(nvram) THEN Ticked(nvram[MINUTES], 0, 59, 8) ELSE nvram[MINUTES]
  BY <1>1 DEF TickTime
<1>4. nvram'[HOURS] = IF MinutesCarry(nvram) THEN TickedHour(nvram[HOURS]) ELSE nvram[HOURS]
  BY <1>1 DEF TickTime
<1>5. nvram'[DAY] = IF HoursCarry(nvram) THEN Ticked(nvram[DAY], 1, 7, 1) ELSE nvram[DAY]
  BY <1>1 DEF TickTime
<1>6. nvram'[DATE] =
        IF HoursCarry(nvram) THEN Ticked(nvram[DATE], 1, LastDate(nvram), 4) ELSE nvram[DATE]
  BY <1>1 DEF TickTime
<1>7. nvram'[MONTH] = IF DateCarry(nvram) THEN Ticked(nvram[MONTH], 1, 12, 2) ELSE nvram[MONTH]
  BY <1>1 DEF TickTime
<1>8. nvram'[YEAR] = IF MonthCarry(nvram) THEN Ticked(nvram[YEAR], 0, 99, 16) ELSE nvram[YEAR]
  BY <1>1 DEF TickTime
<1> QED BY <1>1, <1>2, <1>3, <1>4, <1>5, <1>6, <1>7, <1>8, Zenon

LEMMA NumberUnpacks ==
  ASSUME NEW r, nvram[r] \in Byte
  PROVE  Number(r) = UnpackBcd(nvram[r])
BY DEF Number, UnpackBcd, Byte

LEMMA NextNumberUnpacks ==
  ASSUME NEW CONSTANT r, nvram'[r] \in Byte
  PROVE  Number(r)' = UnpackBcd(nvram'[r])
BY DEF Number, UnpackBcd, Byte

LastSecond == 86399

DaySecond(hour, min, sec) == 3600 * hour + 60 * min + sec

LEMMA SecondsOfADay ==
  ASSUME NEW hour \in 0 .. 23, NEW min \in 0 .. 59, NEW sec \in 0 .. 59
  PROVE  /\ DaySecond(hour, min, sec) \in 0 .. LastSecond
         /\ DaySecond(hour, min, sec) = LastSecond <=> hour = 23 /\ min = 59 /\ sec = 59
<1> DEFINE second == 3600 * hour + 60 * min + sec
<1>1. second >= 0 /\ second \in Int
  BY SMT
<1>2. second <= LastSecond
  BY SMT DEF LastSecond
<1>3. second = LastSecond <=> hour = 23 /\ min = 59 /\ sec = 59
  BY SMT DEF LastSecond
<1>4. LastSecond \in Int
  BY SMT DEF LastSecond
<1> HIDE DEF second
<1> QED BY <1>1, <1>2, <1>3, <1>4 DEF second, DaySecond

SecondOfDay == DaySecond(Hour, Number(MINUTES), Number(SECONDS))

\* The time of day: seconds, minutes and hours carry as one number does.
LEMMA TimeOfDayTicked ==
  ASSUME DsTypeOK, nvram' = TickTime(nvram), ShowsATime,
         TwelveHours(nvram[HOURS]) => HourDigits \notin {11, 12}
  PROVE  /\ SecondOfDay \in 0 .. LastSecond
         /\ HoursCarry(nvram) <=> SecondOfDay = LastSecond
         /\ SecondOfDay' = IF HoursCarry(nvram) THEN 0 ELSE SecondOfDay + 1
         /\ \A r \in {SECONDS, MINUTES} : IsBcd(nvram[r], 6)'
         /\ ShowsAnHour(nvram'[HOURS])
         /\ TwelveHours(nvram'[HOURS]) <=> TwelveHours(nvram[HOURS])
<1> DEFINE sec == UnpackBcd(nvram[SECONDS])
           sec1 == UnpackBcd(nvram'[SECONDS])
           min == UnpackBcd(nvram[MINUTES])
           min1 == UnpackBcd(nvram'[MINUTES])
           hour == HourOf(nvram[HOURS])
           hour1 == HourOf(nvram'[HOURS])
<1>1. SECONDS \in 0 .. 6 /\ MINUTES \in 0 .. 6 /\ HOURS \in 0 .. 6
  BY DEF SECONDS, MINUTES, HOURS
<1>2. nvram[SECONDS] \in Byte /\ nvram[MINUTES] \in Byte /\ nvram[HOURS] \in Byte
  BY <1>1, TickedRegisters
<1>3. nvram'[SECONDS] \in Byte /\ nvram'[MINUTES] \in Byte /\ nvram'[HOURS] \in Byte
  BY TickTimeType DEF DsTypeOK, SECONDS, MINUTES, HOURS, Nvram
<1>4. /\ sec \in 0 .. 59
      /\ SecondsCarry(nvram) <=> sec = 59
      /\ sec1 = IF SecondsCarry(nvram) THEN 0 ELSE sec + 1
      /\ nvram'[SECONDS] % 16 < 10 /\ nvram'[SECONDS] \div 16 < 6
  <2> DEFINE b == nvram[SECONDS]
             c == nvram'[SECONDS]
  <2>1. b \in Byte /\ b % 16 < 10 /\ b \div 16 < 6
    BY <1>2 DEF ShowsATime, IsBcd
  <2>2. c = Ticked(b, 0, 59, 8)
    BY TickedRegisters
  <2>3. SecondsCarry(nvram) <=> Cascades(b, 59, 8)
    BY DEF SecondsCarry
  <2> HIDE DEF b, c
  <2>4. b \div 16 < 8 /\ UnpackBcd(b) \in 0 .. 59
    BY <2>1 DEF UnpackBcd, Byte
  <2>5. /\ Cascades(b, 59, 8) <=> UnpackBcd(b) + 1 > 59
        /\ UnpackBcd(c) = IF Cascades(b, 59, 8) THEN 0 ELSE UnpackBcd(b) + 1
        /\ c % 16 < 10 /\ c \div 16 \in 0 .. 9
    BY <2>1, <2>2, <2>4, TickedNumber
  <2>6. c \in Byte
    BY <2>1, <2>2, TickedIsByte
  <2>7. UnpackBcd(c) \in 0 .. 59
    BY <2>4, <2>5
  <2>8. c \div 16 < 6
    BY <2>5, <2>6, <2>7 DEF UnpackBcd, Byte
  <2> QED BY <2>3, <2>4, <2>5, <2>8 DEF b, c
<1>5. /\ min \in 0 .. 59
      /\ MinutesCarry(nvram) <=> SecondsCarry(nvram) /\ min = 59
      /\ min1 = IF ~SecondsCarry(nvram) THEN min ELSE IF min = 59 THEN 0 ELSE min + 1
      /\ nvram'[MINUTES] % 16 < 10 /\ nvram'[MINUTES] \div 16 < 6
  <2> DEFINE b == nvram[MINUTES]
             c == nvram'[MINUTES]
  <2>1. b \in Byte /\ b % 16 < 10 /\ b \div 16 < 6
    BY <1>2 DEF ShowsATime, IsBcd
  <2>2. c = IF SecondsCarry(nvram) THEN Ticked(b, 0, 59, 8) ELSE b
    BY TickedRegisters
  <2>3. MinutesCarry(nvram) <=> SecondsCarry(nvram) /\ Cascades(b, 59, 8)
    BY DEF MinutesCarry
  <2> HIDE DEF b, c
  <2>4. b \div 16 < 8 /\ UnpackBcd(b) \in 0 .. 59
    BY <2>1 DEF UnpackBcd, Byte
  <2> DEFINE d == Ticked(b, 0, 59, 8)
  <2>5. /\ Cascades(b, 59, 8) <=> UnpackBcd(b) + 1 > 59
        /\ UnpackBcd(d) = IF Cascades(b, 59, 8) THEN 0 ELSE UnpackBcd(b) + 1
        /\ d % 16 < 10 /\ d \div 16 \in 0 .. 9
    BY <2>1, <2>4, TickedNumber
  <2>6. d \in Byte
    BY <2>1, TickedIsByte
  <2> HIDE DEF d
  <2>7. UnpackBcd(d) \in 0 .. 59
    BY <2>4, <2>5
  <2>8. d \div 16 < 6
    BY <2>5, <2>6, <2>7 DEF UnpackBcd, Byte
  <2>9. c = IF SecondsCarry(nvram) THEN d ELSE b
    BY <2>2 DEF d
  <2>10. Cascades(b, 59, 8) <=> UnpackBcd(b) = 59
    BY <2>4, <2>5
  <2>11. UnpackBcd(c) = IF ~SecondsCarry(nvram) THEN UnpackBcd(b)
                        ELSE IF UnpackBcd(b) = 59 THEN 0 ELSE UnpackBcd(b) + 1
    BY <2>5, <2>9, <2>10
  <2>12. c % 16 < 10 /\ c \div 16 < 6
    BY <2>1, <2>5, <2>8, <2>9
  <2> QED BY <2>3, <2>4, <2>10, <2>11, <2>12 DEF b, c
<1>6. /\ hour \in 0 .. 23
      /\ HoursCarry(nvram) <=> MinutesCarry(nvram) /\ hour = 23
      /\ hour1 = IF ~MinutesCarry(nvram) THEN hour ELSE IF hour = 23 THEN 0 ELSE hour + 1
      /\ ShowsAnHour(nvram'[HOURS])
      /\ TwelveHours(nvram'[HOURS]) <=> TwelveHours(nvram[HOURS])
  <2> DEFINE b == nvram[HOURS]
             c == nvram'[HOURS]
  <2>1. HourDigits = HourDigitsOf(b)
    BY <1>2, NumberUnpacks DEF HourDigits, HourDigitsOf
  <2>2. b \in Byte /\ ShowsAnHour(b) /\ (TwelveHours(b) => HourDigitsOf(b) \notin {11, 12})
    BY <1>2, <2>1 DEF ShowsATime, ShowsAnHour
  <2>3. c = IF MinutesCarry(nvram) THEN TickedHour(b) ELSE b
    BY TickedRegisters
  <2>4. HoursCarry(nvram) <=> MinutesCarry(nvram) /\ HourCascades(b)
    BY DEF HoursCarry
  <2>5. /\ HourOf(b) \in 0 .. 23
        /\ HourCascades(b) <=> HourOf(b) = 23
        /\ ShowsAnHour(TickedHour(b))
        /\ HourOf(TickedHour(b)) = IF HourOf(b) = 23 THEN 0 ELSE HourOf(b) + 1
        /\ TwelveHours(TickedHour(b)) <=> TwelveHours(b)
    BY <2>2, TickedHourOfTheDay
  <2> HIDE DEF b, c
  <2>6. /\ HoursCarry(nvram) <=> MinutesCarry(nvram) /\ HourOf(b) = 23
        /\ HourOf(c) = IF ~MinutesCarry(nvram) THEN HourOf(b)
                       ELSE IF HourOf(b) = 23 THEN 0 ELSE HourOf(b) + 1
        /\ ShowsAnHour(c)
        /\ TwelveHours(c) <=> TwelveHours(b)
    BY <2>2, <2>3, <2>4, <2>5
  <2> QED BY <2>5, <2>6 DEF b, c
<1>7. /\ Number(SECONDS) = sec /\ Number(SECONDS)' = sec1
      /\ Number(MINUTES) = min /\ Number(MINUTES)' = min1
  BY <1>3, <1>2, NumberUnpacks, NextNumberUnpacks DEF SECONDS, MINUTES
<1>8. Hour = hour /\ Hour' = hour1
  <2>1. HourDigits = HourDigitsOf(nvram[HOURS])
    BY <1>2, NumberUnpacks DEF HourDigits, HourDigitsOf
  <2>2. HourDigits' = HourDigitsOf(nvram'[HOURS])
    BY <1>3, NextNumberUnpacks DEF HourDigits, HourDigitsOf, HOURS
  <2> QED BY <2>1, <2>2 DEF Hour, HourOf
<1>9. \A r \in {SECONDS, MINUTES} : IsBcd(nvram[r], 6)'
  BY <1>4, <1>5 DEF IsBcd
<1> DEFINE t == DaySecond(hour, min, sec)
           t1 == DaySecond(hour1, min1, sec1)
<1>10. SecondOfDay = t /\ SecondOfDay' = t1
  BY <1>7, <1>8 DEF SecondOfDay
<1>11. /\ t \in 0 .. LastSecond
       /\ HoursCarry(nvram) <=> t = LastSecond
       /\ t1 = IF HoursCarry(nvram) THEN 0 ELSE t + 1
  <2> HIDE DEF sec, sec1, min, min1, hour, hour1
  <2>1. hour \in 0 .. 23 /\ min \in 0 .. 59 /\ sec \in 0 .. 59
    BY <1>4, <1>5, <1>6, Zenon
  <2>2. t \in 0 .. LastSecond /\ (t = LastSecond <=> hour = 23 /\ min = 59 /\ sec = 59)
    BY <2>1, SecondsOfADay, Zenon
  <2>3. HoursCarry(nvram) <=> hour = 23 /\ min = 59 /\ sec = 59
    BY <1>4, <1>5, <1>6, Zenon
  <2>4. CASE sec # 59
    <3>1. sec1 = sec + 1 /\ min1 = min /\ hour1 = hour
      BY <1>4, <1>5, <1>6, <2>4
    <3> QED BY <2>1, <2>2, <2>3, <2>4, <3>1, SMT DEF DaySecond
  <2>5. CASE sec = 59 /\ min # 59
    <3>1. sec1 = 0 /\ min1 = min + 1 /\ hour1 = hour
      BY <1>4, <1>5, <1>6, <2>5
    <3> QED BY <2>1, <2>2, <2>3, <2>5, <3>1, SMT DEF DaySecond
  <2>6. CASE sec = 59 /\ min = 59 /\ hour # 23
    <3>1. sec1 = 0 /\ min1 = 0 /\ hour1 = hour + 1
      BY <1>4, <1>5, <1>6, <2>6
    <3> QED BY <2>1, <2>2, <2>3, <2>6, <3>1, SMT DEF DaySecond
  <2>7. CASE sec = 59 /\ min = 59 /\ hour = 23
    <3>1. sec1 = 0 /\ min1 = 0 /\ hour1 = 0
      BY <1>4, <1>5, <1>6, <2>7
    <3> QED BY <2>1, <2>2, <2>3, <2>7, <3>1, SMT DEF DaySecond
  <2> QED BY <2>4, <2>5, <2>6, <2>7, SMT
<1> HIDE DEF t, t1
<1>12. /\ SecondOfDay \in 0 .. LastSecond
       /\ HoursCarry(nvram) <=> SecondOfDay = LastSecond
       /\ SecondOfDay' = IF HoursCarry(nvram) THEN 0 ELSE SecondOfDay + 1
  BY <1>10, <1>11, SMT
<1>13. ShowsAnHour(nvram'[HOURS]) /\ (TwelveHours(nvram'[HOURS]) <=> TwelveHours(nvram[HOURS]))
  BY <1>6, Zenon
<1> QED BY <1>9, <1>12, <1>13, SMT

ThisDay == Civil!DayNumber(Number(DATE), Number(MONTH), Number(YEAR))

\* The date: at midnight the day, the month and the year move on to the
\* civil calendar's next day, and at no other time.
LEMMA DateTicked ==
  ASSUME DsTypeOK, nvram' = TickTime(nvram), ShowsATime, Number(MONTH) # 2
  PROVE  /\ \A r \in {DATE, MONTH, YEAR} : IsBcd(nvram[r], 10)'
         /\ Civil!IsDate(Number(DATE), Number(MONTH), Number(YEAR))'
         /\ ThisDay' = IF HoursCarry(nvram) THEN (ThisDay + 1) % DaysOfTheCentury ELSE ThisDay
<1> DEFINE date == UnpackBcd(nvram[DATE])
           date1 == UnpackBcd(nvram'[DATE])
           month == UnpackBcd(nvram[MONTH])
           month1 == UnpackBcd(nvram'[MONTH])
           year == UnpackBcd(nvram[YEAR])
           year1 == UnpackBcd(nvram'[YEAR])
           last == Civil!MonthLength(month, year)
<1>1. DATE \in 0 .. 6 /\ MONTH \in 0 .. 6 /\ YEAR \in 0 .. 6
  BY DEF DATE, MONTH, YEAR
<1>2. nvram[DATE] \in Byte /\ nvram[MONTH] \in Byte /\ nvram[YEAR] \in Byte
  BY <1>1, TickedRegisters
<1>3. nvram'[DATE] \in Byte /\ nvram'[MONTH] \in Byte /\ nvram'[YEAR] \in Byte
  BY TickTimeType DEF DsTypeOK, DATE, MONTH, YEAR, Nvram
<1>4. /\ Number(DATE) = date /\ Number(DATE)' = date1
      /\ Number(MONTH) = month /\ Number(MONTH)' = month1
      /\ Number(YEAR) = year /\ Number(YEAR)' = year1
  BY <1>2, <1>3, NumberUnpacks, NextNumberUnpacks DEF DATE, MONTH, YEAR
<1>5. year \in 0 .. 99 /\ month \in 1 .. 12 /\ month # 2 /\ date \in 1 .. last
  BY <1>4 DEF ShowsATime, Civil!IsDate
<1>6. last \in 28 .. 31
  BY <1>5, MonthsAddUp, Zenon
<1>7. LastDate(nvram) = last
  BY <1>5, MonthLengths DEF LastDate
<1>8. /\ DateCarry(nvram) <=> HoursCarry(nvram) /\ date = last
      /\ date1 = IF ~HoursCarry(nvram) THEN date ELSE IF date = last THEN 1 ELSE date + 1
      /\ IsBcd(nvram[DATE], 10)'
  <2> DEFINE b == nvram[DATE]
             c == nvram'[DATE]
             d == Ticked(b, 1, last, 4)
  <2>1. b \in Byte /\ b % 16 < 10 /\ b \div 16 < 10
    BY <1>2 DEF ShowsATime, IsBcd
  <2>2. c = IF HoursCarry(nvram) THEN d ELSE b
    BY <1>7, TickedRegisters
  <2>3. DateCarry(nvram) <=> HoursCarry(nvram) /\ Cascades(b, last, 4)
    BY <1>7 DEF DateCarry
  <2>4. UnpackBcd(b) \in 1 .. last
    BY <1>5
  <2> HIDE DEF b, c, last
  <2>5. b \div 16 < 4 /\ last \in 1 .. 99 /\ last < 40
    BY <1>6, <2>1, <2>4 DEF UnpackBcd, Byte
  <2>6. /\ Cascades(b, last, 4) <=> UnpackBcd(b) + 1 > last
        /\ UnpackBcd(d) = IF Cascades(b, last, 4) THEN 1 ELSE UnpackBcd(b) + 1
        /\ d % 16 < 10 /\ d \div 16 \in 0 .. 9
    <3>1. 4 \in {2, 4, 8, 16} /\ 1 \in {0, 1} /\ last < 10 * 4
      BY <2>5
    <3> QED BY <2>1, <2>5, <3>1, TickedNumber, Zenon
  <2>7. Cascades(b, last, 4) <=> UnpackBcd(b) = last
    BY <1>6, <2>4, <2>6
  <2> HIDE DEF d
  <2>8. UnpackBcd(c) = IF ~HoursCarry(nvram) THEN UnpackBcd(b)
                       ELSE IF UnpackBcd(b) = last THEN 1 ELSE UnpackBcd(b) + 1
    BY <2>2, <2>6, <2>7
  <2>9. c % 16 < 10 /\ c \div 16 < 10
    BY <2>1, <2>2, <2>6
  <2>10. IsBcd(nvram[DATE], 10)'
    BY <2>9 DEF IsBcd, c
  <2> QED BY <2>3, <2>7, <2>8, <2>10 DEF b, c
<1>9. /\ MonthCarry(nvram) <=> DateCarry(nvram) /\ month = 12
      /\ month1 = IF ~DateCarry(nvram) THEN month ELSE IF month = 12 THEN 1 ELSE month + 1
      /\ IsBcd(nvram[MONTH], 10)'
  <2> DEFINE b == nvram[MONTH]
             c == nvram'[MONTH]
             d == Ticked(b, 1, 12, 2)
  <2>1. b \in Byte /\ b % 16 < 10 /\ b \div 16 < 10
    BY <1>2 DEF ShowsATime, IsBcd
  <2>2. c = IF DateCarry(nvram) THEN d ELSE b
    BY TickedRegisters
  <2>3. MonthCarry(nvram) <=> DateCarry(nvram) /\ Cascades(b, 12, 2)
    BY DEF MonthCarry
  <2>4. UnpackBcd(b) \in 1 .. 12
    BY <1>5
  <2> HIDE DEF b, c
  <2>5. b \div 16 < 2
    BY <2>1, <2>4 DEF UnpackBcd, Byte
  <2>6. /\ Cascades(b, 12, 2) <=> UnpackBcd(b) + 1 > 12
        /\ UnpackBcd(d) = IF Cascades(b, 12, 2) THEN 1 ELSE UnpackBcd(b) + 1
        /\ d % 16 < 10 /\ d \div 16 \in 0 .. 9
    BY <2>1, <2>5, TickedNumber
  <2>7. Cascades(b, 12, 2) <=> UnpackBcd(b) = 12
    BY <2>4, <2>6
  <2> HIDE DEF d
  <2>8. UnpackBcd(c) = IF ~DateCarry(nvram) THEN UnpackBcd(b)
                       ELSE IF UnpackBcd(b) = 12 THEN 1 ELSE UnpackBcd(b) + 1
    BY <2>2, <2>6, <2>7
  <2>9. c % 16 < 10 /\ c \div 16 < 10
    BY <2>1, <2>2, <2>6
  <2>10. IsBcd(nvram[MONTH], 10)'
    BY <2>9 DEF IsBcd, c
  <2> QED BY <2>3, <2>7, <2>8, <2>10 DEF b, c
<1>10. /\ year1 = IF MonthCarry(nvram) THEN (year + 1) % 100 ELSE year
       /\ IsBcd(nvram[YEAR], 10)'
  <2> DEFINE b == nvram[YEAR]
             c == nvram'[YEAR]
             d == Ticked(b, 0, 99, 16)
  <2>1. b \in Byte /\ b % 16 < 10 /\ b \div 16 < 10
    BY <1>2 DEF ShowsATime, IsBcd
  <2>2. c = IF MonthCarry(nvram) THEN d ELSE b
    BY TickedRegisters
  <2>3. UnpackBcd(b) \in 0 .. 99
    BY <1>5
  <2> HIDE DEF b, c
  <2>4. b \div 16 < 16
    BY <2>1 DEF Byte
  <2>5. /\ Cascades(b, 99, 16) <=> UnpackBcd(b) + 1 > 99
        /\ UnpackBcd(d) = IF Cascades(b, 99, 16) THEN 0 ELSE UnpackBcd(b) + 1
        /\ d % 16 < 10 /\ d \div 16 \in 0 .. 9
    BY <2>1, <2>4, TickedNumber
  <2> HIDE DEF d
  <2>6. UnpackBcd(d) = (UnpackBcd(b) + 1) % 100
    BY <2>3, <2>5
  <2>7. c % 16 < 10 /\ c \div 16 < 10
    BY <2>1, <2>2, <2>5
  <2>8. IsBcd(nvram[YEAR], 10)'
    BY <2>7 DEF IsBcd, c
  <2> QED BY <2>2, <2>6, <2>8 DEF b, c
<1> HIDE DEF date, date1, month, month1, year, year1
<1>11. month1 \in 1 .. 12 /\ year1 \in 0 .. 99
  BY <1>5, <1>9, <1>10
<1>12. CASE HoursCarry(nvram)
  <2>1. /\ date # last => date1 = date + 1 /\ month1 = month /\ year1 = year
        /\ date = last => date1 = 1
        /\ date = last /\ month # 12 => month1 = month + 1 /\ year1 = year
        /\ date = last /\ month = 12 => month1 = 1 /\ year1 = (year + 1) % 100
    BY <1>8, <1>9, <1>10, <1>12
  <2>2. date1 \in 1 .. 31
    BY <1>5, <1>6, <2>1
  <2>3. last \in Int /\ last = Civil!MonthLength(month, year)
    BY <1>6
  <2> HIDE DEF last
  <2>4. /\ Civil!IsDate(date1, month1, year1)
        /\ Civil!DayNumber(date1, month1, year1) =
             (Civil!DayNumber(date, month, year) + 1) % DaysOfTheCentury
    <3>1. IsNextDate(date, month, year, last, date1, month1, year1)
      BY <1>5, <1>11, <2>1, <2>2, <2>3, Zenon DEF IsNextDate
    <3>2. Civil!IsDate(date1, month1, year1)
      BY <3>1, NextCivilDay, Zenon
    <3>3. Civil!DayNumber(date1, month1, year1) =
            (Civil!DayNumber(date, month, year) + 1) % DaysOfTheCentury
      BY <3>1, NextCivilDay, SMT
    <3> QED BY <3>2, <3>3, Zenon
  <2> QED BY <1>4, <1>8, <1>9, <1>10, <1>12, <2>4 DEF ThisDay
<1>13. CASE ~HoursCarry(nvram)
  <2>1. date1 = date /\ month1 = month /\ year1 = year
    BY <1>8, <1>9, <1>10, <1>13
  <2>2. Civil!IsDate(date1, month1, year1)
    BY <1>4, <2>1 DEF ShowsATime
  <2> QED BY <1>4, <1>8, <1>9, <1>10, <1>13, <2>1, <2>2 DEF ThisDay
<1> QED BY <1>12, <1>13

\* Where the property speaks, the registers after the tick show the civil
\* calendar's next second.
LEMMA NextSecondShown ==
  ASSUME DsTypeOK, nvram' = TickTime(nvram), ShowsATime, Number(MONTH) # 2,
         TwelveHours(nvram[HOURS]) => HourDigits \notin {11, 12}
  PROVE  ShowsTheNextSecond
<1>1. /\ SecondOfDay \in 0 .. LastSecond
      /\ HoursCarry(nvram) <=> SecondOfDay = LastSecond
      /\ SecondOfDay' = IF HoursCarry(nvram) THEN 0 ELSE SecondOfDay + 1
      /\ \A r \in {SECONDS, MINUTES} : IsBcd(nvram[r], 6)'
      /\ ShowsAnHour(nvram'[HOURS])
      /\ TwelveHours(nvram'[HOURS]) <=> TwelveHours(nvram[HOURS])
  BY TimeOfDayTicked, Zenon
<1>2. /\ \A r \in {DATE, MONTH, YEAR} : IsBcd(nvram[r], 10)'
      /\ Civil!IsDate(Number(DATE), Number(MONTH), Number(YEAR))'
      /\ ThisDay' = IF HoursCarry(nvram) THEN (ThisDay + 1) % DaysOfTheCentury ELSE ThisDay
  BY DateTicked, Zenon
<1>3. nvram[DAY] \in 1 .. 7
  BY DEF ShowsATime
<1>4. nvram'[DAY] = IF HoursCarry(nvram) THEN (nvram[DAY] % 7) + 1 ELSE nvram[DAY]
  BY <1>3, TickedRegisters, TickedDay
<1>5. nvram'[DAY] \in 1 .. 7
  BY <1>3, <1>4
<1>6. HourDigits' = HourDigitsOf(nvram'[HOURS])
  <2>1. nvram'[HOURS] \in Byte
    BY TickTimeType DEF DsTypeOK, HOURS, Nvram
  <2> QED BY <2>1, NextNumberUnpacks DEF HourDigits, HourDigitsOf, HOURS
<1>7. ShowsATime'
  BY <1>1, <1>2, <1>5, <1>6 DEF ShowsATime, ShowsAnHour
<1>8. /\ Now = Civil!Moment(ThisDay, SecondOfDay, nvram[DAY])
      /\ Now' = Civil!Moment(ThisDay', SecondOfDay', nvram'[DAY])
  BY DEF Now, ThisDay, SecondOfDay, DaySecond
<1>9. Now' = Civil!NextSecond(Now)
  <2>1. /\ Now.day = ThisDay /\ Now.second = SecondOfDay /\ Now.weekday = nvram[DAY]
        /\ \A s : [Now EXCEPT !.second = s] = Civil!Moment(ThisDay, s, nvram[DAY])
    BY <1>8 DEF Civil!Moment
  <2>2. CASE HoursCarry(nvram)
    <3>1. /\ ThisDay' = (ThisDay + 1) % DaysOfTheCentury
          /\ SecondOfDay' = 0 /\ nvram'[DAY] = (nvram[DAY] % 7) + 1
      BY <1>1, <1>2, <1>4, <2>2, Zenon
    <3>2. ~(SecondOfDay < 86399)
      BY <1>1, <2>2, SMT DEF LastSecond
    <3>3. Now' = [day |-> (ThisDay + 1) % 36525, second |-> 0, weekday |-> (nvram[DAY] % 7) + 1]
      BY <1>8, <3>1, SMT DEF Civil!Moment, DaysOfTheCentury
    <3> QED BY <2>1, <3>2, <3>3, SMT DEF Civil!NextSecond
  <2>3. CASE ~HoursCarry(nvram)
    <3>1. ThisDay' = ThisDay /\ SecondOfDay' = SecondOfDay + 1 /\ nvram'[DAY] = nvram[DAY]
      BY <1>1, <1>2, <1>4, <2>3, Zenon
    <3>2. SecondOfDay < 86399
      BY <1>1, <2>3, SMT DEF LastSecond
    <3>3. Now' = Civil!Moment(ThisDay, SecondOfDay + 1, nvram[DAY])
      BY <1>8, <3>1, Zenon
    <3>4. Civil!NextSecond(Now) = [Now EXCEPT !.second = Now.second + 1]
      BY <2>1, <3>2, SMT DEF Civil!NextSecond
    <3> QED BY <2>1, <3>3, <3>4, SMT
  <2> QED BY <2>2, <2>3
<1>10. TwelveHours(nvram[HOURS]) = TwelveHours(nvram[HOURS])'
  BY <1>1 DEF TwelveHours
<1> QED BY <1>7, <1>9, <1>10, Zenon DEF ShowsTheNextSecond

\* A clock that shows a time shows the next second of the civil calendar
\* when a second has passed, for every date of the century, every firmware
\* and every way the registers were set, with the two exceptions the
\* property names (ds3231_virt.cpp:192-275).
THEOREM SecondsAreCivilCorrect == DsSpec => SecondsAreCivil
<1>1. DsTypeOK /\ LinkType /\ [DsNext]_<<link, dsVars>> => DsTypeOK' /\ LinkType'
  BY DsStepTyped
<1>2. /\ DsTypeOK /\ [DsNext]_<<link, dsVars>>
      => [/\ seconds' # seconds /\ ShowsATime
          /\ Number(MONTH) # 2
          /\ TwelveHours(nvram[HOURS]) => HourDigits \notin {11, 12}
          => ShowsTheNextSecond]_dsVars
  <2> SUFFICES ASSUME DsTypeOK, [DsNext]_<<link, dsVars>>, seconds' # seconds, ShowsATime,
                      Number(MONTH) # 2,
                      TwelveHours(nvram[HOURS]) => HourDigits \notin {11, 12}
               PROVE  ShowsTheNextSecond
    OBVIOUS
  <2>1. ClockTick
    BY DEF DsNext, DsBusStep, dsVars, clock
  <2>2. nvram' = TickTime(nvram)
    BY <2>1 DEF ClockTick
  <2> QED BY <2>2, NextSecondShown
<1> QED BY <1>1, <1>2, ClockInitTyped, PTL DEF DsSpec, SecondsAreCivil
=============================================================================
