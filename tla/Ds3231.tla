------------------------------- MODULE Ds3231 -------------------------------
(***************************************************************************)
(* ds3231_virt, the real-time clock: sixty-four registers behind a         *)
(* register pointer on the I2C bus, a counter driven by a cycle timer that *)
(* adds a second to the time registers whenever it wraps, and a square     *)
(* wave derived from the same counter.  It is C code with a hook of its    *)
(* own, not a SimAvrI2CComponent.                                          *)
(***************************************************************************)
EXTENDS TwiMaster, Ds3231Calendar

CONSTANTS
  NamedRegisters,  \* register numbers the firmware sends
  RegisterBytes,   \* <<register, byte>> pairs the firmware writes
  ReadRegisters,   \* registers the firmware reads
  OpensWithStop,   \* whether a write is only opened on a free bus
  RtcModulus,      \* 65536: rtc is a uint16_t, counted twice per crystal period
  MaxSeconds       \* bound: seconds in a behaviour

ASSUME DsFirmware ==
  NamedRegisters \subseteq Byte /\ RegisterBytes \subseteq Byte \X Byte /\ ReadRegisters \subseteq Byte
ASSUME DsOpens == OpensWithStop \in BOOLEAN
ASSUME DsModulus == RtcModulus \in Nat \ {0} /\ RtcModulus % 64 = 0
ASSUME DsBounds == MaxSeconds \in Nat

DsAddress == 104

VARIABLES
  dsSelected,   \* selected is not 0
  regSelected,  \* reg_selected
  regAddr,      \* reg_addr
  nvram,
  rtc,
  squareWave,   \* square_wave
  outOfBounds,  \* nvram was indexed past its end: undefined, nothing follows
  dsReply,      \* raised on the bus while handling the last message
  naming,       \* history: the next byte written is a register number
  target,       \* history: register the firmware means the next byte for
  seconds,      \* history: seconds passed
  edges         \* history: edges of the wave since then, or Disturbed

pointer == <<dsSelected, regSelected, regAddr>>
clock == <<rtc, squareWave, seconds>>
dsHistory == <<naming, target>>
dsVars == <<pointer, nvram, clock, edges, outOfBounds, dsReply, dsHistory>>

\* The firmware chose another wave since the last second.
Disturbed == -1

DsTypeOK ==
  /\ dsSelected \in BOOLEAN /\ regSelected \in BOOLEAN
  /\ regAddr \in Byte
  /\ nvram \in [Nvram -> Byte]
  /\ rtc \in 0 .. RtcModulus - 1
  /\ squareWave \in BOOLEAN /\ outOfBounds \in BOOLEAN
  /\ dsReply \in Reply
  /\ naming \in BOOLEAN
  /\ target \in Byte
  /\ seconds \in Nat
  /\ edges \in Nat \cup {Disturbed}

DsInit ==
  /\ dsSelected = FALSE /\ regSelected = FALSE /\ regAddr = 0
  /\ nvram = [r \in Nvram |-> IF r = DAY THEN 1 ELSE 0]
  /\ rtc = 0 /\ squareWave = FALSE
  /\ outOfBounds = FALSE
  /\ dsReply = Silent
  /\ naming = FALSE /\ target = 0
  /\ seconds = 0 /\ edges = 0

-----------------------------------------------------------------------------
(* I2C messages                                                            *)

\* Mutant: the pointer wraps one register early.
MutantIncremented(r) == IF r < 63 THEN r + 1 ELSE 0

\* ds3231_virt_incr_addr
IncrementedAddr(r) == IF r < 64 THEN r + 1 ELSE 0

\* A STOP for any device, and a START for any device; the direction is not
\* looked at, and a START leaves reg_selected as it is.
DsOnStop(m) ==
  /\ m.cond = "STOP"
  /\ dsSelected' = FALSE /\ regSelected' = FALSE
  /\ dsReply' = Silent
  /\ UNCHANGED <<regAddr, nvram, outOfBounds, edges, dsHistory>>

DsOnStart(m) ==
  /\ m.cond = "START"
  /\ dsSelected' = (m.dev = DsAddress)
  /\ dsReply' = IF m.dev = DsAddress THEN Ack ELSE Silent
  /\ naming' = (m.dev = DsAddress /\ m.rw = "W")
  /\ UNCHANGED <<regSelected, regAddr, nvram, outOfBounds, edges, target>>

SelectPointer(m) ==
  /\ ~regSelected
  /\ regSelected' = TRUE
  /\ regAddr' = m.data
  /\ UNCHANGED <<nvram, outOfBounds, edges>>

\* INTCN, RS1 and RS2 of a control byte
WaveBits(byte) == (byte \div 4) % 8

StoreRegister(m) ==
  /\ regSelected /\ regAddr \in Nvram
  /\ nvram' = [nvram EXCEPT ![regAddr] = m.data]
  /\ regAddr' = IncrementedAddr(regAddr)
  /\ edges' = IF regAddr = CONTROL /\ WaveBits(m.data) # WaveBits(nvram[CONTROL])
              THEN Disturbed ELSE edges
  /\ UNCHANGED <<regSelected, outOfBounds>>

PastTheEnd ==
  /\ regAddr \notin Nvram
  /\ outOfBounds' = TRUE
  /\ UNCHANGED <<regAddr, regSelected, nvram, edges>>

DsOnWrite(m) ==
  /\ m.cond = "WRITE" /\ dsSelected
  /\ dsReply' = Ack
  /\ SelectPointer(m) \/ StoreRegister(m) \/ (regSelected /\ PastTheEnd)
  /\ naming' = FALSE
  /\ target' = IF naming THEN m.data ELSE (target + 1) % 256
  /\ UNCHANGED dsSelected

DsOnRead(m) ==
  /\ m.cond = "READ" /\ dsSelected
  /\ \/ /\ regAddr \in Nvram
        /\ dsReply' = Data(nvram[regAddr])
        /\ regAddr' = IncrementedAddr(regAddr)
        /\ UNCHANGED <<regSelected, nvram, outOfBounds, edges>>
     \/ dsReply' = Silent /\ PastTheEnd
  /\ target' = (target + 1) % 256
  /\ UNCHANGED <<dsSelected, naming>>

DsIgnore(m) ==
  /\ m.cond \in {"WRITE", "READ"} /\ ~dsSelected
  /\ dsReply' = Silent
  /\ UNCHANGED <<pointer, nvram, outOfBounds, edges, dsHistory>>

DsInHook(m) ==
  DsOnStop(m) \/ DsOnStart(m) \/ DsOnWrite(m) \/ DsOnRead(m) \/ DsIgnore(m)

-----------------------------------------------------------------------------
(* The clock                                                               *)

\* The four modes of the prescaler, as they are computed from the counter.
ClkFreq == RtcModulus \div 2
PrescalerMode == (nvram[CONTROL] \div 8) % 4
EdgeEvery ==
  CASE PrescalerMode = 0 -> ClkFreq
    [] PrescalerMode = 1 -> ClkFreq \div 32
    [] PrescalerMode = 2 -> ClkFreq \div 8
    [] PrescalerMode = 3 -> ClkFreq \div 4

SquareWaveEnabled == (nvram[CONTROL] \div 4) % 2 = 0
OscillatorEnabled == nvram[CONTROL] < 128

\* Mutant: an edge only when the whole counter wraps.
MutantEdgeAt(count) == SquareWaveEnabled /\ (count + 1) % (2 * EdgeEvery) = 0
EdgeAt(count) == SquareWaveEnabled /\ (count + 1) % EdgeEvery = 0

\* ds3231_virt_cycle_square_wave
CycledSquareWave(count) == IF EdgeAt(count) THEN ~squareWave ELSE squareWave

EdgesAfter(count) ==
  LET before == IF count = 0 THEN 0 ELSE edges
  IN  IF EdgeAt(count) /\ before # Disturbed THEN before + 1 ELSE before

\* Mutant: the counter is wider than RtcModulus.
MutantNextRtc == rtc + 1
NextRtc == (rtc + 1) % RtcModulus

\* ds3231_virt_clock_tick; with the oscillator disabled it changes nothing.
ClockTick ==
  /\ OscillatorEnabled
  /\ rtc' = NextRtc
  /\ nvram' = IF rtc' = 0 THEN TickTime(nvram) ELSE nvram
  /\ squareWave' = CycledSquareWave(rtc')
  /\ seconds' = IF rtc' = 0 THEN seconds + 1 ELSE seconds
  /\ edges' = EdgesAfter(rtc')
  /\ UNCHANGED <<link, pointer, outOfBounds, dsReply, dsHistory>>

-----------------------------------------------------------------------------
(* The specification                                                       *)

DsFirmwareSends(m) ==
  m.dev = DsAddress =>
    CASE m.cond = "START" -> OpensWithStop /\ m.rw = "W" => link = Free
      [] m.cond = "WRITE" /\ naming -> m.data \in NamedRegisters
      [] m.cond = "WRITE" /\ ~naming -> <<target, m.data>> \in RegisterBytes
      [] m.cond = "READ" -> target \in ReadRegisters
      [] m.cond = "STOP" -> TRUE

DsBusStep ==
  /\ \E m \in Offered : DsFirmwareSends(m) /\ Emit(m) /\ DsInHook(m)
  /\ UNCHANGED clock

DsNext ==
  /\ ~outOfBounds
  /\ \/ DsBusStep
     \/ seconds < MaxSeconds /\ ClockTick

ClockInit == DsInit /\ LinkInit

DsSpec == ClockInit /\ [][DsNext]_<<link, dsVars>>

-----------------------------------------------------------------------------
(* Properties                                                              *)

(***************************************************************************)
(* The register a byte is read from or written to is the one the firmware  *)
(* means: the number it sent, moved on by every byte since, kept over a    *)
(* STOP and another device's transaction and replaced by the next write    *)
(* ("read mode uses the last register address stored and write mode always *)
(* overwrites it", ds3231_virt.cpp:402).                                   *)
(***************************************************************************)
BytesGoWhereMeant ==
  dsSelected /\ ~outOfBounds =>
    /\ link.rw = "W" => (naming <=> ~regSelected)
    /\ ~naming => regAddr = target

Civil == INSTANCE CivilTime

\* The registers as a moment of the civil calendar
IsBcd(b, tens) == b % 16 < 10 /\ b \div 16 < tens
Number(r) == 10 * (nvram[r] \div 16) + (nvram[r] % 16)
HourDigits == IF TwelveHours(nvram[HOURS]) THEN Value(nvram[HOURS], 2) ELSE Number(HOURS)
Hour ==
  IF TwelveHours(nvram[HOURS])
  THEN (HourDigits % 12) + (IF PM(nvram[HOURS]) THEN 12 ELSE 0)
  ELSE HourDigits

ShowsATime ==
  /\ \A r \in {SECONDS, MINUTES} : IsBcd(nvram[r], 6)
  /\ nvram[HOURS] % 16 < 10 /\ nvram[HOURS] < 128
  /\ HourDigits \in IF TwelveHours(nvram[HOURS]) THEN 1 .. 12 ELSE 0 .. 23
  /\ nvram[DAY] \in 1 .. 7
  /\ \A r \in {DATE, MONTH, YEAR} : IsBcd(nvram[r], 10)
  /\ Civil!IsDate(Number(DATE), Number(MONTH), Number(YEAR))

Now ==
  Civil!Moment(Civil!DayNumber(Number(DATE), Number(MONTH), Number(YEAR)),
               3600 * Hour + 60 * Number(MINUTES) + Number(SECONDS), nvram[DAY])

ShowsTheNextSecond ==
  /\ ShowsATime'
  /\ Now' = Civil!NextSecond(Now)
  /\ TwelveHours(nvram[HOURS]) = TwelveHours(nvram[HOURS])'

(***************************************************************************)
(* A clock that shows a time shows the next second of the civil calendar   *)
(* when a second has passed, through every carry: outside February, whose  *)
(* length is wrong, and but for the 12-hour mode around 12, where the half *)
(* of the day changes an hour late (ds3231_virt.cpp:192-275).              *)
(***************************************************************************)
SecondsAreCivil ==
  [][/\ seconds' # seconds /\ ShowsATime
     /\ Number(MONTH) # 2
     /\ TwelveHours(nvram[HOURS]) => HourDigits \notin {11, 12}
     => ShowsTheNextSecond]_dsVars

(***************************************************************************)
(* "Leap year correction until 2100" (ds3231_virt.h:33): in February too   *)
(* the clock goes on to the next day of the civil calendar.                *)
(***************************************************************************)
LeapYearCorrection ==
  [][/\ seconds' # seconds /\ ShowsATime
     /\ Number(MONTH) = 2 /\ ~TwelveHours(nvram[HOURS])
     => ShowsTheNextSecond]_dsVars

(***************************************************************************)
(* In its slowest mode, "Hz1", the square wave makes one period, two       *)
(* edges, in each second the calendar counts, whatever the bus does and    *)
(* whenever the oscillator is stopped and started, unless another wave was *)
(* chosen in between (ds3231_virt.cpp:344-354).                            *)
(***************************************************************************)
OneHertz ==
  [][/\ seconds' # seconds /\ edges # Disturbed
     /\ SquareWaveEnabled /\ PrescalerMode = 0
     => edges = 2]_dsVars
=============================================================================
