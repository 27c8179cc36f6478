---------------------------- MODULE Hd44780Proofs ----------------------------
(***************************************************************************)
(* Theorems about the text display, for every wiring, every nibble the     *)
(* firmware may send and strobes without bound.                            *)
(***************************************************************************)
EXTENDS Hd44780, TLAPS

-----------------------------------------------------------------------------
(* Lemmas                                                                  *)

Cursor == (0 .. 103) \cup Glyphs

\* Every way of moving the cursor stays within vram.
LEMMA OnScreenInMemory ==
  ASSUME NEW c \in Nat PROVE OnScreen(c) \in 0 .. 103
BY DEF OnScreen

LEMMA KickCursorInMemory ==
  ASSUME NEW c \in Cursor PROVE KickCursor(c) \in Cursor
<1>1. Incremented(c) \in Cursor
  <2>1. CASE c < 128
    <3>1. c + 1 \in Nat
      BY DEF Cursor, Glyphs
    <3>2. OnScreen(c + 1) \in 0 .. 103
      BY <3>1, OnScreenInMemory
    <3> QED
      BY <2>1, <3>2 DEF Incremented, Cursor
  <2>2. CASE c >= 128
    BY <2>2 DEF Incremented, Cursor, Glyphs
  <2> QED
    BY <2>1, <2>2 DEF Cursor, Glyphs
<1>2. Decremented(c) \in Cursor
  BY DEF Decremented, Cursor, Glyphs
<1> QED
  BY <1>1, <1>2 DEF KickCursor

\* Two nibbles make a byte, and the first can be read back from it.
LEMMA NibblesMakeAByte ==
  ASSUME NEW h \in 0 .. 15, NEW l \in 0 .. 15
  PROVE  /\ 16 * h + l \in Byte
         /\ (16 * h + l) \div 16 = h
BY DEF Byte

LEMMA ByteHasNibbles ==
  ASSUME NEW b \in Byte
  PROVE  b \div 16 \in 0 .. 15 /\ b % 16 \in 0 .. 15
BY DEF Byte

\* What the display takes from its pins are pins.
LEMMA PinChangedHookType ==
  ASSUME LcdTypeOK, NEW v \in Pins PROVE PinChangedHook(v) \in Pins
<1>1. CASE wiring = "all"
  <2>1. WithLowestSet(pinstate.low) \in 0 .. 15
    BY DEF LcdTypeOK, Pins, WithLowestSet
  <2> QED
    BY <1>1, <2>1 DEF PinChangedHook, LcdTypeOK, Pins
<1>2. CASE wiring # "all"
  BY <1>2 DEF PinChangedHook, LcdTypeOK, Pins
<1> QED
  BY <1>1, <1>2

LEMMA OfferedPins == Strobe \cup Rest \subseteq Pins
<1>1. ASSUME NEW v \in Strobe PROVE v \in Pins
  <2>1. CASE v \in [rs : {FALSE}, rw : UsedRW, e : {TRUE}, high : Nibbles, low : LowNibbles]
    BY <2>1, LcdNibbles DEF UsedRW, Pins
  <2>2. CASE v \in [rs : {TRUE}, rw : UsedRW, e : {TRUE}, high : CharNibbles, low : LowNibbles]
    BY <2>2, LcdNibbles DEF UsedRW, Pins
  <2>3. \/ v \in [rs : {FALSE}, rw : UsedRW, e : {TRUE}, high : Nibbles, low : LowNibbles]
        \/ v \in [rs : {TRUE}, rw : UsedRW, e : {TRUE}, high : CharNibbles, low : LowNibbles]
    BY <1>1 DEF Strobe
  <2> QED
    BY <2>1, <2>2, <2>3
<1>2. ASSUME NEW v \in Rest PROVE v \in Pins
  <2>1. UsedRW \subseteq BOOLEAN
    BY DEF UsedRW
  <2>2. v \in [rs : UsedRW, rw : UsedRW, e : {FALSE}, high : {0}, low : {0}]
    BY <1>2 DEF Rest
  <2>3. v.high = 0 /\ v.low = 0 /\ v.e \in BOOLEAN /\ v.rs \in BOOLEAN /\ v.rw \in BOOLEAN
    BY <2>1, <2>2
  <2>4. v = [rs |-> v.rs, rw |-> v.rw, e |-> v.e, high |-> 0, low |-> 0]
    BY <2>2, <2>3
  <2> QED
    BY <2>3, <2>4 DEF Pins
<1> QED
  BY <1>1, <1>2

LEMMA AssembledByte ==
  ASSUME LcdTypeOK PROVE Assembled \in Byte
<1>1. pinstate.high \in 0 .. 15 /\ pinstate.low \in 0 .. 15
  BY DEF LcdTypeOK, Pins
<1>2. datapins \div 16 \in 0 .. 15 /\ datapins % 16 \in 0 .. 15
  BY ByteHasNibbles DEF LcdTypeOK
<1> QED
  BY <1>1, <1>2, NibblesMakeAByte DEF Assembled

\* A byte, written as data or as a command, keeps the memory's types.
LEMMA ByteKeepsMemory ==
  ASSUME LcdTypeOK, NEW b \in Byte, WriteData(b) \/ WriteCommand(b)
  PROVE  /\ flags' \in [dl : BOOLEAN, n : BOOLEAN, id : BOOLEAN, sc : BOOLEAN]
         /\ cursor' \in Cursor
         /\ vram' \in [Vram -> Byte]
<1>1. cursor \in Cursor /\ cursor \in Vram
  BY DEF LcdTypeOK, Cursor, Vram, Text, Glyphs
<1>2. CASE WriteData(b)
  BY <1>1, <1>2, KickCursorInMemory DEF WriteData, LcdTypeOK
<1>3. CASE WriteCommand(b)
  <2>1. flags' \in [dl : BOOLEAN, n : BOOLEAN, id : BOOLEAN, sc : BOOLEAN]
    BY <1>3 DEF WriteCommand, ClearScreen, memory, LcdTypeOK, Bit
  <2>2. cursor' \in Cursor
    <3>1. ASSUME b >= 128 PROVE OnScreen(b - 128) \in Cursor
      <4>1. b - 128 \in Nat
        BY <3>1 DEF Byte
      <4> QED
        BY <4>1, OnScreenInMemory DEF Cursor
    <3> QED
      BY <1>1, <1>3, <3>1 DEF WriteCommand, ClearScreen, memory, Cursor, Glyphs
  <2>3. vram' \in [Vram -> Byte]
    BY <1>3 DEF WriteCommand, ClearScreen, memory, LcdTypeOK, Byte
  <2> QED
    BY <2>1, <2>2, <2>3
<1> QED
  BY <1>2, <1>3

-----------------------------------------------------------------------------
(* Theorems                                                                *)

\* The display keeps its types, and its cursor stays an index into vram,
\* whatever the firmware sends and however the timers fall
\* (hd44780.cpp:72-221).
THEOREM LcdTypeCorrect == LcdSpec => []LcdTypeOK
<1>1. LcdInit => LcdTypeOK
  <2> SUFFICES ASSUME LcdInit PROVE LcdTypeOK
    OBVIOUS
  <2>1. vram \in [Vram -> Byte]
    BY DEF LcdInit, Byte
  <2>2. cursor \in (0 .. 103) \cup Glyphs
    BY DEF LcdInit
  <2>3. datapins \in Byte /\ readpins \in Byte
    BY DEF LcdInit, Byte
  <2>4. Idle \in Pins
    BY DEF Idle, Pins
  <2>5. flags \in [dl : BOOLEAN, n : BOOLEAN, id : BOOLEAN, sc : BOOLEAN]
    BY DEF LcdInit
  <2>6. port \in Pins /\ pinstate \in Pins
    BY <2>4 DEF LcdInit
  <2>7. strobes \in Nat /\ progress \in 0 .. 4
    BY DEF LcdInit
  <2>8. strobed \in BOOLEAN /\ busyTimer \in BOOLEAN /\ busy \in BOOLEAN /\ lowNibble \in BOOLEAN
    BY DEF LcdInit
  <2> QED
    BY <2>1, <2>2, <2>3, <2>5, <2>6, <2>7, <2>8 DEF LcdInit, LcdTypeOK
<1>2. LcdTypeOK /\ [LcdNext]_lcdVars => LcdTypeOK'
  <2> SUFFICES ASSUME LcdTypeOK, [LcdNext]_lcdVars PROVE LcdTypeOK'
    OBVIOUS
  <2>0. wiring' \in Wirings
    BY DEF LcdNext, lcdVars, LcdTypeOK
  <2>1. CASE AvrWritesPort
    <3>1. PICK v \in Pins : port' = v /\ pinstate' = PinChangedHook(v) /\ strobed' = RisingEdge(v)
      BY <2>1, OfferedPins DEF AvrWritesPort
    <3>2. pinstate' \in Pins
      BY <3>1, PinChangedHookType
    <3>3. strobed' \in BOOLEAN
      BY <3>1 DEF RisingEdge
    <3> QED
      BY <2>0, <2>1, <3>1, <3>2, <3>3 DEF AvrWritesPort, LcdTypeOK, timers, memory
  <2>2. CASE ProcessEPinchange
    <3>1. strobed' \in BOOLEAN /\ strobes' \in Nat /\ port' \in Pins
      <4>1. strobes + 1 \in Nat
        BY DEF LcdTypeOK
      <4> QED
        BY <2>2, <4>1 DEF ProcessEPinchange, LcdTypeOK
    <3>2. progress' \in 0 .. 4
      BY <2>2 DEF ProcessEPinchange, Progress, LcdTypeOK
    <3>3. CASE ProcessWrite
      <4>1. datapins' \in Byte
        BY <3>3, AssembledByte DEF ProcessWrite
      <4>2. lowNibble' \in BOOLEAN
        BY <3>3 DEF ProcessWrite, NibbleAfterByte, LcdTypeOK
      <4>3. /\ flags' \in [dl : BOOLEAN, n : BOOLEAN, id : BOOLEAN, sc : BOOLEAN]
            /\ cursor' \in Cursor
            /\ vram' \in [Vram -> Byte]
        <5>1. CASE UNCHANGED memory
          BY <5>1 DEF memory, LcdTypeOK, Cursor
        <5>2. CASE WriteData(Assembled) \/ WriteCommand(Assembled)
          BY <5>2, AssembledByte, ByteKeepsMemory
        <5> QED
          BY <3>3, <5>1, <5>2 DEF ProcessWrite
      <4>4. busy' \in BOOLEAN /\ busyTimer' \in BOOLEAN
        BY <3>3 DEF ProcessWrite, BecomeBusy, timers, LcdTypeOK
      <4>5. readpins' \in Byte /\ pinstate' \in Pins
        BY <3>3 DEF ProcessWrite, LcdTypeOK
      <4> QED
        BY <2>0, <3>1, <3>2, <4>1, <4>2, <4>3, <4>4, <4>5 DEF LcdTypeOK, Cursor
    <3>4. CASE ProcessRead
      <4>1. pinstate' \in Pins /\ datapins' \in Byte
        BY <3>4 DEF ProcessRead, ReadPinsDriven, LcdTypeOK, Pins
      <4>2. lowNibble' \in BOOLEAN
        BY <3>4 DEF ProcessRead, SecondHalf, LcdTypeOK
      <4>3. readpins' \in Byte
        <5>1. cursor \in Vram /\ vram[cursor] \in Byte
          BY DEF LcdTypeOK, Vram, Text, Glyphs
        <5>2. (readpins * 16) % 256 \in Byte
          BY DEF LcdTypeOK, Byte
        <5>3. (IF cursor < 128 THEN cursor ELSE cursor - 128) + (IF busy THEN 128 ELSE 0)
              \in Byte
          BY DEF LcdTypeOK, Byte, Glyphs
        <5> QED
          BY <3>4, <5>1, <5>2, <5>3 DEF ProcessRead, SecondHalf, ReadData, ReadStatus
      <4>4. /\ flags' \in [dl : BOOLEAN, n : BOOLEAN, id : BOOLEAN, sc : BOOLEAN]
            /\ cursor' \in Cursor
            /\ vram' \in [Vram -> Byte]
        <5>1. cursor \in Cursor
          BY DEF LcdTypeOK, Cursor
        <5> QED
          BY <3>4, <5>1, KickCursorInMemory
          DEF ProcessRead, SecondHalf, ReadData, ReadStatus, memory, LcdTypeOK
      <4>5. busy' \in BOOLEAN /\ busyTimer' \in BOOLEAN
        BY <3>4
        DEF ProcessRead, SecondHalf, ReadData, ReadStatus, BecomeBusy, timers, LcdTypeOK
      <4> QED
        BY <2>0, <3>1, <3>2, <4>1, <4>2, <4>3, <4>4, <4>5 DEF LcdTypeOK, Cursor
    <3> QED
      BY <2>2, <3>3, <3>4 DEF ProcessEPinchange
  <2>3. CASE BusyTimer
    BY <2>0, <2>3 DEF BusyTimer, LcdTypeOK, memory
  <2>4. CASE UNCHANGED lcdVars
    BY <2>4 DEF lcdVars, timers, memory, LcdTypeOK
  <2> QED
    BY <2>1, <2>2, <2>3, <2>4 DEF LcdNext
<1> QED
  BY <1>1, <1>2, PTL DEF LcdSpec

\* The busy flag and its timer go together, in every order of timer, status
\* read and next byte.
THEOREM BusyCorrect == LcdSpec => []BusyWhileTimerRuns
<1>1. LcdInit => BusyWhileTimerRuns
  BY DEF LcdInit, BusyWhileTimerRuns
<1>2. BusyWhileTimerRuns /\ [LcdNext]_lcdVars => BusyWhileTimerRuns'
  <2> SUFFICES ASSUME BusyWhileTimerRuns, [LcdNext]_lcdVars PROVE BusyWhileTimerRuns'
    OBVIOUS
  <2> USE DEF BusyWhileTimerRuns
  <2>1. CASE AvrWritesPort \/ UNCHANGED lcdVars
    BY <2>1 DEF AvrWritesPort, lcdVars, timers
  <2>2. CASE ProcessEPinchange
    <3>1. \/ UNCHANGED timers
          \/ BecomeBusy
          \/ busy' = FALSE /\ busyTimer' = FALSE
      BY <2>2
      DEF ProcessEPinchange, ProcessWrite, ProcessRead, SecondHalf, ReadData, ReadStatus
    <3> QED
      BY <3>1 DEF timers, BecomeBusy
  <2>3. CASE BusyTimer
    BY <2>3 DEF BusyTimer
  <2> QED
    BY <2>1, <2>2, <2>3 DEF LcdNext
<1> QED
  BY <1>1, <1>2, PTL DEF LcdSpec

-----------------------------------------------------------------------------
(* The reset sequence                                                      *)

\* Why 3, 3, 3, 2 works: the first 3 may be taken as the second half of a
\* byte, but the next two then are a byte, 0x33, that switches to eight
\* bits, in which a third 3 changes nothing and a 2 switches back.
ResetInv ==
  /\ lowNibble => ~flags.dl
  /\ progress = 1 => flags.dl \/ (lowNibble => datapins \div 16 = 3)
  /\ progress = 2 => flags.dl \/ (lowNibble /\ datapins \div 16 = 3)
  /\ progress = 3 => flags.dl
  /\ progress = 4 => ~flags.dl /\ ~lowNibble

\* Of the commands only a function set, 0x20 to 0x3F, changes the width.
LEMMA FunctionSetWidth ==
  ASSUME LcdTypeOK, NEW b \in Byte, WriteCommand(b)
  PROVE  /\ b \div 16 = 3 => flags'.dl
         /\ b \div 16 = 2 => ~flags'.dl
         /\ b \div 16 \notin {2, 3} => flags'.dl = flags.dl
<1>1. CASE b \in 32 .. 63
  <2>1. flags' = [flags EXCEPT !.dl = Bit(b, 16), !.n = Bit(b, 8)]
    BY <1>1, SMTT(20) DEF WriteCommand
  <2>2. flags'.dl = Bit(b, 16)
    BY <2>1 DEF LcdTypeOK
  <2>3. b \div 16 = 3 => Bit(b, 16)
    BY DEF Bit
  <2>4. b \div 16 = 2 => ~Bit(b, 16)
    BY DEF Bit
  <2>5. b \div 16 \in {2, 3}
    BY <1>1
  <2> QED
    BY <2>2, <2>3, <2>4, <2>5
<1>2. CASE b \notin 32 .. 63
  <2>1. b \div 16 \notin {2, 3}
    BY <1>2 DEF Byte
  <2>2. flags'.dl = flags.dl
    BY <1>2 DEF WriteCommand, ClearScreen, memory, LcdTypeOK
  <2> QED
    BY <2>1, <2>2
<1> QED
  BY <1>1, <1>2

\* A strobe that is a whole command switches the width by its first nibble.
LEMMA CommandStrobe ==
  ASSUME LcdTypeOK, ProcessWrite, ~pinstate.rs, ~Four \/ lowNibble
  PROVE  LET first == IF Four THEN datapins \div 16 ELSE pinstate.high
         IN  /\ first = 3 => flags'.dl
             /\ first = 2 => ~flags'.dl
             /\ first \notin {2, 3} => flags'.dl = flags.dl
<1>1. WriteCommand(Assembled)
  BY DEF ProcessWrite
<1>2. pinstate.high \in 0 .. 15 /\ pinstate.low \in 0 .. 15
  BY DEF LcdTypeOK, Pins
<1>3. datapins \div 16 \in 0 .. 15
  BY ByteHasNibbles DEF LcdTypeOK
<1>4. Assembled \div 16 = IF Four THEN datapins \div 16 ELSE pinstate.high
  <2>1. CASE Four
    <3>1. Assembled = 16 * (datapins \div 16) + pinstate.high
      BY <2>1 DEF Assembled
    <3> QED
      BY <2>1, <3>1, <1>2, <1>3, NibblesMakeAByte
  <2>2. CASE ~Four
    <3>1. Assembled = 16 * pinstate.high + pinstate.low
      BY <2>2 DEF Assembled
    <3> QED
      BY <2>2, <3>1, <1>2, NibblesMakeAByte
  <2> QED
    BY <2>1, <2>2
<1> QED
  BY <1>1, <1>4, AssembledByte, FunctionSetWidth

\* The nibbles 3, 3, 3, 2 lead to four-bit mode at the start of a byte from
\* every state of the interface.
THEOREM ResetSequenceCorrect == LcdSpec => []ResetSequenceSynchronises
<1>1. LcdInit => ResetInv
  BY DEF LcdInit, ResetInv
<1>2. LcdTypeOK /\ ResetInv /\ [LcdNext]_lcdVars => ResetInv'
  <2> SUFFICES ASSUME LcdTypeOK, ResetInv, [LcdNext]_lcdVars PROVE ResetInv'
    OBVIOUS
  <2>1. CASE AvrWritesPort \/ BusyTimer \/ UNCHANGED lcdVars
    BY <2>1 DEF AvrWritesPort, BusyTimer, lcdVars, memory, ResetInv
  <2>2. CASE ProcessEPinchange /\ pinstate.rw
    <3>1. ProcessRead
      BY <2>2 DEF ProcessEPinchange
    <3>2. progress' = 0
      BY <2>2 DEF ProcessEPinchange, Progress
    <3>3. flags' = flags
      BY <3>1 DEF ProcessRead, SecondHalf, ReadData, ReadStatus, memory
    <3>4. lowNibble' => Four
      BY <3>1 DEF ProcessRead, SecondHalf, ResetInv, Four
    <3> QED
      BY <3>2, <3>3, <3>4 DEF ResetInv, Four
  <2>3. CASE ProcessEPinchange /\ ~pinstate.rw
    <3>1. progress' = Progress /\ ProcessWrite
      BY <2>3 DEF ProcessEPinchange
    <3>2. CASE Four /\ ~lowNibble
      <4>1. lowNibble' = TRUE /\ flags' = flags /\ datapins' = Assembled
        BY <3>1, <3>2 DEF ProcessWrite, memory
      <4>2. Assembled \div 16 = pinstate.high
        <5>1. pinstate.high \in 0 .. 15 /\ datapins % 16 \in 0 .. 15
          BY ByteHasNibbles DEF LcdTypeOK, Pins
        <5>2. Assembled = 16 * pinstate.high + (datapins % 16)
          BY <3>2 DEF Assembled
        <5> QED
          BY <5>1, <5>2, NibblesMakeAByte
      <4>3. progress # 3
        BY <3>2 DEF ResetInv, Four
      <4>4. progress # 2
        BY <3>2 DEF ResetInv, Four
      <4> QED
        BY <3>1, <3>2, <4>1, <4>2, <4>3, <4>4 DEF Progress, ResetInv, Four, LcdTypeOK
    <3>3. CASE ~Four \/ lowNibble
      <4>1. lowNibble' = NibbleAfterByte
        BY <3>1, <3>3 DEF ProcessWrite
      <4>2. lowNibble' = FALSE
        BY <4>1 DEF NibbleAfterByte, ResetInv, Four
      <4>3. CASE pinstate.rs
        <5>1. progress' = 0
          BY <3>1, <4>3 DEF Progress
        <5> QED
          BY <4>2, <5>1 DEF ResetInv
      <4>4. CASE ~pinstate.rs
        <5>1. LET first == IF Four THEN datapins \div 16 ELSE pinstate.high
              IN  /\ first = 3 => flags'.dl
                  /\ first = 2 => ~flags'.dl
                  /\ first \notin {2, 3} => flags'.dl = flags.dl
          BY <3>1, <3>3, <4>4, CommandStrobe
        <5> QED
          BY <2>3, <3>1, <3>3, <4>2, <4>4, <5>1 DEF Progress, ResetInv, Four, LcdTypeOK
      <4> QED
        BY <4>3, <4>4
    <3> QED
      BY <3>2, <3>3
  <2> QED
    BY <2>1, <2>2, <2>3 DEF LcdNext, ProcessEPinchange
<1>3. ResetInv => ResetSequenceSynchronises
  BY DEF ResetInv, ResetSequenceSynchronises, Four
<1> QED
  BY <1>1, <1>2, <1>3, LcdTypeCorrect, PTL DEF LcdSpec

-----------------------------------------------------------------------------
(* The refinement of a display that takes whole bytes                      *)

\* The least and the greatest of a set of numbers, once one is found
LEMMA LeastIsMin ==
  ASSUME NEW S \in SUBSET Int, NEW x \in S, \A y \in S : x <= y
  PROVE  Bytes!Min(S) = x
<1> DEFINE first(z) == z \in S /\ \A y \in S : z <= y
<1>1. Bytes!Min(S) = CHOOSE z \in S : \A y \in S : z <= y
  BY Zenon DEF Bytes!Min
<1>2. first(CHOOSE z : first(z))
  BY Zenon
<1>3. \A z : first(z) => z = x
  OBVIOUS
<1>4. Bytes!Min(S) = CHOOSE z : first(z)
  BY <1>1, Zenon
<1> QED BY <1>2, <1>3, <1>4, Zenon

LEMMA GreatestIsMax ==
  ASSUME NEW S \in SUBSET Int, NEW x \in S, \A y \in S : x >= y
  PROVE  Bytes!Max(S) = x
<1> DEFINE first(z) == z \in S /\ \A y \in S : z >= y
<1>1. Bytes!Max(S) = CHOOSE z \in S : \A y \in S : z >= y
  BY Zenon DEF Bytes!Max
<1>2. first(CHOOSE z : first(z))
  BY Zenon
<1>3. \A z : first(z) => z = x
  OBVIOUS
<1>4. Bytes!Max(S) = CHOOSE z : first(z)
  BY <1>1, Zenon
<1> QED BY <1>2, <1>3, <1>4, Zenon

\* The next cell of a ring: the first above c, or the first of all.
LEMMA AfterIs ==
  ASSUME NEW ring \in SUBSET Int, NEW c \in Int, NEW n \in ring,
         \/ n > c /\ \A d \in ring : d > c => n <= d
         \/ \A d \in ring : d <= c /\ n <= d
  PROVE  Bytes!After(c, ring) = n
<1> DEFINE above == {d \in ring : d > c}
<1>1. CASE n > c /\ \A d \in ring : d > c => n <= d
  <2>1. Bytes!Min(above) = n
    BY <1>1, LeastIsMin
  <2> QED BY <1>1, <2>1 DEF Bytes!After
<1>2. CASE \A d \in ring : d <= c /\ n <= d
  <2>1. Bytes!Min(ring) = n
    BY <1>2, LeastIsMin
  <2>2. ~\E d \in ring : d > c
    BY <1>2
  <2> QED BY <2>1, <2>2 DEF Bytes!After
<1> QED BY <1>1, <1>2

LEMMA BeforeIs ==
  ASSUME NEW ring \in SUBSET Int, NEW c \in Int, NEW n \in ring,
         \/ n < c /\ \A d \in ring : d < c => n >= d
         \/ \A d \in ring : d >= c /\ n >= d
  PROVE  Bytes!Before(c, ring) = n
<1> DEFINE below == {d \in ring : d < c}
<1>1. CASE n < c /\ \A d \in ring : d < c => n >= d
  <2>1. Bytes!Max(below) = n
    BY <1>1, GreatestIsMax
  <2> QED BY <1>1, <2>1 DEF Bytes!Before
<1>2. CASE \A d \in ring : d >= c /\ n >= d
  <2>1. Bytes!Max(ring) = n
    BY <1>2, GreatestIsMax
  <2>2. ~\E d \in ring : d < c
    BY <1>2
  <2> QED BY <2>1, <2>2 DEF Bytes!Before
<1> QED BY <1>1, <1>2

\* The comparisons by which the code moves the cursor find its neighbour
\* among the cells of the screen, or of the glyphs.
LEMMA KickCursorFindsANeighbour ==
  ASSUME NEW c \in Cursor, flags.n \in BOOLEAN, flags.id \in BOOLEAN
  PROVE  KickCursor(c) \in Bytes!Neighbours(c)
<1> DEFINE screen == IF flags.n THEN (0 .. 39) \cup (64 .. 103) ELSE 0 .. 79
<1>1. Bytes!Screen = screen
  BY DEF Bytes!Screen
<1>2. Bytes!Glyphs = Glyphs
  BY DEF Bytes!Glyphs, Glyphs
<1>3. screen \in SUBSET Int /\ Glyphs \in SUBSET Int /\ c \in Int
  BY DEF Glyphs, Cursor
<1>4. CASE c \in Glyphs
  <2>1. Bytes!After(c, Glyphs) = Incremented(c)
    <3>1. c \in 128 .. 191 /\ Incremented(c) = IF c = 191 THEN 128 ELSE c + 1
      BY <1>4 DEF Incremented, Glyphs
    <3> DEFINE n == IF c = 191 THEN 128 ELSE c + 1
    <3>2. n \in Glyphs
      BY <3>1 DEF Glyphs
    <3>3. \/ n > c /\ \A d \in Glyphs : d > c => n <= d
          \/ \A d \in Glyphs : d <= c /\ n <= d
      BY <3>1 DEF Glyphs
    <3> HIDE DEF n
    <3>4. Bytes!After(c, Glyphs) = n
      BY <1>3, <3>2, <3>3, AfterIs
    <3> QED BY <3>1, <3>4 DEF n
  <2>2. Bytes!Before(c, Glyphs) = Decremented(c)
    <3>1. c \in 128 .. 191 /\ Decremented(c) = IF c = 128 THEN 191 ELSE c - 1
      BY <1>4 DEF Decremented, Glyphs
    <3> DEFINE n == IF c = 128 THEN 191 ELSE c - 1
    <3>2. n \in Glyphs
      BY <3>1 DEF Glyphs
    <3>3. \/ n < c /\ \A d \in Glyphs : d < c => n >= d
          \/ \A d \in Glyphs : d >= c /\ n >= d
      BY <3>1 DEF Glyphs
    <3> HIDE DEF n
    <3>4. Bytes!Before(c, Glyphs) = n
      BY <1>3, <3>2, <3>3, BeforeIs
    <3> QED BY <3>1, <3>4 DEF n
  <2> QED BY <1>2, <1>4, <2>1, <2>2 DEF Bytes!Neighbours, KickCursor
<1>5. CASE c \in 0 .. 103 /\ flags.id
  <2> DEFINE n == Incremented(c)
  <2>1. n = OnScreen(c + 1)
    BY <1>5 DEF Incremented
  <2>2. n = IF flags.n THEN IF c + 1 \in 40 .. 63 THEN 64 ELSE IF c + 1 >= 104 THEN 0 ELSE c + 1
            ELSE IF c + 1 >= 80 THEN 0 ELSE c + 1
    BY <1>5, <2>1 DEF OnScreen
  <2> HIDE DEF n
  <2>3. n \in screen
    BY <1>5, <2>2
  <2>4. \/ n > c /\ \A d \in screen : d > c => n <= d
        \/ \A d \in screen : d <= c /\ n <= d
    BY <1>5, <2>2
  <2> HIDE DEF screen
  <2>5. Bytes!After(c, screen) = n
    BY <1>3, <2>3, <2>4, AfterIs
  <2>6. c \notin Bytes!Glyphs
    BY <1>5 DEF Bytes!Glyphs
  <2> QED BY <1>1, <1>5, <2>5, <2>6 DEF Bytes!Neighbours, KickCursor, n
<1>6. CASE c \in 0 .. 103 /\ ~flags.id
  <2> DEFINE n == Decremented(c)
             m == IF c \in screen THEN n ELSE IF flags.n THEN 39 ELSE 79
  <2>1. n = IF c = 0 THEN IF flags.n THEN 103 ELSE 79
            ELSE IF c = 64 /\ flags.n THEN 39 ELSE c - 1
    BY <1>6 DEF Decremented
  <2> HIDE DEF n
  <2>2. m \in screen
    BY <1>6, <2>1
  <2>3. \/ m < c /\ \A d \in screen : d < c => m >= d
        \/ \A d \in screen : d >= c /\ m >= d
    BY <1>6, <2>1
  <2>4. c \notin screen => n = c - 1 /\ m <= c - 1 /\ m \in Int
    BY <1>6, <2>1
  <2>5. c \in screen => m = n
    OBVIOUS
  <2> HIDE DEF screen, m
  <2>6. Bytes!Before(c, screen) = m
    BY <1>3, <2>2, <2>3, BeforeIs
  <2>7. c \notin Bytes!Glyphs
    BY <1>6 DEF Bytes!Glyphs
  <2>8. c \notin screen => n \in m .. (c - 1)
    BY <1>3, <2>4
  <2> QED BY <1>1, <1>6, <2>5, <2>6, <2>7, <2>8 DEF Bytes!Neighbours, KickCursor, n
<1> QED BY <1>4, <1>5, <1>6 DEF Cursor

bytesVars == <<vram, cursor, IF flags.n THEN 2 ELSE 1, flags.id>>

LEMMA OnScreenIsOnScreen ==
  ASSUME NEW c \in 0 .. 127, flags.n \in BOOLEAN
  PROVE  OnScreen(c) \in Bytes!Screen
BY DEF OnScreen, Bytes!Screen

\* A byte written as data is put under the cursor.
LEMMA WriteDataPuts ==
  ASSUME LcdTypeOK, NEW b \in Byte, WriteData(b)
  PROVE  Bytes!Put
<1>1. cursor \in Cursor /\ flags.n \in BOOLEAN /\ flags.id \in BOOLEAN
  BY DEF LcdTypeOK, Cursor
<1>2. vram' = [vram EXCEPT ![cursor] = b] /\ b \in 0 .. 255 /\ flags' = flags
  BY DEF WriteData, Byte
<1>3. cursor' \in Bytes!Neighbours(cursor) \cup {cursor}
  BY <1>1, KickCursorFindsANeighbour DEF WriteData
<1> QED BY <1>2, <1>3 DEF Bytes!Put

LEMMA ReadDataPeeks ==
  ASSUME LcdTypeOK, ReadData
  PROVE  Bytes!Peek
<1>1. cursor \in Cursor /\ flags.n \in BOOLEAN /\ flags.id \in BOOLEAN
  BY DEF LcdTypeOK, Cursor
<1>2. vram' = vram /\ flags' = flags /\ cursor' = KickCursor(cursor)
  BY DEF ReadData
<1> QED BY <1>1, <1>2, KickCursorFindsANeighbour DEF Bytes!Peek

\* A command moves the cursor, clears the screen, configures the display,
\* or leaves alone what this specification speaks of.
LEMMA WriteCommandMoves ==
  ASSUME LcdTypeOK, NEW b \in Byte, WriteCommand(b)
  PROVE  Bytes!Next \/ UNCHANGED bytesVars
<1>1. flags \in [dl : BOOLEAN, n : BOOLEAN, id : BOOLEAN, sc : BOOLEAN] /\ b \in 0 .. 255
  BY DEF LcdTypeOK, Byte
<1>2. CASE b >= 128
  <2>1. cursor' = OnScreen(b - 128) /\ flags' = flags /\ vram' = vram
    BY <1>1, <1>2 DEF WriteCommand
  <2>2. b - 128 \in 0 .. 127
    BY <1>1, <1>2
  <2>3. cursor' \in Bytes!Screen
    BY <1>1, <2>1, <2>2, OnScreenIsOnScreen
  <2>4. Bytes!Move
    BY <2>1, <2>3 DEF Bytes!Move
  <2> QED BY <2>4 DEF Bytes!Next
<1>3. CASE b \in 64 .. 127
  <2>1. cursor' = 128 + (b - 64) /\ flags' = flags /\ vram' = vram
    BY <1>1, <1>3 DEF WriteCommand
  <2>2. cursor' \in Bytes!Glyphs
    BY <1>3, <2>1 DEF Bytes!Glyphs
  <2>3. Bytes!Move
    BY <2>1, <2>2 DEF Bytes!Move
  <2> QED BY <2>3 DEF Bytes!Next
<1>4. CASE b \in 32 .. 63
  <2>1. /\ flags' = [flags EXCEPT !.dl = Bit(b, 16), !.n = Bit(b, 8)]
        /\ cursor' = cursor /\ vram' = vram
    BY <1>1, <1>4 DEF WriteCommand
  <2>2. flags'.id = flags.id
    BY <1>1, <2>1
  <2>3. Bytes!Configure
    BY <2>1, <2>2 DEF Bytes!Configure
  <2> QED BY <2>3 DEF Bytes!Next
<1>5. CASE b \in 16 .. 31
  <2>1. flags' = [flags EXCEPT !.sc = Bit(b, 8)] /\ cursor' = cursor /\ vram' = vram
    BY <1>1, <1>5 DEF WriteCommand
  <2>2. flags'.id = flags.id /\ flags'.n = flags.n
    BY <1>1, <2>1
  <2> QED BY <2>1, <2>2 DEF bytesVars
<1>6. CASE b \in 8 .. 15
  <2>1. UNCHANGED memory
    BY <1>1, <1>6 DEF WriteCommand
  <2> QED BY <2>1 DEF memory, bytesVars
<1>7. CASE b \in 4 .. 7
  <2>1. flags' = [flags EXCEPT !.id = Bit(b, 2)] /\ cursor' = cursor /\ vram' = vram
    BY <1>1, <1>7 DEF WriteCommand
  <2>2. flags'.id \in BOOLEAN /\ flags'.n = flags.n
    BY <1>1, <2>1 DEF Bit
  <2>3. Bytes!Configure
    BY <2>1, <2>2 DEF Bytes!Configure
  <2> QED BY <2>3 DEF Bytes!Next
<1>8. CASE b \in 2 .. 3
  <2>1. cursor' = 0 /\ flags' = flags /\ vram' = vram
    BY <1>1, <1>8 DEF WriteCommand
  <2>2. cursor' \in Bytes!Screen
    BY <2>1 DEF Bytes!Screen
  <2>3. Bytes!Move
    BY <2>1, <2>2 DEF Bytes!Move
  <2> QED BY <2>3 DEF Bytes!Next
<1>9. CASE b \in 0 .. 1
  <2>1. ClearScreen
    BY <1>1, <1>9 DEF WriteCommand
  <2>2. flags'.id = TRUE /\ flags'.n = flags.n
    BY <1>1, <2>1 DEF ClearScreen
  <2>3. Bytes!Clear
    BY <2>1, <2>2 DEF ClearScreen, Bytes!Clear, Bytes!Text, Bytes!Glyphs, Vram, Text, Glyphs
  <2> QED BY <2>3 DEF Bytes!Next
<1> QED BY <1>1, <1>2, <1>3, <1>4, <1>5, <1>6, <1>7, <1>8, <1>9

LEMMA LcdStepMapsToBytes ==
  LcdTypeOK /\ [LcdNext]_lcdVars => [Bytes!Next]_bytesVars
<1> SUFFICES ASSUME LcdTypeOK, [LcdNext]_lcdVars
             PROVE  Bytes!Next \/ UNCHANGED bytesVars
  OBVIOUS
<1>1. CASE UNCHANGED memory
  BY <1>1 DEF memory, bytesVars
<1>2. CASE ProcessEPinchange /\ pinstate.rw
  <2>1. CASE ReadData
    BY <2>1, ReadDataPeeks DEF Bytes!Next
  <2>2. CASE ~ReadData
    <3>1. UNCHANGED memory
      BY <1>2, <2>2 DEF ProcessEPinchange, ProcessRead, SecondHalf, ReadStatus
    <3> QED BY <1>1, <3>1
  <2> QED BY <2>1, <2>2
<1>3. CASE ProcessEPinchange /\ ~pinstate.rw
  <2>1. ProcessWrite
    BY <1>3 DEF ProcessEPinchange
  <2>2. UNCHANGED memory \/ WriteData(Assembled) \/ WriteCommand(Assembled)
    BY <2>1 DEF ProcessWrite
  <2> QED BY <1>1, <2>2, AssembledByte, WriteDataPuts, WriteCommandMoves DEF Bytes!Next
<1>4. CASE AvrWritesPort \/ BusyTimer \/ UNCHANGED lcdVars
  BY <1>1, <1>4 DEF AvrWritesPort, BusyTimer, lcdVars
<1> QED BY <1>2, <1>3, <1>4 DEF LcdNext

LEMMA LcdInitMapsToBytes == LcdInit => Bytes!Init
<1> SUFFICES ASSUME LcdInit PROVE Bytes!Init
  OBVIOUS
<1>1. vram \in [Bytes!Text \cup Bytes!Glyphs -> {0, 32}]
  BY DEF LcdInit, Vram, Text, Glyphs, Bytes!Text, Bytes!Glyphs
<1>2. cursor = 0 /\ flags.n = FALSE /\ flags.id = TRUE
  BY DEF LcdInit
<1> QED BY <1>1, <1>2 DEF Bytes!Init

\* The display implements one that takes whole bytes: through every split
\* into nibbles, every strobe and every read in between, each character
\* lands under the cursor and the cursor runs along its ring of cells
\* (hd44780.cpp:72-221).
THEOREM RefinesDisplayMemoryCorrect == LcdSpec => RefinesDisplayMemory
<1>1. LcdTypeOK /\ [LcdNext]_lcdVars
      => [Bytes!Next]_<<vram, cursor, IF flags.n THEN 2 ELSE 1, flags.id>>
  BY LcdStepMapsToBytes DEF bytesVars
<1> QED BY <1>1, LcdInitMapsToBytes, LcdTypeCorrect, PTL
        DEF LcdSpec, RefinesDisplayMemory, Bytes!Spec
=============================================================================
