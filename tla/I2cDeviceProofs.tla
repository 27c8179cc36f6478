--------------------------- MODULE I2cDeviceProofs ---------------------------
(***************************************************************************)
(* Proofs about the I2C devices one at a time: the LED driver, for every   *)
(* control byte, data and burst; the EEPROM, for every address and length; *)
(* the display's I2C side; and the listener and its view, for any traffic. *)
(***************************************************************************)
EXTENDS Tlc59116, Sim47LXX, SimGu7000I2C, I2cListenerView, TwiMasterProofs, FiniteSetTheorems

-----------------------------------------------------------------------------
(* The LED driver                                                          *)

\* The pointer and the auto-increment flag follow from the control byte.
FlagFollowsControl == tlcState = "WriteRegister" => autoIncrement = (control >= 32)

LedOutsDrawable ==
  \A r \in LEDOUT0 .. LEDOUT0 + 3 : Drawable(tlcRegisters[r])

TlcIInv ==
  /\ TlcTypeOK
  /\ LinkType
  /\ FlagFollowsControl
  /\ AutoIncrementWalksTheRing
  /\ TransactionStartsClean
  /\ LedOutsDrawable

LEMMA ZeroIsDrawable == Drawable(0)
<1>1. SUFFICES ASSUME NEW i \in 0 .. 3 PROVE LedField(0, i) # 3
  BY DEF Drawable
<1>2. <<1, 4, 16, 64>>[i + 1] \in {1, 4, 16, 64}
  OBVIOUS
<1>3. \A d \in {1, 4, 16, 64} : 0 \div d = 0
  OBVIOUS
<1> QED
  BY <1>2, <1>3 DEF LedField

\* The ring: one more data byte moves the intended register to the next one.
LEMMA RingStep ==
  ASSUME NEW c \in Byte, NEW n \in Nat
  PROVE /\ IntendedAt(c, n) \in 0 .. 31
        /\ IntendedAt(c, n + 1) =
             IF c < 32 THEN IntendedAt(c, n)
             ELSE IF IntendedAt(c, n) + 1 > LastIncremented THEN 0 ELSE IntendedAt(c, n) + 1
<1>1. c % 32 \in 0 .. 31
  BY DEF Byte
<1>2. \A k \in Nat : /\ k % 28 \in 0 .. 27
                     /\ (k + 1) % 28 = IF (k % 28) + 1 > 27 THEN 0 ELSE (k % 28) + 1
  OBVIOUS
<1>3. CASE c < 32
  BY <1>1, <1>3 DEF IntendedAt
<1>4. CASE c >= 32 /\ c % 32 > 27 /\ n = 0
  BY <1>1, <1>4 DEF IntendedAt, LastIncremented
<1>5. CASE c >= 32 /\ c % 32 > 27 /\ n > 0
  <2>1. n - 1 \in Nat /\ n + 1 - 1 = (n - 1) + 1
    BY <1>5
  <2>2. (n - 1) % 28 \in 0 .. 27
        /\ n % 28 = IF ((n - 1) % 28) + 1 > 27 THEN 0 ELSE ((n - 1) % 28) + 1
    BY <1>2, <2>1
  <2> QED
    BY <1>1, <1>5, <2>2 DEF IntendedAt, LastIncremented
<1>6. CASE c >= 32 /\ ~(c % 32 > 27)
  <2>1. (c % 32) + n \in Nat /\ (c % 32) + (n + 1) = ((c % 32) + n) + 1
    BY <1>1
  <2> DEFINE k == (c % 32) + n
  <2>2. k % 28 \in 0 .. 27
        /\ (k + 1) % 28 = IF (k % 28) + 1 > 27 THEN 0 ELSE (k % 28) + 1
    BY <1>2, <2>1
  <2>3. k + 1 = (c % 32) + (n + 1)
    BY <1>1
  <2> QED
    BY <1>1, <1>6, <2>2, <2>3 DEF IntendedAt, LastIncremented
<1> QED
  BY <1>1, <1>3, <1>4, <1>5, <1>6 DEF Byte

\* Constructing the device, in or outside a transaction of its own.
LEMMA TlcInitIInv == ASSUME LedDriverInit PROVE TlcIInv
<1> USE DEF LedDriverInit, TlcInit
<1>1. 0 \in Byte /\ 0 \in 0 .. MaxBurst /\ Silent \in Reply
  BY RepliesAreTyped, TlcMaxBurst DEF Byte
<1>2. TlcTypeOK
  <2>1. tlcRegisters \in [TlcRegister -> Byte]
    BY <1>1
  <2>2. tlcSelected \in 0 .. 31
    OBVIOUS
  <2> QED
    BY <1>1, <2>1, <2>2 DEF TlcTypeOK
<1>3. LinkType
  <2>1. Free \in [dev : Addresses \cup {NoDevice}, rw : Direction]
    BY DEF Free, Direction
  <2> QED
    BY <2>1 DEF LinkInit, LinkType
<1>4. LedOutsDrawable
  BY ZeroIsDrawable DEF LedOutsDrawable, LEDOUT0, TlcRegister, LastTlcRegister
<1> QED
  BY <1>2, <1>3, <1>4
  DEF TlcIInv, FlagFollowsControl, AutoIncrementWalksTheRing, TransactionStartsClean

LEMMA CrashStep ==
  ASSUME TlcIInv, NEW m \in Offered, Emit(m), TlcCrash, tlcReply' \in Reply
  PROVE TlcIInv'
<1>1. LinkType'
  BY LinkStepTyped DEF TlcIInv
<1> QED
  BY <1>1 DEF TlcCrash, TlcIInv, TlcTypeOK, FlagFollowsControl, AutoIncrementWalksTheRing,
    IntendedRegister, TransactionStartsClean, LedOutsDrawable, tlcProtocol, history

LEMMA ResetStep ==
  ASSUME TlcIInv, NEW m \in Offered, Emit(m), TlcReset
  PROVE TlcIInv'
<1>1. LinkType'
  BY LinkStepTyped DEF TlcIInv
<1>2. 0 \in Byte /\ 0 \in 0 .. MaxBurst /\ Silent \in Reply
  BY RepliesAreTyped, TlcMaxBurst DEF Byte
<1> QED
  <2>1. TlcTypeOK'
    <3>1. 0 \in 0 .. 31
      OBVIOUS
    <3>2. FALSE \in BOOLEAN
      OBVIOUS
    <3> QED
      BY <1>2, <3>1, <3>2 DEF TlcReset, TlcIInv, TlcTypeOK
  <2>2. FlagFollowsControl' /\ AutoIncrementWalksTheRing' /\ TransactionStartsClean'
    BY DEF TlcReset, FlagFollowsControl, AutoIncrementWalksTheRing, TransactionStartsClean
  <2>3. LedOutsDrawable'
    BY DEF TlcReset, TlcIInv, LedOutsDrawable
  <2> QED
    BY <1>1, <2>1, <2>2, <2>3 DEF TlcIInv

\* The START of a write transaction; the driver aborts on any other.
LEMMA OnStartStep ==
  ASSUME TlcIInv, NEW m \in Offered, Emit(m), TlcOnStart(m), m.dev = TlcAddress
  PROVE TlcIInv'
<1>1. LinkType'
  BY LinkStepTyped DEF TlcIInv
<1>2. Ack \in Reply /\ Silent \in Reply
  BY RepliesAreTyped
<1>3. CASE tlcState = "Start" /\ m.rw = "W"
  <2>1. link'.dev = TlcAddress
    BY DEF TlcOnStart, Emit
  <2> QED
    BY <1>1, <1>2, <1>3, <2>1 DEF TlcOnStart, TlcIInv, TlcTypeOK, FlagFollowsControl,
      AutoIncrementWalksTheRing, TransactionStartsClean, LedOutsDrawable, history
<1>4. CASE tlcState # "Start" \/ m.rw = "R"
  <2>1. TlcCrash /\ tlcReply' = Silent
    BY <1>4 DEF TlcOnStart, Direction
  <2> QED
    BY <1>2, <2>1, CrashStep
<1> QED
  BY <1>3, <1>4 DEF TlcOnStart

LEMMA TakeControlByteStep ==
  ASSUME TlcIInv, NEW m \in Offered, Emit(m), m.cond = "WRITE", m.dev = TlcAddress,
         TakeControlByte(m), tlcReply' = Ack
  PROVE TlcIInv'
<1>1. LinkType'
  BY LinkStepTyped DEF TlcIInv
<1>2. m.data \in Byte /\ 0 \in 0 .. MaxBurst /\ Ack \in Reply
  BY OfferedCarriesByte, RepliesAreTyped, TlcMaxBurst
<1>3. m.data % 32 \in 0 .. 31
  BY <1>2 DEF Byte
<1>4. /\ tlcState' = "WriteRegister" /\ autoIncrement' = (m.data >= 32)
      /\ tlcSelected' = m.data % 32 /\ control' = m.data /\ burst' = 0
      /\ UNCHANGED <<tlcRegisters, tlcCrashed>>
  BY DEF TakeControlByte, AutoIncrementOn, ControlRegister
<1>5. TlcTypeOK'
  BY <1>2, <1>3, <1>4 DEF TlcIInv, TlcTypeOK
<1>6. IntendedAt(m.data, 0) = m.data % 32
  BY <1>3 DEF IntendedAt, LastIncremented
<1>7. AutoIncrementWalksTheRing'
  BY <1>4, <1>6 DEF AutoIncrementWalksTheRing, IntendedRegister
<1>8. FlagFollowsControl'
  BY <1>4 DEF FlagFollowsControl
<1>9. LedOutsDrawable'
  BY <1>4 DEF TlcIInv, LedOutsDrawable
<1>10. link' = link
  BY DEF Emit
<1>11. link.dev = TlcAddress
  BY OfferedShape DEF Starts
<1> QED
  BY <1>1, <1>5, <1>7, <1>8, <1>9, <1>10, <1>11 DEF TlcIInv, TransactionStartsClean

LEMMA StoreDataStep ==
  ASSUME TlcIInv, NEW m \in Offered, Emit(m), m.cond = "WRITE", m.dev = TlcAddress,
         TlcFirmwareSends(m), StoreData(m), tlcReply' = Ack
  PROVE TlcIInv'
<1>1. LinkType'
  BY LinkStepTyped DEF TlcIInv
<1>2. m.data \in Byte /\ Ack \in Reply
  BY OfferedCarriesByte, RepliesAreTyped
<1>3. /\ tlcState = "WriteRegister" /\ tlcSelected \in TlcRegister
      /\ tlcRegisters' = [tlcRegisters EXCEPT ![tlcSelected] = m.data]
      /\ tlcSelected' = NextTlcRegister /\ burst' = burst + 1
      /\ UNCHANGED <<tlcState, autoIncrement, tlcCrashed, control>>
  BY DEF StoreData
<1>4. tlcSelected = IntendedAt(control, burst) /\ autoIncrement = (control >= 32)
  BY <1>3 DEF TlcIInv, AutoIncrementWalksTheRing, IntendedRegister, FlagFollowsControl
<1>5. control \in Byte /\ burst \in Nat /\ burst < MaxBurst
  BY <1>3, TlcMaxBurst DEF TlcIInv, TlcTypeOK, TlcFirmwareSends
<1>6. IntendedAt(control, burst + 1) = NextTlcRegister
  <2>1. control < 32 <=> ~(control >= 32)
    BY <1>5 DEF Byte
  <2> QED
    BY <1>4, <1>5, <2>1, RingStep DEF NextTlcRegister
<1>7. IntendedAt(control, burst + 1) \in 0 .. 31
  BY <1>5, RingStep
<1>8. TlcTypeOK'
  BY <1>2, <1>3, <1>5, <1>6, <1>7, TlcMaxBurst DEF TlcIInv, TlcTypeOK
<1>9. AutoIncrementWalksTheRing' /\ FlagFollowsControl'
  BY <1>3, <1>4, <1>6 DEF AutoIncrementWalksTheRing, IntendedRegister, FlagFollowsControl
<1>10. LedOutsDrawable'
  <2>1. SUFFICES ASSUME NEW r \in LEDOUT0 .. LEDOUT0 + 3
                 PROVE Drawable(tlcRegisters'[r])
    BY DEF LedOutsDrawable
  <2>2. r \in TlcRegister /\ tlcRegisters \in [TlcRegister -> Byte]
    BY DEF TlcIInv, TlcTypeOK, LEDOUT0, TlcRegister, LastTlcRegister
  <2>3. CASE r = tlcSelected
    <3>1. m.data \in LedOutBytes
      BY <1>3, <1>4, <2>3 DEF TlcFirmwareSends, IntendedRegister
    <3> QED
      BY <1>3, <2>2, <2>3, <3>1, TlcDimming
  <2>4. CASE r # tlcSelected
    BY <1>3, <2>2, <2>4 DEF TlcIInv, LedOutsDrawable
  <2> QED
    BY <2>3, <2>4
<1>11. link' = link
  BY DEF Emit
<1>12. link.dev = TlcAddress
  BY OfferedShape DEF Starts
<1> QED
  BY <1>1, <1>8, <1>9, <1>10, <1>11, <1>12 DEF TlcIInv, TransactionStartsClean

\* Messages that change nothing of the device: other devices' data and a
\* byte the device does not understand.
LEMMA QuietStep ==
  ASSUME TlcIInv, NEW m \in Offered, Emit(m), m.cond # "START",
         tlcReply' \in Reply,
         UNCHANGED <<tlcProtocol, tlcRegisters, tlcCrashed, history>>,
         m.dev # TlcAddress \/ m.cond = "WRITE"
  PROVE TlcIInv'
<1>1. LinkType'
  BY LinkStepTyped DEF TlcIInv
<1>2. m.dev = link.dev
  BY OfferedShape DEF Starts
<1>3. TransactionStartsClean'
  BY <1>2 DEF TlcIInv, TransactionStartsClean, tlcProtocol, Emit
<1> QED
  BY <1>1, <1>3 DEF TlcIInv, TlcTypeOK, FlagFollowsControl, AutoIncrementWalksTheRing,
    IntendedRegister, LedOutsDrawable, tlcProtocol, history

-----------------------------------------------------------------------------
(* Theorems                                                                *)

LEMMA TlcStepIInv == ASSUME TlcIInv, [TlcNext]_TlcAllVars PROVE TlcIInv'
<1>1. CASE TlcBusStep
  <2>1. PICK m \in Offered : TlcFirmwareSends(m) /\ Emit(m) /\ TlcHandleMessage(m)
    BY <1>1 DEF TlcBusStep
  <2>2. Silent \in Reply /\ Ack \in Reply
    BY RepliesAreTyped
  <2>3. CASE TlcIgnore /\ m.dev # TlcAddress /\ m.cond # "START"
    BY <2>1, <2>2, <2>3, QuietStep DEF TlcIgnore
  <2>4. CASE TlcReset
    BY <2>1, <2>4, ResetStep
  <2>5. CASE TlcOnStart(m) /\ m.dev = TlcAddress
    BY <2>1, <2>5, OnStartStep
  <2>6. CASE TlcOnWrite(m) /\ m.dev = TlcAddress
    <3>1. m.cond = "WRITE" /\ tlcReply' = Ack
      BY <2>6 DEF TlcOnWrite
    <3>2. CASE TakeControlByte(m)
      BY <2>1, <2>6, <3>1, <3>2, TakeControlByteStep
    <3>3. CASE StoreData(m)
      BY <2>1, <2>6, <3>1, <3>3, StoreDataStep
    <3>4. CASE TlcCrash
      BY <2>1, <2>2, <3>1, <3>4, CrashStep
    <3>5. CASE tlcState = "Start" /\ UNCHANGED <<tlcProtocol, tlcRegisters, tlcCrashed, history>>
      BY <2>1, <2>2, <3>1, <3>5, QuietStep
    <3> QED
      BY <2>6, <3>2, <3>3, <3>4, <3>5 DEF TlcOnWrite
  <2>7. CASE TlcOnRead(m)
    BY <2>1, <2>2, <2>7, CrashStep DEF TlcOnRead
  <2> QED
    BY <2>1, <2>3, <2>4, <2>5, <2>6, <2>7
    DEF TlcHandleMessage, HandleAnyI2cMessage, MatchesI2cAddress, TlcHandleI2CMessage, TlcOnStop
<1>2. CASE ~tlcCrashed /\ GetCurrentState
  <2>1. /\ tlcCrashed' \in BOOLEAN
        /\ UNCHANGED <<link, tlcProtocol, tlcRegisters, tlcReply, history>>
    BY <1>2 DEF GetCurrentState
  <2> QED
    BY <1>2, <2>1 DEF TlcIInv, TlcTypeOK, LinkType, FlagFollowsControl,
      AutoIncrementWalksTheRing, IntendedRegister, TransactionStartsClean, LedOutsDrawable,
      tlcProtocol, history
<1>3. CASE UNCHANGED TlcAllVars
  BY <1>3 DEF TlcIInv, TlcTypeOK, LinkType, FlagFollowsControl,
    AutoIncrementWalksTheRing, IntendedRegister, TransactionStartsClean, LedOutsDrawable,
    tlcProtocol, history, tlcVars, TlcAllVars
<1> QED
  BY <1>1, <1>2, <1>3 DEF TlcNext

\* What the control byte promises holds through any burst: the invariant the
\* theorems below follow from.
THEOREM TlcInvariant == TlcSpec => []TlcIInv
<1>1. LedDriverInit => TlcIInv
  BY TlcInitIInv
<1>2. TlcIInv /\ [TlcNext]_TlcAllVars => TlcIInv'
  BY TlcStepIInv
<1> QED
  BY <1>1, <1>2, PTL DEF TlcSpec

\* The driver's variables keep their types, the register pointer its five
\* bits (sim_tlc59116.cpp:15-58).
THEOREM TlcTypeCorrect == TlcSpec => []TlcTypeOK
<1>1. TlcIInv => TlcTypeOK
  BY DEF TlcIInv
<1> QED
  BY <1>1, TlcInvariant, PTL

\* The pointer is where the firmware means it to be after any number of data
\* bytes, for every control byte (sim_tlc59116.cpp:39-45).
THEOREM PointerWalksTheRing == TlcSpec => []AutoIncrementWalksTheRing
<1>1. TlcIInv => AutoIncrementWalksTheRing
  BY DEF TlcIInv
<1> QED
  BY <1>1, TlcInvariant, PTL

\* A control byte never carries over to the next transaction
\* (sim_tlc59116.cpp:53-58, sim_i2c_base.cpp:66-83).
THEOREM NothingCarriesOver == TlcSpec => []TransactionStartsClean
<1>1. TlcIInv => TransactionStartsClean
  BY DEF TlcIInv
<1> QED
  BY <1>1, TlcInvariant, PTL

\* Firmware that keeps group dimming out of the LEDOUT registers gets LEDs a
\* front end can draw at every moment (sim_tlc59116.cpp:67-93).
THEOREM AlwaysDrawable == TlcSpec => []LedsAreDrawable
<1>1. TlcIInv => LedsAreDrawable
  <2>1. SUFFICES ASSUME TlcIInv, NEW led \in Leds
                 PROVE LedState(tlcRegisters, led) # 3
    BY DEF LedsAreDrawable
  <2>2. LEDOUT0 + (led \div 4) \in LEDOUT0 .. LEDOUT0 + 3 /\ led % 4 \in 0 .. 3
    BY DEF Leds, LEDOUT0
  <2>3. Drawable(tlcRegisters[LEDOUT0 + (led \div 4)])
    BY <2>1, <2>2 DEF TlcIInv, LedOutsDrawable
  <2> QED
    BY <2>2, <2>3 DEF LedState, Drawable
<1> QED
  BY <1>1, TlcInvariant, PTL

-----------------------------------------------------------------------------
(* The EEPROM                                                              *)

\* Combining with a byte that is still zero keeps the other one.
LEMMA OrWithZero ==
  \A byte \in Byte : OrByte(0, byte) = byte /\ OrByte(byte, 0) = byte
BY DEF Byte, OrByte, OrBit

\* The two address bytes make up the address, first the high one.
LEMMA AddressFromBytes ==
  ASSUME NEW high \in Byte, NEW low \in Byte
  PROVE /\ BitOr(0, high * 256) = 256 * high
        /\ BitOr(256 * high, low) = 256 * high + low
<1>1. /\ (high * 256) \div 256 = high /\ (high * 256) % 256 = 0
      /\ (256 * high) \div 256 = high /\ (256 * high) % 256 = 0
      /\ low \div 256 = 0 /\ low % 256 = low
      /\ 0 \div 256 = 0 /\ 0 % 256 = 0
  BY DEF Byte
<1>2. OrByte(0, high) = high /\ OrByte(high, 0) = high /\ OrByte(0, low) = low
      /\ OrByte(0, 0) = 0
  BY OrWithZero DEF Byte
<1> QED
  BY <1>1, <1>2 DEF BitOr, Byte

EepromTypeOK ==
  /\ LinkType
  /\ header \in Seq(Byte) /\ Len(header) \in 0 .. 2
  /\ moved \in Nat
  /\ opAddress \in Nat /\ opCounter \in Nat
  /\ eState \in {"STOPPED", "ADDRESSING_HIGH", "ADDRESSING_LOW", "STARTED"}

\* Where the firmware is in its transaction, in terms of what it has sent.
TransactionOnTheLink ==
  /\ link.dev # EepromAddress => eState = "STOPPED"
  /\ link.dev = EepromAddress =>
       IF link.rw = "R" THEN eState = "STARTED" /\ Len(header) # 1
       ELSE eState = CASE Len(header) = 0 -> "ADDRESSING_HIGH"
                       [] Len(header) = 1 -> "ADDRESSING_LOW"
                       [] Len(header) = 2 -> "STARTED"

\* The operation's address and counter, from what the firmware has sent.
OperationFollowsTheHeader ==
  /\ eState # "STARTED" => moved = 0 /\ opCounter = 0
  /\ eState = "STOPPED" => header = <<>>
  /\ opAddress = CASE Len(header) = 0 -> 0
                   [] Len(header) = 1 -> 256 * header[1]
                   [] Len(header) = 2 -> 256 * header[1] + header[2]
  /\ opCounter = moved % CounterModulus

\* A write is not addressed before the last one was closed.
EepromIInv ==
  /\ EepromTypeOK
  /\ ~eCrashed => TransactionOnTheLink /\ OperationFollowsTheHeader

EepromLinkStep(m) ==
  /\ m \in Offered
  /\ Emit(m)
  /\ EepromFirmwareSends(m)
  /\ Record(m)

LEMMA EepromAddressIsOne == EepromAddress \in 80 .. 86 /\ NoDevice # EepromAddress
BY StrapsAssumption DEF EepromAddress, NoDevice

\* Division with remainder, by any divisor.
LEMMA ModuloUnique ==
  ASSUME NEW k \in Nat \ {0}, NEW q \in Nat, NEW r \in Nat, r < k
  PROVE (k * q + r) % k = r
OBVIOUS
\* Quotient and remainder.
LEMMA QuotientAndRemainder ==
  ASSUME NEW k \in Nat \ {0}, NEW n \in Nat
  PROVE n = k * (n \div k) + (n % k) /\ n \div k \in Nat /\ n % k \in Nat /\ n % k < k
OBVIOUS
\* Counting on from a remainder.
LEMMA NextModulo ==
  ASSUME NEW k \in Nat \ {0}, NEW n \in Nat
  PROVE ((n % k) + 1) % k = (n + 1) % k
<1> DEFINE q == n \div k
           r == n % k
<1>1. n = k * q + r /\ q \in Nat /\ r \in Nat /\ r < k
  BY QuotientAndRemainder
<1> HIDE DEF q, r
<1>2. CASE r + 1 < k
  <2>1. r + 1 \in Nat /\ n + 1 = k * q + (r + 1)
    BY <1>1
  <2>2. (k * q + (r + 1)) % k = r + 1
    BY <1>1, <1>2, <2>1, ModuloUnique
  <2>3. (k * 0 + (r + 1)) % k = r + 1
    BY <1>1, <1>2, <2>1, ModuloUnique
  <2>4. k * 0 + (r + 1) = r + 1
    BY <1>1
  <2> QED
    BY <2>1, <2>2, <2>3, <2>4 DEF r
<1>3. CASE r + 1 = k
  <2>1. n + 1 = k * (q + 1) + 0 /\ r + 1 = k * 1 + 0 /\ q + 1 \in Nat
    BY <1>1, <1>3
  <2>2. (k * (q + 1) + 0) % k = 0
    BY <1>1, <1>3, <2>1, ModuloUnique
  <2>3. (k * 1 + 0) % k = 0
    BY <1>1, <1>3, <2>1, ModuloUnique
  <2> QED
    BY <2>1, <2>2, <2>3 DEF r
<1> QED
  BY <1>1, <1>2, <1>3

LEMMA EepromCounter ==
  ASSUME NEW n \in Nat
  PROVE  /\ 0 % CounterModulus = 0
         /\ n % CounterModulus \in Nat
         /\ n % CounterModulus <= n
         /\ n < CounterModulus => n % CounterModulus = n
         /\ ((n % CounterModulus) + 1) % CounterModulus = (n + 1) % CounterModulus
<1>1. CounterModulus \in Nat \ {0}
  BY EepromFirmware
<1>2. \A k \in Nat \ {0} :
        0 % k = 0 /\ n % k \in Nat /\ n % k <= n /\ (n < k => n % k = n)
  OBVIOUS
<1> QED
  BY <1>1, <1>2, NextModulo

\* A START or STOP of any device, and every message to another one.
LEMMA EepromQuietStep ==
  ASSUME ~RepeatsStart, EepromIInv, ~eCrashed, NEW m, EepromLinkStep(m), EepromHandleMessage(m),
         m.dev # EepromAddress \/ m.cond \in {"START", "STOP"}
  PROVE EepromIInv' /\ buffer' = buffer /\ eReply'.kind # "data"
<1> USE DEF EepromLinkStep, eProtocol, eHistory
<1>1. LinkType' /\ Free.dev # EepromAddress /\ <<>> \in Seq(Byte) /\ Len(<<>>) = 0
  BY LinkStepTyped, EepromAddressIsOne DEF EepromIInv, EepromTypeOK, Free
<1>2. EepromTypeOK /\ TransactionOnTheLink /\ OperationFollowsTheHeader
  BY DEF EepromIInv
<1>3. 0 % CounterModulus = 0 /\ 0 \in Nat /\ 0 \in 0 .. 2
  BY EepromCounter
<1>4. CASE m.dev # EepromAddress /\ m.cond # "START"
  <2>1. EepromIgnore /\ UNCHANGED <<header, moved>>
    BY <1>4 DEF EepromHandleMessage, HandleAnyI2cMessage, MatchesI2cAddress, Record
  <2>2. link.dev # EepromAddress /\ link'.dev # EepromAddress
    BY <1>1, <1>4, OfferedShape DEF Emit, Starts
  <2> QED
    BY <1>1, <1>2, <2>1, <2>2 DEF EepromIInv, EepromTypeOK, TransactionOnTheLink,
      OperationFollowsTheHeader, EepromIgnore, Silent
<1>5. CASE (m.dev # EepromAddress /\ m.cond = "START") \/ (m.dev = EepromAddress /\ m.cond = "STOP")
  <2>1. EepromReset /\ header' = <<>> /\ moved' = 0
    BY <1>5 DEF EepromHandleMessage, HandleAnyI2cMessage, MatchesI2cAddress, Record,
      EepromHandleI2CMessage, EepromOnStart, EepromOnStop, EepromOnWrite, EepromOnRead
  <2>2. link'.dev # EepromAddress
    BY <1>1, <1>5 DEF Emit
  <2> QED
    BY <1>1, <1>2, <1>3, <2>1, <2>2 DEF EepromIInv, EepromTypeOK, TransactionOnTheLink,
      OperationFollowsTheHeader, EepromReset, Silent
<1>6. CASE m.dev = EepromAddress /\ m.cond = "START" /\ m.rw = "W"
  <2>1. EepromOnStart(m) /\ header' = <<>> /\ moved' = 0
    BY <1>6 DEF EepromHandleMessage, HandleAnyI2cMessage, MatchesI2cAddress, Record,
      EepromHandleI2CMessage, EepromOnStart, EepromOnStop, EepromOnWrite, EepromOnRead
  <2>2. link.dev # EepromAddress
    BY <1>6 DEF EepromFirmwareSends
  <2>3. link'.dev = EepromAddress /\ link'.rw = "W"
    BY <1>6 DEF Emit
  <2>4. opAddress = 0 /\ opCounter = 0
    BY <1>1, <1>2, <2>2 DEF TransactionOnTheLink, OperationFollowsTheHeader
  <2> QED
    BY <1>1, <1>2, <1>3, <1>6, <2>1, <2>3, <2>4 DEF EepromIInv, EepromTypeOK,
      TransactionOnTheLink, OperationFollowsTheHeader, EepromOnStart, Ack
<1>7. CASE m.dev = EepromAddress /\ m.cond = "START" /\ m.rw = "R"
  <2>1. EepromOnStart(m) /\ UNCHANGED <<header, moved>>
    BY <1>7 DEF EepromHandleMessage, HandleAnyI2cMessage, MatchesI2cAddress, Record,
      EepromHandleI2CMessage, EepromOnStart, EepromOnStop, EepromOnWrite, EepromOnRead
  <2>2. Len(header) # 1
    <3>1. Len(header) = 2 \/ header = <<>>
      BY <1>7 DEF EepromFirmwareSends
    <3> QED
      BY <3>1
  <2>3. link'.dev = EepromAddress /\ link'.rw = "R"
    BY <1>7 DEF Emit
  <2> QED
    BY <1>1, <1>2, <1>7, <2>1, <2>2, <2>3 DEF EepromIInv, EepromTypeOK,
      TransactionOnTheLink, OperationFollowsTheHeader, EepromOnStart, Ack
<1> QED
  <2>1. m.cond = "START" => m.rw \in {"W", "R"}
    BY DEF Offered, Starts, Transfers, Direction
  <2> QED
    BY <1>4, <1>5, <1>6, <1>7, <2>1

\* An address byte: high, then low.
LEMMA EepromAddressStep ==
  ASSUME EepromIInv, ~eCrashed, NEW m, EepromLinkStep(m), EepromHandleMessage(m),
         m.dev = EepromAddress, m.cond = "WRITE", Len(header) # 2
  PROVE EepromIInv' /\ buffer' = buffer /\ eReply'.kind # "data"
<1> USE DEF EepromLinkStep, eProtocol, eHistory
<1>1. /\ LinkType' /\ link' = link /\ link.dev = EepromAddress /\ link.rw = "W"
      /\ m.data \in Byte
  BY LinkStepTyped, OfferedShape, OfferedCarriesByte DEF EepromIInv, EepromTypeOK, Emit, Starts
<1>2. EepromTypeOK /\ TransactionOnTheLink /\ OperationFollowsTheHeader
  BY DEF EepromIInv
<1>3. EepromOnWrite(m) /\ header' = Append(header, m.data) /\ moved' = moved
  BY <1>2 DEF EepromHandleMessage, HandleAnyI2cMessage, MatchesI2cAddress, Record,
    EepromHandleI2CMessage, EepromOnStart, EepromOnStop, EepromOnWrite, EepromOnRead, EepromTypeOK
<1>4. /\ header' \in Seq(Byte) /\ Len(header') = Len(header) + 1
      /\ header'[Len(header) + 1] = m.data
      /\ Len(header) = 1 => header'[1] = header[1]
  BY <1>1, <1>2, <1>3 DEF EepromTypeOK
<1>5. CASE Len(header) = 0
  <2>1. eState = "ADDRESSING_HIGH" /\ moved = 0 /\ opCounter = 0 /\ opAddress = 0
    BY <1>1, <1>2, <1>5 DEF TransactionOnTheLink, OperationFollowsTheHeader
  <2>2. TakeAddressByte(m) /\ eReply' = Ack
    BY <1>3, <2>1 DEF EepromOnWrite, StoreByte
  <2>3. /\ opAddress' = BitOr(0, m.data * 256) /\ eState' = "ADDRESSING_LOW"
        /\ UNCHANGED <<opCounter, buffer, eCrashed>>
    BY <2>1, <2>2 DEF TakeAddressByte, AddressWith
  <2>4. opAddress' = 256 * header'[1]
    BY <1>1, <1>4, <1>5, <2>3, AddressFromBytes
  <2>5. header'[1] \in Byte /\ opAddress' \in Nat
    <3>1. header'[1] = m.data
      BY <1>4, <1>5
    <3>2. \A byte \in Byte : 256 * byte \in Nat
      BY DEF Byte
    <3> QED
      BY <1>1, <2>4, <3>1, <3>2
  <2> QED
    BY <1>1, <1>2, <1>3, <1>4, <1>5, <2>1, <2>2, <2>3, <2>4, <2>5, EepromCounter DEF EepromIInv,
      EepromTypeOK, TransactionOnTheLink, OperationFollowsTheHeader, Ack
<1>6. CASE Len(header) = 1
  <2>1. eState = "ADDRESSING_LOW" /\ moved = 0 /\ opCounter = 0 /\ opAddress = 256 * header[1]
    BY <1>1, <1>2, <1>6 DEF TransactionOnTheLink, OperationFollowsTheHeader
  <2>2. TakeAddressByte(m) /\ eReply' = Ack
    BY <1>3, <2>1 DEF EepromOnWrite, StoreByte
  <2>3. /\ opAddress' = BitOr(256 * header[1], m.data) /\ eState' = "STARTED"
        /\ UNCHANGED <<opCounter, buffer, eCrashed>>
    BY <2>1, <2>2 DEF TakeAddressByte, AddressWith
  <2>4. header[1] \in Byte
    <3>1. header \in Seq(Byte) /\ 1 \in 1 .. Len(header)
      BY <1>2, <1>6 DEF EepromTypeOK
    <3> QED
      BY <3>1
  <2>5. opAddress' = 256 * header'[1] + header'[2]
    BY <1>1, <1>4, <1>6, <2>3, <2>4, AddressFromBytes
  <2>6. header'[1] \in Byte /\ header'[2] \in Byte /\ opAddress' \in Nat
    <3>1. header'[1] = header[1] /\ header'[2] = m.data
      BY <1>4, <1>6
    <3>2. \A high, low \in Byte : 256 * high + low \in Nat
      BY DEF Byte
    <3> QED
      BY <1>1, <2>4, <2>5, <3>1, <3>2
  <2> QED
    BY <1>1, <1>2, <1>3, <1>4, <1>6, <2>1, <2>2, <2>3, <2>5, <2>6, EepromCounter DEF EepromIInv,
      EepromTypeOK, TransactionOnTheLink, OperationFollowsTheHeader, Ack
<1> QED
  BY <1>2, <1>5, <1>6 DEF EepromTypeOK

\* The state in which a data byte goes either way.
LEMMA EepromDataState ==
  ASSUME EepromIInv, ~eCrashed, NEW m, EepromLinkStep(m), m.dev = EepromAddress,
         m.cond = "READ" \/ (m.cond = "WRITE" /\ Len(header) = 2)
  PROVE /\ eState = "STARTED" /\ link' = link /\ LinkType' /\ link.dev = EepromAddress
        /\ header' = header /\ moved' = moved + 1 /\ moved < MaxTransfer
        /\ Target \in Nat /\ opAddress \in Nat /\ Target = opAddress + moved
        /\ Accessed = opAddress + (moved % CounterModulus)
        /\ NextCounter = moved' % CounterModulus /\ NextCounter \in Nat
<1> USE DEF EepromLinkStep, eHistory
<1>1. EepromTypeOK /\ TransactionOnTheLink /\ OperationFollowsTheHeader
  BY DEF EepromIInv
<1>2. /\ LinkType' /\ link' = link /\ link.dev = EepromAddress
      /\ link.rw = IF m.cond = "READ" THEN "R" ELSE "W"
  BY <1>1, LinkStepTyped, OfferedShape DEF EepromTypeOK, Emit, Starts, LinkType, Direction, Free
<1>3. eState = "STARTED" /\ Len(header) \in {0, 2}
  BY <1>1, <1>2 DEF TransactionOnTheLink, EepromTypeOK
<1>4. header' = header /\ moved' = moved + 1 /\ moved < MaxTransfer
  BY <1>3 DEF Record, EepromFirmwareSends
<1>5. /\ Target \in Nat /\ Target = opAddress + moved
      /\ Accessed = opAddress + (moved % CounterModulus)
  <2>1. opAddress \in Nat /\ moved \in Nat /\ opCounter = moved % CounterModulus
    BY <1>1 DEF EepromTypeOK, OperationFollowsTheHeader
  <2>2. opAddress = IF Len(header) = 2 THEN 256 * header[1] + header[2] ELSE 0
    BY <1>1, <1>3 DEF OperationFollowsTheHeader
  <2> QED
    BY <2>1, <2>2 DEF Target, Accessed
<1>6. NextCounter = moved' % CounterModulus /\ NextCounter \in Nat
  <2>1. moved \in Nat /\ opCounter = moved % CounterModulus /\ moved' \in Nat
    BY <1>1, <1>4 DEF EepromTypeOK, OperationFollowsTheHeader
  <2> QED
    BY <1>4, <2>1, EepromCounter DEF NextCounter
<1> QED
  BY <1>1, <1>2, <1>3, <1>4, <1>5, <1>6 DEF EepromTypeOK

\* A data byte, stored or fetched where the firmware means it to be as long
\* as the counter has not wrapped, or an access past the array.
LEMMA EepromDataStep ==
  ASSUME EepromIInv, ~eCrashed, NEW m, EepromLinkStep(m), EepromHandleMessage(m),
         m.dev = EepromAddress, m.cond = "READ" \/ (m.cond = "WRITE" /\ Len(header) = 2)
  PROVE /\ EepromIInv'
        /\ moved < CounterModulus =>
             \/ m.cond = "WRITE" /\ Target \in Cell /\ m.data \in Byte /\ eReply'.kind # "data"
                /\ buffer' = (Target :> m.data) @@ buffer /\ Target' = Target + 1
             \/ /\ Target \in Cell /\ buffer' = buffer /\ Target' = Target + 1
                /\ eReply'.kind = "data"
                /\ eReply'.data \in IF Target \in DOMAIN buffer THEN {buffer[Target]}
                                    ELSE Uninitialised
             \/ buffer' = buffer /\ eReply'.kind # "data" /\ Target' \in Nat
<1> USE DEF EepromLinkStep, eProtocol, eHistory
<1>1. EepromTypeOK /\ TransactionOnTheLink /\ OperationFollowsTheHeader
  BY DEF EepromIInv
<1>2. /\ eState = "STARTED" /\ link' = link /\ LinkType' /\ link.dev = EepromAddress
      /\ header' = header /\ moved' = moved + 1
      /\ Target \in Nat /\ Target = opAddress + moved
      /\ Accessed = opAddress + (moved % CounterModulus)
      /\ NextCounter = moved' % CounterModulus /\ NextCounter \in Nat
  BY EepromDataState
<1>3. moved \in Nat /\ (moved < CounterModulus => Accessed = Target)
  BY <1>1, <1>2, EepromCounter DEF EepromTypeOK
<1>4. Target' = Target + 1
  <2>1. Len(header) = 2 => header[1] \in Byte /\ header[2] \in Byte
    BY <1>1 DEF EepromTypeOK
  <2>2. Len(header) = 2 => 256 * header[1] + header[2] \in Nat
    <3>1. \A high, low \in Byte : 256 * high + low \in Nat
      BY DEF Byte
    <3> QED
      BY <2>1, <3>1
  <2> QED
    BY <1>2, <1>3, <2>2 DEF Target
<1>5. m.data \in Byte
  BY OfferedCarriesByte
<1>6. \/ StoreByte(m) /\ m.cond = "WRITE" /\ eReply' = Ack
      \/ EepromCrash /\ eReply' \in {Ack, Silent}
      \/ /\ m.cond = "READ" /\ Accessed \in Cell
         /\ eReply'.kind = "data"
         /\ eReply'.data \in IF Accessed \in DOMAIN buffer THEN {buffer[Accessed]}
                             ELSE Uninitialised
         /\ opCounter' = NextCounter
         /\ UNCHANGED <<eState, opAddress, buffer, eCrashed>>
  BY <1>2 DEF EepromHandleMessage, HandleAnyI2cMessage, MatchesI2cAddress,
    EepromHandleI2CMessage, EepromOnStart, EepromOnStop, EepromOnWrite, EepromOnRead,
    TakeAddressByte, Data
<1>7. ~eCrashed' => opCounter' = NextCounter /\ UNCHANGED <<eState, opAddress>>
  BY <1>6 DEF StoreByte, EepromCrash
<1>8. opCounter' \in Nat /\ opAddress' \in Nat /\ eState' = eState
  BY <1>1, <1>2, <1>6 DEF StoreByte, EepromCrash, EepromTypeOK
<1>9. EepromIInv'
  BY <1>1, <1>2, <1>3, <1>7, <1>8 DEF EepromIInv, EepromTypeOK, TransactionOnTheLink,
    OperationFollowsTheHeader
<1>10. Target' \in Nat
  BY <1>2, <1>4
<1> QED
  BY <1>2, <1>3, <1>4, <1>5, <1>6, <1>9, <1>10 DEF StoreByte, EepromCrash, Ack, Silent

LEMMA EepromInitIInv == ASSUME EepromFreeInit PROVE EepromIInv
<1>1. Free \in [dev : Addresses \cup {NoDevice}, rw : Direction] /\ Free.dev # EepromAddress
  BY EepromAddressIsOne DEF Free, Direction
<1>2. <<>> \in Seq(Byte) /\ Len(<<>>) = 0 /\ 0 \in Nat /\ 0 \in 0 .. 2
      /\ 0 % CounterModulus = 0
  BY EepromCounter
<1> QED
  BY <1>1, <1>2 DEF EepromFreeInit, EepromInit, EepromIInv, EepromTypeOK, LinkType,
    TransactionOnTheLink, OperationFollowsTheHeader

LEMMA EepromMessages ==
  ASSUME NEW m \in Offered
  PROVE m.cond \in {"START", "WRITE", "READ", "STOP"}
BY OfferedShape DEF Starts

LEMMA EepromStepIInv ==
  ASSUME ~RepeatsStart, EepromIInv, [EepromNext]_<<link, eVars>>
  PROVE  EepromIInv'
<1>1. CASE EepromNext
  <2>1. PICK m : EepromLinkStep(m) /\ EepromHandleMessage(m) /\ ~eCrashed
    BY <1>1 DEF EepromNext, EepromLinkStep
  <2>2. m.cond \in {"START", "WRITE", "READ", "STOP"}
    BY <2>1, EepromMessages DEF EepromLinkStep
  <2> QED
    BY <2>1, <2>2, EepromQuietStep, EepromAddressStep, EepromDataStep
<1>2. CASE UNCHANGED <<link, eVars>>
  BY <1>2 DEF eVars, eProtocol, eHistory, EepromIInv, EepromTypeOK, LinkType,
    TransactionOnTheLink, OperationFollowsTheHeader
<1> QED
  BY <1>1, <1>2

\* What the firmware has sent and the device's operation agree at all times.
THEOREM EepromInvariant ==
  ASSUME ~RepeatsStart
  PROVE  EepromSpec => []EepromIInv
<1>1. EepromFreeInit => EepromIInv
  BY EepromInitIInv
<1>2. EepromIInv /\ [EepromNext]_<<link, eVars>> => EepromIInv'
  BY EepromStepIInv
<1> QED
  BY <1>1, <1>2, PTL DEF EepromSpec

\* In STARTED the next byte goes where the firmware means it to go
\* (sim_47l04.h:42, sim_47l04.cpp:52-125), whatever the straps, the address
\* and the bytes, as long as a write is closed before the next one.
THEOREM EepromAddressing ==
  ASSUME ~RepeatsStart
  PROVE  EepromSpec => []AddressValidWhenStarted
<1>1. EepromIInv => AddressValidWhenStarted
  <2> SUFFICES ASSUME EepromIInv, eState = "STARTED", ~eCrashed, moved < CounterModulus
               PROVE Accessed = Target
    BY DEF AddressValidWhenStarted
  <2>1. EepromTypeOK /\ TransactionOnTheLink /\ OperationFollowsTheHeader
    BY DEF EepromIInv
  <2>2. Len(header) \in {0, 2}
    BY <2>1, EepromAddressIsOne DEF TransactionOnTheLink, EepromTypeOK, LinkType, Direction
  <2>3. moved % CounterModulus = moved
    BY <2>1, EepromCounter DEF EepromTypeOK
  <2>4. opCounter = moved /\ moved \in Nat /\ opAddress \in Nat
        /\ opAddress = IF Len(header) = 2 THEN 256 * header[1] + header[2] ELSE 0
    BY <2>1, <2>2, <2>3 DEF OperationFollowsTheHeader, EepromTypeOK
  <2> QED
    BY <2>4 DEF Accessed, Target
<1> QED
  BY <1>1, EepromInvariant, PTL

\* The firmware's target is an address, whatever it has sent.
LEMMA TargetIsNat ==
  ASSUME NEW bytes \in Seq(Byte), NEW n \in Nat
  PROVE n + (IF Len(bytes) = 2 THEN 256 * bytes[1] + bytes[2] ELSE 0) \in Nat
<1>1. \A i \in 1 .. Len(bytes) : bytes[i] \in Byte
  OBVIOUS
<1>2. \A high, low \in Byte : 256 * high + low \in Nat
  BY DEF Byte
<1> QED
  BY <1>1, <1>2

\* The EEPROM is a memory (sim_47l04.cpp:52-125): every message is a step of
\* the abstract memory or none, as long as no transfer wraps the counter and
\* a write is closed before the next one.
THEOREM EepromIsAMemory ==
  ASSUME ~RepeatsStart, MaxTransfer <= CounterModulus
  PROVE  EepromSpec => RefinesSerialMemory
<1> DEFINE output == IF eReply.kind = "data" THEN eReply.data ELSE NoByte
<1>1. EepromFreeInit => Memory!Init
  BY DEF EepromFreeInit, EepromInit, Memory!Init, Target, Silent
<1>2. EepromIInv /\ EepromIInv' /\ [EepromNext]_<<link, eVars>>
        => [Memory!Next]_<<buffer, Target, output>>
  <2> SUFFICES ASSUME EepromIInv, EepromIInv', [EepromNext]_<<link, eVars>>
               PROVE  [Memory!Next]_<<buffer, Target, output>>
    OBVIOUS
  <2>1. Target' \in Nat
    <3>1. header' \in Seq(Byte) /\ moved' \in Nat
      BY DEF EepromIInv, EepromTypeOK
    <3> QED
      BY <3>1, TargetIsNat DEF Target
  <2>2. CASE buffer' = buffer /\ eReply'.kind # "data"
    BY <2>1, <2>2 DEF Memory!Next, Memory!Seek
  <2>3. CASE EepromNext /\ ~(buffer' = buffer /\ eReply'.kind # "data")
    <3>1. PICK m : EepromLinkStep(m) /\ EepromHandleMessage(m) /\ ~eCrashed
      BY <2>3 DEF EepromNext, EepromLinkStep
    <3>2. m.cond \in {"START", "WRITE", "READ", "STOP"}
      BY <3>1, EepromMessages DEF EepromLinkStep
    <3>3. m.dev = EepromAddress /\ (m.cond = "READ" \/ (m.cond = "WRITE" /\ Len(header) = 2))
      BY <2>3, <3>1, <3>2, EepromQuietStep, EepromAddressStep
    <3>4. moved < CounterModulus
      <4>1. moved \in Nat /\ moved < MaxTransfer
        BY <3>1, <3>3, EepromDataState DEF EepromIInv, EepromTypeOK
      <4> QED
        BY <4>1, EepromFirmware
    <3>5. CASE /\ Target \in Cell /\ m.data \in Byte /\ eReply'.kind # "data"
               /\ buffer' = (Target :> m.data) @@ buffer /\ Target' = Target + 1
      BY <3>5 DEF Memory!Next, Memory!Store
    <3>6. CASE /\ Target \in Cell /\ buffer' = buffer /\ Target' = Target + 1
               /\ eReply'.kind = "data"
               /\ eReply'.data \in IF Target \in DOMAIN buffer THEN {buffer[Target]}
                                   ELSE Uninitialised
      BY <3>6 DEF Memory!Next, Memory!Fetch
    <3> QED
      BY <2>3, <3>1, <3>3, <3>4, <3>5, <3>6, EepromDataStep
  <2>4. CASE UNCHANGED <<link, eVars>>
    <3>1. UNCHANGED <<buffer, header, moved, eReply>>
      BY <2>4 DEF eVars, eHistory
    <3> QED
      BY <3>1 DEF Target
  <2> QED
    BY <2>2, <2>3, <2>4
<1> QED
  BY <1>1, <1>2, EepromInvariant, PTL DEF EepromSpec, RefinesSerialMemory, Memory!Spec

-----------------------------------------------------------------------------
(* The display's I2C side                                                  *)

\* The buffer holds what the interpreter was not fed yet, and the dirty flag
\* stands for what the front end has not drawn.
GIInv ==
  /\ screen \in Seq(Byte) /\ dataBuffer \in Seq(Byte)
  /\ EveryByteOnce
  /\ DirtyUntilSettled

LEMMA AppendToTheRest ==
  ASSUME NEW s \in Seq(Byte), NEW t \in Seq(Byte), NEW byte \in Byte
  PROVE  /\ s \o Append(t, byte) = Append(s \o t, byte)
         /\ s \o t \in Seq(Byte) /\ s \o <<>> = s /\ Append(t, byte) \in Seq(Byte)
OBVIOUS

LEMMA GMessageStep ==
  ASSUME GIInv, NEW m \in Offered, GHandleMessage(m)
  PROVE  GIInv'
<1> USE DEF device, gHistory
<1>1. screen \in Seq(Byte) /\ dataBuffer \in Seq(Byte) /\ screen \o dataBuffer = sent
  BY DEF GIInv, EveryByteOnce
<1>2. CASE GOnWrite(m)
  <2>1. m.data \in Byte
    BY OfferedCarriesByte
  <2>2. /\ dataBuffer' = Append(dataBuffer, m.data) /\ sent' = Append(sent, m.data)
        /\ UNCHANGED <<screen, screenDirty, debounceMs, sinceCommand, settled>>
    BY <1>2 DEF GOnWrite
  <2>3. dataBuffer' \in Seq(Byte) /\ screen' \o dataBuffer' = sent'
    BY <1>1, <2>1, <2>2, AppendToTheRest
  <2> QED
    BY <1>1, <2>2, <2>3 DEF GIInv, EveryByteOnce, DirtyUntilSettled
<1>3. CASE GOnStop(m)
  <2>1. /\ screen' = screen \o dataBuffer /\ dataBuffer' = <<>> /\ sent' = sent
        /\ screenDirty' = TRUE /\ debounceMs' = 0 /\ sinceCommand' = 0
    BY <1>3 DEF GOnStop, OnDataReceived
  <2>2. <<>> \in Seq(Byte) /\ 0 \in Byte
    BY DEF Byte
  <2>3. screen' \in Seq(Byte)
    BY <1>1, <2>1, <2>2, AppendToTheRest, Zenon
  <2>4. screen' \o dataBuffer' = sent'
    BY <1>1, <2>1, <2>2, <2>3, AppendToTheRest, Zenon
  <2> QED
    BY <2>1, <2>2, <2>3, <2>4 DEF GIInv, EveryByteOnce, DirtyUntilSettled
<1>4. CASE GOnStart(m) \/ GOnRead(m) \/ GIgnore
  <2>1. UNCHANGED <<device, gHistory>>
    BY <1>4 DEF GOnStart, GOnRead, GIgnore
  <2> QED
    BY <2>1 DEF GIInv, EveryByteOnce, DirtyUntilSettled
<1> QED
  BY <1>2, <1>3, <1>4 DEF GHandleMessage, GHandleI2CMessage

LEMMA GStepIInv == ASSUME GIInv, [GNext]_<<link, gVars>> PROVE GIInv'
<1>1. CASE GBusStep
  BY <1>1, GMessageStep DEF GBusStep
<1>2. CASE OnMillisecondPassed
  BY <1>2 DEF OnMillisecondPassed, GIInv, EveryByteOnce, DirtyUntilSettled
<1>3. CASE CleanScreen
  BY <1>3 DEF CleanScreen, GIInv, EveryByteOnce, DirtyUntilSettled
<1>4. CASE UNCHANGED <<link, gVars>>
  BY <1>4 DEF gVars, device, gHistory, GIInv, EveryByteOnce, DirtyUntilSettled
<1> QED
  BY <1>1, <1>2, <1>3, <1>4 DEF GNext

\* The display's I2C side keeps its books, whatever is sent and whenever the
\* front end looks.
THEOREM DisplayInvariant == GSpec => []GIInv
<1>1. DisplayInit => GIInv
  <2>1. <<>> \in Seq(Byte) /\ <<>> \o <<>> = <<>> /\ Len(<<>>) = 0
    OBVIOUS
  <2> QED
    BY <2>1 DEF DisplayInit, Gu7000I2CInit, GIInv, EveryByteOnce, DirtyUntilSettled
<1>2. GIInv /\ [GNext]_<<link, gVars>> => GIInv'
  BY GStepIInv
<1> QED
  BY <1>1, <1>2, PTL DEF GSpec

\* Every byte written to the display reaches the interpreter once and in
\* order, or waits in the buffer (sim_i2c_smarter_base.cpp, sim_gu7000_i2c.cpp:9-25).
THEOREM DisplayBuffersEveryByte == GSpec => []EveryByteOnce
<1>1. GIInv => EveryByteOnce
  BY DEF GIInv
<1> QED
  BY <1>1, DisplayInvariant, PTL

\* A clean screen has nothing new to draw, and a dirty one counts the time
\* since the last command, for any number of ticks and commands
\* (sim_gu7000_i2c.cpp:9-25).
THEOREM DirtyFlagIsHonest == GSpec => []DirtyUntilSettled
<1>1. GIInv => DirtyUntilSettled
  BY DEF GIInv
<1> QED
  BY <1>1, DisplayInvariant, PTL

-----------------------------------------------------------------------------
(* The listener                                                            *)

Heeded == [message : Message, reply : Reply]

ListenerTypeOK ==
  /\ LinkInit
  /\ inProgress \in Seq(LMessage) /\ Len(inProgress) \in {0, 1}
  /\ finished \in Seq(LMessage) /\ callbacks \in Seq(LMessage)
  /\ traffic \in Seq(Heeded)

\* There is a message in progress unless the bus is free or the listener
\* came too late to see a START.
NothingInProgressBetweenTransactions ==
  /\ link = Free => inProgress = <<>>
  /\ link # Free /\ inProgress = <<>> => ~attachedIdle /\ Conds \cap {"START", "STOP"} = {}

\* Newest first, by index.
FinishedByIndex ==
  /\ Len(finished) = IF Len(callbacks) < MaxFinished THEN Len(callbacks) ELSE MaxFinished
  /\ \A i \in 1 .. Len(finished) : finished[i] = callbacks[Len(callbacks) + 1 - i]

InProgressTranscribesTheTraffic ==
  IF Heard = {} THEN inProgress = <<>>
  ELSE Len(inProgress) = 1 /\ Transcribes(inProgress[1])

ListenerIInv ==
  /\ ListenerTypeOK
  /\ NothingInProgressBetweenTransactions
  /\ OnlyALateListenerDereferencesNothing
  /\ FinishedByIndex
  /\ InProgressTranscribesTheTraffic

\* The bus is free or addressed, and stays so.
LEMMA LinkStepAddressed ==
  ASSUME LinkInit, NEW m \in Offered, Emit(m)
  PROVE  /\ LinkInit'
         /\ m.cond = "START" => link' # Free
         /\ m.cond = "STOP" => link' = Free
         /\ m.cond \in {"WRITE", "READ"} => link' = link /\ link # Free
<1>1. \A a \in Addresses : a # NoDevice
  BY AddressesAssumption DEF NoDevice
<1>2. CASE m.cond = "START"
  <2>1. m \in Starts
    BY <1>2 DEF Offered, Transfers, Starts
  <2> QED
    BY <1>1, <1>2, <2>1 DEF Emit, Starts, LinkInit, Free
<1>3. CASE m.cond = "STOP"
  BY <1>3 DEF Emit, LinkInit
<1>4. CASE m.cond \notin {"START", "STOP"}
  BY <1>4, OfferedShape DEF Emit, LinkInit, Starts
<1> QED
  BY <1>2, <1>3, <1>4

LEMMA OfferedAreMessages ==
  ASSUME LinkInit, NEW m \in Offered
  PROVE  m \in Message
<1>1. 0 \in Byte
  BY DEF Byte
<1>2. CASE m \in Starts
  BY <1>1, <1>2, AddressesAssumption DEF Starts, Message, Direction
<1>3. CASE m \in Transfers
  <2>1. link # Free
    BY <1>3 DEF Transfers
  <2>2. link.dev \in 0 .. 127 /\ link.rw \in Direction
    BY <2>1, AddressesAssumption DEF LinkInit, Free, Direction
  <2>3. CASE m \in [cond : {"STOP"}, dev : {link.dev}, rw : {link.rw}, data : {0}]
    BY <1>1, <2>2, <2>3 DEF Message
  <2>4. CASE m \in [cond : {"WRITE"}, dev : {link.dev}, rw : {"W"}, data : DataBytes]
    BY <2>2, <2>4, DataBytesAssumption DEF Message, Direction
  <2>5. CASE m \in [cond : {"READ"}, dev : {link.dev}, rw : {"R"}, data : {0}]
    BY <1>1, <2>2, <2>5 DEF Message, Direction
  <2> QED
    BY <1>3, <2>1, <2>3, <2>4, <2>5 DEF Transfers
<1> QED
  BY <1>2, <1>3 DEF Offered

\* An answer is a reply, and only a READ is answered with data.
LEMMA RepliesShape ==
  ASSUME NEW m, NEW r \in Replies(m)
  PROVE  r \in Reply /\ (r.kind = "data" => m.cond = "READ")
<1>1. Ack \in Reply /\ Ack.kind = "ack"
  BY RepliesAreTyped DEF Ack
<1> QED
  BY <1>1, ListenerAssumption DEF Replies

\* What a message and its answer do to the message in progress, in either
\* order of the hooks.
LEMMA ExchangeShape ==
  ASSUME inProgress \in Seq(LMessage), Len(inProgress) \in {0, 1},
         NEW m \in Message, NEW r \in Reply, r.kind = "data" => m.cond = "READ"
  PROVE /\ m.cond = "START" /\ inProgress = <<>> => Exchange(m, r) = <<NewMessage(m.dev)>>
        /\ m.cond = "START" /\ inProgress # <<>> =>
             Exchange(m, r) = <<[inProgress[1] EXCEPT !.RepeatedStart = TRUE]>>
        /\ m.cond \in {"WRITE", "READ"} /\ inProgress = <<>> => Exchange(m, r) = <<>>
        /\ m.cond = "WRITE" /\ inProgress # <<>> =>
             Exchange(m, r) = <<[inProgress[1] EXCEPT !.Type = "Write",
                                                      !.WriteBuffer = Append(@, m.data)]>>
        /\ m.cond = "READ" /\ inProgress # <<>> =>
             Exchange(m, r) = <<[inProgress[1] EXCEPT !.Type = "Read",
                  !.ReadBuffer = IF r.kind = "data" THEN Append(@, r.data) ELSE @]>>
<1>1. \A x : <<x>> # <<>> /\ <<x>>[1] = x
  OBVIOUS
<1>2. inProgress # <<>> => inProgress[1] \in LMessage /\ inProgress = <<inProgress[1]>>
  OBVIOUS
<1>3. CASE m.cond = "START"
  <2>1. FromAvr(inProgress, m) = Started(inProgress, m) /\ r.kind # "data"
    BY <1>3 DEF FromAvr
  <2>2. Exchange(m, r) = Started(inProgress, m)
    BY <2>1 DEF Exchange, ToAvr
  <2> QED
    BY <1>3, <2>2 DEF Started
<1>4. CASE m.cond = "WRITE"
  <2>1. r.kind # "data"
    BY <1>4
  <2>2. Exchange(m, r) = FromAvr(inProgress, m)
    BY <2>1 DEF Exchange, ToAvr
  <2> QED
    BY <1>4, <2>2 DEF FromAvr
<1>5. CASE m.cond = "READ" /\ inProgress = <<>>
  BY <1>5 DEF Exchange, ToAvr, FromAvr
<1>6. CASE m.cond = "READ" /\ inProgress # <<>>
  <2> DEFINE c == inProgress[1]
  <2>1. FromAvr(inProgress, m) = <<[c EXCEPT !.Type = "Read"]>>
    BY <1>6 DEF FromAvr
  <2>2. CASE r.kind # "data"
    BY <1>6, <2>1, <2>2, <1>2 DEF Exchange, ToAvr, LMessage
  <2>3. CASE r.kind = "data"
    <3>1. ToAvr(inProgress, r) = <<[c EXCEPT !.ReadBuffer = Append(@, r.data)]>>
      BY <1>6, <2>3 DEF ToAvr
    <3>2. FromAvr(<<[c EXCEPT !.ReadBuffer = Append(@, r.data)]>>, m)
            = <<[[c EXCEPT !.ReadBuffer = Append(@, r.data)] EXCEPT !.Type = "Read"]>>
      BY <1>1, <1>6 DEF FromAvr
    <3>3. ToAvr(<<[c EXCEPT !.Type = "Read"]>>, r)
            = <<[[c EXCEPT !.Type = "Read"] EXCEPT !.ReadBuffer = Append(@, r.data)]>>
      BY <1>1, <2>3 DEF ToAvr
    <3>4. c \in LMessage
      BY <1>2, <1>6
    <3> HIDE DEF c
    <3>5. /\ [[c EXCEPT !.ReadBuffer = Append(@, r.data)] EXCEPT !.Type = "Read"]
               = [c EXCEPT !.Type = "Read", !.ReadBuffer = Append(@, r.data)]
          /\ [[c EXCEPT !.Type = "Read"] EXCEPT !.ReadBuffer = Append(@, r.data)]
               = [c EXCEPT !.Type = "Read", !.ReadBuffer = Append(@, r.data)]
      BY <3>4 DEF LMessage
    <3> QED
      BY <1>6, <2>1, <2>3, <3>1, <3>2, <3>3, <3>5 DEF Exchange, c
  <2> QED
    BY <2>2, <2>3
<1> QED
  BY <1>3, <1>4, <1>5, <1>6

\* The parts of the invariant that do not look into the messages.
LEMMA ExchangeTyped ==
  ASSUME inProgress \in Seq(LMessage), Len(inProgress) \in {0, 1},
         NEW m \in Message, NEW r \in Reply, r.kind = "data" => m.cond = "READ",
         m.cond # "STOP"
  PROVE  /\ Exchange(m, r) \in Seq(LMessage) /\ Len(Exchange(m, r)) \in {0, 1}
         /\ Exchange(m, r) = <<>> <=> m.cond # "START" /\ inProgress = <<>>
<1>1. \A x \in LMessage : <<x>> \in Seq(LMessage) /\ Len(<<x>>) = 1 /\ <<x>> # <<>>
  OBVIOUS
<1>2. <<>> \in Seq(LMessage) /\ Len(<<>>) = 0
  OBVIOUS
<1>3. m.dev \in 0 .. 127 /\ m.data \in Byte /\ r.data \in Byte
      /\ m.cond \in {"START", "WRITE", "READ", "STOP"}
  BY DEF Message, Reply
<1>4. inProgress # <<>> => inProgress[1] \in LMessage
  OBVIOUS
<1>5. CASE m.cond = "START" /\ inProgress = <<>>
  <2>1. NewMessage(m.dev) \in LMessage
    <3>1. <<>> \in Seq(Byte) /\ FALSE \in BOOLEAN
      OBVIOUS
    <3> QED
      BY <1>3, <3>1 DEF NewMessage, LMessage
  <2> QED
    BY <1>1, <1>5, <2>1, ExchangeShape
<1>6. CASE m.cond = "START" /\ inProgress # <<>>
  <2>1. [inProgress[1] EXCEPT !.RepeatedStart = TRUE] \in LMessage
    BY <1>4, <1>6 DEF LMessage
  <2> QED
    BY <1>1, <1>6, <2>1, ExchangeShape
<1>7. CASE m.cond # "START" /\ inProgress = <<>>
  BY <1>2, <1>3, <1>7, ExchangeShape
<1>8. CASE m.cond = "WRITE" /\ inProgress # <<>>
  <2>1. [inProgress[1] EXCEPT !.Type = "Write", !.WriteBuffer = Append(@, m.data)] \in LMessage
    <3>1. inProgress[1] \in LMessage /\ inProgress[1].WriteBuffer \in Seq(Byte)
      BY <1>4, <1>8 DEF LMessage
    <3>2. Append(inProgress[1].WriteBuffer, m.data) \in Seq(Byte)
      BY <1>3, <3>1
    <3> QED
      BY <3>1, <3>2 DEF LMessage
  <2> QED
    BY <1>1, <1>8, <2>1, ExchangeShape
<1>9. CASE m.cond = "READ" /\ inProgress # <<>>
  <2>1. [inProgress[1] EXCEPT !.Type = "Read",
           !.ReadBuffer = IF r.kind = "data" THEN Append(@, r.data) ELSE @] \in LMessage
    <3>1. inProgress[1] \in LMessage /\ inProgress[1].ReadBuffer \in Seq(Byte)
      BY <1>4, <1>9 DEF LMessage
    <3>2. Append(inProgress[1].ReadBuffer, r.data) \in Seq(Byte)
      BY <1>3, <3>1
    <3> QED
      BY <3>1, <3>2 DEF LMessage
  <2> QED
    BY <1>1, <1>9, <2>1, ExchangeShape
<1> QED
  BY <1>3, <1>5, <1>6, <1>7, <1>8, <1>9

\* The list of finished messages, one message later.
LEMMA FinishStep ==
  ASSUME finished \in Seq(LMessage), callbacks \in Seq(LMessage), FinishedByIndex,
         NEW message \in LMessage, Finish(message), callbacks' = Append(callbacks, message)
  PROVE  finished' \in Seq(LMessage) /\ callbacks' \in Seq(LMessage) /\ FinishedByIndex'
<1> DEFINE longer == <<message>> \o finished
           k == IF Len(finished) < MaxFinished THEN Len(finished) + 1 ELSE MaxFinished
<1>1. MaxFinished \in Nat /\ Len(finished) \in Nat /\ Len(callbacks) \in Nat
  BY ListenerAssumption
<1>2. /\ longer \in Seq(LMessage) /\ Len(longer) = Len(finished) + 1
      /\ longer[1] = message
      /\ \A i \in 1 .. Len(finished) : longer[i + 1] = finished[i]
  OBVIOUS
<1>3. /\ callbacks' \in Seq(LMessage) /\ Len(callbacks') = Len(callbacks) + 1
      /\ callbacks'[Len(callbacks) + 1] = message
      /\ \A i \in 1 .. Len(callbacks) : callbacks'[i] = callbacks[i]
  OBVIOUS
<1>4. finished' = SubSeq(longer, 1, k) /\ k \in 0 .. Len(longer)
  BY <1>1, <1>2 DEF Finish, FinishedByIndex
<1> HIDE DEF longer, k
<1>5. /\ finished' \in Seq(LMessage) /\ Len(finished') = k
      /\ \A i \in 1 .. k : finished'[i] = longer[i]
  BY <1>2, <1>4
<1>6. k = IF Len(callbacks') < MaxFinished THEN Len(callbacks') ELSE MaxFinished
  BY <1>1, <1>3 DEF FinishedByIndex, k
<1>7. ASSUME NEW i \in 1 .. k PROVE finished'[i] = callbacks'[Len(callbacks') + 1 - i]
  <2>1. CASE i = 1
    BY <1>1, <1>2, <1>3, <1>5, <2>1
  <2>2. CASE i > 1
    <3>1. i - 1 \in 1 .. Len(finished) /\ i \in Nat /\ (i - 1) + 1 = i
      BY <1>1, <1>2, <1>4, <2>2
    <3>2. finished'[i] = finished[i - 1]
      BY <1>2, <1>5, <3>1
    <3>3. finished[i - 1] = callbacks[Len(callbacks) + 1 - (i - 1)]
      BY <3>1 DEF FinishedByIndex
    <3>4. Len(finished) <= Len(callbacks)
      BY <1>1 DEF FinishedByIndex
    <3>5. /\ Len(callbacks) + 1 - (i - 1) \in 1 .. Len(callbacks)
          /\ Len(callbacks) + 1 - (i - 1) = Len(callbacks') + 1 - i
      BY <1>1, <1>3, <3>1, <3>4
    <3> QED
      BY <1>3, <3>2, <3>3, <3>5
  <2>3. i = 1 \/ i > 1
    BY <1>1, <1>2, <1>4
  <2> QED
    BY <2>1, <2>2, <2>3, Zenon
<1> QED
  BY <1>3, <1>5, <1>6, <1>7 DEF FinishedByIndex

\* The conditions seen so far, one exchange later.
LEMMA CondsGrow ==
  ASSUME traffic \in Seq(Heeded), NEW e \in Heeded, traffic' = Append(traffic, e)
  PROVE  Conds' = Conds \cup {e.message.cond} /\ traffic' \in Seq(Heeded)
<1>1. /\ traffic' \in Seq(Heeded) /\ DOMAIN traffic' = DOMAIN traffic \cup {Len(traffic) + 1}
      /\ \A i \in DOMAIN traffic : traffic'[i] = traffic[i]
      /\ traffic'[Len(traffic) + 1] = e
  OBVIOUS
<1> QED
  BY <1>1 DEF Conds

LEMMA ListenerMessageStep ==
  ASSUME ListenerTypeOK, NothingInProgressBetweenTransactions,
         OnlyALateListenerDereferencesNothing, FinishedByIndex,
         NEW m \in Offered, NEW r \in Replies(m), BusMessage(m, r)
  PROVE  /\ ListenerTypeOK' /\ NothingInProgressBetweenTransactions'
         /\ OnlyALateListenerDereferencesNothing' /\ FinishedByIndex'
<1>1. /\ inProgress \in Seq(LMessage) /\ Len(inProgress) \in {0, 1} /\ LinkInit
      /\ finished \in Seq(LMessage) /\ callbacks \in Seq(LMessage) /\ traffic \in Seq(Heeded)
  BY DEF ListenerTypeOK
<1>2. m \in Message /\ r \in Reply /\ (r.kind = "data" => m.cond = "READ")
  BY <1>1, OfferedAreMessages, RepliesShape
<1>3. [message |-> m, reply |-> r] \in Heeded
  BY <1>2 DEF Heeded
<1>4. /\ traffic' = Append(traffic, [message |-> m, reply |-> r]) /\ Emit(m)
      /\ Transferred(m, r) \/ Stopped(m)
      /\ ~badDereference /\ attachedIdle' = attachedIdle
  BY DEF BusMessage
<1>5. Conds' = Conds \cup {m.cond} /\ traffic' \in Seq(Heeded)
  BY <1>1, <1>3, <1>4, CondsGrow
<1>6. /\ LinkInit' /\ m.cond \in {"START", "WRITE", "READ", "STOP"}
      /\ m.cond = "START" => link' # Free
      /\ m.cond = "STOP" => link' = Free
      /\ m.cond \in {"WRITE", "READ"} => link' = link /\ link # Free
  BY <1>1, <1>2, <1>4, LinkStepAddressed DEF Message
<1>7. CASE Transferred(m, r)
  <2>1. /\ inProgress' = Exchange(m, r) /\ m.cond # "STOP"
        /\ badDereference' <=> (r.kind = "data" /\ inProgress = <<>>)
        /\ UNCHANGED <<finished, callbacks>>
    BY <1>4, <1>7 DEF Transferred
  <2>2. /\ inProgress' \in Seq(LMessage) /\ Len(inProgress') \in {0, 1}
        /\ inProgress' = <<>> <=> m.cond # "START" /\ inProgress = <<>>
    BY <1>1, <1>2, <2>1, ExchangeTyped
  <2>3. ListenerTypeOK'
    BY <1>1, <1>5, <1>6, <2>1, <2>2 DEF ListenerTypeOK
  <2>4. NothingInProgressBetweenTransactions'
    BY <1>4, <1>5, <1>6, <2>1, <2>2 DEF NothingInProgressBetweenTransactions
  <2>5. OnlyALateListenerDereferencesNothing'
    BY <1>2, <1>4, <1>5, <1>6, <2>1
    DEF NothingInProgressBetweenTransactions, OnlyALateListenerDereferencesNothing
  <2>6. FinishedByIndex'
    BY <2>1 DEF FinishedByIndex
  <2> QED
    BY <2>3, <2>4, <2>5, <2>6
<1>8. CASE Stopped(m)
  <2>1. m.cond = "STOP" /\ badDereference' = badDereference
    BY <1>8 DEF Stopped
  <2>2. inProgress' = <<>>
    BY <1>8 DEF Stopped
  <2>3. finished' \in Seq(LMessage) /\ callbacks' \in Seq(LMessage) /\ FinishedByIndex'
    <3>1. CASE inProgress # <<>>
      <4>1. inProgress[1] \in LMessage
        BY <1>1, <3>1
      <4>2. Finish(inProgress[1]) /\ callbacks' = Append(callbacks, inProgress[1])
        BY <1>8, <3>1 DEF Stopped
      <4> QED
        BY <1>1, <4>1, <4>2, FinishStep
    <3>2. CASE inProgress = <<>>
      BY <1>1, <1>8, <3>2 DEF Stopped, FinishedByIndex
    <3> QED
      BY <3>1, <3>2
  <2>4. <<>> \in Seq(LMessage) /\ Len(<<>>) = 0
    OBVIOUS
  <2> QED
    BY <1>4, <1>5, <1>6, <2>1, <2>2, <2>3, <2>4
    DEF ListenerTypeOK, NothingInProgressBetweenTransactions, OnlyALateListenerDereferencesNothing
<1> QED
  BY <1>4, <1>7, <1>8

\* One more value, at a later position, is one more byte at the end.
LEMMA InOrderAppend ==
  ASSUME NEW n \in Nat, NEW said, NEW longer, NEW value \in Byte, NEW bytes \in Seq(Byte),
         DOMAIN said \subseteq 1 .. n, DOMAIN longer = DOMAIN said \cup {n + 1},
         \A i \in DOMAIN said : longer[i] = said[i], longer[n + 1] = value,
         InOrder(bytes, said)
  PROVE  InOrder(Append(bytes, value), longer)
<1> DEFINE D == DOMAIN said
           L == D \cup {n + 1}
           c == Cardinality(D)
<1>1. IsFiniteSet(1 .. n)
  <2>1. 1 \in Int /\ n \in Int
    OBVIOUS
  <2> QED
    BY <2>1, FS_Interval, Zenon
<1>2. IsFiniteSet(D) /\ c \in Nat
  BY <1>1, FS_Subset, FS_CardinalityType
<1>3. n + 1 \notin D /\ Cardinality(L) = c + 1
  BY <1>2, FS_AddElement
<1>4. Len(bytes) = c
  BY DEF InOrder
<1>5. /\ Append(bytes, value) \in Seq(Byte) /\ Len(Append(bytes, value)) = c + 1
      /\ Append(bytes, value)[c + 1] = value
      /\ \A k \in 1 .. c : Append(bytes, value)[k] = bytes[k]
  BY <1>4
<1>6. ASSUME NEW i \in D
      PROVE Append(bytes, value)[Cardinality({j \in L : j <= i})] = said[i]
  <2>1. {j \in L : j <= i} = {j \in D : j <= i}
    OBVIOUS
  <2>2. {j \in D : j <= i} \in SUBSET D /\ i \in {j \in D : j <= i}
    OBVIOUS
  <2>3. /\ IsFiniteSet({j \in D : j <= i})
        /\ Cardinality({j \in D : j <= i}) <= c
        /\ Cardinality({j \in D : j <= i}) \in Nat
        /\ Cardinality({j \in D : j <= i}) # 0
    <3>1. /\ IsFiniteSet({j \in D : j <= i})
          /\ Cardinality({j \in D : j <= i}) <= c
      BY <1>2, <2>2, FS_Subset
    <3>2. {j \in D : j <= i} # {}
      BY <2>2
    <3> QED
      BY <3>1, <3>2, FS_EmptySet, FS_CardinalityType
  <2>4. Cardinality({j \in D : j <= i}) \in 1 .. c
    BY <1>2, <2>3
  <2>5. bytes[Cardinality({j \in D : j <= i})] = said[i]
    BY DEF InOrder
  <2> QED
    BY <1>5, <2>1, <2>4, <2>5
<1>7. Append(bytes, value)[Cardinality({j \in L : j <= n + 1})] = value
  <2>1. {j \in L : j <= n + 1} = L
    OBVIOUS
  <2> QED
    BY <1>3, <1>5, <2>1
<1> QED
  BY <1>3, <1>5, <1>6, <1>7 DEF InOrder

\* Which positions are heard, one exchange later.
LEMMA HeardGrows ==
  ASSUME traffic \in Seq(Heeded), NEW e \in Heeded, traffic' = Append(traffic, e)
  PROVE  /\ Heard \subseteq 1 .. Len(traffic)
         /\ \A i \in 1 .. Len(traffic) : traffic'[i] = traffic[i]
         /\ traffic'[Len(traffic) + 1] = e
         /\ e.message.cond = "STOP" => Heard' = {}
         /\ e.message.cond # "STOP" =>
              Heard' = Heard \cup IF e.message.cond = "START" \/ Heard # {}
                                  THEN {Len(traffic) + 1} ELSE {}
<1> DEFINE n == Len(traffic)
<1>1. /\ n \in Nat /\ DOMAIN traffic = 1 .. n /\ DOMAIN traffic' = (1 .. n) \cup {n + 1}
      /\ \A i \in 1 .. n : traffic'[i] = traffic[i]
      /\ traffic'[n + 1] = e
  OBVIOUS
<1> HIDE DEF n
<1>2. CASE e.message.cond = "STOP"
  <2>1. ASSUME NEW i \in DOMAIN traffic', i \in Heard' PROVE FALSE
    <3>1. n + 1 \in DOMAIN traffic' /\ traffic'[n + 1].message.cond = "STOP"
      BY <1>1, <1>2
    <3>2. n + 1 < i
      BY <2>1, <3>1 DEF Heard
    <3> QED
      BY <1>1, <3>2
  <2> QED
    BY <1>1, <1>2, <2>1 DEF Heard, n
<1>3. CASE e.message.cond # "STOP"
  <2> DEFINE After(i) == \A j \in 1 .. n : traffic[j].message.cond = "STOP" => j < i
  <2>1. \A i \in DOMAIN traffic' :
          (\A j \in DOMAIN traffic' : traffic'[j].message.cond = "STOP" => j < i) <=> After(i)
    BY <1>1, <1>3
  <2>2. After(n + 1)
    BY <1>1
  <2>3. Heard = {i \in 1 .. n : After(i) /\ \E j \in 1 .. n :
                   traffic[j].message.cond = "START" /\ j <= i /\ After(j)}
    BY <1>1 DEF Heard
  <2>4. Heard' = {i \in DOMAIN traffic' : After(i) /\ \E j \in DOMAIN traffic' :
                   traffic'[j].message.cond = "START" /\ j <= i /\ After(j)}
    BY <2>1 DEF Heard
  <2>5. \A i \in 1 .. n : i \in Heard' <=> i \in Heard
    <3>1. SUFFICES ASSUME NEW i \in 1 .. n PROVE i \in Heard' <=> i \in Heard
      OBVIOUS
    <3>2. i \in DOMAIN traffic' /\ ~(n + 1 <= i)
      BY <1>1
    <3>3. (\E j \in DOMAIN traffic' : traffic'[j].message.cond = "START" /\ j <= i /\ After(j))
            <=> \E j \in 1 .. n : traffic[j].message.cond = "START" /\ j <= i /\ After(j)
      BY <1>1, <3>2
    <3> QED
      BY <2>3, <2>4, <3>2, <3>3
  <2>6. n + 1 \in Heard' <=> e.message.cond = "START" \/ Heard # {}
    <3>1. CASE e.message.cond = "START"
      BY <1>1, <2>2, <2>4, <3>1
    <3>2. CASE e.message.cond # "START" /\ Heard # {}
      <4>1. PICK j \in 1 .. n : traffic[j].message.cond = "START" /\ After(j)
        BY <2>3, <3>2
      <4>2. j \in DOMAIN traffic' /\ traffic'[j].message.cond = "START" /\ j <= n + 1
        BY <1>1, <4>1
      <4> QED
        BY <1>1, <2>2, <2>4, <3>2, <4>1, <4>2
    <3>3. CASE e.message.cond # "START" /\ Heard = {}
      <4>1. \A j \in 1 .. n : ~(traffic[j].message.cond = "START" /\ After(j))
        <5>1. SUFFICES ASSUME NEW j \in 1 .. n, traffic[j].message.cond = "START" /\ After(j)
                       PROVE FALSE
          OBVIOUS
        <5>2. j \in Heard
          BY <1>1, <2>3, <5>1
        <5> QED
          BY <3>3, <5>2
      <4>2. \A j \in DOMAIN traffic' : ~(traffic'[j].message.cond = "START" /\ After(j))
        BY <1>1, <3>3, <4>1
      <4> QED
        BY <2>4, <3>3, <4>2
    <3> QED
      BY <3>1, <3>2, <3>3
  <2>7. Heard \subseteq 1 .. n /\ Heard' \subseteq (1 .. n) \cup {n + 1}
    BY <1>1, <2>3, <2>4
  <2> HIDE DEF After
  <2> QED
    BY <1>1, <1>3, <2>5, <2>6, <2>7 DEF n
<1> QED
  BY <1>2, <1>3

LEMMA HeardOfGrows ==
  ASSUME traffic \in Seq(Heeded), NEW e \in Heeded, traffic' = Append(traffic, e),
         e.message.cond # "STOP", NEW C
  PROVE  /\ HeardOf(C) \subseteq 1 .. Len(traffic)
         /\ HeardOf(C)' = HeardOf(C) \cup IF Len(traffic) + 1 \in Heard' /\ e.message.cond \in C
                                          THEN {Len(traffic) + 1} ELSE {}
<1>1. Len(traffic) + 1 \notin Heard /\ \A i \in Heard : traffic'[i] = traffic[i]
  BY HeardGrows
<1> QED
  BY <1>1, HeardGrows DEF HeardOf

\* What is heard begins with a START.
LEMMA HeardBegins ==
  ASSUME traffic \in Seq(Heeded), Heard # {}
  PROVE  HeardOf({"START"}) # {}
<1>1. PICK i : i \in Heard
  OBVIOUS
<1>2. PICK j \in DOMAIN traffic :
        /\ traffic[j].message.cond = "START"
        /\ \A k \in DOMAIN traffic : traffic[k].message.cond = "STOP" => k < j
  BY <1>1 DEF Heard
<1>3. j \in Heard
  <2>1. j <= j
    OBVIOUS
  <2> QED
    BY <1>2, <2>1 DEF Heard
<1> QED
  BY <1>2, <1>3 DEF HeardOf

\* A message that is heard from its first START.
LEMMA TranscriptBegins ==
  ASSUME ListenerTypeOK, InProgressTranscribesTheTraffic, Heard = {},
         NEW m \in Message, NEW r \in Reply, r.kind = "data" => m.cond = "READ",
         traffic' = Append(traffic, [message |-> m, reply |-> r]),
         inProgress' = Exchange(m, r), m.cond = "START"
  PROVE  InProgressTranscribesTheTraffic'
<1> DEFINE n == Len(traffic)
           e == [message |-> m, reply |-> r]
           x == NewMessage(m.dev)
<1>1. traffic \in Seq(Heeded) /\ e \in Heeded /\ inProgress = <<>> /\ n \in Nat
  BY DEF ListenerTypeOK, InProgressTranscribesTheTraffic, Heeded
<1>2. inProgress' = <<x>> /\ Len(inProgress') = 1 /\ inProgress'[1] = x
  BY <1>1, ExchangeShape DEF ListenerTypeOK
<1>3. Heard' = {n + 1} /\ traffic'[n + 1] = e
  BY <1>1, HeardGrows
<1>4. /\ HeardOf({"START"})' = {n + 1}
      /\ HeardOf({"WRITE"})' = {} /\ HeardOf({"WRITE", "READ"})' = {}
      /\ {j \in Heard' : traffic'[j].reply.kind = "data"} = {}
  BY <1>3 DEF HeardOf
<1>5. \A f : DOMAIN f = {} => InOrder(<<>>, f)
  BY FS_EmptySet DEF InOrder
<1>6. /\ x.Address = m.dev /\ x.RepeatedStart = FALSE /\ x.Type = NoType
      /\ x.WriteBuffer = <<>> /\ x.ReadBuffer = <<>>
  BY DEF NewMessage
<1>7. Transcribes(x)'
  <2>1. \A i \in HeardOf({"START"})' : x.Address = traffic'[i].message.dev
    BY <1>3, <1>4, <1>6
  <2>2. x.RepeatedStart = (\E i, j \in HeardOf({"START"})' : i # j)
    BY <1>4, <1>6
  <2>3. InOrder(x.WriteBuffer, [i \in HeardOf({"WRITE"})' |-> traffic'[i].message.data])
    <3> DEFINE f == [i \in HeardOf({"WRITE"})' |-> traffic'[i].message.data]
    <3>1. DOMAIN f = {}
      BY <1>4
    <3> HIDE DEF f
    <3>2. InOrder(x.WriteBuffer, f)
      BY <1>5, <1>6, <3>1
    <3> QED
      BY <3>2 DEF f
  <2>4. InOrder(x.ReadBuffer,
                [i \in {j \in Heard' : traffic'[j].reply.kind = "data"} |-> traffic'[i].reply.data])
    <3> DEFINE f == [i \in {j \in Heard' : traffic'[j].reply.kind = "data"} |->
                       traffic'[i].reply.data]
    <3>1. DOMAIN f = {}
      BY <1>4
    <3> HIDE DEF f
    <3>2. InOrder(x.ReadBuffer, f)
      BY <1>5, <1>6, <3>1
    <3> QED
      BY <3>2 DEF f
  <2> HIDE DEF x
  <2> QED
    BY <1>4, <1>6, <2>1, <2>2, <2>3, <2>4 DEF Transcribes
<1> QED
  BY <1>2, <1>3, <1>7 DEF InProgressTranscribesTheTraffic

\* A message that is heard on.
LEMMA TranscriptGrows ==
  ASSUME ListenerTypeOK, InProgressTranscribesTheTraffic, Heard # {},
         NEW m \in Message, NEW r \in Reply, r.kind = "data" => m.cond = "READ",
         traffic' = Append(traffic, [message |-> m, reply |-> r]),
         inProgress' = Exchange(m, r), m.cond # "STOP"
  PROVE  InProgressTranscribesTheTraffic'
<1> DEFINE n == Len(traffic)
           e == [message |-> m, reply |-> r]
           old == inProgress[1]
           x == inProgress'[1]
<1>1. /\ traffic \in Seq(Heeded) /\ e \in Heeded /\ n \in Nat
      /\ e.message = m /\ e.reply = r /\ m.cond \in {"START", "WRITE", "READ", "STOP"}
      /\ m.data \in Byte /\ r.data \in Byte
  BY DEF ListenerTypeOK, Heeded, Message, Reply
<1>2. /\ inProgress \in Seq(LMessage) /\ inProgress # <<>> /\ old \in LMessage
      /\ Transcribes(old)
  BY DEF ListenerTypeOK, InProgressTranscribesTheTraffic
<1>3. /\ Heard' = Heard \cup {n + 1} /\ traffic'[n + 1] = e /\ n + 1 \notin Heard
      /\ Heard \subseteq 1 .. n
      /\ \A i \in Heard : traffic'[i] = traffic[i]
  BY <1>1, HeardGrows
<1>4. \A C : /\ HeardOf(C)' = HeardOf(C) \cup IF m.cond \in C THEN {n + 1} ELSE {}
             /\ HeardOf(C) \subseteq Heard
  BY <1>1, <1>3, HeardOfGrows DEF HeardOf
<1>5. HeardOf({"START"}) # {}
  BY <1>1, HeardBegins
<1>6. /\ Len(inProgress') = 1
      /\ x = CASE m.cond = "START" -> [old EXCEPT !.RepeatedStart = TRUE]
               [] m.cond = "WRITE" -> [old EXCEPT !.Type = "Write",
                                                  !.WriteBuffer = Append(@, m.data)]
               [] m.cond = "READ" -> [old EXCEPT !.Type = "Read",
                    !.ReadBuffer = IF r.kind = "data" THEN Append(@, r.data) ELSE @]
  <2>1. \A y : Len(<<y>>) = 1 /\ <<y>>[1] = y
    OBVIOUS
  <2> QED
    BY <1>1, <1>2, <2>1, ExchangeShape DEF ListenerTypeOK
<1>7. /\ x.Address = old.Address
      /\ x.RepeatedStart = IF m.cond = "START" THEN TRUE ELSE old.RepeatedStart
      /\ x.Type = CASE m.cond = "START" -> old.Type [] m.cond = "WRITE" -> "Write"
                    [] m.cond = "READ" -> "Read"
      /\ x.WriteBuffer = IF m.cond = "WRITE" THEN Append(old.WriteBuffer, m.data)
                         ELSE old.WriteBuffer
      /\ x.ReadBuffer = IF r.kind = "data" THEN Append(old.ReadBuffer, r.data)
                        ELSE old.ReadBuffer
  BY <1>1, <1>2, <1>6 DEF LMessage
<1> HIDE DEF x, e, old, n
<1>8. ASSUME NEW i \in HeardOf({"START"})', \A j \in HeardOf({"START"})' : i <= j
      PROVE  x.Address = traffic'[i].message.dev
  <2>1. i \in HeardOf({"START"})
    <3>1. PICK j \in HeardOf({"START"}) : TRUE
      BY <1>5
    <3>2. j \in HeardOf({"START"})' /\ j \in 1 .. n
      BY <1>3, <1>4
    <3>3. i <= j /\ ~(n + 1 <= j)
      BY <1>1, <1>8, <3>2
    <3> QED
      BY <1>4, <3>3
  <2>2. old.Address = traffic[i].message.dev
    BY <1>2, <1>4, <1>8, <2>1 DEF Transcribes
  <2> QED
    BY <1>3, <1>4, <1>7, <2>1, <2>2
<1>9. x.RepeatedStart = (\E i, j \in HeardOf({"START"})' : i # j)
  <2>1. CASE m.cond = "START"
    <3>1. PICK j \in HeardOf({"START"}) : TRUE
      BY <1>5
    <3>2. j # n + 1 /\ {j, n + 1} \subseteq HeardOf({"START"})'
      BY <1>3, <1>4, <2>1
    <3> QED
      BY <1>7, <2>1, <3>2
  <2>2. CASE m.cond # "START"
    BY <1>2, <1>4, <1>7, <2>2 DEF Transcribes
  <2> QED
    BY <2>1, <2>2
<1>10. IF HeardOf({"WRITE", "READ"})' = {} THEN x.Type = NoType
       ELSE \A i \in HeardOf({"WRITE", "READ"})' :
              (\A j \in HeardOf({"WRITE", "READ"})' : j <= i) =>
                x.Type = IF traffic'[i].message.cond = "WRITE" THEN "Write" ELSE "Read"
  <2>1. CASE m.cond = "START"
    BY <1>2, <1>3, <1>4, <1>7, <2>1 DEF Transcribes
  <2>2. CASE m.cond \in {"WRITE", "READ"}
    <3>1. HeardOf({"WRITE", "READ"})' = HeardOf({"WRITE", "READ"}) \cup {n + 1}
      BY <1>4, <2>2
    <3>2. ASSUME NEW i \in HeardOf({"WRITE", "READ"})',
                 \A j \in HeardOf({"WRITE", "READ"})' : j <= i
          PROVE  x.Type = IF traffic'[i].message.cond = "WRITE" THEN "Write" ELSE "Read"
      <4>1. n + 1 <= i
        BY <3>1, <3>2
      <4>2. i = n + 1
        <5>1. i \in 1 .. n \/ i = n + 1
          BY <1>3, <1>4, <3>1
        <5> QED
          BY <1>1, <4>1, <5>1
      <4> QED
        BY <1>1, <1>3, <1>7, <2>2, <4>2
    <3> QED
      BY <3>1, <3>2
  <2> QED
    BY <1>1, <2>1, <2>2
<1>11. InOrder(x.WriteBuffer, [i \in HeardOf({"WRITE"})' |-> traffic'[i].message.data])
  <2> DEFINE said == [i \in HeardOf({"WRITE"}) |-> traffic[i].message.data]
             longer == [i \in HeardOf({"WRITE"})' |-> traffic'[i].message.data]
  <2>1. InOrder(old.WriteBuffer, said)
    BY <1>2 DEF Transcribes
  <2>2. CASE m.cond = "WRITE"
    <3>1. /\ DOMAIN said \subseteq 1 .. n /\ DOMAIN longer = DOMAIN said \cup {n + 1}
          /\ \A i \in DOMAIN said : longer[i] = said[i]
          /\ longer[n + 1] = m.data
      BY <1>1, <1>3, <1>4, <2>2
    <3>2. old.WriteBuffer \in Seq(Byte)
      BY <1>2 DEF LMessage
    <3> HIDE DEF said, longer
    <3>3. InOrder(Append(old.WriteBuffer, m.data), longer)
      BY <1>1, <2>1, <3>1, <3>2, InOrderAppend
    <3> QED
      BY <1>7, <2>2, <3>3 DEF longer
  <2>3. CASE m.cond # "WRITE"
    <3>1. HeardOf({"WRITE"})' = HeardOf({"WRITE"})
      BY <1>4, <2>3
    <3>2. longer = said
      BY <1>3, <1>4, <3>1
    <3> HIDE DEF said, longer
    <3>3. InOrder(old.WriteBuffer, longer)
      BY <2>1, <3>2
    <3> QED
      BY <1>7, <2>3, <3>3 DEF longer
  <2> QED
    BY <2>2, <2>3
<1>12. InOrder(x.ReadBuffer,
               [i \in {j \in Heard' : traffic'[j].reply.kind = "data"} |-> traffic'[i].reply.data])
  <2> DEFINE A == {j \in Heard : traffic[j].reply.kind = "data"}
             B == {j \in Heard' : traffic'[j].reply.kind = "data"}
             said == [i \in A |-> traffic[i].reply.data]
             longer == [i \in B |-> traffic'[i].reply.data]
  <2>1. InOrder(old.ReadBuffer, said)
    BY <1>2 DEF Transcribes
  <2>2. A \subseteq Heard /\ B = A \cup IF r.kind = "data" THEN {n + 1} ELSE {}
    BY <1>1, <1>3
  <2>3. CASE r.kind = "data"
    <3>1. /\ DOMAIN said \subseteq 1 .. n /\ DOMAIN longer = DOMAIN said \cup {n + 1}
          /\ \A i \in DOMAIN said : longer[i] = said[i]
          /\ longer[n + 1] = r.data
      BY <1>1, <1>3, <2>2, <2>3
    <3>2. old.ReadBuffer \in Seq(Byte)
      BY <1>2 DEF LMessage
    <3> HIDE DEF said, longer
    <3>3. InOrder(Append(old.ReadBuffer, r.data), longer)
      BY <1>1, <2>1, <3>1, <3>2, InOrderAppend
    <3> QED
      BY <1>7, <2>3, <3>3 DEF longer
  <2>4. CASE r.kind # "data"
    <3>1. A = B
      BY <2>2, <2>4
    <3>2. longer = said
      BY <1>3, <2>2, <3>1
    <3> HIDE DEF said, longer
    <3>3. InOrder(old.ReadBuffer, longer)
      BY <2>1, <3>2
    <3> QED
      BY <1>7, <2>4, <3>3 DEF longer
  <2> QED
    BY <2>3, <2>4
<1>13. Transcribes(inProgress[1])'
  BY <1>8, <1>9, <1>10, <1>11, <1>12 DEF Transcribes, x
<1> QED
  BY <1>3, <1>6, <1>13 DEF InProgressTranscribesTheTraffic

LEMMA ListenerStepIInv ==
  ASSUME ListenerIInv, [ListenerNext]_<<link, lVars>>
  PROVE  ListenerIInv'
<1>1. CASE ListenerNext
  <2>1. PICK m \in Offered : \E r \in Replies(m) : BusMessage(m, r)
    BY <1>1 DEF ListenerNext
  <2>2. PICK r \in Replies(m) : BusMessage(m, r)
    BY <2>1
  <2>3. m \in Message /\ r \in Reply /\ (r.kind = "data" => m.cond = "READ")
    BY OfferedAreMessages, RepliesShape DEF ListenerIInv, ListenerTypeOK
  <2>4. traffic' = Append(traffic, [message |-> m, reply |-> r])
    BY <2>2 DEF BusMessage
  <2>5. traffic \in Seq(Heeded) /\ [message |-> m, reply |-> r] \in Heeded
    BY <2>3 DEF ListenerIInv, ListenerTypeOK, Heeded
  <2>6. InProgressTranscribesTheTraffic'
    <3>1. CASE Stopped(m)
      <4>1. m.cond = "STOP" /\ inProgress' = <<>>
        BY <3>1 DEF Stopped
      <4>2. Heard' = {}
        BY <2>4, <2>5, <4>1, HeardGrows
      <4> QED
        BY <4>1, <4>2 DEF InProgressTranscribesTheTraffic
    <3>2. CASE Transferred(m, r) /\ Heard # {}
      BY <2>3, <2>4, <3>2, TranscriptGrows DEF ListenerIInv, Transferred
    <3>3. CASE Transferred(m, r) /\ Heard = {} /\ m.cond = "START"
      BY <2>3, <2>4, <3>3, TranscriptBegins DEF ListenerIInv, Transferred
    <3>4. CASE Transferred(m, r) /\ Heard = {} /\ m.cond # "START"
      <4>1. Heard' = {}
        <5>1. [message |-> m, reply |-> r].message = m
          OBVIOUS
        <5> QED
          BY <2>4, <2>5, <3>4, <5>1, HeardGrows DEF Transferred
      <4>2. inProgress' = <<>>
        BY <2>3, <3>4, ExchangeTyped
        DEF ListenerIInv, ListenerTypeOK, InProgressTranscribesTheTraffic, Transferred
      <4> QED
        BY <4>1, <4>2 DEF InProgressTranscribesTheTraffic
    <3> QED
      BY <2>2, <3>1, <3>2, <3>3, <3>4 DEF BusMessage
  <2> QED
    BY <2>2, <2>6, ListenerMessageStep DEF ListenerIInv
<1>2. CASE UNCHANGED <<link, lVars>>
  <2>1. UNCHANGED <<link, inProgress, finished, badDereference, attachedIdle, callbacks, traffic>>
    BY <1>2 DEF lVars
  <2>2. Heard' = Heard /\ Conds' = Conds
    BY <2>1 DEF Heard, Conds
  <2>3. Transcribes(inProgress[1])' <=> Transcribes(inProgress[1])
    BY <2>1, <2>2 DEF Transcribes, HeardOf
  <2> QED
    BY <2>1, <2>2, <2>3 DEF ListenerIInv, ListenerTypeOK, LinkInit, FinishedByIndex,
      NothingInProgressBetweenTransactions, OnlyALateListenerDereferencesNothing,
      InProgressTranscribesTheTraffic
<1> QED
  BY <1>1, <1>2

LEMMA ListenerInitIInv == ASSUME ListenerInit PROVE ListenerIInv
<1>1. /\ <<>> \in Seq(LMessage) /\ <<>> \in Seq(Heeded) /\ Len(<<>>) = 0
      /\ DOMAIN <<>> = {}
  OBVIOUS
<1>2. Heard = {} /\ Conds = {}
  BY <1>1 DEF ListenerInit, Heard, Conds
<1>3. FinishedByIndex
  BY <1>1, ListenerAssumption DEF ListenerInit, FinishedByIndex
<1> QED
  BY <1>1, <1>2, <1>3 DEF ListenerInit, ListenerIInv, ListenerTypeOK,
    NothingInProgressBetweenTransactions, OnlyALateListenerDereferencesNothing,
    InProgressTranscribesTheTraffic

\* The listener knows where in the traffic it is, for any traffic of any
\* length, either order of the hooks and any moment of its construction.
THEOREM ListenerInvariant == ListenerSpec => []ListenerIInv
<1>1. ListenerInit => ListenerIInv
  BY ListenerInitIInv
<1>2. ListenerIInv /\ [ListenerNext]_<<link, lVars>> => ListenerIInv'
  BY ListenerStepIInv
<1> QED
  BY <1>1, <1>2, PTL DEF ListenerSpec

\* An empty message in progress is dereferenced only by a listener that came
\* in the middle of a transaction, and only in it (sim_i2c_listener.cpp:32-74).
THEOREM LateListenersOnly == ListenerSpec => []OnlyALateListenerDereferencesNothing
<1>1. ListenerIInv => OnlyALateListenerDereferencesNothing
  BY DEF ListenerIInv
<1> QED
  BY <1>1, ListenerInvariant, PTL

\* The message in progress is the transcript of the transaction in progress,
\* in either order of the hooks (sim_i2c_listener.cpp:32-74).
THEOREM InProgressTranscribed == ListenerSpec => []InProgressIsTheTranscript
<1>1. ListenerIInv => InProgressIsTheTranscript
  BY DEF ListenerIInv, InProgressTranscribesTheTraffic, InProgressIsTheTranscript
<1> QED
  BY <1>1, ListenerInvariant, PTL

\* The finished messages are the latest ones, newest first, for any capacity
\* of the list (sim_i2c_listener.cpp:54-62).
THEOREM LatestMessagesKept == ListenerSpec => []FinishedAreTheLatest
<1>1. ListenerIInv => FinishedAreTheLatest
  <2> SUFFICES ASSUME ListenerIInv PROVE FinishedAreTheLatest
    OBVIOUS
  <2> DEFINE f == Len(finished)
             c == Len(callbacks)
             s == SubSeq(callbacks, c - f + 1, c)
  <2>1. /\ finished \in Seq(LMessage) /\ callbacks \in Seq(LMessage)
        /\ f \in Nat /\ c \in Nat /\ f <= c
        /\ \A i \in 1 .. f : finished[i] = callbacks[c + 1 - i]
    BY ListenerAssumption DEF ListenerIInv, ListenerTypeOK, FinishedByIndex
  <2>2. s \in Seq(LMessage) /\ Len(s) = f /\ \A k \in 1 .. f : s[k] = callbacks[c - f + k]
    BY <2>1
  <2>3. finished = [i \in 1 .. f |-> finished[i]]
    BY <2>1
  <2> HIDE DEF f, c, s
  <2>4. ASSUME NEW i \in 1 .. f PROVE s[(f - i) + 1] = finished[i]
    <3>1. (f - i) + 1 \in 1 .. f /\ c - f + ((f - i) + 1) = c + 1 - i
      BY <2>1
    <3> QED
      BY <2>1, <2>2, <3>1
  <2>5. finished = [i \in 1 .. f |-> s[(f - i) + 1]]
    BY <2>3, <2>4
  <2>6. finished = Reverse(s)
    BY <2>2, <2>5 DEF Reverse
  <2> QED
    BY <2>6 DEF FinishedAreTheLatest, ListenerIInv, FinishedByIndex, s, c, f
<1> QED
  BY <1>1, ListenerInvariant, PTL

-----------------------------------------------------------------------------
(* The listener's view                                                     *)

Entries == [msg : LMessage, count : Nat]

NeighboursDiffer ==
  \A i \in 1 .. Len(receivedMessages) - 1 :
    receivedMessages[i].msg # receivedMessages[i + 1].msg

\* What the renderer has of the list, during a walk and after it.
ShownIsOfTheList ==
  IF walking
  THEN /\ Len(shown) <= Len(receivedMessages)
       /\ shown = SubSeq(receivedMessages, 1, Len(shown))
  ELSE \E n \in 0 .. Len(callbacks) : AreRunsOf(shown, callbacks, n)

ViewIInv ==
  /\ receivedMessages \in Seq(Entries) /\ shown \in Seq(Entries)
  /\ ~raced => /\ AreRunsOf(receivedMessages, callbacks, Len(callbacks))
               /\ NeighboursDiffer
               /\ ShownIsOfTheList

\* Runs of the first messages stay runs of them when another one comes.
LEMMA RunsStay ==
  ASSUME NEW entries \in Seq(Entries), NEW messages \in Seq(LMessage), NEW x \in LMessage,
         NEW n \in 0 .. Len(messages), AreRunsOf(entries, messages, n)
  PROVE  AreRunsOf(entries, Append(messages, x), n)
<1> DEFINE l == Len(entries)
<1>1. PICK ends \in [1 .. l + 1 -> 0 .. n] :
        /\ ends[1] = n /\ ends[l + 1] = 0
        /\ \A i \in 1 .. l :
             /\ ends[i] = ends[i + 1] + entries[i].count + 1
             /\ \A k \in ends[i + 1] + 1 .. ends[i] : messages[k] = entries[i].msg
  BY DEF AreRunsOf
<1>2. \A k \in 1 .. n : Append(messages, x)[k] = messages[k]
  OBVIOUS
<1>3. ASSUME NEW i \in 1 .. l, NEW k \in ends[i + 1] + 1 .. ends[i]
      PROVE  Append(messages, x)[k] = entries[i].msg
  <2>1. l \in Nat /\ i \in 1 .. l + 1 /\ i + 1 \in 1 .. l + 1
    OBVIOUS
  <2>2. ends[i] \in 0 .. n /\ ends[i + 1] \in 0 .. n
    BY <2>1
  <2>3. k \in 1 .. n
    BY <2>2
  <2> QED
    BY <1>1, <1>2, <2>3
<1> QED
  BY <1>1, <1>3 DEF AreRunsOf

\* The message after the last run repeats it.
LEMMA RunRepeats ==
  ASSUME NEW entries \in Seq(Entries), NEW messages \in Seq(LMessage), NEW x \in LMessage,
         AreRunsOf(entries, messages, Len(messages)),
         entries # <<>>, entries[1].msg = x
  PROVE  AreRunsOf([entries EXCEPT ![1].count = @ + 1], Append(messages, x), Len(messages) + 1)
<1> DEFINE l == Len(entries)
           n == Len(messages)
           more == [entries EXCEPT ![1].count = @ + 1]
           longer == Append(messages, x)
<1>1. PICK ends \in [1 .. l + 1 -> 0 .. n] :
        /\ ends[1] = n /\ ends[l + 1] = 0
        /\ \A i \in 1 .. l :
             /\ ends[i] = ends[i + 1] + entries[i].count + 1
             /\ \A k \in ends[i + 1] + 1 .. ends[i] : messages[k] = entries[i].msg
  BY DEF AreRunsOf
<1>2. l \in Nat /\ l >= 1 /\ n \in Nat
  OBVIOUS
<1>3. /\ DOMAIN more = 1 .. l /\ Len(more) = l
      /\ \A i \in 1 .. l : more[i].msg = entries[i].msg
      /\ more[1].count = entries[1].count + 1
      /\ \A i \in 1 .. l : entries[i].count \in Nat
      /\ \A i \in 2 .. l : more[i] = entries[i]
  <2>1. \A i \in 1 .. l : entries[i] \in Entries
    OBVIOUS
  <2> QED
    BY <1>2, <2>1 DEF Entries
<1>4. longer[n + 1] = x /\ \A k \in 1 .. n : longer[k] = messages[k]
  OBVIOUS
<1> DEFINE later == [ends EXCEPT ![1] = n + 1]
<1>5. /\ later \in [1 .. l + 1 -> 0 .. n + 1]
      /\ later[1] = n + 1 /\ later[l + 1] = 0
      /\ \A i \in 2 .. l + 1 : later[i] = ends[i]
  <2>1. \A i \in 1 .. l + 1 : ends[i] \in 0 .. n + 1
    BY <1>1, <1>2
  <2> QED
    BY <1>1, <1>2, <2>1
<1> HIDE DEF more, longer, later, l, n
<1>6. \A i \in 1 .. l : i \in 1 .. l + 1 /\ i + 1 \in 2 .. l + 1 /\ i + 1 \in 1 .. l + 1
  BY <1>2
<1>7. ASSUME NEW i \in 1 .. l
      PROVE  /\ later[i] = later[i + 1] + more[i].count + 1
             /\ \A k \in later[i + 1] + 1 .. later[i] : longer[k] = more[i].msg
  <2>1. later[i + 1] = ends[i + 1] /\ ends[i + 1] \in 0 .. n
    BY <1>1, <1>5, <1>6
  <2>2. CASE i = 1
    <3>1. ends[2] + entries[1].count + 1 = n
      BY <1>1, <2>2
    <3>2. later[1] = later[2] + more[1].count + 1
      BY <1>2, <1>3, <1>5, <1>6, <2>1, <2>2, <3>1
    <3>3. ASSUME NEW k \in later[2] + 1 .. n + 1 PROVE longer[k] = x
      <4>1. k \in ends[2] + 1 .. n \/ k = n + 1
        BY <1>2, <2>1, <2>2
      <4>2. k \in ends[2] + 1 .. n => k \in 1 .. n
        BY <1>2, <2>1, <2>2
      <4> QED
        BY <1>1, <1>4, <2>2, <4>1, <4>2
    <3> QED
      BY <1>3, <1>5, <2>2, <3>2, <3>3
  <2>3. CASE i \in 2 .. l
    <3>1. later[i] = ends[i] /\ more[i] = entries[i] /\ ends[i] \in 0 .. n
      BY <1>1, <1>3, <1>5, <1>6, <2>3
    <3>2. \A k \in ends[i + 1] + 1 .. ends[i] : k \in 1 .. n
      BY <1>2, <2>1, <3>1
    <3> QED
      BY <1>1, <1>4, <2>1, <3>1, <3>2
  <2> QED
    BY <1>2, <2>2, <2>3
<1>8. AreRunsOf(more, longer, n + 1)
  BY <1>3, <1>5, <1>7 DEF AreRunsOf
<1> QED
  BY <1>8 DEF more, longer, n

\* Any other message begins a run of its own.
LEMMA RunBegins ==
  ASSUME NEW entries \in Seq(Entries), NEW messages \in Seq(LMessage), NEW x \in LMessage,
         AreRunsOf(entries, messages, Len(messages))
  PROVE  AreRunsOf(<<Entry(x, 0)>> \o entries, Append(messages, x), Len(messages) + 1)
<1> DEFINE l == Len(entries)
           n == Len(messages)
           more == <<Entry(x, 0)>> \o entries
           longer == Append(messages, x)
<1>1. PICK ends \in [1 .. l + 1 -> 0 .. n] :
        /\ ends[1] = n /\ ends[l + 1] = 0
        /\ \A i \in 1 .. l :
             /\ ends[i] = ends[i + 1] + entries[i].count + 1
             /\ \A k \in ends[i + 1] + 1 .. ends[i] : messages[k] = entries[i].msg
  BY DEF AreRunsOf
<1>2. l \in Nat /\ n \in Nat
  OBVIOUS
<1>3. /\ Len(more) = l + 1
      /\ more[1].msg = x /\ more[1].count = 0
      /\ \A i \in 2 .. l + 1 : more[i] = entries[i - 1]
  BY DEF Entry
<1>4. longer[n + 1] = x /\ \A k \in 1 .. n : longer[k] = messages[k]
  OBVIOUS
<1> DEFINE later == [i \in 1 .. l + 2 |-> IF i = 1 THEN n + 1 ELSE ends[i - 1]]
<1>5. /\ later \in [1 .. (l + 1) + 1 -> 0 .. n + 1]
      /\ later[1] = n + 1 /\ later[(l + 1) + 1] = 0
      /\ \A i \in 2 .. l + 2 : later[i] = ends[i - 1] /\ ends[i - 1] \in 0 .. n
  <2>1. \A i \in 2 .. l + 2 : i - 1 \in 1 .. l + 1
    BY <1>2
  <2>2. \A i \in 2 .. l + 2 : ends[i - 1] \in 0 .. n
    BY <2>1
  <2>3. /\ l + 2 \in 2 .. l + 2 /\ (l + 2) - 1 = l + 1 /\ (l + 1) + 1 = l + 2
        /\ \A i \in 1 .. l + 2 : i = 1 \/ i \in 2 .. l + 2
    BY <1>2
  <2> QED
    BY <1>1, <1>2, <2>2, <2>3
<1> HIDE DEF more, longer, later, l, n
<1>6. ASSUME NEW i \in 1 .. l + 1
      PROVE  /\ later[i] = later[i + 1] + more[i].count + 1
             /\ \A k \in later[i + 1] + 1 .. later[i] : longer[k] = more[i].msg
  <2>1. i + 1 \in 2 .. l + 2 /\ (i + 1) - 1 = i
    BY <1>2
  <2>2. later[i + 1] = ends[i] /\ ends[i] \in 0 .. n
    BY <1>5, <2>1
  <2>3. CASE i = 1
    <3>1. later[2] = n /\ later[1] = n + 1
      BY <1>1, <1>5, <2>2, <2>3
    <3> QED
      BY <1>2, <1>3, <1>4, <2>3, <3>1
  <2>4. CASE i \in 2 .. l + 1
    <3>1. /\ i - 1 \in 1 .. l /\ (i - 1) + 1 = i /\ i \in 2 .. l + 2
          /\ more[i] = entries[i - 1] /\ later[i] = ends[i - 1] /\ ends[i - 1] \in 0 .. n
      BY <1>2, <1>3, <1>5, <2>4
    <3>2. \A k \in ends[i] + 1 .. ends[i - 1] : k \in 1 .. n
      BY <1>2, <2>2, <3>1
    <3> QED
      BY <1>1, <1>4, <2>2, <3>1, <3>2
  <2> QED
    BY <1>2, <2>3, <2>4
<1>7. AreRunsOf(more, longer, n + 1)
  BY <1>2, <1>3, <1>5, <1>6 DEF AreRunsOf
<1> QED
  BY <1>7 DEF more, longer, n

\* What one bus message does to the messages received.
LEMMA CallbacksStep ==
  ASSUME ListenerIInv, ListenerNext
  PROVE  \/ callbacks' = callbacks
         \/ \E x \in LMessage : callbacks' = Append(callbacks, x)
<1>1. PICK m \in Offered : \E r \in Replies(m) : BusMessage(m, r)
  BY DEF ListenerNext
<1>2. PICK r \in Replies(m) : BusMessage(m, r)
  BY <1>1
<1>3. inProgress # <<>> => inProgress[1] \in LMessage
  BY DEF ListenerIInv, ListenerTypeOK
<1> QED
  BY <1>2, <1>3 DEF BusMessage, Transferred, Stopped

\* The callback, on a list nobody walks.
LEMMA OnI2cMessageStep ==
  ASSUME ListenerIInv, ViewIInv, ~raced, NEW x \in LMessage,
         callbacks' = Append(callbacks, x), OnI2cMessage(x), UNCHANGED <<walking, shown>>
  PROVE  ViewIInv'
<1>1. /\ receivedMessages \in Seq(Entries) /\ shown \in Seq(Entries)
      /\ AreRunsOf(receivedMessages, callbacks, Len(callbacks)) /\ NeighboursDiffer
      /\ callbacks \in Seq(LMessage)
  BY DEF ViewIInv, ListenerIInv, ListenerTypeOK
<1>2. Len(callbacks') = Len(callbacks) + 1 /\ Len(callbacks) \in Nat
  BY <1>1
<1>3. CASE SameAsLast(x)
  <2>1. receivedMessages # <<>> /\ receivedMessages[1].msg = x
    BY <1>1, <1>3 DEF SameAsLast
  <2>2. receivedMessages' = [receivedMessages EXCEPT ![1].count = @ + 1]
    BY <1>3 DEF OnI2cMessage
  <2>3. receivedMessages[1] \in Entries
    BY <1>1, <2>1
  <2>4. /\ receivedMessages' \in Seq(Entries) /\ Len(receivedMessages') = Len(receivedMessages)
        /\ \A i \in 1 .. Len(receivedMessages) :
             receivedMessages'[i].msg = receivedMessages[i].msg
    <3>1. [receivedMessages[1] EXCEPT !.count = @ + 1] \in Entries
      BY <2>3 DEF Entries
    <3>2. [receivedMessages[1] EXCEPT !.count = @ + 1].msg = receivedMessages[1].msg
      BY <2>3 DEF Entries
    <3>3. receivedMessages' =
            [receivedMessages EXCEPT ![1] = [receivedMessages[1] EXCEPT !.count = @ + 1]]
      BY <2>2
    <3> QED
      BY <1>1, <2>1, <3>1, <3>2, <3>3
  <2>5. AreRunsOf(receivedMessages', callbacks', Len(callbacks'))
    BY <1>1, <1>2, <2>1, <2>2, RunRepeats
  <2>6. NeighboursDiffer'
    BY <1>1, <2>4 DEF NeighboursDiffer
  <2> QED
    <3>1. CASE walking
      BY <1>1, <2>4, <3>1 DEF OnI2cMessage, ViewIInv
    <3>2. CASE ~walking
      <4>1. ShownIsOfTheList'
        BY <1>1, <1>2, <3>2, RunsStay DEF ViewIInv, ShownIsOfTheList
      <4> QED
        BY <1>1, <2>4, <2>5, <2>6, <4>1 DEF ViewIInv
    <3> QED
      BY <3>1, <3>2
<1>4. CASE ~SameAsLast(x)
  <2>1. receivedMessages # <<>> => receivedMessages[1].msg # x
    BY <1>1, <1>4 DEF SameAsLast
  <2>2. receivedMessages' = <<Entry(x, 0)>> \o receivedMessages
    BY <1>4 DEF OnI2cMessage
  <2>3. Entry(x, 0) \in Entries /\ Entry(x, 0).msg = x
    BY DEF Entry, Entries
  <2>4. /\ receivedMessages' \in Seq(Entries)
        /\ Len(receivedMessages') = Len(receivedMessages) + 1
        /\ receivedMessages'[1] = Entry(x, 0)
        /\ \A i \in 1 .. Len(receivedMessages) : receivedMessages'[i + 1] = receivedMessages[i]
    BY <1>1, <2>2, <2>3
  <2>5. AreRunsOf(receivedMessages', callbacks', Len(callbacks'))
    BY <1>1, <1>2, <2>2, RunBegins
  <2>6. NeighboursDiffer'
    <3>1. SUFFICES ASSUME NEW i \in 1 .. Len(receivedMessages)
                   PROVE  receivedMessages'[i].msg # receivedMessages'[i + 1].msg
      BY <1>1, <2>4 DEF NeighboursDiffer
    <3>2. CASE i = 1
      BY <1>1, <2>1, <2>3, <2>4, <3>2
    <3>3. CASE i > 1
      <4>1. i - 1 \in 1 .. Len(receivedMessages) - 1 /\ (i - 1) + 1 = i
            /\ i - 1 \in 1 .. Len(receivedMessages)
        BY <1>1, <3>3
      <4>2. receivedMessages'[i] = receivedMessages[i - 1]
        BY <2>4, <4>1
      <4> QED
        BY <1>1, <2>4, <4>1, <4>2 DEF NeighboursDiffer
    <3> QED
      BY <1>1, <3>2, <3>3
  <2> QED
    <3>1. CASE walking
      BY <1>1, <2>4, <3>1 DEF OnI2cMessage, ViewIInv
    <3>2. CASE ~walking
      <4>1. ShownIsOfTheList'
        BY <1>1, <1>2, <3>2, RunsStay DEF ViewIInv, ShownIsOfTheList
      <4> QED
        BY <1>1, <2>4, <2>5, <2>6, <4>1 DEF ViewIInv
    <3> QED
      BY <3>1, <3>2
<1> QED
  BY <1>3, <1>4

LEMMA RenderStep ==
  ASSUME ViewIInv, callbacks \in Seq(LMessage), ~raced, RenderI2CListener
  PROVE  ViewIInv'
<1>1. /\ receivedMessages \in Seq(Entries) /\ shown \in Seq(Entries)
      /\ AreRunsOf(receivedMessages, callbacks, Len(callbacks))
      /\ NeighboursDiffer /\ ShownIsOfTheList
  BY DEF ViewIInv
<1>2. UNCHANGED <<receivedMessages, raced, callbacks>>
  BY DEF RenderI2CListener, BeginRender, RenderMessage, EndRender, lVars
<1>3. receivedMessages' \in Seq(Entries)
      /\ AreRunsOf(receivedMessages', callbacks', Len(callbacks')) /\ NeighboursDiffer'
  BY <1>1, <1>2 DEF NeighboursDiffer
<1>4. CASE BeginRender
  <2>1. shown' = <<>> /\ walking'
    BY <1>4 DEF BeginRender
  <2>2. <<>> \in Seq(Entries) /\ Len(<<>>) = 0 /\ Len(receivedMessages) \in Nat
        /\ <<>> = SubSeq(receivedMessages, 1, 0)
    BY <1>1
  <2> QED
    BY <1>2, <1>3, <2>1, <2>2 DEF ViewIInv, ShownIsOfTheList
<1>5. CASE RenderMessage
  <2> DEFINE k == Len(shown)
  <2>1. /\ walking /\ k < Len(receivedMessages)
        /\ shown' = Append(shown, receivedMessages[k + 1]) /\ walking' = walking
    BY <1>5 DEF RenderMessage
  <2>2. k \in Nat /\ k + 1 \in 1 .. Len(receivedMessages) /\ shown = SubSeq(receivedMessages, 1, k)
    BY <1>1, <2>1 DEF ShownIsOfTheList
  <2> HIDE DEF k
  <2>3. receivedMessages[k + 1] \in Entries
    BY <1>1, <2>2
  <2>4. shown' \in Seq(Entries) /\ Len(shown') = k + 1
    BY <1>1, <2>1, <2>3 DEF k
  <2>5. \A s \in Seq(Entries) : \A n \in Nat : n + 1 \in 1 .. Len(s) =>
          Append(SubSeq(s, 1, n), s[n + 1]) = SubSeq(s, 1, n + 1)
    OBVIOUS
  <2>6. shown' = SubSeq(receivedMessages, 1, k + 1)
    BY <1>1, <2>1, <2>2, <2>5, Zenon
  <2> QED
    BY <1>2, <1>3, <2>1, <2>2, <2>4, <2>6 DEF ViewIInv, ShownIsOfTheList
<1>6. CASE EndRender
  <2>1. walking /\ Len(shown) = Len(receivedMessages) /\ ~walking' /\ shown' = shown
    BY <1>6 DEF EndRender
  <2>2. shown = SubSeq(receivedMessages, 1, Len(receivedMessages))
    BY <1>1, <2>1 DEF ShownIsOfTheList
  <2>3. \A s \in Seq(Entries) : SubSeq(s, 1, Len(s)) = s
    OBVIOUS
  <2>4. shown = receivedMessages
    BY <1>1, <2>2, <2>3, Zenon
  <2>5. Len(callbacks) \in 0 .. Len(callbacks)
    OBVIOUS
  <2>6. AreRunsOf(shown', callbacks', Len(callbacks))
    BY <1>1, <1>2, <2>1, <2>4
  <2> QED
    BY <1>1, <1>2, <1>3, <2>1, <2>5, <2>6 DEF ViewIInv, ShownIsOfTheList
<1> QED
  BY <1>4, <1>5, <1>6 DEF RenderI2CListener

LEMMA ViewStepIInv ==
  ASSUME ListenerIInv, ViewIInv, [ViewNext]_<<link, lVars, viewVars>>
  PROVE  ViewIInv'
<1>1. callbacks \in Seq(LMessage)
  BY DEF ListenerIInv, ListenerTypeOK
<1>2. CASE ViewNext /\ ViewedBusMessage /\ callbacks' = callbacks
  BY <1>2 DEF ViewedBusMessage, ViewIInv, NeighboursDiffer, ShownIsOfTheList
<1>3. CASE ViewNext /\ ViewedBusMessage /\ callbacks' # callbacks
  <2>1. PICK x \in LMessage : callbacks' = Append(callbacks, x)
    BY <1>3, CallbacksStep DEF ViewedBusMessage
  <2>2. callbacks' \in Seq(LMessage) /\ Len(callbacks') # 0 /\ callbacks'[Len(callbacks')] = x
    BY <1>1, <2>1
  <2>3. Last(callbacks') = x
    BY <2>2 DEF Last
  <2>4. OnI2cMessage(x) /\ UNCHANGED <<walking, shown>>
    BY <1>3, <2>3 DEF ViewedBusMessage
  <2> QED
    BY <1>3, <2>1, <2>4, OnI2cMessageStep DEF ViewNext
<1>4. CASE ViewNext /\ RenderI2CListener
  BY <1>1, <1>4, RenderStep DEF ViewNext
<1>5. CASE UNCHANGED <<link, lVars, viewVars>>
  BY <1>5 DEF lVars, viewVars, ViewIInv, NeighboursDiffer, ShownIsOfTheList
<1> QED
  BY <1>2, <1>3, <1>4, <1>5 DEF ViewNext

LEMMA ViewInitIInv == ASSUME ViewInit PROVE ViewIInv
<1>1. <<>> \in Seq(Entries) /\ Len(<<>>) = 0
  OBVIOUS
<1>2. AreRunsOf(<<>>, <<>>, 0)
  <2> DEFINE ends == [i \in 1 .. 1 |-> 0]
  <2>1. ends \in [1 .. 0 + 1 -> 0 .. 0] /\ ends[1] = 0 /\ ends[0 + 1] = 0
    OBVIOUS
  <2> HIDE DEF ends
  <2> QED
    BY <1>1, <2>1 DEF AreRunsOf
<1>3. callbacks = <<>> /\ receivedMessages = <<>> /\ shown = <<>> /\ ~walking
  BY DEF ViewInit, ListenerInit
<1>4. 0 \in 0 .. Len(callbacks)
  BY <1>1, <1>3
<1> QED
  BY <1>1, <1>2, <1>3, <1>4 DEF ViewIInv, NeighboursDiffer, ShownIsOfTheList

\* The view watches the listener and leaves it alone.
THEOREM ViewImplementsListener == ViewSpec => ListenerSpec
<1>1. ViewInit => ListenerInit
  BY DEF ViewInit
<1>2. [ViewNext]_<<link, lVars, viewVars>> => [ListenerNext]_<<link, lVars>>
  BY DEF ViewNext, ViewedBusMessage, RenderI2CListener, BeginRender, RenderMessage, EndRender
<1> QED
  BY <1>1, <1>2, PTL DEF ViewSpec, ListenerSpec

\* Until a callback meets a walk, the view's list is the run lengths of the
\* messages received, and a finished rendering shows those of the messages
\* received before it (i2c_listener_renderer.cpp:46-72).
THEOREM ViewStandsForTheMessages == ViewSpec => []RunsStandForTheMessages
<1>1. ViewInit => ViewIInv
  BY ViewInitIInv
<1>2. ListenerIInv /\ ViewIInv /\ [ViewNext]_<<link, lVars, viewVars>> => ViewIInv'
  BY ViewStepIInv
<1>3. ViewIInv => RunsStandForTheMessages
  BY DEF ViewIInv, NeighboursDiffer, ShownIsOfTheList, RunsStandForTheMessages
<1> QED
  BY <1>1, <1>2, <1>3, ViewImplementsListener, ListenerInvariant, PTL DEF ViewSpec
=============================================================================
