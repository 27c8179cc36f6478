------------------------------ MODULE Tlc59116 ------------------------------
(***************************************************************************)
(* SimTLC59116, the LED driver: a write-only I2C register file with a      *)
(* control byte that selects a register and auto-increment, and            *)
(* GetCurrentState, which a front end calls to draw the sixteen LEDs.      *)
(***************************************************************************)
EXTENDS SimI2cBase

CONSTANTS
  TlcAddress,    \* i2cAddress the device was constructed with
  ControlBytes,  \* control bytes the firmware sends
  PwmBytes,      \* data the firmware means for registers below LEDOUT0
  LedOutBytes,   \* data the firmware means for LEDOUT0 .. LEDOUT3
  MaxBurst       \* bound: data bytes after one control byte

LastTlcRegister == 29        \* Registers_ has 0x1E elements
LastIncremented == 27        \* 0x1B
PWM0 == 2
LEDOUT0 == 20
TlcRegister == 0 .. LastTlcRegister
Leds == 0 .. 15

\* Two bits of a LEDOUT register, one LED: off, on, PWM, PWM with group dimming.
LedField(byte, i) == (byte \div <<1, 4, 16, 64>>[i + 1]) % 4
Drawable(byte) == \A i \in 0 .. 3 : LedField(byte, i) # 3

ASSUME TlcAddressAssumption == TlcAddress \in 0 .. 127
ASSUME TlcFirmware ==
  ControlBytes \cup PwmBytes \cup LedOutBytes \subseteq Byte
ASSUME TlcMaxBurst == MaxBurst \in Nat
\* The firmware keeps group dimming out of the LEDOUT registers.
ASSUME TlcDimming == \A byte \in LedOutBytes : Drawable(byte)

VARIABLES
  tlcState,       \* State_
  autoIncrement,  \* AutoIncrement_
  tlcSelected,    \* SelectedRegister_
  tlcRegisters,   \* Registers_
  tlcCrashed,     \* std::abort or an uncaught std::out_of_range
  tlcReply,       \* raised on the bus while handling the last message
  control,        \* history: the control byte of this transaction
  burst           \* history: data bytes since the control byte

tlcProtocol == <<tlcState, autoIncrement, tlcSelected>>
history == <<control, burst>>
tlcVars == <<tlcProtocol, tlcRegisters, tlcCrashed, tlcReply, history>>

TlcTypeOK ==
  /\ tlcState \in {"Start", "GiveRegisterAddress", "WriteRegister"}
  /\ autoIncrement \in BOOLEAN
  /\ tlcSelected \in 0 .. 31
  /\ tlcRegisters \in [TlcRegister -> Byte]
  /\ tlcCrashed \in BOOLEAN
  /\ tlcReply \in Reply
  /\ control \in Byte
  /\ burst \in 0 .. MaxBurst

TlcInit ==
  /\ tlcState = "Start"
  /\ autoIncrement = FALSE
  /\ tlcSelected = 0
  /\ tlcRegisters = [r \in TlcRegister |-> 0]
  /\ tlcCrashed = FALSE
  /\ tlcReply = Silent
  /\ control = 0
  /\ burst = 0

-----------------------------------------------------------------------------
(* I2C messages                                                            *)

TlcCrash ==
  /\ tlcCrashed' = TRUE
  /\ UNCHANGED <<tlcProtocol, tlcRegisters, history>>

TlcOnStart(m) ==
  /\ m.cond = "START"
  /\ \/ /\ tlcState = "Start" /\ m.rw = "W"
        /\ tlcState' = "GiveRegisterAddress"
        /\ tlcReply' = Ack
        /\ UNCHANGED <<autoIncrement, tlcSelected, tlcRegisters, tlcCrashed, history>>
     \/ /\ tlcState # "Start" \/ m.rw = "R"
        /\ tlcReply' = Silent
        /\ TlcCrash

\* The three top bits of the control byte are the auto-increment flags, of
\* which any switches it on; the low five bits are the register.
\* Mutant: only one of the flags does.
MutantAutoIncrementOn(byte) == (byte \div 32) % 2 = 1
AutoIncrementOn(byte) == byte >= 32

ControlRegister(byte) == byte % 32

TakeControlByte(m) ==
  /\ tlcState = "GiveRegisterAddress"
  /\ autoIncrement' = AutoIncrementOn(m.data)
  /\ tlcSelected' = ControlRegister(m.data)
  /\ tlcState' = "WriteRegister"
  /\ control' = m.data
  /\ burst' = 0
  /\ UNCHANGED <<tlcRegisters, tlcCrashed>>

\* Mutant: wraps at the end of the array instead of at 0x1B.
MutantNextTlcRegister ==
  IF ~autoIncrement THEN tlcSelected
  ELSE IF tlcSelected + 1 > LastTlcRegister THEN 0 ELSE tlcSelected + 1

NextTlcRegister ==
  IF ~autoIncrement THEN tlcSelected
  ELSE IF tlcSelected + 1 > LastIncremented THEN 0 ELSE tlcSelected + 1

StoreData(m) ==
  /\ tlcState = "WriteRegister"
  /\ tlcSelected \in TlcRegister
  /\ tlcRegisters' = [tlcRegisters EXCEPT ![tlcSelected] = m.data]
  /\ tlcSelected' = NextTlcRegister
  /\ burst' = burst + 1
  /\ UNCHANGED <<tlcState, autoIncrement, tlcCrashed, control>>

\* A device constructed in the middle of a transaction acknowledges and
\* drops the bytes it does not understand.
TlcOnWrite(m) ==
  /\ m.cond = "WRITE"
  /\ tlcReply' = Ack
  /\ \/ TakeControlByte(m)
     \/ StoreData(m)
     \/ /\ tlcState = "WriteRegister" /\ tlcSelected \notin TlcRegister
        /\ TlcCrash
     \/ /\ tlcState = "Start"
        /\ UNCHANGED <<tlcProtocol, tlcRegisters, tlcCrashed, history>>

TlcOnRead(m) ==
  /\ m.cond = "READ"
  /\ tlcReply' = Silent
  /\ TlcCrash

\* Mutant: the control byte outlives the transaction.
MutantTlcReset ==
  /\ tlcReply' = Silent
  /\ UNCHANGED <<tlcProtocol, tlcRegisters, tlcCrashed, history>>

TlcReset ==
  /\ tlcState' = "Start"
  /\ autoIncrement' = FALSE
  /\ tlcSelected' = 0
  /\ tlcReply' = Silent
  /\ control' = 0
  /\ burst' = 0
  /\ UNCHANGED <<tlcRegisters, tlcCrashed>>

TlcOnStop(m) == m.cond = "STOP" /\ TlcReset

TlcHandleI2CMessage(m) == TlcOnStart(m) \/ TlcOnStop(m) \/ TlcOnWrite(m) \/ TlcOnRead(m)

TlcIgnore ==
  /\ tlcReply' = Silent
  /\ UNCHANGED <<tlcProtocol, tlcRegisters, tlcCrashed, history>>

TlcHandleMessage(m) ==
  CASE HandleAnyI2cMessage(m, TlcAddress) = "handled" -> TlcHandleI2CMessage(m)
    [] HandleAnyI2cMessage(m, TlcAddress) = "reset" -> TlcReset
    [] OTHER -> TlcIgnore

-----------------------------------------------------------------------------
(* GetCurrentState                                                         *)

LedState(regs, led) == LedField(regs[LEDOUT0 + (led \div 4)], led % 4)

LedValue(regs, led) ==
  CASE LedState(regs, led) = 0 -> 0
    [] LedState(regs, led) = 1 -> 1
    [] OTHER -> regs[PWM0 + led]

\* Aborts on group dimming, which the device accepts but cannot draw.
GetCurrentState ==
  /\ tlcCrashed' = (\E led \in Leds : LedState(tlcRegisters, led) = 3)
  /\ UNCHANGED <<link, tlcProtocol, tlcRegisters, tlcReply, history>>

-----------------------------------------------------------------------------
(* The firmware and the specification                                      *)

\* Where the firmware means the next byte to land: the registers up to 0x1B
\* form a ring that auto-increment walks, counted from the control byte.
IntendedAt(byte, n) ==
  LET first == byte % 32
  IN IF byte < 32 THEN first
     ELSE IF first > LastIncremented /\ n = 0 THEN first
     ELSE IF first > LastIncremented THEN (n - 1) % (LastIncremented + 1)
     ELSE (first + n) % (LastIncremented + 1)

IntendedRegister == IntendedAt(control, burst)

\* Data by the register it is meant for.
TlcFirmwareSends(m) ==
  (m.dev = TlcAddress /\ m.cond = "WRITE") =>
    CASE tlcState = "GiveRegisterAddress" -> m.data \in ControlBytes
      [] tlcState = "WriteRegister" ->
           /\ burst < MaxBurst
           /\ m.data \in IF IntendedRegister \in LEDOUT0 .. LEDOUT0 + 3
                         THEN LedOutBytes ELSE PwmBytes
      [] OTHER -> TRUE

TlcBusStep == \E m \in Offered : TlcFirmwareSends(m) /\ Emit(m) /\ TlcHandleMessage(m)

TlcNext == ~tlcCrashed /\ (TlcBusStep \/ GetCurrentState)

TlcAllVars == <<link, tlcVars>>

LedDriverInit == TlcInit /\ LinkInit

TlcSpec == LedDriverInit /\ [][TlcNext]_TlcAllVars

-----------------------------------------------------------------------------
(* Properties                                                              *)

(***************************************************************************)
(* The byte-by-byte auto-increment agrees with the closed form: after any  *)
(* number of data bytes the pointer is where the firmware means it to be,  *)
(* also after the wrap at 0x1B.                                            *)
(***************************************************************************)
AutoIncrementWalksTheRing ==
  tlcState = "WriteRegister" => tlcSelected = IntendedRegister

(***************************************************************************)
(* A front end can draw the LEDs at any moment, also between two bytes of  *)
(* a burst: if the firmware never means group dimming for an LEDOUT        *)
(* register, no PWM byte lands there by accident and GetCurrentState does  *)
(* not abort.                                                              *)
(***************************************************************************)
LedsAreDrawable == \A led \in Leds : LedState(tlcRegisters, led) # 3

(***************************************************************************)
(* Outside a transaction the device keeps nothing of the last one: a       *)
(* control byte never carries over to the next START, whether the          *)
(* transaction ended with a STOP or was cut off by another device's START. *)
(***************************************************************************)
TransactionStartsClean ==
  link.dev # TlcAddress /\ ~tlcCrashed =>
    tlcState = "Start" /\ ~autoIncrement /\ tlcSelected = 0
=============================================================================
