------------------------------- MODULE I2cBus -------------------------------
(***************************************************************************)
(* The devices on one bus: keypad, LED driver, EEPROM and display.  Every  *)
(* message of the AVR is dispatched to all of them before the AVR goes on  *)
(* (avr_raise_irq calls the hooks one after the other), so a message is    *)
(* one step; the front ends and the cycle timers run between messages.     *)
(*                                                                         *)
(* The firmware here knows its devices: it follows each one's protocol,    *)
(* but leaves a transaction for another device's whenever it likes, with   *)
(* or without a STOP.                                                      *)
(***************************************************************************)
EXTENDS SimI2cBase, Sequences

CONSTANTS
  I2C_ADDRESS, SelectedRegisters, RegisterWrites, Rows, Cols, MaxEvents,
  TlcAddress, ControlBytes, PwmBytes, LedOutBytes, MaxBurst,
  A2, A1, HighBytes, LowBytes, StoredBytes, Uninitialised, CounterModulus, MaxTransfer,
  MaxSent

VARIABLES
  state, selected, registers, unacknowledgedInts, intLine, pendingPresses,
  releaseTimers, crashed, reply, events,
  tlcState, autoIncrement, tlcSelected, tlcRegisters, tlcCrashed, tlcReply, control, burst,
  eState, opAddress, opCounter, buffer, eCrashed, eReply, header, moved,
  dataBuffer, screen, screenDirty, debounceMs, gReply, sent,
  written   \* data bytes since the last START: none, one or more

Keypad == INSTANCE Tca8418
LedDriver == INSTANCE Tlc59116
Eeprom == INSTANCE Sim47LXX WITH RepeatsStart <- FALSE, AddressesReads <- FALSE
\* The display's front end runs in SimGu7000I2C's own specification only.
Display == INSTANCE SimGu7000I2C
             WITH MaxMilliseconds <- 0,
                  sinceCommand <- 0, settled <- 0, milliseconds <- 0

keypadVars == <<state, selected, registers, unacknowledgedInts, intLine, pendingPresses,
                releaseTimers, crashed, reply, events>>
ledVars == <<tlcState, autoIncrement, tlcSelected, tlcRegisters, tlcCrashed, tlcReply,
             control, burst>>
eepromVars == <<eState, opAddress, opCounter, buffer, eCrashed, eReply, header, moved>>
displayVars == <<dataBuffer, screen, screenDirty, debounceMs, gReply, sent>>
busVars == <<link, written, keypadVars, ledVars, eepromVars, displayVars>>

\* Two devices on one address would both answer: the keypad's 0x68 is also
\* the real-time clock's, the display's 0x50 also the EEPROM's without straps.
ASSUME DistinctAddresses ==
  /\ I2C_ADDRESS \notin {TlcAddress, Eeprom!EepromAddress, Display!Gu7000Address}
  /\ TlcAddress \notin {Eeprom!EepromAddress, Display!Gu7000Address}
  /\ Eeprom!EepromAddress # Display!Gu7000Address

\* The firmware knows the devices' registers: it selects none they do not
\* have and keeps group dimming out of the LEDOUT registers.
ASSUME BusKeypad ==
  /\ I2C_ADDRESS \in 0 .. 127
  /\ SelectedRegisters \subseteq Keypad!Register /\ RegisterWrites \subseteq (0 .. 46) \X Byte
  /\ Rows \subseteq 0 .. 7 /\ Cols \subseteq 0 .. 9 /\ MaxEvents \in Nat
ASSUME BusLedDriver ==
  /\ TlcAddress \in 0 .. 127 /\ MaxBurst \in Nat
  /\ ControlBytes \cup PwmBytes \cup LedOutBytes \subseteq Byte
  /\ \A byte \in ControlBytes : LedDriver!ControlRegister(byte) \in LedDriver!TlcRegister
  /\ \A byte \in LedOutBytes : LedDriver!Drawable(byte)
ASSUME BusEeprom ==
  /\ A2 \in {0, 1} /\ A1 \in {0, 1}
  /\ HighBytes \cup LowBytes \cup StoredBytes \cup Uninitialised \subseteq Byte
  /\ MaxTransfer \in Nat /\ CounterModulus \in Nat \ {0}
ASSUME BusDisplay == MaxSent \in Nat

BusTypeOK == LinkType /\ written \in {"none", "one", "more"}

BusInit ==
  /\ link = Free
  /\ written = "none"
  /\ Keypad!Init
  /\ LedDriver!TlcInit
  /\ Eeprom!EepromInit
  /\ Display!Gu7000I2CInit

NoDeviceCrashed == ~crashed /\ ~tlcCrashed /\ ~eCrashed

\* The protocols: a register pointer before a read of the keypad, no reads
\* of the LED driver, no write to a device that is already being written,
\* no EEPROM access past the end of the array.
FollowsProtocols(m) ==
  /\ (m.cond = "START" /\ m.rw = "W") => m.dev # link.dev
  /\ (m.cond = "START" /\ m.rw = "R" /\ m.dev = I2C_ADDRESS)
       => link = [dev |-> I2C_ADDRESS, rw |-> "W"] /\ written = "one"
  /\ (m.cond = "START" /\ m.rw = "R") => m.dev # TlcAddress
  /\ (m.dev = Eeprom!EepromAddress /\ m.cond \in {"READ", "WRITE"} /\ Len(header) # 1)
       => Eeprom!Target \in Eeprom!Cell

Firmware(m) ==
  /\ FollowsProtocols(m)
  /\ Keypad!FirmwareSends(m)
  /\ LedDriver!TlcFirmwareSends(m)
  /\ Eeprom!EepromFirmwareSends(m)
  /\ Display!GFirmwareSends(m)

CountWritten(m) ==
  written' = CASE m.cond = "START" -> "none"
               [] m.cond = "WRITE" -> IF written = "none" THEN "one" ELSE "more"
               [] OTHER -> written

\* avr_raise_irq on TWI_IRQ_OUTPUT: every device handles the message.
Dispatch(m) ==
  /\ Keypad!HandleMessage(m)
  /\ LedDriver!TlcHandleMessage(m)
  /\ Eeprom!EepromHandleMessage(m)
  /\ Display!GHandleMessage(m)

BusMessage ==
  \E m \in Offered :
    /\ Firmware(m)
    /\ Emit(m)
    /\ CountWritten(m)
    /\ Eeprom!Record(m)
    /\ Dispatch(m)

KeypadStep ==
  /\ Keypad!HostStep \/ Keypad!TimerStep
  /\ UNCHANGED <<link, written, ledVars, eepromVars, displayVars>>

LedStep ==
  /\ LedDriver!GetCurrentState
  /\ UNCHANGED <<written, keypadVars, eepromVars, displayVars>>

BusNext == NoDeviceCrashed /\ (BusMessage \/ KeypadStep \/ LedStep)

BusSpec == BusInit /\ [][BusNext]_busVars

-----------------------------------------------------------------------------
(* Properties                                                              *)

(***************************************************************************)
(* Firmware that follows the protocols never brings the simulator down:    *)
(* no device aborts or indexes past its registers, wherever the firmware   *)
(* leaves one device for another and whatever the keypad's keys, timers    *)
(* and the front end do in between.                                        *)
(***************************************************************************)
ProtocolsNeverCrash == NoDeviceCrashed

(***************************************************************************)
(* At most one device is in a transaction, and it is the one the AVR       *)
(* addressed last: a device that lost the bus to another one's START, or   *)
(* whose transaction was stopped, will take nothing for itself.            *)
(***************************************************************************)
OnlyTheAddressedIsEngaged ==
  /\ state # "Start" => link.dev = I2C_ADDRESS
  /\ tlcState # "Start" => link.dev = TlcAddress
  /\ eState # "STOPPED" => link.dev = Eeprom!EepromAddress

(***************************************************************************)
(* One device's transaction leaves the others' contents alone: registers,  *)
(* cells and buffer change only in a message to their own device, in a key *)
(* event or in a release timer.                                            *)
(***************************************************************************)
ContentsChangeInTheirOwnTransaction ==
  [][/\ tlcRegisters' # tlcRegisters => link.dev = TlcAddress
     /\ buffer' # buffer => link.dev = Eeprom!EepromAddress
     /\ dataBuffer' # dataBuffer => link.dev = Display!Gu7000Address
     /\ registers' # registers =>
          link.dev = I2C_ADDRESS \/ Keypad!HostStep \/ Keypad!TimerStep]_busVars
=============================================================================
