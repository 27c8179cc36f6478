------------------------------- MODULE Tca8418 -------------------------------
(***************************************************************************)
(* SimTca8418, the keypad controller: an I2C register file, a key event    *)
(* FIFO kept in registers, an interrupt line, and timers that release the  *)
(* keys pressed with AddKeyPressAndRelease.  The firmware (over I2C), the  *)
(* host program (AddKey...) and the cycle timers interleave.               *)
(***************************************************************************)
EXTENDS SimI2cBase

CONSTANTS
  I2C_ADDRESS,  \* address the device was constructed with
  SelectedRegisters,  \* register numbers the firmware sends
  RegisterWrites,     \* <<register, byte>> pairs the firmware writes
  Rows, Cols,   \* keys the host program presses
  MaxEvents     \* bound: key events in a behaviour

ASSUME TcaAddress == I2C_ADDRESS \in 0 .. 127
ASSUME TcaFirmware ==
  SelectedRegisters \subseteq Byte /\ RegisterWrites \subseteq (0 .. 46) \X Byte
ASSUME TcaKeys == Rows \subseteq 0 .. 7 /\ Cols \subseteq 0 .. 9
ASSUME TcaMaxEvents == MaxEvents \in Nat

\* Registers
CFG == 1
INT_STAT == 2
KEY_LCK_EC == 3
KEY_EVENT_A == 4
KEY_EVENT_J == 13
LastRegister == 46
Register == 0 .. LastRegister

Release == 0
Press == 128

VARIABLES
  state,               \* State_
  selected,            \* SelectedRegister_
  registers,           \* Registers_
  unacknowledgedInts,  \* UnacknowledgedInts_: only bit 0 is ever set
  intLine,             \* level the device last drove AvrIntIrq_ to
  pendingPresses,      \* keys of PendingPresses_
  releaseTimers,       \* keys whose entry a cycle timer points to
  crashed,             \* std::abort or an uncaught std::out_of_range
  reply,               \* raised on the bus while handling the last message
  events               \* key events so far, for MaxEvents only

protocol == <<state, selected>>
keypad == <<unacknowledgedInts, intLine, pendingPresses, releaseTimers, events>>
tcaVars == <<state, selected, registers, unacknowledgedInts, intLine,
             pendingPresses, releaseTimers, crashed, reply, events>>

State == {"Start", "GiveRegisterAddress", "MaybeWriteOrReadRegister", "ReadRegister"}

\* row * 10 + (col + 1) for every key of the matrix
KeyCode == {row * 10 + col + 1 : row \in Rows, col \in Cols}

TypeOK ==
  /\ state \in State
  /\ selected \in Byte
  /\ registers \in [Register -> Byte]
  /\ unacknowledgedInts \in {0, 1}
  /\ intLine \in {"undriven", "low", "high"}
  /\ pendingPresses \subseteq KeyCode
  /\ releaseTimers \subseteq KeyCode
  /\ crashed \in BOOLEAN
  /\ reply \in Reply
  /\ events \in 0 .. MaxEvents

Init ==
  /\ state = "Start"
  /\ selected = 0
  /\ registers = [r \in Register |-> 0]
  /\ unacknowledgedInts = 0
  /\ intLine = "undriven"
  /\ pendingPresses = {}
  /\ releaseTimers = {}
  /\ crashed = FALSE
  /\ reply = Silent
  /\ events = 0

-----------------------------------------------------------------------------
(* Register helpers                                                        *)

\* ModifyRegister(r, data, mask) for the masks the code uses: 0x01 and 0x0F.
ModifyLowBits(old, data, modulus) == (old - (old % modulus)) + (data % modulus)

EventCount(regs) == regs[KEY_LCK_EC] % 16

WithEventCount(regs, n) ==
  [regs EXCEPT ![KEY_LCK_EC] = ModifyLowBits(@, n, 16)]

KeyInterruptEnabled(regs) == regs[CFG] % 2 = 1
AutoIncrement(regs) == regs[CFG] >= 128

\* Mutant: wraps after the reserved register 0x2F instead of before it.
MutantNextSelected(regs) ==
  IF ~AutoIncrement(regs) THEN selected
  ELSE IF selected = LastRegister + 1 THEN 0 ELSE (selected + 1) % 256

\* IncrementSelectedRegisterMaybe, with the registers as just written
NextSelected(regs) ==
  IF ~AutoIncrement(regs) THEN selected
  ELSE IF selected = LastRegister THEN 0 ELSE (selected + 1) % 256

\* Mutant: the shift stops one register early.
MutantPopFifo(regs) ==
  LET count == EventCount(regs)
      shifted == [r \in Register |->
                    IF KEY_EVENT_A <= r /\ r + 2 < KEY_EVENT_A + count
                    THEN regs[r + 1] ELSE regs[r]]
  IN IF count = 0 THEN regs ELSE WithEventCount(shifted, count - 1)

\* OnFifoRead: the events behind the head move up by one register.
PopFifo(regs) ==
  LET count == EventCount(regs)
      shifted == [r \in Register |->
                    IF KEY_EVENT_A <= r /\ r < KEY_EVENT_A + count - 1
                    THEN regs[r + 1] ELSE regs[r]]
  IN IF count = 0 THEN regs ELSE WithEventCount(shifted, count - 1)

-----------------------------------------------------------------------------
(* I2C messages addressed to this device                                   *)

Crash ==
  /\ crashed' = TRUE
  /\ UNCHANGED <<protocol, registers, keypad>>

\* A repeated START leads to reading, whatever its direction.
OnStart(m) ==
  /\ m.cond = "START"
  /\ \/ /\ state = "Start" /\ m.rw = "W"
        /\ state' = "GiveRegisterAddress"
        /\ reply' = Ack
        /\ UNCHANGED <<selected, registers, keypad, crashed>>
     \/ /\ state = "MaybeWriteOrReadRegister"
        /\ state' = "ReadRegister"
        /\ reply' = Ack
        /\ UNCHANGED <<selected, registers, keypad, crashed>>
     \/ /\ \/ state = "Start" /\ m.rw = "R"
           \/ state \in {"GiveRegisterAddress", "ReadRegister"}
        /\ reply' = Silent
        /\ Crash

SelectRegister(m) ==
  /\ state = "GiveRegisterAddress"
  /\ selected' = m.data
  /\ state' = "MaybeWriteOrReadRegister"
  /\ UNCHANGED <<registers, keypad, crashed>>

Acknowledges(m) ==
  selected = INT_STAT /\ unacknowledgedInts = 1 /\ m.data % 2 = 1

\* Mutant: the line goes high on any write to INT_STAT.
MutantCheckSpecialCaseWrite(m) ==
  /\ unacknowledgedInts' = IF Acknowledges(m) THEN 0 ELSE unacknowledgedInts
  /\ intLine' = IF selected = INT_STAT /\ unacknowledgedInts = 1 THEN "high" ELSE intLine

\* Writing 1 to INT_STAT acknowledges the interrupt and releases the line.
CheckSpecialCaseWrite(m) ==
  \/ /\ Acknowledges(m)
     /\ unacknowledgedInts' = 0
     /\ intLine' = "high"
  \/ /\ ~Acknowledges(m)
     /\ UNCHANGED <<unacknowledgedInts, intLine>>

WriteRegister(m) ==
  /\ state = "MaybeWriteOrReadRegister"
  /\ selected \in Register
  /\ LET regs == [registers EXCEPT ![selected] = m.data]
     IN /\ registers' = regs
        /\ selected' = NextSelected(regs)
  /\ CheckSpecialCaseWrite(m)
  /\ UNCHANGED <<state, pendingPresses, releaseTimers, events, crashed>>

OnWrite(m) ==
  /\ m.cond = "WRITE"
  /\ reply' = Ack
  /\ \/ SelectRegister(m)
     \/ WriteRegister(m)
     \/ /\ state = "MaybeWriteOrReadRegister" /\ selected \notin Register
        /\ Crash
     \/ /\ state \in {"Start", "ReadRegister"}
        /\ UNCHANGED <<protocol, registers, keypad, crashed>>

OnRead(m) ==
  /\ m.cond = "READ"
  /\ \/ /\ state = "ReadRegister" /\ selected \in Register
        /\ reply' = Data(registers[selected])
        /\ registers' = IF selected = KEY_EVENT_A THEN PopFifo(registers) ELSE registers
        /\ selected' = NextSelected(registers')
        /\ UNCHANGED <<state, keypad, crashed>>
     \/ /\ ~(state = "ReadRegister" /\ selected \in Register)
        /\ reply' = Silent
        /\ Crash

ResetStateMachine ==
  /\ state' = "Start"
  /\ selected' = 0
  /\ reply' = Silent
  /\ UNCHANGED <<registers, keypad, crashed>>

OnStop(m) == m.cond = "STOP" /\ ResetStateMachine

HandleI2CMessage(m) == OnStart(m) \/ OnStop(m) \/ OnWrite(m) \/ OnRead(m)

Ignore ==
  /\ reply' = Silent
  /\ UNCHANGED <<protocol, registers, keypad, crashed>>

HandleMessage(m) ==
  CASE HandleAnyI2cMessage(m, I2C_ADDRESS) = "handled" -> HandleI2CMessage(m)
    [] HandleAnyI2cMessage(m, I2C_ADDRESS) = "reset" -> ResetStateMachine
    [] OTHER -> Ignore

-----------------------------------------------------------------------------
(* Key events from the host program and from the release timers            *)

\* AddKeyRawEvent.  A full FIFO is not handled: the event goes to the next
\* register, and the four-bit count wraps after fifteen.
AddKeyRawEvent(code) ==
  LET count == EventCount(registers)
      queued == WithEventCount([registers EXCEPT ![KEY_EVENT_A + count] = code], count + 1)
  IN \/ /\ KeyInterruptEnabled(queued)
        /\ unacknowledgedInts' = 1
        /\ intLine' = "low"
        /\ registers' = [queued EXCEPT ![INT_STAT] = ModifyLowBits(@, 1, 2)]
     \/ /\ ~KeyInterruptEnabled(queued)
        /\ registers' = queued
        /\ UNCHANGED <<unacknowledgedInts, intLine>>

\* AddKeyEvent, and AddKeyPress and AddKeyRelease with the raw code
AddKeyEvent(type, key) ==
  /\ events < MaxEvents
  /\ events' = events + 1
  /\ AddKeyRawEvent(type + key)
  /\ UNCHANGED <<protocol, pendingPresses, releaseTimers, crashed, reply>>

\* PendingPresses_.emplace(keyCode, ...): a pending key keeps its one entry.
\* Mutant: the entry is keyed by the press code.
MutantPendingWith(key) == pendingPresses \cup {Press + key}
PendingWith(key) == pendingPresses \cup {key}

\* avr_cycle_timer_register: a pending key's one timer is moved.
\* Mutant: it is cancelled.
MutantTimersWith(key) ==
  IF key \in pendingPresses THEN releaseTimers \ {key} ELSE releaseTimers \cup {key}
TimersWith(key) == releaseTimers \cup {key}

\* The release is left to a timer 200 ms away.
AddKeyPressAndRelease(key) ==
  /\ events < MaxEvents
  /\ events' = events + 1
  /\ AddKeyRawEvent(Press + key)
  /\ pendingPresses' = PendingWith(key)
  /\ releaseTimers' = TimersWith(key)
  /\ UNCHANGED <<protocol, crashed, reply>>

\* Mutant: the entry is left behind.
MutantReleaseTimerFires(key) ==
  /\ key \in releaseTimers
  /\ releaseTimers' = releaseTimers \ {key}
  /\ AddKeyRawEvent(Release + key)
  /\ UNCHANGED <<protocol, pendingPresses, crashed, reply, events>>

\* CallLater and AddKeyRawEventAndClearPending
ReleaseTimerFires(key) ==
  /\ key \in releaseTimers
  /\ releaseTimers' = releaseTimers \ {key}
  /\ AddKeyRawEvent(Release + key)
  /\ pendingPresses' = pendingPresses \ {key}
  /\ UNCHANGED <<protocol, crashed, reply, events>>

HostStep ==
  \/ \E type \in {Press, Release}, key \in KeyCode : AddKeyEvent(type, key)
  \/ \E key \in KeyCode : AddKeyPressAndRelease(key)

TimerStep == \E key \in KeyCode : ReleaseTimerFires(key)

\* The register numbers and register values this firmware sends.
FirmwareSends(m) ==
  (m.dev = I2C_ADDRESS /\ m.cond = "WRITE") =>
    /\ state = "GiveRegisterAddress" => m.data \in SelectedRegisters
    /\ (state = "MaybeWriteOrReadRegister" /\ selected \in Register)
         => <<selected, m.data>> \in RegisterWrites

BusStep == \E m \in Offered : FirmwareSends(m) /\ Emit(m) /\ HandleMessage(m)

Next ==
  /\ ~crashed
  /\ \/ BusStep
     \/ HostStep /\ UNCHANGED link
     \/ TimerStep /\ UNCHANGED link

vars == <<link, tcaVars>>

KeypadInit == Init /\ LinkInit

\* Cycle timers fire as long as the simulation runs (avr_run in BlockingLoop).
Spec ==
  /\ KeypadInit
  /\ [][Next]_vars
  /\ \A key \in KeyCode : WF_vars(~crashed /\ ReleaseTimerFires(key) /\ UNCHANGED link)

-----------------------------------------------------------------------------
(* Properties                                                              *)

(***************************************************************************)
(* The interrupt line is low exactly while an interrupt is unacknowledged, *)
(* whatever the order of key events, timers and register writes: the       *)
(* firmware neither misses a pending interrupt nor spins on a stale line.  *)
(***************************************************************************)
IntLineMatchesUnacknowledged ==
  unacknowledgedInts = 1 <=> intLine = "low"

(***************************************************************************)
(* Every pending press has its release timer and no timer is left behind   *)
(* for an erased entry: the callback a timer points to (&PendingPresses_   *)
(* [keyCode]) exists when the timer fires.                                 *)
(***************************************************************************)
TimersPointAtPendingPresses == releaseTimers = pendingPresses

\* The register pointer a transaction selected stays inside the register
\* file however many bytes are written or read with auto-increment.
AutoIncrementStaysInFile ==
  [][/\ state \in {"MaybeWriteOrReadRegister", "ReadRegister"}
     /\ selected \in Register
     => selected' \in Register]_vars

\* The key events not yet read, oldest first.
UnreadEvents == [i \in 1 .. EventCount(registers) |-> registers[KEY_EVENT_A + i - 1]]

Fifo == INSTANCE KeyFifo
          WITH Event <- {type + key : type \in {Press, Release}, key \in KeyCode},
               Depth <- KEY_EVENT_J - KEY_EVENT_A + 1,
               queue <- UnreadEvents

(***************************************************************************)
(* The FIFO kept in registers is a FIFO: reads and key events, interleaved *)
(* in any order, lose, duplicate and reorder nothing, as long as at most   *)
(* ten events are unread and the firmware writes no FIFO register.         *)
(***************************************************************************)
RefinesKeyFifo == Fifo!Spec

\* A key pressed with AddKeyPressAndRelease is released in the end: its
\* entry does not stay pending for ever, unless the simulator dies.
PendingPressIsReleased ==
  \A key \in KeyCode : key \in pendingPresses ~> (key \notin pendingPresses \/ crashed)
=============================================================================
