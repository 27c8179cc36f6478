--------------------------- MODULE Tca8418Proofs ---------------------------
(***************************************************************************)
(* Proofs about the keypad controller, for every set of keys, firmware and *)
(* number of events.                                                       *)
(***************************************************************************)
EXTENDS Tca8418, TwiMasterProofs, FiniteSetTheorems, SequenceTheorems

\* Key codes fit below the press bit.
LEMMA KeyCodeRange ==
  ASSUME NEW key \in KeyCode
  PROVE key \in 1 .. 80
  BY TcaKeys DEF KeyCode

\* Replacing low bits of a byte gives a byte.
LEMMA ModifyLowBitsByte ==
  ASSUME NEW old \in Byte, NEW data \in Nat, NEW modulus \in {2, 16}
  PROVE ModifyLowBits(old, data, modulus) \in Byte
  BY DEF ModifyLowBits, Byte

\* The event count is a four-bit number.
LEMMA EventCountRange ==
  ASSUME NEW regs \in [Register -> Byte]
  PROVE EventCount(regs) \in 0 .. 15
  BY DEF EventCount, Register, LastRegister, KEY_LCK_EC, Byte

LEMMA WithEventCountType ==
  ASSUME NEW regs \in [Register -> Byte], NEW n \in Nat
  PROVE WithEventCount(regs, n) \in [Register -> Byte]
  BY ModifyLowBitsByte DEF WithEventCount, Register, LastRegister, KEY_LCK_EC

\* Reading the head of the FIFO keeps the register file well formed.
LEMMA PopFifoType ==
  ASSUME NEW regs \in [Register -> Byte]
  PROVE PopFifo(regs) \in [Register -> Byte]
<1> DEFINE count == EventCount(regs)
           shifted == [r \in Register |->
                         IF KEY_EVENT_A <= r /\ r < KEY_EVENT_A + count - 1
                         THEN regs[r + 1] ELSE regs[r]]
<1>1. count \in 0 .. 15
  BY EventCountRange
<1>2. shifted \in [Register -> Byte]
  BY <1>1 DEF Register, LastRegister, KEY_EVENT_A
<1>3. CASE count = 0
  BY <1>3 DEF PopFifo
<1>4. CASE count # 0
  <2>1. count - 1 \in Nat
    BY <1>1, <1>4
  <2>2. WithEventCount(shifted, count - 1) \in [Register -> Byte]
    BY <1>2, <2>1, WithEventCountType
  <2> QED
    BY <1>4, <2>2 DEF PopFifo
<1> QED
  BY <1>3, <1>4

\* The register pointer stays a byte.
LEMMA NextSelectedByte ==
  ASSUME selected \in Byte, NEW regs
  PROVE NextSelected(regs) \in Byte
  BY DEF NextSelected, Byte, LastRegister

\* Queueing an event keeps registers, flag and line well formed.
LEMMA AddKeyRawEventType ==
  ASSUME TypeOK, NEW code \in Byte, AddKeyRawEvent(code)
  PROVE /\ registers' \in [Register -> Byte]
        /\ unacknowledgedInts' \in {0, 1}
        /\ intLine' \in {"undriven", "low", "high"}
<1> DEFINE count == EventCount(registers)
           stored == [registers EXCEPT ![KEY_EVENT_A + count] = code]
           queued == WithEventCount(stored, count + 1)
<1>1. count \in 0 .. 15
  BY EventCountRange DEF TypeOK
<1>2. stored \in [Register -> Byte]
  BY <1>1 DEF TypeOK
<1>3. queued \in [Register -> Byte]
  <2>1. count + 1 \in Nat
    BY <1>1
  <2> HIDE DEF count, stored
  <2> QED
    BY <1>2, <2>1, WithEventCountType
<1>4. [queued EXCEPT ![INT_STAT] = ModifyLowBits(@, 1, 2)] \in [Register -> Byte]
  BY <1>3, ModifyLowBitsByte DEF Register, LastRegister, INT_STAT
<1> QED
  BY <1>3, <1>4 DEF AddKeyRawEvent, TypeOK

-----------------------------------------------------------------------------
(* What a message does, whatever the device makes of it                    *)

\* Handling a message keeps the device's state well formed.
LEMMA HandleMessageType ==
  ASSUME TypeOK, NEW m, m.data \in Byte, HandleMessage(m)
  PROVE TypeOK'
<1> USE DEF TypeOK, keypad, protocol
<1> DEFINE regs == [registers EXCEPT ![selected] = m.data]
<1>1. Silent \in Reply /\ Ack \in Reply /\ \A b \in Byte : Data(b) \in Reply
  BY RepliesAreTyped
<1>2. CASE OnStart(m)
  BY <1>1, <1>2 DEF OnStart, Crash, State
<1>3. CASE OnWrite(m)
  <2>1. reply' \in Reply
    BY <1>1, <1>3 DEF OnWrite
  <2>2. CASE SelectRegister(m)
    BY <2>1, <2>2 DEF SelectRegister, State
  <2>3. CASE WriteRegister(m)
    <3>1. regs \in [Register -> Byte]
      BY <2>3 DEF WriteRegister
    <3>2. registers' \in [Register -> Byte]
      BY <2>3, <3>1 DEF WriteRegister
    <3>3. selected' \in Byte
      BY <2>3, NextSelectedByte DEF WriteRegister
    <3> QED
      BY <2>1, <2>3, <3>2, <3>3 DEF WriteRegister, CheckSpecialCaseWrite
  <2>4. CASE Crash
    BY <2>1, <2>4 DEF Crash
  <2>5. CASE UNCHANGED <<protocol, registers, keypad, crashed>>
    BY <2>1, <2>5
  <2> QED
    BY <1>3, <2>2, <2>3, <2>4, <2>5 DEF OnWrite
<1>4. CASE OnRead(m)
  <2>1. PopFifo(registers) \in [Register -> Byte]
    BY PopFifoType
  <2>2. registers' \in [Register -> Byte]
    BY <1>4, <2>1 DEF OnRead, Crash
  <2>3. selected' \in Byte
    BY <1>4, NextSelectedByte DEF OnRead, Crash
  <2>4. reply' \in Reply
    BY <1>1, <1>4 DEF OnRead
  <2> QED
    BY <1>4, <2>2, <2>3, <2>4 DEF OnRead, Crash
<1>5. CASE ResetStateMachine
  BY <1>1, <1>5 DEF ResetStateMachine, State, Byte
<1>6. CASE Ignore
  BY <1>1, <1>6 DEF Ignore
<1> QED
  BY <1>2, <1>3, <1>4, <1>5, <1>6
  DEF HandleMessage, HandleI2CMessage, OnStop

\* Key events keep the device's state well formed.
LEMMA KeyEventsType ==
  ASSUME TypeOK, HostStep \/ TimerStep
  PROVE TypeOK'
<1> USE DEF TypeOK, protocol
<1>1. ASSUME NEW type \in {Press, Release}, NEW key \in KeyCode, AddKeyEvent(type, key)
      PROVE TypeOK'
  <2>1. type + key \in Byte
    BY KeyCodeRange DEF Press, Release, Byte
  <2>2. /\ registers' \in [Register -> Byte]
        /\ unacknowledgedInts' \in {0, 1}
        /\ intLine' \in {"undriven", "low", "high"}
    BY <1>1, <2>1, AddKeyRawEventType DEF AddKeyEvent
  <2> QED
    BY <1>1, <2>2, TcaMaxEvents DEF AddKeyEvent
<1>2. ASSUME NEW key \in KeyCode, AddKeyPressAndRelease(key)
      PROVE TypeOK'
  <2>1. Press + key \in Byte
    BY KeyCodeRange DEF Press, Byte
  <2>2. /\ registers' \in [Register -> Byte]
        /\ unacknowledgedInts' \in {0, 1}
        /\ intLine' \in {"undriven", "low", "high"}
    BY <1>2, <2>1, AddKeyRawEventType DEF AddKeyPressAndRelease, PendingWith, TimersWith
  <2> QED
    BY <1>2, <2>2, TcaMaxEvents DEF AddKeyPressAndRelease, PendingWith, TimersWith
<1>3. ASSUME NEW key \in KeyCode, ReleaseTimerFires(key)
      PROVE TypeOK'
  <2>1. Release + key \in Byte
    BY KeyCodeRange DEF Release, Byte
  <2>2. /\ registers' \in [Register -> Byte]
        /\ unacknowledgedInts' \in {0, 1}
        /\ intLine' \in {"undriven", "low", "high"}
    BY <1>3, <2>1, AddKeyRawEventType DEF ReleaseTimerFires
  <2> QED
    BY <1>3, <2>2 DEF ReleaseTimerFires
<1> QED
  BY <1>1, <1>2, <1>3 DEF HostStep, TimerStep

-----------------------------------------------------------------------------
(* Theorems                                                                *)

\* The device's variables keep their types under any interleaving of
\* messages, host calls and timers (sim_tca8418.cpp:24-181).
THEOREM TypeCorrect == Spec => []TypeOK
<1>1. Init => TypeOK
  <2>1. [r \in Register |-> 0] \in [Register -> Byte]
    BY DEF Byte
  <2>2. Silent \in Reply
    BY RepliesAreTyped
  <2>3. 0 \in 0 .. MaxEvents
    BY TcaMaxEvents
  <2>4. 0 \in Byte
    BY DEF Byte
  <2> SUFFICES ASSUME Init PROVE TypeOK
    OBVIOUS
  <2>5. state \in State
    BY DEF Init, State
  <2> QED
    BY <2>1, <2>2, <2>3, <2>4, <2>5 DEF Init, TypeOK
<1>2. TypeOK /\ [Next]_vars => TypeOK'
  <2> SUFFICES ASSUME TypeOK, [Next]_vars PROVE TypeOK'
    OBVIOUS
  <2>1. CASE BusStep
    <3>1. PICK m \in Offered : HandleMessage(m)
      BY <2>1 DEF BusStep
    <3> QED
      BY <3>1, OfferedCarriesByte, HandleMessageType
  <2>2. CASE HostStep \/ TimerStep
    BY <2>2, KeyEventsType
  <2>3. CASE UNCHANGED vars
    BY <2>3 DEF vars, tcaVars, TypeOK
  <2> QED
    BY <2>1, <2>2, <2>3 DEF Next
<1> QED
  BY <1>1, <1>2, PTL DEF Spec, KeypadInit

\* The interrupt line is low exactly while an interrupt is unacknowledged,
\* whatever the order of messages, host calls and timers.
THEOREM IntLineCorrect == Spec => []IntLineMatchesUnacknowledged
<1>1. Init => IntLineMatchesUnacknowledged
  BY DEF Init, IntLineMatchesUnacknowledged
<1>2. IntLineMatchesUnacknowledged /\ [Next]_vars => IntLineMatchesUnacknowledged'
  <2> SUFFICES ASSUME IntLineMatchesUnacknowledged, [Next]_vars
               PROVE IntLineMatchesUnacknowledged'
    OBVIOUS
  <2> USE DEF IntLineMatchesUnacknowledged
  <2>1. ASSUME NEW m, HandleMessage(m)
        PROVE IntLineMatchesUnacknowledged'
    <3>1. \/ UNCHANGED <<unacknowledgedInts, intLine>>
          \/ CheckSpecialCaseWrite(m)
      BY <2>1
      DEF HandleMessage, HandleI2CMessage, Ignore, OnStart, OnWrite, OnRead,
          OnStop, ResetStateMachine, SelectRegister, WriteRegister, Crash, keypad
    <3> QED
      BY <3>1 DEF CheckSpecialCaseWrite
  <2>2. ASSUME NEW code, AddKeyRawEvent(code)
        PROVE IntLineMatchesUnacknowledged'
    BY <2>2 DEF AddKeyRawEvent
  <2>3. CASE BusStep
    BY <2>1, <2>3 DEF BusStep
  <2>4. CASE HostStep \/ TimerStep
    BY <2>2, <2>4
    DEF HostStep, TimerStep, AddKeyEvent, AddKeyPressAndRelease, ReleaseTimerFires
  <2>5. CASE UNCHANGED vars
    BY <2>5 DEF vars, tcaVars
  <2> QED
    BY <2>3, <2>4, <2>5 DEF Next
<1> QED
  BY <1>1, <1>2, PTL DEF Spec, KeypadInit

\* A release timer exists exactly for the keys with a pending entry: no
\* callback parameter dangles and no pending press is forgotten.
THEOREM TimersCorrect == Spec => []TimersPointAtPendingPresses
<1>1. Init => TimersPointAtPendingPresses
  BY DEF Init, TimersPointAtPendingPresses
<1>2. TimersPointAtPendingPresses /\ [Next]_vars => TimersPointAtPendingPresses'
  <2> SUFFICES ASSUME TimersPointAtPendingPresses, [Next]_vars
               PROVE TimersPointAtPendingPresses'
    OBVIOUS
  <2> USE DEF TimersPointAtPendingPresses
  <2>1. CASE BusStep
    <3>1. UNCHANGED <<pendingPresses, releaseTimers>>
      BY <2>1
      DEF BusStep, HandleMessage, HandleI2CMessage, Ignore, OnStart, OnWrite,
          OnRead, OnStop, ResetStateMachine, SelectRegister, WriteRegister, Crash, keypad
    <3> QED
      BY <3>1
  <2>2. CASE HostStep
    BY <2>2 DEF HostStep, AddKeyEvent, AddKeyPressAndRelease, PendingWith, TimersWith
  <2>3. CASE TimerStep
    BY <2>3 DEF TimerStep, ReleaseTimerFires
  <2>4. CASE UNCHANGED vars
    BY <2>4 DEF vars, tcaVars
  <2> QED
    BY <2>1, <2>2, <2>3, <2>4 DEF Next
<1> QED
  BY <1>1, <1>2, PTL DEF Spec, KeypadInit

\* With auto-increment the register pointer never runs past the register
\* file, so std::array::at cannot throw in the middle of a burst.
THEOREM AutoIncrementCorrect == Spec => AutoIncrementStaysInFile
<1> DEFINE Stays == state \in {"MaybeWriteOrReadRegister", "ReadRegister"}
                    /\ selected \in Register
                    => selected' \in Register
<1>1. [Next]_vars => Stays
  <2> SUFFICES ASSUME [Next]_vars,
                      state \in {"MaybeWriteOrReadRegister", "ReadRegister"},
                      selected \in Register
               PROVE selected' \in Register
    OBVIOUS
  <2>1. ASSUME NEW regs PROVE NextSelected(regs) \in Register
    BY DEF NextSelected, Register, LastRegister
  <2>2. CASE BusStep
    <3>1. PICK m \in Offered : HandleMessage(m)
      BY <2>2 DEF BusStep
    <3>2. \/ selected' = selected
          \/ selected' = 0
          \/ \E regs : selected' = NextSelected(regs)
      BY <3>1
      DEF HandleMessage, HandleI2CMessage, Ignore, OnStart, OnWrite, OnRead,
          OnStop, ResetStateMachine, SelectRegister, WriteRegister, Crash, protocol
    <3> QED
      BY <2>1, <3>2 DEF Register, LastRegister
  <2>3. CASE HostStep \/ TimerStep
    BY <2>3 DEF HostStep, TimerStep, AddKeyEvent, AddKeyPressAndRelease,
                ReleaseTimerFires, protocol
  <2>4. CASE UNCHANGED vars
    BY <2>4 DEF vars, tcaVars
  <2> QED
    BY <2>2, <2>3, <2>4 DEF Next
<1> QED
  BY <1>1, PTL DEF Spec, KeypadInit, AutoIncrementStaysInFile

-----------------------------------------------------------------------------
(* The FIFO                                                                *)

\* The events a register file holds unread, oldest first.
Unread(regs) == [i \in 1 .. EventCount(regs) |-> regs[KEY_EVENT_A + i - 1]]

\* The count written into KEY_LCK_EC is the count read from it.
LEMMA CountWritten ==
  ASSUME NEW regs \in [Register -> Byte], NEW n \in 0 .. 15
  PROVE /\ EventCount(WithEventCount(regs, n)) = n
        /\ \A r \in Register \ {KEY_LCK_EC} : WithEventCount(regs, n)[r] = regs[r]
<1> DEFINE old == regs[KEY_LCK_EC]
<1>1. old \in Byte
  BY DEF Register, LastRegister, KEY_LCK_EC
<1>2. ModifyLowBits(old, n, 16) % 16 = n
  BY <1>1 DEF ModifyLowBits, Byte
<1> QED
  BY <1>2 DEF WithEventCount, EventCount, Register, LastRegister, KEY_LCK_EC

\* Nothing but registers 3 to 13 decides which events are unread.
LEMMA UnreadFrame ==
  ASSUME NEW regs \in [Register -> Byte], NEW other \in [Register -> Byte],
         EventCount(regs) <= 10,
         \A r \in KEY_LCK_EC .. KEY_EVENT_J : other[r] = regs[r]
  PROVE EventCount(other) = EventCount(regs) /\ Unread(other) = Unread(regs)
<1>1. EventCount(other) = EventCount(regs)
  BY DEF EventCount, KEY_LCK_EC, KEY_EVENT_J
<1>2. EventCount(regs) \in 0 .. 15
  BY EventCountRange
<1>3. \A i \in 1 .. EventCount(regs) : KEY_EVENT_A + i - 1 \in KEY_LCK_EC .. KEY_EVENT_J
  BY <1>2 DEF KEY_EVENT_A, KEY_LCK_EC, KEY_EVENT_J
<1> QED
  BY <1>1, <1>3 DEF Unread

\* A key event goes to the end of the queue while it is not full.
LEMMA EventQueued ==
  ASSUME TypeOK, NEW code \in Byte, EventCount(registers) < 10, AddKeyRawEvent(code)
  PROVE /\ EventCount(registers') = EventCount(registers) + 1
        /\ Unread(registers') = Append(Unread(registers), code)
<1> DEFINE count == EventCount(registers)
           stored == [registers EXCEPT ![KEY_EVENT_A + count] = code]
           queued == WithEventCount(stored, count + 1)
           flagged == [queued EXCEPT ![INT_STAT] = ModifyLowBits(@, 1, 2)]
<1>1. count \in 0 .. 9
  BY EventCountRange DEF TypeOK
<1>2. stored \in [Register -> Byte]
  BY <1>1 DEF TypeOK
<1>3. queued \in [Register -> Byte]
  <2>1. count + 1 \in Nat
    BY <1>1
  <2> HIDE DEF count, stored
  <2> QED
    BY <1>2, <2>1, WithEventCountType
<1>4. /\ EventCount(queued) = count + 1
      /\ \A r \in Register \ {KEY_LCK_EC} : queued[r] = stored[r]
  <2>1. count + 1 \in 0 .. 15
    BY <1>1
  <2> HIDE DEF count, stored
  <2> QED
    BY <1>2, <2>1, CountWritten
<1>5. \A i \in 1 .. count : stored[KEY_EVENT_A + i - 1] = registers[KEY_EVENT_A + i - 1]
  BY <1>1 DEF KEY_EVENT_A, TypeOK
<1>6. stored[KEY_EVENT_A + (count + 1) - 1] = code
  BY <1>1 DEF KEY_EVENT_A, Register, LastRegister, TypeOK
<1>7. \A i \in 1 .. count + 1 : KEY_EVENT_A + i - 1 \in Register \ {KEY_LCK_EC}
  BY <1>1 DEF KEY_EVENT_A, KEY_LCK_EC, Register, LastRegister
<1>8. Unread(queued) = Append(Unread(registers), code)
  <2> DEFINE new == Append(Unread(registers), code)
  <2>1. \A i \in 1 .. count : registers[KEY_EVENT_A + i - 1] \in Byte
    BY <1>1 DEF TypeOK, Register, LastRegister, KEY_EVENT_A
  <2>2. Unread(registers) = [i \in 1 .. count |-> registers[KEY_EVENT_A + i - 1]]
    BY DEF Unread
  <2>3. Unread(queued) = [i \in 1 .. count + 1 |-> queued[KEY_EVENT_A + i - 1]]
    BY <1>4 DEF Unread
  <2>4. \A i \in 1 .. count : queued[KEY_EVENT_A + i - 1] = registers[KEY_EVENT_A + i - 1]
    <3> HIDE DEF queued, stored, count
    <3> QED
      BY <1>1, <1>4, <1>5, <1>7
  <2>5. queued[KEY_EVENT_A + (count + 1) - 1] = code
    <3> HIDE DEF queued, stored, count
    <3> QED
      BY <1>1, <1>4, <1>6, <1>7
  <2> HIDE DEF count, queued, stored
  <2>6. Unread(registers) \in Seq(Byte) /\ Len(Unread(registers)) = count
    BY <1>1, <2>1, <2>2
  <2>7. \A i \in 1 .. count + 1 : queued[KEY_EVENT_A + i - 1] \in Byte
    BY <1>1, <1>3 DEF Register, LastRegister, KEY_EVENT_A
  <2>8. Unread(queued) \in Seq(Byte) /\ Len(Unread(queued)) = count + 1
    BY <1>1, <2>3, <2>7
  <2>9. /\ new \in Seq(Byte)
        /\ Len(new) = count + 1
        /\ \A i \in 1 .. count : new[i] = Unread(registers)[i]
        /\ new[count + 1] = code
    BY <1>1, <2>6, AppendProperties
  <2> HIDE DEF new
  <2>10. \A i \in 1 .. count + 1 : Unread(queued)[i] = new[i]
    <3> TAKE i \in 1 .. count + 1
    <3>1. CASE i \in 1 .. count
      BY <1>1, <2>2, <2>3, <2>4, <2>9, <3>1
    <3>2. CASE i = count + 1
      BY <1>1, <2>3, <2>5, <2>9, <3>2
    <3> QED
      BY <1>1, <3>1, <3>2
  <2>11. Unread(queued) = new
    <3>1. new \in [1 .. count + 1 -> Byte]
      BY <2>9, LenProperties
    <3>2. new = [i \in 1 .. count + 1 |-> new[i]]
      BY <3>1
    <3>3. \A i \in 1 .. count + 1 : queued[KEY_EVENT_A + i - 1] = new[i]
      BY <2>3, <2>10
    <3> QED
      BY <2>3, <3>2, <3>3, Zenon
  <2> QED
    BY <2>11 DEF new
<1>9. CASE registers' = queued
  BY <1>4, <1>8, <1>9
<1>10. CASE registers' = flagged
  <2>1. flagged \in [Register -> Byte]
    BY <1>3, ModifyLowBitsByte DEF Register, LastRegister, INT_STAT
  <2>2. \A r \in KEY_LCK_EC .. KEY_EVENT_J : flagged[r] = queued[r]
    BY <1>3 DEF KEY_LCK_EC, KEY_EVENT_J, INT_STAT
  <2>3. EventCount(queued) <= 10
    BY <1>1, <1>4
  <2> HIDE DEF queued, flagged
  <2>4. EventCount(flagged) = EventCount(queued) /\ Unread(flagged) = Unread(queued)
    BY <1>3, <2>1, <2>2, <2>3, UnreadFrame
  <2> QED
    BY <1>4, <1>8, <1>10, <2>4
<1> QED
  BY <1>9, <1>10 DEF AddKeyRawEvent

\* Reading the head takes it off the queue and keeps the others in order.
LEMMA HeadPopped ==
  ASSUME NEW regs \in [Register -> Byte], EventCount(regs) # 0, EventCount(regs) <= 10
  PROVE /\ EventCount(PopFifo(regs)) = EventCount(regs) - 1
        /\ Unread(regs) # <<>>
        /\ Unread(PopFifo(regs)) = Tail(Unread(regs))
<1> DEFINE count == EventCount(regs)
           shifted == [r \in Register |->
                         IF KEY_EVENT_A <= r /\ r < KEY_EVENT_A + count - 1
                         THEN regs[r + 1] ELSE regs[r]]
           popped == WithEventCount(shifted, count - 1)
<1>1. count \in 1 .. 10
  BY EventCountRange
<1>2. popped = PopFifo(regs)
  BY DEF PopFifo
<1>3. shifted \in [Register -> Byte]
  BY <1>1 DEF Register, LastRegister, KEY_EVENT_A
<1>4. \A i \in 1 .. count - 1 : shifted[KEY_EVENT_A + i - 1] = regs[KEY_EVENT_A + i]
  BY <1>1 DEF Register, LastRegister, KEY_EVENT_A
<1>5. /\ EventCount(popped) = count - 1
      /\ \A r \in Register \ {KEY_LCK_EC} : popped[r] = shifted[r]
  <2>1. count - 1 \in 0 .. 15
    BY <1>1
  <2> HIDE DEF count, shifted
  <2> QED
    BY <1>3, <2>1, CountWritten
<1>6. \A i \in 1 .. count : regs[KEY_EVENT_A + i - 1] \in Byte
  BY <1>1 DEF Register, LastRegister, KEY_EVENT_A
<1>7. Unread(regs) = [i \in 1 .. count |-> regs[KEY_EVENT_A + i - 1]]
  BY DEF Unread
<1>8. Unread(popped) = [i \in 1 .. count - 1 |-> popped[KEY_EVENT_A + i - 1]]
  BY <1>5 DEF Unread
<1>9. \A i \in 1 .. count - 1 : popped[KEY_EVENT_A + i - 1] = regs[KEY_EVENT_A + (i + 1) - 1]
  <2>1. \A i \in 1 .. count - 1 : KEY_EVENT_A + i - 1 \in Register \ {KEY_LCK_EC}
    BY <1>1 DEF Register, LastRegister, KEY_EVENT_A, KEY_LCK_EC
  <2> HIDE DEF popped, shifted, count
  <2> QED
    BY <1>1, <1>4, <1>5, <2>1 DEF KEY_EVENT_A
<1> HIDE DEF count, shifted, popped
<1>10. /\ Unread(regs) \in Seq(Byte)
       /\ Len(Unread(regs)) = count
       /\ Unread(regs) # <<>>
  BY <1>1, <1>6, <1>7
<1>11. /\ Tail(Unread(regs)) \in Seq(Byte)
       /\ Len(Tail(Unread(regs))) = count - 1
       /\ \A i \in 1 .. count - 1 : Tail(Unread(regs))[i] = Unread(regs)[i + 1]
  BY <1>10, HeadTailProperties
<1>12. Tail(Unread(regs)) \in [1 .. count - 1 -> Byte]
  BY <1>11, LenProperties
<1>13. \A i \in 1 .. count - 1 : Unread(regs)[i + 1] = popped[KEY_EVENT_A + i - 1]
  BY <1>1, <1>7, <1>9
<1>14. Unread(popped) = Tail(Unread(regs))
  BY <1>8, <1>11, <1>12, <1>13
<1> QED
  BY <1>2, <1>5, <1>10, <1>14 DEF count

\* Firmware that leaves the count and the FIFO registers alone.
FifoLeftAlone == \A w \in RegisterWrites : w[1] \notin KEY_LCK_EC .. KEY_EVENT_J

(***************************************************************************)
(* Every host event is one unread event and at most one release to come.   *)
(***************************************************************************)
FifoInv ==
  /\ IsFiniteSet(releaseTimers)
  /\ EventCount(registers) + Cardinality(releaseTimers) <= 2 * events

QueueStep ==
  \/ Unread(registers') = Unread(registers)
  \/ Unread(registers) # <<>> /\ Unread(registers') = Tail(Unread(registers))
  \/ \E type \in {Press, Release}, key \in KeyCode :
       /\ Len(Unread(registers)) < 10
       /\ Unread(registers') = Append(Unread(registers), type + key)

LEMMA UnreadLength ==
  ASSUME TypeOK
  PROVE Len(Unread(registers)) = EventCount(registers)
<1>1. EventCount(registers) \in 0 .. 15
  BY EventCountRange DEF TypeOK
<1> QED
  BY <1>1 DEF Unread

\* A message takes at most the head off the queue.
LEMMA MessageQueueStep ==
  ASSUME TypeOK, FifoInv, FifoLeftAlone, events <= 5, TypeOK',
         NEW m, FirmwareSends(m), HandleMessage(m)
  PROVE FifoInv' /\ QueueStep
<1>1. UNCHANGED <<releaseTimers, events>>
  BY DEF HandleMessage, HandleI2CMessage, Ignore, OnStart, OnWrite, OnRead,
         OnStop, ResetStateMachine, SelectRegister, WriteRegister, Crash, keypad
<1>2. /\ EventCount(registers) \in 0 .. 15
      /\ Cardinality(releaseTimers) \in Nat
      /\ EventCount(registers) <= 10
  <2>1. Cardinality(releaseTimers) \in Nat
    BY FS_CardinalityType DEF FifoInv
  <2>2. EventCount(registers) \in 0 .. 15
    BY EventCountRange DEF TypeOK
  <2> QED
    BY <2>1, <2>2 DEF FifoInv, TypeOK
<1>3. ASSUME UNCHANGED registers PROVE FifoInv' /\ QueueStep
  BY <1>1, <1>3 DEF FifoInv, QueueStep
<1>4. CASE WriteRegister(m) /\ m.cond = "WRITE" /\ m.dev = I2C_ADDRESS
  <2>1. /\ selected \in Register
        /\ registers' = [registers EXCEPT ![selected] = m.data]
        /\ <<selected, m.data>> \in RegisterWrites
    BY <1>4 DEF WriteRegister, FirmwareSends
  <2>2. selected \notin KEY_LCK_EC .. KEY_EVENT_J
    BY <2>1 DEF FifoLeftAlone
  <2>3. \A r \in KEY_LCK_EC .. KEY_EVENT_J : registers'[r] = registers[r]
    BY <2>1, <2>2 DEF TypeOK, Register, LastRegister, KEY_LCK_EC, KEY_EVENT_J
  <2>4. EventCount(registers') = EventCount(registers) /\ Unread(registers') = Unread(registers)
    BY <1>2, <2>3, UnreadFrame DEF TypeOK
  <2> QED
    BY <1>1, <2>4 DEF FifoInv, QueueStep
<1>5. CASE registers' = PopFifo(registers)
  <2>1. CASE EventCount(registers) = 0
    BY <1>3, <1>5, <2>1 DEF PopFifo
  <2>2. CASE EventCount(registers) # 0
    <3>1. /\ EventCount(registers') = EventCount(registers) - 1
          /\ Unread(registers) # <<>>
          /\ Unread(registers') = Tail(Unread(registers))
      BY <1>2, <1>5, <2>2, HeadPopped DEF TypeOK
    <3>2. EventCount(registers') + Cardinality(releaseTimers) <= 2 * events
      BY <1>2, <3>1 DEF FifoInv, TypeOK
    <3> QED
      BY <1>1, <3>1, <3>2 DEF FifoInv, QueueStep
  <2> QED
    BY <2>1, <2>2
<1>6. CASE HandleI2CMessage(m) /\ m.dev = I2C_ADDRESS
  BY <1>3, <1>4, <1>5, <1>6
  DEF HandleI2CMessage, OnStart, OnWrite, OnRead, OnStop, ResetStateMachine,
      SelectRegister, Crash
<1>7. CASE Ignore \/ ResetStateMachine
  BY <1>3, <1>7 DEF Ignore, ResetStateMachine
<1> QED
  BY <1>6, <1>7 DEF HandleMessage, HandleAnyI2cMessage, MatchesI2cAddress

\* A host call or timer puts one event at the end of the queue.
LEMMA EventQueueStep ==
  ASSUME TypeOK, FifoInv, MaxEvents <= 5, HostStep \/ TimerStep
  PROVE FifoInv' /\ QueueStep
<1>1. /\ EventCount(registers) \in 0 .. 15
      /\ Cardinality(releaseTimers) \in Nat
      /\ EventCount(registers) + Cardinality(releaseTimers) <= 2 * events
      /\ IsFiniteSet(releaseTimers)
      /\ events \in Nat /\ events <= 5
  <2>1. Cardinality(releaseTimers) \in Nat
    BY FS_CardinalityType DEF FifoInv
  <2>2. EventCount(registers) \in 0 .. 15
    BY EventCountRange DEF TypeOK
  <2> QED
    BY <2>1, <2>2, TcaMaxEvents DEF FifoInv, TypeOK
<1>2. Len(Unread(registers)) = EventCount(registers)
  BY UnreadLength
<1>3. ASSUME NEW type \in {Press, Release}, NEW key \in KeyCode,
             EventCount(registers) < 10, AddKeyRawEvent(type + key)
      PROVE EventCount(registers') = EventCount(registers) + 1 /\ QueueStep
  <2>1. type + key \in Byte
    BY KeyCodeRange DEF Press, Release, Byte
  <2> QED
    BY <1>2, <1>3, <2>1, EventQueued DEF QueueStep
<1>4. ASSUME NEW type \in {Press, Release}, NEW key \in KeyCode, AddKeyEvent(type, key)
      PROVE FifoInv' /\ QueueStep
  <2>1. events' = events + 1 /\ events < 5 /\ UNCHANGED releaseTimers
    BY <1>1, <1>4, TcaMaxEvents DEF AddKeyEvent
  <2>2. EventCount(registers) < 10
    BY <1>1, <2>1
  <2>3. EventCount(registers') = EventCount(registers) + 1 /\ QueueStep
    BY <1>3, <1>4, <2>2 DEF AddKeyEvent
  <2>4. EventCount(registers') + Cardinality(releaseTimers) <= 2 * events'
    BY <1>1, <2>1, <2>3
  <2> QED
    BY <1>1, <2>1, <2>3, <2>4 DEF FifoInv
<1>5. ASSUME NEW key \in KeyCode, AddKeyPressAndRelease(key)
      PROVE FifoInv' /\ QueueStep
  <2>1. events' = events + 1 /\ events < 5 /\ releaseTimers' = releaseTimers \cup {key}
    BY <1>1, <1>5, TcaMaxEvents DEF AddKeyPressAndRelease, TimersWith
  <2>2. EventCount(registers) < 10
    BY <1>1, <2>1
  <2>3. EventCount(registers') = EventCount(registers) + 1 /\ QueueStep
    BY <1>3, <1>5, <2>2 DEF AddKeyPressAndRelease
  <2>4. /\ IsFiniteSet(releaseTimers')
        /\ Cardinality(releaseTimers') \in Nat
        /\ Cardinality(releaseTimers') <= Cardinality(releaseTimers) + 1
    BY <1>1, <2>1, FS_AddElement
  <2>5. EventCount(registers') + Cardinality(releaseTimers') <= 2 * events'
    BY <1>1, <2>1, <2>3, <2>4
  <2> QED
    BY <2>3, <2>4, <2>5 DEF FifoInv
<1>6. ASSUME NEW key \in KeyCode, ReleaseTimerFires(key)
      PROVE FifoInv' /\ QueueStep
  <2>1. events' = events /\ key \in releaseTimers /\ releaseTimers' = releaseTimers \ {key}
    BY <1>6 DEF ReleaseTimerFires
  <2>2. /\ IsFiniteSet(releaseTimers')
        /\ Cardinality(releaseTimers') = Cardinality(releaseTimers) - 1
        /\ Cardinality(releaseTimers') \in Nat
    BY <1>1, <2>1, FS_RemoveElement, FS_CardinalityType
  <2>3. EventCount(registers) < 10
    BY <1>1, <2>2
  <2>4. EventCount(registers') = EventCount(registers) + 1 /\ QueueStep
    BY <1>3, <1>6, <2>3 DEF ReleaseTimerFires
  <2>5. EventCount(registers') + Cardinality(releaseTimers') <= 2 * events'
    BY <1>1, <2>1, <2>2, <2>4
  <2> QED
    BY <2>2, <2>4, <2>5 DEF FifoInv
<1> QED
  BY <1>4, <1>5, <1>6 DEF HostStep, TimerStep

\* The registers implement the abstract FIFO (AddKeyRawEvent and OnFifoRead)
\* for every set of keys, when at most ten events can be unread and the
\* firmware leaves the FIFO registers alone.
THEOREM FifoCorrect ==
  ASSUME MaxEvents <= 5, FifoLeftAlone
  PROVE Spec => RefinesKeyFifo
<1>1. UnreadEvents = Unread(registers)
  BY DEF UnreadEvents, Unread
<1>2. KeypadInit => FifoInv /\ Fifo!Init
  <2> SUFFICES ASSUME KeypadInit PROVE FifoInv /\ Fifo!Init
    OBVIOUS
  <2>1. EventCount(registers) = 0
    BY DEF KeypadInit, Init, EventCount, Register, LastRegister, KEY_LCK_EC
  <2>2. Unread(registers) = <<>>
    BY <2>1 DEF Unread
  <2>3. FifoInv
    BY <2>1, FS_EmptySet DEF KeypadInit, Init, FifoInv
  <2> QED
    BY <1>1, <2>2, <2>3 DEF Fifo!Init
<1>3. TypeOK /\ TypeOK' /\ FifoInv /\ [Next]_vars => FifoInv' /\ QueueStep
  <2> SUFFICES ASSUME TypeOK, TypeOK', FifoInv, [Next]_vars
               PROVE FifoInv' /\ QueueStep
    OBVIOUS
  <2>1. events <= 5
    BY TcaMaxEvents DEF TypeOK
  <2>2. CASE BusStep
    <3>1. PICK m \in Offered : FirmwareSends(m) /\ HandleMessage(m)
      BY <2>2 DEF BusStep
    <3> QED
      BY <2>1, <3>1, MessageQueueStep
  <2>3. CASE HostStep \/ TimerStep
    BY <2>3, EventQueueStep
  <2>4. CASE UNCHANGED vars
    BY <2>4 DEF vars, tcaVars, FifoInv, QueueStep
  <2> QED
    BY <2>2, <2>3, <2>4 DEF Next
<1>4. TypeOK /\ QueueStep => [Fifo!Next]_UnreadEvents
  <2>1. UnreadEvents' = Unread(registers')
    BY DEF UnreadEvents, Unread, EventCount
  <2>2. KEY_EVENT_J - KEY_EVENT_A + 1 = 10
    BY DEF KEY_EVENT_J, KEY_EVENT_A
  <2> QED
    BY <1>1, <2>1, <2>2 DEF QueueStep, Fifo!Next, Fifo!Put, Fifo!Take
<1>5. Spec => []TypeOK
  BY TypeCorrect
<1> QED
  BY <1>2, <1>3, <1>4, <1>5, PTL DEF Spec, RefinesKeyFifo, Fifo!Spec
=============================================================================
