---------------------------- MODULE I2cBusProofs ----------------------------
(***************************************************************************)
(* Proofs about the devices on one bus, for every set of addresses, straps *)
(* and firmware bytes.                                                     *)
(***************************************************************************)
EXTENDS I2cBus, TwiMasterProofs

\* A message moves the link to its START's address, frees it, or keeps it.
LEMMA LinkMoves ==
  ASSUME NEW m \in Offered, Emit(m)
  PROVE /\ m.cond = "START" => link'.dev = m.dev
        /\ m.cond # "START" => m.dev = link.dev
        /\ m.cond \notin {"START", "STOP"} => link' = link
BY OfferedShape DEF Emit, Starts

-----------------------------------------------------------------------------
(* One message, device by device                                           *)

LEMMA KeypadMessage ==
  ASSUME NEW m \in Offered, Emit(m), Keypad!HandleMessage(m),
         state # "Start" => link.dev = I2C_ADDRESS
  PROVE /\ state' # "Start" => link'.dev = I2C_ADDRESS
        /\ registers' # registers => link.dev = I2C_ADDRESS
<1>1. CASE m.dev = I2C_ADDRESS
  <2>1. Keypad!HandleI2CMessage(m)
    BY <1>1 DEF Keypad!HandleMessage, Keypad!HandleAnyI2cMessage, Keypad!MatchesI2cAddress
  <2>2. CASE Keypad!OnStart(m)
    <3>1. link'.dev = I2C_ADDRESS
      BY <1>1, <2>2, LinkMoves DEF Keypad!OnStart
    <3>2. registers' = registers
      BY <2>2 DEF Keypad!OnStart, Keypad!Crash
    <3> QED
      BY <3>1, <3>2
  <2>3. CASE Keypad!OnStop(m)
    BY <2>3 DEF Keypad!OnStop, Keypad!ResetStateMachine
  <2>4. CASE Keypad!OnWrite(m) \/ Keypad!OnRead(m)
    <3>1. m.cond \in {"WRITE", "READ"}
      BY <2>4 DEF Keypad!OnWrite, Keypad!OnRead
    <3> QED
      BY <1>1, <3>1, LinkMoves
  <2> QED
    BY <2>1, <2>2, <2>3, <2>4 DEF Keypad!HandleI2CMessage
<1>2. CASE m.dev # I2C_ADDRESS /\ m.cond = "START"
  BY <1>2 DEF Keypad!HandleMessage, Keypad!HandleAnyI2cMessage, Keypad!MatchesI2cAddress,
    Keypad!ResetStateMachine
<1>3. CASE m.dev # I2C_ADDRESS /\ m.cond # "START"
  <2>1. Keypad!Ignore
    BY <1>3 DEF Keypad!HandleMessage, Keypad!HandleAnyI2cMessage, Keypad!MatchesI2cAddress
  <2>2. state = "Start"
    BY <1>3, LinkMoves
  <2> QED
    BY <2>1, <2>2 DEF Keypad!Ignore, Keypad!protocol
<1> QED
  BY <1>1, <1>2, <1>3

LEMMA LedMessage ==
  ASSUME NEW m \in Offered, Emit(m), LedDriver!TlcHandleMessage(m),
         tlcState # "Start" => link.dev = TlcAddress
  PROVE /\ tlcState' # "Start" => link'.dev = TlcAddress
        /\ tlcRegisters' # tlcRegisters => link.dev = TlcAddress
<1> USE DEF LedDriver!tlcProtocol
<1>1. CASE m.dev = TlcAddress
  <2>1. LedDriver!TlcHandleI2CMessage(m)
    BY <1>1 DEF LedDriver!TlcHandleMessage, LedDriver!HandleAnyI2cMessage,
      LedDriver!MatchesI2cAddress
  <2>2. CASE LedDriver!TlcOnStart(m)
    <3>1. link'.dev = TlcAddress
      BY <1>1, <2>2, LinkMoves DEF LedDriver!TlcOnStart
    <3>2. tlcRegisters' = tlcRegisters
      BY <2>2 DEF LedDriver!TlcOnStart, LedDriver!TlcCrash
    <3> QED
      BY <3>1, <3>2
  <2>3. CASE LedDriver!TlcOnStop(m)
    BY <2>3 DEF LedDriver!TlcOnStop, LedDriver!TlcReset
  <2>4. CASE LedDriver!TlcOnWrite(m) \/ LedDriver!TlcOnRead(m)
    <3>1. m.cond \in {"WRITE", "READ"}
      BY <2>4 DEF LedDriver!TlcOnWrite, LedDriver!TlcOnRead
    <3> QED
      BY <1>1, <3>1, LinkMoves
  <2> QED
    BY <2>1, <2>2, <2>3, <2>4 DEF LedDriver!TlcHandleI2CMessage
<1>2. CASE m.dev # TlcAddress /\ m.cond = "START"
  BY <1>2 DEF LedDriver!TlcHandleMessage, LedDriver!HandleAnyI2cMessage,
    LedDriver!MatchesI2cAddress, LedDriver!TlcReset
<1>3. CASE m.dev # TlcAddress /\ m.cond # "START"
  <2>1. LedDriver!TlcIgnore
    BY <1>3 DEF LedDriver!TlcHandleMessage, LedDriver!HandleAnyI2cMessage,
      LedDriver!MatchesI2cAddress
  <2>2. tlcState = "Start"
    BY <1>3, LinkMoves
  <2> QED
    BY <2>1, <2>2 DEF LedDriver!TlcIgnore
<1> QED
  BY <1>1, <1>2, <1>3

LEMMA EepromMessage ==
  ASSUME NEW m \in Offered, Emit(m), Eeprom!EepromHandleMessage(m),
         eState # "STOPPED" => link.dev = Eeprom!EepromAddress
  PROVE /\ eState' # "STOPPED" => link'.dev = Eeprom!EepromAddress
        /\ buffer' # buffer => link.dev = Eeprom!EepromAddress
<1> USE DEF Eeprom!eProtocol
<1>1. CASE m.dev = Eeprom!EepromAddress
  <2>1. Eeprom!EepromHandleI2CMessage(m)
    BY <1>1 DEF Eeprom!EepromHandleMessage, Eeprom!HandleAnyI2cMessage,
      Eeprom!MatchesI2cAddress
  <2>2. CASE Eeprom!EepromOnStart(m)
    <3>1. link'.dev = Eeprom!EepromAddress
      BY <1>1, <2>2, LinkMoves DEF Eeprom!EepromOnStart
    <3>2. buffer' = buffer
      BY <2>2 DEF Eeprom!EepromOnStart
    <3> QED
      BY <3>1, <3>2
  <2>3. CASE Eeprom!EepromOnStop(m)
    BY <2>3 DEF Eeprom!EepromOnStop, Eeprom!EepromReset
  <2>4. CASE Eeprom!EepromOnWrite(m) \/ Eeprom!EepromOnRead(m)
    <3>1. m.cond \in {"WRITE", "READ"}
      BY <2>4 DEF Eeprom!EepromOnWrite, Eeprom!EepromOnRead
    <3> QED
      BY <1>1, <3>1, LinkMoves
  <2> QED
    BY <2>1, <2>2, <2>3, <2>4 DEF Eeprom!EepromHandleI2CMessage
<1>2. CASE m.dev # Eeprom!EepromAddress /\ m.cond = "START"
  BY <1>2 DEF Eeprom!EepromHandleMessage, Eeprom!HandleAnyI2cMessage,
    Eeprom!MatchesI2cAddress, Eeprom!EepromReset
<1>3. CASE m.dev # Eeprom!EepromAddress /\ m.cond # "START"
  <2>1. Eeprom!EepromIgnore
    BY <1>3 DEF Eeprom!EepromHandleMessage, Eeprom!HandleAnyI2cMessage,
      Eeprom!MatchesI2cAddress
  <2>2. eState = "STOPPED"
    BY <1>3, LinkMoves
  <2> QED
    BY <2>1, <2>2 DEF Eeprom!EepromIgnore
<1> QED
  BY <1>1, <1>2, <1>3

\* The display has no state to reset; its buffer fills and empties in its own
\* transactions only.
LEMMA DisplayMessage ==
  ASSUME NEW m \in Offered, Emit(m), Display!GHandleMessage(m)
  PROVE dataBuffer' # dataBuffer => link.dev = Display!Gu7000Address
<1>1. CASE m.dev = Display!Gu7000Address /\ m.cond # "START"
  BY <1>1, LinkMoves
<1>2. CASE m.dev = Display!Gu7000Address /\ m.cond = "START"
  <2>1. Display!GOnStart(m)
    BY <1>2 DEF Display!GHandleMessage, Display!HandleAnyI2cMessage,
      Display!MatchesI2cAddress, Display!GHandleI2CMessage, Display!GOnStop,
      Display!GOnWrite, Display!GOnRead
  <2> QED
    BY <2>1 DEF Display!GOnStart, Display!device
<1>3. CASE m.dev # Display!Gu7000Address
  <2>1. Display!GIgnore
    BY <1>3 DEF Display!GHandleMessage, Display!HandleAnyI2cMessage,
      Display!MatchesI2cAddress
  <2> QED
    BY <2>1 DEF Display!GIgnore, Display!device
<1> QED
  BY <1>1, <1>2, <1>3

\* The keypad's front end and its timers leave its protocol alone.
LEMMA KeypadKeeps ==
  ASSUME Keypad!HostStep \/ Keypad!TimerStep
  PROVE UNCHANGED state
BY DEF Keypad!HostStep, Keypad!TimerStep, Keypad!AddKeyEvent, Keypad!AddKeyPressAndRelease,
  Keypad!ReleaseTimerFires, Keypad!protocol

-----------------------------------------------------------------------------
(* Theorems                                                                *)

LEMMA BusStepFacts ==
  ASSUME OnlyTheAddressedIsEngaged, [BusNext]_busVars
  PROVE /\ OnlyTheAddressedIsEngaged'
        /\ tlcRegisters' # tlcRegisters => link.dev = TlcAddress
        /\ buffer' # buffer => link.dev = Eeprom!EepromAddress
        /\ dataBuffer' # dataBuffer => link.dev = Display!Gu7000Address
        /\ registers' # registers =>
             link.dev = I2C_ADDRESS \/ Keypad!HostStep \/ Keypad!TimerStep
<1> USE DEF OnlyTheAddressedIsEngaged
<1>1. CASE BusMessage
  <2>1. PICK m \in Offered : Emit(m) /\ Dispatch(m)
    BY <1>1 DEF BusMessage
  <2>2. /\ Keypad!HandleMessage(m) /\ LedDriver!TlcHandleMessage(m)
        /\ Eeprom!EepromHandleMessage(m) /\ Display!GHandleMessage(m)
    BY <2>1 DEF Dispatch
  <2> QED
    BY <2>1, <2>2, KeypadMessage, LedMessage, EepromMessage, DisplayMessage
<1>2. CASE KeypadStep
  <2>1. state' = state /\ UNCHANGED <<link, ledVars, eepromVars, displayVars>>
    BY <1>2, KeypadKeeps DEF KeypadStep
  <2> QED
    BY <1>2, <2>1 DEF KeypadStep, ledVars, eepromVars, displayVars, Eeprom!EepromAddress
<1>3. CASE LedStep
  <2>1. UNCHANGED <<link, keypadVars, eepromVars, displayVars, tlcState, tlcRegisters>>
    BY <1>3 DEF LedStep, LedDriver!GetCurrentState, LedDriver!tlcProtocol
  <2> QED
    BY <2>1 DEF keypadVars, eepromVars, displayVars, Eeprom!EepromAddress
<1>4. CASE UNCHANGED busVars
  BY <1>4 DEF busVars, keypadVars, ledVars, eepromVars, displayVars, Eeprom!EepromAddress
<1> QED
  BY <1>1, <1>2, <1>3, <1>4 DEF BusNext

\* The link carries an address of the bus and the count its three values.
THEOREM BusTypeCorrect == BusSpec => []BusTypeOK
<1>1. BusInit => BusTypeOK
  BY DEF BusInit, BusTypeOK, LinkType, Free, Direction
<1>2. BusTypeOK /\ [BusNext]_busVars => BusTypeOK'
  <2> SUFFICES ASSUME BusTypeOK, [BusNext]_busVars PROVE BusTypeOK'
    OBVIOUS
  <2>1. CASE BusMessage
    <3>1. PICK m \in Offered : Emit(m) /\ CountWritten(m)
      BY <2>1 DEF BusMessage
    <3>2. LinkType'
      BY <3>1, LinkStepTyped DEF BusTypeOK
    <3>3. written' \in {"none", "one", "more"}
      BY <3>1 DEF CountWritten, BusTypeOK
    <3> QED
      BY <3>2, <3>3 DEF BusTypeOK
  <2>2. CASE KeypadStep \/ LedStep \/ UNCHANGED busVars
    BY <2>2 DEF KeypadStep, LedStep, LedDriver!GetCurrentState, busVars, BusTypeOK, LinkType
  <2> QED
    BY <2>1, <2>2 DEF BusNext
<1> QED
  BY <1>1, <1>2, PTL DEF BusSpec

\* A device that lost the bus is out of its transaction, on any set of
\* addresses and whatever the firmware sends (sim_i2c_base.cpp:66-83).
THEOREM Engagement == BusSpec => []OnlyTheAddressedIsEngaged
<1>1. BusInit => OnlyTheAddressedIsEngaged
  BY DEF BusInit, OnlyTheAddressedIsEngaged, Keypad!Init, LedDriver!TlcInit, Eeprom!EepromInit
<1>2. OnlyTheAddressedIsEngaged /\ [BusNext]_busVars => OnlyTheAddressedIsEngaged'
  BY BusStepFacts
<1> QED
  BY <1>1, <1>2, PTL DEF BusSpec

\* No device's contents change in another one's transaction
\* (sim_i2c_base.cpp:66-83).
THEOREM ContentsOwned == BusSpec => ContentsChangeInTheirOwnTransaction
<1>1. OnlyTheAddressedIsEngaged /\ [BusNext]_busVars
        => [/\ tlcRegisters' # tlcRegisters => link.dev = TlcAddress
            /\ buffer' # buffer => link.dev = Eeprom!EepromAddress
            /\ dataBuffer' # dataBuffer => link.dev = Display!Gu7000Address
            /\ registers' # registers =>
                 link.dev = I2C_ADDRESS \/ Keypad!HostStep \/ Keypad!TimerStep]_busVars
  BY BusStepFacts
<1> QED
  BY <1>1, Engagement, PTL DEF BusSpec, ContentsChangeInTheirOwnTransaction

\* The display's buffer holds what the interpreter has not been fed.
DisplayIInv ==
  /\ screen \in Seq(Byte) /\ dataBuffer \in Seq(Byte)
  /\ Display!EveryByteOnce

LEMMA ConcatAppend ==
  ASSUME NEW s \in Seq(Byte), NEW t \in Seq(Byte), NEW byte \in Byte
  PROVE s \o Append(t, byte) = Append(s \o t, byte)
OBVIOUS

LEMMA DisplayStep ==
  ASSUME DisplayIInv, NEW m \in Offered, Display!GHandleMessage(m)
  PROVE DisplayIInv'
<1> USE DEF Display!device, Display!gHistory
<1>1. /\ screen \in Seq(Byte) /\ dataBuffer \in Seq(Byte) /\ <<>> \in Seq(Byte)
      /\ screen \o dataBuffer = sent
  BY DEF DisplayIInv, Display!EveryByteOnce
<1>2. CASE Display!GOnWrite(m)
  <2>1. m.data \in Byte
    BY OfferedCarriesByte
  <2>2. /\ screen' = screen /\ dataBuffer' = Append(dataBuffer, m.data)
        /\ sent' = Append(sent, m.data)
    BY <1>2 DEF Display!GOnWrite
  <2>3. dataBuffer' \in Seq(Byte)
    BY <1>1, <2>1, <2>2
  <2>4. screen' \o dataBuffer' = sent'
    BY <1>1, <2>1, <2>2, ConcatAppend
  <2> QED
    BY <1>1, <2>2, <2>3, <2>4 DEF DisplayIInv, Display!EveryByteOnce
<1>3. CASE Display!GOnStop(m)
  <2>1. screen' = screen \o dataBuffer /\ dataBuffer' = <<>> /\ sent' = sent
    BY <1>3 DEF Display!GOnStop, Display!OnDataReceived
  <2>2. screen' \in Seq(Byte)
    <3>1. \A s, t \in Seq(Byte) : s \o t \in Seq(Byte)
      OBVIOUS
    <3>2. screen \o dataBuffer \in Seq(Byte)
      BY <1>1, <3>1, Zenon
    <3> QED
      BY <2>1, <3>2, Zenon
  <2>3. \A s \in Seq(Byte) : s \o <<>> = s
    OBVIOUS
  <2>4. screen' \o dataBuffer' = sent'
    BY <1>1, <2>1, <2>2, <2>3, Zenon
  <2> QED
    BY <1>1, <2>1, <2>2, <2>4 DEF DisplayIInv, Display!EveryByteOnce
<1>4. CASE Display!GOnStart(m) \/ Display!GOnRead(m) \/ Display!GIgnore
  <2>1. UNCHANGED <<screen, dataBuffer, sent>>
    BY <1>4 DEF Display!GOnStart, Display!GOnRead, Display!GIgnore
  <2> QED
    BY <1>1, <2>1 DEF DisplayIInv, Display!EveryByteOnce
<1> QED
  BY <1>2, <1>3, <1>4 DEF Display!GHandleMessage, Display!GHandleI2CMessage

\* Every byte the firmware writes to the display is fed to the interpreter
\* once and in order, whatever other devices it talks to in between
\* (sim_i2c_base.cpp:66-83, sim_gu7000_i2c.cpp:9-25).
THEOREM DisplayLosesNothing == BusSpec => []Display!EveryByteOnce
<1>1. BusInit => DisplayIInv
  <2> SUFFICES ASSUME BusInit PROVE DisplayIInv
    OBVIOUS
  <2>1. <<>> \in Seq(Byte) /\ <<>> \o <<>> = <<>>
    OBVIOUS
  <2> QED
    BY <2>1 DEF BusInit, Display!Gu7000I2CInit, DisplayIInv, Display!EveryByteOnce
<1>2. DisplayIInv /\ [BusNext]_busVars => DisplayIInv'
  <2> SUFFICES ASSUME DisplayIInv, [BusNext]_busVars PROVE DisplayIInv'
    OBVIOUS
  <2>1. CASE BusMessage
    BY <2>1, DisplayStep DEF BusMessage, Dispatch
  <2>2. CASE KeypadStep \/ LedStep \/ UNCHANGED busVars
    <3>1. UNCHANGED <<screen, dataBuffer, sent>>
      BY <2>2 DEF KeypadStep, LedStep, busVars, displayVars
    <3> QED
      BY <3>1 DEF DisplayIInv, Display!EveryByteOnce
  <2> QED
    BY <2>1, <2>2 DEF BusNext
<1>3. DisplayIInv => Display!EveryByteOnce
  BY DEF DisplayIInv
<1> QED
  BY <1>1, <1>2, <1>3, PTL DEF BusSpec

-----------------------------------------------------------------------------
(* The devices alone and on the bus                                        *)

(***************************************************************************)
(* What is proved of each device alone, at the devices of this bus.  The   *)
(* display's timer and the listener are not on it, so it does not matter   *)
(* what stands for their constants and variables.                          *)
(***************************************************************************)
Alone == INSTANCE I2cDeviceProofs
           WITH RepeatsStart <- FALSE, AddressesReads <- FALSE, MaxMilliseconds <- 0,
                sinceCommand <- 0, settled <- 0, milliseconds <- 0,
                Answers <- {}, MaxFinished <- 0, MaxMessages <- 0,
                inProgress <- 0, finished <- 0, badDereference <- 0, repliesFirst <- 0,
                attachedIdle <- 0, callbacks <- 0, traffic <- 0,
                receivedMessages <- 0, walking <- 0, shown <- 0, raced <- 0

LEMMA AloneAssumptions ==
  /\ Addresses \subseteq 0 .. 127 /\ DataBytes \subseteq Alone!Byte
  /\ TlcAddress \in 0 .. 127 /\ MaxBurst \in Nat
  /\ ControlBytes \cup PwmBytes \cup LedOutBytes \subseteq Alone!Byte
  /\ \A byte \in LedOutBytes : Alone!Drawable(byte)
  /\ A2 \in {0, 1} /\ A1 \in {0, 1}
  /\ HighBytes \cup LowBytes \cup StoredBytes \cup Uninitialised \subseteq Alone!Byte
  /\ MaxTransfer \in Nat /\ CounterModulus \in Nat \ {0} /\ FALSE \in BOOLEAN
  /\ MaxSent \in Nat /\ 0 \in Nat /\ {} \subseteq Alone!Reply
<1>1. Alone!Byte = Byte
  BY DEF Alone!Byte, Byte
<1>2. \A byte \in LedOutBytes : Alone!Drawable(byte)
  BY BusLedDriver DEF Alone!Drawable, Alone!LedField, LedDriver!Drawable, LedDriver!LedField
<1> QED
  BY <1>1, <1>2, BusLedDriver, BusEeprom, BusDisplay, AddressesAssumption, DataBytesAssumption

\* The master, and a device on the bus, are the same as alone.
LEMMA MessagesAlone ==
  ASSUME NEW m \in Offered, Emit(m)
  PROVE m \in Alone!Offered /\ Alone!Emit(m)
BY DEF Offered, Alone!Offered, Starts, Alone!Starts, Transfers, Alone!Transfers, Emit, Alone!Emit,
  Free, Alone!Free, NoDevice, Alone!NoDevice, Direction, Alone!Direction

LEMMA LedDriverAlone ==
  ASSUME NEW m
  PROVE /\ LedDriver!TlcHandleMessage(m) => Alone!TlcHandleMessage(m)
        /\ LedDriver!TlcFirmwareSends(m) => Alone!TlcFirmwareSends(m)
<1> USE DEF LedDriver!tlcProtocol, Alone!tlcProtocol, LedDriver!history, Alone!history,
  LedDriver!Ack, Alone!Ack, LedDriver!Silent, Alone!Silent, LedDriver!TlcCrash, Alone!TlcCrash,
  LedDriver!LastIncremented, Alone!LastIncremented
<1>1. LedDriver!TlcOnStart(m) => Alone!TlcOnStart(m)
  BY DEF LedDriver!TlcOnStart, Alone!TlcOnStart
<1>2. LedDriver!TlcOnWrite(m) => Alone!TlcOnWrite(m)
  BY Zenon DEF LedDriver!TlcOnWrite, Alone!TlcOnWrite, LedDriver!TakeControlByte,
    Alone!TakeControlByte, LedDriver!StoreData, Alone!StoreData, LedDriver!NextTlcRegister,
    Alone!NextTlcRegister, LedDriver!AutoIncrementOn, Alone!AutoIncrementOn,
    LedDriver!ControlRegister, Alone!ControlRegister, LedDriver!TlcRegister, Alone!TlcRegister,
    LedDriver!LastTlcRegister, Alone!LastTlcRegister
<1>3. LedDriver!TlcOnRead(m) => Alone!TlcOnRead(m)
  BY DEF LedDriver!TlcOnRead, Alone!TlcOnRead
<1>4. LedDriver!TlcReset => Alone!TlcReset
  BY DEF LedDriver!TlcReset, Alone!TlcReset
<1>5. LedDriver!TlcIgnore => Alone!TlcIgnore
  BY DEF LedDriver!TlcIgnore, Alone!TlcIgnore
<1>6. LedDriver!TlcHandleI2CMessage(m) => Alone!TlcHandleI2CMessage(m)
  BY <1>1, <1>2, <1>3, <1>4 DEF LedDriver!TlcHandleI2CMessage, Alone!TlcHandleI2CMessage,
    LedDriver!TlcOnStop, Alone!TlcOnStop
<1>7. /\ LedDriver!HandleAnyI2cMessage(m, TlcAddress) = Alone!HandleAnyI2cMessage(m, TlcAddress)
      /\ LedDriver!HandleAnyI2cMessage(m, TlcAddress) \in {"handled", "reset", "dropped"}
  BY DEF LedDriver!HandleAnyI2cMessage, Alone!HandleAnyI2cMessage, LedDriver!MatchesI2cAddress,
    Alone!MatchesI2cAddress
<1>8. LedDriver!TlcHandleMessage(m) => Alone!TlcHandleMessage(m)
  BY <1>4, <1>5, <1>6, <1>7 DEF LedDriver!TlcHandleMessage, Alone!TlcHandleMessage
<1>9. LedDriver!TlcFirmwareSends(m) => Alone!TlcFirmwareSends(m)
  BY Zenon DEF LedDriver!TlcFirmwareSends, Alone!TlcFirmwareSends, LedDriver!IntendedRegister,
    Alone!IntendedRegister, LedDriver!IntendedAt, Alone!IntendedAt, LedDriver!LEDOUT0, Alone!LEDOUT0
<1> QED
  BY <1>8, <1>9

LEMMA EepromAlone ==
  ASSUME NEW m
  PROVE /\ Eeprom!EepromHandleMessage(m) => Alone!EepromHandleMessage(m)
        /\ Eeprom!EepromFirmwareSends(m) => Alone!EepromFirmwareSends(m)
        /\ Eeprom!Record(m) => Alone!Record(m)
<1> USE DEF Eeprom!eProtocol, Alone!eProtocol, Eeprom!EepromAddress, Alone!EepromAddress,
  Eeprom!Ack, Alone!Ack, Eeprom!Silent, Alone!Silent, Eeprom!EepromCrash, Alone!EepromCrash
<1>1. Eeprom!EepromOnStart(m) => Alone!EepromOnStart(m)
  BY DEF Eeprom!EepromOnStart, Alone!EepromOnStart
<1>2. Eeprom!Accessed = Alone!Accessed /\ Eeprom!Cell = Alone!Cell
      /\ Eeprom!NextCounter = Alone!NextCounter
  BY DEF Eeprom!Accessed, Alone!Accessed, Eeprom!Cell, Alone!Cell, Eeprom!NextCounter,
    Alone!NextCounter
<1>3. Eeprom!AddressWith(m.data) = Alone!AddressWith(m.data)
  <2>1. \A a, b : Eeprom!BitOr(a, b) = Alone!BitOr(a, b)
    BY Zenon DEF Eeprom!BitOr, Alone!BitOr, Eeprom!OrByte, Alone!OrByte, Eeprom!OrBit, Alone!OrBit
  <2> QED
    BY <2>1, Zenon DEF Eeprom!AddressWith, Alone!AddressWith
<1>4. Eeprom!StoreByte(m) => Alone!StoreByte(m)
  BY <1>2, Zenon DEF Eeprom!StoreByte, Alone!StoreByte
<1>5. Eeprom!TakeAddressByte(m) => Alone!TakeAddressByte(m)
  BY <1>3, Zenon DEF Eeprom!TakeAddressByte, Alone!TakeAddressByte
<1>6. Eeprom!EepromOnWrite(m) => Alone!EepromOnWrite(m)
  BY <1>2, <1>4, <1>5 DEF Eeprom!EepromOnWrite, Alone!EepromOnWrite
<1>7. Eeprom!EepromOnRead(m) => Alone!EepromOnRead(m)
  BY <1>2, Zenon DEF Eeprom!EepromOnRead, Alone!EepromOnRead, Eeprom!Data, Alone!Data
<1>8. Eeprom!EepromReset => Alone!EepromReset
  BY DEF Eeprom!EepromReset, Alone!EepromReset
<1>9. Eeprom!EepromIgnore => Alone!EepromIgnore
  BY DEF Eeprom!EepromIgnore, Alone!EepromIgnore
<1>10. Eeprom!EepromHandleI2CMessage(m) => Alone!EepromHandleI2CMessage(m)
  BY <1>1, <1>6, <1>7, <1>8 DEF Eeprom!EepromHandleI2CMessage, Alone!EepromHandleI2CMessage,
    Eeprom!EepromOnStop, Alone!EepromOnStop
<1>11. \A a : /\ Eeprom!HandleAnyI2cMessage(m, a) = Alone!HandleAnyI2cMessage(m, a)
              /\ Eeprom!HandleAnyI2cMessage(m, a) \in {"handled", "reset", "dropped"}
  BY DEF Eeprom!HandleAnyI2cMessage, Alone!HandleAnyI2cMessage, Eeprom!MatchesI2cAddress,
    Alone!MatchesI2cAddress
<1>12. Eeprom!EepromHandleMessage(m) => Alone!EepromHandleMessage(m)
  BY <1>8, <1>9, <1>10, <1>11 DEF Eeprom!EepromHandleMessage, Alone!EepromHandleMessage
<1>13. Eeprom!EepromFirmwareSends(m) => Alone!EepromFirmwareSends(m)
  BY Zenon DEF Eeprom!EepromFirmwareSends, Alone!EepromFirmwareSends
<1>14. Eeprom!Record(m) => Alone!Record(m)
  BY Zenon DEF Eeprom!Record, Alone!Record, Eeprom!eHistory, Alone!eHistory
<1> QED
  BY <1>12, <1>13, <1>14

\* Among the other devices the LED driver and the EEPROM behave as they do
\* alone, so what is proved of them alone holds on the bus
\* (sim_i2c_base.cpp:66-83).
THEOREM LedDriverOnTheBus == BusSpec => Alone!TlcSpec
<1>1. BusInit => Alone!LedDriverInit
  BY DEF BusInit, Alone!LedDriverInit, LedDriver!TlcInit, Alone!TlcInit, LedDriver!TlcRegister,
    Alone!TlcRegister, LedDriver!LastTlcRegister, Alone!LastTlcRegister, LedDriver!Silent,
    Alone!Silent, Alone!LinkInit, Alone!Free, Free, Alone!NoDevice, NoDevice
<1>2. [BusNext]_busVars => [Alone!TlcNext]_(Alone!TlcAllVars)
  <2>1. SUFFICES ASSUME BusNext \/ UNCHANGED busVars
                 PROVE Alone!TlcNext \/ UNCHANGED Alone!TlcAllVars
    OBVIOUS
  <2>2. CASE BusNext /\ BusMessage
    <3>1. PICK m \in Offered : Firmware(m) /\ Emit(m) /\ Dispatch(m)
      BY <2>2 DEF BusMessage
    <3>2. Alone!TlcBusStep
      BY <3>1, MessagesAlone, LedDriverAlone DEF Firmware, Dispatch, Alone!TlcBusStep
    <3> QED
      BY <2>2, <3>2 DEF BusNext, NoDeviceCrashed, Alone!TlcNext
  <2>3. CASE BusNext /\ KeypadStep
    BY <2>3 DEF KeypadStep, ledVars, Alone!TlcAllVars, Alone!tlcVars, Alone!tlcProtocol,
      Alone!history
  <2>4. CASE BusNext /\ LedStep
    <3>1. Alone!GetCurrentState
      BY <2>4, Zenon DEF LedStep, LedDriver!GetCurrentState, Alone!GetCurrentState, LedDriver!LedState,
        Alone!LedState, LedDriver!LedField, Alone!LedField, LedDriver!Leds, Alone!Leds,
        LedDriver!LEDOUT0, Alone!LEDOUT0, LedDriver!tlcProtocol, Alone!tlcProtocol,
        LedDriver!history, Alone!history
    <3> QED
      BY <2>4, <3>1 DEF BusNext, NoDeviceCrashed, Alone!TlcNext
  <2>5. CASE UNCHANGED busVars
    BY <2>5 DEF busVars, ledVars, Alone!TlcAllVars, Alone!tlcVars, Alone!tlcProtocol, Alone!history
  <2> QED
    BY <2>1, <2>2, <2>3, <2>4, <2>5 DEF BusNext
<1> QED
  BY <1>1, <1>2, PTL DEF BusSpec, Alone!TlcSpec

THEOREM EepromOnTheBus == BusSpec => Alone!EepromSpec
<1>1. BusInit => Alone!EepromFreeInit
  BY DEF BusInit, Alone!EepromFreeInit, Eeprom!EepromInit, Alone!EepromInit, Eeprom!Silent,
    Alone!Silent, Alone!Free, Free, Alone!NoDevice, NoDevice
<1>2. [BusNext]_busVars => [Alone!EepromNext]_<<link, Alone!eVars>>
  <2>1. SUFFICES ASSUME BusNext \/ UNCHANGED busVars
                 PROVE Alone!EepromNext \/ UNCHANGED <<link, Alone!eVars>>
    OBVIOUS
  <2>2. CASE BusNext /\ BusMessage
    <3>1. PICK m \in Offered : Firmware(m) /\ Emit(m) /\ Eeprom!Record(m) /\ Dispatch(m)
      BY <2>2 DEF BusMessage
    <3> QED
      BY <2>2, <3>1, MessagesAlone, EepromAlone
        DEF Firmware, Dispatch, BusNext, NoDeviceCrashed, Alone!EepromNext
  <2>3. CASE KeypadStep \/ LedStep \/ UNCHANGED busVars
    BY <2>3 DEF KeypadStep, LedStep, LedDriver!GetCurrentState, busVars, eepromVars, Alone!eVars,
      Alone!eProtocol, Alone!eHistory
  <2> QED
    BY <2>1, <2>2, <2>3 DEF BusNext
<1> QED
  BY <1>1, <1>2, PTL DEF BusSpec, Alone!EepromSpec

\* The EEPROM stays a memory whatever else is on the bus: a byte read is the
\* byte last written there, transactions cut off by other devices' included
\* (sim_47l04.cpp:52-125).
THEOREM EepromIsAMemoryOnTheBus ==
  ASSUME MaxTransfer <= CounterModulus
  PROVE  BusSpec => Alone!RefinesSerialMemory
<1>1. Alone!EepromSpec => Alone!RefinesSerialMemory
  BY Alone!EepromIsAMemory, AloneAssumptions, Zenon
<1> QED
  BY <1>1, EepromOnTheBus, PTL

-----------------------------------------------------------------------------
(* Firmware that follows the protocols                                     *)

\* In its transactions the keypad is where the firmware believes it to be.
KeypadProtocol ==
  /\ selected \in Keypad!Register
  /\ link.dev # I2C_ADDRESS => state = "Start"
  /\ link.dev = I2C_ADDRESS /\ link.rw = "W" =>
       state = IF written = "none" THEN "GiveRegisterAddress" ELSE "MaybeWriteOrReadRegister"
  /\ link.dev = I2C_ADDRESS /\ link.rw = "R" => state = "ReadRegister"

\* The LED driver is only written to.
LedProtocol ==
  /\ tlcSelected \in LedDriver!TlcRegister
  /\ link.dev = TlcAddress => link.rw = "W" /\ tlcState # "Start"
  /\ link.dev # TlcAddress => tlcState = "Start"

ProtocolInv == BusTypeOK /\ KeypadProtocol /\ LedProtocol /\ NoDeviceCrashed

\* The pointers stay in the register files.
LEMMA PointersStay ==
  /\ \A regs : selected \in Keypad!Register => Keypad!NextSelected(regs) \in Keypad!Register
  /\ tlcSelected \in LedDriver!TlcRegister => LedDriver!NextTlcRegister \in LedDriver!TlcRegister
BY DEF Keypad!NextSelected, Keypad!Register, Keypad!LastRegister, LedDriver!NextTlcRegister,
  LedDriver!TlcRegister, LedDriver!LastTlcRegister, LedDriver!LastIncremented

\* What the next state of the master is, message by message.
LEMMA MasterMoves ==
  ASSUME BusTypeOK, NEW m \in Offered, Emit(m), CountWritten(m)
  PROVE \/ /\ m.cond = "START" /\ m.rw \in {"W", "R"}
           /\ link'.dev = m.dev /\ link'.rw = m.rw /\ written' = "none"
        \/ /\ m.cond = "STOP" /\ m.dev = link.dev
           /\ link'.dev = NoDevice
        \/ /\ m.cond = "WRITE" /\ m.dev = link.dev /\ link.rw = "W" /\ link' = link
           /\ written' \in {"one", "more"}
        \/ /\ m.cond = "READ" /\ m.dev = link.dev /\ link.rw = "R" /\ UNCHANGED <<link, written>>
<1>1. CASE m \in Starts
  BY <1>1 DEF Starts, Direction, Emit, CountWritten
<1>2. CASE m \notin Starts
  <2>1. link.rw \in {"W", "R"}
    BY DEF BusTypeOK, LinkType, Direction
  <2> QED
    BY <1>2, <2>1, OfferedShape DEF Emit, Free, CountWritten
<1> QED
  BY <1>1, <1>2

LEMMA KeypadSafe ==
  ASSUME ProtocolInv, NEW m \in Offered, Emit(m), CountWritten(m), FollowsProtocols(m),
         Keypad!FirmwareSends(m), Keypad!HandleMessage(m)
  PROVE KeypadProtocol' /\ ~crashed'
<1> USE DEF Keypad!protocol, Keypad!keypad
<1>1. /\ KeypadProtocol /\ ~crashed /\ BusTypeOK
      /\ I2C_ADDRESS # NoDevice /\ 0 \in Keypad!Register
  BY BusKeypad DEF ProtocolInv, NoDeviceCrashed, NoDevice, Keypad!Register, Keypad!LastRegister
<1>2. CASE m.dev # I2C_ADDRESS /\ m.cond = "START"
  <2>1. Keypad!ResetStateMachine
    BY <1>2 DEF Keypad!HandleMessage, Keypad!HandleAnyI2cMessage, Keypad!MatchesI2cAddress
  <2>2. link'.dev # I2C_ADDRESS
    BY <1>2, LinkMoves
  <2> QED
    BY <1>1, <2>1, <2>2 DEF Keypad!ResetStateMachine, KeypadProtocol
<1>3. CASE m.dev # I2C_ADDRESS /\ m.cond # "START"
  <2>1. Keypad!Ignore
    BY <1>3 DEF Keypad!HandleMessage, Keypad!HandleAnyI2cMessage, Keypad!MatchesI2cAddress
  <2>2. link.dev # I2C_ADDRESS /\ link'.dev # I2C_ADDRESS
    BY <1>1, <1>3, MasterMoves
  <2> QED
    BY <1>1, <2>1, <2>2 DEF Keypad!Ignore, KeypadProtocol
<1>4. CASE m.dev = I2C_ADDRESS
  <2>1. Keypad!HandleI2CMessage(m)
    BY <1>4 DEF Keypad!HandleMessage, Keypad!HandleAnyI2cMessage, Keypad!MatchesI2cAddress
  <2>2. CASE m.cond = "START"
    <3>1. Keypad!OnStart(m)
      BY <2>1, <2>2 DEF Keypad!HandleI2CMessage, Keypad!OnStop, Keypad!OnWrite, Keypad!OnRead
    <3>2. link'.dev = I2C_ADDRESS /\ link'.rw = m.rw /\ m.rw \in {"W", "R"} /\ written' = "none"
      BY <1>1, <1>4, <2>2, MasterMoves
    <3>3. CASE m.rw = "W"
      <4>1. state = "Start"
        BY <1>1, <1>4, <2>2, <3>3 DEF FollowsProtocols, KeypadProtocol
      <4>2. state' = "GiveRegisterAddress" /\ UNCHANGED <<selected, crashed>>
        BY <3>1, <3>3, <4>1 DEF Keypad!OnStart
      <4> QED
        BY <1>1, <3>2, <3>3, <4>2 DEF KeypadProtocol
    <3>4. CASE m.rw = "R"
      <4>1. link.dev = I2C_ADDRESS /\ link.rw = "W" /\ written = "one"
        BY <1>4, <2>2, <3>4 DEF FollowsProtocols
      <4>2. state = "MaybeWriteOrReadRegister"
        BY <1>1, <4>1 DEF KeypadProtocol
      <4>3. state' = "ReadRegister" /\ UNCHANGED <<selected, crashed>>
        BY <3>1, <4>2 DEF Keypad!OnStart
      <4> QED
        BY <1>1, <3>2, <3>4, <4>3 DEF KeypadProtocol
    <3> QED
      BY <3>2, <3>3, <3>4
  <2>3. CASE m.cond = "STOP"
    <3>1. Keypad!ResetStateMachine
      BY <2>1, <2>3 DEF Keypad!HandleI2CMessage, Keypad!OnStart, Keypad!OnStop, Keypad!OnWrite, Keypad!OnRead
    <3>2. link'.dev # I2C_ADDRESS
      BY <1>1, <2>3, MasterMoves
    <3> QED
      BY <1>1, <3>1, <3>2 DEF Keypad!ResetStateMachine, KeypadProtocol
  <2>4. CASE m.cond = "WRITE"
    <3>1. Keypad!OnWrite(m)
      BY <2>1, <2>4 DEF Keypad!HandleI2CMessage, Keypad!OnStart, Keypad!OnStop, Keypad!OnRead
    <3>2. /\ link.dev = I2C_ADDRESS /\ link.rw = "W" /\ link' = link
          /\ written' \in {"one", "more"}
      BY <1>1, <1>4, <2>4, MasterMoves
    <3>3. state \in {"GiveRegisterAddress", "MaybeWriteOrReadRegister"} /\ selected \in Keypad!Register
      BY <1>1, <3>2 DEF KeypadProtocol
    <3>4. CASE Keypad!SelectRegister(m)
      <4>1. m.data \in Keypad!Register
        BY <1>4, <2>4, <3>4, BusKeypad DEF Keypad!FirmwareSends, Keypad!SelectRegister
      <4> QED
        BY <1>1, <3>2, <3>4, <4>1 DEF Keypad!SelectRegister, KeypadProtocol
    <3>5. CASE Keypad!WriteRegister(m)
      <4>1. selected' \in Keypad!Register
        BY <3>3, <3>5, PointersStay DEF Keypad!WriteRegister
      <4> QED
        BY <1>1, <3>2, <3>5, <4>1 DEF Keypad!WriteRegister, KeypadProtocol
    <3> QED
      BY <3>1, <3>3, <3>4, <3>5 DEF Keypad!OnWrite
  <2>5. CASE m.cond = "READ"
    <3>1. Keypad!OnRead(m)
      BY <2>1, <2>5 DEF Keypad!HandleI2CMessage, Keypad!OnStart, Keypad!OnStop, Keypad!OnWrite
    <3>2. link.dev = I2C_ADDRESS /\ link.rw = "R" /\ link' = link
      BY <1>1, <1>4, <2>5, MasterMoves
    <3>3. state = "ReadRegister" /\ selected \in Keypad!Register
      BY <1>1, <3>2 DEF KeypadProtocol
    <3>4. selected' \in Keypad!Register /\ state' = "ReadRegister" /\ crashed' = crashed
      BY <3>1, <3>3, PointersStay DEF Keypad!OnRead
    <3> QED
      BY <1>1, <3>2, <3>4 DEF KeypadProtocol
  <2> QED
    BY <1>1, <2>2, <2>3, <2>4, <2>5, MasterMoves
<1> QED
  BY <1>2, <1>3, <1>4

LEMMA LedDriverSafe ==
  ASSUME ProtocolInv, NEW m \in Offered, Emit(m), CountWritten(m), FollowsProtocols(m),
         LedDriver!TlcFirmwareSends(m), LedDriver!TlcHandleMessage(m)
  PROVE LedProtocol' /\ ~tlcCrashed'
<1> USE DEF LedDriver!tlcProtocol
<1>1. /\ LedProtocol /\ ~tlcCrashed /\ BusTypeOK
      /\ TlcAddress # NoDevice /\ 0 \in LedDriver!TlcRegister
  BY BusLedDriver
    DEF ProtocolInv, NoDeviceCrashed, NoDevice, LedDriver!TlcRegister, LedDriver!LastTlcRegister
<1>2. CASE m.dev # TlcAddress /\ m.cond = "START"
  <2>1. LedDriver!TlcReset
    BY <1>2 DEF LedDriver!TlcHandleMessage, LedDriver!HandleAnyI2cMessage, LedDriver!MatchesI2cAddress
  <2>2. link'.dev # TlcAddress
    BY <1>2, LinkMoves
  <2> QED
    BY <1>1, <2>1, <2>2 DEF LedDriver!TlcReset, LedProtocol
<1>3. CASE m.dev # TlcAddress /\ m.cond # "START"
  <2>1. LedDriver!TlcIgnore
    BY <1>3 DEF LedDriver!TlcHandleMessage, LedDriver!HandleAnyI2cMessage, LedDriver!MatchesI2cAddress
  <2>2. link.dev # TlcAddress /\ link'.dev # TlcAddress
    BY <1>1, <1>3, MasterMoves
  <2> QED
    BY <1>1, <2>1, <2>2 DEF LedDriver!TlcIgnore, LedProtocol
<1>4. CASE m.dev = TlcAddress
  <2>1. LedDriver!TlcHandleI2CMessage(m)
    BY <1>4 DEF LedDriver!TlcHandleMessage, LedDriver!HandleAnyI2cMessage, LedDriver!MatchesI2cAddress
  <2>2. CASE m.cond = "START"
    <3>1. LedDriver!TlcOnStart(m)
      BY <2>1, <2>2 DEF LedDriver!TlcHandleI2CMessage, LedDriver!TlcOnStop, LedDriver!TlcOnWrite,
        LedDriver!TlcOnRead
    <3>2. link'.dev = TlcAddress /\ link'.rw = m.rw /\ m.rw \in {"W", "R"}
      BY <1>1, <1>4, <2>2, MasterMoves
    <3>3. m.rw = "W" /\ tlcState = "Start"
      BY <1>1, <1>4, <2>2, <3>2 DEF FollowsProtocols, LedProtocol
    <3> QED
      BY <1>1, <3>1, <3>2, <3>3 DEF LedDriver!TlcOnStart, LedProtocol
  <2>3. CASE m.cond = "STOP"
    <3>1. LedDriver!TlcReset
      BY <2>1, <2>3 DEF LedDriver!TlcHandleI2CMessage, LedDriver!TlcOnStart, LedDriver!TlcOnStop,
        LedDriver!TlcOnWrite, LedDriver!TlcOnRead
    <3>2. link'.dev # TlcAddress
      BY <1>1, <2>3, MasterMoves
    <3> QED
      BY <1>1, <3>1, <3>2 DEF LedDriver!TlcReset, LedProtocol
  <2>4. CASE m.cond = "WRITE"
    <3>1. LedDriver!TlcOnWrite(m)
      BY <2>1, <2>4 DEF LedDriver!TlcHandleI2CMessage, LedDriver!TlcOnStart, LedDriver!TlcOnStop,
        LedDriver!TlcOnRead
    <3>2. link.dev = TlcAddress /\ link' = link /\ tlcState # "Start" /\ tlcSelected \in LedDriver!TlcRegister
      BY <1>1, <1>4, <2>4, MasterMoves DEF LedProtocol
    <3>3. CASE LedDriver!TakeControlByte(m)
      <4>1. m.data \in ControlBytes
        BY <1>4, <2>4, <3>3 DEF LedDriver!TlcFirmwareSends, LedDriver!TakeControlByte
      <4>2. LedDriver!ControlRegister(m.data) \in LedDriver!TlcRegister
        BY <4>1, BusLedDriver
      <4> QED
        BY <1>1, <3>2, <3>3, <4>2 DEF LedDriver!TakeControlByte, LedProtocol
    <3>4. CASE LedDriver!StoreData(m)
      BY <1>1, <3>2, <3>4, PointersStay DEF LedDriver!StoreData, LedProtocol
    <3> QED
      BY <3>1, <3>2, <3>3, <3>4 DEF LedDriver!TlcOnWrite
  <2>5. m.cond # "READ"
    BY <1>1, <1>4, MasterMoves DEF LedProtocol
  <2> QED
    BY <1>1, <2>2, <2>3, <2>4, <2>5, MasterMoves
<1> QED
  BY <1>2, <1>3, <1>4

\* The device's counter is never ahead of what the firmware counts.
LEMMA CounterNotAhead ==
  ASSUME NEW n \in Nat, NEW k \in Nat \ {0}
  PROVE n % k \in 0 .. n
<1>1. n % k \in 0 .. k - 1 /\ n \div k \in Nat /\ n = k * (n \div k) + (n % k)
  OBVIOUS
<1> DEFINE q == n \div k
           r == n % k
<1>2. q \in Nat /\ r \in Nat /\ n = k * q + r
  BY <1>1
<1> HIDE DEF q, r
<1>3. k * q >= 0
  BY <1>2
<1>4. r <= n
  BY <1>2, <1>3
<1> QED
  BY <1>2, <1>4 DEF r

LEMMA EepromSafe ==
  ASSUME ~eCrashed, Alone!EepromIInv, BusTypeOK, NEW m \in Offered, FollowsProtocols(m),
         Eeprom!EepromFirmwareSends(m), Eeprom!EepromHandleMessage(m)
  PROVE ~eCrashed'
<1> USE DEF Eeprom!EepromAddress, Alone!EepromAddress, Eeprom!eProtocol
<1>1. CASE m.dev = Eeprom!EepromAddress /\ m.cond \in {"READ", "WRITE"}
  <2>1. link.dev = Eeprom!EepromAddress /\ (m.cond = "READ" => link.rw = "R")
        /\ (m.cond = "WRITE" => link.rw = "W")
    BY <1>1, OfferedShape DEF Starts, BusTypeOK, LinkType, Direction
  <2>2. Alone!EepromTypeOK /\ Alone!TransactionOnTheLink /\ Alone!OperationFollowsTheHeader
    BY DEF Alone!EepromIInv
  <2>3. eState = "STARTED" => Len(header) \in {0, 2}
    BY <2>1, <2>2 DEF Alone!TransactionOnTheLink, Alone!EepromTypeOK
  <2>4. m.cond = "READ" => eState = "STARTED"
    BY <2>1, <2>2 DEF Alone!TransactionOnTheLink
  <2>5. eState = "STARTED" => Eeprom!Accessed \in Eeprom!Cell
    <3> SUFFICES ASSUME eState = "STARTED" PROVE Eeprom!Accessed \in Eeprom!Cell
      OBVIOUS
    <3> DEFINE base == IF Len(header) = 2 THEN 256 * header[1] + header[2] ELSE 0
    <3>1. opAddress = base /\ opAddress \in Nat /\ moved \in Nat /\ opCounter = moved % CounterModulus
      BY <2>2, <2>3 DEF Alone!OperationFollowsTheHeader, Alone!EepromTypeOK
    <3>2. opCounter \in 0 .. moved
      BY <3>1, CounterNotAhead, BusEeprom
    <3>3. moved + base \in 0 .. 4095
      <4>1. Eeprom!Target \in Eeprom!Cell
        BY <1>1, <2>3 DEF FollowsProtocols
      <4> QED
        BY <4>1, Zenon DEF Eeprom!Target, Eeprom!Cell
    <3> HIDE DEF base
    <3>4. /\ opAddress = base /\ base \in Nat /\ moved \in Nat /\ opCounter \in Nat
          /\ opCounter <= moved /\ moved + base <= 4095
      BY <3>1, <3>2, <3>3
    <3>5. opAddress + opCounter \in 0 .. 4095
      BY <3>4
    <3> QED
      BY <3>5 DEF Eeprom!Accessed, Eeprom!Cell
  <2>6. Eeprom!EepromOnWrite(m) \/ Eeprom!EepromOnRead(m)
    BY <1>1 DEF Eeprom!EepromHandleMessage, Eeprom!HandleAnyI2cMessage, Eeprom!MatchesI2cAddress,
      Eeprom!EepromHandleI2CMessage, Eeprom!EepromOnStart, Eeprom!EepromOnStop
  <2> QED
    BY <2>4, <2>5, <2>6 DEF Eeprom!EepromOnWrite, Eeprom!EepromOnRead, Eeprom!StoreByte,
      Eeprom!TakeAddressByte
<1>2. CASE ~(m.dev = Eeprom!EepromAddress /\ m.cond \in {"READ", "WRITE"})
  BY <1>2 DEF Eeprom!EepromHandleMessage, Eeprom!HandleAnyI2cMessage, Eeprom!MatchesI2cAddress,
    Eeprom!EepromHandleI2CMessage, Eeprom!EepromOnStart, Eeprom!EepromOnStop, Eeprom!EepromOnWrite,
    Eeprom!EepromOnRead, Eeprom!EepromReset, Eeprom!EepromIgnore
<1> QED
  BY <1>1, <1>2

LEMMA ProtocolInvInit == BusInit => ProtocolInv
<1> SUFFICES ASSUME BusInit PROVE ProtocolInv
  OBVIOUS
<1>1. BusTypeOK
  BY DEF BusInit, BusTypeOK, LinkType, Free, Direction
<1>2. /\ link.dev = NoDevice /\ I2C_ADDRESS # NoDevice /\ TlcAddress # NoDevice
      /\ 0 \in Keypad!Register /\ 0 \in LedDriver!TlcRegister
  BY BusKeypad, BusLedDriver DEF BusInit, Free, NoDevice, Keypad!Register, Keypad!LastRegister,
    LedDriver!TlcRegister, LedDriver!LastTlcRegister
<1> QED
  BY <1>1, <1>2 DEF BusInit, Keypad!Init, LedDriver!TlcInit, Eeprom!EepromInit, ProtocolInv,
    KeypadProtocol, LedProtocol, NoDeviceCrashed

LEMMA ProtocolInvStep ==
  ProtocolInv /\ BusTypeOK' /\ Alone!LedsAreDrawable /\ Alone!EepromIInv /\ [BusNext]_busVars
    => ProtocolInv'
<1> SUFFICES ASSUME ProtocolInv, BusTypeOK', Alone!LedsAreDrawable, Alone!EepromIInv,
                    [BusNext]_busVars
             PROVE  ProtocolInv'
  OBVIOUS
<1>1. CASE BusMessage
  <2>1. PICK m \in Offered : Firmware(m) /\ Emit(m) /\ CountWritten(m) /\ Dispatch(m)
    BY <1>1 DEF BusMessage
  <2>2. KeypadProtocol' /\ ~crashed'
    BY <2>1, KeypadSafe DEF Firmware, Dispatch
  <2>3. LedProtocol' /\ ~tlcCrashed'
    BY <2>1, LedDriverSafe DEF Firmware, Dispatch
  <2>4. ~eCrashed'
    BY <2>1, EepromSafe DEF Firmware, Dispatch, ProtocolInv, NoDeviceCrashed
  <2> QED
    BY <2>2, <2>3, <2>4 DEF ProtocolInv, NoDeviceCrashed
<1>2. CASE KeypadStep
  <2>1. UNCHANGED <<link, written, state, selected, crashed, tlcState, tlcSelected, tlcCrashed, eCrashed>>
    BY <1>2 DEF KeypadStep, ledVars, eepromVars, Keypad!HostStep, Keypad!TimerStep,
      Keypad!AddKeyEvent, Keypad!AddKeyPressAndRelease, Keypad!ReleaseTimerFires, Keypad!protocol
  <2> QED
    BY <2>1 DEF ProtocolInv, NoDeviceCrashed, KeypadProtocol, LedProtocol
<1>3. CASE LedStep
  <2>1. UNCHANGED <<link, written, state, selected, crashed, tlcState, tlcSelected, eCrashed>>
    BY <1>3 DEF LedStep, keypadVars, eepromVars, LedDriver!GetCurrentState, LedDriver!tlcProtocol
  <2>2. \A led \in LedDriver!Leds : LedDriver!LedState(tlcRegisters, led) # 3
    BY Zenon DEF Alone!LedsAreDrawable, LedDriver!Leds, Alone!Leds, LedDriver!LedState,
      Alone!LedState, LedDriver!LedField, Alone!LedField, LedDriver!LEDOUT0, Alone!LEDOUT0
  <2>3. ~tlcCrashed'
    BY <1>3, <2>2 DEF LedStep, LedDriver!GetCurrentState
  <2> QED
    BY <2>1, <2>3 DEF ProtocolInv, NoDeviceCrashed, KeypadProtocol, LedProtocol
<1>4. CASE UNCHANGED busVars
  BY <1>4 DEF busVars, keypadVars, ledVars, eepromVars, ProtocolInv, NoDeviceCrashed,
    KeypadProtocol, LedProtocol
<1> QED
  BY <1>1, <1>2, <1>3, <1>4 DEF BusNext

\* Firmware that follows the protocols never brings the simulator down, on any
\* set of addresses, straps and bytes (sim_tca8418.cpp, sim_tlc59116.cpp and
\* sim_47l04.cpp: std::abort and the bounds checks of at()).
THEOREM NoCrashCorrect == BusSpec => []ProtocolsNeverCrash
<1>1. Alone!TlcSpec => []Alone!LedsAreDrawable
  BY Alone!AlwaysDrawable, AloneAssumptions, Zenon
<1>2. Alone!EepromSpec => []Alone!EepromIInv
  BY Alone!EepromInvariant, AloneAssumptions, Zenon
<1>3. ProtocolInv => ProtocolsNeverCrash
  BY DEF ProtocolInv, ProtocolsNeverCrash
<1> QED
  BY <1>1, <1>2, <1>3, LedDriverOnTheBus, EepromOnTheBus, BusTypeCorrect, ProtocolInvInit,
     ProtocolInvStep, PTL DEF BusSpec

\* The keypad does on the bus only what its own specification allows, so its
\* interrupt line, its timers and its FIFO keep what is proved of them
\* (sim_i2c_base.cpp:66-83).
THEOREM KeypadOnTheBus == BusSpec => Keypad!KeypadInit /\ [][Keypad!Next]_(Keypad!vars)
<1>1. BusInit => Keypad!KeypadInit
  BY DEF BusInit, Keypad!KeypadInit, Keypad!LinkInit, Keypad!Free, Free, Keypad!NoDevice, NoDevice
<1>2. [BusNext]_busVars => [Keypad!Next]_(Keypad!vars)
  <2>1. SUFFICES ASSUME BusNext \/ UNCHANGED busVars
                 PROVE Keypad!Next \/ UNCHANGED Keypad!vars
    OBVIOUS
  <2>2. CASE BusNext /\ BusMessage
    <3>1. PICK m \in Offered : Firmware(m) /\ Emit(m) /\ Dispatch(m)
      BY <2>2 DEF BusMessage
    <3>2. m \in Keypad!Offered /\ Keypad!Emit(m)
      BY <3>1 DEF Offered, Keypad!Offered, Starts, Keypad!Starts, Transfers, Keypad!Transfers, Emit,
        Keypad!Emit, Free, Keypad!Free, NoDevice, Keypad!NoDevice, Direction, Keypad!Direction
    <3>3. Keypad!BusStep
      BY <3>1, <3>2 DEF Firmware, Dispatch, Keypad!BusStep
    <3> QED
      BY <2>2, <3>3 DEF BusNext, NoDeviceCrashed, Keypad!Next
  <2>3. CASE BusNext /\ KeypadStep
    BY <2>3 DEF KeypadStep, BusNext, NoDeviceCrashed, Keypad!Next
  <2>4. CASE LedStep \/ UNCHANGED busVars
    BY <2>4 DEF LedStep, LedDriver!GetCurrentState, busVars, keypadVars, Keypad!vars, Keypad!tcaVars
  <2> QED
    BY <2>1, <2>2, <2>3, <2>4 DEF BusNext
<1> QED
  BY <1>1, <1>2, PTL DEF BusSpec
=============================================================================
