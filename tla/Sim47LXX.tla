------------------------------ MODULE Sim47LXX ------------------------------
(***************************************************************************)
(* Sim47LXX, the 47L04 EEPROM: two address bytes after a START W, then     *)
(* data bytes; a repeated START R reads from the address just sent.  mode_ *)
(* is written and never read, and is left out; the five milliseconds slept *)
(* per message are left out.                                               *)
(***************************************************************************)
EXTENDS SimI2cBase, Sequences, TLC

CONSTANTS
  A2, A1,          \* address straps
  HighBytes, LowBytes,  \* address bytes the firmware sends
  StoredBytes,     \* data bytes the firmware sends
  Uninitialised,   \* what buffer_ holds before it is written: never set
  CounterModulus,  \* 256: operation_address_counter_ is a uint8_t
  MaxTransfer,     \* bound: data bytes in a transaction
  RepeatsStart,    \* whether the firmware addresses a new write without STOP
  AddressesReads   \* whether it sends an address before every read

ASSUME StrapsAssumption == A2 \in {0, 1} /\ A1 \in {0, 1}
ASSUME EepromFirmware ==
  /\ HighBytes \cup LowBytes \cup StoredBytes \cup Uninitialised \subseteq Byte
  /\ MaxTransfer \in Nat /\ CounterModulus \in Nat \ {0}
  /\ RepeatsStart \in BOOLEAN /\ AddressesReads \in BOOLEAN

\* MakeAddress: control code 0xA0 and the straps, without the direction bit
EepromAddress == 80 + 4 * A2 + 2 * A1

Cell == 0 .. 4095

VARIABLES
  eState,     \* state_
  opAddress,  \* operation_address_
  opCounter,  \* operation_address_counter_
  buffer,     \* buffer_: the cells written so far, the others are garbage
  eCrashed,   \* an uncaught std::out_of_range
  eReply,     \* raised on the bus while handling the last message
  header,     \* history: address bytes of this transaction
  moved       \* history: data bytes of this transaction

eProtocol == <<eState, opAddress, opCounter>>
eHistory == <<header, moved>>
eVars == <<eProtocol, buffer, eCrashed, eReply, eHistory>>

EepromInit ==
  /\ eState = "STOPPED"
  /\ opAddress = 0
  /\ opCounter = 0
  /\ buffer = <<>>
  /\ eCrashed = FALSE
  /\ eReply = Silent
  /\ header = <<>>
  /\ moved = 0

-----------------------------------------------------------------------------
(* I2C messages                                                            *)

OrBit(a, b, weight) ==
  IF (a \div weight) % 2 = 1 \/ (b \div weight) % 2 = 1 THEN weight ELSE 0

OrByte(a, b) ==
  OrBit(a, b, 1) + OrBit(a, b, 2) + OrBit(a, b, 4) + OrBit(a, b, 8)
  + OrBit(a, b, 16) + OrBit(a, b, 32) + OrBit(a, b, 64) + OrBit(a, b, 128)

\* a | b on sixteen bits
BitOr(a, b) == 256 * OrByte(a \div 256, b \div 256) + OrByte(a % 256, b % 256)

\* Nothing of the last operation is cleared: only STOP and another device's
\* START do that.
EepromOnStart(m) ==
  /\ m.cond = "START"
  /\ eState' = IF m.rw = "W" THEN "ADDRESSING_HIGH" ELSE "STARTED"
  /\ eReply' = Ack
  /\ UNCHANGED <<opAddress, opCounter, buffer, eCrashed>>

EepromReset ==
  /\ eState' = "STOPPED"
  /\ opAddress' = 0
  /\ opCounter' = 0
  /\ eReply' = Silent
  /\ UNCHANGED <<buffer, eCrashed>>

EepromOnStop(m) == m.cond = "STOP" /\ EepromReset

EepromCrash ==
  /\ eCrashed' = TRUE
  /\ UNCHANGED <<eProtocol, buffer>>

\* Where the next data byte goes; buffer_.at throws outside the array.
Accessed == opAddress + opCounter

\* Mutant: the counter is not advanced.
MutantStuckCounter == opCounter
NextCounter == (opCounter + 1) % CounterModulus

StoreByte(m) ==
  /\ eState = "STARTED" /\ Accessed \in Cell
  /\ buffer' = (Accessed :> m.data) @@ buffer
  /\ opCounter' = NextCounter
  /\ UNCHANGED <<eState, opAddress, eCrashed>>

\* Mutant: the low byte is shifted like the high byte.
MutantAddressWith(byte) ==
  IF eState \in {"ADDRESSING_HIGH", "ADDRESSING_LOW"} THEN BitOr(opAddress, byte * 256)
  ELSE opAddress

AddressWith(byte) ==
  CASE eState = "ADDRESSING_HIGH" -> BitOr(opAddress, byte * 256)
    [] eState = "ADDRESSING_LOW" -> BitOr(opAddress, byte)
    [] OTHER -> opAddress

TakeAddressByte(m) ==
  /\ eState # "STARTED"
  /\ opAddress' = AddressWith(m.data)
  /\ eState' = CASE eState = "ADDRESSING_HIGH" -> "ADDRESSING_LOW"
                 [] eState = "ADDRESSING_LOW" -> "STARTED"
                 [] OTHER -> eState
  /\ UNCHANGED <<opCounter, buffer, eCrashed>>

EepromOnWrite(m) ==
  /\ m.cond = "WRITE"
  /\ eReply' = Ack
  /\ \/ StoreByte(m)
     \/ TakeAddressByte(m)
     \/ eState = "STARTED" /\ Accessed \notin Cell /\ EepromCrash

\* In any state: a master that reads without having sent an address reads
\* from address 0.
EepromOnRead(m) ==
  /\ m.cond = "READ"
  /\ \/ /\ Accessed \in Cell
        /\ \E byte \in IF Accessed \in DOMAIN buffer THEN {buffer[Accessed]} ELSE Uninitialised :
             eReply' = Data(byte)
        /\ opCounter' = NextCounter
        /\ UNCHANGED <<eState, opAddress, buffer, eCrashed>>
     \/ /\ Accessed \notin Cell
        /\ eReply' = Silent
        /\ EepromCrash

EepromHandleI2CMessage(m) ==
  EepromOnStart(m) \/ EepromOnStop(m) \/ EepromOnWrite(m) \/ EepromOnRead(m)

EepromIgnore ==
  /\ eReply' = Silent
  /\ UNCHANGED <<eProtocol, buffer, eCrashed>>

EepromHandleMessage(m) ==
  CASE HandleAnyI2cMessage(m, EepromAddress) = "handled" -> EepromHandleI2CMessage(m)
    [] HandleAnyI2cMessage(m, EepromAddress) = "reset" -> EepromReset
    [] OTHER -> EepromIgnore

-----------------------------------------------------------------------------
(* The firmware and the specification                                      *)

\* What the firmware has sent so far: the address bytes of its transaction
\* with the EEPROM, and how many data bytes went either way since.
Record(m) ==
  \/ /\ m.dev = EepromAddress /\ m.cond = "WRITE" /\ Len(header) < 2
     /\ header' = Append(header, m.data)
     /\ UNCHANGED moved
  \/ /\ m.dev = EepromAddress
     /\ m.cond = "READ" \/ (m.cond = "WRITE" /\ Len(header) = 2)
     /\ moved' = moved + 1
     /\ UNCHANGED header
  \/ /\ m.dev = EepromAddress /\ m.cond = "START" /\ m.rw = "R"
     /\ UNCHANGED eHistory
  \/ /\ \/ m.dev = EepromAddress /\ (m.cond = "STOP" \/ (m.cond = "START" /\ m.rw = "W"))
        \/ m.dev # EepromAddress /\ m.cond = "START"
     /\ header' = <<>>
     /\ moved' = 0
  \/ /\ m.dev # EepromAddress /\ m.cond # "START"
     /\ UNCHANGED eHistory

\* The address the firmware means the next data byte to have.
Target == moved + (IF Len(header) = 2 THEN 256 * header[1] + header[2] ELSE 0)

\* The firmware sends both address bytes before it turns to reading, or none
\* if it reads without an address, and unless it RepeatsStart, closes a
\* transaction before it opens a write.
EepromFirmwareSends(m) ==
  m.dev = EepromAddress =>
    CASE m.cond = "WRITE" /\ Len(header) = 0 -> m.data \in HighBytes
      [] m.cond = "WRITE" /\ Len(header) = 1 -> m.data \in LowBytes
      [] m.cond = "WRITE" /\ Len(header) = 2 -> moved < MaxTransfer /\ m.data \in StoredBytes
      [] m.cond = "READ" -> moved < MaxTransfer
      [] m.cond = "START" /\ m.rw = "R" -> Len(header) = 2 \/ (header = <<>> /\ ~AddressesReads)
      [] m.cond = "START" /\ m.rw = "W" -> link.dev # EepromAddress \/ RepeatsStart
      [] OTHER -> TRUE

EepromNext ==
  /\ ~eCrashed
  /\ \E m \in Offered :
       /\ EepromFirmwareSends(m)
       /\ Emit(m)
       /\ Record(m)
       /\ EepromHandleMessage(m)

EepromFreeInit == EepromInit /\ link = Free

EepromSpec == EepromFreeInit /\ [][EepromNext]_<<link, eVars>>

-----------------------------------------------------------------------------
(* Properties                                                              *)

(***************************************************************************)
(* "The address of the current operation. This is only fully valid when    *)
(* state_ == STARTED" (sim_47l04.h:42): in STARTED the next byte goes      *)
(* where the firmware means it to go, for every legal order of addressing, *)
(* storing, turning round and being cut off by another device's START.     *)
(***************************************************************************)
AddressValidWhenStarted ==
  eState = "STARTED" /\ ~eCrashed /\ moved < CounterModulus => Accessed = Target

NoByte == -1
Memory == INSTANCE SerialMemory
            WITH Cells <- Cell, Values <- Byte, Blank <- Uninitialised, Nothing <- NoByte,
                 memory <- buffer, position <- Target,
                 output <- IF eReply.kind = "data" THEN eReply.data ELSE NoByte

(***************************************************************************)
(* The EEPROM is a memory: a byte read from an address is the byte last    *)
(* written to it, across transactions, repeated STARTs and the other       *)
(* devices' traffic, as long as no transfer is longer than the counter.    *)
(***************************************************************************)
RefinesSerialMemory == Memory!Spec
=============================================================================
