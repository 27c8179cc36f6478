----------------------------- MODULE TwiMaster -----------------------------
(***************************************************************************)
(* The AVR's TWI (I2C) master as the simulated devices see it: a stream of *)
(* avr_twi_msg_t raised on TWI_IRQ_OUTPUT, one per bus condition or byte.  *)
(* The master belongs to simavr, not to this repository, so it is modelled *)
(* from how the devices use its messages.                                  *)
(*                                                                         *)
(* An address byte is the pair (dev, rw): the 7-bit device address and the *)
(* read/write bit.  "The read/write flag is sent in the control byte, and  *)
(* sets the mode of the device for subsequent messages" (sim_47l04.h:37),  *)
(* so bytes go in the direction of the last START and carry its address.   *)
(***************************************************************************)
EXTENDS Integers

CONSTANTS
  Addresses,   \* 7-bit addresses the firmware talks to
  DataBytes    \* data bytes the firmware sends

Byte == 0 .. 255

ASSUME AddressesAssumption == Addresses \subseteq 0 .. 127
ASSUME DataBytesAssumption == DataBytes \subseteq Byte

NoDevice == -1
Direction == {"W", "R"}
Free == [dev |-> NoDevice, rw |-> "W"]

Message ==
  [cond : {"START", "WRITE", "READ", "STOP"},
   dev : 0 .. 127, rw : Direction, data : Byte]

\* What a device raises on TWI_IRQ_INPUT while it handles one message.
Silent == [kind |-> "none", data |-> 0]
Ack == [kind |-> "ack", data |-> 0]
Data(byte) == [kind |-> "data", data |-> byte]
Reply == [kind : {"none", "ack", "data"}, data : Byte]

VARIABLE
  link   \* address byte of the transaction in progress, or Free

LinkType == link \in [dev : Addresses \cup {NoDevice}, rw : Direction]

\* Devices are constructed at any moment of the firmware's run.
LinkInit == link \in {Free} \cup [dev : Addresses, rw : Direction]

Starts == [cond : {"START"}, dev : Addresses, rw : Direction, data : {0}]

\* Data bytes and STOP go to the device of the transaction in progress.
Transfers ==
  IF link = Free THEN {}
  ELSE [cond : {"STOP"}, dev : {link.dev}, rw : {link.rw}, data : {0}]
       \cup IF link.rw = "W"
            THEN [cond : {"WRITE"}, dev : {link.dev}, rw : {"W"}, data : DataBytes]
            ELSE [cond : {"READ"}, dev : {link.dev}, rw : {"R"}, data : {0}]

\* The messages the master may raise next; a START in a transaction is a
\* repeated START, to the same device or to another one.
Offered == Starts \cup Transfers

\* The master's own state after it has raised m.
Emit(m) ==
  link' = CASE m.cond = "START" -> [dev |-> m.dev, rw |-> m.rw]
            [] m.cond = "STOP" -> Free
            [] OTHER -> link
=============================================================================
