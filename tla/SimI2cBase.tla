----------------------------- MODULE SimI2cBase -----------------------------
(***************************************************************************)
(* SimAvrI2CComponent, the base class of the I2C devices: every message of *)
(* the master reaches every device (avr_connect_irq in the constructor);   *)
(* the base class matches the address and hands the message on.            *)
(***************************************************************************)
EXTENDS TwiMaster

\* Mutant: the two low address bits are masked out with the read/write bit.
MutantMatchesI2cAddress(m, address) == m.dev \div 4 = address \div 4

\* The read/write bit is not compared.
MatchesI2cAddress(m, address) == m.dev = address

\* Mutant: the START of another device is dropped like its other messages.
MutantHandleAnyI2cMessage(m, address) ==
  IF MatchesI2cAddress(m, address) THEN "handled" ELSE "dropped"

(***************************************************************************)
(* What becomes of a message: it is handled by the device it is for (a     *)
(* STOP after ResetStateMachine, which the device's reaction to STOP       *)
(* includes), resets the device if it is another one's START, and is       *)
(* dropped otherwise.                                                      *)
(***************************************************************************)
HandleAnyI2cMessage(m, address) ==
  CASE MatchesI2cAddress(m, address) -> "handled"
    [] ~MatchesI2cAddress(m, address) /\ m.cond = "START" -> "reset"
    [] OTHER -> "dropped"
=============================================================================
