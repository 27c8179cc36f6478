------------------------------ MODULE MCTca8418 ------------------------------
(* Small instances of Tca8418 for TLC.                                     *)
EXTENDS Tca8418

\* The keypad at its own address, and one address nobody answers.
TwoAddresses == {I2C_ADDRESS, 80}

\* Interrupts and auto-increment on and off; INT_STAT acknowledged, and
\* written without effect; the pointer at both ends of the file and past it.
InterruptBytes == {0, 1, 2, 4, 45, 46, 47, 129}
InterruptRegisters == {1, 2, 4, 45, 46, 47}
InterruptWrites == {<<CFG, 0>>, <<CFG, 1>>, <<CFG, 129>>, <<46, 0>>, <<INT_STAT, 0>>, <<INT_STAT, 1>>}
=============================================================================
