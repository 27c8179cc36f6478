------------------------------ MODULE MCI2cBus ------------------------------
(* A small instance of I2cBus for TLC: one key, a burst of two, two cells. *)
EXTENDS I2cBus

\* Keypad, LED driver, EEPROM with strap A1, display.
AllDevices == {104, 96, 82, 80}

\* Auto-increment and interrupts on, and the interrupt acknowledged.
KeypadRegisters == {1, 4}
KeypadWrites == {<<1, 129>>, <<2, 1>>}

\* A burst from the last PWM register into LEDOUT0.
LedControls == {128 + 19}
LedPwm == {255}
LedOut == {170}

\* The last two cells of the array.
LastPage == {15}
LastCells == {254}
OneByte == {7}
Garbage == {99}

BusBytes == KeypadRegisters \cup {129} \cup LedControls \cup LedPwm \cup LedOut
            \cup LastPage \cup LastCells \cup OneByte
=============================================================================
