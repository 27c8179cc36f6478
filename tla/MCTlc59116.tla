----------------------------- MODULE MCTlc59116 -----------------------------
(* Small instances of Tlc59116 for TLC.                                    *)
EXTENDS Tlc59116

\* The driver at 0x60, and one address nobody answers.
TlcAndAnother == {TlcAddress, 80}

\* Auto-increment from the last PWM register before LEDOUT0, from LEDOUT3
\* and from the end of the ring; no increment at LEDOUT0 and past the array.
Controls == {32 + 18, 128 + 23, 128 + 26, 20, 31}

\* LEDOUT registers get "all off" or "all PWM", every other register 0xFF.
LedOut == {0, 170}
Pwm == {255}
TlcData == Controls \cup LedOut \cup Pwm
=============================================================================
