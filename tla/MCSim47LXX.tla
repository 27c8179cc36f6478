----------------------------- MODULE MCSim47LXX -----------------------------
(* Small instances of Sim47LXX for TLC.                                    *)
EXTENDS Sim47LXX

\* The EEPROM and one address nobody answers.
EepromAndAnother == {EepromAddress, 104}

\* Cells at 0x0000, on both sides of 0x0100, at 0x0F00, and the last one,
\* whose successor is out of range.
Highs == {0, 15}
Lows == {0, 255}
Stored == {7, 8}
SentBytes == Highs \cup Lows \cup Stored
Garbage == {99}
=============================================================================
