--------------------------- MODULE MCSimGu7000I2C ---------------------------
(* Small instances of SimGu7000I2C for TLC.                                *)
EXTENDS SimGu7000I2C

\* The display and one address nobody answers.
DisplayAndAnother == {Gu7000Address, 104}

\* A printable character and a cursor command.
Characters == {65, 9}
=============================================================================
