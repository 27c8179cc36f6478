-------------------------- MODULE MCSimI2cListener --------------------------
(* A small instance of the listener and its view for TLC.                   *)
EXTENDS I2cListenerView

TwoDevices == {80, 104}
TwoBytes == {1, 2}

\* A device that answers, and one that leaves the READ unanswered.
DataOrSilence == {Data(3), Data(4), Silent}
=============================================================================
