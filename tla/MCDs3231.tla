------------------------------ MODULE MCDs3231 ------------------------------
(* Small instances of Ds3231 for TLC.                                      *)
EXTENDS Ds3231

\* The clock and one address nobody answers.
ClockAndAnother == {DsAddress, 80}

\* The first register, the control register and the last one.
Named == {0, CONTROL, 63}

\* The time, and past the end.
Read == SECONDS .. YEAR \cup {63, 64}

\* The last second of a day or of an hour; month and year vary.
LastSecond ==
  {<<SECONDS, 89>>, <<MINUTES, 89>>, <<HOURS, 35>>, <<HOURS, 73>>, <<DAY, 7>>}
LastDays == {<<DATE, 48>>, <<DATE, 49>>}

\* The slowest wave, the oscillator stopped, and the fastest wave.
Controls == {<<CONTROL, c>> : c \in {0, 128, 24}}
PastTheLast == {<<63, 0>>, <<64, 0>>}

Settings ==
  LastSecond \cup LastDays \cup Controls \cup PastTheLast
  \cup {<<MONTH, m>> : m \in {4, 18}} \cup {<<YEAR, y>> : y \in {153}}

SentBytes == Named \cup {w[2] : w \in Settings}

\* February of a common and of a leap year
February ==
  LastSecond \cup {<<DATE, 40>>, <<DATE, 41>>, <<MONTH, 2>>, <<YEAR, 35>>, <<YEAR, 36>>}
FebruaryBytes == {0} \cup {w[2] : w \in February}
JustFirst == {0}
=============================================================================
