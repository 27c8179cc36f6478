---------------------------- MODULE DisplayMemory ----------------------------
(***************************************************************************)
(* What a character display promises whoever sends it whole bytes: each    *)
(* character lands under the cursor, and the cursor runs along the lines   *)
(* of the screen, forwards or backwards, and around at their ends.  Glyphs *)
(* have a memory of their own, also a ring.  A cursor left off the screen  *)
(* by a change of the number of lines finds its way back.                  *)
(***************************************************************************)
EXTENDS Integers, FiniteSetsExt

VARIABLES memory, cursor, lines, forward

Text == 0 .. 127
Glyphs == 128 .. 191
Screen == IF lines = 2 THEN (0 .. 39) \cup (64 .. 103) ELSE 0 .. 79

Init ==
  /\ memory \in [Text \cup Glyphs -> {0, 32}]
  /\ cursor = 0
  /\ lines = 1
  /\ forward = TRUE

\* The next cell of a ring of cells.
After(c, ring) ==
  IF \E d \in ring : d > c THEN Min({d \in ring : d > c}) ELSE Min(ring)

\* The cell c follows in a ring of cells.
Before(c, ring) ==
  IF \E d \in ring : d < c THEN Max({d \in ring : d < c}) ELSE Max(ring)

\* Backwards from off the screen the cursor comes nearer to it.
Neighbours(c) ==
  IF c \in Glyphs THEN {IF forward THEN After(c, Glyphs) ELSE Before(c, Glyphs)}
  ELSE IF forward THEN {After(c, Screen)}
  ELSE IF c \in Screen THEN {Before(c, Screen)}
  ELSE Before(c, Screen) .. (c - 1)

Put ==
  /\ \E b \in 0 .. 255 : memory' = [memory EXCEPT ![cursor] = b]
  /\ cursor' \in Neighbours(cursor) \cup {cursor}
  /\ UNCHANGED <<lines, forward>>

Peek ==
  /\ cursor' \in Neighbours(cursor)
  /\ UNCHANGED <<memory, lines, forward>>

Move ==
  /\ cursor' \in Screen \cup Glyphs
  /\ UNCHANGED <<memory, lines, forward>>

Clear ==
  /\ memory' = [c \in Text \cup Glyphs |-> IF c \in Text THEN 32 ELSE memory[c]]
  /\ cursor' = 0
  /\ forward' = TRUE
  /\ UNCHANGED lines

Configure ==
  /\ \/ lines' \in {1, 2} /\ UNCHANGED forward
     \/ forward' \in BOOLEAN /\ UNCHANGED lines
  /\ UNCHANGED <<memory, cursor>>

Next == Put \/ Peek \/ Move \/ Clear \/ Configure

Spec == Init /\ [][Next]_<<memory, cursor, lines, forward>>
=============================================================================
