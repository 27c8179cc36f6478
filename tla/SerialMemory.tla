---------------------------- MODULE SerialMemory ----------------------------
(***************************************************************************)
(* What a serial memory promises: bytes are stored and fetched one after   *)
(* the other from the address last sought, and a fetch returns what was    *)
(* last stored there.                                                      *)
(***************************************************************************)
EXTENDS Naturals, TLC

CONSTANTS
  Cells,    \* addresses of the memory
  Values,   \* what can be stored
  Blank,    \* what a cell never stored to may hold
  Nothing   \* no byte was fetched

VARIABLES memory, position, output

Init ==
  /\ memory = <<>>
  /\ position = 0
  /\ output = Nothing

Seek ==
  /\ position' \in Nat
  /\ output' = Nothing
  /\ UNCHANGED memory

Store(v) ==
  /\ position \in Cells
  /\ memory' = (position :> v) @@ memory
  /\ position' = position + 1
  /\ output' = Nothing

Fetch ==
  /\ position \in Cells
  /\ output' \in IF position \in DOMAIN memory THEN {memory[position]} ELSE Blank
  /\ position' = position + 1
  /\ UNCHANGED memory

Next == Seek \/ Fetch \/ \E v \in Values : Store(v)

Spec == Init /\ [][Next]_<<memory, position, output>>
=============================================================================
