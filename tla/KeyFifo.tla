------------------------------- MODULE KeyFifo -------------------------------
(***************************************************************************)
(* What the keypad's event FIFO promises: key events come out in the order *)
(* they went in, each of them once, while no more than Depth are unread.   *)
(***************************************************************************)
EXTENDS Naturals, Sequences

CONSTANTS Event, Depth

VARIABLE queue

Init == queue = <<>>

Put(e) ==
  /\ Len(queue) < Depth
  /\ queue' = Append(queue, e)

Take ==
  /\ queue # <<>>
  /\ queue' = Tail(queue)

Next == Take \/ \E e \in Event : Put(e)

Spec == Init /\ [][Next]_queue
=============================================================================
