------------------------------ MODULE LogView ------------------------------
(***************************************************************************)
(* From UART bytes to lines on the screen: UartLineBufferLogger collects a *)
(* serial's bytes until a newline, LockedDequeue keeps the latest lines    *)
(* under a mutex, LogsRenderer walks them while it holds the mutex, and    *)
(* Scroller keeps the selected line.  Bytes and insertions belong to the   *)
(* simulation thread, the rest to the thread of the user interface.  The   *)
(* application joins them: it inserts every line it gets.                  *)
(***************************************************************************)
EXTENDS Integers, SequencesExt

CONSTANTS
  Serials,     \* serial numbers, each with a logger
  Bytes,       \* what the firmware may write
  Newline,     \* the byte that ends a line
  MaxLogs,     \* 250: the size the deque never keeps
  PageHeight,  \* box_.y_max - box_.y_min
  MaxBytes,    \* bound: bytes of a serial in a behaviour
  MaxRenders   \* bound: renderings in a behaviour

ASSUME LogAssumption ==
  /\ Newline \in Bytes
  /\ MaxLogs \in Nat \ {0} /\ PageHeight \in Nat
  /\ MaxBytes \in Nat /\ MaxRenders \in Nat

VARIABLES
  LineBuffer,   \* LineBuffer_ of every logger
  pendingLine,  \* a line on its way to Insert, or none, as a sequence
  Logs,         \* Logs_, newest first
  M,            \* M_: "free", or "ui" while ForEach walks the lines
  elements,     \* the lines pushed so far by the rendering, or the last one's
  size,         \* Scroller's size_
  selected,     \* Scroller's selected_
  renders,      \* history: renderings begun
  received,     \* history: the bytes of every serial
  inserted,     \* history: the lines that were inserted, oldest first
  seen          \* history: how many of them when the rendering took the mutex

logVars == <<LineBuffer, pendingLine, Logs, M, elements, size, selected,
             renders, received, inserted, seen>>
uiLogVars == <<M, elements, size, selected, renders, seen>>

Line == [serial : Serials, bytes : Seq(Bytes)]

LogTypeOK ==
  /\ LineBuffer \in [Serials -> Seq(Bytes \ {Newline})]
  /\ pendingLine \in Seq(Line) /\ Len(pendingLine) <= 1
  /\ Logs \in Seq(Line) /\ Len(Logs) < MaxLogs
  /\ M \in {"free", "ui"}
  /\ elements \in Seq(Line)
  /\ size \in Nat /\ selected \in Nat

LogInit ==
  /\ LineBuffer = [n \in Serials |-> <<>>]
  /\ pendingLine = <<>> /\ Logs = <<>> /\ M = "free"
  /\ elements = <<>> /\ size = 0 /\ selected = 0
  /\ renders = 0 /\ received = [n \in Serials |-> <<>>] /\ inserted = <<>> /\ seen = 0

-----------------------------------------------------------------------------
(* The simulation thread                                                   *)

\* Mutant: the buffer is not cleared.
MutantOnSerialByte(n, byte) ==
  LET buffer == Append(LineBuffer[n], byte)
  IN /\ LineBuffer' = [LineBuffer EXCEPT ![n] = buffer]
     /\ pendingLine' = IF byte = Newline THEN <<[serial |-> n, bytes |-> buffer]>> ELSE <<>>

OnSerialByte(n, byte) ==
  LET buffer == Append(LineBuffer[n], byte)
  IN IF byte = Newline
     THEN /\ LineBuffer' = [LineBuffer EXCEPT ![n] = <<>>]
          /\ pendingLine' = <<[serial |-> n, bytes |-> buffer]>>
     ELSE /\ LineBuffer' = [LineBuffer EXCEPT ![n] = buffer]
          /\ pendingLine' = <<>>

\* The firmware writes a byte to a UART.
UartByte(n, byte) ==
  /\ Len(received[n]) < MaxBytes
  /\ OnSerialByte(n, byte)
  /\ received' = [received EXCEPT ![n] = Append(@, byte)]
  /\ UNCHANGED <<Logs, inserted>> /\ UNCHANGED uiLogVars

\* Mutant: the mutex is not taken.
MutantCanLock(thread) == thread = "sim" \/ M = "free"

\* M_.lock(), for the thread that waits for it
CanLock(thread) == M = "free"

Kept(lines) == IF Len(lines) >= MaxLogs THEN Front(lines) ELSE lines

\* LockedDequeue::Insert, in one step: nobody reads Logs_ without the mutex.
Insert ==
  /\ pendingLine # <<>> /\ CanLock("sim")
  /\ Logs' = Kept(pendingLine \o Logs)
  /\ inserted' = inserted \o pendingLine
  /\ pendingLine' = <<>>
  /\ UNCHANGED <<LineBuffer, received>> /\ UNCHANGED uiLogVars

-----------------------------------------------------------------------------
(* The user interface                                                      *)

\* LockedDequeue::ForEach, called by the rendering
BeginForEach ==
  /\ M = "free" /\ renders < MaxRenders
  /\ CanLock("ui")
  /\ M' = "ui"
  /\ elements' = <<>>
  /\ renders' = renders + 1
  /\ seen' = Len(inserted)
  /\ UNCHANGED <<LineBuffer, pendingLine, Logs, size, selected, received, inserted>>

PushElement ==
  /\ M = "ui" /\ Len(elements) < Len(Logs)
  /\ elements' = Append(elements, Logs[Len(elements) + 1])
  /\ UNCHANGED <<LineBuffer, pendingLine, Logs, M, size, selected, renders, received, inserted, seen>>

\* Mutant: with no lines to show it returns before it unlocks.
MutantEndForEach ==
  /\ M = "ui" /\ Len(elements) = Len(Logs)
  /\ M' = IF elements = <<>> THEN "ui" ELSE "free"
  /\ size' = Len(elements)
  /\ UNCHANGED <<LineBuffer, pendingLine, Logs, elements, selected, renders, received, inserted, seen>>

\* The walk is over; Scroller::OnRender takes the height of what it rendered.
EndForEach ==
  /\ M = "ui" /\ Len(elements) = Len(Logs)
  /\ M' = "free"
  /\ size' = Len(elements)
  /\ UNCHANGED <<LineBuffer, pendingLine, Logs, elements, selected, renders, received, inserted, seen>>

\* Where an event would take the selection, and the others leave it.
Moved ==
  {selected - 1, selected + 1, selected + PageHeight, selected - PageHeight, 0, size, selected}

\* Mutant: the last line is one too far.
MutantClamped(line) == Max({0, Min({size, line})})

Clamped(line) == Max({0, Min({size - 1, line})})

\* Scroller::OnEvent, in the thread that renders
OnEvent ==
  /\ M = "free"
  /\ selected' \in {Clamped(line) : line \in Moved}
  /\ UNCHANGED <<LineBuffer, pendingLine, Logs, M, elements, size, renders, received, inserted, seen>>

Render == BeginForEach \/ PushElement \/ EndForEach

-----------------------------------------------------------------------------
(* Properties                                                              *)

\* What the deque should hold when n of the lines have been inserted.
Newest(lines, n) == [i \in 1 .. Min({n, MaxLogs - 1}) |-> lines[n + 1 - i]]

(***************************************************************************)
(* A rendering shows the newest lines as they were when it took the mutex, *)
(* newest first and none of them missing or doubled, whatever the          *)
(* simulation inserts meanwhile (locked_dequeue.hpp:9-24).                 *)
(***************************************************************************)
RenderingIsASnapshot ==
  /\ IsPrefix(elements, Newest(inserted, seen))
  /\ M = "free" => elements = Newest(inserted, seen)

\* The bytes of a serial can be cut, in order, into the lines of that serial
\* and a rest.
CutIntoLines(bytes, n, lines, rest) ==
  \E cut \in [0 .. Len(lines) -> 0 .. Len(bytes)] :
    /\ cut[0] = 0
    /\ \A i \in 1 .. Len(lines) :
         IF lines[i].serial = n
         THEN cut[i - 1] < cut[i] /\ lines[i].bytes = SubSeq(bytes, cut[i - 1] + 1, cut[i])
         ELSE cut[i] = cut[i - 1]
    /\ rest = SubSeq(bytes, cut[Len(lines)] + 1, Len(bytes))

EndsWithNewline(line) ==
  \A k \in 1 .. Len(line.bytes) : line.bytes[k] = Newline <=> k = Len(line.bytes)

(***************************************************************************)
(* Lines are whole: every byte of a serial is in one line of that serial   *)
(* or waits for its newline, in the order it was received, and a newline   *)
(* is the last byte of a line and in no other place                        *)
(* (uart_linebuffer_logger.cpp:8-22).                                      *)
(***************************************************************************)
LinesAreWhole ==
  LET lines == inserted \o pendingLine
  IN /\ \A n \in Serials : CutIntoLines(received[n], n, lines, LineBuffer[n])
     /\ \A i \in 1 .. Len(lines) : EndsWithNewline(lines[i])

\* The selected line is one of those last shown, also when lines came in
\* after that; only while there is none, line 0 is (scroller.cpp:54-61).
SelectedLineExists == selected < Max({1, size}) /\ size <= Len(Logs)
=============================================================================
