---------------------------- MODULE SimGu7000I2C ----------------------------
(***************************************************************************)
(* SimGu7000I2C, the display's I2C side, with its base class               *)
(* SimAvrI2CSmarterComponent: bytes are buffered until STOP and then fed   *)
(* to the display's command interpreter; a millisecond tick and            *)
(* CleanScreen let a front end wait until the commands have settled.       *)
(* The interpreter's state is a function of the bytes fed to it, so here   *)
(* it is that sequence of bytes.                                           *)
(***************************************************************************)
EXTENDS SimI2cBase, Sequences

CONSTANTS
  MaxSent,          \* bound: bytes the firmware sends to the display
  MaxMilliseconds  \* bound: ticks in a behaviour

ASSUME Gu7000Bounds == MaxSent \in Nat /\ MaxMilliseconds \in Nat

Gu7000Address == 80

VARIABLES
  dataBuffer,  \* DataBuffer_
  screen,      \* screen_: the bytes ProcessCommand was called with
  screenDirty, \* screen_dirty_
  debounceMs,  \* last_command_debounce_ms_
  gReply,      \* raised on the bus while handling the last message
  sent,        \* history: bytes written to the display
  sinceCommand,    \* history: ticks since data was last delivered
  settled,     \* history: length of screen when CleanScreen was last called
  milliseconds \* ticks so far, for MaxMilliseconds only

device == <<dataBuffer, screen, screenDirty, debounceMs>>
gHistory == <<sent, sinceCommand, settled, milliseconds>>
gVars == <<device, gReply, gHistory>>

Gu7000I2CInit ==
  /\ dataBuffer = <<>>
  /\ screen = <<>>
  /\ screenDirty = FALSE
  /\ debounceMs = 0
  /\ gReply = Silent
  /\ sent = <<>>
  /\ sinceCommand = 0
  /\ settled = 0
  /\ milliseconds = 0

-----------------------------------------------------------------------------
(* I2C messages                                                            *)

GOnStart(m) ==
  /\ m.cond = "START"
  /\ gReply' = Ack
  /\ UNCHANGED <<device, gHistory>>

\* Mutant: the screen is marked dirty by the first tick, not by the data.
MutantMarkDirty ==
  /\ debounceMs' = 0
  /\ UNCHANGED screenDirty
  /\ screen' = screen \o dataBuffer

\* An empty transaction marks the screen dirty too.
OnDataReceived ==
  /\ debounceMs' = 0
  /\ screenDirty' = TRUE
  /\ screen' = screen \o dataBuffer

\* Mutant: the buffer is not cleared.
MutantGOnStop(m) ==
  /\ m.cond = "STOP"
  /\ OnDataReceived
  /\ gReply' = Ack
  /\ sinceCommand' = 0
  /\ UNCHANGED <<dataBuffer, sent, settled, milliseconds>>

GOnStop(m) ==
  /\ m.cond = "STOP"
  /\ OnDataReceived
  /\ gReply' = Ack
  /\ dataBuffer' = <<>>
  /\ sinceCommand' = 0
  /\ UNCHANGED <<sent, settled, milliseconds>>

GOnWrite(m) ==
  /\ m.cond = "WRITE"
  /\ dataBuffer' = Append(dataBuffer, m.data)
  /\ gReply' = Ack
  /\ sent' = Append(sent, m.data)
  /\ UNCHANGED <<screen, screenDirty, debounceMs, sinceCommand, settled, milliseconds>>

\* No ack and no data
GOnRead(m) ==
  /\ m.cond = "READ"
  /\ gReply' = Silent
  /\ UNCHANGED <<device, gHistory>>

\* ResetStateMachine is not overridden: the base class does nothing.
GIgnore == gReply' = Silent /\ UNCHANGED <<device, gHistory>>

GHandleI2CMessage(m) == GOnStart(m) \/ GOnStop(m) \/ GOnWrite(m) \/ GOnRead(m)

GHandleMessage(m) ==
  IF HandleAnyI2cMessage(m, Gu7000Address) = "handled" THEN GHandleI2CMessage(m) ELSE GIgnore

-----------------------------------------------------------------------------
(* The front end                                                           *)

OnMillisecondPassed ==
  /\ milliseconds < MaxMilliseconds
  /\ debounceMs' = IF screenDirty THEN debounceMs + 1 ELSE debounceMs
  /\ sinceCommand' = sinceCommand + 1
  /\ milliseconds' = milliseconds + 1
  /\ UNCHANGED <<dataBuffer, screen, screenDirty, gReply, sent, settled>>

CleanScreen ==
  /\ screenDirty' = FALSE
  /\ settled' = Len(screen)
  /\ UNCHANGED <<dataBuffer, screen, debounceMs, gReply, sent, sinceCommand, milliseconds>>

-----------------------------------------------------------------------------
(* The specification                                                       *)

\* The firmware may start a transaction before it closes the last one.
GFirmwareSends(m) ==
  (m.cond = "WRITE" /\ m.dev = Gu7000Address) => Len(sent) < MaxSent

GBusStep == \E m \in Offered : GFirmwareSends(m) /\ Emit(m) /\ GHandleMessage(m)

GNext == GBusStep \/ ((OnMillisecondPassed \/ CleanScreen) /\ UNCHANGED link)

DisplayInit == Gu7000I2CInit /\ link = Free

GSpec == DisplayInit /\ [][GNext]_<<link, gVars>>

-----------------------------------------------------------------------------
(* Properties                                                              *)

(***************************************************************************)
(* Every byte the firmware writes reaches the interpreter once and in      *)
(* order, or waits in the buffer, wherever transactions start, repeat and  *)
(* end between the bytes.                                                  *)
(***************************************************************************)
EveryByteOnce == screen \o dataBuffer = sent

(***************************************************************************)
(* A front end that waits for a debounced dirty screen, draws it and       *)
(* cleans it misses nothing: while the screen is dirty the counter is the  *)
(* time since the last command, whatever CleanScreen did before, and once  *)
(* it is not nothing was fed to the interpreter since CleanScreen          *)
(* (sim_gu7000_i2c.cpp:9-25).                                              *)
(***************************************************************************)
DirtyUntilSettled ==
  IF screenDirty THEN debounceMs = sinceCommand ELSE settled = Len(screen)
=============================================================================
