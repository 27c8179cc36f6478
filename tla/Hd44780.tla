------------------------------- MODULE Hd44780 -------------------------------
(***************************************************************************)
(* The HD44780 text display: pins driven by the AVR, a strobe on E that is *)
(* handled one cycle later, nibbles put together to bytes, commands that   *)
(* move the cursor and configure the display, and the busy flag with its   *)
(* timer.  Flags nothing in the part reads (font, cursor shape, blinking,  *)
(* shift direction, dirty) are left out.                                   *)
(***************************************************************************)
EXTENDS Integers

CONSTANTS
  Wirings,     \* ways the display may be wired: "all", "pins"
  Reads,       \* whether the firmware uses the RW pin
  Nibbles,     \* what the firmware puts on D4-D7 for a command
  CharNibbles, \* what it puts there for a character
  LowNibbles,  \* what it puts on D0-D3; {0} where they are not connected
  MaxStrobes   \* bound: strobes handled

ASSUME LcdWiring == Wirings \subseteq {"all", "pins"} /\ Reads \in BOOLEAN
ASSUME LcdNibbles == Nibbles \cup CharNibbles \cup LowNibbles \subseteq 0 .. 15
ASSUME LcdMaxStrobes == MaxStrobes \in Nat

VARIABLES
  wiring,     \* "all": the AVR's port raises IRQ_HD44780_ALL; "pins": one IRQ per pin
  port,       \* what the AVR drives: RS, RW, E, D4-D7, D0-D3
  pinstate,   \* the display's copy of its pins
  strobed,    \* the timer of _hd44780_process_e_pinchange is registered
  busyTimer,  \* the timer of _hd44780_busy_timer is registered
  busy,       \* HD44780_FLAG_BUSY
  lowNibble,  \* HD44780_FLAG_LOWNIBBLE
  flags,      \* HD44780_FLAG_D_L, _N, _I_D and _S_C
  datapins, readpins, cursor, vram,
  strobes,    \* history: strobes handled
  progress    \* history: how much of the reset sequence 3, 3, 3, 2 was received

memory == <<flags, cursor, vram>>
timers == <<busyTimer, busy>>
lcdVars == <<wiring, port, pinstate, strobed, timers, lowNibble, memory, datapins, readpins,
             strobes, progress>>

Byte == 0 .. 255
Pins == [rs : BOOLEAN, rw : BOOLEAN, e : BOOLEAN, high : 0 .. 15, low : 0 .. 15]
Text == 0 .. 127
Glyphs == 128 .. 191
Vram == Text \cup Glyphs

\* The invariant says more than the types: the cursor, an index into vram,
\* never reaches past the screen in text memory nor past the glyphs.
LcdTypeOK ==
  /\ wiring \in Wirings
  /\ port \in Pins /\ pinstate \in Pins
  /\ strobed \in BOOLEAN /\ busyTimer \in BOOLEAN /\ busy \in BOOLEAN /\ lowNibble \in BOOLEAN
  /\ flags \in [dl : BOOLEAN, n : BOOLEAN, id : BOOLEAN, sc : BOOLEAN]
  /\ datapins \in Byte /\ readpins \in Byte
  /\ cursor \in (0 .. 103) \cup Glyphs
  /\ vram \in [Vram -> Byte]
  /\ strobes \in Nat /\ progress \in 0 .. 4

Idle == [rs |-> FALSE, rw |-> FALSE, e |-> FALSE, high |-> 0, low |-> 0]

LcdInit ==
  /\ wiring \in Wirings
  /\ port = Idle /\ pinstate = Idle
  /\ strobed = FALSE /\ busyTimer = FALSE /\ busy = FALSE /\ lowNibble = FALSE
  /\ flags = [dl |-> FALSE, n |-> FALSE, id |-> TRUE, sc |-> FALSE]
  /\ datapins = 0 /\ readpins = 0
  /\ cursor = 0
  /\ vram = [c \in Vram |-> IF c \in Text THEN 32 ELSE 0]
  /\ strobes = 0 /\ progress = 0

-----------------------------------------------------------------------------
(* The pins                                                                *)

\* Handling IRQ_HD44780_ALL passes the upper pins on unmasked, so that RW
\* also sets D0 for good.
WithLowestSet(nibble) == IF nibble % 2 = 0 THEN nibble + 1 ELSE nibble

\* The display's copy after the AVR's port changes to v.  Port interrupts
\* are filtered: pins the AVR does not change raise nothing.
PinChangedHook(v) ==
  IF wiring = "all"
  THEN [v EXCEPT !.low = IF v.rw THEN WithLowestSet(pinstate.low) ELSE pinstate.low]
  ELSE [p \in DOMAIN v |-> IF v[p] # port[p] THEN v[p] ELSE pinstate[p]]

\* Whether E rises in the display's copy; with IRQ_HD44780_ALL it is RW that
\* sets E for a moment, before the AVR's E is taken over.
RisingEdge(v) ==
  /\ ~pinstate.e
  /\ IF wiring = "all" THEN v.e \/ v.rw ELSE v.e /\ ~port.e

\* What the firmware writes to its port: the pins of a strobe, or the pins
\* between strobes, with the data pins low.
UsedRW == IF Reads THEN BOOLEAN ELSE {FALSE}
Strobe ==
  [rs : {FALSE}, rw : UsedRW, e : {TRUE}, high : Nibbles, low : LowNibbles]
  \cup [rs : {TRUE}, rw : UsedRW, e : {TRUE}, high : CharNibbles, low : LowNibbles]
Rest == [rs : UsedRW, rw : UsedRW, e : {FALSE}, high : {0}, low : {0}]

\* The strobe is handled one cycle later: before the next instruction.
AvrWritesPort ==
  /\ ~strobed /\ strobes < MaxStrobes
  /\ \E v \in IF port.e THEN Rest ELSE (Rest \ {port}) \cup Strobe :
       /\ port' = v
       /\ pinstate' = PinChangedHook(v)
       /\ strobed' = RisingEdge(v)
  /\ UNCHANGED <<timers, lowNibble, memory, datapins, readpins, strobes, progress>>

-----------------------------------------------------------------------------
(* The cursor                                                              *)

\* Cells the screen does not have are replaced by a line's first.
OnScreen(c) ==
  CASE flags.n /\ c \in 40 .. 63 -> 64
    [] flags.n /\ c >= 104 -> 0
    [] ~flags.n /\ c >= 80 -> 0
    [] OTHER -> c

\* Mutant: no way back from the end of the glyphs.
MutantIncremented(c) == IF c < 128 THEN OnScreen(c + 1) ELSE c + 1

Incremented(c) ==
  CASE c < 128 -> OnScreen(c + 1)
    [] c = 191 -> 128
    [] OTHER -> c + 1

\* Mutant: walks off the start of the second line.
MutantDecremented(c) ==
  CASE c = 0 -> IF flags.n THEN 103 ELSE 79
    [] c = 128 -> 191
    [] OTHER -> c - 1

Decremented(c) ==
  CASE c = 0 -> IF flags.n THEN 103 ELSE 79
    [] c = 64 /\ flags.n -> 39
    [] c = 128 -> 191
    [] OTHER -> c - 1

KickCursor(c) == IF flags.id THEN Incremented(c) ELSE Decremented(c)

-----------------------------------------------------------------------------
(* Bytes                                                                   *)

\* b & mask, for a mask of one bit
Bit(b, mask) == (b \div mask) % 2 = 1

\* Mutant: four bits while D_L is set.
MutantFour == flags.dl

Four == ~flags.dl

WriteData(b) ==
  /\ vram' = [vram EXCEPT ![cursor] = b]
  /\ cursor' = IF flags.sc THEN cursor ELSE KickCursor(cursor)
  /\ UNCHANGED flags

ClearScreen ==
  /\ vram' = [c \in Vram |-> IF c \in Text THEN 32 ELSE vram[c]]
  /\ cursor' = 0
  /\ flags' = [flags EXCEPT !.id = TRUE]

\* The highest bit set tells the command; display on/off (8 .. 15) sets
\* flags that are left out.
WriteCommand(b) ==
  \/ /\ b >= 128
     /\ cursor' = OnScreen(b - 128)
     /\ UNCHANGED <<flags, vram>>
  \/ /\ b \in 64 .. 127
     /\ cursor' = 128 + (b - 64)
     /\ UNCHANGED <<flags, vram>>
  \/ /\ b \in 32 .. 63
     /\ flags' = [flags EXCEPT !.dl = Bit(b, 16), !.n = Bit(b, 8)]
     /\ UNCHANGED <<cursor, vram>>
  \/ /\ b \in 16 .. 31
     /\ flags' = [flags EXCEPT !.sc = Bit(b, 8)]
     /\ UNCHANGED <<cursor, vram>>
  \/ /\ b \in 8 .. 15
     /\ UNCHANGED memory
  \/ /\ b \in 4 .. 7
     /\ flags' = [flags EXCEPT !.id = Bit(b, 2)]
     /\ UNCHANGED <<cursor, vram>>
  \/ /\ b \in 2 .. 3
     /\ cursor' = 0
     /\ UNCHANGED <<flags, vram>>
  \/ /\ b \in 0 .. 1
     /\ ClearScreen

\* A delay re-registers the busy timer.
BecomeBusy == busy' = TRUE /\ busyTimer' = TRUE

-----------------------------------------------------------------------------
(* The strobe                                                              *)

Assembled ==
  CASE ~Four -> 16 * pinstate.high + pinstate.low
    [] Four /\ lowNibble -> 16 * (datapins \div 16) + pinstate.high
    [] OTHER -> 16 * pinstate.high + (datapins % 16)

\* The interface is switched to four bits at the first half of a byte.
NibbleAfterByte == IF Four THEN FALSE ELSE lowNibble /\ flags'.dl

ProcessWrite ==
  /\ datapins' = Assembled
  /\ UNCHANGED <<readpins, pinstate>>
  /\ \/ /\ Four /\ ~lowNibble
        /\ lowNibble' = TRUE
        /\ UNCHANGED <<memory, timers>>
     \/ /\ ~Four \/ lowNibble
        /\ IF pinstate.rs THEN WriteData(Assembled) ELSE WriteCommand(Assembled)
        /\ lowNibble' = NibbleAfterByte
        /\ BecomeBusy

\* Driving the read pins raises IRQ_HD44780_ALL, whose own hook then clears
\* RS, E and RW in the display's copy.
ReadPinsDriven == pinstate' = [pinstate EXCEPT !.rs = FALSE, !.e = FALSE, !.rw = FALSE]

SecondHalf ==
  /\ Four /\ lowNibble
  /\ readpins' = (readpins * 16) % 256
  /\ lowNibble' = FALSE
  /\ UNCHANGED <<memory, timers>>

ReadData ==
  /\ pinstate.rs
  /\ readpins' = vram[cursor]
  /\ cursor' = KickCursor(cursor)
  /\ UNCHANGED <<flags, vram>>
  /\ BecomeBusy

\* Mutant: the busy timer is left running.
MutantReadStatus ==
  /\ ~pinstate.rs
  /\ readpins' = (IF cursor < 128 THEN cursor ELSE cursor - 128) + (IF busy THEN 128 ELSE 0)
  /\ busy' = FALSE
  /\ UNCHANGED <<busyTimer, memory>>

ReadStatus ==
  /\ ~pinstate.rs
  /\ readpins' = (IF cursor < 128 THEN cursor ELSE cursor - 128) + (IF busy THEN 128 ELSE 0)
  /\ busy' = FALSE /\ busyTimer' = FALSE
  /\ UNCHANGED memory

ProcessRead ==
  /\ ReadPinsDriven
  /\ UNCHANGED datapins
  /\ \/ SecondHalf
     \/ /\ ~(Four /\ lowNibble)
        /\ ReadData \/ ReadStatus
        /\ lowNibble' = (Four \/ lowNibble)

\* History: the part of 3, 3, 3, 2 that the last command strobes make up.
Progress ==
  IF pinstate.rw \/ pinstate.rs THEN 0
  ELSE CASE pinstate.high = 3 -> IF progress \in 0 .. 2 THEN progress + 1
                                 ELSE IF progress = 3 THEN 3 ELSE 1
         [] pinstate.high = 2 /\ progress = 3 -> 4
         [] OTHER -> 0

ProcessEPinchange ==
  /\ strobed /\ strobed' = FALSE
  /\ IF pinstate.rw THEN ProcessRead ELSE ProcessWrite
  /\ strobes' = strobes + 1
  /\ progress' = Progress
  /\ UNCHANGED port

BusyTimer ==
  /\ busyTimer
  /\ busyTimer' = FALSE
  /\ busy' = FALSE
  /\ UNCHANGED <<port, pinstate, strobed, lowNibble, memory, datapins, readpins,
                 strobes, progress>>

LcdNext ==
  /\ UNCHANGED wiring
  /\ AvrWritesPort \/ ProcessEPinchange \/ BusyTimer

LcdSpec == LcdInit /\ [][LcdNext]_lcdVars

-----------------------------------------------------------------------------
(* Properties                                                              *)

\* The display is busy exactly as long as the timer that ends it is
\* registered, whichever of timer, status read and next byte comes first
\* (hd44780.cpp:280-288, 328-332): it can neither stay busy for good nor
\* have an old timer cut a later command short.
BusyWhileTimerRuns == busy <=> busyTimer

\* However the interface was left, eight bits wide or four, in the middle
\* of a byte or between two, the nibbles 3, 3, 3, 2 as commands put it into
\* four-bit mode at the start of a byte (hd44780.cpp:176-187, 232-243).
ResetSequenceSynchronises == progress = 4 => Four /\ ~lowNibble

\* Through nibbles, strobes and spurious reads, the memory and the cursor
\* are those of a display that takes whole bytes (hd44780.cpp:72-221).
Bytes == INSTANCE DisplayMemory
           WITH memory <- vram, lines <- IF flags.n THEN 2 ELSE 1, forward <- flags.id
RefinesDisplayMemory == Bytes!Spec
=============================================================================
