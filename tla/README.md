# TLA+ models of simavr-toolbox

simavr-toolbox is a library of simulated peripherals for the simavr AVR
simulator and a few terminal-UI parts. The peripherals are callbacks: the AVR
core raises an IRQ (an I2C message, a pin change, a cycle timer) and the
peripheral changes its state and answers before the core goes on. What makes
them hard to test is not one call but long legal sequences of calls by several
parties: firmware, host program, timers and a front end.

Paths below are relative to the repository (`src/simavr-toolbox/...`).

## Inventory

| Component | State | Operations | Talks to | Hard part | Correct when |
|---|---|---|---|---|---|
| I2C base (`sim_i2c_base`) | address, callbacks | dispatch of every bus message, reset on another device's START | TWI IRQs of simavr | repeated STARTs that hop between devices | only the addressed device takes part |
| Keypad (`sim_tca8418`) | protocol state, register pointer, 47 registers, interrupt flag, pending presses | I2C handler, AddKey..., release timers | bus, interrupt pin, cycle timers | three actors change the same registers | FIFO keeps order, interrupt line tells the truth, every press is released |
| LED driver (`sim_tlc59116`) | protocol state, pointer, 30 registers | I2C handler, GetCurrentState | bus, front end | bursts that wrap, aborts in a getter | bytes land where the firmware means them |
| EEPROM (`sim_47l04`) | address, counter, 4096 cells | I2C handler | bus | address assembled over several messages | reads return what was written |
| Display front (`sim_i2c_smarter_base`, `sim_gu7000_i2c`) | byte buffer, dirty flag, debounce | I2C handler, tick, CleanScreen | bus, interpreter, front end | transactions without STOP | each byte reaches the interpreter once, in order |
| Listener (`sim_i2c_listener`) | message in progress, last 100 messages | both bus directions | bus, callback | answers seen before questions, late construction | transcript equals the traffic |
| Display interpreter (`sim_gu7000`) | parser, cursor, magnification, 112 by 16 dots | ProcessCommand, 31 commands | display front | prefixes, variable length, wrapping | in step with the firmware, text legible, cursor on the screen |
| Real-time clock (`ds3231_virt`) | nvram, pointer, calendar counters | TWI hook, xtal tick | bus, pins, timers | BCD carries, register pointer | the calendar advances by one second |
| Text display (`hd44780`) | cursor, flags, nibble latch, busy timer | pin hooks, timer | pins | spurious edges, lost nibbles, busy flag | busy iff timer pending, cursor in range |
| Bouncy switch (`sim_bouncy_switch`) | queue of shifts, bounce timer | Close, Open, ...ForMs, OnBounce | pin, cycle timer | re-registered timer, zero delays | every shift is completed |
| Shift-register display (`sim_tlp9202`) | latched byte | SPI byte, chip select | SPI | - | only selected bytes are latched |
| Timer helper (`timer`) | - | RegisterTimer | cycle timers | lifetime of the callback | callback alive when called |
| Simulation loop (`ftxui_simulated_avr`) | AVR state, closure queue | BlockingLoop, Post | UI thread | two threads, an end at any moment | posted closures run between cycles, and what they ask for happens |
| UART line buffer (`uart_linebuffer_logger`) | bytes of a line | OnSerialByte | loop, log | two serials in turn | lines are whole |
| Log and its view (`locked_dequeue`, `logs_renderer`, `scroller`) | latest lines, mutex, selected line | Insert, ForEach, OnEvent | both threads | insertion during a rendering | a rendering is a snapshot, the selection exists |
| Listener view (`i2c_listener_renderer`) | run-length list | OnI2cMessage, RenderI2CListener | listener, UI thread | no lock at all | the list stands for the messages received |

How they interact: all I2C devices and the listener hang on the same two TWI
IRQs. A message of the AVR is dispatched to every device in turn, and a device's
answer is raised from inside that dispatch. The host program calls devices
directly; cycle timers call back into the keypad, the switch, the clock and the
text display; the UI thread shares data with the simulation thread through
`Post`, the log deque (under a mutex) and the listener view (under none).

## Modules

| Module | Models |
|---|---|
| `TwiMaster` | The AVR's TWI master, external (simavr): which messages may come next. A byte goes in the direction of the last START and carries its address. |
| `SimI2cBase` | `HandleAnyI2cMessage`: match, reset on a foreign START, hand on. Shared by every device module. |
| `Tca8418` | The keypad: `HandleI2CMessage` split by bus condition (`OnStart`, `OnWrite`, `OnRead`, `OnStop`), `AddKeyEvent`, `AddKeyPressAndRelease`, `ReleaseTimerFires`. |
| `KeyFifo` | Abstract bounded FIFO; `Tca8418` implements it by reading the queue out of its registers. |
| `Tca8418Proofs` | Theorems about `Tca8418`. |
| `Tlc59116` | The LED driver and `GetCurrentState`. |
| `Sim47LXX` | The EEPROM. Only cells written so far are in `buffer`; an unwritten cell reads as any value of `Uninitialised`, because the array is never initialised. |
| `SerialMemory` | Abstract memory with a position; `Sim47LXX` implements it with the address *the firmware sent* as position. |
| `SimGu7000I2C` | The buffering base class and the display's I2C front. The interpreter is represented by the bytes it was fed. |
| `Hd44780` | The text display: its copy of the pins, the strobe timer, `_process_write`, `_process_read`, the commands, the memory and the busy timer. |
| `DisplayMemory` | Abstract display: a memory, a cursor that is a position, and one step per byte the firmware meant; `Hd44780` implements it. |
| `Hd44780Proofs` | Theorems about `Hd44780`. |
| `Ds3231` | The real-time clock: its TWI hook, register pointer, oscillator and square wave, `ClockTick` for every call of the crystal's timer. |
| `Ds3231Calendar` | How a second is added to the time registers, as operators on bytes. |
| `CivilTime` | The reference calendar the clock is compared with: days and seconds counted, no registers. |
| `Ds3231Proofs` | Theorems about `Ds3231` and `Ds3231Calendar`. |
| `I2cDeviceProofs` | Theorems about the other devices taken one at a time: `Tlc59116`, `Sim47LXX`, `SimGu7000I2C`, the listener and its view. |
| `I2cBusProofs` | Theorems about `I2cBus`, among them that it implements `TlcSpec`. |
| `TwiMasterProofs` | Lemmas about the master, used by the proofs of the devices. |
| `SimI2cListener` | The listener, its hooks in either order relative to the devices'. |
| `I2cListenerView` | The view on top of it: the callback extends the run-length list, a rendering walks it entry by entry in another thread. |
| `Gu7000` | The display's command interpreter: `ProcessCommand` by state of the parser, the command table, every command that changes cursor, magnification or dots, and how executing one may end (`Outcomes`). |
| `Gu7000Proofs` | Theorems about `Gu7000`. |
| `BouncySwitch` | The switch: a request queues level shifts, the timer's steps are `BounceOnce` and `SettleShift`. `SwitchSpec` is what the switch does by itself, under any use. |
| `LogView` | UART bytes to lines, the deque under its mutex, a rendering in three kinds of step, the scroller. |
| `FtxuiHost` | Simulation thread and interface thread: the loop, posted closures and its end, with `BouncySwitch` and `LogView` in it. |
| `FtxuiHostProofs` | Theorems about `FtxuiHost`, among them that it implements `SwitchSpec`. |
| `I2cBus` | Keypad, LED driver, EEPROM and display front on one bus; a message is one step in which all four handle it. |

Each device's variables carry the names of the class members (noted beside the
declaration), each action the name of the handler or of the branch it models.
`crashed` variables stand for `std::abort` and for the `std::out_of_range` that
`std::array::at` throws out of a C callback: nothing happens after it. `reply`
variables hold what the device raised on the bus for the last message. History
variables, which the code does not have, are marked `history`; they record what
the firmware sent, so that properties can compare it with what the device made
of it. The `Mutant...` operators are wrong versions of the definitions that
follow them; no action uses them. They show which slip each property would catch.

The firmware is part of each specification: it may send any message the master
can raise, except where a constant limits the data bytes (`FirmwareSends` and
its likes). Devices other than the EEPROM, the display front and the bus may be
constructed in the middle of a transaction (`LinkInit`).

## Runs

| Run | Question | Bounds |
|---|---|---|
| `tca_interrupts` | Does the interrupt line follow the unacknowledged flag, do timers and pending presses match, is every press released, can a burst run past the register file, do the registers implement a FIFO? | two keys, two host events (so one key can be pressed twice before its timer, and four events be queued), every order of CFG and INT_STAT writes, bursts with and without auto-increment from both ends of the file, from one past it and from the FIFO. The FIFO up to its ten entries is proved, see below |
| `tlc_bursts` | Do bytes land where they are meant, can the LEDs be drawn at any time? | bursts of four from before LEDOUT0, LEDOUT3, the end of the ring and past the array |
| `eeprom_memory` | Does the EEPROM return what was stored? | addresses at 0, both sides of 0x100, 0xF00 and the last cell; the counter scaled from 256 to 3 with transfers of 3, so that transfers run past the end and are as long as the counter counts |
| `eeprom_restart` | A write re-addressed by a repeated START (expected violation) | as `eeprom_memory`, with the whole counter, transfers of 2, and firmware that sends an address before every read (`AddressesReads`), so that only re-addressing is left to go wrong |
| `display_i2c` | Does every byte arrive once and in order, do dirty flag and debounce agree with what happened? | four bytes, three ticks |
| `listener` | Is the transcript the traffic, and does the view show what was received? | every traffic of six messages between two devices; two finished messages kept instead of 100, so that three transactions overflow the list; the view rendered at any moment, until a message comes during a rendering |
| `lcd` | Does the documented reset bring the display and the firmware into step from any phase; is the display busy exactly while its timer runs; do bytes land where the firmware means, at the ends of both lines too? | both wirings; six strobes, each with nibbles that cover the reset, function set, mode, position and data |
| `ds3231` | Do bytes go to the registers the firmware means, does every second advance the calendar by one, is the 1 Hz wave in step with it? | one second from any time the firmware may set: the last second of a day in April or December of year 0 or 99, of an hour in the 12-hour mode; registers 0, 14 and 63 named, bursts over the end; oscillator stopped at any count, slowest and fastest wave; the counter scaled from 65536 to 64, which keeps the ratios of the prescaler |
| `ds3231_leap` | Is the end of February right (expected violation)? | 28 and 29 February of 2023 and 2024 |
| `bus` | Do firmware protocols keep the simulator alive and devices apart? | one key, bursts of two, the last two cells, four devices |
| `gu7000` | Does the interpreter stay in step with the firmware, does text stay legible, does a backspace find its character, do images keep to their rectangle? | every sequence of four of 27 commands: enough to magnify, go to the end of a line, write over it and step back, or to draw over text; images of 8, 12 and 16 dots, one that never ends and one that ends the simulator; three glyphs of the font |
| `host` | Does what the user does to the switch arrive, are renderings snapshots, can the threads block each other? | two posted requests (a press and a timed press), one bounce for each shift, two serials of two bytes, three log lines less one kept, one rendering |

`Hd44780` needs no MC module: its constants are sets of numbers and its runs
name the module itself. Its bounds are bounds on strobes: a byte takes two, so
four bytes are enough for "position the cursor, write, cross the end of a line,
write again", and seven strobes hold a whole reset after any phase. What it
takes from simavr: a pin's IRQ is filtered (raised on a change of level only),
the strobe timer fires before the AVR's next instruction, and the "all pins" IRQ
carries seven bits. The data pins the display drives back to the AVR are not
modelled; what a read returns is.

`FtxuiHost` leaves out one order of steps: a closure posted between "the queue is
empty" and the AVR's cycle. It would run after that cycle, as it does when it is
posted after the cycle, and neither step looks at what the other changes. An
insertion into the log is one step because nobody looks at the deque without
the mutex. Renderings are bounded, and not only to keep the instance small:
`std::mutex` promises no fairness, and an interface that renders without pause
may keep the simulation thread waiting.

Deadlock checking is off: a crash ends the program, and the bounds (`MaxEvents`,
`MaxBurst`, `MaxTransfer`, `MaxSent`, `MaxMilliseconds`, `MaxMessages`, `MaxStrobes`,
`MaxSeconds`, `MaxCommands`, `MaxPosted`, `MaxBytes`, `MaxRenders`) end the behaviours, as does the clock's undefined read or write
past its registers (`outOfBounds`), a race in the listener view (`raced`), a
command that stops the simulator (`process`) and the end of the loop.

### What the runs found

* `eeprom_restart`: `HandleI2CMessage` clears the address only on STOP and on
  another device's START. A START W inside an open transaction ORs the new
  address into the old one and keeps the counter (`sim_47l04.cpp:83`), although
  the address is said to be valid in STARTED (`sim_47l04.h:42`).
* `ds3231_leap`: the clock promises "Leap year correction until 2100"
  (`ds3231_virt.h:33`); the flag of `ds3231_virt_days_in_month` is inverted
  (`ds3231_virt.cpp:157`), so leap years get the shorter February.

Seen while modelling, without a run of their own:

* "A start for a different device on the bus triggers a reset for this device"
  (`sim_i2c_base.cpp:70`), but devices built on `SimAvrI2CSmarterComponent` do
  not override `ResetStateMachine`; their buffer survives and is delivered
  together with the next transaction. No byte is lost or doubled
  (`EveryByteOnce` holds), but two transactions become one.
* On "the E pin rising edge, do stuff otherwise just exit" (`hd44780.cpp:363`);
  with the common wiring the hook hands the upper pins on unmasked
  (`hd44780.cpp:351`), so a rise of RW alone starts a read.
* `hd44780.h:84` documents the D_L flag as "1: 4-Bit Interface, 0: 8-Bit
  Interface" while the code assembles nibbles when it is clear; with the
  reentrant flag set the pins are not to be updated (`hd44780.h:98`), but a read
  raises the common IRQ, whose hook clears RS, E and RW in the display's copy
  (`ReadPinsDriven`).
* The clock: "write mode always overwrites it", the register address
  (`ds3231_virt.cpp:402`), but only after a STOP: a START leaves `reg_selected`
  set, and the register number sent after a repeated START is stored as data. In
  the 12-hour mode AM and PM change from 12 to 1 and not from 11 to 12. The
  prescaler modes named 1024, 4096 and 8192 Hz divide the counter by 1024, 4096
  and 8192 instead (`ds3231_virt.cpp:355-363`). The pointer reaches 64, one past
  the registers, before it wraps (`ds3231_virt.cpp:118`).
* The display interpreter. `CompositionMode` is three bytes long
  (`sim_gu7000.cpp:229`) and a prefix of `CurrentWindowSelect`,
  `UserWindowDefinitionCancel` and `WriteScreenModeSelect`, which are never
  recognised. A command that is not in the table never ends: everything after it
  is collected (`sim_gu7000.cpp:46-58`). Two commands read an argument the table
  does not give them, and abort (556, 560); the brightness is clamped with the
  bounds exchanged (541), which is undefined below eight. An image is placed by a
  byte (615), drawn in one row of columns whatever its height, so one of height
  16 comes out twice as wide; more than 255 bytes run the loop past the arguments
  and abort, more than 255 rows never end (620-622). A line feed moves seven dots
  (490) while positions are in rows of eight (328): at the usual size the third
  line and the twenty-third character are cut off by the edge.
* The switch. A hold of zero, a drawn delay of zero (84) or a request on top of
  an unfinished one can end the timer chain with shifts queued: OnBounce returns
  the present cycle, which simavr takes for the end. `disturbed` records this. A
  request during a hold starts the next shift at once and cuts the hold short.
* The listener view counts from zero and shows counts above one
  (`i2c_listener_renderer.cpp:70, 97`), so a message received twice shows no
  count and one received three times shows two.
* The scroller selects a line by its number; new lines are pushed in front, so
  the selected text drifts. A closure posted as the loop ends never runs.

## Fairness

`Tca8418` and `FtxuiHost` state liveness. A release timer is a simavr cycle timer: it
fires as long as `avr_run` is called, which `BlockingLoop` does without end, so
each key's `ReleaseTimerFires` is weakly fair. A press that moves a pending
timer is bounded by `MaxEvents`; a host that presses the same key for ever
would postpone its release for ever, and the model would need that bound too.
In `FtxuiHost` three things are fair. The simulation thread runs
(`WF(Simulation)`): it is a thread in a loop. The cycle a registered timer waits for
is reached (`SF(TimerCycle)`): the AVR's clock only goes up, but in between come
cycles without the timer and passes through the loop in which it is not enabled,
so weak fairness would say nothing. A rendering that was begun goes on
(`WF(Rendering)`): the walk only pushes elements. The interface need not do
anything else, and the user may end the loop at any moment, which the property
allows for.

Nothing else is assumed fair: firmware and host may stop. In particular the text
display states no "the busy flag is cleared in the end": firmware that writes
without waiting registers the busy timer anew each time and may postpone it for
ever.

## Proofs

`Tca8418Proofs` proves for every set of keys, every firmware and every number
of events:

* `TypeCorrect`: `TypeOK` is inductive by itself. The lemmas bound what the
  arithmetic on registers can give: key codes stay below the press bit, the
  event count is a four-bit number, so the register an event goes to is at most
  4 + 15 and inside the file even when the FIFO overflows.
* `IntLineCorrect`: the line is low exactly while the flag is set. Only
  `CheckSpecialCaseWrite` and `AddKeyRawEvent` touch either; each changes both.
* `TimersCorrect`: pending entries and timers are the same set of keys, so no
  timer's parameter points to an erased map entry.
* `AutoIncrementCorrect`: no step takes a valid pointer out of the register file.
* `FifoCorrect`: the registers implement `KeyFifo`, for at most five
  press-and-release pairs (`MaxEvents <= 5`, the ten entries of the device) and
  firmware that does not write the FIFO's registers (`FifoLeftAlone`). The
  strengthening is `FifoInv`: unread events and releases to come are together
  never more than twice the presses, so the queue never overflows; with it every step maps to `Put`, `Take` or a stutter.

`Hd44780Proofs` proves for either wiring and every set of nibbles:

* `LcdTypeCorrect`: in particular the cursor, which indexes `vram`, stays below
  104 or in the 64 bytes of character memory, whatever commands arrive.
* `BusyCorrect`: the busy flag is set exactly while the busy timer is pending.
* `ResetSequenceCorrect`: after the documented reset the display takes bytes at
  the phase the firmware sends them, from any phase before. The property alone is
  not inductive; `ResetInv` also says what the first one and two nibbles of the
  reset leave behind.
* `RefinesDisplayMemoryCorrect`: the display implements `DisplayMemory`, which takes
  whole bytes: every strobe maps to `Put`, `Peek`, `Move`, `Clear`, `Configure` or a
  stutter. The step that is not bookkeeping is `KickCursorFindsANeighbour`: the
  comparisons with 39, 64, 79, 103, 128 and 191 by which the code moves the cursor
  compute the next and the previous cell of a ring of cells, also from a cell that a
  change of the number of lines left off the screen. `LcdTypeCorrect` supplies where
  the cursor may be.

`Ds3231Proofs` proves for every firmware and every modulus:

* `DsTypeCorrect`: every register stays a byte and the counter stays below its
  modulus. The work is in `TickedIsByte` and `TickedHourIsByte`: digits are
  repacked into the bits they came from, whatever the firmware wrote there
  (digits above nine, month 0, a date in a month without it).
* `BytesGoWhereMeantCorrect`: assumes `OpensWithStop`, without which it is false
  (see above). The property speaks of a selected clock only; `PointerInv` adds
  what holds while it is not: the pointer still is the register the firmware
  means, and on a free bus `reg_selected` is clear, which is why the first byte
  of the next write is taken as a register number.
* `MonthLengths`: the formula for the length of a month agrees with the civil
  calendar outside February. `FebruariesAreSwapped`: in February it gives the other
  of the two lengths in every year from 2000 to 2099, which is what the run that
  expects `LeapYearCorrection` violated shows for one year.
* `SecondsAreCivilCorrect`: the action property for every state, not just those the
  run starts from: any time of any date outside February, in either hour mode, and
  whatever the configuration bits are. `TickedNumber` and `TickedTwelveHour` say
  that a register is ticked as the number its digits stand for; `TimeOfDayTicked`
  that seconds, minutes and hours carry as one count of 86400; `NextCivilDay` that
  day, month and year carry as one count of days, across leap years and the end of
  the century, which are the two ways `CivilTime` counts. No invariant but
  `DsTypeOK` is needed: the property itself assumes that the registers show a time.
* `OneHertzCorrect`: `WaveInv` says where in its range the counter has to be for the
  wave to have turned none, one and two times, unless the firmware chose another
  wave; a write to the control register that only stops or starts the oscillator
  keeps it (`WaveBitsSelectTheWave`).

`Gu7000Proofs` proves for every font and every set of commands:

* `GuTypeCorrect`: the cursor stays on the screen, the magnification in its
  limits and the dots in the memory. The type alone is not inductive: a command
  that reads a number needs its bytes. `Gathered` says that the row of the table
  and the bytes gathered so far belong together, in each state of the parser.
* `InStepCorrect`: assumes `GuWholeCommands` (the firmware sends a command with
  the arguments the table gives it). At every byte the commands before have been
  executed as sent, and what is gathered of the one under way begins it; a command
  that stops the simulator does so at its last byte. It says nothing from the first
  hidden command on. `InStepInv` says, for the command under way,
  how far the parser is (`InKey`, `InFixedArguments`, `InVariableArguments`): what
  it has gathered followed by what is still to come is the command. That a byte
  decides as it should rests on the table: rows are numbered (`RowsAreNumbered`),
  so that no two keys are equal, and a key that continues a shorter one is exactly
  what `Hidden` excludes (`NoShorterKey`).
* `HiddenNeverExecuted`: the commands that `InStep` leaves out, the three of the table
  whose keys continue the key of `CompositionMode`, are never executed. While a key
  is gathered, no row's key has gone by (`HiddenInv`).
* `TextCorrect`: `TextInv` adds that the cursor is past every character of the
  text, further right in its line or below it, and `CellsApart` that characters of
  which one is past the other share no dot. The attempt corrected the property: it
  used to compare each character with the first, which is not enough. A text that
  begins in the top line, goes down and wraps back to the top writes over itself
  although no character is above the first; it takes more commands than the run
  allows, so TLC had not found it.
* `BackspaceCorrect`: `HistoryInv` adds that the cursor is where the last character
  left it (`LastAdvanced`).
* `ImageCorrect`: the action property: no image moves the cursor, and one less than
  sixteen dots high keeps to its rectangle at every position below 256, on the screen
  or off it. A higher one does not, because every eight rows of a column are drawn as
  a column of their own, nor does a position past 255, which loses its high byte.

`FtxuiHostProofs` proves for every number of bounces, hold time, capacity, page
height and traffic:

* `HostImplementsSwitch`: `HostSpec => SwitchSpec`. Every step of the host is a
  step of the switch or leaves it alone, so `TimerHasWorkCorrect`,
  `SettledCorrect` and `NeverStallCorrect` are proved of the switch once.
  `SwitchIInv` adds that the
  last shift in the queue has the level the last request ends with
  (`EndsAsRequested`) and which shapes the queue of an undisturbed request goes
  through (`WorkedOff`).
* `SnapshotCorrect` and `SelectedLineCorrect`: `LogIInv` says that the deque holds
  the newest lines while the mutex is free or held, and that the rendering's
  elements are a prefix of what was there when it took the mutex.
* `HostTypeCorrect`: the types of all of it, which no run spends time on.
* `LinesCorrect`: `LinesAreWhole` is stated with the places where the bytes received
  are cut into lines, so the proof is about one cut: a byte that is no newline
  leaves it (`ByteWaits`), a newline adds the end of a line (`LineEnds`), and
  another serial's line adds an empty piece (`OthersLine`). `WholeInv` adds that a
  line waits to be inserted only while the thread waits for the mutex, so that
  none is overwritten.

`I2cDeviceProofs` proves, of the LED driver, for every control byte, every data and
bursts of any length:

* `PointerWalksTheRing`: the code steps the pointer, the property has a closed
  form; `RingStep` is the arithmetic between them, also from the two registers
  behind the ring. `FlagFollowsControl` ties the flag to the control byte.
* `AlwaysDrawable`: assumes that the firmware keeps group dimming out of what it
  means for the LEDOUT registers (`TlcDimming`). That no other byte lands there is
  the ring's work, so the invariant `TlcIInv` holds both.
* `NothingCarriesOver` and `TlcTypeCorrect`, which no run checks.

Of the EEPROM, for every strap, every address and firmware that does not open a
write inside a write (`~RepeatsStart`; with it both theorems are false, which
`eeprom_restart` shows):

* `EepromAddressing`: what is ORed together is the address sent. `EepromIInv` says
  for each state of the protocol which part of the address has arrived and that
  the parts not yet ORed in are zero.
* `EepromIsAMemory`: `EepromSpec => RefinesSerialMemory`, for transfers no longer than
  the eight-bit counter counts (`MaxTransfer <= CounterModulus`): every step is a
  `Seek`, `Store`, `Fetch`, the end of a transfer or a stutter of `SerialMemory`.

Of the display front, for every firmware and every tick:

* `DisplayBuffersEveryByte`: fed bytes, then buffered bytes, are the bytes sent.
* `DirtyFlagIsHonest`: dirty and debounce agree with what the interpreter took.

Of the listener, for every traffic, either order of the hooks, and any moment of
its construction:

* `InProgressTranscribed` and `LatestMessagesKept`: the message in progress is what
  passed since its START, the finished ones are the latest, in order. The
  invariant speaks of the n-th message the bus carried (`HeardOf`), which needs no
  recursion.
* `LateListenersOnly`: the pointer to a message that is not there is followed only
  by a listener made in the middle of a transaction.
* `ViewImplementsListener` and `ViewStandsForTheMessages`: the list of runs can be
  cut into the messages received (`AreRunsOf` names the ends of the runs).

`I2cBusProofs` proves for every set of addresses, straps and firmware bytes:

* `Engagement`: inductive by itself. Each device's lemma (`KeypadMessage`,
  `LedMessage`, `EepromMessage`, `DisplayMessage`) says what one message does to
  that device whether it is meant for it or not; `LinkMoves` is what the master
  guarantees.
* `ContentsOwned`: the action property, from the same lemmas.
* `LedDriverOnTheBus`, `EepromOnTheBus`, `KeypadOnTheBus`: each of these devices does
  on the bus only what its own specification allows (`BusSpec => TlcSpec`,
  `EepromSpec` with `RepeatsStart` false). `Alone` instantiates the theorems of
  `I2cDeviceProofs` at the devices of the bus, so what is proved there holds among
  the other devices as well; `EepromIsAMemoryOnTheBus` is one that is spelled out.
* `NoCrashCorrect`: firmware that follows the protocols never brings the simulator
  down. `ProtocolInv` says that each device is in the state the firmware's last
  messages should have put it in (`KeypadProtocol`, `LedProtocol`) and that both
  register pointers are inside their files; that the LEDs can be drawn and where
  the EEPROM's next access goes comes from `Alone`. The counter of the EEPROM may
  wrap: it is never ahead of the firmware's (`CounterNotAhead`).
* `DisplayLosesNothing`: with the buffer and what was fed as byte sequences.

Assumptions: the named ones about the constants, which TLC evaluates in every run
of the module: `AddressesAssumption`, `DataBytesAssumption`, `TcaAddress`,
`TcaFirmware`, `TcaKeys`, `TcaMaxEvents`, `TlcAddressAssumption`, `TlcFirmware`,
`TlcMaxBurst`, `TlcDimming`, `StrapsAssumption`, `EepromFirmware`, `Gu7000Bounds`,
`ListenerAssumption`, `LcdWiring`, `LcdNibbles`, `LcdMaxStrobes`, `DsFirmware`,
`DsOpens`, `DsModulus`, `DsBounds`, `GuFont`, `GuBound`, `GuCommands`,
`GuWholeCommands`, `SwitchAssumption`, `LogAssumption`, `HostAssumption`, and on the
bus `DistinctAddresses`, `BusKeypad`, `BusLedDriver`, `BusEeprom` and `BusDisplay`, which
say the same of its devices and that the firmware selects no register a device
does not have. `~RepeatsStart`, `OpensWithStop`, `MaxTransfer <= CounterModulus` and
`MaxEvents <= 5` with `FifoLeftAlone` are hypotheses of the theorems named with them.

Model-checked only: `PendingPressIsReleased`, `PostedRequestSettles` and `LinesGetIn`
(liveness under fairness is out of the prover's reach). Every invariant, every action
property and every refinement a passing run checks is also a theorem.

## Plan

Order: what the bus carries first, then the devices with the richest protocols,
then the threads. Done: every component but those below, composed where they
interact (`I2cBus`, `FtxuiHost`, `I2cListenerView`), with theorems about all
of them.

Open, each a larger instance or a proof of something that is checked: the clock
on `I2cBus` in an instance without the keypad, whose address it has; the
interpreter fed by `SimGu7000I2C` in one module (now joined by its byte stream).

## Not modelled

* `sim_tlp9202`: a byte is kept while chip select is low. One conditional
  assignment, of which any property would be a restatement.
* `timer`: `RegisterTimer` has no caller in the repository. It registers the
  address of a parameter passed by value, which is gone when the timer fires:
  there is no defined behaviour to model.
* `sim_base`: formatting and one global function pointer.
* The font tables: data. `Glyph` is any font in the proofs and three of its
  glyphs in the run.
* Layout and colours of the terminal views, ELF loading and the set-up of GDB in
  `ftxui_simulated_avr.cpp`.
* The application: the closures it posts, its virtual `OnUartByteReceived` and
  `OnSerialLine`, the threads it starts. `FtxuiHost` takes them for what the
  classes are made for.
