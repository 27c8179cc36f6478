------------------------------- MODULE Gu7000 -------------------------------
(***************************************************************************)
(* SimGu7000, the graphic display's command interpreter: bytes in, one at  *)
(* a time, from SimGu7000I2C::OnDataReceived; commands recognised by their *)
(* first bytes, with arguments whose number may depend on the arguments;   *)
(* a screen of 112 by 16 dots, a cursor and a magnification.  Settings     *)
(* that nothing reads are left out, and with them what the commands that   *)
(* set them do.  The firmware sends whole commands.                        *)
(***************************************************************************)
EXTENDS Integers, SequencesExt

CONSTANTS
  Glyph,       \* the font: the dots <<column, row>> of every character
  Commands,    \* what the firmware may send: [name, args]
  MaxCommands  \* bound: commands in a behaviour

FONT_WIDTH == 5
FONT_HEIGHT == 7
DISPLAY_WIDTH == 112
DISPLAY_HEIGHT == 16
ROW_HEIGHT_DOTS == 8
CMD_CHARACTER_DISPLAY_START == 32

Byte == 0 .. 255
Uint16 == 0 .. 65535
Dots == (0 .. DISPLAY_WIDTH - 1) \X (0 .. DISPLAY_HEIGHT - 1)

ASSUME GuFont == Glyph \in [32 .. 126 -> SUBSET ((0 .. FONT_WIDTH - 1) \X (0 .. FONT_HEIGHT - 1))]
ASSUME GuBound == MaxCommands \in Nat

VARIABLES
  state,              \* state_
  command_buffer,     \* command_buffer_
  command_arguments,  \* command_arguments_
  CurrentCommand,     \* CurrentCommand_: a row of the table
  variable_bytes,     \* CurrentCommandVariableBytes_
  screen,             \* cursor_x_, cursor_y_, font_magnification_x_, _y_, display_memory_
  process,            \* whether the simulator still runs
  outgoing,           \* what is left of the command the firmware is sending
  intended,           \* history: the commands the firmware sent
  executed            \* history: the commands executed, with the cursor before

parser == <<state, command_buffer, command_arguments, CurrentCommand, variable_bytes>>
guVars == <<parser, screen, process, outgoing, intended, executed>>

State == {"Idle", "GettingCommand", "GettingCommandArguments", "GettingVariableArgs"}

-----------------------------------------------------------------------------
(* The command table                                                       *)

Row(key, name, bytes) == [key |-> key, Name |-> name, FixedArgumentBytes |-> bytes]

\* Commands whose Execute function changes nothing that is modelled have
\* their place in the table all the same: it decides where a command ends.
CommandTable ==
  { Row(<<8>>, "Backspace", 0), Row(<<9>>, "HorizontalTab", 0),
    Row(<<10>>, "LineFeed", 0), Row(<<11>>, "HomePosition", 0),
    Row(<<12>>, "DisplayClear", 0), Row(<<13>>, "CarriageReturn", 0),
    Row(<<27, 64>>, "InitializeDisplay", 0), Row(<<27, 37>>, "SpecifyDownloadRegister", 0),
    Row(<<27, 38>>, "DownloadCharacter", 0), Row(<<27, 63>>, "DeleteDownloadedCharacter", 0),
    Row(<<27, 82>>, "InternationalFontSet", 0), Row(<<27, 116>>, "CharacterCodeType", 0),
    Row(<<31, 40, 1>>, "OverwriteMode", 1), Row(<<31, 40, 2>>, "VerticalScrollMode", 0),
    Row(<<31, 40, 100, 48>>, "PrintAtPosition", 6), Row(<<31, 40, 3>>, "HorizontalScrollMode", 0),
    Row(<<31, 36>>, "CursorSet", 4), Row(<<31, 40, 88>>, "BrightnessControl", 1),
    Row(<<31, 40, 114>>, "ReverseDisplay", 1), Row(<<31, 40, 115>>, "HorizontalScrollSpeed", 1),
    Row(<<31, 40, 119>>, "CompositionMode", 1), Row(<<31, 40, 97, 1>>, "Wait", 0),
    Row(<<31, 40, 97, 16>>, "ScrollDisplayAction", 0), Row(<<31, 40, 97, 17>>, "DisplayBlink", 0),
    Row(<<31, 40, 97, 64>>, "ScreenSaver", 1), Row(<<31, 40, 100, 33>>, "RealTimeBitImageDisplay", 9),
    Row(<<31, 40, 103, 3>>, "CharacterFontWidthAndSpace", 1),
    Row(<<31, 40, 103, 64>>, "FontMagnificationSet", 2),
    Row(<<31, 40, 119, 1>>, "CurrentWindowSelect", 1),
    Row(<<31, 40, 119, 2>>, "UserWindowDefinitionCancel", 0),
    Row(<<31, 40, 119, 16>>, "WriteScreenModeSelect", 1) }

NoCommand == Row(<<>>, "none", 0)

ASSUME GuCommands ==
  \A c \in Commands :
    /\ c.args \in Seq(Byte)
    /\ c.name = "Character" \/ \E row \in CommandTable : row.Name = c.name

\* Stream::get_uint16le, with the low byte at position i
Word(args, i) == args[i] + 256 * args[i + 1]

\* Width and height of a bit image, and the bytes it takes.
ImageWidth(args) == Word(args, 5)
ImageHeight(args) == Word(args, 7)
ImageBytes(args) == (ImageHeight(args) \div 8) * ImageWidth(args)

\* SizeGetFn of the commands that have one
VariableBytes(name, args) ==
  CASE name = "PrintAtPosition" -> args[6]
    [] name = "RealTimeBitImageDisplay" -> ImageBytes(args) % 65536
    [] OTHER -> 0

\* The firmware sends whole commands: a character that is one, or a row of
\* the table with as many arguments as the row and they themselves ask for.
Whole(c) ==
  \/ c.name = "Character" /\ Len(c.args) = 1 /\ c.args[1] >= CMD_CHARACTER_DISPLAY_START
  \/ \E row \in CommandTable :
       /\ c.name = row.Name /\ Len(c.args) >= row.FixedArgumentBytes
       /\ Len(c.args) = row.FixedArgumentBytes + VariableBytes(c.name, c.args)

ASSUME GuWholeCommands ==
  \A c \in Commands : Whole(c) /\ c = [name |-> c.name, args |-> c.args]

-----------------------------------------------------------------------------
(* The screen: [x, y, mx, my, dots], the cursor, the magnification and the *)
(* dots that are on                                                        *)

Screen == [x : 0 .. DISPLAY_WIDTH - 1, y : 0 .. DISPLAY_HEIGHT - 1,
           mx : 1 .. 4, my : 1 .. 2, dots : SUBSET Dots]

BlankScreen == [x |-> 0, y |-> 0, mx |-> 1, my |-> 1, dots |-> {}]

CellWidth(s) == FONT_WIDTH * s.mx
CellHeight(s) == FONT_HEIGHT * s.my

\* Below the last dot row the next line is the first.
NextLine(s, y) ==
  LET next == (y + CellHeight(s)) % 65536
  IN IF next >= DISPLAY_HEIGHT THEN 0 ELSE next

\* Mutant: the step is not magnified.
MutantUnmagnifiedAdvance(s, at) ==
  LET x == (at[1] + FONT_WIDTH) % 65536
  IN IF x >= DISPLAY_WIDTH THEN <<0, NextLine(s, at[2])>> ELSE <<x, at[2]>>

AdvanceCursor(s, at) ==
  LET x == (at[1] + CellWidth(s)) % 65536
  IN IF x >= DISPLAY_WIDTH THEN <<0, NextLine(s, at[2])>> ELSE <<x, at[2]>>

\* What drawing does, before the screen clips it: the dots it sets, and
\* those of them it switches on.  Coordinates are sixteen bits wide.
At(at, i, j) == <<(at[1] + i) % 65536, (at[2] + j) % 65536>>

GetFontData(character) == Glyph[IF character \in 32 .. 126 THEN character ELSE 32]

DrawFontCharacter(s, at, character) ==
  LET cell == (0 .. CellWidth(s) - 1) \X (0 .. CellHeight(s) - 1)
      on == {d \in cell : <<d[1] \div s.mx, d[2] \div s.my>> \in GetFontData(character)}
  IN [set |-> {At(at, d[1], d[2]) : d \in cell}, on |-> {At(at, d[1], d[2]) : d \in on}]

Nothing == [set |-> {}, on |-> {}]
Over(below, above) ==
  [set |-> below.set \cup above.set, on |-> (below.on \ above.set) \cup above.on]

\* SetPixel for every dot
Drawn(s, image) ==
  [s EXCEPT !.dots = (@ \ image.set) \cup {d \in image.on : d \in Dots}]

SetCursor(s, x, y) ==
  [s EXCEPT !.x = Min({x, DISPLAY_WIDTH - 1}),
            !.y = Min({(y * ROW_HEIGHT_DOTS) % 65536, DISPLAY_HEIGHT - 1})]

-----------------------------------------------------------------------------
(* The commands                                                            *)

ProcessCharacterDisplay(s, character) ==
  LET next == AdvanceCursor(s, <<s.x, s.y>>)
  IN [Drawn(s, DrawFontCharacter(s, <<s.x, s.y>>, character)) EXCEPT !.x = next[1], !.y = next[2]]

\* The string has a cursor of its own, which need not be on the screen.
ProcessCharacterDisplayAtPosition(s, args) ==
  LET DrawNext(string, character) ==
        [at |-> AdvanceCursor(s, string.at),
         image |-> Over(string.image, DrawFontCharacter(s, string.at, character))]
      start == [at |-> <<Word(args, 1), Word(args, 3)>>, image |-> Nothing]
  IN Drawn(s, FoldLeft(DrawNext, start, SubSeq(args, 7, Len(args))).image)

\* Mutant: over the start of a line it stays on that line.
MutantProcessBackspace(s) ==
  [s EXCEPT !.x = IF @ >= CellWidth(s) THEN @ - CellWidth(s) ELSE DISPLAY_WIDTH - CellWidth(s)]

ProcessBackspace(s) ==
  IF s.x >= CellWidth(s) THEN [s EXCEPT !.x = @ - CellWidth(s)]
  ELSE [s EXCEPT !.x = DISPLAY_WIDTH - CellWidth(s),
                 !.y = IF @ >= CellHeight(s) THEN @ - CellHeight(s)
                       ELSE DISPLAY_HEIGHT - CellHeight(s)]

ProcessHorizontalTab(s) ==
  LET tab == 4 * CellWidth(s)
      x == ((s.x \div tab) + 1) * tab
  IN IF x >= DISPLAY_WIDTH THEN [s EXCEPT !.x = 0, !.y = NextLine(s, @)]
     ELSE [s EXCEPT !.x = x]

ProcessLineFeed(s) == [s EXCEPT !.y = NextLine(s, @)]
ProcessHomePosition(s) == [s EXCEPT !.x = 0, !.y = 0]
ProcessCarriageReturn(s) == [s EXCEPT !.x = 0]
ProcessDisplayClear(s) == [s EXCEPT !.x = 0, !.y = 0, !.dots = {}]

\* Mutant: cursor positions are not limited to the screen.
MutantProcessCursorSet(s, args) ==
  [s EXCEPT !.x = Word(args, 1), !.y = (Word(args, 3) * ROW_HEIGHT_DOTS) % 65536]

ProcessCursorSet(s, args) == SetCursor(s, Word(args, 1), Word(args, 3))

ProcessScreenSaver(s, args) ==
  CASE args[1] \in {0, 2} -> [s EXCEPT !.dots = {}]
    [] args[1] = 3 -> [s EXCEPT !.dots = Dots]
    [] OTHER -> s

\* Mutant: the image's width and height are exchanged.
MutantProcessRealTimeBitImageDisplay(s, args) ==
  LET at == <<Word(args, 1) % 256, Word(args, 3) % 256>>
      set == {At(at, i, j) : i \in 0 .. ImageHeight(args) - 1, j \in 0 .. ImageBytes(args) - 1}
  IN Drawn(s, [set |-> set, on |-> set])

\* The screen position is a pair of bytes.  Every byte of the image is a
\* column of its own, whatever the height; past the eighth bit a dot is off.
ProcessRealTimeBitImageDisplay(s, args) ==
  LET at == <<Word(args, 1) % 256, Word(args, 3) % 256>>
      set == (0 .. ImageBytes(args) - 1) \X (0 .. ImageHeight(args) - 1)
      on == {d \in set : d[2] < 8 /\ (args[10 + d[1]] \div 2^(7 - d[2])) % 2 = 1}
  IN Drawn(s, [set |-> {At(at, d[1], d[2]) : d \in set}, on |-> {At(at, d[1], d[2]) : d \in on}])

Clamp(value, lowest, highest) == Max({lowest, Min({value, highest})})

ProcessFontMagnificationSet(s, args) ==
  [s EXCEPT !.mx = Clamp(args[1], 1, 4), !.my = Clamp(args[2], 1, 2)]

Executed(name, args, s) ==
  CASE name = "Character" -> ProcessCharacterDisplay(s, args[1])
    [] name = "Backspace" -> ProcessBackspace(s)
    [] name = "HorizontalTab" -> ProcessHorizontalTab(s)
    [] name = "LineFeed" -> ProcessLineFeed(s)
    [] name = "HomePosition" -> ProcessHomePosition(s)
    [] name = "DisplayClear" -> ProcessDisplayClear(s)
    [] name = "CarriageReturn" -> ProcessCarriageReturn(s)
    [] name = "InitializeDisplay" -> BlankScreen
    [] name = "PrintAtPosition" -> ProcessCharacterDisplayAtPosition(s, args)
    [] name = "CursorSet" -> ProcessCursorSet(s, args)
    [] name = "ScreenSaver" -> ProcessScreenSaver(s, args)
    [] name = "RealTimeBitImageDisplay" -> ProcessRealTimeBitImageDisplay(s, args)
    [] name = "FontMagnificationSet" -> ProcessFontMagnificationSet(s, args)
    [] OTHER -> s

\* How executing a command may end.  Two commands read an argument they were
\* not given (Stream::next aborts); a brightness below eight is a call of
\* std::clamp with its bounds exchanged; an image of more than 255 bytes
\* wraps the loop's counter and reads on past the last of them, one higher
\* than 255 never gets past its first byte, if it has one.
Outcomes(name, args) ==
  CASE name \in {"InternationalFontSet", "CharacterCodeType"} -> {"aborted"}
    [] name = "BrightnessControl" /\ args[1] < 8 -> {"running", "aborted"}
    [] name = "RealTimeBitImageDisplay" /\ VariableBytes(name, args) > 0 /\ ImageHeight(args) > 255 -> {"hung"}
    [] name = "RealTimeBitImageDisplay" /\ ImageBytes(args) > 255 -> {"aborted"}
    [] OTHER -> {"running"}

-----------------------------------------------------------------------------
(* The interpreter                                                         *)

GuTypeOK ==
  /\ state \in State
  /\ command_buffer \in Seq(Byte)
  /\ command_arguments \in Seq(Byte)
  /\ CurrentCommand \in CommandTable \cup {NoCommand}
  /\ variable_bytes \in Uint16
  /\ screen \in Screen
  /\ process \in {"running", "aborted", "hung"}
  /\ outgoing \in Seq(Byte)

GuInit ==
  /\ state = "Idle" /\ command_buffer = <<>> /\ command_arguments = <<>>
  /\ CurrentCommand = NoCommand /\ variable_bytes = 0
  /\ screen = BlankScreen
  /\ process = "running"
  /\ outgoing = <<>> /\ intended = <<>> /\ executed = <<>>

\* Mutant: the arguments are kept.
MutantResetCommandState ==
  /\ state' = "Idle"
  /\ command_buffer' = <<>>
  /\ CurrentCommand' = NoCommand
  /\ variable_bytes' = 0
  /\ UNCHANGED command_arguments

ResetCommandState ==
  /\ state' = "Idle"
  /\ command_buffer' = <<>> /\ command_arguments' = <<>>
  /\ CurrentCommand' = NoCommand
  /\ variable_bytes' = 0

\* ExecuteCurrentCommandAndReset, and ProcessCharacterDisplay with its reset
Execute(name, args) ==
  /\ process' \in Outcomes(name, args)
  /\ \/ /\ process' = "running"
        /\ screen' = Executed(name, args, screen)
        /\ executed' = Append(executed, [name |-> name, args |-> args, x |-> screen.x, y |-> screen.y])
        /\ ResetCommandState
     \/ /\ process' # "running"
        /\ UNCHANGED <<parser, screen, executed>>

\* Getting on with a command executes nothing.
Collect == UNCHANGED <<screen, process, executed>>

CharacterByte(byte) ==
  /\ state = "Idle" /\ byte >= CMD_CHARACTER_DISPLAY_START
  /\ Execute("Character", <<byte>>)

CommandByte(byte) ==
  /\ \/ state = "Idle" /\ byte < CMD_CHARACTER_DISPLAY_START
     \/ state = "GettingCommand"
  /\ LET key == Append(command_buffer, byte)
     IN \/ \E row \in CommandTable :
             /\ row.key = key /\ row.FixedArgumentBytes = 0
             /\ Execute(row.Name, command_arguments)
        \/ \E row \in CommandTable :
             /\ row.key = key /\ row.FixedArgumentBytes > 0
             /\ CurrentCommand' = row
             /\ state' = "GettingCommandArguments"
             /\ command_buffer' = key
             /\ UNCHANGED <<command_arguments, variable_bytes>>
             /\ Collect
        \/ /\ \A row \in CommandTable : row.key # key
           /\ state' = "GettingCommand"
           /\ command_buffer' = key
           /\ UNCHANGED <<command_arguments, CurrentCommand, variable_bytes>>
           /\ Collect

ArgumentByte(byte) ==
  LET args == Append(command_arguments, byte)
      fixed == CurrentCommand.FixedArgumentBytes
  IN /\ state = "GettingCommandArguments"
     /\ \/ /\ Len(args) # fixed
           /\ command_arguments' = args
           /\ UNCHANGED <<state, command_buffer, CurrentCommand, variable_bytes>>
           /\ Collect
        \/ /\ Len(args) = fixed /\ VariableBytes(CurrentCommand.Name, args) > 0
           /\ command_arguments' = args
           /\ variable_bytes' = VariableBytes(CurrentCommand.Name, args)
           /\ state' = "GettingVariableArgs"
           /\ UNCHANGED <<command_buffer, CurrentCommand>>
           /\ Collect
        \/ /\ Len(args) = fixed /\ VariableBytes(CurrentCommand.Name, args) = 0
           /\ Execute(CurrentCommand.Name, args)

VariableByte(byte) ==
  LET args == Append(command_arguments, byte)
      all == CurrentCommand.FixedArgumentBytes + variable_bytes
  IN /\ state = "GettingVariableArgs"
     /\ \/ /\ Len(args) # all
           /\ command_arguments' = args
           /\ UNCHANGED <<state, command_buffer, CurrentCommand, variable_bytes>>
           /\ Collect
        \/ /\ Len(args) = all
           /\ Execute(CurrentCommand.Name, args)

ProcessCommand(byte) ==
  CharacterByte(byte) \/ CommandByte(byte) \/ ArgumentByte(byte) \/ VariableByte(byte)

\* What the firmware sends for a command.
KeyOf(name) == (CHOOSE row \in CommandTable : row.Name = name).key
Encoded(c) == IF c.name = "Character" THEN c.args ELSE KeyOf(c.name) \o c.args

SendCommand(c) ==
  /\ outgoing = <<>> /\ Len(intended) < MaxCommands
  /\ outgoing' = Encoded(c)
  /\ intended' = Append(intended, c)
  /\ UNCHANGED <<parser, screen, process, executed>>

ReceiveByte ==
  /\ outgoing # <<>>
  /\ ProcessCommand(Head(outgoing))
  /\ outgoing' = Tail(outgoing)
  /\ UNCHANGED intended

GuNext ==
  /\ process = "running"
  /\ \/ \E c \in Commands : SendCommand(c)
     \/ ReceiveByte

GuSpec == GuInit /\ [][GuNext]_guVars

-----------------------------------------------------------------------------
(* Properties                                                              *)

\* Commands of the table that a shorter one is a prefix of.
Hidden(c) ==
  c.name # "Character" /\ \E row \in CommandTable : IsStrictPrefix(row.key, KeyOf(c.name))

\* The commands executed, with the arguments they were executed with.
Understood == [i \in DOMAIN executed |-> [name |-> executed[i].name, args |-> executed[i].args]]

\* Every command sent has been executed, and the next byte starts one.
AllUnderstood ==
  /\ process = "running" /\ outgoing = <<>> /\ state = "Idle"
  /\ Understood = intended

\* All but the last have; what the parser has gathered of that one, with
\* what is still to come, is that command and nothing else.
LastUnderWay ==
  /\ process = "running" /\ outgoing # <<>>
  /\ Understood = Front(intended)
  /\ command_buffer \o command_arguments \o outgoing = Encoded(Last(intended))

\* The last one, received to its end, is one that may stop the simulator so.
LastStoppedIt ==
  /\ process # "running" /\ outgoing = <<>>
  /\ Understood = Front(intended)
  /\ process \in Outcomes(Last(intended).name, Last(intended).args)

(***************************************************************************)
(* The interpreter stays in step with the firmware, at every byte: the     *)
(* commands sent before have been executed, in order and with the          *)
(* arguments they were sent with, nothing else has, and the bytes gathered *)
(* are the beginning of the command under way (sim_gu7000.cpp:35-80).  A   *)
(* command that stops the simulator is understood to its last byte.  Not   *)
(* so from the first command on that a shorter one hides.                  *)
(***************************************************************************)
InStep ==
  \/ AllUnderstood
  \/ LastUnderWay
  \/ LastStoppedIt
  \/ \E i \in DOMAIN intended : Hidden(intended[i])

\* The characters drawn without any other command since.
IsText(i) == \A k \in i .. Len(executed) : executed[k].name = "Character"

\* The screen shows a character at the place it was drawn at.
Shows(drawn) ==
  LET image == DrawFontCharacter(screen, <<drawn.x, drawn.y>>, drawn.args[1])
  IN \A d \in image.set : d \in Dots => (d \in screen.dots <=> d \in image.on)

(***************************************************************************)
(* Characters written one after the other do not spoil each other, at any  *)
(* magnification and across the end of a line, until the cursor goes back  *)
(* to the top (sim_gu7000.cpp:347-356, 384-411).                           *)
(***************************************************************************)
TextStaysLegible ==
  \A i \in DOMAIN executed :
    (IsText(i) /\ \A k \in i + 1 .. Len(executed) : executed[k - 1].y <= executed[k].y)
    => Shows(executed[i])

(***************************************************************************)
(* A backspace takes the cursor back to the character just written, also   *)
(* where that character ended its line or the screen, provided it was not  *)
(* cut off by the edge (sim_gu7000.cpp:347-356, 465-476).                  *)
(***************************************************************************)
BackspaceReturnsToTheCharacter ==
  LET n == Len(executed)
  IN (n >= 2 /\ executed[n].name = "Backspace" /\ executed[n - 1].name = "Character")
     => LET drawn == executed[n - 1]
        IN (drawn.x + CellWidth(screen) <= DISPLAY_WIDTH /\ drawn.y + CellHeight(screen) <= DISPLAY_HEIGHT)
           => screen.x = drawn.x /\ screen.y = drawn.y

ImageKeepsToItsRectangle(args) ==
  LET changed == (screen.dots \ screen'.dots) \cup (screen'.dots \ screen.dots)
  IN /\ screen'.x = screen.x /\ screen'.y = screen.y
     /\ (ImageHeight(args) < 16 /\ Word(args, 1) \in Byte /\ Word(args, 3) \in Byte) =>
          \A d \in changed :
            /\ d[1] \in Word(args, 1) .. Word(args, 1) + ImageWidth(args) - 1
            /\ d[2] \in Word(args, 3) .. Word(args, 3) + ImageHeight(args) - 1

(***************************************************************************)
(* A bit image moves no cursor, and one less than sixteen dots high placed *)
(* at a position of two bytes changes no dot outside its rectangle         *)
(* (sim_gu7000.cpp:609-626).  A higher one draws every eight rows of a     *)
(* column as a column of their own, and a position past 255 loses its high *)
(* byte; neither keeps to its rectangle.                                   *)
(***************************************************************************)
ImageStaysInItsRectangle ==
  [][\A i \in DOMAIN executed' \ DOMAIN executed :
       executed'[i].name = "RealTimeBitImageDisplay" => ImageKeepsToItsRectangle(executed'[i].args)]_guVars
=============================================================================
