---------------------------- MODULE Gu7000Proofs ----------------------------
(***************************************************************************)
(* Proofs about the graphic display's interpreter, for every font and      *)
(* every set of commands.                                                  *)
(***************************************************************************)
EXTENDS Gu7000, SequenceTheorems, TLAPS

-----------------------------------------------------------------------------
(* The screen                                                              *)

LEMMA MinPair ==
  ASSUME NEW a \in Int, NEW b \in Int
  PROVE Min({a, b}) = IF a <= b THEN a ELSE b
BY DEF Min

LEMMA MaxPair ==
  ASSUME NEW a \in Int, NEW b \in Int
  PROVE Max({a, b}) = IF a <= b THEN b ELSE a
BY DEF Max

LEMMA ClampRange ==
  ASSUME NEW value \in Int, NEW lowest \in Int, NEW highest \in Int, lowest <= highest
  PROVE Clamp(value, lowest, highest) \in lowest .. highest
<1>1. Min({value, highest}) \in Int /\ Min({value, highest}) <= highest
  BY MinPair
<1> HIDE DEF Min
<1>2. Clamp(value, lowest, highest) = IF lowest <= Min({value, highest})
                                      THEN Min({value, highest}) ELSE lowest
  BY <1>1, MaxPair DEF Clamp
<1> QED
  BY <1>1, <1>2

\* Drawing never leaves the screen (SetPixel clips).
LEMMA DrawnType ==
  ASSUME NEW s \in Screen, NEW image
  PROVE Drawn(s, image) \in Screen /\ Drawn(s, image).x = s.x /\ Drawn(s, image).y = s.y
        /\ Drawn(s, image).mx = s.mx /\ Drawn(s, image).my = s.my
BY DEF Drawn, Screen

LEMMA NextLineOnScreen ==
  ASSUME NEW s \in Screen, NEW y \in Nat
  PROVE NextLine(s, y) \in 0 .. DISPLAY_HEIGHT - 1
BY DEF NextLine, CellHeight, Screen, FONT_HEIGHT, DISPLAY_HEIGHT

\* A character takes the cursor to a place on the screen.
LEMMA AdvanceOnScreen ==
  ASSUME NEW s \in Screen
  PROVE /\ AdvanceCursor(s, <<s.x, s.y>>)[1] \in 0 .. DISPLAY_WIDTH - 1
        /\ AdvanceCursor(s, <<s.x, s.y>>)[2] \in 0 .. DISPLAY_HEIGHT - 1
<1>1. s.x \in 0 .. 111 /\ s.y \in 0 .. 15 /\ s.mx \in 1 .. 4
  BY DEF Screen, DISPLAY_WIDTH, DISPLAY_HEIGHT
<1>2. NextLine(s, s.y) \in 0 .. DISPLAY_HEIGHT - 1
  BY <1>1, NextLineOnScreen
<1>3. (s.x + CellWidth(s)) % 65536 \in Nat
  BY <1>1 DEF CellWidth, FONT_WIDTH
<1> QED
  BY <1>1, <1>2, <1>3 DEF AdvanceCursor, DISPLAY_WIDTH, DISPLAY_HEIGHT

\* Moving the cursor to a place on the screen, or along one axis.
LEMMA MovedType ==
  ASSUME NEW s \in Screen,
         NEW x \in 0 .. DISPLAY_WIDTH - 1, NEW y \in 0 .. DISPLAY_HEIGHT - 1
  PROVE /\ [s EXCEPT !.x = x, !.y = y] \in Screen
        /\ [s EXCEPT !.x = x] \in Screen
        /\ [s EXCEPT !.y = y] \in Screen
BY DEF Screen

LEMMA SetCursorType ==
  ASSUME NEW s \in Screen, NEW x \in Nat, NEW y \in Nat
  PROVE SetCursor(s, x, y) \in Screen
<1>1. Min({x, DISPLAY_WIDTH - 1}) \in 0 .. DISPLAY_WIDTH - 1
  <2>1. 111 \in Nat
    OBVIOUS
  <2>2. Min({x, 111}) = IF x <= 111 THEN x ELSE 111
    BY <2>1, MinPair
  <2> QED
    BY <2>2 DEF DISPLAY_WIDTH
<1>2. Min({(y * ROW_HEIGHT_DOTS) % 65536, DISPLAY_HEIGHT - 1}) \in 0 .. DISPLAY_HEIGHT - 1
  <2>1. (y * ROW_HEIGHT_DOTS) % 65536 \in Nat
    BY DEF ROW_HEIGHT_DOTS
  <2> QED
    BY <2>1, MinPair DEF DISPLAY_HEIGHT
<1> QED
  <2> DEFINE left == Min({x, DISPLAY_WIDTH - 1})
             top == Min({(y * ROW_HEIGHT_DOTS) % 65536, DISPLAY_HEIGHT - 1})
  <2>1. SetCursor(s, x, y) = [s EXCEPT !.x = left, !.y = top]
    BY DEF SetCursor
  <2> HIDE DEF left, top
  <2>2. left \in 0 .. DISPLAY_WIDTH - 1 /\ top \in 0 .. DISPLAY_HEIGHT - 1
    BY <1>1, <1>2 DEF left, top
  <2>3. [s EXCEPT !.x = left, !.y = top] \in Screen
    BY <2>2 DEF Screen
  <2> QED
    BY <2>1, <2>3

LEMMA BackspaceType ==
  ASSUME NEW s \in Screen
  PROVE ProcessBackspace(s) \in Screen
<1>1. /\ s.x \in 0 .. 111 /\ s.y \in 0 .. 15
      /\ CellWidth(s) \in 5 .. 20 /\ CellHeight(s) \in 7 .. 14
  BY DEF Screen, CellWidth, CellHeight, FONT_WIDTH, FONT_HEIGHT, DISPLAY_WIDTH, DISPLAY_HEIGHT
<1>2. CASE s.x >= CellWidth(s)
  <2>1. s.x - CellWidth(s) \in 0 .. DISPLAY_WIDTH - 1
    BY <1>1, <1>2 DEF DISPLAY_WIDTH
  <2>2. s.y \in 0 .. DISPLAY_HEIGHT - 1
    BY DEF Screen
  <2> QED
    BY <1>2, <2>1, <2>2, MovedType DEF ProcessBackspace
<1>3. CASE ~(s.x >= CellWidth(s))
  <2> DEFINE y == IF s.y >= CellHeight(s) THEN s.y - CellHeight(s)
                  ELSE DISPLAY_HEIGHT - CellHeight(s)
  <2>1. DISPLAY_WIDTH - CellWidth(s) \in 0 .. DISPLAY_WIDTH - 1
    BY <1>1 DEF DISPLAY_WIDTH
  <2>2. y \in 0 .. DISPLAY_HEIGHT - 1
    BY <1>1 DEF DISPLAY_HEIGHT
  <2>3. ProcessBackspace(s) = [s EXCEPT !.x = DISPLAY_WIDTH - CellWidth(s), !.y = y]
    BY <1>3 DEF ProcessBackspace, Screen
  <2> DEFINE x == DISPLAY_WIDTH - CellWidth(s)
  <2>4. x \in 0 .. DISPLAY_WIDTH - 1
    BY <2>1
  <2> HIDE DEF x, y
  <2>5. [s EXCEPT !.x = x, !.y = y] \in Screen
    BY <2>2, <2>4 DEF Screen
  <2> QED
    BY <2>3, <2>5 DEF x
<1> QED
  BY <1>2, <1>3

LEMMA HorizontalTabType ==
  ASSUME NEW s \in Screen
  PROVE ProcessHorizontalTab(s) \in Screen
<1> DEFINE tab == 4 * CellWidth(s)
           x == ((s.x \div tab) + 1) * tab
<1>1. s.x \in 0 .. 111 /\ s.y \in 0 .. 15 /\ s.mx \in 1 .. 4
  BY DEF Screen, DISPLAY_WIDTH, DISPLAY_HEIGHT
<1>2. tab \in {20, 40, 60, 80}
  BY <1>1 DEF CellWidth, FONT_WIDTH
<1>3. x \in Nat
  BY <1>1, <1>2
<1>4. NextLine(s, s.y) \in 0 .. DISPLAY_HEIGHT - 1
  BY <1>1, NextLineOnScreen
<1>5. CASE x >= DISPLAY_WIDTH
  <2>1. 0 \in 0 .. DISPLAY_WIDTH - 1
    BY DEF DISPLAY_WIDTH
  <2>2. ProcessHorizontalTab(s) = [s EXCEPT !.x = 0, !.y = NextLine(s, s.y)]
    BY <1>5 DEF ProcessHorizontalTab, Screen
  <2> DEFINE left == 0
             top == NextLine(s, s.y)
  <2>3. ProcessHorizontalTab(s) = [s EXCEPT !.x = left, !.y = top]
    BY <2>2
  <2>4. left \in 0 .. DISPLAY_WIDTH - 1 /\ top \in 0 .. DISPLAY_HEIGHT - 1
    BY <1>4, <2>1
  <2> HIDE DEF left, top
  <2>5. [s EXCEPT !.x = left, !.y = top] \in Screen
    BY <2>4, MovedType
  <2> QED
    BY <2>3, <2>5
<1>6. CASE ~(x >= DISPLAY_WIDTH)
  <2>1. x \in 0 .. DISPLAY_WIDTH - 1
    BY <1>3, <1>6 DEF DISPLAY_WIDTH
  <2> QED
    <3>1. s.y \in 0 .. DISPLAY_HEIGHT - 1
      BY DEF Screen
    <3>2. ProcessHorizontalTab(s) = [s EXCEPT !.x = x]
      BY <1>6 DEF ProcessHorizontalTab, Screen
    <3> HIDE DEF x
    <3>3. [s EXCEPT !.x = x] \in Screen
      BY <2>1, <3>1, MovedType
    <3> QED
      BY <3>2, <3>3
<1> QED
  BY <1>5, <1>6

LEMMA CharacterType ==
  ASSUME NEW s \in Screen, NEW character
  PROVE ProcessCharacterDisplay(s, character) \in Screen
BY DrawnType, AdvanceOnScreen DEF ProcessCharacterDisplay, Screen

\* Sixteen bits read from two bytes are a number.
LEMMA TwoBytes == \A low, high \in Byte : low + 256 * high \in Nat
BY DEF Byte

LEMMA BytesAreIntegers == \A byte \in Byte : byte \in Int
BY DEF Byte

\* Commands that read their arguments as numbers have them.
HasItsArguments(name, args) ==
  /\ name = "CursorSet" => Len(args) >= 4
  /\ name = "FontMagnificationSet" => Len(args) >= 2
  /\ name = "RealTimeBitImageDisplay" => Len(args) >= 9

\* No command takes the cursor off the screen or the magnification out of
\* its limits.
LEMMA ExecutedType ==
  ASSUME NEW s \in Screen, NEW name, NEW args \in Seq(Byte), HasItsArguments(name, args)
  PROVE Executed(name, args, s) \in Screen
<1>1. CASE name = "Character"
  BY <1>1, CharacterType DEF Executed
<1>2. CASE name = "Backspace"
  BY <1>2, BackspaceType DEF Executed
<1>3. CASE name = "HorizontalTab"
  BY <1>3, HorizontalTabType DEF Executed
<1>4. CASE name = "LineFeed"
  <2>1. s.y \in Nat
    BY DEF Screen, DISPLAY_HEIGHT
  <2>2. NextLine(s, s.y) \in 0 .. DISPLAY_HEIGHT - 1
    BY <2>1, NextLineOnScreen
  <2> QED
    BY <1>4, <2>2 DEF Executed, ProcessLineFeed, Screen
<1>5. CASE name \in {"HomePosition", "DisplayClear", "CarriageReturn"}
  <2>1. 0 \in 0 .. DISPLAY_WIDTH - 1 /\ 0 \in 0 .. DISPLAY_HEIGHT - 1
    BY DEF DISPLAY_WIDTH, DISPLAY_HEIGHT
  <2>2. ProcessHomePosition(s) \in Screen /\ ProcessCarriageReturn(s) \in Screen
    BY <2>1, MovedType DEF ProcessHomePosition, ProcessCarriageReturn
  <2>3. ProcessDisplayClear(s) \in Screen
    BY <2>1 DEF ProcessDisplayClear, Screen
  <2> QED
    BY <1>5, <2>2, <2>3 DEF Executed
<1>11. CASE name = "InitializeDisplay"
  BY <1>11 DEF Executed, BlankScreen, Screen, DISPLAY_WIDTH, DISPLAY_HEIGHT
<1>6. CASE name = "PrintAtPosition"
  BY <1>6, DrawnType DEF Executed, ProcessCharacterDisplayAtPosition
<1>7. CASE name = "CursorSet"
  <2>1. Word(args, 1) \in Nat /\ Word(args, 3) \in Nat
    <3>1. Len(args) \in Nat /\ Len(args) >= 4
      BY <1>7 DEF HasItsArguments
    <3>2. 1 \in 1 .. Len(args) /\ 2 \in 1 .. Len(args) /\ 3 \in 1 .. Len(args) /\ 4 \in 1 .. Len(args)
      BY <3>1
    <3>3. args[1] \in Byte /\ args[2] \in Byte /\ args[3] \in Byte /\ args[4] \in Byte
      BY <3>2, ElementOfSeq
    <3>4. args[1] + 256 * args[2] \in Nat /\ args[3] + 256 * args[4] \in Nat
      BY <3>3, TwoBytes, Zenon
    <3>5. Word(args, 1) = args[1] + 256 * args[2] /\ Word(args, 3) = args[3] + 256 * args[4]
      BY DEF Word
    <3> QED
      BY <3>4, <3>5, Zenon
  <2> QED
    BY <1>7, <2>1, SetCursorType DEF Executed, ProcessCursorSet
<1>8. CASE name = "ScreenSaver"
  BY <1>8 DEF Executed, ProcessScreenSaver, Screen
<1>9. CASE name = "RealTimeBitImageDisplay"
  BY <1>9, DrawnType DEF Executed, ProcessRealTimeBitImageDisplay
<1>10. CASE name = "FontMagnificationSet"
  <2>1. args[1] \in Int /\ args[2] \in Int
    <3>1. Len(args) \in Nat /\ Len(args) >= 2
      BY <1>10 DEF HasItsArguments
    <3>2. 1 \in 1 .. Len(args) /\ 2 \in 1 .. Len(args)
      BY <3>1
    <3>3. args[1] \in Byte /\ args[2] \in Byte
      BY <3>2, ElementOfSeq
    <3> QED
      BY <3>3, BytesAreIntegers, Zenon
  <2>2. Clamp(args[1], 1, 4) \in 1 .. 4
    <3>1. 1 \in Int /\ 4 \in Int /\ 1 <= 4
      OBVIOUS
    <3> QED
      BY <2>1, <3>1, ClampRange, Zenon
  <2>3. Clamp(args[2], 1, 2) \in 1 .. 2
    <3>1. 1 \in Int /\ 2 \in Int /\ 1 <= 2
      OBVIOUS
    <3> QED
      BY <2>1, <3>1, ClampRange, Zenon
  <2> QED
    BY <1>10, <2>2, <2>3 DEF Executed, ProcessFontMagnificationSet, Screen
<1> QED
  BY <1>1, <1>2, <1>3, <1>4, <1>5, <1>6, <1>7, <1>8, <1>9, <1>10, <1>11 DEF Executed

-----------------------------------------------------------------------------
(* The command table                                                       *)

\* The rows of the table are what a row should be.
LEMMA RowsType ==
  ASSUME NEW row \in CommandTable
  PROVE /\ row.key \in Seq(Byte)
        /\ row.FixedArgumentBytes \in Nat
        /\ row.Name = "CursorSet" => row.FixedArgumentBytes = 4
        /\ row.Name = "FontMagnificationSet" => row.FixedArgumentBytes = 2
        /\ row.Name = "PrintAtPosition" => row.FixedArgumentBytes = 6
        /\ row.Name = "RealTimeBitImageDisplay" => row.FixedArgumentBytes = 9
<1>1. row.key \in Seq(Byte)
  <2>1. \/ row.key = <<8>> \/ row.key = <<9>> \/ row.key = <<10>>
        \/ row.key = <<11>> \/ row.key = <<12>> \/ row.key = <<13>>
        \/ row.key = <<27, 64>> \/ row.key = <<27, 37>> \/ row.key = <<27, 38>>
        \/ row.key = <<27, 63>> \/ row.key = <<27, 82>> \/ row.key = <<27, 116>>
        \/ row.key = <<31, 36>>
        \/ row.key = <<31, 40, 1>> \/ row.key = <<31, 40, 2>> \/ row.key = <<31, 40, 3>>
        \/ row.key = <<31, 40, 88>> \/ row.key = <<31, 40, 114>> \/ row.key = <<31, 40, 115>>
        \/ row.key = <<31, 40, 119>>
        \/ row.key = <<31, 40, 100, 48>> \/ row.key = <<31, 40, 97, 1>> \/ row.key = <<31, 40, 97, 16>>
        \/ row.key = <<31, 40, 97, 17>> \/ row.key = <<31, 40, 97, 64>> \/ row.key = <<31, 40, 100, 33>>
        \/ row.key = <<31, 40, 103, 3>> \/ row.key = <<31, 40, 103, 64>> \/ row.key = <<31, 40, 119, 1>>
        \/ row.key = <<31, 40, 119, 2>> \/ row.key = <<31, 40, 119, 16>>
    BY SMTT(30) DEF CommandTable, Row
  <2>2. CASE \/ row.key = <<8>> \/ row.key = <<9>> \/ row.key = <<10>>
             \/ row.key = <<11>> \/ row.key = <<12>> \/ row.key = <<13>>
    <3>1. /\ <<8>> \in Seq(Byte) /\ <<9>> \in Seq(Byte) /\ <<10>> \in Seq(Byte)
          /\ <<11>> \in Seq(Byte) /\ <<12>> \in Seq(Byte) /\ <<13>> \in Seq(Byte)
      BY DEF Byte
    <3> QED
      BY <2>2, <3>1, Zenon
  <2>3. CASE \/ row.key = <<27, 64>> \/ row.key = <<27, 37>> \/ row.key = <<27, 38>>
             \/ row.key = <<27, 63>> \/ row.key = <<27, 82>> \/ row.key = <<27, 116>>
             \/ row.key = <<31, 36>>
    <3>1. /\ <<27, 64>> \in Seq(Byte) /\ <<27, 37>> \in Seq(Byte) /\ <<27, 38>> \in Seq(Byte)
          /\ <<27, 63>> \in Seq(Byte) /\ <<27, 82>> \in Seq(Byte) /\ <<27, 116>> \in Seq(Byte)
          /\ <<31, 36>> \in Seq(Byte)
      BY DEF Byte
    <3> QED
      BY <2>3, <3>1, Zenon
  <2>4. CASE \/ row.key = <<31, 40, 1>> \/ row.key = <<31, 40, 2>> \/ row.key = <<31, 40, 3>>
             \/ row.key = <<31, 40, 88>> \/ row.key = <<31, 40, 114>> \/ row.key = <<31, 40, 115>>
             \/ row.key = <<31, 40, 119>>
    <3>1. /\ <<31, 40, 1>> \in Seq(Byte) /\ <<31, 40, 2>> \in Seq(Byte) /\ <<31, 40, 3>> \in Seq(Byte)
          /\ <<31, 40, 88>> \in Seq(Byte) /\ <<31, 40, 114>> \in Seq(Byte) /\ <<31, 40, 115>> \in Seq(Byte)
          /\ <<31, 40, 119>> \in Seq(Byte)
      BY DEF Byte
    <3> QED
      BY <2>4, <3>1, Zenon
  <2>5. CASE \/ row.key = <<31, 40, 100, 48>> \/ row.key = <<31, 40, 97, 1>> \/ row.key = <<31, 40, 97, 16>>
             \/ row.key = <<31, 40, 97, 17>> \/ row.key = <<31, 40, 97, 64>> \/ row.key = <<31, 40, 100, 33>>
    <3>1. /\ <<31, 40, 100, 48>> \in Seq(Byte) /\ <<31, 40, 97, 1>> \in Seq(Byte) /\ <<31, 40, 97, 16>> \in Seq(Byte)
          /\ <<31, 40, 97, 17>> \in Seq(Byte) /\ <<31, 40, 97, 64>> \in Seq(Byte) /\ <<31, 40, 100, 33>> \in Seq(Byte)
      BY DEF Byte
    <3> QED
      BY <2>5, <3>1, Zenon
  <2>6. CASE \/ row.key = <<31, 40, 103, 3>> \/ row.key = <<31, 40, 103, 64>> \/ row.key = <<31, 40, 119, 1>>
             \/ row.key = <<31, 40, 119, 2>> \/ row.key = <<31, 40, 119, 16>>
    <3>1. /\ <<31, 40, 103, 3>> \in Seq(Byte) /\ <<31, 40, 103, 64>> \in Seq(Byte) /\ <<31, 40, 119, 1>> \in Seq(Byte)
          /\ <<31, 40, 119, 2>> \in Seq(Byte) /\ <<31, 40, 119, 16>> \in Seq(Byte)
      BY DEF Byte
    <3> QED
      BY <2>6, <3>1, Zenon
  <2> QED
    BY <2>1, <2>2, <2>3, <2>4, <2>5, <2>6, Zenon
<1>2. row.FixedArgumentBytes \in Nat
  BY SMTT(30) DEF CommandTable, Row
<1>3. row.Name = "CursorSet" => row.FixedArgumentBytes = 4
  BY SMTT(30) DEF CommandTable, Row
<1>4. row.Name = "FontMagnificationSet" => row.FixedArgumentBytes = 2
  BY SMTT(30) DEF CommandTable, Row
<1>5. row.Name = "PrintAtPosition" => row.FixedArgumentBytes = 6
  BY SMTT(30) DEF CommandTable, Row
<1>6. row.Name = "RealTimeBitImageDisplay" => row.FixedArgumentBytes = 9
  BY SMTT(30) DEF CommandTable, Row
<1> QED
  BY <1>1, <1>2, <1>3, <1>4, <1>5, <1>6

LEMMA CommandsRows ==
  \A name : (\E row \in CommandTable : row.Name = name) => KeyOf(name) \in Seq(Byte)
<1> SUFFICES ASSUME NEW name, \E row \in CommandTable : row.Name = name
             PROVE KeyOf(name) \in Seq(Byte)
  OBVIOUS
<1> DEFINE chosen == CHOOSE row \in CommandTable : row.Name = name
<1>1. chosen \in CommandTable
  OBVIOUS
<1> HIDE DEF chosen
<1>2. chosen.key \in Seq(Byte)
  BY <1>1, RowsType
<1> QED
  BY <1>2 DEF KeyOf, chosen

LEMMA EncodedType ==
  ASSUME NEW c \in Commands
  PROVE Encoded(c) \in Seq(Byte)
<1>1. c.args \in Seq(Byte)
  BY GuCommands
<1>2. CASE c.name = "Character"
  BY <1>1, <1>2 DEF Encoded
<1>3. CASE c.name # "Character"
  <2>1. KeyOf(c.name) \in Seq(Byte)
    BY <1>3, GuCommands, CommandsRows
  <2> QED
    BY <1>1, <1>3, <2>1, ConcatProperties DEF Encoded
<1> QED
  BY <1>2, <1>3

\* The size of an image, and the bytes it takes.
LEMMA ImageSizes ==
  ASSUME NEW args \in Seq(Byte), Len(args) >= 9
  PROVE ImageWidth(args) \in Nat /\ ImageHeight(args) \in Nat /\ ImageBytes(args) \in Nat
<1>1. 5 \in 1 .. Len(args) /\ 6 \in 1 .. Len(args) /\ 7 \in 1 .. Len(args) /\ 8 \in 1 .. Len(args)
  BY LenProperties
<1>2. args[5] \in Byte /\ args[6] \in Byte /\ args[7] \in Byte /\ args[8] \in Byte
  BY <1>1, ElementOfSeq
<1>3. args[5] + 256 * args[6] \in Nat /\ args[7] + 256 * args[8] \in Nat
  BY <1>2, TwoBytes, Zenon
<1>4. ImageWidth(args) \in Nat /\ ImageHeight(args) \in Nat
  BY <1>3 DEF ImageWidth, ImageHeight, Word
<1>5. ImageHeight(args) \div 8 \in Nat
  BY <1>4
<1>6. \A m, n \in Nat : m * n \in Nat
  OBVIOUS
<1> QED
  BY <1>4, <1>5, <1>6 DEF ImageBytes

LEMMA VariableBytesType ==
  ASSUME NEW row \in CommandTable, NEW args \in Seq(Byte),
         Len(args) = row.FixedArgumentBytes
  PROVE VariableBytes(row.Name, args) \in Uint16
<1>1. CASE row.Name = "PrintAtPosition"
  <2>1. Len(args) = 6
    BY <1>1, RowsType
  <2>2. 6 \in 1 .. Len(args)
    BY <2>1
  <2>3. args[6] \in Byte
    BY <2>2, ElementOfSeq
  <2>4. VariableBytes(row.Name, args) = args[6]
    BY <1>1 DEF VariableBytes
  <2>5. \A byte \in Byte : byte \in Uint16
    BY DEF Byte, Uint16
  <2> QED
    BY <2>3, <2>4, <2>5, Zenon
<1>2. CASE row.Name = "RealTimeBitImageDisplay"
  <2>1. Len(args) = 9
    BY <1>2, RowsType
  <2>2. Len(args) >= 9
    BY <2>1
  <2>3. ImageBytes(args) \in Nat
    BY <2>2, ImageSizes
  <2>4. VariableBytes(row.Name, args) = ImageBytes(args) % 65536
    BY <1>2 DEF VariableBytes
  <2>5. \A n \in Nat : n % 65536 \in Uint16
    BY DEF Uint16
  <2> QED
    BY <2>3, <2>4, <2>5
<1>3. CASE row.Name \notin {"PrintAtPosition", "RealTimeBitImageDisplay"}
  <2>1. VariableBytes(row.Name, args) = 0
    BY <1>3 DEF VariableBytes
  <2> QED
    BY <2>1 DEF Uint16
<1> QED
  BY <1>1, <1>2, <1>3

-----------------------------------------------------------------------------
(* The interpreter                                                         *)

\* What has been gathered of a command belongs to that command.
Gathered ==
  /\ state \in {"Idle", "GettingCommand"} => command_arguments = <<>>
  /\ state \in {"GettingCommandArguments", "GettingVariableArgs"} => CurrentCommand \in CommandTable
  /\ state = "GettingCommandArguments" => Len(command_arguments) < CurrentCommand.FixedArgumentBytes
  /\ state = "GettingVariableArgs" => Len(command_arguments) >= CurrentCommand.FixedArgumentBytes

ParserTypeOK ==
  /\ state \in State
  /\ command_buffer \in Seq(Byte)
  /\ command_arguments \in Seq(Byte)
  /\ CurrentCommand \in CommandTable \cup {NoCommand}
  /\ variable_bytes \in Uint16

MachineTypeOK == screen \in Screen /\ process \in {"running", "aborted", "hung"}

Inner == ParserTypeOK /\ Gathered /\ MachineTypeOK

GuIInv == Inner /\ outgoing \in Seq(Byte)

\* A row's command is executed once its arguments are there.
LEMMA RowHasItsArguments ==
  ASSUME NEW row \in CommandTable, NEW args \in Seq(Byte), Len(args) >= row.FixedArgumentBytes
  PROVE HasItsArguments(row.Name, args)
BY RowsType DEF HasItsArguments

LEMMA ExecuteType ==
  ASSUME Inner, NEW name, NEW args \in Seq(Byte), HasItsArguments(name, args),
         Execute(name, args)
  PROVE Inner'
<1>1. process' \in {"running", "aborted", "hung"}
  BY DEF Execute, Outcomes
<1>2. CASE process' = "running"
  <2>1. screen' = Executed(name, args, screen) /\ ResetCommandState
    BY <1>2 DEF Execute
  <2>2. screen' \in Screen
    BY <2>1, ExecutedType DEF Inner, MachineTypeOK
  <2> QED
    BY <1>1, <2>1, <2>2 DEF Inner, ParserTypeOK, Gathered, MachineTypeOK, ResetCommandState, State, Uint16
<1>3. CASE process' # "running"
  <2>1. UNCHANGED parser /\ UNCHANGED screen
    BY <1>3 DEF Execute
  <2>2. ParserTypeOK' /\ Gathered'
    BY <2>1 DEF Inner, ParserTypeOK, Gathered, parser
  <2> QED
    BY <1>1, <2>1, <2>2 DEF Inner, MachineTypeOK
<1> QED
  BY <1>2, <1>3

LEMMA ByteType ==
  ASSUME Inner, NEW byte \in Byte, ProcessCommand(byte)
  PROVE Inner'
<1>1. CASE CharacterByte(byte)
  <2>1. <<byte>> \in Seq(Byte) /\ HasItsArguments("Character", <<byte>>)
    BY DEF HasItsArguments
  <2> QED
    BY <1>1, <2>1, ExecuteType DEF CharacterByte
<1>2. CASE CommandByte(byte)
  <2> DEFINE key == Append(command_buffer, byte)
  <2>1. key \in Seq(Byte)
    BY AppendProperties DEF Inner, ParserTypeOK
  <2>2. command_arguments = <<>>
    BY <1>2 DEF CommandByte, Inner, Gathered
  <2>3. CASE \E row \in CommandTable :
               row.key = key /\ row.FixedArgumentBytes = 0 /\ Execute(row.Name, command_arguments)
    <3>1. PICK row \in CommandTable : row.FixedArgumentBytes = 0 /\ Execute(row.Name, command_arguments)
      BY <2>3
    <3>2. command_arguments \in Seq(Byte) /\ Len(command_arguments) >= row.FixedArgumentBytes
      BY <2>2, <3>1
    <3> QED
      BY <3>1, <3>2, RowHasItsArguments, ExecuteType
  <2>4. CASE \E row \in CommandTable :
               /\ row.FixedArgumentBytes > 0
               /\ CurrentCommand' = row
               /\ state' = "GettingCommandArguments"
               /\ command_buffer' = key
               /\ UNCHANGED <<command_arguments, variable_bytes>>
               /\ Collect
    <3> HIDE DEF key
    <3> QED
      BY <2>1, <2>2, <2>4 DEF Inner, ParserTypeOK, Gathered, MachineTypeOK, Collect, State
  <2>5. CASE /\ state' = "GettingCommand"
             /\ command_buffer' = key
             /\ UNCHANGED <<command_arguments, CurrentCommand, variable_bytes>>
             /\ Collect
    <3> HIDE DEF key
    <3> QED
      BY <2>1, <2>2, <2>5 DEF Inner, ParserTypeOK, Gathered, MachineTypeOK, Collect, State
  <2> QED
    BY <1>2, <2>3, <2>4, <2>5 DEF CommandByte
<1>3. CASE ArgumentByte(byte)
  <2> DEFINE args == Append(command_arguments, byte)
             fixed == CurrentCommand.FixedArgumentBytes
  <2>1. args \in Seq(Byte) /\ Len(args) = Len(command_arguments) + 1
    BY AppendProperties DEF Inner, ParserTypeOK
  <2>2. CurrentCommand \in CommandTable /\ state = "GettingCommandArguments"
    BY <1>3 DEF ArgumentByte, Inner, Gathered
  <2>3. Len(args) <= fixed /\ fixed \in Nat /\ Len(args) \in Nat
    <3>1. Len(command_arguments) < fixed /\ Len(command_arguments) \in Nat
      BY <2>2 DEF Inner, Gathered, ParserTypeOK
    <3> QED
      BY <2>1, <2>2, <3>1, RowsType
  <2> HIDE DEF args, fixed
  <2>4. CASE /\ Len(args) # fixed
             /\ command_arguments' = args
             /\ UNCHANGED <<state, command_buffer, CurrentCommand, variable_bytes>>
             /\ Collect
    <3>1. Len(args) < fixed
      BY <2>3, <2>4
    <3> QED
      BY <2>1, <2>2, <2>4, <3>1 DEF Inner, ParserTypeOK, Gathered, MachineTypeOK, Collect, fixed
  <2>5. CASE /\ Len(args) = fixed
             /\ command_arguments' = args
             /\ variable_bytes' = VariableBytes(CurrentCommand.Name, args)
             /\ state' = "GettingVariableArgs"
             /\ UNCHANGED <<command_buffer, CurrentCommand>>
             /\ Collect
    <3>1. variable_bytes' \in Uint16
      <4>1. Len(args) = CurrentCommand.FixedArgumentBytes
        BY <2>5 DEF fixed
      <4>2. VariableBytes(CurrentCommand.Name, args) \in Uint16
        BY <2>1, <2>2, <4>1, VariableBytesType, Zenon
      <4> QED
        BY <2>5, <4>2, Zenon
    <3>2. ParserTypeOK'
      BY <2>1, <2>5, <3>1 DEF Inner, ParserTypeOK, State
    <3>3. Len(args) >= CurrentCommand.FixedArgumentBytes
      BY <2>3, <2>5 DEF fixed
    <3>4. Gathered'
      BY <2>2, <2>5, <3>3 DEF Gathered
    <3> QED
      BY <2>5, <3>2, <3>4 DEF Inner, MachineTypeOK, Collect
  <2>6. CASE Len(args) = fixed /\ Execute(CurrentCommand.Name, args)
    <3>1. Len(args) >= CurrentCommand.FixedArgumentBytes
      BY <2>3, <2>6 DEF fixed
    <3> QED
      BY <2>1, <2>2, <2>6, <3>1, RowHasItsArguments, ExecuteType
  <2> QED
    BY <1>3, <2>4, <2>5, <2>6 DEF ArgumentByte, args, fixed
<1>4. CASE VariableByte(byte)
  <2> DEFINE args == Append(command_arguments, byte)
  <2>1. args \in Seq(Byte) /\ Len(args) = Len(command_arguments) + 1
    BY AppendProperties DEF Inner, ParserTypeOK
  <2>2. CurrentCommand \in CommandTable /\ state = "GettingVariableArgs"
    BY <1>4 DEF VariableByte, Inner, Gathered
  <2>3. Len(args) >= CurrentCommand.FixedArgumentBytes
    <3>1. Len(command_arguments) >= CurrentCommand.FixedArgumentBytes /\ Len(command_arguments) \in Nat
      BY <2>2 DEF Inner, Gathered, ParserTypeOK
    <3> QED
      BY <2>1, <2>2, <3>1, RowsType
  <2> HIDE DEF args
  <2>4. CASE /\ command_arguments' = args
             /\ UNCHANGED <<state, command_buffer, CurrentCommand, variable_bytes>>
             /\ Collect
    BY <2>1, <2>2, <2>3, <2>4 DEF Inner, ParserTypeOK, Gathered, MachineTypeOK, Collect
  <2>5. CASE Execute(CurrentCommand.Name, args)
    BY <2>1, <2>2, <2>3, <2>5, RowHasItsArguments, ExecuteType
  <2> QED
    BY <1>4, <2>4, <2>5 DEF VariableByte, args
<1> QED
  BY <1>1, <1>2, <1>3, <1>4 DEF ProcessCommand

LEMMA GuIInvInit == GuInit => GuIInv
<1> SUFFICES ASSUME GuInit PROVE GuIInv
  OBVIOUS
<1>1. BlankScreen \in Screen
  BY DEF BlankScreen, Screen, DISPLAY_WIDTH, DISPLAY_HEIGHT
<1>2. <<>> \in Seq(Byte)
  OBVIOUS
<1> QED
  BY <1>1, <1>2 DEF GuInit, GuIInv, Inner, ParserTypeOK, Gathered, MachineTypeOK, State, Uint16

LEMMA GuIInvStep == GuIInv /\ [GuNext]_guVars => GuIInv'
<1> SUFFICES ASSUME GuIInv, [GuNext]_guVars PROVE GuIInv'
  OBVIOUS
<1>1. ASSUME NEW c \in Commands, SendCommand(c) PROVE GuIInv'
  <2>1. outgoing' \in Seq(Byte)
    BY <1>1, EncodedType DEF SendCommand
  <2> QED
    <3>1. UNCHANGED parser /\ UNCHANGED screen /\ UNCHANGED process
      BY <1>1 DEF SendCommand
    <3>2. ParserTypeOK' /\ Gathered'
      BY <3>1 DEF GuIInv, Inner, ParserTypeOK, Gathered, parser
    <3> QED
      BY <2>1, <3>1, <3>2 DEF GuIInv, Inner, MachineTypeOK
<1>2. CASE ReceiveByte
  <2>1. outgoing \in Seq(Byte) /\ outgoing # <<>>
    BY <1>2 DEF ReceiveByte, GuIInv
  <2>2. Head(outgoing) \in Byte /\ Tail(outgoing) \in Seq(Byte)
    BY <2>1, HeadTailProperties
  <2>3. Inner'
    BY <1>2, <2>2, ByteType DEF ReceiveByte, GuIInv
  <2> QED
    BY <1>2, <2>2, <2>3 DEF ReceiveByte, GuIInv
<1>3. CASE UNCHANGED guVars
  BY <1>3 DEF guVars, parser, GuIInv, Inner, ParserTypeOK, Gathered, MachineTypeOK
<1> QED
  BY <1>1, <1>2, <1>3 DEF GuNext

(***************************************************************************)
(* Whatever the firmware sends, for every font and however long: the       *)
(* cursor stays on the screen, the magnification in its limits, and a      *)
(* command that reads its arguments as numbers has them.                   *)
(***************************************************************************)
THEOREM GuTypeCorrect == GuSpec => []GuTypeOK
<1>1. GuIInv => GuTypeOK
  BY DEF GuIInv, Inner, ParserTypeOK, MachineTypeOK, GuTypeOK
<1> QED
  BY <1>1, GuIInvInit, GuIInvStep, PTL DEF GuSpec
-----------------------------------------------------------------------------
(* What was executed                                                       *)

Names == {"Character"} \cup {row.Name : row \in CommandTable}

\* A command that was executed, with the cursor before it.
Entry == [name : Names, args : Seq(Byte), x : 0 .. DISPLAY_WIDTH - 1, y : 0 .. DISPLAY_HEIGHT - 1]

\* A byte executes one command, with the arguments it needs, or none.
LEMMA ByteExecutesOrCollects ==
  ASSUME Inner, NEW byte \in Byte, ProcessCommand(byte)
  PROVE \/ Collect
        \/ \E name \in Names, args \in Seq(Byte) : HasItsArguments(name, args) /\ Execute(name, args)
<1>1. CASE CharacterByte(byte)
  <2>1. <<byte>> \in Seq(Byte) /\ HasItsArguments("Character", <<byte>>) /\ "Character" \in Names
    BY DEF HasItsArguments, Names
  <2> QED
    BY <1>1, <2>1 DEF CharacterByte
<1>2. CASE CommandByte(byte)
  <2>1. command_arguments = <<>> /\ command_arguments \in Seq(Byte)
    BY <1>2 DEF CommandByte, Inner, Gathered, ParserTypeOK
  <2>2. ASSUME NEW row \in CommandTable, row.FixedArgumentBytes = 0, Execute(row.Name, command_arguments)
        PROVE \E name \in Names, args \in Seq(Byte) : HasItsArguments(name, args) /\ Execute(name, args)
    <3>1. Len(command_arguments) >= row.FixedArgumentBytes
      BY <2>1, <2>2
    <3>2. HasItsArguments(row.Name, command_arguments) /\ row.Name \in Names
      BY <2>1, <3>1, RowHasItsArguments DEF Names
    <3> QED
      BY <2>1, <2>2, <3>2
  <2> QED
    BY <1>2, <2>2 DEF CommandByte
<1>3. CASE ArgumentByte(byte)
  <2> DEFINE args == Append(command_arguments, byte)
  <2>1. args \in Seq(Byte) /\ Len(args) \in Nat
    BY AppendProperties DEF Inner, ParserTypeOK
  <2>2. CurrentCommand \in CommandTable
    BY <1>3 DEF ArgumentByte, Inner, Gathered
  <2> HIDE DEF args
  <2>3. ASSUME Len(args) = CurrentCommand.FixedArgumentBytes, Execute(CurrentCommand.Name, args)
        PROVE \E name \in Names, a \in Seq(Byte) : HasItsArguments(name, a) /\ Execute(name, a)
    <3>1. Len(args) >= CurrentCommand.FixedArgumentBytes
      BY <2>1, <2>3
    <3>2. HasItsArguments(CurrentCommand.Name, args) /\ CurrentCommand.Name \in Names
      BY <2>1, <2>2, <3>1, RowHasItsArguments DEF Names
    <3> QED
      BY <2>1, <2>3, <3>2
  <2> QED
    BY <1>3, <2>3 DEF ArgumentByte, args
<1>4. CASE VariableByte(byte)
  <2> DEFINE args == Append(command_arguments, byte)
  <2>1. args \in Seq(Byte) /\ Len(args) = Len(command_arguments) + 1
    BY AppendProperties DEF Inner, ParserTypeOK
  <2>2. CurrentCommand \in CommandTable
    BY <1>4 DEF VariableByte, Inner, Gathered
  <2>3. Len(args) >= CurrentCommand.FixedArgumentBytes
    <3>1. Len(command_arguments) >= CurrentCommand.FixedArgumentBytes /\ Len(command_arguments) \in Nat
      BY <1>4 DEF VariableByte, Inner, Gathered, ParserTypeOK
    <3> QED
      BY <2>1, <2>2, <3>1, RowsType
  <2> HIDE DEF args
  <2>4. HasItsArguments(CurrentCommand.Name, args) /\ CurrentCommand.Name \in Names
    BY <2>1, <2>2, <2>3, RowHasItsArguments DEF Names
  <2> QED
    BY <1>4, <2>1, <2>4 DEF VariableByte, args
<1> QED
  BY <1>1, <1>2, <1>3, <1>4 DEF ProcessCommand

\* What a command leaves in the history, if it ends.
Recorded(name, args) == [name |-> name, args |-> args, x |-> screen.x, y |-> screen.y]

\* A step of the display executes one command or nothing.
Performs(name, args) ==
  /\ screen' = Executed(name, args, screen)
  /\ executed' = Append(executed, Recorded(name, args))

LEMMA StepPerforms ==
  ASSUME GuIInv, [GuNext]_guVars
  PROVE \/ UNCHANGED screen /\ UNCHANGED executed
        \/ \E name \in Names, args \in Seq(Byte) :
             /\ HasItsArguments(name, args) /\ Performs(name, args)
             /\ "running" \in Outcomes(name, args)
<1>1. CASE ReceiveByte
  <2>1. Head(outgoing) \in Byte
    BY <1>1, HeadTailProperties DEF ReceiveByte, GuIInv
  <2>2. CASE Collect
    BY <2>2 DEF Collect
  <2>3. ASSUME NEW name \in Names, NEW args \in Seq(Byte), HasItsArguments(name, args), Execute(name, args)
        PROVE \/ UNCHANGED screen /\ UNCHANGED executed
              \/ HasItsArguments(name, args) /\ Performs(name, args) /\ "running" \in Outcomes(name, args)
    BY <2>3 DEF Execute, Performs, Recorded
  <2> QED
    BY <1>1, <2>1, <2>2, <2>3, ByteExecutesOrCollects DEF ReceiveByte, GuIInv
<1>2. CASE \E c \in Commands : SendCommand(c)
  BY <1>2 DEF SendCommand
<1>3. CASE UNCHANGED guVars
  BY <1>3 DEF guVars
<1> QED
  BY <1>1, <1>2, <1>3 DEF GuNext

LEMMA RecordedType ==
  ASSUME screen \in Screen, NEW name \in Names, NEW args \in Seq(Byte)
  PROVE Recorded(name, args) \in Entry
BY DEF Recorded, Entry, Screen

\* The cursor after a character comes from the cursor before it.
LastAdvanced ==
  LET n == Len(executed)
  IN n >= 1 /\ executed[n].name = "Character"
     => <<screen.x, screen.y>> = AdvanceCursor(screen, <<executed[n].x, executed[n].y>>)

HistoryInv == executed \in Seq(Entry) /\ LastAdvanced /\ BackspaceReturnsToTheCharacter

\* A backspace undoes the advance of a character that was not cut off.
LEMMA BackspaceUndoesAdvance ==
  ASSUME NEW s \in Screen, NEW x \in 0 .. DISPLAY_WIDTH - 1, NEW y \in 0 .. DISPLAY_HEIGHT - 1,
         <<s.x, s.y>> = AdvanceCursor(s, <<x, y>>),
         x + CellWidth(s) <= DISPLAY_WIDTH, y + CellHeight(s) <= DISPLAY_HEIGHT
  PROVE /\ ProcessBackspace(s).x = x /\ ProcessBackspace(s).y = y
        /\ CellWidth(ProcessBackspace(s)) = CellWidth(s)
        /\ CellHeight(ProcessBackspace(s)) = CellHeight(s)
<1>1. /\ x \in 0 .. 111 /\ y \in 0 .. 15 /\ CellWidth(s) \in 5 .. 20 /\ CellHeight(s) \in 7 .. 14
      /\ x + CellWidth(s) <= 112 /\ y + CellHeight(s) <= 16
  BY DEF Screen, CellWidth, CellHeight, FONT_WIDTH, FONT_HEIGHT, DISPLAY_WIDTH, DISPLAY_HEIGHT
<1>2. /\ (x + CellWidth(s)) % 65536 = x + CellWidth(s)
      /\ (y + CellHeight(s)) % 65536 = y + CellHeight(s)
  BY <1>1
<1>3. CASE x + CellWidth(s) < 112
  <2>1. s.x = x + CellWidth(s) /\ s.y = y
    BY <1>1, <1>2, <1>3 DEF AdvanceCursor, DISPLAY_WIDTH
  <2> QED
    BY <1>1, <2>1 DEF ProcessBackspace, Screen, CellWidth, CellHeight
<1>4. CASE x + CellWidth(s) = 112
  <2>1. s.x = 0 /\ s.y = IF y + CellHeight(s) >= 16 THEN 0 ELSE y + CellHeight(s)
    BY <1>1, <1>2, <1>4 DEF AdvanceCursor, NextLine, DISPLAY_WIDTH, DISPLAY_HEIGHT
  <2>2. ProcessBackspace(s) =
          [s EXCEPT !.x = 112 - CellWidth(s),
                    !.y = IF s.y >= CellHeight(s) THEN s.y - CellHeight(s) ELSE 16 - CellHeight(s)]
    <3>1. ~(s.x >= CellWidth(s))
      BY <1>1, <2>1
    <3> QED
      BY <3>1 DEF ProcessBackspace, Screen, DISPLAY_WIDTH, DISPLAY_HEIGHT
  <2> DEFINE top == IF s.y >= CellHeight(s) THEN s.y - CellHeight(s) ELSE 16 - CellHeight(s)
             left == 112 - CellWidth(s)
  <2>3. top = y /\ left = x
    BY <1>1, <1>4, <2>1
  <2>4. ProcessBackspace(s) = [s EXCEPT !.x = left, !.y = top]
    BY <2>2
  <2> HIDE DEF top, left
  <2>5. /\ ProcessBackspace(s).x = left /\ ProcessBackspace(s).y = top
        /\ ProcessBackspace(s).mx = s.mx /\ ProcessBackspace(s).my = s.my
    BY <2>4 DEF Screen
  <2> QED
    BY <2>3, <2>5 DEF CellWidth, CellHeight
<1> QED
  BY <1>1, <1>3, <1>4

LEMMA HistoryStep == GuIInv /\ HistoryInv /\ [GuNext]_guVars => HistoryInv'
<1> SUFFICES ASSUME GuIInv, HistoryInv, [GuNext]_guVars PROVE HistoryInv'
  OBVIOUS
<1>1. CASE UNCHANGED screen /\ UNCHANGED executed
  BY <1>1 DEF HistoryInv, LastAdvanced, BackspaceReturnsToTheCharacter
<1>2. ASSUME NEW name \in Names, NEW args \in Seq(Byte), Performs(name, args)
      PROVE HistoryInv'
  <2> DEFINE n == Len(executed)
             last == Recorded(name, args)
  <2>1. screen \in Screen /\ executed \in Seq(Entry) /\ last \in Entry
    BY RecordedType DEF GuIInv, Inner, MachineTypeOK, HistoryInv
  <2>2. executed' = Append(executed, last)
    BY <1>2 DEF Performs
  <2> HIDE DEF last
  <2>3. /\ executed' \in Seq(Entry) /\ n \in Nat /\ Len(executed') = n + 1 /\ executed'[n + 1] = last
        /\ \A i \in 1 .. n : executed'[i] = executed[i]
    BY <2>1, <2>2, AppendProperties
  <2>4. last.name = name /\ last.x = screen.x /\ last.y = screen.y
    BY DEF last, Recorded
  <2>5. LastAdvanced'
    <3> SUFFICES ASSUME name = "Character"
                 PROVE <<screen'.x, screen'.y>> = AdvanceCursor(screen', <<last.x, last.y>>)
      BY <2>3, <2>4 DEF LastAdvanced
    <3>1. screen' = ProcessCharacterDisplay(screen, args[1])
      BY <1>2 DEF Performs, Executed
    <3> DEFINE next == AdvanceCursor(screen, <<screen.x, screen.y>>)
               drawn == Drawn(screen, DrawFontCharacter(screen, <<screen.x, screen.y>>, args[1]))
    <3>2. screen' = [drawn EXCEPT !.x = next[1], !.y = next[2]]
      BY <3>1 DEF ProcessCharacterDisplay
    <3>3. drawn \in Screen /\ drawn.mx = screen.mx /\ drawn.my = screen.my
      BY <2>1, DrawnType
    <3>4. next = <<next[1], next[2]>>
      BY DEF AdvanceCursor
    <3> HIDE DEF next, drawn
    <3>5. /\ screen'.x = next[1] /\ screen'.y = next[2]
          /\ screen'.mx = screen.mx /\ screen'.my = screen.my
      BY <3>2, <3>3 DEF Screen
    <3>6. AdvanceCursor(screen', <<last.x, last.y>>) = next
      BY <2>4, <3>5 DEF next, AdvanceCursor, NextLine, CellWidth, CellHeight
    <3> QED
      BY <3>4, <3>5, <3>6
  <2>6. BackspaceReturnsToTheCharacter'
    <3> DEFINE drawn == executed[n]
    <3> SUFFICES ASSUME n >= 1, name = "Backspace", drawn.name = "Character",
                        drawn.x + CellWidth(screen') <= DISPLAY_WIDTH,
                        drawn.y + CellHeight(screen') <= DISPLAY_HEIGHT
                 PROVE screen'.x = drawn.x /\ screen'.y = drawn.y
      <4>1. (n + 1) - 1 = n
        BY <2>3
      <4>2. n + 1 >= 2 => n >= 1 /\ executed'[n] = drawn
        BY <2>3
      <4> HIDE DEF n, drawn
      <4> QED
        BY <2>3, <2>4, <4>1, <4>2 DEF BackspaceReturnsToTheCharacter
    <3>1. screen' = ProcessBackspace(screen)
      BY <1>2 DEF Performs, Executed
    <3>2. <<screen.x, screen.y>> = AdvanceCursor(screen, <<drawn.x, drawn.y>>)
      BY DEF HistoryInv, LastAdvanced
    <3>3. drawn.x \in 0 .. DISPLAY_WIDTH - 1 /\ drawn.y \in 0 .. DISPLAY_HEIGHT - 1
      <4>1. drawn \in Entry
        BY <2>1, <2>3, ElementOfSeq
      <4> QED
        BY <4>1 DEF Entry
    <3>4. CellWidth(screen') = CellWidth(screen) /\ CellHeight(screen') = CellHeight(screen)
      BY <3>1 DEF ProcessBackspace, CellWidth, CellHeight
    <3> HIDE DEF drawn
    <3>5. drawn.x + CellWidth(screen) <= DISPLAY_WIDTH /\ drawn.y + CellHeight(screen) <= DISPLAY_HEIGHT
      BY <3>4
    <3> QED
      BY <2>1, <3>1, <3>2, <3>3, <3>5, BackspaceUndoesAdvance
  <2> QED
    BY <2>3, <2>5, <2>6 DEF HistoryInv
<1> QED
  BY <1>1, <1>2, StepPerforms

(***************************************************************************)
(* A backspace finds the character before it, for every magnification and  *)
(* every way the commands before brought the cursor there.                 *)
(***************************************************************************)
THEOREM BackspaceCorrect == GuSpec => []BackspaceReturnsToTheCharacter
<1>1. GuInit => HistoryInv
  BY DEF GuInit, HistoryInv, LastAdvanced, BackspaceReturnsToTheCharacter
<1>2. HistoryInv => BackspaceReturnsToTheCharacter
  BY DEF HistoryInv
<1> QED
  BY <1>1, <1>2, GuIInvInit, GuIInvStep, HistoryStep, PTL DEF GuSpec

-----------------------------------------------------------------------------
(* Bit images                                                              *)

\* Drawing changes only the dots it sets.
LEMMA DrawnChanges ==
  ASSUME NEW s \in Screen, NEW image, image.on \subseteq image.set,
         NEW d, d \notin image.set
  PROVE d \in Drawn(s, image).dots <=> d \in s.dots
BY DEF Drawn, Screen

LEMMA ImageKeepsToItsRectangleStep ==
  ASSUME screen \in Screen, NEW args \in Seq(Byte), Len(args) >= 9,
         screen' = ProcessRealTimeBitImageDisplay(screen, args),
         ImageBytes(args) <= 255
  PROVE ImageKeepsToItsRectangle(args)
<1> DEFINE width == ImageWidth(args)
           height == ImageHeight(args)
           bytes == ImageBytes(args)
           left == Word(args, 1)
           top == Word(args, 3)
           at == <<left % 256, top % 256>>
           set == (0 .. bytes - 1) \X (0 .. height - 1)
           on == {d \in set : d[2] < 8 /\ (args[10 + d[1]] \div 2^(7 - d[2])) % 2 = 1}
           image == [set |-> {At(at, d[1], d[2]) : d \in set}, on |-> {At(at, d[1], d[2]) : d \in on}]
           changed == (screen.dots \ screen'.dots) \cup (screen'.dots \ screen.dots)
<1>1. screen' = Drawn(screen, image)
  BY DEF ProcessRealTimeBitImageDisplay
<1>2. image.on \subseteq image.set
  <2>1. on \subseteq set
    OBVIOUS
  <2> HIDE DEF on, set, at
  <2> QED
    BY <2>1
<1>3. screen'.x = screen.x /\ screen'.y = screen.y
  <2> HIDE DEF image
  <2> QED
    BY <1>1, DrawnType
<1>4. SUFFICES ASSUME height < 16, left \in Byte, top \in Byte
               PROVE \A d \in changed :
                       d[1] \in left .. left + width - 1 /\ d[2] \in top .. top + height - 1
  BY <1>3 DEF ImageKeepsToItsRectangle
<1>5. width \in Nat /\ height \in Nat
  BY ImageSizes
\* Less than sixteen dots high, an image takes a byte for a column, or none.
<1>6. bytes \in Nat /\ bytes <= width /\ bytes <= 255
  <2>1. bytes = (height \div 8) * width
    BY DEF ImageBytes
  <2> HIDE DEF width, height, bytes
  <2>2. height \div 8 \in {0, 1}
    BY <1>4, <1>5
  <2>3. bytes = 0 \/ bytes = width
    BY <1>5, <2>1, <2>2
  <2>4. bytes <= 255
    BY DEF bytes
  <2> QED
    BY <1>5, <2>3, <2>4
<1>7. \A d \in image.set : d[1] \in left .. left + width - 1 /\ d[2] \in top .. top + height - 1
  <2> SUFFICES ASSUME NEW i \in 0 .. bytes - 1, NEW j \in 0 .. height - 1
               PROVE /\ At(at, i, j)[1] \in left .. left + width - 1
                     /\ At(at, i, j)[2] \in top .. top + height - 1
    BY DEF At
  <2> HIDE DEF width, height, bytes, left, top
  <2>1. left \in 0 .. 255 /\ top \in 0 .. 255 /\ i \in Nat /\ j \in Nat /\ i < 256 /\ j < 16
    BY <1>4, <1>5, <1>6 DEF Byte
  <2>2. left % 256 = left /\ top % 256 = top
    BY <2>1
  <2>3. (left + i) % 65536 = left + i /\ (top + j) % 65536 = top + j
    BY <2>1
  <2>4. At(at, i, j) = <<left + i, top + j>>
    BY <2>2, <2>3 DEF At
  <2> QED
    BY <1>5, <1>6, <2>1, <2>4
<1> HIDE DEF image
<1>8. changed \subseteq image.set
  BY <1>1, <1>2, DrawnChanges
<1> QED
  BY <1>7, <1>8

(***************************************************************************)
(* For every image less than sixteen dots high, however wide, and every    *)
(* position below 256: what runs past its argument bytes aborts before it  *)
(* draws.                                                                  *)
(***************************************************************************)
THEOREM ImageCorrect == GuSpec => ImageStaysInItsRectangle
<1> DEFINE Step == \A i \in DOMAIN executed' \ DOMAIN executed :
                     executed'[i].name = "RealTimeBitImageDisplay"
                     => ImageKeepsToItsRectangle(executed'[i].args)
<1>1. GuIInv /\ HistoryInv /\ [GuNext]_guVars => Step
  <2> SUFFICES ASSUME GuIInv, HistoryInv, [GuNext]_guVars PROVE Step
    OBVIOUS
  <2>1. CASE UNCHANGED screen /\ UNCHANGED executed
    BY <2>1
  <2>2. ASSUME NEW name \in Names, NEW args \in Seq(Byte), HasItsArguments(name, args),
               Performs(name, args), "running" \in Outcomes(name, args)
        PROVE Step
    <3>1. executed \in Seq(Entry) /\ screen \in Screen
      BY DEF HistoryInv, GuIInv, Inner, MachineTypeOK
    <3>2. /\ DOMAIN executed' \ DOMAIN executed = {Len(executed) + 1}
          /\ executed'[Len(executed) + 1] = Recorded(name, args)
      <4> DEFINE last == Recorded(name, args)
                 n == Len(executed)
      <4>1. last \in Entry /\ executed' = Append(executed, last)
        BY <2>2, <3>1, RecordedType DEF Performs
      <4> HIDE DEF last
      <4>2. n \in Nat /\ DOMAIN executed = 1 .. n
        BY <3>1
      <4>3. DOMAIN executed' = 1 .. n + 1 /\ executed'[n + 1] = last
        BY <3>1, <4>1, <4>2, AppendProperties
      <4> HIDE DEF n
      <4>4. (1 .. n + 1) \ (1 .. n) = {n + 1}
        BY <4>2
      <4> QED
        BY <4>2, <4>3, <4>4 DEF last, n
    <3> SUFFICES ASSUME name = "RealTimeBitImageDisplay" PROVE ImageKeepsToItsRectangle(args)
      BY <3>2 DEF Recorded
    <3>3. screen' = ProcessRealTimeBitImageDisplay(screen, args)
      BY <2>2 DEF Performs, Executed
    <3>4. Len(args) >= 9
      BY <2>2 DEF HasItsArguments
    <3>5. ImageBytes(args) <= 255
      <4>1. ~(ImageBytes(args) > 255)
        <5> SUFFICES ASSUME ImageBytes(args) > 255 PROVE FALSE
          OBVIOUS
        <5>1. Outcomes(name, args) \in {{"aborted"}, {"hung"}}
          BY DEF Outcomes
        <5> QED
          BY <2>2, <5>1
      <4>2. ImageBytes(args) \in Nat
        BY <3>4, ImageSizes
      <4> QED
        BY <4>1, <4>2
    <3> QED
      BY <3>1, <3>3, <3>4, <3>5, ImageKeepsToItsRectangleStep
  <2> QED
    BY <2>1, <2>2, StepPerforms
<1>2. GuInit => HistoryInv
  BY DEF GuInit, HistoryInv, LastAdvanced, BackspaceReturnsToTheCharacter
<1>3. ImageStaysInItsRectangle <=> [][Step]_guVars
  BY PTL DEF ImageStaysInItsRectangle
<1> HIDE DEF Step
<1> QED
  BY <1>1, <1>2, <1>3, GuIInvInit, GuIInvStep, HistoryStep, PTL DEF GuSpec

-----------------------------------------------------------------------------
(* Text                                                                    *)

\* A character on the screen sets the dots of its cell and no others.
LEMMA CellOfCharacter ==
  ASSUME NEW s \in Screen, NEW x \in 0 .. DISPLAY_WIDTH - 1, NEW y \in 0 .. DISPLAY_HEIGHT - 1,
         NEW character
  PROVE /\ DrawFontCharacter(s, <<x, y>>, character).on \subseteq
             DrawFontCharacter(s, <<x, y>>, character).set
        /\ \A d \in DrawFontCharacter(s, <<x, y>>, character).set :
             d[1] \in x .. x + CellWidth(s) - 1 /\ d[2] \in y .. y + CellHeight(s) - 1
<1> DEFINE cell == (0 .. CellWidth(s) - 1) \X (0 .. CellHeight(s) - 1)
           on == {d \in cell : <<d[1] \div s.mx, d[2] \div s.my>> \in GetFontData(character)}
           set == {At(<<x, y>>, d[1], d[2]) : d \in cell}
           dots == {At(<<x, y>>, d[1], d[2]) : d \in on}
<1>1. DrawFontCharacter(s, <<x, y>>, character) = [set |-> set, on |-> dots]
  BY DEF DrawFontCharacter
<1>2. dots \subseteq set
  <2>1. on \subseteq cell
    OBVIOUS
  <2> HIDE DEF on, cell
  <2> QED
    BY <2>1
<1>3. \A d \in set : d[1] \in x .. x + CellWidth(s) - 1 /\ d[2] \in y .. y + CellHeight(s) - 1
  <2> SUFFICES ASSUME NEW i \in 0 .. CellWidth(s) - 1, NEW j \in 0 .. CellHeight(s) - 1
               PROVE /\ At(<<x, y>>, i, j)[1] \in x .. x + CellWidth(s) - 1
                     /\ At(<<x, y>>, i, j)[2] \in y .. y + CellHeight(s) - 1
    BY DEF At
  <2>1. /\ x \in 0 .. 111 /\ y \in 0 .. 15 /\ CellWidth(s) \in 5 .. 20 /\ CellHeight(s) \in 7 .. 14
    BY DEF Screen, CellWidth, CellHeight, FONT_WIDTH, FONT_HEIGHT, DISPLAY_WIDTH, DISPLAY_HEIGHT
  <2>2. (x + i) % 65536 = x + i /\ (y + j) % 65536 = y + j
    BY <2>1
  <2>3. At(<<x, y>>, i, j) = <<x + i, y + j>>
    BY <2>2 DEF At
  <2> QED
    BY <2>1, <2>3
<1> HIDE DEF set, dots
<1> QED
  BY <1>1, <1>2, <1>3

\* What a character does to the screen.
LEMMA CharacterDrawn ==
  ASSUME NEW s \in Screen, NEW character
  PROVE LET t == ProcessCharacterDisplay(s, character)
            image == DrawFontCharacter(s, <<s.x, s.y>>, character)
            next == AdvanceCursor(s, <<s.x, s.y>>)
        IN /\ t.mx = s.mx /\ t.my = s.my /\ t.x = next[1] /\ t.y = next[2]
           /\ \A d \in image.set : d \in Dots => (d \in t.dots <=> d \in image.on)
           /\ \A d : d \notin image.set => (d \in t.dots <=> d \in s.dots)
<1> DEFINE t == ProcessCharacterDisplay(s, character)
           image == DrawFontCharacter(s, <<s.x, s.y>>, character)
           next == AdvanceCursor(s, <<s.x, s.y>>)
           drawn == Drawn(s, image)
<1>1. t = [drawn EXCEPT !.x = next[1], !.y = next[2]]
  BY DEF ProcessCharacterDisplay
<1>2. drawn \in Screen /\ drawn.mx = s.mx /\ drawn.my = s.my
  BY DrawnType
<1>3. image.on \subseteq image.set
  BY CellOfCharacter DEF Screen
<1> HIDE DEF t, image, next
<1>4. drawn.dots = (s.dots \ image.set) \cup {d \in image.on : d \in Dots}
  BY DEF Drawn, Screen
<1> HIDE DEF drawn
<1>5. /\ t.mx = s.mx /\ t.my = s.my /\ t.x = next[1] /\ t.y = next[2]
      /\ t.dots = drawn.dots
  BY <1>1, <1>2 DEF Screen
<1>6. /\ \A d \in image.set : d \in Dots => (d \in t.dots <=> d \in image.on)
      /\ \A d : d \notin image.set => (d \in t.dots <=> d \in s.dots)
  BY <1>3, <1>4, <1>5
<1> QED
  BY <1>5, <1>6 DEF t, image, next

\* A place is past a character: further right in its line, or below it.
Past(s, entry, x, y) ==
  \/ y = entry.y /\ x >= entry.x + CellWidth(s)
  \/ y >= entry.y + CellHeight(s)

\* The cursor moves past the character it was at and stays past the others,
\* unless it goes back to the top.
LEMMA AdvanceIsPast ==
  ASSUME NEW s \in Screen, NEW entry \in Entry,
         NEW x \in 0 .. DISPLAY_WIDTH - 1, NEW y \in 0 .. DISPLAY_HEIGHT - 1,
         Past(s, entry, x, y) \/ (entry.x = x /\ entry.y = y),
         AdvanceCursor(s, <<x, y>>)[2] >= y
  PROVE Past(s, entry, AdvanceCursor(s, <<x, y>>)[1], AdvanceCursor(s, <<x, y>>)[2])
<1> DEFINE w == CellWidth(s)
           h == CellHeight(s)
<1>1. /\ x \in 0 .. 111 /\ y \in 0 .. 15 /\ w \in 5 .. 20 /\ h \in 7 .. 14
      /\ entry.x \in 0 .. 111 /\ entry.y \in 0 .. 15
  BY DEF Screen, Entry, CellWidth, CellHeight, FONT_WIDTH, FONT_HEIGHT, DISPLAY_WIDTH, DISPLAY_HEIGHT
<1>2. (x + w) % 65536 = x + w /\ (y + h) % 65536 = y + h
  BY <1>1
<1>3. AdvanceCursor(s, <<x, y>>) =
        IF x + w >= 112 THEN <<0, IF y + h >= 16 THEN 0 ELSE y + h>> ELSE <<x + w, y>>
  BY <1>2 DEF AdvanceCursor, NextLine, DISPLAY_WIDTH, DISPLAY_HEIGHT
<1> HIDE DEF w, h
<1>4. \/ y = entry.y /\ x >= entry.x + w
      \/ y >= entry.y + h
      \/ entry.x = x /\ entry.y = y
  BY DEF Past, w, h
<1>5. CASE x + w < 112
  <2>1. AdvanceCursor(s, <<x, y>>)[1] = x + w /\ AdvanceCursor(s, <<x, y>>)[2] = y
    BY <1>1, <1>3, <1>5
  <2> QED
    BY <1>1, <1>4, <2>1 DEF Past, w, h
<1>6. CASE x + w >= 112
  <2>1. y + h < 16
    BY <1>1, <1>3, <1>6
  <2>2. AdvanceCursor(s, <<x, y>>)[2] = y + h
    BY <1>1, <1>3, <1>6, <2>1
  <2> QED
    BY <1>1, <1>4, <2>2 DEF Past, w, h
<1> QED
  BY <1>1, <1>5, <1>6

NeverUp(i) == \A k \in i + 1 .. Len(executed) : executed[k - 1].y <= executed[k].y

\* The cursor is past every character of the text that ends here, unless the
\* next character would be above the last.
TextInv ==
  /\ TextStaysLegible
  /\ \A i \in DOMAIN executed :
       (IsText(i) /\ NeverUp(i) /\ screen.y >= executed[Len(executed)].y)
       => Past(screen, executed[i], screen.x, screen.y)

\* Two characters of which one is past the other share no dot.
LEMMA CellsApart ==
  ASSUME NEW s \in Screen, NEW entry \in Entry,
         NEW x \in 0 .. DISPLAY_WIDTH - 1, NEW y \in 0 .. DISPLAY_HEIGHT - 1,
         Past(s, entry, x, y), NEW a, NEW b,
         NEW d \in DrawFontCharacter(s, <<entry.x, entry.y>>, a).set
  PROVE d \notin DrawFontCharacter(s, <<x, y>>, b).set
<1>1. /\ entry.x \in 0 .. DISPLAY_WIDTH - 1 /\ entry.y \in 0 .. DISPLAY_HEIGHT - 1
      /\ CellWidth(s) \in Nat /\ CellHeight(s) \in Nat
  BY DEF Entry, Screen, CellWidth, CellHeight, FONT_WIDTH, FONT_HEIGHT
<1>2. /\ d[1] \in entry.x .. entry.x + CellWidth(s) - 1
      /\ d[2] \in entry.y .. entry.y + CellHeight(s) - 1
  BY <1>1, CellOfCharacter
<1>3. SUFFICES ASSUME d \in DrawFontCharacter(s, <<x, y>>, b).set PROVE FALSE
  OBVIOUS
<1>4. d[1] \in x .. x + CellWidth(s) - 1 /\ d[2] \in y .. y + CellHeight(s) - 1
  BY <1>3, CellOfCharacter
<1> QED
  BY <1>1, <1>2, <1>4 DEF Past, DISPLAY_WIDTH, DISPLAY_HEIGHT

LEMMA TextStep == GuIInv /\ HistoryInv /\ TextInv /\ [GuNext]_guVars => TextInv'
<1> SUFFICES ASSUME GuIInv, HistoryInv, TextInv, [GuNext]_guVars PROVE TextInv'
  OBVIOUS
<1>1. CASE UNCHANGED screen /\ UNCHANGED executed
  BY <1>1 DEF TextInv, TextStaysLegible, IsText, NeverUp, Shows
<1>2. ASSUME NEW name \in Names, NEW args \in Seq(Byte), Performs(name, args)
      PROVE TextInv'
  <2> DEFINE n == Len(executed)
             last == Recorded(name, args)
  <2>1. screen \in Screen /\ executed \in Seq(Entry) /\ last \in Entry
    BY RecordedType DEF GuIInv, Inner, MachineTypeOK, HistoryInv
  <2>2. executed' = Append(executed, last)
    BY <1>2 DEF Performs
  <2>3. last.name = name /\ last.x = screen.x /\ last.y = screen.y /\ last.args = args
    BY DEF Recorded
  <2> HIDE DEF last
  <2>4. /\ n \in Nat /\ Len(executed') = n + 1 /\ executed'[n + 1] = last
        /\ \A i \in 1 .. n : executed'[i] = executed[i] /\ executed[i] \in Entry
        /\ DOMAIN executed = 1 .. n /\ DOMAIN executed' = 1 .. n + 1
    BY <2>1, <2>2, AppendProperties
  <2>5. screen.x \in 0 .. DISPLAY_WIDTH - 1 /\ screen.y \in 0 .. DISPLAY_HEIGHT - 1
    BY <2>1 DEF Screen
  <2> HIDE DEF n
  <2> SUFFICES ASSUME NEW i \in 1 .. n + 1, IsText(i)', NeverUp(i)'
               PROVE /\ Shows(executed[i])'
                     /\ screen'.y >= last.y => Past(screen', executed'[i], screen'.x, screen'.y)
    BY <2>4 DEF TextInv, TextStaysLegible, NeverUp
  <2>6. name = "Character"
    BY <2>3, <2>4 DEF IsText
  <2> DEFINE next == AdvanceCursor(screen, <<screen.x, screen.y>>)
             image == DrawFontCharacter(screen, <<screen.x, screen.y>>, args[1])
  <2>7. /\ screen'.mx = screen.mx /\ screen'.my = screen.my
        /\ screen'.x = next[1] /\ screen'.y = next[2]
        /\ \A d \in image.set : d \in Dots => (d \in screen'.dots <=> d \in image.on)
        /\ \A d : d \notin image.set => (d \in screen'.dots <=> d \in screen.dots)
    <3>1. screen' = ProcessCharacterDisplay(screen, args[1])
      BY <1>2, <2>6 DEF Performs, Executed
    <3> QED
      BY <2>1, <3>1, CharacterDrawn
  <2>8. CellWidth(screen') = CellWidth(screen) /\ CellHeight(screen') = CellHeight(screen)
    BY <2>7 DEF CellWidth, CellHeight
  <2>9. \A at, c : DrawFontCharacter(screen', at, c) = DrawFontCharacter(screen, at, c)
    BY <2>7, <2>8 DEF DrawFontCharacter
  <2> HIDE DEF next, image
  <2>10. ASSUME NEW entry \in Entry, screen'.y >= last.y,
                Past(screen, entry, screen.x, screen.y) \/ (entry.x = screen.x /\ entry.y = screen.y)
         PROVE Past(screen', entry, screen'.x, screen'.y)
    <3>1. Past(screen, entry, next[1], next[2])
      <4>1. next[2] >= screen.y
        BY <2>3, <2>7, <2>10
      <4> QED
        BY <2>1, <2>5, <2>10, <4>1, AdvanceIsPast DEF next
    <3> QED
      BY <2>7, <2>8, <3>1 DEF Past
  <2>11. CASE i = n + 1
    <3>1. Shows(executed[i])'
      BY <2>3, <2>4, <2>7, <2>9, <2>11 DEF Shows, image
    <3> QED
      BY <2>1, <2>3, <2>4, <2>10, <2>11, <3>1
  <2>12. CASE i \in 1 .. n
    <3> DEFINE entry == executed[i]
    <3>1. entry \in Entry /\ executed'[i] = entry
      BY <2>4, <2>12
    <3>2. IsText(i)
      <4> SUFFICES ASSUME NEW k \in i .. n PROVE executed[k].name = "Character"
        BY DEF IsText, n
      <4>1. k \in i .. n + 1 /\ executed'[k] = executed[k]
        BY <2>4, <2>12
      <4> QED
        BY <2>4, <4>1 DEF IsText
    <3>3. NeverUp(i)
      <4> SUFFICES ASSUME NEW k \in i + 1 .. n PROVE executed[k - 1].y <= executed[k].y
        BY DEF NeverUp, n
      <4>1. k \in i + 1 .. n + 1 /\ executed'[k] = executed[k] /\ executed'[k - 1] = executed[k - 1]
        BY <2>4, <2>12
      <4> QED
        BY <2>4, <4>1 DEF NeverUp
    <3>4. screen.y >= executed[n].y
      <4>1. n + 1 \in i + 1 .. n + 1 /\ (n + 1) - 1 = n /\ n \in 1 .. n
        BY <2>4, <2>12
      <4>2. executed'[n].y <= executed'[n + 1].y
        BY <2>4, <4>1 DEF NeverUp
      <4>3. executed[n].y <= screen.y /\ executed[n].y \in 0 .. DISPLAY_HEIGHT - 1
        BY <2>3, <2>4, <4>1, <4>2 DEF Entry
      <4> QED
        BY <2>5, <4>3 DEF DISPLAY_HEIGHT
    <3>5. Past(screen, entry, screen.x, screen.y) /\ Shows(entry)
      BY <2>4, <2>12, <3>2, <3>3, <3>4 DEF TextInv, TextStaysLegible, NeverUp, n
    <3>6. Shows(entry)'
      <4> SUFFICES ASSUME NEW d \in DrawFontCharacter(screen, <<entry.x, entry.y>>, entry.args[1]).set,
                          d \in Dots
                   PROVE d \in screen'.dots
                         <=> d \in DrawFontCharacter(screen, <<entry.x, entry.y>>, entry.args[1]).on
        BY <2>9, <3>1 DEF Shows
      <4>1. d \notin image.set
        BY <2>1, <2>5, <3>1, <3>5, CellsApart DEF image
      <4>2. d \in screen'.dots <=> d \in screen.dots
        BY <2>7, <4>1
      <4> QED
        BY <3>5, <4>2 DEF Shows
    <3>7. screen'.y >= last.y => Past(screen', entry, screen'.x, screen'.y)
      BY <2>10, <3>1, <3>5
    <3> QED
      BY <3>1, <3>6, <3>7
  <2> QED
    BY <2>4, <2>11, <2>12
<1> QED
  BY <1>1, <1>2, StepPerforms

(***************************************************************************)
(* Text stays legible for every font and magnification, any length of text *)
(* and whatever was drawn before it.                                       *)
(***************************************************************************)
THEOREM TextCorrect == GuSpec => []TextStaysLegible
<1>1. GuInit => HistoryInv /\ TextInv
  BY DEF GuInit, HistoryInv, LastAdvanced, BackspaceReturnsToTheCharacter, TextInv, TextStaysLegible
<1>2. TextInv => TextStaysLegible
  BY DEF TextInv
<1> QED
  BY <1>1, <1>2, GuIInvInit, GuIInvStep, HistoryStep, TextStep, PTL DEF GuSpec

-----------------------------------------------------------------------------
(* Sequences cut in two at different places                                *)

LEMMA PassOneOn ==
  ASSUME NEW S, NEW a \in Seq(S), NEW b \in Seq(S), b # <<>>
  PROVE /\ Append(a, Head(b)) \o Tail(b) = a \o b
        /\ Append(a, Head(b)) \in Seq(S) /\ Tail(b) \in Seq(S)
        /\ Len(Append(a, Head(b))) = Len(a) + 1
<1>1. Head(b) \in S /\ Tail(b) \in Seq(S) /\ Len(Tail(b)) = Len(b) - 1
  BY HeadTailProperties
<1>2. Append(a, Head(b)) \in Seq(S) /\ Len(Append(a, Head(b))) = Len(a) + 1
  BY <1>1, AppendProperties
<1> DEFINE left == Append(a, Head(b)) \o Tail(b)
           right == a \o b
<1>3. left \in Seq(S) /\ right \in Seq(S) /\ Len(left) = Len(a) + Len(b) /\ Len(right) = Len(a) + Len(b)
  BY <1>1, <1>2, ConcatProperties
<1>4. ASSUME NEW i \in 1 .. Len(a) + Len(b) PROVE left[i] = right[i]
  <2>1. Len(a) \in Nat /\ Len(b) \in Nat
    OBVIOUS
  <2>2. CASE i <= Len(a)
    BY <1>1, <1>2, <2>1, <2>2
  <2>3. CASE i = Len(a) + 1
    BY <1>1, <1>2, <2>1, <2>3
  <2>4. CASE i > Len(a) + 1
    BY <1>1, <1>2, <2>1, <2>4
  <2> QED
    BY <2>1, <2>2, <2>3, <2>4
<1> HIDE DEF left, right
<1>5. left = right
  BY <1>3, <1>4, SeqEqual
<1> QED
  BY <1>2, <1>1, <1>5 DEF left, right

\* The shorter of two beginnings of a sequence is a beginning of the longer.
LEMMA BeginningsAgree ==
  ASSUME NEW S, NEW a \in Seq(S), NEW b \in Seq(S), NEW c \in Seq(S), NEW d \in Seq(S),
         a \o b = c \o d, Len(a) <= Len(c)
  PROVE /\ \A i \in 1 .. Len(a) : a[i] = c[i]
        /\ Len(a) + Len(b) = Len(c) + Len(d)
<1>1. Len(a) \in Nat /\ Len(b) \in Nat /\ Len(c) \in Nat /\ Len(d) \in Nat
  OBVIOUS
<1>2. Len(a \o b) = Len(a) + Len(b) /\ Len(c \o d) = Len(c) + Len(d)
  BY ConcatProperties
<1>3. ASSUME NEW i \in 1 .. Len(a) PROVE a[i] = c[i]
  <2>1. (a \o b)[i] = a[i]
    BY <1>1
  <2>2. (c \o d)[i] = c[i]
    BY <1>1
  <2> QED
    BY <2>1, <2>2
<1> QED
  BY <1>2, <1>3

LEMMA EqualBeginnings ==
  ASSUME NEW S, NEW a \in Seq(S), NEW b \in Seq(S), NEW c \in Seq(S), NEW d \in Seq(S),
         a \o b = c \o d, Len(a) = Len(c)
  PROVE a = c /\ b = d
<1>1. Len(a) \in Nat /\ Len(b) \in Nat /\ Len(c) \in Nat /\ Len(d) \in Nat
  OBVIOUS
<1>2. (\A i \in 1 .. Len(a) : a[i] = c[i]) /\ Len(a) + Len(b) = Len(c) + Len(d)
  <2>1. Len(a) <= Len(c)
    BY <1>1
  <2> QED
    BY <2>1, BeginningsAgree, Zenon
<1>3. a = c
  BY <1>2, SeqEqual
<1>4. Len(b) = Len(d)
  BY <1>1, <1>2
<1>5. ASSUME NEW i \in 1 .. Len(b) PROVE b[i] = d[i]
  <2>1. Len(a) + i \in 1 .. Len(a) + Len(b) /\ ~(Len(a) + i <= Len(a)) /\ (Len(a) + i) - Len(a) = i
    BY <1>1
  <2>2. (a \o b)[Len(a) + i] = b[i]
    <3> DEFINE k == Len(a) + i
    <3>1. k \in 1 .. Len(a) + Len(b) /\ ~(k <= Len(a)) /\ k - Len(a) = i
      BY <2>1
    <3> HIDE DEF k
    <3>2. (a \o b)[k] = b[k - Len(a)]
      BY <3>1, ConcatProperties
    <3> QED
      BY <3>1, <3>2 DEF k
  <2>3. (c \o d)[Len(a) + i] = d[i]
    BY <1>4, <2>1, ConcatProperties
  <2> QED
    BY <2>2, <2>3
<1>6. b = d
  BY <1>4, <1>5, SeqEqual
<1> QED
  BY <1>3, <1>6

LEMMA WholeBeginning ==
  ASSUME NEW S, NEW a \in Seq(S), NEW b \in Seq(S), NEW c \in Seq(S),
         a \o b = c, Len(a) <= Len(c)
  PROVE /\ \A i \in 1 .. Len(a) : a[i] = c[i]
        /\ Len(a) + Len(b) = Len(c)
        /\ Len(a) = Len(c) => a = c /\ b = <<>>
        /\ Len(a) < Len(c) => b # <<>>
<1>1. <<>> \in Seq(S) /\ c \o <<>> = c /\ Len(<<>>) = 0
  OBVIOUS
<1>2. Len(a) \in Nat /\ Len(b) \in Nat /\ Len(c) \in Nat
  OBVIOUS
<1>3. (\A i \in 1 .. Len(a) : a[i] = c[i]) /\ Len(a) + Len(b) = Len(c)
  BY <1>1, <1>2, BeginningsAgree
<1>4. Len(a) = Len(c) => a = c /\ b = <<>>
  BY <1>1, EqualBeginnings
<1>5. Len(a) < Len(c) => b # <<>>
  BY <1>1, <1>2, <1>3
<1> QED
  BY <1>3, <1>4, <1>5

-----------------------------------------------------------------------------
(* A command is known by its key and by its name                           *)

RowOf(name) == CHOOSE row \in CommandTable : row.Name = name

\* A number for every key.
Code(key) ==
  IF Len(key) = 1 THEN key[1]
  ELSE IF Len(key) = 2 THEN 1000 * key[1] + key[2]
  ELSE IF Len(key) = 3 THEN 100000 + key[3]
  ELSE 200000 + 1000 * key[3] + key[4]

NumberedRows ==
  { <<8, "Backspace", 0>>, <<9, "HorizontalTab", 0>>, <<10, "LineFeed", 0>>, <<11, "HomePosition", 0>>,
    <<12, "DisplayClear", 0>>, <<13, "CarriageReturn", 0>>, <<27064, "InitializeDisplay", 0>>,
    <<27037, "SpecifyDownloadRegister", 0>>, <<27038, "DownloadCharacter", 0>>,
    <<27063, "DeleteDownloadedCharacter", 0>>, <<27082, "InternationalFontSet", 0>>,
    <<27116, "CharacterCodeType", 0>>, <<100001, "OverwriteMode", 1>>,
    <<100002, "VerticalScrollMode", 0>>, <<300048, "PrintAtPosition", 6>>,
    <<100003, "HorizontalScrollMode", 0>>, <<31036, "CursorSet", 4>>,
    <<100088, "BrightnessControl", 1>>, <<100114, "ReverseDisplay", 1>>,
    <<100115, "HorizontalScrollSpeed", 1>>, <<100119, "CompositionMode", 1>>,
    <<297001, "Wait", 0>>, <<297016, "ScrollDisplayAction", 0>>, <<297017, "DisplayBlink", 0>>,
    <<297064, "ScreenSaver", 1>>, <<300033, "RealTimeBitImageDisplay", 9>>,
    <<303003, "CharacterFontWidthAndSpace", 1>>, <<303064, "FontMagnificationSet", 2>>,
    <<319001, "CurrentWindowSelect", 1>>, <<319002, "UserWindowDefinitionCancel", 0>>,
    <<319016, "WriteScreenModeSelect", 1>> }

LEMMA RowsAreNumbered ==
  ASSUME NEW row \in CommandTable
  PROVE <<Code(row.key), row.Name, row.FixedArgumentBytes>> \in NumberedRows
BY SMTT(60) DEF CommandTable, Row, Code, NumberedRows

LEMMA NumbersAreDifferent ==
  \A m, n \in NumberedRows : (m[1] = n[1] \/ m[2] = n[2]) => m = n
BY SMTT(60) DEF NumberedRows

\* The numbering with the rows themselves.
LEMMA RowsAreDifferent ==
  ASSUME NEW p \in CommandTable, NEW q \in CommandTable, p.key = q.key \/ p.Name = q.Name
  PROVE p = q
<1> DEFINE m == <<Code(p.key), p.Name, p.FixedArgumentBytes>>
           n == <<Code(q.key), q.Name, q.FixedArgumentBytes>>
<1>1. m \in NumberedRows /\ n \in NumberedRows
  BY RowsAreNumbered
<1>2. m[1] = n[1] \/ m[2] = n[2]
  OBVIOUS
<1>3. m = n
  <2> HIDE DEF m, n
  <2> QED
    BY <1>1, <1>2, NumbersAreDifferent
<1>4. Code(p.key) = Code(q.key) /\ p.Name = q.Name /\ p.FixedArgumentBytes = q.FixedArgumentBytes
  BY <1>3
<1> QED
  BY <1>4, SMTT(60) DEF CommandTable, Row

LEMMA FirstByteOfKey ==
  ASSUME NEW row \in CommandTable
  PROVE /\ Len(row.key) \in Nat \ {0} /\ row.key[1] < CMD_CHARACTER_DISPLAY_START
        /\ row.Name # "Character" /\ row.FixedArgumentBytes \in Nat
BY SMTT(60) DEF CommandTable, Row, CMD_CHARACTER_DISPLAY_START

\* What the firmware sends for a command that is not a character.
LEMMA CommandsHaveRows ==
  ASSUME NEW c \in Commands, c.name # "Character"
  PROVE /\ RowOf(c.name) \in CommandTable /\ RowOf(c.name).Name = c.name
        /\ KeyOf(c.name) = RowOf(c.name).key
        /\ Len(c.args) = RowOf(c.name).FixedArgumentBytes + VariableBytes(c.name, c.args)
        /\ Len(c.args) >= RowOf(c.name).FixedArgumentBytes
        /\ c.args \in Seq(Byte)
<1>1. PICK row \in CommandTable :
             /\ c.name = row.Name /\ Len(c.args) >= row.FixedArgumentBytes
             /\ Len(c.args) = row.FixedArgumentBytes + VariableBytes(c.name, c.args)
  BY GuWholeCommands DEF Whole
<1>2. RowOf(c.name) \in CommandTable /\ RowOf(c.name).Name = c.name
  BY <1>1 DEF RowOf
<1> HIDE DEF RowOf
<1>3. RowOf(c.name) = row
  BY <1>1, <1>2, RowsAreDifferent
<1> QED
  BY <1>1, <1>2, <1>3, GuCommands DEF KeyOf, RowOf

\* How many more bytes follow is said by the fixed arguments alone.
LEMMA FixedArgumentsTell ==
  ASSUME NEW row \in CommandTable, NEW a \in Seq(Byte), NEW b \in Seq(Byte), NEW c \in Seq(Byte),
         a \o b = c, Len(a) = row.FixedArgumentBytes
  PROVE VariableBytes(row.Name, a) = VariableBytes(row.Name, c)
<1>1. \A i \in 1 .. Len(a) : a[i] = c[i]
  <2>1. <<>> \in Seq(Byte) /\ c = c \o <<>> /\ Len(<<>>) = 0 /\ Len(a) \in Nat /\ Len(b) \in Nat
    OBVIOUS
  <2>2. Len(c) = Len(a) + Len(b)
    BY ConcatProperties
  <2> QED
    BY <2>1, <2>2, WholeBeginning
<1>2. CASE row.Name = "PrintAtPosition"
  <2>1. 6 \in 1 .. Len(a)
    BY <1>2, RowsType
  <2> QED
    BY <1>1, <1>2, <2>1 DEF VariableBytes
<1>3. CASE row.Name = "RealTimeBitImageDisplay"
  <2>1. 5 \in 1 .. Len(a) /\ 6 \in 1 .. Len(a) /\ 7 \in 1 .. Len(a) /\ 8 \in 1 .. Len(a)
    BY <1>3, RowsType
  <2>2. ImageBytes(a) = ImageBytes(c)
    BY <1>1, <2>1 DEF ImageBytes, ImageWidth, ImageHeight, Word
  <2> QED
    BY <1>3, <2>2 DEF VariableBytes
<1>4. CASE row.Name \notin {"PrintAtPosition", "RealTimeBitImageDisplay"}
  BY <1>4 DEF VariableBytes
<1> QED
  BY <1>2, <1>3, <1>4

\* A row whose key begins the key of a command that is not hidden is that
\* command's row.
LEMMA NoShorterKey ==
  ASSUME NEW c \in Commands, c.name # "Character", ~Hidden(c),
         NEW key \in Seq(Byte), Len(key) <= Len(KeyOf(c.name)),
         \A i \in 1 .. Len(key) : key[i] = KeyOf(c.name)[i],
         NEW row \in CommandTable, row.key = key
  PROVE row = RowOf(c.name) /\ key = KeyOf(c.name)
<1> DEFINE whole == KeyOf(c.name)
<1>1. whole \in Seq(Byte) /\ RowOf(c.name) \in CommandTable /\ whole = RowOf(c.name).key
  BY CommandsHaveRows, RowsType
<1>2. key = whole
  <2>1. ~IsStrictPrefix(key, whole)
    BY DEF Hidden
  <2>2. IsPrefix(key, whole)
    <3>1. Len(key) \in Nat /\ Len(whole) \in Nat
      BY <1>1
    <3>2. SubSeq(key, 1, Len(key)) = SubSeq(whole, 1, Len(key))
      <4> HIDE DEF whole
      <4>1. /\ SubSeq(key, 1, Len(key)) = [i \in 1 .. Len(key) |-> key[i]]
            /\ SubSeq(whole, 1, Len(key)) = [i \in 1 .. Len(key) |-> whole[i]]
        <5>1. \A i \in 1 .. Len(key) : i + 1 - 1 = i
          BY <3>1
        <5> QED
          BY <1>1, <3>1, <5>1
      <4> QED
        BY <4>1 DEF whole
    <3> QED
      BY <3>1, <3>2 DEF IsPrefix
  <2> QED
    BY <2>1, <2>2 DEF IsStrictPrefix
<1> QED
  BY <1>1, <1>2, RowsAreDifferent

-----------------------------------------------------------------------------
(* In step with the firmware                                               *)

\* No command so far was hidden.
Plain == \A i \in DOMAIN intended : ~Hidden(intended[i])

\* The first n commands have been executed as they were sent.
ExecutedAsSent(n) ==
  /\ Len(executed) = n
  /\ \A i \in 1 .. n : executed[i].name = intended[i].name /\ executed[i].args = intended[i].args

Resting == state = "Idle" /\ command_buffer = <<>> /\ command_arguments = <<>>

\* How far the parser is in a command of which outgoing is still to come.
InKey(c) ==
  /\ c.name # "Character" /\ state \in {"Idle", "GettingCommand"}
  /\ command_arguments = <<>>
  /\ command_buffer \o outgoing = KeyOf(c.name) \o c.args
  /\ Len(command_buffer) < Len(KeyOf(c.name))
  /\ state = "Idle" <=> command_buffer = <<>>

InFixedArguments(c) ==
  /\ c.name # "Character" /\ state = "GettingCommandArguments"
  /\ CurrentCommand = RowOf(c.name) /\ command_buffer = KeyOf(c.name)
  /\ command_arguments \o outgoing = c.args
  /\ Len(command_arguments) < CurrentCommand.FixedArgumentBytes

InVariableArguments(c) ==
  /\ c.name # "Character" /\ state = "GettingVariableArgs"
  /\ CurrentCommand = RowOf(c.name) /\ command_buffer = KeyOf(c.name)
  /\ command_arguments \o outgoing = c.args
  /\ variable_bytes = VariableBytes(c.name, c.args)
  /\ Len(command_arguments) < CurrentCommand.FixedArgumentBytes + variable_bytes

InCommand(c) ==
  \/ c.name = "Character" /\ Resting /\ outgoing = c.args
  \/ InKey(c) \/ InFixedArguments(c) \/ InVariableArguments(c)

Between ==
  process = "running" /\ outgoing = <<>> /\ Resting /\ ExecutedAsSent(Len(intended))

Within ==
  LET n == Len(intended)
  IN /\ process = "running" /\ outgoing # <<>>
     /\ n >= 1 /\ ExecutedAsSent(n - 1) /\ InCommand(intended[n])

Stopped ==
  LET n == Len(intended)
  IN /\ process # "running" /\ outgoing = <<>>
     /\ n >= 1 /\ ExecutedAsSent(n - 1)
     /\ process \in Outcomes(intended[n].name, intended[n].args)

Following == Between \/ Within \/ Stopped

InStepInv == intended \in Seq(Commands) /\ (Plain => Following)

\* The command that was being received is executed, or stops the simulator.
LEMMA CommandIsExecuted ==
  ASSUME GuIInv, HistoryInv, intended \in Seq(Commands), Plain,
         Len(intended) >= 1, ExecutedAsSent(Len(intended) - 1),
         NEW c, c = intended[Len(intended)],
         Execute(c.name, c.args), outgoing' = <<>>, UNCHANGED intended
  PROVE Following'
<1> DEFINE n == Len(intended)
<1>1. n \in Nat \ {0} /\ n \in DOMAIN intended /\ c \in Commands
  BY ElementOfSeq
<1>2. CASE process' # "running"
  <2>1. process' \in Outcomes(c.name, c.args) /\ UNCHANGED executed
    BY <1>2 DEF Execute
  <2>2. ExecutedAsSent(n - 1)'
    BY <2>1 DEF ExecutedAsSent
  <2> QED
    BY <1>1, <1>2, <2>1, <2>2 DEF Following, Stopped
<1>3. SUFFICES ASSUME process' = "running" PROVE Between'
  BY <1>2 DEF Following
<1>4. executed' = Append(executed, Recorded(c.name, c.args)) /\ ResetCommandState
  BY <1>3 DEF Execute, Recorded
<1>5. executed \in Seq(Entry) /\ Recorded(c.name, c.args) \in Entry
  <2>1. c.args \in Seq(Byte) /\ c.name \in Names
    BY <1>1, GuCommands DEF Names
  <2> QED
    BY <2>1, RecordedType DEF HistoryInv, GuIInv, Inner, MachineTypeOK
<1> DEFINE last == Recorded(c.name, c.args)
<1>6. last.name = c.name /\ last.args = c.args
  BY DEF Recorded
<1> HIDE DEF last
<1>7. /\ Len(executed') = Len(executed) + 1 /\ executed'[Len(executed) + 1] = last
      /\ \A i \in 1 .. Len(executed) : executed'[i] = executed[i]
  BY <1>4, <1>5, AppendProperties DEF last
<1>8. Len(executed) = n - 1
  BY DEF ExecutedAsSent
<1>9. ExecutedAsSent(n)'
  <2>1. Len(executed') = n
    BY <1>1, <1>7, <1>8
  <2>2. ASSUME NEW i \in 1 .. n
        PROVE executed'[i].name = intended[i].name /\ executed'[i].args = intended[i].args
    <3>1. CASE i = n
      BY <1>1, <1>6, <1>7, <1>8, <3>1
    <3>2. CASE i \in 1 .. n - 1
      BY <1>7, <1>8, <3>2 DEF ExecutedAsSent
    <3> QED
      BY <1>1, <3>1, <3>2
  <2> QED
    BY <2>1, <2>2 DEF ExecutedAsSent
<1> QED
  BY <1>3, <1>4, <1>9 DEF Between, Resting, ResetCommandState

\* One more byte of a command takes the parser on in that command.
LEMMA CommandGoesOn ==
  ASSUME Collect, UNCHANGED intended, process = "running",
         Len(intended) >= 1, ExecutedAsSent(Len(intended) - 1),
         NEW c, c = intended[Len(intended)], outgoing' # <<>>, InCommand(c)'
  PROVE Following'
<1>1. intended' = intended /\ executed' = executed /\ process' = "running"
  BY DEF Collect
<1>2. ExecutedAsSent(Len(intended) - 1)'
  BY <1>1 DEF ExecutedAsSent
<1>3. InCommand(intended[Len(intended)])'
  BY <1>1 DEF InCommand, InKey, InFixedArguments, InVariableArguments, Resting
<1> QED
  BY <1>1, <1>2, <1>3 DEF Following, Within

\* A byte arrives while c is being received.
Receiving(c) ==
  /\ GuIInv /\ HistoryInv /\ intended \in Seq(Commands) /\ Plain /\ process = "running"
  /\ Len(intended) >= 1 /\ ExecutedAsSent(Len(intended) - 1) /\ c = intended[Len(intended)]
  /\ outgoing # <<>> /\ ProcessCommand(Head(outgoing)) /\ outgoing' = Tail(outgoing)
  /\ UNCHANGED intended

LEMMA ReceivingTypes ==
  ASSUME NEW c, Receiving(c)
  PROVE /\ c \in Commands /\ c.args \in Seq(Byte) /\ ~Hidden(c)
        /\ outgoing \in Seq(Byte) /\ Head(outgoing) \in Byte /\ Tail(outgoing) \in Seq(Byte)
        /\ command_buffer \in Seq(Byte) /\ command_arguments \in Seq(Byte)
        /\ Len(command_buffer) \in Nat /\ Len(command_arguments) \in Nat
        /\ Append(command_buffer, Head(outgoing)) \o Tail(outgoing) = command_buffer \o outgoing
        /\ Append(command_arguments, Head(outgoing)) \o Tail(outgoing) = command_arguments \o outgoing
        /\ Append(command_buffer, Head(outgoing)) \in Seq(Byte)
        /\ Append(command_arguments, Head(outgoing)) \in Seq(Byte)
        /\ Len(Append(command_buffer, Head(outgoing))) = Len(command_buffer) + 1
        /\ Len(Append(command_arguments, Head(outgoing))) = Len(command_arguments) + 1
<1>1. Len(intended) \in DOMAIN intended /\ c \in Commands
  BY ElementOfSeq DEF Receiving
<1>2. c.args \in Seq(Byte) /\ ~Hidden(c)
  BY <1>1, GuCommands DEF Receiving, Plain
<1>3. outgoing \in Seq(Byte) /\ command_buffer \in Seq(Byte) /\ command_arguments \in Seq(Byte)
      /\ outgoing # <<>>
  BY DEF Receiving, GuIInv, Inner, ParserTypeOK
<1>4. Head(outgoing) \in Byte /\ Tail(outgoing) \in Seq(Byte)
  BY <1>3, HeadTailProperties
<1> QED
  BY <1>1, <1>2, <1>3, <1>4, PassOneOn

LEMMA CharacterIsReceived ==
  ASSUME NEW c, Receiving(c), c.name = "Character", Resting, outgoing = c.args
  PROVE Following'
<1>1. c \in Commands /\ c.args \in Seq(Byte)
  BY ReceivingTypes
<1>2. Len(c.args) = 1 /\ c.args[1] >= CMD_CHARACTER_DISPLAY_START
  <2>1. \A row \in CommandTable : row.Name # "Character"
    BY FirstByteOfKey
  <2> QED
    BY <1>1, <2>1, GuWholeCommands DEF Whole
<1>3. c.args = <<Head(outgoing)>> /\ Tail(outgoing) = <<>> /\ Head(outgoing) >= CMD_CHARACTER_DISPLAY_START
  <2>1. Head(c.args) = c.args[1]
    OBVIOUS
  <2>2. Tail(c.args) \in Seq(Byte) /\ Len(Tail(c.args)) = 0
    BY <1>1, <1>2, HeadTailProperties
  <2>3. c.args = <<c.args[1]>>
    BY <1>1, <1>2
  <2> QED
    BY <1>2, <2>1, <2>2, <2>3, EmptySeq
<1>4. Execute("Character", <<Head(outgoing)>>)
  <2>1. Head(outgoing) \in Int
    <3>1. Head(outgoing) \in Byte
      BY ReceivingTypes
    <3> QED
      BY <3>1, BytesAreIntegers, Zenon
  <2> QED
    BY <1>3, <2>1 DEF Receiving, ProcessCommand, CharacterByte, CommandByte, ArgumentByte, VariableByte,
          Resting, CMD_CHARACTER_DISPLAY_START
<1> QED
  BY <1>3, <1>4, CommandIsExecuted DEF Receiving

LEMMA KeyIsReceived ==
  ASSUME NEW c, Receiving(c), InKey(c)
  PROVE Following'
<1> DEFINE byte == Head(outgoing)
           key == Append(command_buffer, byte)
           whole == KeyOf(c.name)
           row == RowOf(c.name)
<1>1. /\ c \in Commands /\ c.args \in Seq(Byte) /\ ~Hidden(c) /\ c.name # "Character"
      /\ key \in Seq(Byte) /\ Tail(outgoing) \in Seq(Byte)
      /\ Len(key) = Len(command_buffer) + 1 /\ Len(command_buffer) \in Nat
  <2>1. c.name # "Character"
    BY DEF InKey
  <2> QED
    BY <2>1, ReceivingTypes
<1>2. /\ row \in CommandTable /\ row.Name = c.name /\ whole = row.key
      /\ Len(c.args) = row.FixedArgumentBytes + VariableBytes(c.name, c.args)
      /\ Len(c.args) >= row.FixedArgumentBytes
      /\ whole \in Seq(Byte) /\ row.FixedArgumentBytes \in Nat
  BY <1>1, CommandsHaveRows, RowsType
<1>3. key \o Tail(outgoing) = whole \o c.args
  BY ReceivingTypes DEF InKey
<1>4. Len(key) <= Len(whole) /\ Len(key) \in Nat /\ Len(whole) \in Nat
  BY <1>1, <1>2 DEF InKey
<1>5. /\ \A i \in 1 .. Len(key) : key[i] = whole[i]
      /\ Len(key) + Len(Tail(outgoing)) = Len(whole) + Len(c.args)
      /\ Len(key) = Len(whole) => key = whole /\ Tail(outgoing) = c.args
  <2> HIDE DEF key, whole
  <2>1. /\ \A i \in 1 .. Len(key) : key[i] = whole[i]
        /\ Len(key) + Len(Tail(outgoing)) = Len(whole) + Len(c.args)
    <3>1. /\ key \in Seq(Byte) /\ Tail(outgoing) \in Seq(Byte) /\ whole \in Seq(Byte) /\ c.args \in Seq(Byte)
          /\ key \o Tail(outgoing) = whole \o c.args /\ Len(key) <= Len(whole)
      BY <1>1, <1>2, <1>3, <1>4
    <3> HIDE DEF row, byte
    <3> QED
      BY <3>1, BeginningsAgree
  <2>2. Len(key) = Len(whole) => key = whole /\ Tail(outgoing) = c.args
    BY <1>1, <1>2, <1>3, EqualBeginnings
  <2> QED
    BY <2>1, <2>2
<1>6. \A r \in CommandTable : r.key = key => r = row /\ key = whole
  <2> SUFFICES ASSUME NEW r \in CommandTable, r.key = key PROVE r = row /\ key = whole
    OBVIOUS
  <2> HIDE DEF key
  <2> QED
    BY <1>1, <1>4, <1>5, NoShorterKey
<1>7. CommandByte(byte)
  <2>1. ~CharacterByte(byte)
    <3> SUFFICES ASSUME state = "Idle", byte >= CMD_CHARACTER_DISPLAY_START PROVE FALSE
      BY DEF CharacterByte
    <3>1. command_buffer = <<>>
      BY DEF InKey
    <3>2. key[1] = byte /\ 1 \in 1 .. Len(key)
      BY <1>1, <3>1
    <3>3. byte = row.key[1]
      BY <1>2, <1>5, <3>2
    <3>4. row.key[1] < CMD_CHARACTER_DISPLAY_START /\ byte \in Int
      <4>1. byte \in Byte
        BY ReceivingTypes
      <4>2. row.key[1] < CMD_CHARACTER_DISPLAY_START
        BY <1>2, FirstByteOfKey
      <4> QED
        BY <4>1, <4>2, BytesAreIntegers, Zenon
    <3> HIDE DEF byte, row
    <3> QED
      BY <3>3, <3>4 DEF CMD_CHARACTER_DISPLAY_START
  <2> QED
    BY <2>1 DEF Receiving, ProcessCommand, ArgumentByte, VariableByte, InKey
<1> HIDE DEF key, whole, row
<1>8. CASE \E r \in CommandTable :
             r.key = key /\ r.FixedArgumentBytes = 0 /\ Execute(r.Name, command_arguments)
  <2>1. row.FixedArgumentBytes = 0 /\ Execute(c.name, <<>>) /\ Tail(outgoing) = c.args
    BY <1>2, <1>5, <1>6, <1>8 DEF InKey
  <2>2. c.args = <<>>
    <3>1. c.name \notin {"PrintAtPosition", "RealTimeBitImageDisplay"}
      BY <1>2, <2>1, RowsType
    <3>2. Len(c.args) = 0
      BY <1>2, <2>1, <3>1 DEF VariableBytes
    <3> QED
      BY <1>1, <3>2, EmptySeq
  <2> QED
    BY <2>1, <2>2, CommandIsExecuted DEF Receiving
<1>9. CASE \E r \in CommandTable :
             /\ r.key = key /\ r.FixedArgumentBytes > 0
             /\ CurrentCommand' = r
             /\ state' = "GettingCommandArguments"
             /\ command_buffer' = key
             /\ UNCHANGED <<command_arguments, variable_bytes>>
             /\ Collect
  <2>1. /\ row.FixedArgumentBytes > 0 /\ CurrentCommand' = row /\ Tail(outgoing) = c.args
        /\ state' = "GettingCommandArguments" /\ command_arguments' = <<>> /\ Collect
        /\ command_buffer' = whole
    BY <1>5, <1>6, <1>9 DEF InKey
  <2>2. <<>> \o c.args = c.args /\ Len(<<>>) = 0 /\ c.args # <<>>
    BY <1>1, <1>2, <2>1
  <2>3. InFixedArguments(c)'
    BY <1>1, <2>1, <2>2 DEF InFixedArguments, Receiving, row, whole
  <2> QED
    BY <2>1, <2>2, <2>3, CommandGoesOn DEF Receiving, InCommand
<1>10. CASE /\ \A r \in CommandTable : r.key # key
            /\ state' = "GettingCommand"
            /\ command_buffer' = key
            /\ UNCHANGED <<command_arguments, CurrentCommand, variable_bytes>>
            /\ Collect
  <2>1. Len(key) < Len(whole)
    BY <1>2, <1>4, <1>5, <1>10
  <2>2. Tail(outgoing) # <<>> /\ key # <<>>
    <3>1. Len(c.args) \in Nat /\ Len(Tail(outgoing)) \in Nat
      BY <1>1
    <3>2. Len(Tail(outgoing)) # 0 /\ Len(key) # 0
      <4>1. Len(key) + Len(Tail(outgoing)) = Len(whole) + Len(c.args)
        BY <1>5
      <4>2. Len(key) = Len(command_buffer) + 1 /\ Len(command_buffer) \in Nat
        BY <1>1
      <4>3. Len(key) \in Nat /\ Len(whole) \in Nat
        BY <1>4
      <4> DEFINE k == Len(key)
                 t == Len(Tail(outgoing))
                 w == Len(whole)
                 a == Len(c.args)
                 b == Len(command_buffer)
      <4>4. k < w /\ t \in Nat /\ a \in Nat /\ k + t = w + a /\ k = b + 1 /\ b \in Nat /\ w \in Nat
        BY <2>1, <3>1, <4>1, <4>2, <4>3, Zenon
      <4> HIDE DEF k, t, w, a, b
      <4>5. t # 0 /\ k # 0
        BY <4>4
      <4> QED
        BY <4>5 DEF k, t
    <3>3. Len(<<>>) = 0
      OBVIOUS
    <3> QED
      BY <3>2, <3>3, Zenon
  <2>3. InKey(c)'
    BY <1>1, <1>3, <1>10, <2>1, <2>2 DEF InKey, Receiving, whole
  <2> QED
    BY <1>10, <2>2, <2>3, CommandGoesOn DEF Receiving, InCommand
<1> QED
  BY <1>7, <1>8, <1>9, <1>10 DEF CommandByte, key

\* How long a sequence of arguments can be, and what is left of it.
LEMMA ArgumentsLeft ==
  ASSUME NEW a \in Seq(Byte), NEW b \in Seq(Byte), NEW c \in Seq(Byte), a \o b = c
  PROVE /\ Len(a) \in Nat /\ Len(c) \in Nat /\ Len(a) <= Len(c)
        /\ Len(a) = Len(c) => a = c /\ b = <<>>
        /\ Len(a) < Len(c) => b # <<>>
<1>1. Len(c) = Len(a) + Len(b) /\ Len(a) \in Nat /\ Len(b) \in Nat /\ Len(c) \in Nat
  BY ConcatProperties
<1>2. Len(a) <= Len(c)
  BY <1>1
<1> QED
  BY <1>1, <1>2, WholeBeginning

LEMMA FixedArgumentIsReceived ==
  ASSUME NEW c, Receiving(c), InFixedArguments(c)
  PROVE Following'
<1> DEFINE byte == Head(outgoing)
           args == Append(command_arguments, byte)
           rest == Tail(outgoing)
           row == RowOf(c.name)
           fixed == row.FixedArgumentBytes
           more == VariableBytes(c.name, c.args)
<1>1. /\ c \in Commands /\ c.args \in Seq(Byte) /\ args \in Seq(Byte) /\ rest \in Seq(Byte)
      /\ Len(args) = Len(command_arguments) + 1 /\ Len(command_arguments) \in Nat
  BY ReceivingTypes
<1>2. /\ c.name # "Character" /\ CurrentCommand = row
      /\ Len(command_arguments) < fixed
  BY DEF InFixedArguments
<1>3. args \o rest = c.args
  BY ReceivingTypes DEF InFixedArguments
<1>4. /\ row \in CommandTable /\ row.Name = c.name /\ fixed \in Nat
      /\ Len(c.args) = fixed + more /\ Len(c.args) >= fixed
  BY <1>1, <1>2, CommandsHaveRows, RowsType
<1>5. Len(args) = fixed => VariableBytes(c.name, args) = more
  <2> HIDE DEF args, rest, row
  <2> QED
    BY <1>1, <1>3, <1>4, FixedArgumentsTell
<1>6. ArgumentByte(byte)
  BY DEF Receiving, ProcessCommand, CharacterByte, CommandByte, VariableByte, InFixedArguments
<1> HIDE DEF args, rest
<1>7. /\ Len(args) \in Nat /\ Len(c.args) \in Nat /\ Len(args) <= Len(c.args)
      /\ Len(args) = Len(c.args) => args = c.args /\ rest = <<>>
      /\ Len(args) < Len(c.args) => rest # <<>>
  BY <1>1, <1>3, ArgumentsLeft
<1>8. outgoing' = rest
  BY DEF Receiving, rest
<1>9. CASE /\ Len(args) # fixed
           /\ command_arguments' = args
           /\ UNCHANGED <<state, command_buffer, CurrentCommand, variable_bytes>>
           /\ Collect
  <2>1. Len(args) < fixed /\ Len(args) < Len(c.args)
    BY <1>1, <1>2, <1>4, <1>7, <1>9
  <2>2. InFixedArguments(c)'
    BY <1>2, <1>3, <1>8, <1>9, <2>1 DEF InFixedArguments
  <2> QED
    BY <1>7, <1>8, <1>9, <2>1, <2>2, CommandGoesOn DEF Receiving, InCommand
<1>10. CASE /\ Len(args) = fixed /\ VariableBytes(c.name, args) > 0
            /\ command_arguments' = args
            /\ variable_bytes' = VariableBytes(c.name, args)
            /\ state' = "GettingVariableArgs"
            /\ UNCHANGED <<command_buffer, CurrentCommand>>
            /\ Collect
  <2>1. more > 0 /\ variable_bytes' = more
    BY <1>5, <1>10
  <2>2. more \in Uint16
    <3>1. Len(args) = row.FixedArgumentBytes
      BY <1>10
    <3>2. VariableBytes(row.Name, args) \in Uint16
      BY <1>1, <1>4, <3>1, VariableBytesType
    <3> QED
      BY <1>4, <1>5, <1>10, <3>2
  <2> HIDE DEF more
  <2>3. Len(args) < Len(c.args) /\ Len(args) < fixed + more
    <3>1. Len(c.args) = fixed + more /\ fixed \in Nat /\ Len(args) = fixed
      BY <1>4, <1>10
    <3>2. more \in Nat /\ more > 0
      BY <2>1, <2>2 DEF Uint16
    <3> HIDE DEF fixed
    <3>3. fixed < fixed + more
      BY <3>1, <3>2
    <3> QED
      BY <3>1, <3>3
  <2>4. InVariableArguments(c)'
    BY <1>2, <1>3, <1>8, <1>10, <2>1, <2>3 DEF InVariableArguments, InFixedArguments, more
  <2> QED
    BY <1>7, <1>8, <1>10, <2>3, <2>4, CommandGoesOn DEF Receiving, InCommand
<1>11. CASE Len(args) = fixed /\ VariableBytes(c.name, args) = 0 /\ Execute(c.name, args)
  <2>1. more = 0
    BY <1>5, <1>11
  <2> HIDE DEF more
  <2>2. Len(args) = Len(c.args)
    BY <1>4, <1>11, <2>1
  <2>3. Execute(c.name, c.args) /\ outgoing' = <<>>
    BY <1>7, <1>8, <1>11, <2>2
  <2> QED
    BY <2>3, CommandIsExecuted DEF Receiving
<1> QED
  BY <1>2, <1>4, <1>6, <1>9, <1>10, <1>11 DEF ArgumentByte, args

LEMMA VariableArgumentIsReceived ==
  ASSUME NEW c, Receiving(c), InVariableArguments(c)
  PROVE Following'
<1> DEFINE byte == Head(outgoing)
           args == Append(command_arguments, byte)
           rest == Tail(outgoing)
           row == RowOf(c.name)
           all == row.FixedArgumentBytes + variable_bytes
<1>1. /\ c \in Commands /\ c.args \in Seq(Byte) /\ args \in Seq(Byte) /\ rest \in Seq(Byte)
      /\ Len(args) = Len(command_arguments) + 1 /\ Len(command_arguments) \in Nat
  BY ReceivingTypes
<1>2. /\ c.name # "Character" /\ CurrentCommand = row
      /\ variable_bytes = VariableBytes(c.name, c.args)
      /\ Len(command_arguments) < all
  BY DEF InVariableArguments
<1>3. args \o rest = c.args
  BY ReceivingTypes DEF InVariableArguments
<1>4. row.Name = c.name /\ Len(c.args) = all
  BY <1>1, <1>2, CommandsHaveRows
<1>5. VariableByte(byte)
  BY DEF Receiving, ProcessCommand, CharacterByte, CommandByte, ArgumentByte, InVariableArguments
<1> HIDE DEF args, rest, all
<1>6. /\ Len(args) \in Nat /\ Len(c.args) \in Nat /\ Len(args) <= Len(c.args)
      /\ Len(args) = Len(c.args) => args = c.args /\ rest = <<>>
      /\ Len(args) < Len(c.args) => rest # <<>>
  BY <1>1, <1>3, ArgumentsLeft
<1>7. outgoing' = rest
  BY DEF Receiving, rest
<1>8. CASE /\ Len(args) # all
           /\ command_arguments' = args
           /\ UNCHANGED <<state, command_buffer, CurrentCommand, variable_bytes>>
           /\ Collect
  <2>1. Len(args) < all /\ Len(args) < Len(c.args)
    BY <1>4, <1>6, <1>8
  <2>2. InVariableArguments(c)'
    BY <1>2, <1>3, <1>7, <1>8, <2>1 DEF InVariableArguments, all
  <2> QED
    BY <1>6, <1>7, <1>8, <2>1, <2>2, CommandGoesOn DEF Receiving, InCommand
<1>9. CASE Len(args) = all /\ Execute(c.name, args)
  <2>1. Execute(c.name, c.args) /\ outgoing' = <<>>
    BY <1>4, <1>6, <1>7, <1>9
  <2> QED
    BY <2>1, CommandIsExecuted DEF Receiving
<1> QED
  <2>1. CurrentCommand.FixedArgumentBytes + variable_bytes = all /\ CurrentCommand.Name = c.name
    BY <1>2, <1>4 DEF all
  <2> QED
    BY <1>2, <1>5, <1>8, <1>9, <2>1 DEF VariableByte, args

LEMMA InStepStep == GuIInv /\ HistoryInv /\ InStepInv /\ [GuNext]_guVars => InStepInv'
<1> SUFFICES ASSUME GuIInv, HistoryInv, InStepInv, [GuNext]_guVars PROVE InStepInv'
  OBVIOUS
<1>1. ASSUME NEW c \in Commands, process = "running", SendCommand(c) PROVE InStepInv'
  <2> DEFINE n == Len(intended)
  <2>1. /\ intended' \in Seq(Commands) /\ n \in Nat /\ Len(intended') = n + 1 /\ intended'[n + 1] = c
        /\ \A i \in 1 .. n : intended'[i] = intended[i]
        /\ DOMAIN intended = 1 .. n /\ DOMAIN intended' = 1 .. n + 1
    BY <1>1, AppendProperties DEF SendCommand, InStepInv
  <2> SUFFICES ASSUME Plain' PROVE Within'
    BY <2>1 DEF InStepInv, Following
  <2>2. Plain
    <3> SUFFICES ASSUME NEW i \in 1 .. n PROVE ~Hidden(intended[i])
      BY <2>1 DEF Plain
    <3>1. i \in 1 .. n + 1 /\ intended'[i] = intended[i]
      BY <2>1
    <3> QED
      BY <2>1, <3>1 DEF Plain
  <2>3. Resting /\ ExecutedAsSent(n)
    BY <1>1, <2>2 DEF SendCommand, InStepInv, Following, Between, Within, Stopped
  <2>4. outgoing' = Encoded(c) /\ UNCHANGED <<parser, executed, process>>
    BY <1>1 DEF SendCommand
  <2>5. ExecutedAsSent(Len(intended) - 1)'
    <3> HIDE DEF n
    <3>1. n + 1 - 1 = n
      BY <2>1
    <3> QED
      BY <2>1, <2>3, <2>4, <3>1 DEF ExecutedAsSent
  <2>6. c.args \in Seq(Byte)
    BY GuCommands
  <2>7. Encoded(c) # <<>> /\ InCommand(c)'
    <3>1. CASE c.name = "Character"
      <4>1. Len(c.args) = 1
        <5>1. \A row \in CommandTable : row.Name # "Character"
          BY FirstByteOfKey
        <5> QED
          BY <3>1, <5>1, GuWholeCommands DEF Whole
      <4>2. Encoded(c) = c.args /\ c.args # <<>>
        BY <3>1, <4>1 DEF Encoded
      <4>3. Resting'
        BY <2>3, <2>4 DEF Resting, parser
      <4>4. outgoing' = c.args
        BY <2>4, <4>2
      <4> QED
        BY <3>1, <4>2, <4>3, <4>4 DEF InCommand
    <3>2. CASE c.name # "Character"
      <4>1. KeyOf(c.name) \in Seq(Byte) /\ Len(KeyOf(c.name)) \in Nat \ {0}
        BY <3>2, CommandsHaveRows, FirstByteOfKey, RowsType
      <4>2. Encoded(c) = KeyOf(c.name) \o c.args
        BY <3>2 DEF Encoded
      <4> DEFINE sent == KeyOf(c.name) \o c.args
      <4>3. sent # <<>> /\ <<>> \o sent = sent
        BY <2>6, <4>1
      <4>4. state' = "Idle" /\ command_buffer' = <<>> /\ command_arguments' = <<>>
        BY <2>3, <2>4 DEF Resting, parser
      <4>5. Len(<<>>) < Len(KeyOf(c.name))
        BY <4>1
      <4> HIDE DEF sent
      <4>6. outgoing' = sent
        BY <2>4, <4>2 DEF sent
      <4>7. InKey(c)'
        BY <3>2, <4>3, <4>4, <4>5, <4>6 DEF InKey, sent
      <4> QED
        BY <2>4, <4>3, <4>6, <4>7 DEF InCommand
    <3> QED
      BY <3>1, <3>2
  <2>8. InCommand(intended[Len(intended)])'
    BY <2>1, <2>7 DEF InCommand
  <2> QED
    BY <1>1, <2>1, <2>4, <2>5, <2>7, <2>8 DEF Within
<1>2. CASE process = "running" /\ ReceiveByte
  <2>1. intended' = intended /\ outgoing # <<>>
    BY <1>2 DEF ReceiveByte
  <2> SUFFICES ASSUME Plain PROVE Following'
    BY <2>1 DEF InStepInv, Plain
  <2> DEFINE c == intended[Len(intended)]
  <2>2. Within
    BY <1>2, <2>1 DEF InStepInv, Following, Between, Stopped
  <2>3. Receiving(c) /\ InCommand(c)
    BY <1>2, <2>2 DEF Receiving, ReceiveByte, InStepInv, Within
  <2> HIDE DEF c
  <2> QED
    BY <2>3, CharacterIsReceived, KeyIsReceived, FixedArgumentIsReceived, VariableArgumentIsReceived
       DEF InCommand
<1>3. CASE UNCHANGED guVars
  BY <1>3 DEF guVars, parser, InStepInv, Plain, Following, Between, Within, Stopped, Resting,
     ExecutedAsSent, InCommand, InKey, InFixedArguments, InVariableArguments
<1> QED
  BY <1>1, <1>2, <1>3 DEF GuNext

\* The commands executed are the first n of those sent.
LEMMA UnderstoodAre ==
  ASSUME intended \in Seq(Commands), executed \in Seq(Entry),
         NEW n \in 0 .. Len(intended), ExecutedAsSent(n)
  PROVE Understood = [i \in 1 .. n |-> intended[i]]
<1>1. DOMAIN executed = 1 .. n
  BY DEF ExecutedAsSent
<1>2. ASSUME NEW i \in 1 .. n
      PROVE [name |-> executed[i].name, args |-> executed[i].args] = intended[i]
  <2>1. intended[i] \in Commands
    BY ElementOfSeq
  <2>2. intended[i] = [name |-> intended[i].name, args |-> intended[i].args]
    BY <2>1, GuWholeCommands
  <2> QED
    BY <2>2 DEF ExecutedAsSent
<1> QED
  BY <1>1, <1>2, Zenon DEF Understood

\* What the parser has gathered of a command, with what is still to come.
LEMMA GatheredOfCommand ==
  ASSUME GuIInv, NEW c \in Commands, InCommand(c)
  PROVE command_buffer \o command_arguments \o outgoing = Encoded(c)
<1>1. /\ command_buffer \in Seq(Byte) /\ command_arguments \in Seq(Byte) /\ outgoing \in Seq(Byte)
      /\ c.args \in Seq(Byte)
  BY GuCommands DEF GuIInv, Inner, ParserTypeOK
<1>2. CASE c.name = "Character" /\ Resting /\ outgoing = c.args
  BY <1>1, <1>2 DEF Encoded, Resting
<1>3. CASE InKey(c)
  <2>1. command_buffer \o command_arguments = command_buffer
    BY <1>1, <1>3 DEF InKey
  <2> QED
    BY <1>3, <2>1 DEF InKey, Encoded
<1>4. CASE InFixedArguments(c) \/ InVariableArguments(c)
  <2>1. c.name # "Character" /\ command_buffer = KeyOf(c.name) /\ command_arguments \o outgoing = c.args
    BY <1>4 DEF InFixedArguments, InVariableArguments
  <2>2. command_buffer \o command_arguments \o outgoing
        = command_buffer \o (command_arguments \o outgoing)
    BY <1>1, ConcatAssociative
  <2> QED
    BY <2>1, <2>2 DEF Encoded
<1> QED
  BY <1>2, <1>3, <1>4 DEF InCommand

LEMMA InStepFollows == GuIInv /\ InStepInv /\ HistoryInv => InStep
<1> SUFFICES ASSUME GuIInv, InStepInv, HistoryInv, Plain
             PROVE AllUnderstood \/ LastUnderWay \/ LastStoppedIt
  BY DEF InStep, Plain
<1> DEFINE n == Len(intended)
<1>1. intended \in Seq(Commands) /\ executed \in Seq(Entry) /\ n \in Nat /\ Following
  BY DEF InStepInv, HistoryInv
<1>2. intended = [i \in 1 .. n |-> intended[i]]
  BY <1>1
<1>3. n >= 1 => /\ Front(intended) = [i \in 1 .. n - 1 |-> intended[i]]
                /\ Last(intended) = intended[n] /\ intended[n] \in Commands
  BY <1>1, ElementOfSeq DEF Front, Last
<1>4. CASE Between
  <2>1. Understood = intended
    BY <1>1, <1>2, <1>4, UnderstoodAre DEF Between
  <2> QED
    BY <1>4, <2>1 DEF Between, Resting, AllUnderstood
<1>5. CASE Within
  <2>1. n >= 1 /\ n - 1 \in 0 .. n /\ ExecutedAsSent(n - 1) /\ InCommand(intended[n])
    BY <1>1, <1>5 DEF Within
  <2>2. Understood = Front(intended)
    BY <1>1, <1>3, <2>1, UnderstoodAre
  <2>3. command_buffer \o command_arguments \o outgoing = Encoded(Last(intended))
    BY <1>3, <2>1, GatheredOfCommand
  <2> QED
    BY <1>5, <2>2, <2>3 DEF Within, LastUnderWay
<1>6. CASE Stopped
  <2>1. n >= 1 /\ n - 1 \in 0 .. n /\ ExecutedAsSent(n - 1)
    BY <1>1, <1>6 DEF Stopped
  <2>2. Understood = Front(intended)
    BY <1>1, <1>3, <2>1, UnderstoodAre
  <2> QED
    BY <1>3, <1>6, <2>1, <2>2 DEF Stopped, LastStoppedIt
<1> QED
  BY <1>1, <1>4, <1>5, <1>6 DEF Following

(***************************************************************************)
(* Firmware that sends whole commands, none of them hidden, is understood  *)
(* at every byte: what was executed is what was sent before, the bytes     *)
(* gathered are the beginning of the command under way, and a command that *)
(* stops the simulator does so at its last byte.                           *)
(***************************************************************************)
THEOREM InStepCorrect == GuSpec => []InStep
<1>1. GuInit => HistoryInv /\ InStepInv
  BY DEF GuInit, HistoryInv, LastAdvanced, BackspaceReturnsToTheCharacter,
     InStepInv, Following, Between, Resting, ExecutedAsSent
<1> QED
  BY <1>1, GuIInvInit, GuIInvStep, HistoryStep, InStepStep, InStepFollows, PTL DEF GuSpec
-----------------------------------------------------------------------------
(* Hidden commands                                                         *)

NothingHiddenExecuted == \A i \in DOMAIN executed : ~Hidden(executed[i])

\* No row's key is a beginning of the bytes.
NoKeyIn(bytes) == \A n \in 1 .. Len(bytes) : \A row \in CommandTable : row.key # SubSeq(bytes, 1, n)

\* While a key is gathered no row's key has gone by, so the row a byte
\* completes is not hidden.
HiddenInv ==
  /\ state = "Idle" => command_buffer = <<>>
  /\ state = "GettingCommand" => NoKeyIn(command_buffer)
  /\ state \in {"GettingCommandArguments", "GettingVariableArgs"} => ~Hidden([name |-> CurrentCommand.Name])
  /\ NothingHiddenExecuted

LEMMA KeyOfRow ==
  ASSUME NEW row \in CommandTable
  PROVE KeyOf(row.Name) = row.key
<1>1. RowOf(row.Name) \in CommandTable /\ RowOf(row.Name).Name = row.Name
  BY DEF RowOf
<1>2. RowOf(row.Name) = row
  BY <1>1, RowsAreDifferent, Zenon
<1> QED
  BY <1>2 DEF KeyOf, RowOf

\* One more byte leaves the beginnings as they are and adds the whole.
LEMMA BeginningsOfLonger ==
  ASSUME NEW bytes \in Seq(Byte), NEW byte \in Byte
  PROVE LET key == Append(bytes, byte)
        IN /\ key \in Seq(Byte) /\ Len(key) = Len(bytes) + 1 /\ SubSeq(key, 1, Len(key)) = key
           /\ \A n \in 1 .. Len(bytes) : SubSeq(key, 1, n) = SubSeq(bytes, 1, n)
<1> DEFINE key == Append(bytes, byte)
<1>1. /\ key \in Seq(Byte) /\ Len(key) = Len(bytes) + 1 /\ Len(bytes) \in Nat
      /\ \A i \in 1 .. Len(bytes) : key[i] = bytes[i]
  BY AppendProperties
<1> HIDE DEF key
<1>2. \A i \in Nat : 1 + i - 1 = i /\ i + 1 - 1 = i
  OBVIOUS
<1>3. SubSeq(key, 1, Len(key)) = key
  BY <1>1
<1>4. ASSUME NEW n \in 1 .. Len(bytes) PROVE SubSeq(key, 1, n) = SubSeq(bytes, 1, n)
  <2>1. /\ SubSeq(key, 1, n) = [i \in 1 .. n |-> key[i]]
        /\ SubSeq(bytes, 1, n) = [i \in 1 .. n |-> bytes[i]]
    BY <1>1
  <2>2. \A i \in 1 .. n : key[i] = bytes[i]
    BY <1>1
  <2> QED
    BY <2>1, <2>2
<1> QED
  BY <1>1, <1>3, <1>4 DEF key

LEMMA CompletedRowIsNotHidden ==
  ASSUME NEW bytes \in Seq(Byte), NEW byte \in Byte, NoKeyIn(bytes),
         NEW row \in CommandTable, row.key = Append(bytes, byte)
  PROVE ~Hidden([name |-> row.Name])
<1> DEFINE key == Append(bytes, byte)
<1>1. /\ key \in Seq(Byte) /\ Len(key) = Len(bytes) + 1 /\ SubSeq(key, 1, Len(key)) = key
      /\ \A n \in 1 .. Len(bytes) : SubSeq(key, 1, n) = SubSeq(bytes, 1, n)
  BY BeginningsOfLonger
<1> HIDE DEF key
<1>2. KeyOf(row.Name) = key
  BY KeyOfRow DEF key
<1>3. SUFFICES ASSUME NEW shorter \in CommandTable, IsStrictPrefix(shorter.key, key) PROVE FALSE
  BY <1>2 DEF Hidden
<1> DEFINE m == Len(shorter.key)
<1>4. shorter.key \in Seq(Byte) /\ m \in Nat \ {0}
  BY RowsType, FirstByteOfKey
<1>5. m <= Len(key) /\ SubSeq(shorter.key, 1, m) = SubSeq(key, 1, m) /\ shorter.key # key
  BY <1>3 DEF IsStrictPrefix, IsPrefix
<1>6. SubSeq(shorter.key, 1, m) = shorter.key
  BY <1>4
<1> HIDE DEF m
<1>7. m # Len(key)
  BY <1>1, <1>5, <1>6
<1>8. m \in 1 .. Len(bytes)
  BY <1>1, <1>4, <1>5, <1>7
<1> QED
  BY <1>1, <1>5, <1>6, <1>8 DEF NoKeyIn

\* Executing a command that is not hidden.
LEMMA NotHiddenIsExecuted ==
  ASSUME HiddenInv, executed \in Seq(Entry), screen \in Screen,
         NEW name \in Names, NEW args \in Seq(Byte), ~Hidden([name |-> name]), Execute(name, args)
  PROVE HiddenInv'
<1>1. CASE process' = "running"
  <2>1. executed' = Append(executed, Recorded(name, args)) /\ ResetCommandState
    BY <1>1 DEF Execute, Recorded
  <2>2. Recorded(name, args) \in Entry /\ Recorded(name, args).name = name
    BY RecordedType DEF Recorded
  <2>3. /\ DOMAIN executed' = 1 .. Len(executed) + 1 /\ Len(executed) \in Nat
        /\ executed'[Len(executed) + 1] = Recorded(name, args)
        /\ \A i \in 1 .. Len(executed) : executed'[i] = executed[i]
    BY <2>1, <2>2, AppendProperties
  <2>4. ASSUME NEW i \in DOMAIN executed' PROVE ~Hidden(executed'[i])
    <3>1. CASE i = Len(executed) + 1
      BY <2>2, <2>3, <3>1 DEF Hidden
    <3>2. CASE i \in 1 .. Len(executed)
      BY <2>3, <3>2 DEF HiddenInv, NothingHiddenExecuted
    <3> QED
      BY <2>3, <3>1, <3>2
  <2>5. NothingHiddenExecuted'
    BY <2>4 DEF NothingHiddenExecuted, Hidden
  <2> QED
    BY <2>1, <2>5 DEF HiddenInv, ResetCommandState
<1>2. CASE process' # "running"
  BY <1>2 DEF Execute, parser, HiddenInv, NoKeyIn, NothingHiddenExecuted, Hidden
<1> QED
  BY <1>1, <1>2

LEMMA HiddenStep == GuIInv /\ HistoryInv /\ HiddenInv /\ [GuNext]_guVars => HiddenInv'
<1> SUFFICES ASSUME GuIInv, HistoryInv, HiddenInv, [GuNext]_guVars PROVE HiddenInv'
  OBVIOUS
<1>1. /\ executed \in Seq(Entry) /\ screen \in Screen
      /\ command_buffer \in Seq(Byte) /\ command_arguments \in Seq(Byte)
  BY DEF GuIInv, Inner, ParserTypeOK, MachineTypeOK, HistoryInv
<1>2. CASE UNCHANGED parser /\ UNCHANGED executed
  BY <1>2 DEF parser, HiddenInv, NoKeyIn, NothingHiddenExecuted, Hidden
<1>3. ASSUME NEW byte \in Byte, ProcessCommand(byte) PROVE HiddenInv'
  <2>1. CASE CharacterByte(byte)
    <3>1. <<byte>> \in Seq(Byte) /\ "Character" \in Names /\ ~Hidden([name |-> "Character"])
      BY DEF Names, Hidden
    <3> QED
      BY <1>1, <2>1, <3>1, NotHiddenIsExecuted DEF CharacterByte
  <2>2. CASE CommandByte(byte)
    <3> DEFINE key == Append(command_buffer, byte)
    <3>1. NoKeyIn(command_buffer)
      BY <2>2 DEF CommandByte, HiddenInv, NoKeyIn
    <3>2. CASE \E row \in CommandTable :
                 row.key = key /\ row.FixedArgumentBytes = 0 /\ Execute(row.Name, command_arguments)
      <4>1. PICK row \in CommandTable : row.key = key /\ Execute(row.Name, command_arguments)
        BY <3>2
      <4>2. ~Hidden([name |-> row.Name]) /\ row.Name \in Names
        BY <1>1, <3>1, <4>1, CompletedRowIsNotHidden DEF Names
      <4> QED
        BY <1>1, <4>1, <4>2, NotHiddenIsExecuted
    <3>3. CASE \E row \in CommandTable :
                 /\ row.key = key /\ row.FixedArgumentBytes > 0
                 /\ CurrentCommand' = row
                 /\ state' = "GettingCommandArguments"
                 /\ command_buffer' = key
                 /\ UNCHANGED <<command_arguments, variable_bytes>>
                 /\ Collect
      <4>1. PICK row \in CommandTable :
                   row.key = key /\ CurrentCommand' = row /\ state' = "GettingCommandArguments" /\ Collect
        BY <3>3
      <4>2. ~Hidden([name |-> row.Name])
        BY <1>1, <3>1, <4>1, CompletedRowIsNotHidden
      <4>3. NothingHiddenExecuted'
        BY <4>1 DEF Collect, HiddenInv, NothingHiddenExecuted, Hidden
      <4> QED
        BY <4>1, <4>2, <4>3 DEF HiddenInv, Hidden
    <3>4. CASE /\ \A row \in CommandTable : row.key # key
               /\ state' = "GettingCommand"
               /\ command_buffer' = key
               /\ UNCHANGED <<command_arguments, CurrentCommand, variable_bytes>>
               /\ Collect
      <4>1. /\ Len(key) = Len(command_buffer) + 1 /\ SubSeq(key, 1, Len(key)) = key
            /\ \A n \in 1 .. Len(command_buffer) : SubSeq(key, 1, n) = SubSeq(command_buffer, 1, n)
            /\ Len(command_buffer) \in Nat
        BY <1>1, BeginningsOfLonger
      <4> HIDE DEF key
      <4>2. NoKeyIn(key)
        <5> SUFFICES ASSUME NEW n \in 1 .. Len(key), NEW row \in CommandTable PROVE row.key # SubSeq(key, 1, n)
          BY DEF NoKeyIn
        <5>1. CASE n = Len(key)
          BY <3>4, <4>1, <5>1
        <5>2. CASE n \in 1 .. Len(command_buffer)
          BY <3>1, <4>1, <5>2 DEF NoKeyIn
        <5> QED
          BY <4>1, <5>1, <5>2
      <4>3. NothingHiddenExecuted' /\ state' = "GettingCommand" /\ command_buffer' = key
        BY <3>4 DEF Collect, HiddenInv, NothingHiddenExecuted, Hidden
      <4> QED
        BY <4>2, <4>3 DEF HiddenInv, NoKeyIn
    <3> QED
      BY <2>2, <3>2, <3>3, <3>4 DEF CommandByte
  <2>3. CASE ArgumentByte(byte) \/ VariableByte(byte)
    <3> DEFINE args == Append(command_arguments, byte)
    <3>1. args \in Seq(Byte)
      BY <1>1, AppendProperties
    <3>2. CurrentCommand \in CommandTable /\ CurrentCommand.Name \in Names
          /\ ~Hidden([name |-> CurrentCommand.Name])
      BY <2>3 DEF ArgumentByte, VariableByte, GuIInv, Inner, Gathered, HiddenInv, Names
    <3>3. CASE Execute(CurrentCommand.Name, args)
      <4> HIDE DEF args
      <4> QED
        BY <1>1, <3>1, <3>2, <3>3, NotHiddenIsExecuted
    <3>4. CASE /\ state' \in {"GettingCommandArguments", "GettingVariableArgs"}
               /\ UNCHANGED CurrentCommand /\ UNCHANGED executed
      <4>1. NothingHiddenExecuted'
        BY <3>4 DEF HiddenInv, NothingHiddenExecuted, Hidden
      <4> QED
        BY <3>2, <3>4, <4>1 DEF HiddenInv, Hidden
    <3> QED
      BY <2>3, <3>3, <3>4 DEF ArgumentByte, VariableByte, Collect
  <2> QED
    BY <1>3, <2>1, <2>2, <2>3 DEF ProcessCommand
<1>4. CASE ReceiveByte
  <2>1. Head(outgoing) \in Byte
    BY <1>4, HeadTailProperties DEF ReceiveByte, GuIInv
  <2> QED
    BY <1>3, <1>4, <2>1 DEF ReceiveByte
<1>5. CASE \E c \in Commands : SendCommand(c)
  BY <1>2, <1>5 DEF SendCommand
<1>6. CASE UNCHANGED guVars
  BY <1>2, <1>6 DEF guVars
<1> QED
  BY <1>4, <1>5, <1>6 DEF GuNext

(***************************************************************************)
(* The other side of InStep: a command whose key continues a shorter one   *)
(* is never executed, whatever commands the firmware sends                 *)
(* (sim_gu7000.cpp:46-57).  In the table these are CurrentWindowSelect,    *)
(* UserWindowDefinitionCancel and WriteScreenModeSelect.                   *)
(***************************************************************************)
THEOREM HiddenNeverExecuted == GuSpec => []NothingHiddenExecuted
<1>1. GuInit => HistoryInv /\ HiddenInv
  BY DEF GuInit, HistoryInv, LastAdvanced, BackspaceReturnsToTheCharacter, HiddenInv, NothingHiddenExecuted
<1>2. HiddenInv => NothingHiddenExecuted
  BY DEF HiddenInv
<1> QED
  BY <1>1, <1>2, GuIInvInit, GuIInvStep, HistoryStep, HiddenStep, PTL DEF GuSpec
=============================================================================
