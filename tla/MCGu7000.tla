------------------------------ MODULE MCGu7000 ------------------------------
(* A small instance of Gu7000 for TLC.                                     *)
EXTENDS Gu7000

\* Three characters of the font as they are; the others are left blank.
Glyphs ==
  [c \in 32 .. 126 |->
     CASE c = 33 -> {2} \X {0, 1, 2, 3, 5}
       [] c = 34 -> {1, 3} \X {0, 1, 2}
       [] c = 35 -> ({1, 3} \X {1, 2, 3, 4, 5}) \cup ((0 .. 4) \X {2, 4})
       [] OTHER -> {}]

C(name, args) == [name |-> name, args |-> args]

\* The cursor near the ends of both lines and past them; characters with and
\* without a glyph; text and images over the right edge and from beyond the
\* left; magnifications inside and outside the limits; the commands that are
\* hidden, and those that stop the simulator.
SomeCommands ==
  { C("Character", <<33>>), C("Character", <<35>>), C("Character", <<200>>),
    C("Backspace", <<>>), C("HorizontalTab", <<>>), C("LineFeed", <<>>), C("CarriageReturn", <<>>),
    C("DisplayClear", <<>>), C("InitializeDisplay", <<>>),
    C("CursorSet", <<107, 0, 1, 0>>), C("CursorSet", <<44, 1, 2, 0>>),
    C("FontMagnificationSet", <<2, 2>>), C("FontMagnificationSet", <<9, 0>>),
    C("ScreenSaver", <<3>>), C("CompositionMode", <<1>>),
    C("PrintAtPosition", <<102, 0, 3, 0, 0, 3, 33, 34, 27>>),
    C("PrintAtPosition", <<254, 255, 253, 255, 0, 1, 35>>),
    C("PrintAtPosition", <<0, 0, 0, 0, 0, 0>>),
    C("RealTimeBitImageDisplay", <<110, 0, 4, 0, 3, 0, 8, 0, 1, 255, 129, 0>>),
    C("RealTimeBitImageDisplay", <<60, 0, 7, 0, 1, 0, 12, 0, 1, 129>>),
    C("RealTimeBitImageDisplay", <<5, 0, 0, 0, 1, 0, 16, 0, 1, 255, 24>>),
    C("RealTimeBitImageDisplay", <<10, 1, 9, 0, 1, 0, 8, 0, 1, 255>>),
    C("CurrentWindowSelect", <<0>>),
    C("InternationalFontSet", <<>>), C("BrightnessControl", <<3>>),
    C("RealTimeBitImageDisplay", <<0, 0, 0, 0, 0, 1, 0, 8, 1>>),
    C("RealTimeBitImageDisplay", <<0, 0, 0, 0, 1, 0, 0, 1, 1>> \o [i \in 1 .. 32 |-> 170]) }
=============================================================================
