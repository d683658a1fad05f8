------------------------------ MODULE Terminal ------------------------------
(***************************************************************************)
(* The text terminal on the frame buffer (display/terminal.rs,             *)
(* display/framebuffer.rs) as operators on a record: the lines of pixels,  *)
(* the cursor and the colour of the text.  A line of pixels is cut into    *)
(* the columns of the text, and what a column shows is the background or   *)
(* one line of a glyph in its colour.  The width of a glyph, and pixels to *)
(* the right of the last column, are data.                                 *)
(***************************************************************************)
EXTENDS Integers, Sequences

CONSTANTS
  Height,       \* lines of pixels
  GlyphHeight,
  Cols,         \* columns of text
  TabWidth,     \* TAB_WIDTH
  Chars,        \* characters
  Font,         \* those that FONT has a glyph for
  Colors

ASSUME TerminalAssumption ==
  /\ {Height, GlyphHeight, Cols, TabWidth} \subseteq Nat \ {0}
  /\ GlyphHeight <= Height
  /\ Font \union {"newline", "return", "tab"} \subseteq Chars
  /\ "white" \in Colors /\ Colors \intersect Chars = {}

Rows == Height \div GlyphHeight

\* What a column without a glyph shows.
Background == <<>>

BlankLine == [x \in 0..(Cols - 1) |-> Background]

\* Terminal::new and clear.
Cleared ==
  [fb |-> [y \in 0..(Height - 1) |-> BlankLine], col |-> 0, row |-> 0, fg |-> "white"]

SetColors(t, fg) == [t EXCEPT !.fg = fg]

\* What line i of the glyph of c looks like.
GlyphLine(t, c, i) == IF c \in Font THEN <<c, t.fg, i>> ELSE Background

RenderGlyph(t, c) ==
  LET top == t.row * GlyphHeight
  IN  [t EXCEPT !.fb = [y \in DOMAIN @ |->
         IF y \in top..(top + GlyphHeight - 1) THEN [@[y] EXCEPT ![t.col] = GlyphLine(t, c, y - top)] ELSE @[y]]]

\* Variant: the lines that become free keep what they show.
ScrollOnly(t) ==
  [t EXCEPT !.fb = [y \in DOMAIN @ |-> IF y + GlyphHeight < Height THEN @[y + GlyphHeight] ELSE @[y]],
            !.row = Rows - 1]

Scroll(t) ==
  [t EXCEPT !.fb = [y \in DOMAIN @ |-> IF y + GlyphHeight < Height THEN @[y + GlyphHeight] ELSE BlankLine],
            !.row = Rows - 1]

AdvanceRow(t) ==
  LET next == [t EXCEPT !.row = @ + 1, !.col = 0]
  IN  IF next.row >= Rows THEN Scroll(next) ELSE next

\* The column behind column col that a tab leads to.
TabStop(col) == (col \div TabWidth + 1) * TabWidth

PrintChar(t, c) ==
  CASE c = "newline" -> AdvanceRow(t)
    [] c = "return"  -> [t EXCEPT !.col = 0]
    [] c = "tab"     -> IF TabStop(t.col) < Cols THEN [t EXCEPT !.col = TabStop(t.col)] ELSE t
    [] OTHER         -> IF t.col + 1 >= Cols THEN AdvanceRow(RenderGlyph(t, c))
                        ELSE [RenderGlyph(t, c) EXCEPT !.col = @ + 1]
=============================================================================
