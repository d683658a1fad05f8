--------------------------- MODULE ConsoleProofs ---------------------------
(***************************************************************************)
(* Proofs about Terminal and Console: the screen, for every size of it and *)
(* of a glyph and for any output of any number of CPUs, and the way of a   *)
(* key, for any events.                                                    *)
(*                                                                         *)
(* A character does to the page what it does to the screen because the     *)
(* lines that scroll away are those that the end of the page leaves        *)
(* behind, and the ones that become free are blank.  The colours agree     *)
(* while TERMINAL is locked, because all output ends in white.             *)
(*                                                                         *)
(* A key is found again by counting events: Here says how many have come   *)
(* through, and that the decoder has not yet seen all of the next one.     *)
(***************************************************************************)
EXTENDS Console, TLAPS

-----------------------------------------------------------------------------
(* The screen.                                                             *)

Cells == {Background} \union (Font \X Colors)
Pixels == {Background} \union (Font \X Colors \X Nat)
Line(S) == [0..(Cols - 1) -> S]
Texts == Seq(Line(Cells)) \ {<<>>}

\* What the terminal and the page are.
TermOK(t) == t \in [fb : [0..(Height - 1) -> Line(Pixels)], col : Nat, row : Nat, fg : Colors]
PageOK(p) == p \in [lines : Texts, col : Nat, fg : Colors]

\* The pixels fb, with the cursor in this row, show the end of the lines.
Shows(fb, row, lines) ==
  /\ row = Len(lines) - Start(lines) - 1
  /\ \A y \in 0..(Height - 1), x \in 0..(Cols - 1) : fb[y][x] = Picture(lines, y, x)

Items == Chars \union Colors
Codes == {e.code : e \in Events}

\* After all of the output text is white.
EndsWhite(fg, text) ==
  \/ fg = "white" /\ \A j \in 1..Len(text) : text[j] \notin Colors
  \/ \E i \in 1..Len(text) : text[i] = "white" /\ \A j \in 1..Len(text) : j > i => text[j] \notin Colors

LEMMA Sizes ==
  /\ Height \in Nat /\ GlyphHeight \in Nat /\ Cols \in Nat /\ TabWidth \in Nat
  /\ GlyphHeight > 0 /\ Cols > 0 /\ TabWidth > 0 /\ GlyphHeight <= Height
BY TerminalAssumption

\* Quotient and remainder.
LEMMA DivMod ==
  ASSUME NEW y \in Nat, NEW g \in Nat, g > 0
  PROVE  y \div g \in Nat /\ y % g \in 0..(g - 1) /\ y = g * (y \div g) + (y % g)
OBVIOUS

LEMMA DivUnique ==
  ASSUME NEW g \in Nat, g > 0, NEW a \in Nat, NEW b \in Nat, NEW r \in 0..(g - 1), NEW s \in 0..(g - 1),
         g * a + r = g * b + s
  PROVE  a = b /\ r = s
<1>1. ASSUME NEW m \in Nat, NEW n \in Nat, NEW u \in 0..(g - 1), NEW v \in 0..(g - 1),
             m < n, g * m + u = g * n + v
      PROVE  FALSE
  <2>1. n = m + 1 + (n - m - 1) /\ n - m - 1 \in Nat
    BY <1>1
  <2> DEFINE k == n - m - 1
  <2>2. g * n = g * m + g + g * k
    BY <2>1
  <2>3. g * k >= 0 /\ g * m \in Int /\ g * k \in Int
    BY <2>1
  <2> QED
    BY <1>1, <2>2, <2>3
<1>2. ~(a < b) /\ ~(b < a)
  BY <1>1
<1>3. a = b
  BY <1>2
<1>4. QED
  BY <1>3

\* A line of pixels, and the one that is a row of text below it.
LEMMA NextRow ==
  ASSUME NEW y \in Nat
  PROVE  (y + GlyphHeight) \div GlyphHeight = (y \div GlyphHeight) + 1
         /\ (y + GlyphHeight) % GlyphHeight = y % GlyphHeight
<1> DEFINE g == GlyphHeight
           q == y \div g
           r == y % g
           z == y + g
<1>1. g \in Nat /\ g > 0 /\ z \in Nat
  BY Sizes
<1>2. q \in Nat /\ r \in 0..(g - 1) /\ y = g * q + r
  BY <1>1, DivMod, Zenon
<1>3. z \div g \in Nat /\ z % g \in 0..(g - 1) /\ z = g * (z \div g) + (z % g)
  BY <1>1, DivMod, Zenon
<1> HIDE DEF q, r, g
<1>4. z = g * (q + 1) + r /\ q + 1 \in Nat
  BY <1>1, <1>2
<1> HIDE DEF z
<1>5. z \div g = q + 1 /\ z % g = r
  BY <1>1, <1>2, <1>3, <1>4, DivUnique
<1>6. QED
  BY <1>5 DEF g, q, r, z

\* The lines of pixels of a row of text.
LEMMA RowLines ==
  ASSUME NEW y \in Nat, NEW row \in Nat
  PROVE  /\ y \in (row * GlyphHeight)..(row * GlyphHeight + GlyphHeight - 1) <=> y \div GlyphHeight = row
         /\ y \div GlyphHeight = row => y - row * GlyphHeight = y % GlyphHeight
<1> DEFINE g == GlyphHeight
           q == y \div g
           r == y % g
<1>1. g \in Nat /\ g > 0
  BY Sizes
<1>2. q \in Nat /\ r \in 0..(g - 1) /\ y = g * q + r
  BY <1>1, DivMod, Zenon
<1> HIDE DEF q, r, g
<1>3. ASSUME y \in (row * g)..(row * g + g - 1) PROVE q = row
  <2> DEFINE s == y - row * g
  <2>1. row * g \in Int /\ row * g = g * row /\ s \in 0..(g - 1) /\ y = g * row + s
    BY <1>1, <1>3
  <2> HIDE DEF s
  <2> QED
    BY <1>1, <1>2, <2>1, DivUnique
<1>4. ASSUME q = row PROVE y \in (row * g)..(row * g + g - 1) /\ y - row * g = r
  <2>1. row * g \in Int /\ row * g = g * row /\ y = g * row + r
    BY <1>1, <1>2, <1>4
  <2> QED
    BY <1>1, <1>2, <2>1
<1>5. QED
  BY <1>3, <1>4, Zenon DEF g, q, r

LEMMA RowsFit ==
  /\ Rows \in Nat /\ Rows > 0
  /\ \A y \in Nat : y + GlyphHeight >= Height => y \div GlyphHeight + 1 >= Rows
<1> DEFINE g == GlyphHeight
           n == Height \div g
           s == Height % g
<1>1. g \in Nat /\ g > 0 /\ Height \in Nat /\ g <= Height
  BY Sizes
<1>2. n \in Nat /\ s \in 0..(g - 1) /\ Height = g * n + s
  BY <1>1, DivMod, Zenon
<1>3. Rows = n
  BY DEF Rows
<1> HIDE DEF n, s, g
<1>4. n > 0
  <2>1. n = 0 => g * n = 0
    BY <1>1, <1>2
  <2> QED
    BY <1>1, <1>2, <2>1
<1>5. ASSUME NEW y \in Nat, y + g >= Height PROVE y \div g + 1 >= n
  <2> DEFINE q == y \div g
             r == y % g
  <2>1. q \in Nat /\ r \in 0..(g - 1) /\ y = g * q + r
    BY <1>1, DivMod, Zenon
  <2> HIDE DEF q, r
  <2>2. ASSUME q + 1 < n PROVE FALSE
    <3>1. n = q + 2 + (n - q - 2) /\ n - q - 2 \in Nat
      BY <1>2, <2>1, <2>2
    <3> DEFINE k == n - q - 2
    <3>2. g * n = g * q + 2 * g + g * k
      BY <1>1, <2>1, <3>1
    <3>3. g * k >= 0 /\ g * q \in Int /\ g * k \in Int
      BY <1>1, <2>1, <3>1
    <3> QED
      BY <1>1, <1>2, <1>5, <2>1, <3>2, <3>3
  <2>3. q + 1 >= n
    BY <1>2, <2>1, <2>2
  <2> QED
    BY <2>3 DEF q
<1>6. QED
  BY <1>2, <1>3, <1>4, <1>5, Zenon DEF g

\* What render_glyph leaves on the screen.
LEMMA Rendered ==
  ASSUME NEW t, TermOK(t), t.col < Cols, NEW c \in Chars
  PROVE  /\ TermOK(RenderGlyph(t, c))
         /\ RenderGlyph(t, c).col = t.col /\ RenderGlyph(t, c).row = t.row /\ RenderGlyph(t, c).fg = t.fg
         /\ \A y \in 0..(Height - 1), x \in 0..(Cols - 1) :
              RenderGlyph(t, c).fb[y][x] =
                IF x = t.col /\ y \div GlyphHeight = t.row THEN GlyphLine(t, c, y % GlyphHeight) ELSE t.fb[y][x]
<1> DEFINE H == 0..(Height - 1)
           W == 0..(Cols - 1)
           top == t.row * GlyphHeight
           In(y) == y \in top..(top + GlyphHeight - 1)
           fb == [y \in DOMAIN t.fb |->
                    IF In(y) THEN [t.fb[y] EXCEPT ![t.col] = GlyphLine(t, c, y - top)] ELSE t.fb[y]]
<1>1. /\ t \in [fb : [H -> Line(Pixels)], col : Nat, row : Nat, fg : Colors]
      /\ t.fb \in [H -> [W -> Pixels]] /\ t.col \in Nat /\ t.row \in Nat /\ t.fg \in Colors
  BY Zenon DEF TermOK, Line
<1>2. RenderGlyph(t, c) = [t EXCEPT !.fb = fb]
  BY Zenon DEF RenderGlyph
<1>3. H \subseteq Nat /\ GlyphHeight \in Nat /\ t.col \in W
  BY <1>1, Sizes
<1>4. \A y \in H : y % GlyphHeight \in Nat
  BY <1>3, Sizes
<1>5. \A y \in H : (In(y) <=> y \div GlyphHeight = t.row) /\ (In(y) => y - top = y % GlyphHeight)
  BY <1>1, <1>3, RowLines, Zenon
<1> HIDE DEF In, top
<1>6. \A y \in H : y % GlyphHeight \in Nat /\ (In(y) => y - top \in Nat)
  BY <1>4, <1>5, Zenon
<1>7. \A i \in Nat : GlyphLine(t, c, i) \in Pixels
  BY <1>1 DEF GlyphLine, Pixels
<1>8. fb \in [H -> [W -> Pixels]]
  <2>1. ASSUME NEW y \in H PROVE fb[y] \in [W -> Pixels]
    <3>1. In(y) => GlyphLine(t, c, y - top) \in Pixels
      BY <1>6, <1>7, Zenon
    <3> QED
      BY <1>1, <3>1
  <2> QED
    BY <1>1, <2>1, Zenon
<1>81. \A y \in H : fb[y] = IF In(y) THEN [t.fb[y] EXCEPT ![t.col] = GlyphLine(t, c, y - top)] ELSE t.fb[y]
  BY <1>1, Zenon
<1> HIDE DEF fb
<1>9. ASSUME NEW y \in H, NEW x \in W
      PROVE  fb[y][x] = IF x = t.col /\ y \div GlyphHeight = t.row THEN GlyphLine(t, c, y % GlyphHeight) ELSE t.fb[y][x]
  <2>1. /\ In(y) => fb[y] = [t.fb[y] EXCEPT ![t.col] = GlyphLine(t, c, y - top)]
        /\ ~In(y) => fb[y] = t.fb[y]
    BY <1>81, Zenon
  <2>2. t.fb[y] \in [W -> Pixels]
    BY <1>1, Zenon
  <2>3. In(y) => GlyphLine(t, c, y - top) = GlyphLine(t, c, y % GlyphHeight)
    BY <1>5, Zenon
  <2>4. CASE In(y)
    <3>1. fb[y][x] = IF x = t.col THEN GlyphLine(t, c, y - top) ELSE t.fb[y][x]
      BY <1>3, <2>1, <2>2, <2>4
    <3> QED
      BY <1>5, <2>3, <2>4, <3>1, Zenon
  <2>5. CASE ~In(y)
    BY <1>5, <2>1, <2>5, Zenon
  <2> QED
    BY <2>4, <2>5, Zenon
<1>10. /\ RenderGlyph(t, c).fb = fb /\ RenderGlyph(t, c).col = t.col /\ RenderGlyph(t, c).row = t.row
       /\ RenderGlyph(t, c).fg = t.fg
  BY <1>1, <1>2, Zenon
<1>11. TermOK(RenderGlyph(t, c))
  BY <1>1, <1>2, <1>8, Zenon DEF TermOK, Line
<1>12. QED
  BY <1>9, <1>10, <1>11, Zenon

\* The cell of the page that a character goes to.
PutCell(lines, k, cell) == [lines EXCEPT ![Len(lines)][k] = cell]

IsPut(q, lines, k, cell) ==
  /\ Len(q) = Len(lines) /\ q[Len(lines)][k] = cell
  /\ \A n \in 1..Len(lines) : \A x \in 0..(Cols - 1) :
       n # Len(lines) \/ x # k => q[n][x] = lines[n][x]

LEMMA PutFacts ==
  ASSUME NEW lines \in Texts, NEW k \in 0..(Cols - 1), NEW cell \in Cells
  PROVE  PutCell(lines, k, cell) \in Texts /\ IsPut(PutCell(lines, k, cell), lines, k, cell)
<1> DEFINE W == 0..(Cols - 1)
           l == Len(lines)
           new == [lines[l] EXCEPT ![k] = cell]
           q == [lines EXCEPT ![l] = new]
<1>1. lines \in Seq(Line(Cells)) /\ l \in Nat /\ l > 0 /\ DOMAIN lines = 1..l /\ l \in 1..l
  BY DEF Texts
<1>2. \A n \in 1..l : lines[n] \in [W -> Cells]
  BY <1>1 DEF Line
<1>3. new \in [W -> Cells] /\ \A x \in W : new[x] = IF x = k THEN cell ELSE lines[l][x]
  BY <1>1, <1>2, Zenon
<1>4. PutCell(lines, k, cell) = q
  BY Zenon DEF PutCell
<1> HIDE DEF new
<1>5. q \in Seq(Line(Cells)) /\ Len(q) = l /\ \A n \in 1..l : q[n] = IF n = l THEN new ELSE lines[n]
  BY <1>1, <1>3 DEF Line
<1> HIDE DEF q
<1>6. q # <<>>
  <2>1. Len(<<>>) = 0 /\ l # 0
    BY <1>1
  <2> QED
    BY <1>5, <2>1, Zenon
<1>7. q[l][k] = cell /\ \A n \in 1..l : \A x \in W : n # l \/ x # k => q[n][x] = lines[n][x]
  BY <1>1, <1>3, <1>5, Zenon
<1>8. q \in Texts /\ IsPut(q, lines, k, cell)
  BY <1>5, <1>6, <1>7, Zenon DEF Texts, IsPut
<1>9. QED
  BY <1>4, <1>8, Zenon

LEMMA StartFacts ==
  ASSUME NEW lines \in Texts
  PROVE  /\ Start(lines) \in Nat /\ Len(lines) \in Nat /\ Len(lines) > 0
         /\ Len(lines) - Start(lines) - 1 \in 0..(Rows - 1)
BY RowsFit DEF Start, Texts

\* What a character looks like on the page, and on the screen.
OfChar(c, fg) == IF c \in Font THEN <<c, fg>> ELSE Background

LEMMA DrawnChar ==
  ASSUME NEW t, TermOK(t), NEW c \in Chars, NEW i \in Nat
  PROVE  OfChar(c, t.fg) \in Cells /\ Drawn(OfChar(c, t.fg), i) = GlyphLine(t, c, i)
<1>1. t.fg \in Colors
  BY Zenon DEF TermOK
<1>2. <<c, t.fg>> # <<>> /\ <<c, t.fg>>[1] = c /\ <<c, t.fg>>[2] = t.fg
  OBVIOUS
<1>3. QED
  BY <1>1, <1>2, Zenon DEF OfChar, Cells, Drawn, GlyphLine, Background

LEMMA RenderShows ==
  ASSUME NEW t, TermOK(t), t.col < Cols, NEW c \in Chars,
         NEW lines \in Texts, Shows(t.fb, t.row, lines)
  PROVE  Shows(RenderGlyph(t, c).fb, t.row, PutCell(lines, t.col, OfChar(c, t.fg)))
<1> DEFINE H == 0..(Height - 1)
           W == 0..(Cols - 1)
           u == RenderGlyph(t, c)
           cell == OfChar(c, t.fg)
           put == PutCell(lines, t.col, cell)
<1>1. H \subseteq Nat /\ t.col \in W /\ t.row \in Nat /\ cell \in Cells
  <2>1. t.col \in Nat /\ t.row \in Nat /\ cell \in Cells
    BY DrawnChar, Zenon DEF TermOK
  <2> QED
    BY <2>1, Sizes
<1>2. \A y \in H : y \div GlyphHeight \in Nat /\ y % GlyphHeight \in Nat
  BY <1>1, Sizes
<1>3. \A i \in Nat : Drawn(cell, i) = GlyphLine(t, c, i)
  BY DrawnChar, Zenon
<1> HIDE DEF cell
<1>4. /\ put \in Texts /\ Len(put) = Len(lines)
      /\ put[Len(lines)][t.col] = cell
      /\ \A n \in 1..Len(lines) : \A x \in W : n # Len(lines) \/ x # t.col => put[n][x] = lines[n][x]
  <2>1. t.col \in 0..(Cols - 1) /\ cell \in Cells
    BY <1>1, Zenon
  <2> HIDE DEF W
  <2>2. put \in Texts /\ IsPut(put, lines, t.col, cell)
    BY <2>1, PutFacts, Zenon
  <2> HIDE DEF put
  <2> QED
    BY <2>2, Zenon DEF IsPut, W
<1> HIDE DEF put
<1>5. Start(put) = Start(lines)
  BY <1>4, Zenon DEF Start
<1>6. /\ Start(lines) \in Nat /\ Len(lines) \in Nat /\ t.row = Len(lines) - Start(lines) - 1 /\ t.row < Rows
  BY StartFacts, RowsFit DEF Shows
<1>7. ASSUME NEW y \in H, NEW x \in W PROVE u.fb[y][x] = Picture(put, y, x)
  <2> DEFINE q == y \div GlyphHeight
             i == y % GlyphHeight
             n == Start(lines) + q + 1
  <2>1. q \in Nat /\ i \in Nat
    BY <1>2, Zenon
  <2>2. u.fb[y][x] = IF x = t.col /\ q = t.row THEN GlyphLine(t, c, i) ELSE t.fb[y][x]
    BY Rendered, Zenon
  <2>3. t.fb[y][x] = IF q >= Rows THEN Background ELSE Drawn(Cell(lines, n, x), i)
    BY Zenon DEF Shows, Picture
  <2>4. Picture(put, y, x) = IF q >= Rows THEN Background ELSE Drawn(Cell(put, n, x), i)
    BY <1>5, Zenon DEF Picture
  <2> HIDE DEF q, i
  <2>5. n \in Nat /\ n >= 1 /\ (n = Len(lines) <=> q = t.row)
    BY <1>6, <2>1
  <2>6. n <= Len(lines) => n \in 1..Len(lines)
    BY <1>6, <2>5
  <2>7. ~(q >= Rows /\ q = t.row)
    BY <1>6, <2>1, RowsFit
  <2>8. n = Len(lines) => n <= Len(lines)
    BY <1>6, <2>5
  <2> HIDE DEF n
  <2>9. Cell(put, n, x) = IF x = t.col /\ q = t.row THEN cell ELSE Cell(lines, n, x)
    BY <1>4, <2>5, <2>6, <2>8, Zenon DEF Cell
  <2> QED
    BY <1>3, <2>1, <2>2, <2>3, <2>4, <2>7, <2>9, Zenon
<1>8. t.row = Len(put) - Start(put) - 1
  BY <1>4, <1>5, <1>6, Zenon
<1>9. QED
  BY <1>7, <1>8, Zenon DEF Shows, put, cell

\* An empty line on the page.
LEMMA NewLine ==
  ASSUME NEW lines \in Texts
  PROVE  /\ Append(lines, BlankLine) \in Texts /\ Len(Append(lines, BlankLine)) = Len(lines) + 1
         /\ \A n \in Nat \ {0} : \A x \in 0..(Cols - 1) : Cell(Append(lines, BlankLine), n, x) = Cell(lines, n, x)
         /\ \A x \in 0..(Cols - 1) : \A n \in Nat : n > Len(lines) => Cell(lines, n, x) = Background
<1> DEFINE l == Len(lines)
           q == Append(lines, BlankLine)
<1>1. lines \in Seq(Line(Cells)) /\ l \in Nat
  BY DEF Texts
<1>2. BlankLine \in Line(Cells) /\ \A x \in 0..(Cols - 1) : BlankLine[x] = Background
  BY Zenon DEF BlankLine, Line, Cells
<1> HIDE DEF BlankLine
<1>3. /\ q \in Seq(Line(Cells)) /\ Len(q) = l + 1 /\ q[l + 1] = BlankLine
      /\ \A n \in 1..l : q[n] = lines[n]
  BY <1>1, <1>2
<1> HIDE DEF q
<1>4. q # <<>>
  <2>1. Len(<<>>) = 0 /\ l + 1 # 0
    BY <1>1
  <2> QED
    BY <1>3, <2>1, Zenon
<1>5. \A x \in 0..(Cols - 1) : \A n \in Nat : n > l => Cell(lines, n, x) = Background
  BY <1>1 DEF Cell
<1>6. ASSUME NEW n \in Nat \ {0}, NEW x \in 0..(Cols - 1) PROVE Cell(q, n, x) = Cell(lines, n, x)
  <2>1. CASE n <= l
    <3>1. n \in 1..l /\ n <= l + 1
      BY <1>1, <2>1
    <3> QED
      BY <1>3, <2>1, <3>1, Zenon DEF Cell
  <2>2. CASE n = l + 1
    <3>1. n <= l + 1 /\ ~(n <= l)
      BY <1>1, <2>2
    <3> QED
      BY <1>2, <1>3, <2>2, <3>1, Zenon DEF Cell
  <2>3. CASE n > l + 1
    <3>1. ~(n <= l + 1) /\ ~(n <= l)
      BY <1>1, <2>3
    <3> QED
      BY <1>3, <3>1, Zenon DEF Cell
  <2> QED
    BY <1>1, <2>1, <2>2, <2>3
<1>7. QED
  BY <1>3, <1>4, <1>5, <1>6, Zenon DEF Texts, q

\* scroll: every line of pixels shows what was a row below it.
LEMMA ScrollShows ==
  ASSUME NEW t, TermOK(t), NEW lines \in Texts, Shows(t.fb, t.row, lines), Len(lines) >= Rows,
         NEW u, u = [t EXCEPT !.row = @ + 1, !.col = 0]
  PROVE  TermOK(Scroll(u)) /\ Scroll(u).col = 0 /\ Scroll(u).fg = t.fg
         /\ Shows(Scroll(u).fb, Scroll(u).row, Append(lines, BlankLine))
<1> DEFINE H == 0..(Height - 1)
           W == 0..(Cols - 1)
           g == GlyphHeight
           new == Append(lines, BlankLine)
           fb == [y \in DOMAIN u.fb |-> IF y + g < Height THEN u.fb[y + g] ELSE BlankLine]
<1>1. t \in [fb : [H -> Line(Pixels)], col : Nat, row : Nat, fg : Colors]
  BY Zenon DEF TermOK
<1>2. u \in [fb : [H -> Line(Pixels)], col : Nat, row : Nat, fg : Colors] /\ u.fb = t.fb /\ u.col = 0 /\ u.fg = t.fg
  <2>1. t.row + 1 \in Nat /\ 0 \in Nat
    BY <1>1
  <2> QED
    BY <1>1, <2>1, Zenon
<1>3. t.fb \in [H -> Line(Pixels)]
  BY <1>1, Zenon
<1>4. BlankLine \in Line(Pixels) /\ \A x \in W : BlankLine[x] = Background
  BY Zenon DEF BlankLine, Line, Pixels
<1>5. /\ H \subseteq Nat /\ g \in Nat /\ \A y \in H : y + g \in Nat /\ (y + g < Height => y + g \in H)
      /\ \A y \in H : y \div g \in Nat /\ y % g \in Nat
  BY Sizes
<1>6. Scroll(u) = [u EXCEPT !.fb = fb, !.row = Rows - 1]
  BY Zenon DEF Scroll
<1>7. /\ \A y \in H : y + g < Height => fb[y] = t.fb[y + g]
      /\ \A y \in H : ~(y + g < Height) => fb[y] = BlankLine
  BY <1>2, <1>3, Zenon
<1>8. fb \in [H -> Line(Pixels)]
  BY <1>2, <1>3, <1>4, <1>5, Zenon
<1> HIDE DEF fb, BlankLine
<1>9. Rows \in Nat /\ Rows > 0 /\ Rows - 1 \in Nat
  BY RowsFit
<1>10. Scroll(u).fb = fb /\ Scroll(u).row = Rows - 1 /\ Scroll(u).col = 0 /\ Scroll(u).fg = t.fg
  BY <1>2, <1>6
<1>11. TermOK(Scroll(u))
  BY <1>2, <1>6, <1>8, <1>9 DEF TermOK
<1>12. /\ new \in Texts /\ Len(new) = Len(lines) + 1
       /\ \A n \in Nat \ {0} : \A x \in W : Cell(new, n, x) = Cell(lines, n, x)
       /\ \A x \in W : \A n \in Nat : n > Len(lines) => Cell(lines, n, x) = Background
  BY NewLine, Zenon
<1> HIDE DEF new
<1>13. Len(lines) \in Nat /\ Start(lines) = Len(lines) - Rows /\ Start(new) = Start(lines) + 1 /\ Start(lines) \in Nat
  BY <1>9, <1>12, StartFacts DEF Start
<1>14. Scroll(u).row = Len(new) - Start(new) - 1
  BY <1>9, <1>10, <1>12, <1>13
<1>15. ASSUME NEW y \in H, NEW x \in W PROVE fb[y][x] = Picture(new, y, x)
  <2> DEFINE q == y \div g
             i == y % g
             n == Start(new) + q + 1
  <2>1. q \in Nat /\ i \in Nat /\ y \in Nat
    BY <1>5, Zenon
  <2>2. Picture(new, y, x) = IF q >= Rows THEN Background ELSE Drawn(Cell(new, n, x), i)
    BY Zenon DEF Picture
  <2>3. Drawn(Background, i) = Background
    BY Zenon DEF Drawn
  <2>4. (y + g) \div g = q + 1 /\ (y + g) % g = i
    BY <2>1, NextRow, Zenon
  <2>5. y + g >= Height => q + 1 >= Rows
    BY <2>1, RowsFit, Zenon
  <2>6. y + g < Height => fb[y][x] = Picture(lines, y + g, x)
    <3>1. y + g < Height => t.fb[y + g][x] = Picture(lines, y + g, x)
      BY <1>5, Zenon DEF Shows
    <3> QED
      BY <1>7, <3>1, Zenon
  <2>7. ~(y + g < Height) => fb[y][x] = Background
    BY <1>4, <1>7, Zenon
  <2>8. Picture(lines, y + g, x) = IF q + 1 >= Rows THEN Background
                                   ELSE Drawn(Cell(lines, Start(lines) + (q + 1) + 1, x), i)
    BY <2>4, Zenon DEF Picture
  <2> HIDE DEF q, i
  <2>9. n \in Nat \ {0} /\ n = Start(lines) + (q + 1) + 1
    BY <1>13, <2>1
  <2>10. CASE q + 1 >= Rows
    <3>1. ~(q >= Rows) => n > Len(lines) /\ n \in Nat
      BY <1>9, <1>13, <2>1, <2>9, <2>10
    <3> HIDE DEF n
    <3>2. ~(q >= Rows) => Cell(new, n, x) = Background
      BY <1>12, <2>9, <3>1, Zenon
    <3>3. Picture(new, y, x) = Background
      BY <2>2, <2>3, <3>2, Zenon
    <3>4. fb[y][x] = Background
      BY <2>6, <2>7, <2>8, <2>10, Zenon
    <3> QED
      BY <3>3, <3>4, Zenon
  <2>11. CASE ~(q + 1 >= Rows)
    <3>1. ~(q >= Rows) /\ y + g < Height
      <4>1. y + g \in Nat /\ Height \in Nat
        BY <1>5, Sizes, Zenon
      <4>2. ~(q >= Rows)
        BY <1>9, <2>1, <2>11
      <4>3. ~(y + g >= Height)
        BY <2>5, <2>11, Zenon
      <4> HIDE DEF g
      <4> QED
        BY <4>1, <4>2, <4>3
    <3> HIDE DEF n
    <3>2. Cell(new, n, x) = Cell(lines, n, x)
      BY <1>12, <2>9, Zenon
    <3>3. fb[y][x] = Drawn(Cell(lines, n, x), i)
      BY <2>6, <2>8, <2>9, <2>11, <3>1, Zenon
    <3> QED
      BY <2>2, <3>1, <3>2, <3>3, Zenon
  <2> QED
    BY <2>10, <2>11, Zenon
<1>16. QED
  BY <1>10, <1>11, <1>14, <1>15, Zenon DEF Shows, new

\* advance_row, in both cases.
LEMMA AdvanceShows ==
  ASSUME NEW t, TermOK(t), NEW lines \in Texts, Shows(t.fb, t.row, lines)
  PROVE  TermOK(AdvanceRow(t)) /\ AdvanceRow(t).col = 0 /\ AdvanceRow(t).fg = t.fg
         /\ Shows(AdvanceRow(t).fb, AdvanceRow(t).row, Append(lines, BlankLine))
<1> DEFINE u == [t EXCEPT !.row = @ + 1, !.col = 0]
           new == Append(lines, BlankLine)
<1>1. AdvanceRow(t) = IF u.row >= Rows THEN Scroll(u) ELSE u
  BY Zenon DEF AdvanceRow
<1>2. /\ TermOK(u) /\ u.fb = t.fb /\ u.row = t.row + 1 /\ u.col = 0 /\ u.fg = t.fg /\ t.row \in Nat
  <2>1. t \in [fb : [0..(Height - 1) -> Line(Pixels)], col : Nat, row : Nat, fg : Colors] /\ t.row \in Nat
    BY Zenon DEF TermOK
  <2>2. t.row + 1 \in Nat /\ 0 \in Nat
    BY <2>1
  <2> QED
    BY <2>1, <2>2, Zenon DEF TermOK
<1>3. /\ t.row = Len(lines) - Start(lines) - 1 /\ Start(lines) \in Nat /\ Len(lines) \in Nat
      /\ Rows \in Nat /\ Rows > 0
  BY StartFacts, RowsFit DEF Shows
<1>4. u.row >= Rows <=> Len(lines) >= Rows
  BY <1>2, <1>3 DEF Start
<1>5. CASE u.row >= Rows
  <2>1. Len(lines) >= Rows /\ AdvanceRow(t) = Scroll(u)
    BY <1>1, <1>4, <1>5, Zenon
  <2> QED
    BY <2>1, ScrollShows, Zenon
<1>6. CASE ~(u.row >= Rows)
  <2>1. AdvanceRow(t) = u /\ Len(lines) < Rows
    BY <1>1, <1>3, <1>4, <1>6
  <2> HIDE DEF u
  <2>2. /\ new \in Texts /\ Len(new) = Len(lines) + 1
        /\ \A n \in Nat \ {0} : \A x \in 0..(Cols - 1) : Cell(new, n, x) = Cell(lines, n, x)
    BY NewLine, Zenon
  <2> HIDE DEF new
  <2>3. Start(new) = Start(lines) /\ t.row + 1 = Len(new) - Start(new) - 1
    <3>1. Len(new) = Len(lines) + 1
      BY <2>2, Zenon
    <3>2. Start(lines) = 0 /\ Start(new) = 0
      BY <1>3, <2>1, <3>1 DEF Start
    <3> QED
      BY <1>3, <3>1, <3>2
  <2>4. ASSUME NEW y \in 0..(Height - 1), NEW x \in 0..(Cols - 1) PROVE u.fb[y][x] = Picture(new, y, x)
    <3> DEFINE n == Start(lines) + (y \div GlyphHeight) + 1
    <3>1. y \div GlyphHeight \in Nat
      BY Sizes
    <3>2. n \in Nat \ {0}
      BY <1>3, <3>1
    <3> HIDE DEF n
    <3>3. Cell(new, n, x) = Cell(lines, n, x)
      BY <2>2, <3>2, Zenon
    <3>4. Picture(new, y, x) = Picture(lines, y, x)
      BY <2>3, <3>3, Zenon DEF Picture, n
    <3> QED
      BY <1>2, <3>4, Zenon DEF Shows
  <2>5. Shows(u.fb, u.row, new)
    BY <1>2, <2>3, <2>4, Zenon DEF Shows
  <2> QED
    BY <1>2, <2>1, <2>5, Zenon DEF new
<1>7. QED
  BY <1>5, <1>6, Zenon

\* The terminal shows the page.
Agree(t, p) ==
  TermOK(t) /\ PageOK(p) /\ Shows(t.fb, t.row, p.lines) /\ t.col = p.col /\ t.col < Cols

LEMMA PageFields ==
  ASSUME NEW p, PageOK(p)
  PROVE  p.lines \in Texts /\ p.col \in Nat /\ p.fg \in Colors
BY Zenon DEF PageOK

\* Another text, and another column.
Changed(p, lines, col) == [p EXCEPT !.lines = lines, !.col = col]
Differs(q, p, lines, col) == PageOK(q) /\ q.lines = lines /\ q.col = col /\ q.fg = p.fg

LEMMA ChangedFields ==
  ASSUME NEW p, PageOK(p), NEW lines \in Texts, NEW col \in Nat
  PROVE  Differs(Changed(p, lines, col), p, lines, col)
BY Zenon DEF PageOK, Changed, Differs

LEMMA TermFields ==
  ASSUME NEW t, TermOK(t)
  PROVE  /\ t.col \in Nat /\ t.row \in Nat /\ t.fg \in Colors
         /\ \A col \in Nat :
              LET u == [t EXCEPT !.col = col]
              IN  TermOK(u) /\ u.fb = t.fb /\ u.row = t.row /\ u.col = col /\ u.fg = t.fg
BY Zenon DEF TermOK

\* The cursor goes to another column.
LEMMA MoveStep ==
  ASSUME NEW t, NEW p, Agree(t, p), NEW col \in Nat, col < Cols
  PROVE  /\ Agree([t EXCEPT !.col = col], [p EXCEPT !.col = col])
         /\ [t EXCEPT !.col = col].fg = t.fg /\ [p EXCEPT !.col = col].fg = p.fg
<1> DEFINE u == [t EXCEPT !.col = col]
           q == [p EXCEPT !.col = col]
<1>1. TermOK(u) /\ u.fb = t.fb /\ u.row = t.row /\ u.col = col /\ u.fg = t.fg
  BY TermFields, Zenon DEF Agree
<1>2. PageOK(q) /\ q.lines = p.lines /\ q.col = col /\ q.fg = p.fg
  BY Zenon DEF PageOK, Agree
<1> HIDE DEF u, q
<1>3. Shows(u.fb, u.row, q.lines)
  BY <1>1, <1>2, Zenon DEF Agree
<1>4. Agree(u, q)
  BY <1>1, <1>2, <1>3, Zenon DEF Agree
<1>5. QED
  BY <1>1, <1>2, <1>4, Zenon DEF u, q

LEMMA NewlineStep ==
  ASSUME NEW t, NEW p, TermOK(t), PageOK(p), Shows(t.fb, t.row, p.lines)
  PROVE  Agree(AdvanceRow(t), NextLine(p)) /\ AdvanceRow(t).fg = t.fg /\ NextLine(p).fg = p.fg
<1> DEFINE new == Append(p.lines, BlankLine)
<1>1. p.lines \in Texts
  BY PageFields, Zenon
<1>2. new \in Texts
  BY <1>1, NewLine, Zenon
<1>3. /\ TermOK(AdvanceRow(t)) /\ AdvanceRow(t).col = 0 /\ AdvanceRow(t).fg = t.fg
      /\ Shows(AdvanceRow(t).fb, AdvanceRow(t).row, new)
  BY <1>1, AdvanceShows, Zenon
<1>4. NextLine(p) = Changed(p, new, 0)
  BY Zenon DEF NextLine, Changed
<1> HIDE DEF new
<1>5. 0 \in Nat /\ 0 < Cols
  BY Sizes
<1>6. PageOK(NextLine(p)) /\ NextLine(p).lines = new /\ NextLine(p).col = 0 /\ NextLine(p).fg = p.fg
  <2>1. Differs(Changed(p, new, 0), p, new, 0)
    BY <1>2, <1>5, ChangedFields, Zenon
  <2> QED
    BY <1>4, <2>1, Zenon DEF Differs
<1>7. QED
  BY <1>3, <1>5, <1>6, Zenon DEF Agree

\* print_char does to the screen what it does to the page.
LEMMA CharStep ==
  ASSUME NEW t, NEW p, Agree(t, p), t.fg = p.fg, NEW c \in Chars
  PROVE  Agree(PrintChar(t, c), OnPage(p, c)) /\ PrintChar(t, c).fg = t.fg /\ OnPage(p, c).fg = p.fg
<1>1. /\ TermOK(t) /\ PageOK(p) /\ Shows(t.fb, t.row, p.lines) /\ t.col = p.col /\ t.col < Cols
      /\ t.col \in Nat /\ p.lines \in Texts
  BY TermFields, PageFields, Zenon DEF Agree
<1>2. CASE c = "newline"
  <2>1. PrintChar(t, c) = AdvanceRow(t) /\ OnPage(p, c) = NextLine(p)
    BY <1>2, Zenon DEF PrintChar, OnPage
  <2> QED
    BY <1>1, <2>1, NewlineStep, Zenon
<1>3. CASE c = "return"
  <2>1. PrintChar(t, c) = [t EXCEPT !.col = 0] /\ OnPage(p, c) = [p EXCEPT !.col = 0]
    BY <1>3 DEF PrintChar, OnPage
  <2>2. 0 \in Nat /\ 0 < Cols
    BY Sizes
  <2>3. /\ Agree([t EXCEPT !.col = 0], [p EXCEPT !.col = 0])
        /\ [t EXCEPT !.col = 0].fg = t.fg /\ [p EXCEPT !.col = 0].fg = p.fg
    BY <2>2, MoveStep, Zenon
  <2> QED
    BY <2>1, <2>3, Zenon
<1>4. CASE c = "tab"
  <2> DEFINE n == TabStop(t.col)
  <2>1. /\ PrintChar(t, c) = IF n < Cols THEN [t EXCEPT !.col = n] ELSE t
        /\ OnPage(p, c) = IF n < Cols THEN [p EXCEPT !.col = n] ELSE p
    BY <1>1, <1>4 DEF PrintChar, OnPage
  <2>2. n \in Nat
    <3>1. t.col \div TabWidth \in Nat /\ TabWidth \in Nat
      BY <1>1, Sizes
    <3> QED
      BY <3>1 DEF TabStop
  <2> HIDE DEF n
  <2>3. n < Cols => /\ Agree([t EXCEPT !.col = n], [p EXCEPT !.col = n])
                    /\ [t EXCEPT !.col = n].fg = t.fg /\ [p EXCEPT !.col = n].fg = p.fg
    BY <2>2, MoveStep, Zenon
  <2> QED
    BY <2>1, <2>3, Zenon
<1>5. CASE c \notin {"newline", "return", "tab"}
  <2> DEFINE u == RenderGlyph(t, c)
             cell == OfChar(c, p.fg)
             lines == PutCell(p.lines, p.col, cell)
             put == Changed(p, lines, p.col + 1)
  <2>1. /\ TermOK(u) /\ u.col = t.col /\ u.row = t.row /\ u.fg = t.fg
    BY <1>1, Rendered, Zenon
  <2>2. Shows(u.fb, u.row, lines)
    BY <1>1, <2>1, RenderShows, Zenon
  <2>3. lines \in Texts
    <3>1. cell \in Cells
      BY <1>1, DrawnChar, Zenon DEF OfChar, Cells, PageOK
    <3>2. p.col \in 0..(Cols - 1)
      BY <1>1, Sizes
    <3> QED
      BY <1>1, <3>1, <3>2, PutFacts, Zenon
  <2>4. PrintChar(t, c) = IF t.col + 1 >= Cols THEN AdvanceRow(u) ELSE [u EXCEPT !.col = t.col + 1]
    BY <1>5, <2>1 DEF PrintChar
  <2>5. t.col + 1 \in Nat /\ p.col + 1 = t.col + 1 /\ (t.col + 1 >= Cols <=> t.col + 1 = Cols)
    BY <1>1, Sizes
  <2>6. OnPage(p, c) = IF put.col = Cols THEN NextLine(put) ELSE put
    <3>1. put = [p EXCEPT !.lines[Len(p.lines)][p.col] = cell, !.col = @ + 1]
      BY Zenon DEF PutCell, Changed
    <3> DEFINE raw == [p EXCEPT !.lines[Len(p.lines)][p.col] = cell, !.col = @ + 1]
    <3>2. OnPage(p, c) = IF raw.col = Cols THEN NextLine(raw) ELSE raw
      BY <1>5, Zenon DEF OnPage, OfChar
    <3> HIDE DEF put, raw
    <3>3. put = raw
      BY <3>1, Zenon DEF raw
    <3> QED
      BY <3>2, <3>3, Zenon
  <2> HIDE DEF u, lines
  <2>7. PageOK(put) /\ put.lines = lines /\ put.col = t.col + 1 /\ put.fg = p.fg
    <3>1. p.col + 1 \in Nat
      BY <2>5, Zenon
    <3>2. Differs(put, p, lines, p.col + 1)
      BY <1>1, <2>3, <3>1, ChangedFields, Zenon
    <3> HIDE DEF put
    <3> QED
      BY <2>5, <3>2, Zenon DEF Differs
  <2> HIDE DEF put
  <2>8. CASE t.col + 1 = Cols
    <3>1. PrintChar(t, c) = AdvanceRow(u) /\ OnPage(p, c) = NextLine(put)
      BY <2>4, <2>5, <2>6, <2>7, <2>8, Zenon
    <3> QED
      BY <2>1, <2>2, <2>7, <3>1, NewlineStep, Zenon
  <2>9. CASE t.col + 1 # Cols
    <3> DEFINE v == [u EXCEPT !.col = t.col + 1]
    <3>1. PrintChar(t, c) = v /\ OnPage(p, c) = put
      BY <2>4, <2>5, <2>6, <2>7, <2>9, Zenon
    <3>2. TermOK(v) /\ v.fb = u.fb /\ v.row = u.row /\ v.col = t.col + 1 /\ v.fg = u.fg
      BY <2>1, <2>5, TermFields, Zenon
    <3>3. t.col + 1 < Cols
      BY <1>1, <2>9, Sizes
    <3> HIDE DEF v
    <3>4. Shows(v.fb, v.row, put.lines)
      BY <2>2, <2>7, <3>2, Zenon
    <3>5. Agree(v, put)
      BY <2>7, <3>2, <3>3, <3>4, Zenon DEF Agree
    <3> QED
      BY <2>1, <2>7, <3>1, <3>2, <3>5, Zenon
  <2> QED
    BY <2>8, <2>9, Zenon
<1>6. QED
  BY <1>2, <1>3, <1>4, <1>5, Zenon

\* The screen shows the page at every moment; only between pieces of output text
\* must be white.
ScreenInv ==
  /\ Agree(term, page)
  /\ output \in Seq(Items) /\ EndsWhite(term.fg, output)
  /\ IF holder = {} THEN output = <<>> ELSE term.fg = page.fg
  /\ jobs \in [Cpus -> Seq(Piece)]

-----------------------------------------------------------------------------
(* Colours.                                                                *)

LEMMA NoColor ==
  ASSUME NEW text \in Seq(Chars), NEW fg
  PROVE  text \in Seq(Items) /\ (\A j \in 1..Len(text) : text[j] \notin Colors) /\ EndsWhite("white", text)
<1>1. \A j \in 1..Len(text) : text[j] \notin Colors
  <2>1. \A j \in 1..Len(text) : text[j] \in Chars
    OBVIOUS
  <2> QED
    BY <2>1, TerminalAssumption, Zenon
<1>2. text \in Seq(Items)
  BY DEF Items
<1>3. QED
  BY <1>1, <1>2, Zenon DEF EndsWhite

LEMMA MoreText ==
  ASSUME NEW text \in Seq(Items), NEW more \in Seq(Chars), NEW fg, EndsWhite(fg, text)
  PROVE  text \o more \in Seq(Items) /\ EndsWhite(fg, text \o more)
<1> DEFINE q == text \o more
           l == Len(text)
           m == Len(more)
<1>1. more \in Seq(Items) /\ \A j \in 1..m : more[j] \notin Colors
  BY NoColor, Zenon
<1>2. /\ q \in Seq(Items) /\ l \in Nat /\ m \in Nat /\ Len(q) = l + m
      /\ \A j \in 1..l : q[j] = text[j]
      /\ \A j \in 1..(l + m) : j > l => q[j] = more[j - l] /\ j - l \in 1..m
  BY <1>1
<1> HIDE DEF q
<1>3. \A j \in 1..(l + m) : j > l => q[j] \notin Colors
  BY <1>1, <1>2, Zenon
<1>4. \A j \in 1..(l + m) : j > l \/ j \in 1..l
  BY <1>2
<1>5. CASE fg = "white" /\ \A j \in 1..l : text[j] \notin Colors
  <2>1. \A j \in 1..Len(q) : q[j] \notin Colors
    BY <1>2, <1>3, <1>4, <1>5, Zenon
  <2> QED
    BY <1>2, <1>5, <2>1, Zenon DEF EndsWhite, q
<1>6. CASE \E i \in 1..l : text[i] = "white" /\ \A j \in 1..l : j > i => text[j] \notin Colors
  <2>1. PICK i \in 1..l : text[i] = "white" /\ \A j \in 1..l : j > i => text[j] \notin Colors
    BY <1>6, Zenon
  <2>2. i \in 1..(l + m)
    BY <1>2
  <2>3. q[i] = "white" /\ \A j \in 1..(l + m) : j > i => q[j] \notin Colors
    BY <1>2, <1>3, <1>4, <2>1, Zenon
  <2> QED
    BY <1>2, <2>2, <2>3, Zenon DEF EndsWhite, q
<1>7. QED
  BY <1>5, <1>6, Zenon DEF EndsWhite

LEMMA SetWhite ==
  ASSUME NEW text \in Seq(Items), NEW fg
  PROVE  text \o <<"white">> \in Seq(Items) /\ EndsWhite(fg, text \o <<"white">>)
<1> DEFINE q == text \o <<"white">>
           l == Len(text)
<1>1. "white" \in Items
  BY TerminalAssumption, Zenon DEF Items
<1>2. q \in Seq(Items) /\ l \in Nat /\ Len(q) = l + 1 /\ q[l + 1] = "white" /\ l + 1 \in 1..(l + 1)
  BY <1>1
<1>3. \A j \in 1..(l + 1) : ~(j > l + 1)
  BY <1>2
<1> HIDE DEF q
<1>4. EndsWhite(fg, q)
  BY <1>2, <1>3, Zenon DEF EndsWhite
<1>5. QED
  BY <1>2, <1>4, Zenon DEF q

LEMMA LogWhite ==
  ASSUME NEW fg \in Colors, NEW prefix \in Seq(Chars), NEW text \in Seq(Chars)
  PROVE  Log(fg, prefix, text) \in Seq(Items) /\ EndsWhite("white", Log(fg, prefix, text))
<1> DEFINE a == <<fg>> \o prefix
           b == a \o <<"white">>
           c == b \o text
<1>1. a \in Seq(Items)
  <2>1. prefix \in Seq(Items) /\ fg \in Items
    BY NoColor, Zenon DEF Items
  <2>2. <<fg>> \in Seq(Items)
    BY <2>1
  <2> QED
    BY <2>1, <2>2
<1> HIDE DEF a
<1>2. b \in Seq(Items) /\ EndsWhite("white", b)
  BY <1>1, SetWhite, Zenon
<1> HIDE DEF b
<1>3. c \in Seq(Items) /\ EndsWhite("white", c)
  BY <1>2, MoreText, Zenon
<1>4. <<"newline">> \in Seq(Chars)
  <2>1. "newline" \in Chars
    BY TerminalAssumption, Zenon
  <2> QED
    BY <2>1
<1> HIDE DEF c
<1>5. c \o <<"newline">> \in Seq(Items) /\ EndsWhite("white", c \o <<"newline">>)
  BY <1>3, <1>4, MoreText, Zenon
<1>6. Log(fg, prefix, text) = c \o <<"newline">>
  BY Zenon DEF Log, a, b, c
<1>7. QED
  BY <1>5, <1>6, Zenon

\* The first item is printed, or set.
LEMMA LessText ==
  ASSUME NEW text \in Seq(Items), text # <<>>, NEW fg, EndsWhite(fg, text)
  PROVE  /\ Tail(text) \in Seq(Items) /\ Head(text) \in Items
         /\ IF Head(text) \in Colors THEN EndsWhite(Head(text), Tail(text)) ELSE EndsWhite(fg, Tail(text))
<1> DEFINE q == Tail(text)
           l == Len(text)
           h == Head(text)
<1>1. /\ q \in Seq(Items) /\ l \in Nat /\ l > 0 /\ Len(q) = l - 1 /\ h \in Items /\ text[1] = h
      /\ 1 \in 1..l /\ \A j \in 1..(l - 1) : j + 1 \in 1..l /\ q[j] = text[j + 1]
  OBVIOUS
<1> HIDE DEF q, h
<1>2. CASE fg = "white" /\ \A j \in 1..l : text[j] \notin Colors
  <2>1. \A j \in 1..Len(q) : q[j] \notin Colors
    BY <1>1, <1>2, Zenon
  <2>2. h \notin Colors
    BY <1>1, <1>2, Zenon
  <2> QED
    BY <1>1, <1>2, <2>1, <2>2, Zenon DEF EndsWhite, q, h
<1>3. CASE \E i \in 1..l : text[i] = "white" /\ \A j \in 1..l : j > i => text[j] \notin Colors
  <2>1. PICK i \in 1..l : text[i] = "white" /\ \A j \in 1..l : j > i => text[j] \notin Colors
    BY <1>3, Zenon
  <2>2. CASE i = 1
    <3>1. \A j \in 1..(l - 1) : j + 1 > i
      BY <2>2
    <3>2. h = "white" /\ \A j \in 1..Len(q) : q[j] \notin Colors
      BY <1>1, <2>1, <2>2, <3>1, Zenon
    <3>3. EndsWhite(h, q) /\ h \in Colors
      BY <3>2, TerminalAssumption, Zenon DEF EndsWhite
    <3> QED
      BY <1>1, <3>3, Zenon DEF q, h
  <2>3. CASE i # 1
    <3>1. i - 1 \in 1..(l - 1) /\ (i - 1) + 1 = i /\ \A j \in 1..(l - 1) : j > i - 1 => j + 1 > i
      BY <1>1, <2>3
    <3>2. q[i - 1] = "white" /\ \A j \in 1..Len(q) : j > i - 1 => q[j] \notin Colors
      BY <1>1, <2>1, <3>1, Zenon
    <3>3. \E k \in 1..Len(q) : q[k] = "white" /\ \A j \in 1..Len(q) : j > k => q[j] \notin Colors
      BY <1>1, <3>1, <3>2, Zenon
    <3>4. EndsWhite(fg, q) /\ EndsWhite(h, q)
      BY <3>3, Zenon DEF EndsWhite
    <3> QED
      BY <1>1, <3>4, Zenon DEF q, h
  <2> QED
    BY <2>2, <2>3, Zenon
<1>4. QED
  BY <1>2, <1>3, Zenon DEF EndsWhite

-----------------------------------------------------------------------------
(* Steps that print.                                                       *)

\* kmain has in its hand the one key that it prints.
QueueInv ==
  /\ buffer \in Seq(Codes) /\ hand \in Seq(Codes)
  /\ IF main \in {"print", "printing"} THEN Len(hand) = 1 ELSE hand = <<>>

LEMMA QueueStep ==
  ASSUME QueueInv, Next
  PROVE  QueueInv'
<1>1. /\ buffer \in Seq(Codes) /\ hand \in Seq(Codes)
      /\ main \in {"print", "printing"} => Len(hand) = 1
      /\ main \notin {"print", "printing"} => hand = <<>>
  BY Zenon DEF QueueInv
<1>2. CASE \E e \in Events : Type(e)
  BY <1>1, <1>2, Zenon DEF Type, QueueInv
<1>3. CASE Deliver
  BY <1>1, <1>3, Zenon DEF Deliver, QueueInv
<1>4. CASE Enter
  <2>1. main' \notin {"print", "printing"} /\ main \notin {"print", "printing"}
    BY <1>4, Zenon DEF Enter, Open, Woken
  <2>2. buffer' = buffer /\ hand' = hand
    BY <1>4, Zenon DEF Enter
  <2> QED
    BY <1>1, <2>1, <2>2, Zenon DEF QueueInv
<1>5. CASE HandlerRead
  BY <1>1, <1>5, Zenon DEF HandlerRead, QueueInv
<1>6. CASE HandlerPush
  <2>1. hand' = hand /\ main' = main
    BY <1>6, Zenon DEF HandlerPush
  <2>2. buffer' = buffer \/ \E e \in Events : buffer' = Append(buffer, e.code)
    BY <1>6, Zenon DEF HandlerPush, Decoded
  <2>3. buffer' \in Seq(Codes)
    <3>1. CASE buffer' = buffer
      BY <1>1, <3>1, Zenon
    <3>2. ASSUME NEW e \in Events, buffer' = Append(buffer, e.code)
          PROVE  buffer' \in Seq(Codes)
      <4>1. e.code \in Codes
        BY Zenon DEF Codes
      <4> QED
        BY <1>1, <3>2, <4>1
    <3> QED
      BY <2>2, <3>1, <3>2, Zenon
  <2> QED
    BY <1>1, <2>1, <2>3, Zenon DEF QueueInv
<1>7. CASE Unmask
  <2>1. main' \notin {"print", "printing"} /\ main \notin {"print", "printing"} /\ buffer' = buffer /\ hand' = hand
    BY <1>7, Zenon DEF Unmask
  <2> QED
    BY <1>1, <2>1, Zenon DEF QueueInv
<1>8. CASE Check
  <2>1. main = "check"
    BY <1>8, Zenon DEF Check
  <2>2. CASE buffer # <<>> /\ hand' = <<Head(buffer)>> /\ buffer' = Tail(buffer) /\ main' = "print"
    <3>1. hand' \in Seq(Codes) /\ Len(hand') = 1 /\ buffer' \in Seq(Codes)
      BY <1>1, <2>2
    <3> QED
      BY <2>2, <3>1, Zenon DEF QueueInv
  <2>3. CASE main' = "idle" /\ UNCHANGED <<hand, buffer>>
    <3>1. main' \notin {"print", "printing"} /\ main \notin {"print", "printing"} /\ buffer' = buffer /\ hand' = hand
      BY <2>1, <2>3, Zenon
    <3> QED
      BY <1>1, <3>1, Zenon DEF QueueInv
  <2> QED
    BY <1>8, <2>2, <2>3, Zenon DEF Check
<1>9. CASE PrintKey
  <2>1. main = "print" /\ main' = "printing" /\ buffer' = buffer /\ hand' = hand
    BY <1>9, Zenon DEF PrintKey
  <2> QED
    BY <1>1, <2>1, Zenon DEF QueueInv
<1>10. CASE KeyPrinted
  <2>1. main' \notin {"print", "printing"} /\ buffer' = buffer /\ hand' = <<>>
    BY <1>10, Zenon DEF KeyPrinted
  <2>2. hand' \in Seq(Codes)
    BY <2>1
  <2> QED
    BY <1>1, <2>1, <2>2, Zenon DEF QueueInv
<1>11. CASE Hlt
  <2>1. main' \notin {"print", "printing"} /\ main \notin {"print", "printing"} /\ buffer' = buffer /\ hand' = hand
    BY <1>11, Zenon DEF Hlt
  <2> QED
    BY <1>1, <2>1, Zenon DEF QueueInv
<1>12. CASE Timer
  <2>1. main' \notin {"print", "printing"} /\ main \notin {"print", "printing"} /\ buffer' = buffer /\ hand' = hand
    BY <1>12, Zenon DEF Timer, AfterTimer
  <2> QED
    BY <1>1, <2>1, Zenon DEF QueueInv
<1>13. CASE Put
  BY <1>1, <1>13, Zenon DEF Put, QueueInv
<1>14. CASE \E c \in Cpus : Emitted(c) \/ Emit(c)
  BY <1>1, <1>14, Zenon DEF Emit, Emitted, QueueInv
<1>15. QED
  BY <1>2, <1>3, <1>4, <1>5, <1>6, <1>7, <1>8, <1>9, <1>10, <1>11, <1>12, <1>13, <1>14, Zenon
  DEF Next, Handler, Kmain, Printing

\* A colour is set.
Colored(u, q, fg) == Agree(u, q) /\ u.fg = fg /\ q.fg = fg

LEMMA ColorStep ==
  ASSUME NEW t, NEW p, Agree(t, p), NEW fg \in Colors
  PROVE  /\ Colored(SetColors(t, fg), [p EXCEPT !.fg = fg], fg)
         /\ t.fg = fg => Colored(t, [p EXCEPT !.fg = fg], fg)
<1> DEFINE u == SetColors(t, fg)
           q == [p EXCEPT !.fg = fg]
<1>1. TermOK(t) /\ PageOK(p) /\ Shows(t.fb, t.row, p.lines) /\ t.col = p.col /\ t.col < Cols
  BY Zenon DEF Agree
<1>2. TermOK(u) /\ u.fb = t.fb /\ u.row = t.row /\ u.col = t.col /\ u.fg = fg
  BY <1>1, Zenon DEF TermOK, SetColors
<1>3. PageOK(q) /\ q.lines = p.lines /\ q.col = p.col /\ q.fg = fg
  BY <1>1, Zenon DEF PageOK
<1> HIDE DEF u, q
<1>4. Agree(u, q) /\ Agree(t, q)
  BY <1>1, <1>2, <1>3, Zenon DEF Agree
<1>5. Colored(u, q, fg) /\ (t.fg = fg => Colored(t, q, fg))
  BY <1>2, <1>3, <1>4, Zenon DEF Colored
<1>6. QED
  BY <1>5, Zenon DEF u, q

LEMMA ScreenFields ==
  ASSUME ScreenInv
  PROVE  /\ Agree(term, page) /\ output \in Seq(Items) /\ EndsWhite(term.fg, output)
         /\ jobs \in [Cpus -> Seq(Piece)]
         /\ holder = {} => output = <<>>
         /\ holder # {} => term.fg = page.fg
BY Zenon DEF ScreenInv

LEMMA PutStep ==
  ASSUME ScreenInv, Put
  PROVE  ScreenInv'
<1> DEFINE x == Head(output)
<1>1. output # <<>> /\ output' = Tail(output) /\ holder' = holder /\ jobs' = jobs
  BY Zenon DEF Put
<1>2. holder # {} /\ term.fg = page.fg /\ Agree(term, page) /\ jobs \in [Cpus -> Seq(Piece)]
  BY <1>1, ScreenFields, Zenon
<1>3. /\ output' \in Seq(Items) /\ x \in Items
      /\ x \in Colors => EndsWhite(x, output')
      /\ x \notin Colors => EndsWhite(term.fg, output')
  BY <1>1, ScreenFields, LessText, Zenon
<1>4. CASE x \in Colors
  <2>1. term' = SetColors(term, x) /\ page' = [page EXCEPT !.fg = x]
    BY <1>4, Zenon DEF Put
  <2>2. Colored(SetColors(term, x), [page EXCEPT !.fg = x], x)
    BY <1>2, <1>4, ColorStep, Zenon
  <2>3. Agree(term', page') /\ term'.fg = x /\ page'.fg = x
    BY <2>1, <2>2, Zenon DEF Colored
  <2> QED
    BY <1>1, <1>2, <1>3, <1>4, <2>3, Zenon DEF ScreenInv
<1>5. CASE x \notin Colors
  <2>1. term' = PrintChar(term, x) /\ page' = OnPage(page, x) /\ x \in Chars
    BY <1>3, <1>5, Zenon DEF Put, Items
  <2>2. Agree(term', page') /\ term'.fg = term.fg /\ page'.fg = page.fg
    BY <1>2, <2>1, CharStep, Zenon
  <2> QED
    BY <1>1, <1>2, <1>3, <1>5, <2>2, Zenon DEF ScreenInv
<1>6. QED
  BY <1>4, <1>5, Zenon

\* Nothing is left to print and text is white when TERMINAL is unlocked.
LEMMA WhiteBetween ==
  ASSUME NEW fg, EndsWhite(fg, <<>>)
  PROVE  fg = "white"
<1>1. ~ \E i \in 1..Len(<<>>) : TRUE
  OBVIOUS
<1>2. QED
  BY <1>1, Zenon DEF EndsWhite

LEMMA LockStep ==
  ASSUME ScreenInv, NEW c, NEW text \in Seq(Items), EndsWhite("white", text), Lock(c, text),
         jobs' \in [Cpus -> Seq(Piece)]
  PROVE  ScreenInv'
<1>1. /\ holder = {} /\ holder' # {} /\ output' = text /\ term' = term
      /\ page' = [page EXCEPT !.fg = "white"]
  BY Zenon DEF Lock
<1>2. Agree(term, page) /\ term.fg = "white"
  BY <1>1, ScreenFields, WhiteBetween, Zenon
<1>3. Agree(term', page') /\ page'.fg = "white" /\ term'.fg = "white"
  <2>1. "white" \in Colors
    BY TerminalAssumption, Zenon
  <2>2. Colored(term, [page EXCEPT !.fg = "white"], "white")
    BY <1>2, <2>1, ColorStep, Zenon
  <2> QED
    BY <1>1, <1>2, <2>2, Zenon DEF Colored
<1>4. QED
  BY <1>1, <1>3, Zenon DEF ScreenInv

LEMMA UnlockStep ==
  ASSUME ScreenInv, NEW c, Unlock(c), jobs' = jobs
  PROVE  ScreenInv'
<1>1. holder' = {} /\ output = <<>> /\ output' = output /\ term' = term /\ page' = page
  BY Zenon DEF Unlock
<1>2. QED
  BY <1>1, ScreenFields, Zenon DEF ScreenInv

LEMMA EmitStep ==
  ASSUME ScreenInv, NEW c \in Cpus, Emit(c)
  PROVE  ScreenInv'
<1> DEFINE job == Head(jobs[c])
<1>1. jobs \in [Cpus -> Seq(Piece)] /\ jobs[c] # <<>> /\ jobs' = [jobs EXCEPT ![c] = Tail(@)]
  BY ScreenFields, Zenon DEF Emit
<1>2. jobs[c] \in Seq(Piece)
  BY <1>1, Zenon
<1>3. job \in Piece /\ Tail(jobs[c]) \in Seq(Piece)
  <2> DEFINE q == jobs[c]
             P == Piece
  <2>1. q \in Seq(P) /\ q # <<>>
    BY <1>1, <1>2, Zenon
  <2> HIDE DEF q, P
  <2>2. Head(q) \in P /\ Tail(q) \in Seq(P)
    BY <2>1
  <2> QED
    BY <2>2, Zenon DEF q, P
<1>4. jobs' \in [Cpus -> Seq(Piece)]
  <2>1. jobs' = [jobs EXCEPT ![c] = Tail(jobs[c])]
    BY <1>1, Zenon
  <2> QED
    BY <1>1, <1>3, <2>1, Zenon
<1> HIDE DEF job
<1>5. CASE job.kind = "print"
  <2>1. job.text \in Seq(Chars)
    BY <1>3, <1>5, Zenon DEF Piece
  <2>2. Lock(c, job.text)
    BY <1>5, Zenon DEF Emit, job
  <2> QED
    BY <1>4, <2>1, <2>2, NoColor, LockStep, Zenon
<1>6. CASE job.kind # "print"
  <2>1. job.fg \in Colors /\ job.prefix \in Seq(Chars) /\ job.text \in Seq(Chars)
    BY <1>3, <1>6, Zenon DEF Piece
  <2>2. Lock(c, Log(job.fg, job.prefix, job.text))
    BY <1>6, Zenon DEF Emit, job
  <2> QED
    BY <1>4, <2>1, <2>2, LogWhite, LockStep, Zenon
<1>7. QED
  BY <1>5, <1>6, Zenon

LEMMA KeyStep ==
  ASSUME ScreenInv, QueueInv, PrintKey
  PROVE  ScreenInv'
<1>1. main = "print" /\ Lock(0, Name[hand[1]]) /\ jobs' = jobs /\ jobs \in [Cpus -> Seq(Piece)]
  BY ScreenFields, Zenon DEF PrintKey
<1>2. hand \in Seq(Codes) /\ Len(hand) = 1
  BY <1>1, Zenon DEF QueueInv
<1>3. hand[1] \in Codes
  BY <1>2
<1>4. Name[hand[1]] \in Seq(Chars)
  BY <1>3, ConsoleAssumption, Zenon DEF Codes
<1>5. QED
  BY <1>1, <1>4, NoColor, LockStep, Zenon

LEMMA ScreenStep ==
  ASSUME ScreenInv, QueueInv, Next
  PROVE  ScreenInv'
<1>1. CASE UNCHANGED <<screen, jobs>>
  BY <1>1, Zenon DEF screen, ScreenInv
<1>2. CASE Put
  BY <1>2, PutStep, Zenon
<1>3. ASSUME NEW c \in Cpus, Emitted(c)
      PROVE  ScreenInv'
  BY <1>3, UnlockStep, Zenon DEF Emitted
<1>4. ASSUME NEW c \in Cpus, Emit(c)
      PROVE  ScreenInv'
  BY <1>4, EmitStep, Zenon
<1>5. CASE PrintKey
  BY <1>5, KeyStep, Zenon
<1>6. CASE KeyPrinted
  BY <1>6, UnlockStep, Zenon DEF KeyPrinted
<1>7. CASE (\E e \in Events : Type(e)) \/ Deliver \/ Timer
  BY <1>1, <1>7, Zenon DEF Type, Deliver, Timer
<1>8. CASE Handler
  BY <1>1, <1>8, Zenon DEF Handler, Enter, HandlerRead, HandlerPush
<1>9. CASE Unmask \/ Check \/ Hlt
  BY <1>1, <1>9, Zenon DEF Unmask, Check, Hlt
<1>10. QED
  BY <1>2, <1>3, <1>4, <1>5, <1>6, <1>7, <1>8, <1>9, Zenon DEF Next, Kmain, Printing

\* An empty screen shows an empty page.
LEMMA FirstScreen == Agree(Cleared, NewPage)
<1> DEFINE lines == <<BlankLine>>
           fb    == [y \in 0..(Height - 1) |-> BlankLine]
<1>1. BlankLine \in Line(Cells) /\ BlankLine \in Line(Pixels) /\ \A x \in 0..(Cols - 1) : BlankLine[x] = Background
  BY Zenon DEF BlankLine, Line, Cells, Pixels
<1>2. "white" \in Colors
  BY TerminalAssumption, Zenon
<1>3. 0 \in Nat /\ 0 < Cols
  BY TerminalAssumption
<1>4. fb \in [0..(Height - 1) -> Line(Pixels)]
  BY <1>1, Zenon
<1>5. TermOK(Cleared)
  BY <1>2, <1>3, <1>4, Zenon DEF TermOK, Cleared
<1>6. lines \in Texts /\ Len(lines) = 1 /\ lines[1] = BlankLine
  <2>1. BlankLine \in Line(Cells)
    BY <1>1, Zenon
  <2> QED
    BY <2>1 DEF Texts
<1>7. PageOK(NewPage)
  BY <1>2, <1>3, <1>6, Zenon DEF PageOK, NewPage
<1> HIDE DEF lines
<1>8. Start(lines) = 0
  BY <1>6, RowsFit DEF Start
<1>9. ASSUME NEW y \in 0..(Height - 1), NEW x \in 0..(Cols - 1)
      PROVE  fb[y][x] = Picture(lines, y, x)
  <2> DEFINE n == Start(lines) + (y \div GlyphHeight) + 1
  <2>1. Cell(lines, n, x) = Background
    <3>1. n <= Len(lines) => n = 1
      <4>1. y \div GlyphHeight \in Nat
        BY Sizes
      <4> HIDE DEF lines
      <4> QED
        BY <4>1, <1>6, <1>8
    <3> HIDE DEF n
    <3> QED
      BY <1>1, <1>6, <3>1, Zenon DEF Cell
  <2>2. Drawn(Cell(lines, n, x), y % GlyphHeight) = Background
    BY <2>1, Zenon DEF Drawn
  <2>3. Picture(lines, y, x) = Background
    BY <2>2, Zenon DEF Picture
  <2>4. fb[y][x] = Background
    BY <1>1, Zenon
  <2> QED
    BY <2>3, <2>4, Zenon
<1>10. 0 = Len(lines) - Start(lines) - 1
  BY <1>6, <1>8
<1>11. Shows(fb, 0, lines)
  BY <1>9, <1>10, Zenon DEF Shows
<1>12. /\ Cleared.fb = fb /\ Cleared.row = 0 /\ Cleared.col = 0 /\ NewPage.lines = lines /\ NewPage.col = 0
  BY Zenon DEF Cleared, NewPage, lines
<1>13. Shows(Cleared.fb, Cleared.row, NewPage.lines)
  BY <1>11, <1>12, Zenon
<1>14. QED
  BY <1>3, <1>5, <1>7, <1>12, <1>13, Zenon DEF Agree

LEMMA ScreenFirst ==
  ASSUME Init
  PROVE  ScreenInv /\ QueueInv
<1>1. /\ term = Cleared /\ page = NewPage /\ output = <<>> /\ holder = {} /\ jobs = Output
      /\ buffer = <<>> /\ hand = <<>> /\ main = "init"
  BY Zenon DEF Init
<1>2. <<>> \in Seq(Chars) /\ <<>> \in Seq(Codes)
  OBVIOUS
<1>3. output \in Seq(Items) /\ EndsWhite("white", output)
  BY <1>1, <1>2, NoColor, Zenon
<1>4. term.fg = "white"
  BY <1>1, Zenon DEF Cleared
<1>5. jobs \in [Cpus -> Seq(Piece)]
  BY <1>1, ConsoleAssumption, Zenon
<1>6. Agree(term, page)
  BY <1>1, FirstScreen, Zenon
<1>7. ScreenInv
  BY <1>1, <1>3, <1>4, <1>5, <1>6, Zenon DEF ScreenInv
<1>8. QED
  BY <1>1, <1>2, <1>7, Zenon DEF QueueInv

LEMMA ScreenStill ==
  ASSUME ScreenInv, QueueInv, UNCHANGED vars
  PROVE  ScreenInv' /\ QueueInv'
BY Zenon DEF vars, screen, ScreenInv, QueueInv

\* Whatever keys are pressed and whatever other CPUs print or log in between, after
\* every character the frame buffer of terminal.rs is exactly the end of the page:
\* scrolling, wrapping at the last column, tabs and returns leave no stray pixel,
\* every glyph is in its own colour, and the cursor is where the next one goes.
THEOREM ScreenIsPage == Spec => []ScreenShows
<1>1. Init => ScreenInv /\ QueueInv
  BY ScreenFirst, Zenon
<1>2. ScreenInv /\ QueueInv /\ [Next]_vars => ScreenInv' /\ QueueInv'
  BY ScreenStep, QueueStep, ScreenStill, Zenon
<1>3. ScreenInv => ScreenShows
  BY ScreenFields, Zenon DEF Agree, Shows, ScreenShows
<1>4. QED
  BY <1>1, <1>2, <1>3, PTL DEF Spec

-----------------------------------------------------------------------------
(* Sequences.                                                              *)

Joined(a, b, c) == (a \o b) \o c = a \o (b \o c)

LEMMA Assoc ==
  ASSUME NEW S, NEW a \in Seq(S), NEW b \in Seq(S), NEW c \in Seq(S)
  PROVE  Joined(a, b, c)
BY DEF Joined

LEMMA Nothing ==
  ASSUME NEW S, NEW a \in Seq(S)
  PROVE  <<>> \o a = a /\ a \o <<>> = a /\ <<>> \in Seq(S)
OBVIOUS

LEMMA FirstOf ==
  ASSUME NEW S, NEW a \in Seq(S), a # <<>>
  PROVE  /\ Head(a) \in S /\ Tail(a) \in Seq(S) /\ <<Head(a)>> \in Seq(S) /\ <<Head(a)>> \o Tail(a) = a
         /\ Len(a) <= 1 => <<Head(a)>> = a
OBVIOUS

\* q is the first k elements of s; q is what is in s after the first k elements.
First(q, s, k) == k \in 0..Len(s) /\ Len(q) = k /\ \A i \in 1..k : q[i] = s[i]
Rest(q, s, k) == k \in 0..Len(s) /\ Len(q) = Len(s) - k /\ \A i \in 1..Len(q) : q[i] = s[k + i]

LEMMA FirstIs ==
  ASSUME NEW S, NEW q \in Seq(S), NEW s \in Seq(S), NEW k, First(q, s, k)
  PROVE  q = SubSeq(s, 1, k)
BY DEF First

LEMMA RestIs ==
  ASSUME NEW S, NEW q \in Seq(S), NEW s \in Seq(S), NEW k, Rest(q, s, k)
  PROVE  q = SubSeq(s, k + 1, Len(s))
BY DEF Rest

LEMMA FirstMore ==
  ASSUME NEW S, NEW q \in Seq(S), NEW s \in Seq(S), NEW k, First(q, s, k), NEW x \in S
  PROVE  First(q, Append(s, x), k)
BY DEF First

LEMMA FirstNext ==
  ASSUME NEW S, NEW q \in Seq(S), NEW s \in Seq(S), NEW k, First(q, s, k), k + 1 <= Len(s)
  PROVE  First(Append(q, s[k + 1]), s, k + 1)
BY DEF First

LEMMA RestMore ==
  ASSUME NEW S, NEW q \in Seq(S), NEW s \in Seq(S), NEW k, Rest(q, s, k), NEW t \in Seq(S)
  PROVE  Rest(q \o t, s \o t, k)
<1>1. /\ k \in 0..Len(s) /\ Len(q) = Len(s) - k /\ Len(q) \in Nat /\ Len(s) \in Nat /\ Len(t) \in Nat
      /\ \A i \in 1..Len(q) : q[i] = s[k + i]
  BY DEF Rest
<1>2. Len(q \o t) = Len(q) + Len(t) /\ Len(s \o t) = Len(s) + Len(t)
  OBVIOUS
<1>3. ASSUME NEW i \in 1..(Len(q) + Len(t))
      PROVE  (q \o t)[i] = (s \o t)[k + i]
  <2>1. CASE i <= Len(q)
    <3>1. q[i] = s[k + i] /\ k + i <= Len(s)
      BY <1>1, <2>1
    <3>2. (q \o t)[i] = q[i] /\ (s \o t)[k + i] = s[k + i]
      BY <1>1, <2>1, <3>1
    <3> QED
      BY <3>1, <3>2, Zenon
  <2>2. CASE i > Len(q)
    <3>1. (q \o t)[i] = t[i - Len(q)]
      BY <1>1, <2>2
    <3>2. (s \o t)[k + i] = t[k + i - Len(s)] /\ k + i - Len(s) = i - Len(q)
      BY <1>1, <2>2
    <3> QED
      BY <3>1, <3>2, Zenon
  <2> QED
    BY <1>1, <2>1, <2>2
<1>4. k \in 0..(Len(s) + Len(t)) /\ Len(q) + Len(t) = Len(s) + Len(t) - k
  BY <1>1
<1> DEFINE u == q \o t
           v == s \o t
<1>5. /\ k \in 0..Len(v) /\ Len(u) = Len(v) - k /\ Len(u) = Len(q) + Len(t)
      /\ \A i \in 1..(Len(q) + Len(t)) : u[i] = v[k + i]
  <2>1. \A i \in 1..(Len(q) + Len(t)) : u[i] = v[k + i]
    BY <1>3, Zenon
  <2>2. k \in 0..Len(v) /\ Len(u) = Len(v) - k /\ Len(u) = Len(q) + Len(t)
    BY <1>1, <1>2, <1>4
  <2> QED
    BY <2>1, <2>2, Zenon
<1> HIDE DEF u, v
<1>6. Rest(u, v, k)
  BY <1>5, Zenon DEF Rest
<1>7. QED
  BY <1>6, Zenon DEF u, v

\* The rest begins with a.
LEMMA RestBegins ==
  ASSUME NEW S, NEW a \in Seq(S), NEW b \in Seq(S), NEW s \in Seq(S), NEW k, Rest(a \o b, s, k)
  PROVE  /\ k + Len(a) <= Len(s) /\ \A i \in 1..Len(a) : a[i] = s[k + i]
         /\ Rest(b, s, k + Len(a))
<1> DEFINE q == a \o b
<1>1. /\ q \in Seq(S) /\ Len(q) = Len(a) + Len(b) /\ Len(a) \in Nat /\ Len(b) \in Nat /\ Len(s) \in Nat
      /\ \A i \in 1..Len(a) : q[i] = a[i]
      /\ \A i \in 1..Len(b) : q[Len(a) + i] = b[i]
  OBVIOUS
<1> HIDE DEF q
<1>2. k \in 0..Len(s) /\ Len(q) = Len(s) - k /\ \A i \in 1..Len(q) : q[i] = s[k + i]
  BY Zenon DEF Rest, q
<1>3. k + Len(a) <= Len(s) /\ \A i \in 1..Len(a) : i \in 1..Len(q)
  BY <1>1, <1>2
<1>4. \A i \in 1..Len(a) : a[i] = s[k + i]
  BY <1>1, <1>2, <1>3, Zenon
<1>5. k + Len(a) \in 0..Len(s) /\ Len(b) = Len(s) - (k + Len(a))
  <2>1. /\ k \in 0..Len(s) /\ Len(a) + Len(b) = Len(s) - k
        /\ Len(a) \in Nat /\ Len(b) \in Nat /\ Len(s) \in Nat
    BY <1>1, <1>2, Zenon
  <2> QED
    BY <2>1
<1>6. ASSUME NEW i \in 1..Len(b)
      PROVE  b[i] = s[(k + Len(a)) + i]
  <2>1. Len(a) + i \in 1..Len(q) /\ k + (Len(a) + i) = (k + Len(a)) + i
    BY <1>1, <1>2
  <2>2. q[Len(a) + i] = s[k + (Len(a) + i)] /\ q[Len(a) + i] = b[i]
    BY <1>1, <1>2, <2>1, Zenon
  <2> QED
    BY <2>1, <2>2, Zenon
<1>7. QED
  BY <1>3, <1>4, <1>5, <1>6, Zenon DEF Rest

-----------------------------------------------------------------------------
(* Events, their bytes and their keys.                                     *)

Entries == [event : Events, bytes : Nat, keys : Nat]

\* Event n + 1 of h has its bytes in the stream s, and its key in k.
Follows(h, s, k, n) ==
  LET e == h[n + 1].event
  IN  /\ Bytes(h, n + 1) = Bytes(h, n) + Len(e.bytes) /\ Bytes(h, n + 1) <= Len(s)
      /\ \A i \in 1..Len(e.bytes) : s[Bytes(h, n) + i] = e.bytes[i]
      /\ Keys(h, n + 1) <= Len(k)
      /\ e.down => Keys(h, n + 1) = Keys(h, n) + 1 /\ k[Keys(h, n) + 1] = e.code
      /\ ~e.down => Keys(h, n + 1) = Keys(h, n)

Recorded(h, s, k) ==
  /\ h \in Seq(Entries) /\ s \in Seq(Scancodes) /\ k \in Seq(Codes)
  /\ Bytes(h, Len(h)) = Len(s) /\ Keys(h, Len(h)) = Len(k)
  /\ \A n \in 0..(Len(h) - 1) : Follows(h, s, k, n)

LEMMA EventFacts ==
  ASSUME NEW e \in Events
  PROVE  /\ e.code \in Codes /\ e.down \in BOOLEAN
         /\ e.bytes \in Seq(Scancodes) /\ e.bytes # <<>> /\ Len(e.bytes) \in Nat /\ Len(e.bytes) > 0
<1>1. e.code \in Codes /\ e.down \in BOOLEAN /\ e.bytes \in Seq(Scancodes) /\ e.bytes # <<>>
  BY ConsoleAssumption, Zenon DEF Codes
<1>2. QED
  BY <1>1

LEMMA EntryFacts ==
  ASSUME NEW h \in Seq(Entries), NEW n \in 0..Len(h)
  PROVE  Bytes(h, n) \in Nat /\ Keys(h, n) \in Nat
<1>1. CASE n = 0
  BY <1>1 DEF Bytes, Keys
<1>2. CASE n # 0
  <2>1. h[n] \in Entries
    BY <1>2
  <2>2. h[n].bytes \in Nat /\ h[n].keys \in Nat
    BY <2>1, Zenon DEF Entries
  <2> QED
    BY <1>2, <2>2, Zenon DEF Bytes, Keys
<1>3. QED
  BY <1>1, <1>2, Zenon

LEMMA OlderSame ==
  ASSUME NEW h \in Seq(Entries), NEW r \in Entries
  PROVE  /\ Append(h, r) \in Seq(Entries) /\ Len(Append(h, r)) = Len(h) + 1 /\ Len(h) \in Nat
         /\ Append(h, r)[Len(h) + 1] = r
         /\ \A n \in 0..Len(h) : Bytes(Append(h, r), n) = Bytes(h, n) /\ Keys(Append(h, r), n) = Keys(h, n)
         /\ \A n \in 0..(Len(h) - 1) : Append(h, r)[n + 1] = h[n + 1]
<1> DEFINE g == Append(h, r)
<1>1. /\ g \in Seq(Entries) /\ Len(g) = Len(h) + 1 /\ Len(h) \in Nat /\ g[Len(h) + 1] = r
      /\ \A n \in 1..Len(h) : g[n] = h[n]
  OBVIOUS
<1> HIDE DEF g
<1>2. \A n \in 0..Len(h) : n = 0 \/ n \in 1..Len(h)
  BY <1>1
<1>3. \A n \in 0..Len(h) : Bytes(g, n) = Bytes(h, n) /\ Keys(g, n) = Keys(h, n)
  BY <1>1, <1>2, Zenon DEF Bytes, Keys
<1>4. \A n \in 0..(Len(h) - 1) : n + 1 \in 1..Len(h)
  BY <1>1
<1>5. QED
  BY <1>1, <1>3, <1>4, Zenon DEF g

LEMMA TypeRecorded ==
  ASSUME NEW h, NEW s, NEW k, Recorded(h, s, k), NEW e \in Events,
         NEW t, t = s \o e.bytes, NEW l, l = IF e.down THEN Append(k, e.code) ELSE k,
         NEW r, r = [event |-> e, bytes |-> Len(t), keys |-> Len(l)]
  PROVE  r \in Entries /\ Recorded(Append(h, r), t, l)
<1> DEFINE g == Append(h, r)
<1>1. /\ h \in Seq(Entries) /\ s \in Seq(Scancodes) /\ k \in Seq(Codes)
      /\ Bytes(h, Len(h)) = Len(s) /\ Keys(h, Len(h)) = Len(k)
      /\ \A n \in 0..(Len(h) - 1) : Follows(h, s, k, n)
  BY Zenon DEF Recorded
<1>2. /\ e.code \in Codes /\ e.down \in BOOLEAN
      /\ e.bytes \in Seq(Scancodes) /\ Len(e.bytes) \in Nat
  BY EventFacts, Zenon
<1>3. /\ t \in Seq(Scancodes) /\ Len(s) \in Nat /\ Len(t) \in Nat /\ Len(t) = Len(s) + Len(e.bytes)
      /\ \A i \in 1..Len(s) : t[i] = s[i]
      /\ \A i \in 1..Len(e.bytes) : t[Len(s) + i] = e.bytes[i]
  BY <1>1, <1>2
<1>4. /\ l \in Seq(Codes) /\ Len(k) \in Nat /\ Len(l) \in Nat /\ Len(k) <= Len(l)
      /\ \A i \in 1..Len(k) : l[i] = k[i]
      /\ e.down => Len(l) = Len(k) + 1 /\ l[Len(k) + 1] = e.code
      /\ ~e.down => Len(l) = Len(k)
  <2>1. CASE e.down
    <3>1. l = Append(k, e.code)
      BY <2>1, Zenon
    <3> QED
      BY <1>1, <1>2, <2>1, <3>1
  <2>2. CASE ~e.down
    <3>1. l = k
      BY <2>2, Zenon
    <3> QED
      BY <1>1, <2>2, <3>1
  <2> QED
    BY <2>1, <2>2, Zenon
<1>5. r \in Entries /\ r.event = e /\ r.bytes = Len(t) /\ r.keys = Len(l)
  BY <1>3, <1>4, Zenon DEF Entries
<1>6. /\ g \in Seq(Entries) /\ Len(g) = Len(h) + 1 /\ Len(h) \in Nat /\ g[Len(h) + 1] = r
      /\ \A n \in 0..Len(h) : Bytes(g, n) = Bytes(h, n) /\ Keys(g, n) = Keys(h, n)
      /\ \A n \in 0..(Len(h) - 1) : g[n + 1] = h[n + 1]
  BY <1>1, <1>5, OlderSame
<1> HIDE DEF g
<1>7. Bytes(g, Len(g)) = Len(t) /\ Keys(g, Len(g)) = Len(l)
  <2>1. Len(g) # 0
    BY <1>6
  <2> QED
    BY <1>5, <1>6, <2>1, Zenon DEF Bytes, Keys
<1>8. ASSUME NEW n \in 0..(Len(h) - 1)
      PROVE  Follows(g, t, l, n)
  <2> DEFINE a  == h[n + 1].event
             b0 == Bytes(h, n)
             b1 == Bytes(h, n + 1)
             k0 == Keys(h, n)
             k1 == Keys(h, n + 1)
  <2>1. n \in 0..Len(h) /\ n + 1 \in 0..Len(h) /\ n + 1 \in 1..Len(h)
    BY <1>6
  <2>2. b0 \in Nat /\ b1 \in Nat /\ k0 \in Nat /\ k1 \in Nat
    BY <1>1, <2>1, EntryFacts, Zenon
  <2>3. Bytes(g, n) = b0 /\ Bytes(g, n + 1) = b1 /\ Keys(g, n) = k0 /\ Keys(g, n + 1) = k1 /\ g[n + 1].event = a
    BY <1>6, <2>1, Zenon
  <2>4. a \in Events
    <3>1. h[n + 1] \in Entries
      BY <1>1, <2>1
    <3> QED
      BY <3>1, Zenon DEF Entries
  <2>5. Len(a.bytes) \in Nat /\ a.down \in BOOLEAN
    BY <2>4, EventFacts, Zenon
  <2>6. /\ b1 = b0 + Len(a.bytes) /\ b1 <= Len(s)
        /\ \A i \in 1..Len(a.bytes) : s[b0 + i] = a.bytes[i]
        /\ k1 <= Len(k)
        /\ a.down => k1 = k0 + 1 /\ k[k0 + 1] = a.code
        /\ ~a.down => k1 = k0
    BY <1>1, Zenon DEF Follows
  <2> HIDE DEF a, b0, b1, k0, k1
  <2>7. b1 <= Len(t) /\ \A i \in 1..Len(a.bytes) : b0 + i \in 1..Len(s)
    BY <1>3, <2>2, <2>5, <2>6
  <2>8. \A i \in 1..Len(a.bytes) : t[b0 + i] = a.bytes[i]
    BY <1>3, <2>6, <2>7, Zenon
  <2>9. k1 <= Len(l) /\ (k1 = k0 + 1 => k0 + 1 \in 1..Len(k))
    BY <1>4, <2>2, <2>6
  <2>10. a.down => l[k0 + 1] = a.code
    BY <1>4, <2>6, <2>9, Zenon
  <2> QED
    BY <2>3, <2>6, <2>7, <2>8, <2>9, <2>10, Zenon DEF Follows
<1>9. Follows(g, t, l, Len(h))
  <2>1. Bytes(g, Len(h)) = Len(s) /\ Keys(g, Len(h)) = Len(k)
    <3>1. Len(h) \in 0..Len(h)
      BY <1>6
    <3> QED
      BY <1>1, <1>6, <3>1, Zenon
  <2>2. Bytes(g, Len(h) + 1) = Len(t) /\ Keys(g, Len(h) + 1) = Len(l) /\ g[Len(h) + 1].event = e
    BY <1>5, <1>6, <1>7, Zenon
  <2>3. Len(t) <= Len(t) /\ Len(l) <= Len(l)
    BY <1>3, <1>4
  <2> QED
    BY <1>3, <1>4, <2>1, <2>2, <2>3, Zenon DEF Follows
<1>10. \A n \in 0..(Len(g) - 1) : n \in 0..(Len(h) - 1) \/ n = Len(h)
  BY <1>6
<1>11. \A n \in 0..(Len(g) - 1) : Follows(g, t, l, n)
  BY <1>8, <1>9, <1>10, Zenon
<1>12. Recorded(g, t, l)
  BY <1>3, <1>4, <1>6, <1>7, <1>11, Zenon DEF Recorded
<1>13. QED
  BY <1>5, <1>12, Zenon DEF g

-----------------------------------------------------------------------------
(* How far the bytes have come.                                            *)

\* The keys of n events have come through, the bytes of the others are under
\* way, and the decoder has seen d bytes, not all of the next event.
Here(h, s, k, n, keys, bytes, d) ==
  /\ n \in 0..Len(h)
  /\ First(keys, k, Keys(h, n)) /\ Rest(bytes, s, Bytes(h, n))
  /\ n < Len(h) => d < Len(h[n + 1].event.bytes)

LEMMA TypeHere ==
  ASSUME NEW h, NEW s, NEW k, Recorded(h, s, k), NEW e \in Events,
         NEW t, t = s \o e.bytes, NEW l, l = IF e.down THEN Append(k, e.code) ELSE k,
         NEW r \in Entries, r.event = e,
         NEW n, NEW keys \in Seq(Codes), NEW bytes \in Seq(Scancodes), NEW d \in Nat, d <= Len(bytes),
         Here(h, s, k, n, keys, bytes, d)
  PROVE  Here(Append(h, r), t, l, n, keys, bytes \o e.bytes, d)
<1> DEFINE g == Append(h, r)
<1>1. /\ h \in Seq(Entries) /\ s \in Seq(Scancodes) /\ k \in Seq(Codes) /\ Bytes(h, Len(h)) = Len(s)
  BY Zenon DEF Recorded
<1>2. /\ e.code \in Codes /\ e.bytes \in Seq(Scancodes) /\ Len(e.bytes) \in Nat /\ Len(e.bytes) > 0
  BY EventFacts, Zenon
<1>3. /\ n \in 0..Len(h) /\ First(keys, k, Keys(h, n)) /\ Rest(bytes, s, Bytes(h, n))
      /\ n < Len(h) => d < Len(h[n + 1].event.bytes)
  BY Zenon DEF Here
<1>4. /\ Len(g) = Len(h) + 1 /\ Len(h) \in Nat /\ g[Len(h) + 1] = r
      /\ \A m \in 0..Len(h) : Bytes(g, m) = Bytes(h, m) /\ Keys(g, m) = Keys(h, m)
      /\ \A m \in 0..(Len(h) - 1) : g[m + 1] = h[m + 1]
  BY <1>1, OlderSame
<1> HIDE DEF g
<1>5. First(keys, l, Keys(h, n))
  <2>1. First(keys, Append(k, e.code), Keys(h, n))
    BY <1>1, <1>2, <1>3, FirstMore, Zenon
  <2>2. l = k \/ l = Append(k, e.code)
    BY Zenon
  <2> QED
    BY <1>3, <2>1, <2>2, Zenon
<1>6. Rest(bytes \o e.bytes, t, Bytes(h, n))
  <2>1. Rest(bytes \o e.bytes, s \o e.bytes, Bytes(h, n))
    BY <1>1, <1>2, <1>3, RestMore, Zenon
  <2> QED
    BY <2>1, Zenon
<1>7. d < Len(g[n + 1].event.bytes)
  <2>1. CASE n < Len(h)
    <3>1. n \in 0..(Len(h) - 1)
      BY <1>3, <1>4, <2>1
    <3> QED
      BY <1>3, <1>4, <2>1, <3>1, Zenon
  <2>2. CASE n = Len(h)
    <3>1. Rest(bytes, s, Len(s))
      BY <1>1, <1>3, <2>2, Zenon
    <3>2. Len(bytes) = 0
      BY <1>1, <3>1 DEF Rest
    <3>3. d < Len(e.bytes)
      BY <1>2, <3>2
    <3> QED
      BY <1>4, <2>2, <3>3, Zenon
  <2> QED
    BY <1>3, <1>4, <2>1, <2>2
<1>8. n \in 0..Len(g)
  BY <1>3, <1>4
<1>9. Bytes(g, n) = Bytes(h, n) /\ Keys(g, n) = Keys(h, n)
  BY <1>3, <1>4, Zenon
<1>10. Here(g, t, l, n, keys, bytes \o e.bytes, d)
  BY <1>5, <1>6, <1>7, <1>8, <1>9, Zenon DEF Here
<1>11. QED
  BY <1>10, Zenon DEF g

\* The bytes that the decoder has after the next one begin those of the next event.
LEMMA NextEvent ==
  ASSUME NEW h, NEW s, NEW k, Recorded(h, s, k),
         NEW n, NEW keys, NEW got \in Seq(Scancodes), NEW more \in Seq(Scancodes), NEW d \in Nat,
         Len(got) = d + 1, Here(h, s, k, n, keys, got \o more, d)
  PROVE  /\ n \in 0..(Len(h) - 1) /\ h[n + 1].event \in Events
         /\ Begins(got, h[n + 1].event.bytes) /\ Follows(h, s, k, n)
         /\ Rest(more, s, Bytes(h, n) + Len(got)) /\ Bytes(h, n) \in Nat /\ Keys(h, n) \in Nat
<1>1. /\ h \in Seq(Entries) /\ s \in Seq(Scancodes) /\ k \in Seq(Codes) /\ Bytes(h, Len(h)) = Len(s)
      /\ \A m \in 0..(Len(h) - 1) : Follows(h, s, k, m)
  BY Zenon DEF Recorded
<1>2. /\ n \in 0..Len(h) /\ Rest(got \o more, s, Bytes(h, n))
      /\ n < Len(h) => d < Len(h[n + 1].event.bytes)
  BY Zenon DEF Here
<1>3. Bytes(h, n) \in Nat /\ Keys(h, n) \in Nat
  BY <1>1, <1>2, EntryFacts, Zenon
<1>4. /\ Bytes(h, n) + Len(got) <= Len(s) /\ \A i \in 1..Len(got) : got[i] = s[Bytes(h, n) + i]
      /\ Rest(more, s, Bytes(h, n) + Len(got))
  BY <1>1, <1>2, RestBegins
<1>5. Len(h) \in Nat /\ Len(s) \in Nat
  BY <1>1
<1>6. Bytes(h, n) # Len(s)
  BY <1>3, <1>4, <1>5
<1>7. n # Len(h)
  BY <1>1, <1>6, Zenon
<1>8. n \in 0..(Len(h) - 1) /\ n < Len(h) /\ n + 1 \in 1..Len(h)
  BY <1>2, <1>5, <1>7
<1>9. h[n + 1].event \in Events
  <2>1. h[n + 1] \in Entries
    BY <1>1, <1>8
  <2> QED
    BY <2>1, Zenon DEF Entries
<1>10. Follows(h, s, k, n)
  BY <1>1, <1>8, Zenon
<1> DEFINE b == h[n + 1].event.bytes
<1>11. Len(b) \in Nat
  BY <1>9, EventFacts, Zenon
<1>12. \A i \in 1..Len(b) : s[Bytes(h, n) + i] = b[i]
  BY <1>10, Zenon DEF Follows
<1>13. d < Len(b)
  BY <1>2, <1>8, Zenon
<1> HIDE DEF b
<1>14. Len(got) <= Len(b) /\ \A i \in 1..Len(got) : i \in 1..Len(b)
  BY <1>11, <1>13
<1>15. Begins(got, b)
  BY <1>4, <1>12, <1>14, Zenon DEF Begins
<1>16. QED
  BY <1>3, <1>4, <1>8, <1>9, <1>10, <1>15, Zenon DEF b

\* The bytes are not those of an event.
LEMMA KeepHere ==
  ASSUME NEW h, NEW s, NEW k, Recorded(h, s, k),
         NEW n, NEW keys, NEW got \in Seq(Scancodes), NEW more \in Seq(Scancodes), NEW d \in Nat,
         Len(got) = d + 1, Here(h, s, k, n, keys, got \o more, d),
         \A e \in Events : e.bytes # got
  PROVE  Here(h, s, k, n, keys, got \o more, Len(got))
<1> DEFINE b == h[n + 1].event.bytes
<1>1. h[n + 1].event \in Events /\ Begins(got, b)
  BY NextEvent, Zenon
<1>2. b # got /\ b \in Seq(Scancodes)
  BY <1>1, EventFacts, Zenon
<1> HIDE DEF b
<1>3. Len(got) < Len(b)
  <2>1. Len(got) <= Len(b) /\ \A i \in 1..Len(got) : got[i] = b[i]
    BY <1>1, Zenon DEF Begins
  <2>2. Len(got) # Len(b)
    BY <1>2, <2>1
  <2> QED
    BY <1>2, <2>1, <2>2
<1>4. QED
  BY <1>3, Zenon DEF Here, b

\* They are: it is the next event.
LEMMA PushHere ==
  ASSUME NEW h, NEW s, NEW k, Recorded(h, s, k),
         NEW n, NEW keys \in Seq(Codes), NEW got \in Seq(Scancodes), NEW more \in Seq(Scancodes), NEW d \in Nat,
         Len(got) = d + 1, Here(h, s, k, n, keys, got \o more, d),
         NEW e \in Events, e.bytes = got
  PROVE  Here(h, s, k, n + 1, IF e.down THEN Append(keys, e.code) ELSE keys, more, 0)
<1>1. /\ n \in 0..(Len(h) - 1) /\ h[n + 1].event \in Events
      /\ Begins(got, h[n + 1].event.bytes) /\ Follows(h, s, k, n)
      /\ Rest(more, s, Bytes(h, n) + Len(got)) /\ Bytes(h, n) \in Nat /\ Keys(h, n) \in Nat
  BY NextEvent, Zenon
<1>2. h[n + 1].event = e
  BY <1>1, ConsoleAssumption, Zenon
<1>3. h \in Seq(Entries) /\ k \in Seq(Codes) /\ Len(h) \in Nat /\ Len(k) \in Nat
  BY DEF Recorded
<1>4. First(keys, k, Keys(h, n))
  BY Zenon DEF Here
<1>5. /\ Bytes(h, n + 1) = Bytes(h, n) + Len(got) /\ Keys(h, n + 1) <= Len(k)
      /\ e.down => Keys(h, n + 1) = Keys(h, n) + 1 /\ k[Keys(h, n) + 1] = e.code
      /\ ~e.down => Keys(h, n + 1) = Keys(h, n)
  BY <1>1, <1>2, Zenon DEF Follows
<1>6. Rest(more, s, Bytes(h, n + 1))
  BY <1>1, <1>5, Zenon
<1>7. First(IF e.down THEN Append(keys, e.code) ELSE keys, k, Keys(h, n + 1))
  <2>1. CASE e.down
    <3>1. First(Append(keys, k[Keys(h, n) + 1]), k, Keys(h, n) + 1)
      <4>1. Keys(h, n) + 1 <= Len(k)
        BY <1>5, <2>1, Zenon
      <4> QED
        BY <1>3, <1>4, <4>1, FirstNext, Zenon
    <3> QED
      BY <1>5, <2>1, <3>1, Zenon
  <2>2. CASE ~e.down
    BY <1>4, <1>5, <2>2, Zenon
  <2> QED
    BY <2>1, <2>2, Zenon
<1>8. n + 1 \in 0..Len(h) /\ (n + 1 < Len(h) => (n + 1) + 1 \in 1..Len(h))
  BY <1>1, <1>3
<1>9. n + 1 < Len(h) => 0 < Len(h[(n + 1) + 1].event.bytes)
  <2>1. ASSUME n + 1 < Len(h)
        PROVE  h[(n + 1) + 1] \in Entries
    BY <1>3, <1>8, <2>1
  <2>2. ASSUME n + 1 < Len(h)
        PROVE  0 < Len(h[(n + 1) + 1].event.bytes)
    <3>1. h[(n + 1) + 1].event \in Events
      BY <2>1, <2>2, Zenon DEF Entries
    <3> DEFINE f == h[(n + 1) + 1].event
    <3>2. Len(f.bytes) \in Nat /\ Len(f.bytes) > 0
      BY <3>1, EventFacts, Zenon
    <3> HIDE DEF f
    <3>3. 0 < Len(f.bytes)
      BY <3>2
    <3> QED
      BY <3>3, Zenon DEF f
  <2> QED
    BY <2>2, Zenon
<1>10. QED
  BY <1>6, <1>7, <1>8, <1>9, Zenon DEF Here

-----------------------------------------------------------------------------
(* Steps of a key.                                                         *)

\* The bytes that the decoder has not seen, as UnderWay.
Taken(at, b) == IF at = "decode" THEN <<b>> ELSE <<>>
Coming(at, b, o, w) == Taken(at, b) \o o \o w

KeyInv ==
  /\ Recorded(typed, stream, pressed)
  /\ decoder \in Seq(Scancodes) /\ out \in Seq(Scancodes) /\ wire \in Seq(Scancodes) /\ Len(out) <= 1
  /\ handler = "decode" => byte \in Scancodes
  /\ shown \in Seq(Codes)
  /\ \E n \in 0..Len(typed) :
       Here(typed, stream, pressed, n, shown \o hand \o buffer,
            decoder \o Coming(handler, byte, out, wire), Len(decoder))

LEMMA TakenFacts ==
  ASSUME NEW at, NEW b, at = "decode" => b \in Scancodes
  PROVE  Taken(at, b) \in Seq(Scancodes)
<1>1. CASE at = "decode"
  <2>1. <<b>> \in Seq(Scancodes)
    BY <1>1
  <2> QED
    BY <1>1, <2>1, Zenon DEF Taken
<1>2. CASE at # "decode"
  <2>1. <<>> \in Seq(Scancodes)
    OBVIOUS
  <2> QED
    BY <1>2, <2>1, Zenon DEF Taken
<1>3. QED
  BY <1>1, <1>2, Zenon

LEMMA KeyFields ==
  ASSUME KeyInv, QueueInv
  PROVE  /\ Recorded(typed, stream, pressed)
         /\ decoder \in Seq(Scancodes) /\ out \in Seq(Scancodes) /\ wire \in Seq(Scancodes) /\ Len(out) <= 1
         /\ Taken(handler, byte) \in Seq(Scancodes) /\ Coming(handler, byte, out, wire) \in Seq(Scancodes)
         /\ shown \in Seq(Codes) /\ hand \in Seq(Codes) /\ buffer \in Seq(Codes)
         /\ shown \o hand \in Seq(Codes) /\ shown \o hand \o buffer \in Seq(Codes)
         /\ decoder \o Coming(handler, byte, out, wire) \in Seq(Scancodes)
<1>1. /\ Recorded(typed, stream, pressed)
      /\ decoder \in Seq(Scancodes) /\ out \in Seq(Scancodes) /\ wire \in Seq(Scancodes) /\ Len(out) <= 1
      /\ shown \in Seq(Codes) /\ hand \in Seq(Codes) /\ buffer \in Seq(Codes)
      /\ Taken(handler, byte) \in Seq(Scancodes)
  BY TakenFacts, Zenon DEF KeyInv, QueueInv
<1>2. Coming(handler, byte, out, wire) \in Seq(Scancodes)
  BY <1>1 DEF Coming
<1>3. shown \o hand \in Seq(Codes) /\ shown \o hand \o buffer \in Seq(Codes)
  BY <1>1
<1>4. decoder \o Coming(handler, byte, out, wire) \in Seq(Scancodes)
  BY <1>1, <1>2
<1>5. QED
  BY <1>1, <1>2, <1>3, <1>4, Zenon

\* Keys and bytes that only change places.
LEMMA Moved ==
  ASSUME KeyInv, UNCHANGED <<history, decoder>>,
         out' \in Seq(Scancodes), wire' \in Seq(Scancodes), Len(out') <= 1,
         handler' = "decode" => byte' \in Scancodes, shown' \in Seq(Codes),
         shown' \o hand' \o buffer' = shown \o hand \o buffer,
         Coming(handler', byte', out', wire') = Coming(handler, byte, out, wire)
  PROVE  KeyInv'
<1>1. typed' = typed /\ stream' = stream /\ pressed' = pressed /\ decoder' = decoder
  BY Zenon DEF history
<1>2. PICK n \in 0..Len(typed) :
        Here(typed, stream, pressed, n, shown \o hand \o buffer,
             decoder \o Coming(handler, byte, out, wire), Len(decoder))
  BY Zenon DEF KeyInv
<1>3. Here(typed', stream', pressed', n, shown' \o hand' \o buffer',
           decoder' \o Coming(handler', byte', out', wire'), Len(decoder'))
  BY <1>1, <1>2, Zenon
<1>4. Recorded(typed', stream', pressed') /\ decoder' \in Seq(Scancodes) /\ n \in 0..Len(typed')
  BY <1>1, Zenon DEF KeyInv
<1>5. QED
  BY <1>3, <1>4, Zenon DEF KeyInv

LEMMA TypeStep ==
  ASSUME KeyInv, QueueInv, NEW e \in Events, Type(e)
  PROVE  KeyInv'
<1> DEFINE r == [event |-> e, bytes |-> Len(stream'), keys |-> Len(pressed')]
           coming == Coming(handler, byte, out, wire)
<1>1. /\ stream' = stream \o e.bytes /\ pressed' = IF e.down THEN Append(pressed, e.code) ELSE pressed
      /\ typed' = Append(typed, r) /\ wire' = wire \o e.bytes
      /\ out' = out /\ decoder' = decoder /\ handler' = handler /\ byte' = byte
      /\ hand' = hand /\ buffer' = buffer /\ shown' = shown
  BY Zenon DEF Type, driver
<1>2. /\ Recorded(typed, stream, pressed)
      /\ decoder \in Seq(Scancodes) /\ out \in Seq(Scancodes) /\ wire \in Seq(Scancodes)
      /\ Taken(handler, byte) \in Seq(Scancodes) /\ coming \in Seq(Scancodes)
      /\ shown \o hand \o buffer \in Seq(Codes) /\ decoder \o coming \in Seq(Scancodes)
  BY KeyFields, Zenon
<1>3. e.bytes \in Seq(Scancodes)
  BY EventFacts, Zenon
<1>4. r \in Entries /\ Recorded(Append(typed, r), stream', pressed')
  BY <1>1, <1>2, TypeRecorded
<1>5. PICK n \in 0..Len(typed) :
        Here(typed, stream, pressed, n, shown \o hand \o buffer, decoder \o coming, Len(decoder))
  BY Zenon DEF KeyInv
<1>6. Len(decoder) \in Nat /\ Len(decoder) <= Len(decoder \o coming)
  <2> HIDE DEF coming
  <2> QED
    BY <1>2
<1>7. r.event = e
  BY Zenon
<1>8. Here(Append(typed, r), stream', pressed', n, shown \o hand \o buffer,
           (decoder \o coming) \o e.bytes, Len(decoder))
  <2> HIDE DEF r, coming
  <2> QED
    BY <1>1, <1>2, <1>4, <1>5, <1>6, <1>7, TypeHere
<1>9. (decoder \o coming) \o e.bytes = decoder \o Coming(handler', byte', out', wire')
  <2> DEFINE a == Taken(handler, byte) \o out
  <2>1. a \in Seq(Scancodes)
    BY <1>2
  <2>2. coming = a \o wire
    BY Zenon DEF Coming
  <2>3. Coming(handler', byte', out', wire') = a \o (wire \o e.bytes)
    BY <1>1, Zenon DEF Coming
  <2> HIDE DEF a, coming
  <2>4. (a \o wire) \o e.bytes = a \o (wire \o e.bytes)
    <3>1. Joined(a, wire, e.bytes)
      BY <1>2, <1>3, <2>1, Assoc, Zenon
    <3> QED
      BY <3>1, Zenon DEF Joined
  <2>5. (decoder \o coming) \o e.bytes = decoder \o (coming \o e.bytes)
    <3>1. Joined(decoder, coming, e.bytes)
      BY <1>2, <1>3, Assoc, Zenon
    <3> QED
      BY <3>1, Zenon DEF Joined
  <2> QED
    BY <2>2, <2>3, <2>4, <2>5, Zenon
<1>10. n \in 0..Len(typed')
  BY <1>8, <1>1, Zenon DEF Here
<1>11. Here(typed', stream', pressed', n, shown' \o hand' \o buffer',
            decoder' \o Coming(handler', byte', out', wire'), Len(decoder'))
  BY <1>1, <1>8, <1>9, Zenon
<1>12. wire' \in Seq(Scancodes)
  BY <1>1, <1>2, <1>3
<1>13. Recorded(typed', stream', pressed')
  BY <1>1, <1>4, Zenon
<1>14. QED
  BY <1>1, <1>10, <1>11, <1>12, <1>13, Zenon DEF KeyInv

LEMMA DeliverStep ==
  ASSUME KeyInv, QueueInv, Deliver
  PROVE  KeyInv'
<1>1. /\ wire # <<>> /\ out = <<>> /\ out' = <<Head(wire)>> /\ wire' = Tail(wire)
      /\ UNCHANGED <<history, decoder>> /\ handler' = handler /\ byte' = byte
      /\ shown' = shown /\ hand' = hand /\ buffer' = buffer
  BY Zenon DEF Deliver, driver
<1> DEFINE x == Taken(handler, byte)
<1>2. /\ wire \in Seq(Scancodes) /\ x \in Seq(Scancodes) /\ shown \in Seq(Codes)
      /\ handler = "decode" => byte \in Scancodes
  BY KeyFields, Zenon DEF KeyInv
<1>3. wire' \in Seq(Scancodes) /\ out' \in Seq(Scancodes) /\ out' \o wire' = wire
  BY <1>1, <1>2, FirstOf, Zenon
<1>4. Len(out') <= 1
  BY <1>1
<1>5. Coming(handler', byte', out', wire') = (x \o out') \o wire' /\ Coming(handler, byte, out, wire) = (x \o out) \o wire
  BY <1>1, Zenon DEF Coming
<1> HIDE DEF x
<1>6. (x \o out') \o wire' = x \o (out' \o wire') /\ x \o out = x
  <2>1. (x \o out') \o wire' = x \o (out' \o wire')
    <3>1. Joined(x, out', wire')
      BY <1>2, <1>3, Assoc, Zenon
    <3> QED
      BY <3>1, Zenon DEF Joined
  <2> QED
    BY <1>1, <1>2, <2>1, Nothing, Zenon
<1>7. Coming(handler', byte', out', wire') = Coming(handler, byte, out, wire)
  BY <1>3, <1>5, <1>6, Zenon
<1>8. QED
  BY <1>1, <1>2, <1>3, <1>4, <1>7, Moved, Zenon

LEMMA ReadStep ==
  ASSUME KeyInv, QueueInv, HandlerRead
  PROVE  KeyInv'
<1>1. /\ handler = "read" /\ out # <<>> /\ byte' = Head(out) /\ out' = <<>> /\ handler' = "decode"
      /\ UNCHANGED <<history, decoder>> /\ wire' = wire
      /\ shown' = shown /\ hand' = hand /\ buffer' = buffer
  BY Zenon DEF HandlerRead
<1>2. out \in Seq(Scancodes) /\ Len(out) <= 1 /\ wire \in Seq(Scancodes) /\ shown \in Seq(Codes)
  BY KeyFields, Zenon
<1>3. byte' \in Scancodes /\ <<byte'>> = out
  BY <1>1, <1>2, FirstOf, Zenon
<1>4. out' \in Seq(Scancodes) /\ Len(out') <= 1
  BY <1>1
<1>5. Taken(handler, byte) = <<>> /\ Taken(handler', byte') = out
  BY <1>1, <1>3, Zenon DEF Taken
<1>6. <<>> \o out = out /\ out \o <<>> = out
  BY <1>2, Nothing, Zenon
<1>7. Coming(handler', byte', out', wire') = Coming(handler, byte, out, wire)
  BY <1>1, <1>5, <1>6, Zenon DEF Coming
<1>8. QED
  BY <1>1, <1>2, <1>3, <1>4, <1>7, Moved, Zenon

LEMMA PushStep ==
  ASSUME KeyInv, QueueInv, HandlerPush
  PROVE  KeyInv'
<1> DEFINE got  == Append(decoder, byte)
           more == out \o wire
           keys == shown \o hand \o buffer
<1>1. /\ handler = "decode" /\ handler' = "none"
      /\ typed' = typed /\ stream' = stream /\ pressed' = pressed /\ out' = out /\ wire' = wire /\ byte' = byte
      /\ shown' = shown /\ hand' = hand
  BY Zenon DEF HandlerPush, keyboard, history
<1>2. /\ Recorded(typed, stream, pressed)
      /\ decoder \in Seq(Scancodes) /\ out \in Seq(Scancodes) /\ wire \in Seq(Scancodes) /\ Len(out) <= 1
      /\ shown \in Seq(Codes) /\ shown \o hand \in Seq(Codes) /\ buffer \in Seq(Codes) /\ keys \in Seq(Codes)
  BY KeyFields, Zenon
<1>3. byte \in Scancodes
  BY <1>1, Zenon DEF KeyInv
<1>4. /\ got \in Seq(Scancodes) /\ Len(got) = Len(decoder) + 1 /\ Len(decoder) \in Nat
      /\ more \in Seq(Scancodes) /\ <<byte>> \in Seq(Scancodes) /\ got = decoder \o <<byte>>
  <2>1. more \in Seq(Scancodes)
    BY <1>2
  <2>2. <<byte>> \in Seq(Scancodes) /\ got \in Seq(Scancodes) /\ Len(got) = Len(decoder) + 1 /\ Len(decoder) \in Nat
    BY <1>2, <1>3
  <2>3. got = decoder \o <<byte>>
    BY <1>2, <1>3
  <2> QED
    BY <2>1, <2>2, <2>3, Zenon
<1>5. Coming(handler', byte', out', wire') = more
  <2>1. Coming(handler', byte', out', wire') = (<<>> \o out) \o wire
    BY <1>1, Zenon DEF Coming, Taken
  <2> QED
    BY <1>2, <2>1, Nothing, Zenon
<1>6. decoder \o Coming(handler, byte, out, wire) = got \o more
  <2>1. Coming(handler, byte, out, wire) = (<<byte>> \o out) \o wire
    BY <1>1, Zenon DEF Coming, Taken
  <2>2. (<<byte>> \o out) \o wire = <<byte>> \o more
    <3>1. Joined(<<byte>>, out, wire)
      BY <1>2, <1>4, Assoc, Zenon
    <3> QED
      BY <3>1, Zenon DEF Joined
  <2> HIDE DEF got, more
  <2>3. decoder \o (<<byte>> \o more) = (decoder \o <<byte>>) \o more
    <3>1. Joined(decoder, <<byte>>, more)
      BY <1>2, <1>4, Assoc, Zenon
    <3> QED
      BY <3>1, Zenon DEF Joined
  <2> QED
    BY <1>4, <2>1, <2>2, <2>3, Zenon
<1>7. PICK n \in 0..Len(typed) : Here(typed, stream, pressed, n, keys, got \o more, Len(decoder))
  BY <1>6, Zenon DEF KeyInv
<1>8. CASE Decoded(got) = {} /\ decoder' = got /\ UNCHANGED buffer
  <2>1. \A e \in Events : e.bytes # got
    BY <1>8, Zenon DEF Decoded
  <2> HIDE DEF got, more, keys
  <2>2. Here(typed, stream, pressed, n, keys, got \o more, Len(got))
    BY <1>2, <1>4, <1>7, <2>1, KeepHere, Zenon
  <2>3. Here(typed', stream', pressed', n, shown' \o hand' \o buffer',
             decoder' \o Coming(handler', byte', out', wire'), Len(decoder'))
    BY <1>1, <1>5, <1>8, <2>2, Zenon DEF keys
  <2> QED
    BY <1>1, <1>2, <1>4, <1>7, <1>8, <2>3, Zenon DEF KeyInv
<1>9. ASSUME NEW e \in Decoded(got), decoder' = <<>>,
             buffer' = IF Queued(e) THEN Append(buffer, e.code) ELSE buffer
      PROVE  KeyInv'
  <2>1. e \in Events /\ e.bytes = got
    BY Zenon DEF Decoded
  <2>2. e.code \in Codes
    BY <2>1, EventFacts, Zenon
  <2>3. shown' \o hand' \o buffer' = IF e.down THEN Append(keys, e.code) ELSE keys
    <3>1. CASE e.down
      <4>1. buffer' = Append(buffer, e.code)
        BY <1>9, <3>1, Zenon DEF Queued
      <4>2. (shown \o hand) \o Append(buffer, e.code) = Append((shown \o hand) \o buffer, e.code)
        <5> DEFINE a == shown \o hand
        <5>1. a \in Seq(Codes)
          BY <1>2, Zenon
        <5> HIDE DEF a
        <5>2. a \o Append(buffer, e.code) = Append(a \o buffer, e.code)
          BY <1>2, <2>2, <5>1
        <5> QED
          BY <5>2, Zenon DEF a
      <4> QED
        BY <1>1, <3>1, <4>1, <4>2, Zenon
    <3>2. CASE ~e.down
      BY <1>1, <1>9, <3>2, Zenon DEF Queued
    <3> QED
      BY <3>1, <3>2, Zenon
  <2>4. n + 1 \in 0..Len(typed)
    <3> HIDE DEF got, more, keys
    <3>1. n \in 0..(Len(typed) - 1)
      BY <1>2, <1>4, <1>7, NextEvent, Zenon
    <3>2. Len(typed) \in Nat
      BY <1>2 DEF Recorded
    <3> QED
      BY <3>1, <3>2
  <2> HIDE DEF got, more, keys
  <2>5. Here(typed, stream, pressed, n + 1, IF e.down THEN Append(keys, e.code) ELSE keys, more, 0)
    BY <1>2, <1>4, <1>7, <2>1, PushHere, Zenon
  <2>6. <<>> \o more = more /\ Len(<<>>) = 0 /\ <<>> \in Seq(Scancodes)
    BY <1>4
  <2>7. Here(typed', stream', pressed', n + 1, shown' \o hand' \o buffer',
             decoder' \o Coming(handler', byte', out', wire'), Len(decoder'))
    BY <1>1, <1>5, <1>9, <2>3, <2>5, <2>6, Zenon
  <2> QED
    BY <1>1, <1>2, <1>9, <2>4, <2>6, <2>7, Zenon DEF KeyInv
<1>10. QED
  BY <1>8, <1>9, Zenon DEF HandlerPush

LEMMA EnterStep ==
  ASSUME KeyInv, Enter
  PROVE  KeyInv'
<1>1. /\ handler = "none" /\ handler' = "read" /\ UNCHANGED <<history, decoder>>
      /\ out' = out /\ wire' = wire /\ shown' = shown /\ hand' = hand /\ buffer' = buffer
  BY Zenon DEF Enter, Open
<1>2. Taken(handler, byte) = <<>> /\ Taken(handler', byte') = <<>> /\ handler' # "decode"
  BY <1>1, Zenon DEF Taken
<1>3. Coming(handler', byte', out', wire') = Coming(handler, byte, out, wire)
  BY <1>1, <1>2, Zenon DEF Coming
<1>4. out' \in Seq(Scancodes) /\ wire' \in Seq(Scancodes) /\ Len(out') <= 1 /\ shown' \in Seq(Codes)
  BY <1>1, Zenon DEF KeyInv
<1>5. QED
  BY <1>1, <1>2, <1>3, <1>4, Moved, Zenon

\* Neither the keyboard nor its driver moves.
LEMMA Kept ==
  ASSUME KeyInv, UNCHANGED <<keyboard, driver>>, shown' \in Seq(Codes),
         shown' \o hand' \o buffer' = shown \o hand \o buffer
  PROVE  KeyInv'
<1>1. /\ UNCHANGED <<history, decoder>> /\ handler' = handler /\ byte' = byte /\ out' = out /\ wire' = wire
  BY Zenon DEF keyboard, driver
<1>2. Coming(handler', byte', out', wire') = Coming(handler, byte, out, wire)
  BY <1>1, Zenon
<1>3. /\ out' \in Seq(Scancodes) /\ wire' \in Seq(Scancodes) /\ Len(out') <= 1
      /\ handler' = "decode" => byte' \in Scancodes
  BY <1>1, Zenon DEF KeyInv
<1>4. QED
  BY <1>1, <1>2, <1>3, Moved, Zenon

LEMMA CheckStep ==
  ASSUME KeyInv, QueueInv, Check
  PROVE  KeyInv'
<1>1. main = "check" /\ UNCHANGED <<keyboard, driver>> /\ shown' = shown
  BY Zenon DEF Check
<1>2. hand = <<>> /\ shown \in Seq(Codes) /\ buffer \in Seq(Codes)
  BY <1>1, KeyFields, Zenon DEF QueueInv
<1>3. CASE buffer # <<>> /\ hand' = <<Head(buffer)>> /\ buffer' = Tail(buffer)
  <2>1. hand' \in Seq(Codes) /\ buffer' \in Seq(Codes) /\ hand' \o buffer' = buffer
    BY <1>2, <1>3, FirstOf, Zenon
  <2>2. Joined(shown, hand', buffer') /\ shown \o hand = shown
    BY <1>2, <2>1, Assoc, Nothing, Zenon
  <2>3. shown' \o hand' \o buffer' = shown \o hand \o buffer
    BY <1>1, <2>1, <2>2, Zenon DEF Joined
  <2> QED
    BY <1>1, <1>2, <2>3, Kept, Zenon
<1>4. CASE UNCHANGED <<hand, buffer>>
  BY <1>1, <1>2, <1>4, Kept, Zenon
<1>5. QED
  BY <1>3, <1>4, Zenon DEF Check

LEMMA PrintedStep ==
  ASSUME KeyInv, QueueInv, KeyPrinted
  PROVE  KeyInv'
<1>1. UNCHANGED <<keyboard, driver>> /\ shown' = shown \o hand /\ hand' = <<>> /\ buffer' = buffer
  BY Zenon DEF KeyPrinted
<1>2. shown \o hand \in Seq(Codes)
  BY KeyFields, Zenon
<1>3. shown' \o hand' = shown \o hand
  BY <1>1, <1>2, Nothing, Zenon
<1>4. shown' \o hand' \o buffer' = shown \o hand \o buffer /\ shown' \in Seq(Codes)
  BY <1>1, <1>2, <1>3, Zenon
<1>5. QED
  BY <1>1, <1>4, Kept, Zenon

LEMMA KeysStep ==
  ASSUME KeyInv, QueueInv, Next
  PROVE  KeyInv'
<1>1. CASE UNCHANGED <<keyboard, driver, shown, hand, buffer>>
  <2>1. shown' \o hand' \o buffer' = shown \o hand \o buffer /\ shown' \in Seq(Codes)
    BY <1>1, Zenon DEF KeyInv
  <2> QED
    BY <1>1, <2>1, Kept, Zenon
<1>2. ASSUME NEW e \in Events, Type(e)
      PROVE  KeyInv'
  BY <1>2, TypeStep, Zenon
<1>3. CASE Deliver
  BY <1>3, DeliverStep, Zenon
<1>4. CASE Handler
  BY <1>4, EnterStep, ReadStep, PushStep, Zenon DEF Handler
<1>5. CASE Check
  BY <1>5, CheckStep, Zenon
<1>6. CASE KeyPrinted
  BY <1>6, PrintedStep, Zenon
<1>7. CASE Unmask \/ PrintKey \/ Hlt \/ Timer
  BY <1>1, <1>7, Zenon DEF Unmask, PrintKey, Hlt, Timer
<1>8. CASE Put \/ \E c \in Cpus : Emitted(c) \/ Emit(c)
  BY <1>1, <1>8, Zenon DEF Put, Emitted, Emit
<1>9. QED
  BY <1>2, <1>3, <1>4, <1>5, <1>6, <1>7, <1>8, Zenon DEF Next, Kmain, Printing

LEMMA KeysFirst ==
  ASSUME Init
  PROVE  KeyInv
<1>1. /\ typed = <<>> /\ stream = <<>> /\ pressed = <<>> /\ wire = <<>> /\ out = <<>>
      /\ handler = "none" /\ decoder = <<>> /\ buffer = <<>> /\ hand = <<>> /\ shown = <<>>
  BY Zenon DEF Init
<1>2. /\ <<>> \in Seq(Entries) /\ <<>> \in Seq(Scancodes) /\ <<>> \in Seq(Codes)
      /\ Len(<<>>) = 0 /\ <<>> \o <<>> = <<>> /\ Len(<<>>) <= 1 /\ 0 \in 0..0 /\ ~(0 < 0)
      /\ \A n \in 0..(0 - 1) : FALSE
  <2>1. \A n \in 0..(0 - 1) : FALSE
    OBVIOUS
  <2>2. <<>> \o <<>> = <<>>
    BY Nothing
  <2> QED
    BY <2>1, <2>2
<1>3. Bytes(typed, 0) = 0 /\ Keys(typed, 0) = 0
  BY Zenon DEF Bytes, Keys
<1>4. Recorded(typed, stream, pressed)
  BY <1>1, <1>2, <1>3, Zenon DEF Recorded
<1>5. Coming(handler, byte, out, wire) = <<>>
  BY <1>1, <1>2, Zenon DEF Coming, Taken
<1>6. shown \o hand \o buffer = <<>> /\ decoder \o Coming(handler, byte, out, wire) = <<>> /\ Len(decoder) = 0
  BY <1>1, <1>2, <1>5, Zenon
<1>7. First(<<>>, pressed, 0) /\ Rest(<<>>, stream, 0)
  BY <1>1 DEF First, Rest
<1>8. Here(typed, stream, pressed, 0, <<>>, <<>>, 0)
  BY <1>1, <1>2, <1>3, <1>7, Zenon DEF Here
<1>9. Here(typed, stream, pressed, 0, shown \o hand \o buffer,
           decoder \o Coming(handler, byte, out, wire), Len(decoder))
  BY <1>6, <1>8, Zenon
<1>10. 0 \in 0..Len(typed) /\ handler # "decode" /\ Len(out) <= 1
  BY <1>1, <1>2, Zenon
<1>11. QED
  BY <1>1, <1>2, <1>4, <1>9, <1>10, Zenon DEF KeyInv

LEMMA KeysShown ==
  ASSUME KeyInv, QueueInv
  PROVE  KeysInOrder
<1>1. PICK n \in 0..Len(typed) :
        Here(typed, stream, pressed, n, shown \o hand \o buffer,
             decoder \o Coming(handler, byte, out, wire), Len(decoder))
  BY Zenon DEF KeyInv
<1>2. First(shown \o hand \o buffer, pressed, Keys(typed, n))
  BY <1>1, Zenon DEF Here
<1>3. Rest(decoder \o Coming(handler, byte, out, wire), stream, Bytes(typed, n))
  BY <1>1, Zenon DEF Here
<1>4. /\ pressed \in Seq(Codes) /\ stream \in Seq(Scancodes) /\ shown \o hand \o buffer \in Seq(Codes)
      /\ decoder \o Coming(handler, byte, out, wire) \in Seq(Scancodes)
  BY KeyFields, Zenon DEF Recorded
<1>5. shown \o hand \o buffer = SubSeq(pressed, 1, Keys(typed, n))
  BY <1>2, <1>4, FirstIs, Zenon
<1>6. decoder \o Coming(handler, byte, out, wire) = SubSeq(stream, Bytes(typed, n) + 1, Len(stream))
  BY <1>3, <1>4, RestIs, Zenon
<1>7. UnderWay = Coming(handler, byte, out, wire)
  BY Zenon DEF UnderWay, Coming, Taken
<1>8. QED
  BY <1>5, <1>6, <1>7, Zenon DEF KeysInOrder

LEMMA KeysStill ==
  ASSUME KeyInv, UNCHANGED vars
  PROVE  KeyInv'
BY Zenon DEF vars, keyboard, history, driver, KeyInv

\* Wherever the interrupt comes in the loop of kmain, and whatever other CPUs
\* print meanwhile, keyboard_handler and the queue lose, double and swap no key:
\* what was printed, is being printed and is queued are the keys of the first
\* events, and the bytes of all other events are still under way to the decoder.
THEOREM KeysKeepOrder == Spec => []KeysInOrder
<1>1. Init => KeyInv /\ QueueInv
  BY KeysFirst, ScreenFirst, Zenon
<1>2. KeyInv /\ QueueInv /\ [Next]_vars => KeyInv' /\ QueueInv'
  <2>1. QueueInv /\ UNCHANGED vars => QueueInv'
    BY Zenon DEF vars, QueueInv
  <2> QED
    BY <2>1, KeysStep, QueueStep, KeysStill, Zenon
<1>3. KeyInv /\ QueueInv => KeysInOrder
  BY KeysShown, Zenon
<1>4. QED
  BY <1>1, <1>2, <1>3, PTL DEF Spec
=============================================================================
