---------------------------- MODULE ScreenProofs ----------------------------
(***************************************************************************)
(* The screen for glass of any size and a palette of any size.  The cursor *)
(* stays on the grid; the bytes of the frame buffer always show the        *)
(* terminal that was promised; the palette holds the colours the program   *)
(* gave it; and the address maps send every access where it is meant to go *)
(* - no entry of them covers another, and the devices answer at their      *)
(* addresses.                                                              *)
(***************************************************************************)
EXTENDS Screen, TLAPS

-----------------------------------------------------------------------------
(* The cursor never leaves the grid (console_glyph), so no glyph is written  *)
(* outside the frame buffer, however long the line and however many lines.   *)
THEOREM CursorStaysOnGlass == Spec => []CursorOnGlass
<1> USE SizesAssumption DEF CursorOnGlass
<1>1. ScreenInit => CursorOnGlass
  BY DEF ScreenInit, Init
<1>2. CursorOnGlass /\ [Next]_screen => CursorOnGlass'
  <2> SUFFICES ASSUME CursorOnGlass, [Next]_screen PROVE CursorOnGlass'
    OBVIOUS
  <2>1. ASSUME NEW f, NewLine(f) PROVE CursorOnGlass'
    BY <2>1 DEF NewLine
  <2>2. ASSUME NEW ch \in Chars, Put(ch) PROVE CursorOnGlass'
    <3>1. CASE conx + 1 < Cols
      BY <2>2, <3>1 DEF Put
    <3>2. CASE ~(conx + 1 < Cols)
      BY <2>1, <2>2, <3>2 DEF Put
    <3> QED BY <3>1, <3>2
  <2>3. CASE LineFeed
    BY <2>1, <2>3 DEF LineFeed
  <2>4. CASE CarriageReturn \/ Backspace \/ ClearGlass \/ DrawBelow \/ UNCHANGED vars
    BY <2>4 DEF CarriageReturn, Backspace, ClearGlass, DrawBelow, vars
  <2>5. CASE Writes8000
    BY <2>2, <2>3, <2>4, <2>5 DEF Writes8000, console_glyph
  <2>6. CASE Draws \/ hold_lines
    BY <2>4, <2>6 DEF Draws, hold_lines
  <2>7. CASE DeclareEntry \/ (\E i \in Index : SetsIndex(i)) \/ GivesComponent \/ UNCHANGED screen
    BY <2>4, <2>7 DEF DeclareEntry, SetsIndex, GivesComponent, screen
  <2> QED BY <2>5, <2>6, <2>7 DEF Next
<1> QED BY <1>1, <1>2, PTL DEF Spec

-----------------------------------------------------------------------------
(* The frame buffer shows a terminal.  *)

(* A digit and what it is a digit of: the place of a byte in the frame       *)
(* buffer is a number written in the mixed radix of scan lines, columns and  *)
(* bytes of a column.                                                        *)
LEMMA Bounded ==
  ASSUME NEW N \in Nat, NEW n \in Nat, NEW k \in 0..N-1, NEW x \in 0..n-1
  PROVE  k * n + x \in 0..N*n-1 /\ N * n \in Nat
<1>1. N = k + 1 + (N - k - 1) /\ N - k - 1 \in Nat
  OBVIOUS
<1>2. \A d \in Nat : d * n \in Nat /\ (k + 1 + d) * n = k * n + n + d * n
  OBVIOUS
<1>3. N * n = k * n + n + (N - k - 1) * n
  BY <1>1, <1>2
<1>4. k * n \in Nat /\ (N - k - 1) * n \in Nat
  BY <1>1, <1>2
<1> QED BY <1>3, <1>4

LEMMA Digits ==
  ASSUME NEW n \in Nat, NEW j \in Nat, NEW k \in Nat, NEW x \in 0..n-1, NEW y \in 0..n-1,
         j * n + x = k * n + y
  PROVE  j = k /\ x = y
<1>1. ASSUME NEW a \in Nat, NEW b \in Nat, a < b PROVE a * n + n <= b * n
  <2>1. b = a + 1 + (b - a - 1) /\ b - a - 1 \in Nat
    BY <1>1
  <2>2. \A d \in Nat : d * n \in Nat /\ (a + 1 + d) * n = a * n + n + d * n
    OBVIOUS
  <2>3. b * n = a * n + n + (b - a - 1) * n /\ (b - a - 1) * n \in Nat /\ a * n \in Nat
    BY <2>1, <2>2
  <2> QED BY <2>3
<1>2. j * n \in Nat /\ k * n \in Nat
  OBVIOUS
<1>3. ~(j < k) /\ ~(k < j)
  BY <1>1, <1>2
<1> QED BY <1>2, <1>3

(* The byte x of scan line y of the cell at a row and column. *)
ByteAt(r, c, y, x) == (r * GlyphLines + y) * Stride + c * CellBytes + x
Lines == 0..GlyphLines-1
Bytes == 0..CellBytes-1

(* Where it is, as digits. *)
LEMMA ByteRadix ==
  ASSUME NEW r \in Nat, NEW c \in Nat, NEW y \in Nat, NEW x \in Nat
  PROVE  ByteAt(r, c, y, x) = ((r * GlyphLines + y) * Cols + c) * CellBytes + x
<1>1. \A m \in Nat : m * (Cols * CellBytes) + c * CellBytes = (m * Cols + c) * CellBytes
  BY SizesAssumption
<1>2. r * GlyphLines + y \in Nat
  BY SizesAssumption
<1> QED BY <1>1, <1>2, SizesAssumption DEF ByteAt, Stride

(* The end of the last row, as digits. *)
LEMMA EndRadix == /\ ScreenEnd = ((Rows * GlyphLines) * Cols) * CellBytes
                  /\ ScreenEnd \in Nat /\ RowBytes \in Nat /\ Stride \in Nat
BY SizesAssumption DEF ScreenEnd, RowBytes, Stride

(* No byte of a cell is outside the glass (console_glyph). *)
LEMMA InScreen ==
  ASSUME NEW r \in 0..Rows-1, NEW c \in 0..Cols-1, NEW y \in Lines, NEW x \in Bytes
  PROVE  ByteAt(r, c, y, x) \in 0..ScreenEnd-1 /\ ByteAt(r, c, y, x) \in Address
<1> USE SizesAssumption DEF Lines, Bytes
<1>1. r * GlyphLines + y \in 0..Rows*GlyphLines-1 /\ Rows * GlyphLines \in Nat
  BY Bounded
<1>2. /\ (r * GlyphLines + y) * Cols + c \in 0..(Rows*GlyphLines)*Cols-1
      /\ (Rows * GlyphLines) * Cols \in Nat
  BY <1>1, Bounded
<1>3. ((r * GlyphLines + y) * Cols + c) * CellBytes + x \in 0..((Rows*GlyphLines)*Cols)*CellBytes-1
  BY <1>2, Bounded
<1>4. ByteAt(r, c, y, x) \in 0..ScreenEnd-1
  <2>1. r \in Nat /\ c \in Nat /\ y \in Nat /\ x \in Nat
    OBVIOUS
  <2>2. ByteAt(r, c, y, x) = ((r * GlyphLines + y) * Cols + c) * CellBytes + x
    BY <2>1, ByteRadix
  <2> QED BY <1>3, <2>2, EndRadix
<1>5. SpareLines * Stride \in Nat
  BY EndRadix
<1> QED BY <1>4, <1>5, EndRadix DEF Address

(* A byte belongs to one cell, at one place: no glyph is written over its    *)
(* neighbour.                                                                *)
LEMMA OneByteOneCell ==
  ASSUME NEW r \in 0..Rows-1, NEW c \in 0..Cols-1, NEW y \in Lines, NEW x \in Bytes,
         NEW r2 \in 0..Rows-1, NEW c2 \in 0..Cols-1, NEW y2 \in Lines, NEW x2 \in Bytes,
         ByteAt(r, c, y, x) = ByteAt(r2, c2, y2, x2)
  PROVE  r = r2 /\ c = c2 /\ y = y2 /\ x = x2
<1> USE SizesAssumption DEF Lines, Bytes
<1> DEFINE m == r * GlyphLines + y
           m2 == r2 * GlyphLines + y2
<1>1. m \in Nat /\ m2 \in Nat
  OBVIOUS
<1>2. (m * Cols + c) * CellBytes + x = (m2 * Cols + c2) * CellBytes + x2
  <2>1. /\ r \in Nat /\ c \in Nat /\ y \in Nat /\ x \in Nat
        /\ r2 \in Nat /\ c2 \in Nat /\ y2 \in Nat /\ x2 \in Nat
    OBVIOUS
  <2>2. /\ ByteAt(r, c, y, x) = (m * Cols + c) * CellBytes + x
        /\ ByteAt(r2, c2, y2, x2) = (m2 * Cols + c2) * CellBytes + x2
    BY <2>1, ByteRadix
  <2> QED BY <2>2
<1> HIDE DEF m, m2
<1>3. m * Cols + c \in Nat /\ m2 * Cols + c2 \in Nat
  BY <1>1
<1>4. m * Cols + c = m2 * Cols + c2 /\ x = x2
  <2> DEFINE n == m * Cols + c
             n2 == m2 * Cols + c2
  <2>1. n \in Nat /\ n2 \in Nat /\ n * CellBytes + x = n2 * CellBytes + x2
    BY <1>2, <1>3
  <2> HIDE DEF n, n2
  <2>2. n = n2 /\ x = x2
    BY <2>1, Digits
  <2> QED BY <2>2 DEF n, n2
<1>5. m = m2 /\ c = c2
  BY <1>1, <1>4, Digits
<1>6. r = r2 /\ y = y2
  BY <1>5, Digits DEF m, m2
<1> QED BY <1>4, <1>5, <1>6

(* The cell below is a row of bytes further, and only the last row has none. *)
LEMMA RowBelow ==
  ASSUME NEW r \in 0..Rows-1, NEW c \in 0..Cols-1, NEW y \in Lines, NEW x \in Bytes
  PROVE  /\ ByteAt(r + 1, c, y, x) = ByteAt(r, c, y, x) + RowBytes
         /\ r + 1 < Rows <=> ByteAt(r, c, y, x) < ScreenEnd - RowBytes
<1> USE SizesAssumption DEF Lines, Bytes
<1>1. ByteAt(r + 1, c, y, x) = ByteAt(r, c, y, x) + RowBytes
  BY DEF ByteAt, RowBytes, Stride
<1>2. ByteAt(r, c, y, x) \in Nat /\ ByteAt(r + 1, c, y, x) \in Nat
  BY SizesAssumption DEF ByteAt, Stride
<1>3. CASE r + 1 < Rows
  BY <1>1, <1>2, <1>3, InScreen, EndRadix
<1>4. CASE r + 1 = Rows
  <2>1. ScreenEnd = Rows * RowBytes /\ ByteAt(r, c, y, x) = r * RowBytes + y * Stride + c * CellBytes + x
    BY DEF ScreenEnd, ByteAt, RowBytes, Stride
  <2>2. ScreenEnd = r * RowBytes + RowBytes /\ r * RowBytes \in Nat
    BY <1>4, <2>1, EndRadix
  <2>3. y * Stride \in Nat /\ c * CellBytes \in Nat
    BY EndRadix
  <2>4. ByteAt(r, c, y, x) >= r * RowBytes /\ ScreenEnd - RowBytes = r * RowBytes
    BY <2>1, <2>2, <2>3, EndRadix
  <2>5. ~(r + 1 < Rows) /\ ByteAt(r, c, y, x) \in Nat /\ r * RowBytes \in Nat
    BY <1>2, <1>4, <2>2
  <2> QED BY <1>1, <2>4, <2>5
<1> QED BY <1>3, <1>4

(* What a frame buffer shows in a cell, and the glass and the strip of it. *)
Shown(f, r, c) ==
  LET Fits(ch) == \A y \in Lines, x \in Bytes : f[ByteAt(r, c, y, x)] = GlyphByte(ch, y, x)
  IN  IF \E ch \in Chars \cup {Blank} : Fits(ch)
        THEN CHOOSE ch \in Chars \cup {Blank} : Fits(ch) ELSE "torn"
Cells(f) == [r \in 0..Rows-1 |-> [c \in 0..Cols-1 |-> Shown(f, r, c)]]
Strip(f) == [i \in {a \in Address : a >= ScreenEnd} |-> f[i]]

SameBytes(f, r, c, g, r2, c2) ==
  \A y \in Lines, x \in Bytes : f[ByteAt(r, c, y, x)] = g[ByteAt(r2, c2, y, x)]

(* What a cell shows depends on its bytes, and a glyph shows its character,  *)
(* because the font has no glyph twice.                                      *)
LEMMA SameShown ==
  ASSUME NEW f, NEW g, NEW r, NEW c, NEW r2, NEW c2, SameBytes(f, r, c, g, r2, c2)
  PROVE  Shown(f, r, c) = Shown(g, r2, c2)
<1> DEFINE Fits(ch) == \A y \in Lines, x \in Bytes : f[ByteAt(r, c, y, x)] = GlyphByte(ch, y, x)
           Fits2(ch) == \A y \in Lines, x \in Bytes : g[ByteAt(r2, c2, y, x)] = GlyphByte(ch, y, x)
<1>1. \A ch : Fits(ch) <=> Fits2(ch)
  BY DEF SameBytes
<1>2. /\ Shown(f, r, c) = IF \E ch \in Chars \cup {Blank} : Fits(ch)
                            THEN CHOOSE ch \in Chars \cup {Blank} : Fits(ch) ELSE "torn"
      /\ Shown(g, r2, c2) = IF \E ch \in Chars \cup {Blank} : Fits2(ch)
                              THEN CHOOSE ch \in Chars \cup {Blank} : Fits2(ch) ELSE "torn"
  BY DEF Shown
<1> HIDE DEF Fits, Fits2
<1>3. (CHOOSE ch \in Chars \cup {Blank} : Fits(ch)) = CHOOSE ch \in Chars \cup {Blank} : Fits2(ch)
  BY <1>1
<1>4. (\E ch \in Chars \cup {Blank} : Fits(ch)) <=> (\E ch \in Chars \cup {Blank} : Fits2(ch))
  BY <1>1
<1>5. CASE \E ch \in Chars \cup {Blank} : Fits(ch)
  BY <1>2, <1>3, <1>4, <1>5
<1>6. CASE ~ \E ch \in Chars \cup {Blank} : Fits(ch)
  BY <1>2, <1>4, <1>6
<1> QED BY <1>5, <1>6

LEMMA GlyphsDiffer ==
  ASSUME NEW a \in Chars \cup {Blank}, NEW b \in Chars \cup {Blank},
         \A y \in Lines, x \in Bytes : GlyphByte(a, y, x) = GlyphByte(b, y, x)
  PROVE  a = b
<1> USE BoardAssumption, FontAssumption DEF Lines, Bytes
<1>0. s_font[a] \in [Lines -> SUBSET (0..Width-1)] /\ s_font[b] \in [Lines -> SUBSET (0..Width-1)]
  BY Zenon
<1>1. ASSUME NEW y \in Lines PROVE s_font[a][y] = s_font[b][y]
  <2>1. CASE ColourBoard
    <3>1. s_font[a][y] \subseteq 0..Width-1 /\ s_font[b][y] \subseteq 0..Width-1
      BY <1>0
    <3>2. ASSUME NEW x \in 0..Width-1 PROVE x \in s_font[a][y] <=> x \in s_font[b][y]
      <4>1. GlyphByte(a, y, x) = GlyphByte(b, y, x)
        BY <2>1
      <4> QED BY <2>1, <4>1 DEF GlyphByte
    <3> QED BY <3>1, <3>2
  <2>2. CASE ~ColourBoard
    BY <2>2 DEF GlyphByte
  <2> QED BY <2>1, <2>2
<1>2. s_font[a] = s_font[b]
  <2>1. \A D, S, F, G : F \in [D -> S] /\ G \in [D -> S] /\ (\A y \in D : F[y] = G[y]) => F = G
    OBVIOUS
  <2>2. \A y \in Lines : s_font[a][y] = s_font[b][y]
    BY <1>1
  <2> HIDE DEF Lines
  <2> DEFINE S == SUBSET (0..Width-1)
  <2>3. s_font[a] \in [Lines -> S] /\ s_font[b] \in [Lines -> S]
    BY <1>0
  <2> HIDE DEF S
  <2> QED BY ONLY <2>1, <2>2, <2>3
<1> QED BY <1>2

LEMMA BlankIsPaper ==
  ASSUME NEW y \in Lines, NEW x PROVE GlyphByte(Blank, y, x) = Paper
BY FontAssumption DEF GlyphByte, Paper, Lines

LEMMA GlyphShown ==
  ASSUME NEW f, NEW r \in Nat, NEW c \in Nat, NEW ch \in Chars \cup {Blank},
         \A y \in Lines, x \in Bytes : f[ByteAt(r, c, y, x)] = GlyphByte(ch, y, x)
  PROVE  Shown(f, r, c) = ch
<1> DEFINE Fits(k) == \A y \in Lines, x \in Bytes : f[ByteAt(r, c, y, x)] = GlyphByte(k, y, x)
           k == CHOOSE k \in Chars \cup {Blank} : Fits(k)
<1>1. Fits(ch)
  OBVIOUS
<1>2. Shown(f, r, c) = IF \E j \in Chars \cup {Blank} : Fits(j) THEN k ELSE "torn"
  BY DEF Shown
<1>3. k \in Chars \cup {Blank} /\ Fits(k)
  <2> HIDE DEF Fits
  <2> QED BY <1>1
<1>4. k = ch
  <2>1. \A y \in Lines, x \in Bytes : GlyphByte(k, y, x) = GlyphByte(ch, y, x)
    <3> HIDE DEF k
    <3> QED BY <1>1, <1>3
  <2> HIDE DEF k
  <2> QED BY <1>3, <2>1, GlyphsDiffer
<1> HIDE DEF Fits, k
<1> QED BY <1>1, <1>2, <1>4

(* Every byte of a glyph is in its place after the write, and no other byte  *)
(* has changed.                                                              *)
LEMMA Written ==
  ASSUME CursorOnGlass, NEW ch
  PROVE  /\ \A y \in Lines, x \in Bytes :
              WithGlyph(ch)[ByteAt(cony, conx, y, x)] = GlyphByte(ch, y, x)
         /\ \A r \in 0..Rows-1, c \in 0..Cols-1, y \in Lines, x \in Bytes :
              r # cony \/ c # conx => WithGlyph(ch)[ByteAt(r, c, y, x)] = fb[ByteAt(r, c, y, x)]
         /\ \A i \in Address : i >= ScreenEnd => WithGlyph(ch)[i] = fb[i]
<1> DEFINE Byte(y, x) == ByteAt(cony, conx, y, x)
           written == {Byte(y, x) : y \in Lines, x \in Bytes}
           At(i) == CHOOSE p \in Lines \X Bytes : Byte(p[1], p[2]) = i
           new == [i \in Address |-> IF i \in written THEN GlyphByte(ch, At(i)[1], At(i)[2]) ELSE fb[i]]
<1>1. WithGlyph(ch) = new
  BY DEF WithGlyph, ByteAt, Lines, Bytes
<1>2. cony \in 0..Rows-1 /\ conx \in 0..Cols-1
  BY DEF CursorOnGlass
<1>3. ASSUME NEW y \in Lines, NEW x \in Bytes PROVE new[Byte(y, x)] = GlyphByte(ch, y, x)
  <2>1. Byte(y, x) \in Address /\ Byte(y, x) \in written
    BY <1>2, InScreen
  <2> DEFINE p == At(Byte(y, x))
  <2>2. <<y, x>> \in Lines \X Bytes /\ Byte(<<y, x>>[1], <<y, x>>[2]) = Byte(y, x)
    OBVIOUS
  <2>3. p \in Lines \X Bytes /\ Byte(p[1], p[2]) = Byte(y, x)
    <3> HIDE DEF Byte
    <3> QED BY <2>2
  <2>4. p[1] \in Lines /\ p[2] \in Bytes
    BY <2>3
  <2>5. p[1] = y /\ p[2] = x
    <3> HIDE DEF p
    <3> QED BY <1>2, <2>3, <2>4, OneByteOneCell
  <2> QED BY <2>1, <2>5
<1>4. ASSUME NEW r \in 0..Rows-1, NEW c \in 0..Cols-1, NEW y \in Lines, NEW x \in Bytes,
             r # cony \/ c # conx
      PROVE  new[ByteAt(r, c, y, x)] = fb[ByteAt(r, c, y, x)]
  <2>1. ByteAt(r, c, y, x) \in Address
    BY InScreen
  <2>2. ByteAt(r, c, y, x) \notin written
    BY <1>2, <1>4, OneByteOneCell
  <2> QED BY <2>1, <2>2
<1>5. ASSUME NEW i \in Address, i >= ScreenEnd PROVE new[i] = fb[i]
  <2>1. i \notin written
    <3> SUFFICES ASSUME NEW y \in Lines, NEW x \in Bytes, i = Byte(y, x) PROVE FALSE
      OBVIOUS
    <3>1. Byte(y, x) \in 0..ScreenEnd-1
      BY <1>2, InScreen
    <3> QED BY <1>5, <3>1, EndRadix
  <2> QED BY <2>1
<1> HIDE DEF new
<1> QED BY <1>1, <1>3, <1>4, <1>5

(* The glass is the sum of its cells. *)
LEMMA SameCells ==
  ASSUME NEW f, NEW g,
         \A r \in 0..Rows-1, c \in 0..Cols-1, y \in Lines, x \in Bytes :
           f[ByteAt(r, c, y, x)] = g[ByteAt(r, c, y, x)]
  PROVE  Cells(f) = Cells(g)
<1>1. ASSUME NEW r \in 0..Rows-1, NEW c \in 0..Cols-1 PROVE Shown(f, r, c) = Shown(g, r, c)
  <2>1. SameBytes(f, r, c, g, r, c)
    BY DEF SameBytes
  <2> QED BY <2>1, SameShown
<1> QED BY <1>1, Zenon DEF Cells

(* The glyph of a character puts the character into the cell (console_glyph). *)
LEMMA GlyphPut ==
  ASSUME CursorOnGlass, NEW ch \in Chars
  PROVE  /\ Cells(WithGlyph(ch)) = [Cells(fb) EXCEPT ![cony][conx] = ch]
         /\ Strip(WithGlyph(ch)) = Strip(fb)
<1> DEFINE new == WithGlyph(ch)
<1>1. cony \in 0..Rows-1 /\ conx \in 0..Cols-1
  BY DEF CursorOnGlass
<1>2. Shown(new, cony, conx) = ch
  <2>1. \A y \in Lines, x \in Bytes : new[ByteAt(cony, conx, y, x)] = GlyphByte(ch, y, x)
    BY Written
  <2> HIDE DEF new
  <2> QED BY <1>1, <2>1, GlyphShown, SizesAssumption
<1>3. ASSUME NEW r \in 0..Rows-1, NEW c \in 0..Cols-1, r # cony \/ c # conx
      PROVE  Shown(new, r, c) = Shown(fb, r, c)
  <2>1. SameBytes(new, r, c, fb, r, c)
    BY <1>3, Written DEF SameBytes
  <2> HIDE DEF new
  <2> QED BY <2>1, SameShown
<1>4. Strip(new) = Strip(fb)
  <2>1. \A i \in Address : i >= ScreenEnd => new[i] = fb[i]
    BY Written
  <2> HIDE DEF new
  <2> QED BY <2>1 DEF Strip
<1> HIDE DEF new
<1>5. Cells(new) = [Cells(fb) EXCEPT ![cony][conx] = ch]
  BY <1>1, <1>2, <1>3 DEF Cells
<1> QED BY <1>4, <1>5 DEF new

(* A screen of paper is clear. *)
LEMMA AllPaper ==
  ASSUME NEW f, \A r \in 0..Rows-1, c \in 0..Cols-1, y \in Lines, x \in Bytes :
                  f[ByteAt(r, c, y, x)] = Paper
  PROVE  Cells(f) = T!Clear
<1>1. ASSUME NEW r \in 0..Rows-1, NEW c \in 0..Cols-1 PROVE Shown(f, r, c) = Blank
  <2>1. \A y \in Lines, x \in Bytes : f[ByteAt(r, c, y, x)] = GlyphByte(Blank, y, x)
    BY BlankIsPaper
  <2>2. r \in Nat /\ c \in Nat /\ Blank \in Chars \cup {Blank}
    BY SizesAssumption
  <2> QED BY <2>1, <2>2, GlyphShown, Zenon
<1> QED BY <1>1, Zenon DEF Cells, T!Clear

LEMMA PaperGlass == Cells([i \in Address |-> Paper]) = T!Clear
<1> DEFINE f == [i \in Address |-> Paper]
<1>1. \A r \in 0..Rows-1, c \in 0..Cols-1, y \in Lines, x \in Bytes : f[ByteAt(r, c, y, x)] = Paper
  BY InScreen
<1> HIDE DEF f
<1>2. Cells(f) = T!Clear
  BY <1>1, AllPaper
<1> QED BY <1>2 DEF f

(* The memmove and the memset move the glass up by one row, and leave the    *)
(* lines below it (console_glyph).                                           *)
LEMMA ScrolledUp ==
  ASSUME NEW f
  PROVE  Cells(Scrolled(f)) = T!MovedUp(Cells(f)) /\ Strip(Scrolled(f)) = Strip(f)
<1> DEFINE new == Scrolled(f)
<1>1. ASSUME NEW r \in 0..Rows-1, NEW c \in 0..Cols-1, NEW y \in Lines, NEW x \in Bytes
      PROVE  new[ByteAt(r, c, y, x)] = IF r + 1 < Rows THEN f[ByteAt(r + 1, c, y, x)] ELSE Paper
  <2>1. ByteAt(r, c, y, x) \in Address /\ ByteAt(r, c, y, x) \in 0..ScreenEnd-1
    BY InScreen
  <2>2. /\ ByteAt(r + 1, c, y, x) = ByteAt(r, c, y, x) + RowBytes
        /\ r + 1 < Rows <=> ByteAt(r, c, y, x) < ScreenEnd - RowBytes
    BY RowBelow
  <2>3. CASE r + 1 < Rows
    <3>1. \A i \in Address : i < ScreenEnd - RowBytes => new[i] = f[i + RowBytes]
      BY EndRadix DEF Scrolled, Address
    <3>2. new[ByteAt(r, c, y, x)] = f[ByteAt(r, c, y, x) + RowBytes]
      BY <2>1, <2>2, <2>3, <3>1
    <3> QED BY <2>2, <2>3, <3>2
  <2>4. CASE ~(r + 1 < Rows)
    <3>1. ~(ByteAt(r, c, y, x) < ScreenEnd - RowBytes)
      BY <2>2, <2>4
    <3>2. ByteAt(r, c, y, x) >= ScreenEnd - RowBytes /\ ByteAt(r, c, y, x) < ScreenEnd
      BY <2>1, <3>1, EndRadix
    <3> QED BY <2>1, <2>4, <3>1, <3>2 DEF Scrolled
  <2> QED BY <2>3, <2>4
<1>2. \A i \in Address : i >= ScreenEnd => new[i] = f[i]
  <2> TAKE i \in Address
  <2>1. i \in Nat
    BY DEF Address
  <2> QED BY <2>1, EndRadix DEF Scrolled
<1> HIDE DEF new
<1>3. Strip(new) = Strip(f)
  BY <1>2 DEF Strip
<1>4. ASSUME NEW r \in 0..Rows-1, NEW c \in 0..Cols-1, r + 1 < Rows
      PROVE  Shown(new, r, c) = Shown(f, r + 1, c)
  <2>1. SameBytes(new, r, c, f, r + 1, c)
    BY <1>1, <1>4 DEF SameBytes
  <2> QED BY <2>1, SameShown
<1>5. ASSUME NEW r \in 0..Rows-1, NEW c \in 0..Cols-1, ~(r + 1 < Rows)
      PROVE  Shown(new, r, c) = Blank
  <2>1. \A y \in Lines, x \in Bytes : new[ByteAt(r, c, y, x)] = GlyphByte(Blank, y, x)
    BY <1>1, <1>5, BlankIsPaper
  <2> HIDE DEF Blank
  <2> QED BY <2>1, GlyphShown, SizesAssumption
<1>6. ASSUME NEW r \in 0..Rows-1
      PROVE  Cells(new)[r] = IF r + 1 < Rows THEN Cells(f)[r + 1] ELSE T!Clear[r]
  <2>1. CASE r + 1 < Rows
    BY <1>4, <2>1, SizesAssumption DEF Cells
  <2>2. CASE ~(r + 1 < Rows)
    BY <1>5, <2>2 DEF Cells, T!Clear
  <2> QED BY <2>1, <2>2
<1>7. Cells(new) = T!MovedUp(Cells(f))
  BY <1>6 DEF Cells, T!MovedUp
<1> QED BY <1>3, <1>7 DEF new

(* What is drawn below the last row is not on the glass. *)
LEMMA BelowDrawn ==
  ASSUME NEW f, f = [i \in Address |-> IF i >= ScreenEnd THEN Drawn ELSE fb[i]]
  PROVE  Cells(f) = Cells(fb)
<1>1. ASSUME NEW r \in 0..Rows-1, NEW c \in 0..Cols-1, NEW y \in Lines, NEW x \in Bytes
      PROVE  f[ByteAt(r, c, y, x)] = fb[ByteAt(r, c, y, x)]
  <2>1. ByteAt(r, c, y, x) \in Address /\ ~(ByteAt(r, c, y, x) >= ScreenEnd)
    BY InScreen, EndRadix
  <2> QED BY <2>1
<1> QED BY <1>1, SameCells

(* The actions of the terminal, in terms of the frame buffer that shows it.  *)
(* The refinement mapping of Console, in these words. *)
LEMMA Glass == /\ [r \in 0..Rows-1 |-> [c \in 0..Cols-1 |-> ShownAt(r, c)]] = Cells(fb)
               /\ [r \in 0..Rows-1 |-> [c \in 0..Cols-1 |-> ShownAt(r, c)]]' = Cells(fb')
               /\ [i \in {a \in Address : a >= ScreenEnd} |-> fb[i]] = Strip(fb)
               /\ [i \in {a \in Address : a >= ScreenEnd} |-> fb[i]]' = Strip(fb')
BY DEF Cells, Strip, Shown, ShownAt, ByteAt, Lines, Bytes

LEMMA TerminalOn ==
  /\ T!Init <=> Cells(fb) = T!Clear /\ conx = 0 /\ cony = 0
  /\ T!Return <=> conx' = 0 /\ cony' = cony /\ Cells(fb') = Cells(fb) /\ Strip(fb') = Strip(fb)
  /\ T!Backspace <=> /\ conx > 0 /\ conx' = conx - 1 /\ cony' = cony
                     /\ Cells(fb') = Cells(fb) /\ Strip(fb') = Strip(fb)
  /\ \A g : T!NextLine(g) <=>
       /\ conx' = 0
       /\ IF cony + 1 < Rows THEN cony' = cony + 1 /\ Cells(fb') = g
                             ELSE cony' = cony /\ Cells(fb') = T!MovedUp(g)
  /\ T!LineFeed <=> T!NextLine(Cells(fb)) /\ Strip(fb') = Strip(fb)
  /\ \A ch : T!Put(ch) <=>
       /\ IF conx + 1 < Cols
            THEN conx' = conx + 1 /\ Cells(fb') = [Cells(fb) EXCEPT ![cony][conx] = ch] /\ cony' = cony
            ELSE T!NextLine([Cells(fb) EXCEPT ![cony][conx] = ch])
       /\ Strip(fb') = Strip(fb)
  /\ T!Wipe <=> Cells(fb') = T!Clear /\ conx' = 0 /\ cony' = 0
  /\ T!Draw <=> Cells(fb') = Cells(fb) /\ conx' = conx /\ cony' = cony
<1>1. T!Init <=> Cells(fb) = T!Clear /\ conx = 0 /\ cony = 0
  BY Glass DEF T!Init
<1>2. T!Return <=> conx' = 0 /\ cony' = cony /\ Cells(fb') = Cells(fb) /\ Strip(fb') = Strip(fb)
  BY Glass DEF T!Return
<1>3. T!Backspace <=> /\ conx > 0 /\ conx' = conx - 1 /\ cony' = cony
                     /\ Cells(fb') = Cells(fb) /\ Strip(fb') = Strip(fb)
  BY Glass DEF T!Backspace
<1>4. ASSUME NEW g PROVE T!NextLine(g) <=>
       /\ conx' = 0
       /\ IF cony + 1 < Rows THEN cony' = cony + 1 /\ Cells(fb') = g
                             ELSE cony' = cony /\ Cells(fb') = T!MovedUp(g)
  BY Glass DEF T!NextLine
<1>5. T!LineFeed <=> T!NextLine(Cells(fb)) /\ Strip(fb') = Strip(fb)
  BY Glass DEF T!LineFeed
<1>6. ASSUME NEW ch PROVE T!Put(ch) <=>
       /\ IF conx + 1 < Cols
            THEN conx' = conx + 1 /\ Cells(fb') = [Cells(fb) EXCEPT ![cony][conx] = ch] /\ cony' = cony
            ELSE T!NextLine([Cells(fb) EXCEPT ![cony][conx] = ch])
       /\ Strip(fb') = Strip(fb)
  BY Glass DEF T!Put
<1>7. T!Wipe <=> Cells(fb') = T!Clear /\ conx' = 0 /\ cony' = 0
  BY Glass DEF T!Wipe
<1>8. T!Draw <=> Cells(fb') = Cells(fb) /\ conx' = conx /\ cony' = cony
  BY Glass DEF T!Draw
<1> QED BY <1>1, <1>2, <1>3, <1>4, <1>5, <1>6, <1>7, <1>8


(* A line that ends, with a frame buffer f, ends on the terminal f shows. *)
LEMMA LineEnds ==
  ASSUME CursorOnGlass, NEW f, NewLine(f)
  PROVE  T!NextLine(Cells(f)) /\ Strip(fb') = Strip(f)
<1>1. cony \in 0..Rows-1 /\ Rows \in Nat
  BY SizesAssumption DEF CursorOnGlass
<1>2. CASE cony + 1 < Rows
  BY <1>2, TerminalOn DEF NewLine
<1>3. CASE ~(cony + 1 < Rows)
  <2>1. conx' = 0 /\ cony' = Rows - 1 /\ fb' = Scrolled(f)
    BY <1>3 DEF NewLine
  <2>2. cony' = cony
    BY <1>1, <1>3, <2>1
  <2>3. Cells(fb') = T!MovedUp(Cells(f)) /\ Strip(fb') = Strip(f)
    BY <2>1, ScrolledUp
  <2> QED BY <1>3, <2>1, <2>2, <2>3, TerminalOn
<1> QED BY <1>2, <1>3

(* Every step of the machine is a step of the terminal, or none.             *)
LEMMA TerminalStep == CursorOnGlass /\ [Next]_screen => [T!Next]_(T!vars)
<1> SUFFICES ASSUME CursorOnGlass, [Next]_screen PROVE [T!Next]_(T!vars)
  OBVIOUS
<1>1. ASSUME NEW ch \in Chars, Put(ch) PROVE T!Next
  <2>1. /\ Cells(WithGlyph(ch)) = [Cells(fb) EXCEPT ![cony][conx] = ch]
        /\ Strip(WithGlyph(ch)) = Strip(fb)
    BY GlyphPut
  <2>2. CASE conx + 1 < Cols
    <3>1. conx' = conx + 1 /\ fb' = WithGlyph(ch) /\ cony' = cony
      BY <1>1, <2>2 DEF Put
    <3>2. T!Put(ch)
      BY <2>1, <2>2, <3>1, TerminalOn
    <3> QED BY <3>2 DEF T!Next
  <2>3. CASE ~(conx + 1 < Cols)
    <3>1. NewLine(WithGlyph(ch))
      BY <1>1, <2>3 DEF Put
    <3>2. T!NextLine([Cells(fb) EXCEPT ![cony][conx] = ch]) /\ Strip(fb') = Strip(fb)
      BY <2>1, <3>1, LineEnds
    <3>3. T!Put(ch)
      BY <2>3, <3>2, TerminalOn
    <3> QED BY <3>3 DEF T!Next
  <2> QED BY <2>2, <2>3
<1>2. CASE LineFeed
  <2>1. T!NextLine(Cells(fb)) /\ Strip(fb') = Strip(fb)
    BY <1>2, LineEnds DEF LineFeed
  <2> QED BY <2>1, TerminalOn DEF T!Next
<1>3. CASE CarriageReturn
  BY <1>3, TerminalOn DEF CarriageReturn, T!Next
<1>4. CASE Backspace
  BY <1>4, TerminalOn DEF Backspace, T!Next
<1>5. CASE Writes8000
  BY <1>1, <1>2, <1>3, <1>4, <1>5 DEF Writes8000, console_glyph
<1>6. CASE Draws
  <2>1. fb' = [i \in Address |-> IF i >= ScreenEnd THEN Drawn ELSE fb[i]] /\ conx' = conx /\ cony' = cony
    BY <1>6 DEF Draws, DrawBelow
  <2>2. Cells(fb') = Cells(fb)
    BY <2>1, BelowDrawn
  <2> QED BY <2>1, <2>2, TerminalOn DEF T!Next
<1>7. CASE hold_lines
  <2>1. fb' = [i \in Address |-> Paper] /\ conx' = 0 /\ cony' = 0
    BY <1>7 DEF hold_lines, ClearGlass
  <2>2. Cells(fb') = T!Clear
    BY <2>1, PaperGlass
  <2> QED BY <2>1, <2>2, TerminalOn DEF T!Next
<1>8. CASE UNCHANGED vars
  <2>1. fb' = fb /\ conx' = conx /\ cony' = cony
    BY <1>8 DEF vars
  <2> QED BY <2>1, Glass DEF T!vars
<1>9. CASE DeclareEntry \/ (\E i \in Index : SetsIndex(i)) \/ GivesComponent \/ UNCHANGED screen
  BY <1>8, <1>9 DEF DeclareEntry, SetsIndex, GivesComponent, screen
<1> QED BY <1>5, <1>6, <1>7, <1>8, <1>9 DEF Next

(* The bytes of the frame buffer show the terminal that was promised, on a   *)
(* glass of any size and with glyphs of any size: none is torn, written over *)
(* its neighbour, lost in a scroll or left behind by one (console_glyph, the *)
(* wipe of hold_lines).                                                      *)
THEOREM ScreenIsTerminal == Spec => IsTerminal
<1>1. ScreenInit => T!Init
  BY PaperGlass, TerminalOn DEF ScreenInit, Init
<1>2. CursorOnGlass /\ [Next]_screen => [T!Next]_(T!vars)
  BY TerminalStep
<1> QED BY <1>1, <1>2, CursorStaysOnGlass, PTL DEF Spec, IsTerminal, T!Spec

-----------------------------------------------------------------------------
(* Two entries with no byte and access in common. *)
Apart(e, f) == \/ ~Leq(e.from, f.to) \/ ~Leq(f.from, e.to)
               \/ e.lanes \cap f.lanes = {} \/ e.dirs \cap f.dirs = {}

Distinct(entries) == \A i, j \in DOMAIN entries : i < j => Apart(entries[i], entries[j])

(* Entries whose addresses lie in the pages lo to hi. *)
Within(entries, lo, hi) ==
  \A i \in DOMAIN entries : /\ entries[i].from \in Nat \X Nat /\ entries[i].to \in Nat \X Nat
                            /\ lo <= entries[i].from[1] /\ entries[i].to[1] <= hi

(* In each group of the maps the entries keep apart, and the groups of the   *)
(* memory map follow each other (mem_map, io_map, atblock_r).                *)
LEMMA BoardRegistersApart == Distinct(BoardRegisters) /\ Within(BoardRegisters, 0, \ha01f)
<1> USE DEF BoardRegisters, Entry, Both, Port, Reads, Writes, AllLanes
<1>1. Distinct(BoardRegisters) BY SMTT(60) DEF Leq, Apart, Distinct
<1>2. Within(BoardRegisters, 0, \ha01f) BY SMTT(60) DEF Within
<1> QED BY <1>1, <1>2

LEMMA FrameBuffersApart == Distinct(FrameBuffers) /\ Within(FrameBuffers, \ha020, \ha07f)
<1> USE DEF FrameBuffers, Entry, Both, Port, Reads, Writes, AllLanes
<1>1. Distinct(FrameBuffers) BY SMTT(60) DEF Leq, Apart, Distinct
<1>2. Within(FrameBuffers, \ha020, \ha07f) BY SMTT(60) DEF Within
<1> QED BY <1>1, <1>2

LEMMA SlotsApart == Distinct(Slots) /\ Within(Slots, \hb000, \hf900)
<1> USE DEF Slots, Entry, Both, Port, Reads, Writes, AllLanes
<1>1. Distinct(Slots) BY SMTT(60) DEF Leq, Apart, Distinct
<1>2. Within(Slots, \hb000, \hf900) BY SMTT(60) DEF Within
<1> QED BY <1>1, <1>2

LEMMA OnBoardApart == Distinct(OnBoard) /\ Within(OnBoard, \hfb00, \hffff)
<1> USE DEF OnBoard, Entry, Both, Port, Reads, Writes, AllLanes
<1>1. Distinct(OnBoard) BY SMTT(60) DEF Leq, Apart, Distinct
<1>2. Within(OnBoard, \hfb00, \hffff) BY SMTT(60) DEF Within
<1> QED BY <1>1, <1>2

LEMMA PortsApart == Distinct(io_map) /\ Within(io_map, 0, 0)
<1> USE DEF io_map, Lane, Entry, Both, Port, Reads, Writes, AllLanes
<1>1. Distinct(io_map) BY SMTT(60) DEF Leq, Apart, Distinct
<1>2. Within(io_map, 0, 0) BY SMTT(60) DEF Within
<1> QED BY <1>1, <1>2

LEMMA OffsetsApart == Distinct(atblock) /\ Within(atblock, 0, 0)
<1> USE DEF atblock, Offsets, Entry, Both, Port, Reads, Writes, AllLanes
<1>1. Distinct(atblock) BY SMTT(60) DEF Leq, Apart, Distinct
<1>2. Within(atblock, 0, 0) BY SMTT(60) DEF Within
<1> QED BY <1>1, <1>2

LEMMA PagesApart ==
  ASSUME NEW s, NEW t, NEW lo \in Nat, NEW hi \in Nat, NEW lo2 \in Nat, NEW hi2 \in Nat,
         Within(s, lo, hi), Within(t, lo2, hi2), hi < lo2
  PROVE  \A k \in DOMAIN s, l \in DOMAIN t : Apart(s[k], t[l])
<1> TAKE k \in DOMAIN s, l \in DOMAIN t
<1> DEFINE e == s[k]
           f == t[l]
<1>1. e.to \in Nat \X Nat /\ f.from \in Nat \X Nat /\ e.to[1] <= hi /\ lo2 <= f.from[1]
  BY DEF Within
<1>2. e.to[1] \in Nat /\ f.from[1] \in Nat
  BY <1>1
<1>3. ~Leq(f.from, e.to)
  BY <1>1, <1>2 DEF Leq
<1> QED BY <1>3 DEF Apart

(* Where an entry of a group is in the sequence of all declarations. *)
LEMMA Declared ==
  /\ DOMAIN map = 1..59 /\ Len(map) = 59
  /\ \A i \in 1..11 : map[i] = [space |-> "mem", range |-> BoardRegisters[i]]
  /\ \A i \in 1..5  : map[11 + i] = [space |-> "mem", range |-> FrameBuffers[i]]
  /\ \A i \in 1..10 : map[16 + i] = [space |-> "mem", range |-> Slots[i]]
  /\ \A i \in 1..11 : map[26 + i] = [space |-> "mem", range |-> OnBoard[i]]
  /\ \A i \in 1..13 : map[37 + i] = [space |-> "io", range |-> io_map[i]]
  /\ \A i \in 1..9  : map[50 + i] = [space |-> "at", range |-> atblock[i]]
  /\ DOMAIN BoardRegisters = 1..11 /\ DOMAIN FrameBuffers = 1..5 /\ DOMAIN Slots = 1..10
  /\ DOMAIN OnBoard = 1..11 /\ DOMAIN io_map = 1..13 /\ DOMAIN atblock = 1..9
BY DEF map, In, mem_map, io_map, atblock, BoardRegisters, FrameBuffers, Slots, OnBoard

LEMMA Places ==
  ASSUME NEW n \in 1..59
  PROVE  \/ n \in 1..11 /\ map[n].space = "mem"
             /\ \E k \in DOMAIN BoardRegisters : k = n /\ map[n].range = BoardRegisters[k]
         \/ n \in 12..16 /\ map[n].space = "mem"
             /\ \E k \in DOMAIN FrameBuffers : k = n - 11 /\ map[n].range = FrameBuffers[k]
         \/ n \in 17..26 /\ map[n].space = "mem"
             /\ \E k \in DOMAIN Slots : k = n - 16 /\ map[n].range = Slots[k]
         \/ n \in 27..37 /\ map[n].space = "mem"
             /\ \E k \in DOMAIN OnBoard : k = n - 26 /\ map[n].range = OnBoard[k]
         \/ n \in 38..50 /\ map[n].space = "io"
             /\ \E k \in DOMAIN io_map : k = n - 37 /\ map[n].range = io_map[k]
         \/ n \in 51..59 /\ map[n].space = "at"
             /\ \E k \in DOMAIN atblock : k = n - 50 /\ map[n].range = atblock[k]
<1>1. CASE n \in 1..11
  <2>1. map[n] = [space |-> "mem", range |-> BoardRegisters[n]]
    BY <1>1, Declared
  <2> QED BY <1>1, <2>1, Declared
<1>2. CASE n \in 12..16
  <2>1. n - 11 \in 1..5 /\ map[11 + (n - 11)] = [space |-> "mem", range |-> FrameBuffers[n - 11]]
    BY <1>2, Declared
  <2> QED BY <1>2, <2>1, Declared
<1>3. CASE n \in 17..26
  <2>1. n - 16 \in 1..10 /\ map[16 + (n - 16)] = [space |-> "mem", range |-> Slots[n - 16]]
    BY <1>3, Declared
  <2> QED BY <1>3, <2>1, Declared
<1>4. CASE n \in 27..37
  <2>1. n - 26 \in 1..11 /\ map[26 + (n - 26)] = [space |-> "mem", range |-> OnBoard[n - 26]]
    BY <1>4, Declared
  <2> QED BY <1>4, <2>1, Declared
<1>5. CASE n \in 38..50
  <2>1. n - 37 \in 1..13 /\ map[37 + (n - 37)] = [space |-> "io", range |-> io_map[n - 37]]
    BY <1>5, Declared
  <2> QED BY <1>5, <2>1, Declared
<1>6. CASE n \in 51..59
  <2>1. n - 50 \in 1..9 /\ map[50 + (n - 50)] = [space |-> "at", range |-> atblock[n - 50]]
    BY <1>6, Declared
  <2> QED BY <1>6, <2>1, Declared
<1> QED BY <1>1, <1>2, <1>3, <1>4, <1>5, <1>6

LEMMA Spaces ==
  ASSUME NEW n \in 1..59
  PROVE  \/ n \in 1..37 /\ map[n].space = "mem"
         \/ n \in 38..50 /\ map[n].space = "io"
         \/ n \in 51..59 /\ map[n].space = "at"
<1>1. CASE n \in 1..11  BY <1>1, Places
<1>2. CASE n \in 12..16 BY <1>2, Places
<1>3. CASE n \in 17..26 BY <1>3, Places
<1>4. CASE n \in 27..37 BY <1>4, Places
<1>5. CASE n \in 38..50 BY <1>5, Places
<1>6. CASE n \in 51..59 BY <1>6, Places
<1> QED BY <1>1, <1>2, <1>3, <1>4, <1>5, <1>6

LEMMA Shapes ==
  ASSUME NEW n \in 1..59
  PROVE  map[n].range.from \in Nat \X Nat /\ map[n].range.to \in Nat \X Nat
<1> USE DEF Within
<1>1. CASE n \in 1..11  BY <1>1, Places, BoardRegistersApart
<1>2. CASE n \in 12..16 BY <1>2, Places, FrameBuffersApart
<1>3. CASE n \in 17..26 BY <1>3, Places, SlotsApart
<1>4. CASE n \in 27..37 BY <1>4, Places, OnBoardApart
<1>5. CASE n \in 38..50 BY <1>5, Places, PortsApart
<1>6. CASE n \in 51..59 BY <1>6, Places, OffsetsApart
<1> QED BY <1>1, <1>2, <1>3, <1>4, <1>5, <1>6

(* No two declarations name the same byte for the same kind of access. *)
LEMMA NoOverlap == \A i, j \in 1..59 : i < j => ~Overlap(i, j)
<1> SUFFICES ASSUME NEW i \in 1..59, NEW j \in 1..59, i < j, map[i].space = map[j].space
             PROVE  Apart(map[i].range, map[j].range)
  BY DEF Overlap, Apart
<1>1. /\ Distinct(BoardRegisters) /\ Distinct(FrameBuffers) /\ Distinct(Slots)
      /\ Distinct(OnBoard) /\ Distinct(io_map) /\ Distinct(atblock)
  BY BoardRegistersApart, FrameBuffersApart, SlotsApart, OnBoardApart, PortsApart, OffsetsApart
<1>2. /\ i \in 1..37 => j \in 1..37
      /\ i \in 38..50 => j \in 38..50
  <2> DEFINE s == map[i].space
             t == map[j].space
  <2>1. \/ i \in 1..37 /\ s = "mem"
        \/ i \in 38..50 /\ s = "io"
        \/ i \in 51..59 /\ s = "at"
    BY Spaces
  <2>2. \/ j \in 1..37 /\ t = "mem"
        \/ j \in 38..50 /\ t = "io"
        \/ j \in 51..59 /\ t = "at"
    BY Spaces
  <2>3. s = t
    OBVIOUS
  <2> HIDE DEF s, t
  <2> QED BY <2>1, <2>2, <2>3
<1>3. CASE i \in 1..11
  <2>1. \A k \in DOMAIN BoardRegisters, l \in DOMAIN FrameBuffers : Apart(BoardRegisters[k], FrameBuffers[l])
    BY PagesApart, BoardRegistersApart, FrameBuffersApart
  <2>2. \A k \in DOMAIN BoardRegisters, l \in DOMAIN Slots : Apart(BoardRegisters[k], Slots[l])
    BY PagesApart, BoardRegistersApart, SlotsApart
  <2>3. \A k \in DOMAIN BoardRegisters, l \in DOMAIN OnBoard : Apart(BoardRegisters[k], OnBoard[l])
    BY PagesApart, BoardRegistersApart, OnBoardApart
  <2>4. PICK k \in DOMAIN BoardRegisters : k = i /\ map[i].range = BoardRegisters[k]
    BY <1>3, Places
  <2>5. CASE j \in 1..11
    <3>1. PICK l \in DOMAIN BoardRegisters : l = j /\ map[j].range = BoardRegisters[l]
      BY <2>5, Places
    <3> QED BY <1>1, <2>4, <3>1 DEF Distinct
  <2>6. CASE j \in 12..16
    BY <2>1, <2>4, <2>6, Places
  <2>7. CASE j \in 17..26
    BY <2>2, <2>4, <2>7, Places
  <2>8. CASE j \in 27..37
    BY <2>3, <2>4, <2>8, Places
  <2> QED BY <1>2, <1>3, <2>5, <2>6, <2>7, <2>8
<1>4. CASE i \in 12..16
  <2>1. \A k \in DOMAIN FrameBuffers, l \in DOMAIN Slots : Apart(FrameBuffers[k], Slots[l])
    BY PagesApart, FrameBuffersApart, SlotsApart
  <2>2. \A k \in DOMAIN FrameBuffers, l \in DOMAIN OnBoard : Apart(FrameBuffers[k], OnBoard[l])
    BY PagesApart, FrameBuffersApart, OnBoardApart
  <2>3. PICK k \in DOMAIN FrameBuffers : k = i - 11 /\ map[i].range = FrameBuffers[k]
    BY <1>4, Places
  <2>4. CASE j \in 12..16
    <3>1. PICK l \in DOMAIN FrameBuffers : l = j - 11 /\ map[j].range = FrameBuffers[l]
      BY <2>4, Places
    <3> QED BY <1>1, <2>3, <3>1 DEF Distinct
  <2>5. CASE j \in 17..26
    BY <2>1, <2>3, <2>5, Places
  <2>6. CASE j \in 27..37
    BY <2>2, <2>3, <2>6, Places
  <2> QED BY <1>2, <1>4, <2>4, <2>5, <2>6
<1>5. CASE i \in 17..26
  <2>1. \A k \in DOMAIN Slots, l \in DOMAIN OnBoard : Apart(Slots[k], OnBoard[l])
    BY PagesApart, SlotsApart, OnBoardApart
  <2>2. PICK k \in DOMAIN Slots : k = i - 16 /\ map[i].range = Slots[k]
    BY <1>5, Places
  <2>3. CASE j \in 17..26
    <3>1. PICK l \in DOMAIN Slots : l = j - 16 /\ map[j].range = Slots[l]
      BY <2>3, Places
    <3> QED BY <1>1, <2>2, <3>1 DEF Distinct
  <2>4. CASE j \in 27..37
    BY <2>1, <2>2, <2>4, Places
  <2> QED BY <1>2, <1>5, <2>3, <2>4
<1>6. CASE i \in 27..37
  <2>1. PICK k \in DOMAIN OnBoard : k = i - 26 /\ map[i].range = OnBoard[k]
    BY <1>6, Places
  <2>2. j \in 27..37
    BY <1>2, <1>6
  <2>3. PICK l \in DOMAIN OnBoard : l = j - 26 /\ map[j].range = OnBoard[l]
    BY <2>2, Places
  <2> QED BY <1>1, <2>1, <2>3 DEF Distinct
<1>7. CASE i \in 38..50
  <2>1. PICK k \in DOMAIN io_map : k = i - 37 /\ map[i].range = io_map[k]
    BY <1>7, Places
  <2>2. PICK l \in DOMAIN io_map : l = j - 37 /\ map[j].range = io_map[l]
    BY <1>2, <1>7, Places
  <2> QED BY <1>1, <2>1, <2>2 DEF Distinct
<1>8. CASE i \in 51..59
  <2>1. PICK k \in DOMAIN atblock : k = i - 50 /\ map[i].range = atblock[k]
    BY <1>8, Places
  <2>2. PICK l \in DOMAIN atblock : l = j - 50 /\ map[j].range = atblock[l]
    BY <1>8, Places
  <2> QED BY <1>1, <2>1, <2>2 DEF Distinct
<1> QED BY <1>3, <1>4, <1>5, <1>6, <1>7, <1>8

(* An entry that covers a byte is the only one that does, and answers.       *)
LEMMA Sole ==
  ASSUME NEW i \in 1..59, NEW a \in Nat \X Nat, NEW dir, Covers(map[i].range, a, dir)
  PROVE  Answers(map[i].space, a, dir) = map[i].range.who
<1> DEFINE space == map[i].space
           covering == {j \in DOMAIN map : map[j].space = space /\ Covers(map[j].range, a, dir)}
<1>1. ASSUME NEW j \in 1..59, map[j].space = space, Covers(map[j].range, a, dir)
      PROVE  j = i
  <2>1. ASSUME NEW e, NEW f, e.from \in Nat \X Nat, f.to \in Nat \X Nat,
               Leq(e.from, a), Leq(a, f.to)
        PROVE  Leq(e.from, f.to)
    <3>1. /\ e.from[1] \in Nat /\ e.from[2] \in Nat /\ f.to[1] \in Nat /\ f.to[2] \in Nat
          /\ a[1] \in Nat /\ a[2] \in Nat
      BY <2>1
    <3> QED BY <2>1, <3>1 DEF Leq
  <2>2. \A n \in 1..59 : map[n].range.from \in Nat \X Nat /\ map[n].range.to \in Nat \X Nat
    BY Shapes
  <2>3. Leq(map[i].range.from, map[j].range.to) /\ Leq(map[j].range.from, map[i].range.to)
    BY <1>1, <2>1, <2>2 DEF Covers
  <2>4. Overlap(i, j) /\ Overlap(j, i)
    BY <1>1, <2>3 DEF Covers, Overlap
  <2> QED BY <2>4, NoOverlap
<1>2. covering = {i}
  BY <1>1, Declared
<1>3. Min({i}) = i /\ Max({i}) = i
  BY DEF Min, Max
<1>4. Answers(space, a, dir) = map[IF space = "at" THEN Min(covering) ELSE Max(covering)].range.who
  BY <1>2 DEF Answers
<1> QED BY <1>2, <1>3, <1>4

(* Every device answers where the kernel looks for it: its entry covers the  *)
(* byte, on its lane and for that kind of access, and is the only one.       *)
LEMMA EveryDeviceAnswers == Misplaced = {}
<1>1. /\ Answers("mem", <<0, 0>>, "r") = "ram"
      /\ Answers("mem", <<\h007f, \hffff>>, "w") = "ram"
      /\ Answers("mem", Cg3Index, "w") = "cg3_index"
      /\ Answers("mem", Cg3Colour, "w") = "cg3_colour"
      /\ Answers("mem", <<\ha000, \h20>>, "r") = "zs1_B_control"
      /\ Answers("mem", <<\ha000, \h24>>, "r") = "zs1_B_data"
      /\ Answers("mem", <<\ha000, \h28>>, "r") = "zs1_A_control"
      /\ Answers("mem", <<\ha000, \h2c>>, "r") = "zs1_A_data"
  <2> USE DEF Cg3Index, Cg3Colour
  <2>1. ASSUME NEW k \in DOMAIN BoardRegisters, NEW a \in Nat \X Nat, NEW dir,
               Covers(BoardRegisters[k], a, dir)
        PROVE  Answers("mem", a, dir) = BoardRegisters[k].who
    <3>1. k \in 1..59 /\ map[k].space = "mem" /\ map[k].range = BoardRegisters[k]
      BY Declared
    <3> QED BY <2>1, <3>1, Sole
  <2>2. Answers("mem", <<0, 0>>, "r") = "ram"
    <3>1. Covers(BoardRegisters[1], <<0, 0>>, "r") /\ BoardRegisters[1].who = "ram"
      BY DEF BoardRegisters, Entry, Both, Port, Reads, Writes, AllLanes, Lane, Offsets, Covers, Leq
    <3> QED BY <2>1, <3>1, Declared
  <2>3. Answers("mem", <<\h007f, \hffff>>, "w") = "ram"
    <3>1. Covers(BoardRegisters[1], <<\h007f, \hffff>>, "w") /\ BoardRegisters[1].who = "ram"
      BY DEF BoardRegisters, Entry, Both, Port, Reads, Writes, AllLanes, Lane, Offsets, Covers, Leq
    <3> QED BY <2>1, <3>1, Declared
  <2>4. Answers("mem", Cg3Index, "w") = "cg3_index"
    <3>1. Covers(BoardRegisters[3], Cg3Index, "w") /\ BoardRegisters[3].who = "cg3_index"
      BY DEF BoardRegisters, Entry, Both, Port, Reads, Writes, AllLanes, Lane, Offsets, Covers, Leq
    <3> QED BY <2>1, <3>1, Declared
  <2>5. Answers("mem", Cg3Colour, "w") = "cg3_colour"
    <3>1. Covers(BoardRegisters[4], Cg3Colour, "w") /\ BoardRegisters[4].who = "cg3_colour"
      BY DEF BoardRegisters, Entry, Both, Port, Reads, Writes, AllLanes, Lane, Offsets, Covers, Leq
    <3> QED BY <2>1, <3>1, Declared
  <2>6. Answers("mem", <<\ha000, \h20>>, "r") = "zs1_B_control"
    <3>1. Covers(BoardRegisters[7], <<\ha000, \h20>>, "r") /\ BoardRegisters[7].who = "zs1_B_control"
      BY DEF BoardRegisters, Entry, Both, Port, Reads, Writes, AllLanes, Lane, Offsets, Covers, Leq
    <3> QED BY <2>1, <3>1, Declared
  <2>7. Answers("mem", <<\ha000, \h24>>, "r") = "zs1_B_data"
    <3>1. Covers(BoardRegisters[8], <<\ha000, \h24>>, "r") /\ BoardRegisters[8].who = "zs1_B_data"
      BY DEF BoardRegisters, Entry, Both, Port, Reads, Writes, AllLanes, Lane, Offsets, Covers, Leq
    <3> QED BY <2>1, <3>1, Declared
  <2>8. Answers("mem", <<\ha000, \h28>>, "r") = "zs1_A_control"
    <3>1. Covers(BoardRegisters[9], <<\ha000, \h28>>, "r") /\ BoardRegisters[9].who = "zs1_A_control"
      BY DEF BoardRegisters, Entry, Both, Port, Reads, Writes, AllLanes, Lane, Offsets, Covers, Leq
    <3> QED BY <2>1, <3>1, Declared
  <2>9. Answers("mem", <<\ha000, \h2c>>, "r") = "zs1_A_data"
    <3>1. Covers(BoardRegisters[10], <<\ha000, \h2c>>, "r") /\ BoardRegisters[10].who = "zs1_A_data"
      BY DEF BoardRegisters, Entry, Both, Port, Reads, Writes, AllLanes, Lane, Offsets, Covers, Leq
    <3> QED BY <2>1, <3>1, Declared
  <2> QED BY <2>2, <2>3, <2>4, <2>5, <2>6, <2>7, <2>8, <2>9
<1>2. /\ Answers("mem", <<\ha020, 0>>, "w") = "vram"
      /\ Answers("mem", <<\ha021, \hfa3f>>, "w") = "vram"
      /\ Answers("mem", <<\ha040, 0>>, "w") = "cvram"
      /\ Answers("mem", <<\ha04f, \hd1ff>>, "w") = "cvram"
  <2> USE DEF Cg3Index, Cg3Colour
  <2>1. ASSUME NEW k \in DOMAIN FrameBuffers, NEW a \in Nat \X Nat, NEW dir,
               Covers(FrameBuffers[k], a, dir)
        PROVE  Answers("mem", a, dir) = FrameBuffers[k].who
    <3>1. 11 + k \in 1..59 /\ map[11 + k].space = "mem" /\ map[11 + k].range = FrameBuffers[k]
      BY Declared
    <3> QED BY <2>1, <3>1, Sole
  <2>2. Answers("mem", <<\ha020, 0>>, "w") = "vram"
    <3>1. Covers(FrameBuffers[1], <<\ha020, 0>>, "w") /\ FrameBuffers[1].who = "vram"
      BY DEF FrameBuffers, Entry, Both, Port, Reads, Writes, AllLanes, Lane, Offsets, Covers, Leq
    <3> QED BY <2>1, <3>1, Declared
  <2>3. Answers("mem", <<\ha021, \hfa3f>>, "w") = "vram"
    <3>1. Covers(FrameBuffers[1], <<\ha021, \hfa3f>>, "w") /\ FrameBuffers[1].who = "vram"
      BY DEF FrameBuffers, Entry, Both, Port, Reads, Writes, AllLanes, Lane, Offsets, Covers, Leq
    <3> QED BY <2>1, <3>1, Declared
  <2>4. Answers("mem", <<\ha040, 0>>, "w") = "cvram"
    <3>1. Covers(FrameBuffers[5], <<\ha040, 0>>, "w") /\ FrameBuffers[5].who = "cvram"
      BY DEF FrameBuffers, Entry, Both, Port, Reads, Writes, AllLanes, Lane, Offsets, Covers, Leq
    <3> QED BY <2>1, <3>1, Declared
  <2>5. Answers("mem", <<\ha04f, \hd1ff>>, "w") = "cvram"
    <3>1. Covers(FrameBuffers[5], <<\ha04f, \hd1ff>>, "w") /\ FrameBuffers[5].who = "cvram"
      BY DEF FrameBuffers, Entry, Both, Port, Reads, Writes, AllLanes, Lane, Offsets, Covers, Leq
    <3> QED BY <2>1, <3>1, Declared
  <2> QED BY <2>2, <2>3, <2>4, <2>5
<1>3. /\ Answers("mem", <<\hb000, 0>>, "w") = "AT_block"
      /\ Answers("mem", <<\hc000, 0>>, "w") = "stub"
      /\ Answers("mem", <<\hd000, 0>>, "w") = "stub"
      /\ Answers("mem", <<\hf000, 0>>, "r") = "slot"
      /\ Answers("mem", <<\hf600, 0>>, "r") = "slot"
      /\ Answers("mem", <<\hf700, 0>>, "r") = "board_id"
      /\ Answers("mem", <<\hf800, 0>>, "r") = "enable"
      /\ Answers("mem", <<\hf900, 0>>, "w") = "led"
  <2> USE DEF Cg3Index, Cg3Colour
  <2>1. ASSUME NEW k \in DOMAIN Slots, NEW a \in Nat \X Nat, NEW dir,
               Covers(Slots[k], a, dir)
        PROVE  Answers("mem", a, dir) = Slots[k].who
    <3>1. 16 + k \in 1..59 /\ map[16 + k].space = "mem" /\ map[16 + k].range = Slots[k]
      BY Declared
    <3> QED BY <2>1, <3>1, Sole
  <2>2. Answers("mem", <<\hb000, 0>>, "w") = "AT_block"
    <3>1. Covers(Slots[1], <<\hb000, 0>>, "w") /\ Slots[1].who = "AT_block"
      BY DEF Slots, Entry, Both, Port, Reads, Writes, AllLanes, Lane, Offsets, Covers, Leq
    <3> QED BY <2>1, <3>1, Declared
  <2>3. Answers("mem", <<\hc000, 0>>, "w") = "stub"
    <3>1. Covers(Slots[2], <<\hc000, 0>>, "w") /\ Slots[2].who = "stub"
      BY DEF Slots, Entry, Both, Port, Reads, Writes, AllLanes, Lane, Offsets, Covers, Leq
    <3> QED BY <2>1, <3>1, Declared
  <2>4. Answers("mem", <<\hd000, 0>>, "w") = "stub"
    <3>1. Covers(Slots[3], <<\hd000, 0>>, "w") /\ Slots[3].who = "stub"
      BY DEF Slots, Entry, Both, Port, Reads, Writes, AllLanes, Lane, Offsets, Covers, Leq
    <3> QED BY <2>1, <3>1, Declared
  <2>5. Answers("mem", <<\hf000, 0>>, "r") = "slot"
    <3>1. Covers(Slots[4], <<\hf000, 0>>, "r") /\ Slots[4].who = "slot"
      BY DEF Slots, Entry, Both, Port, Reads, Writes, AllLanes, Lane, Offsets, Covers, Leq
    <3> QED BY <2>1, <3>1, Declared
  <2>6. Answers("mem", <<\hf600, 0>>, "r") = "slot"
    <3>1. Covers(Slots[7], <<\hf600, 0>>, "r") /\ Slots[7].who = "slot"
      BY DEF Slots, Entry, Both, Port, Reads, Writes, AllLanes, Lane, Offsets, Covers, Leq
    <3> QED BY <2>1, <3>1, Declared
  <2>7. Answers("mem", <<\hf700, 0>>, "r") = "board_id"
    <3>1. Covers(Slots[8], <<\hf700, 0>>, "r") /\ Slots[8].who = "board_id"
      BY DEF Slots, Entry, Both, Port, Reads, Writes, AllLanes, Lane, Offsets, Covers, Leq
    <3> QED BY <2>1, <3>1, Declared
  <2>8. Answers("mem", <<\hf800, 0>>, "r") = "enable"
    <3>1. Covers(Slots[9], <<\hf800, 0>>, "r") /\ Slots[9].who = "enable"
      BY DEF Slots, Entry, Both, Port, Reads, Writes, AllLanes, Lane, Offsets, Covers, Leq
    <3> QED BY <2>1, <3>1, Declared
  <2>9. Answers("mem", <<\hf900, 0>>, "w") = "led"
    <3>1. Covers(Slots[10], <<\hf900, 0>>, "w") /\ Slots[10].who = "led"
      BY DEF Slots, Entry, Both, Port, Reads, Writes, AllLanes, Lane, Offsets, Covers, Leq
    <3> QED BY <2>1, <3>1, Declared
  <2> QED BY <2>2, <2>3, <2>4, <2>5, <2>6, <2>7, <2>8, <2>9
<1>4. /\ Answers("mem", <<\hfb00, 0>>, "r") = "wds_status"
      /\ Answers("mem", <<\hfb00, 0>>, "w") = "wds_address"
      /\ Answers("mem", <<\hfb00, 4>>, "w") = "wds_register"
      /\ Answers("mem", <<\hfc00, 0>>, "r") = "zs0_B_control"
      /\ Answers("mem", <<\hfc00, 4>>, "r") = "zs0_B_data"
      /\ Answers("mem", <<\hfc00, 8>>, "r") = "zs0_A_control"
      /\ Answers("mem", <<\hfc00, 12>>, "r") = "zs0_A_data"
      /\ Answers("mem", <<\hfd00, 0>>, "r") = "timekeeper"
      /\ Answers("mem", <<\hfe00, 0>>, "r") = "idprom"
      /\ Answers("mem", <<\hfffe, 0>>, "r") = "prom"
  <2> USE DEF Cg3Index, Cg3Colour
  <2>1. ASSUME NEW k \in DOMAIN OnBoard, NEW a \in Nat \X Nat, NEW dir,
               Covers(OnBoard[k], a, dir)
        PROVE  Answers("mem", a, dir) = OnBoard[k].who
    <3>1. 26 + k \in 1..59 /\ map[26 + k].space = "mem" /\ map[26 + k].range = OnBoard[k]
      BY Declared
    <3> QED BY <2>1, <3>1, Sole
  <2>2. Answers("mem", <<\hfb00, 0>>, "r") = "wds_status"
    <3>1. Covers(OnBoard[1], <<\hfb00, 0>>, "r") /\ OnBoard[1].who = "wds_status"
      BY DEF OnBoard, Entry, Both, Port, Reads, Writes, AllLanes, Lane, Offsets, Covers, Leq
    <3> QED BY <2>1, <3>1, Declared
  <2>3. Answers("mem", <<\hfb00, 0>>, "w") = "wds_address"
    <3>1. Covers(OnBoard[2], <<\hfb00, 0>>, "w") /\ OnBoard[2].who = "wds_address"
      BY DEF OnBoard, Entry, Both, Port, Reads, Writes, AllLanes, Lane, Offsets, Covers, Leq
    <3> QED BY <2>1, <3>1, Declared
  <2>4. Answers("mem", <<\hfb00, 4>>, "w") = "wds_register"
    <3>1. Covers(OnBoard[3], <<\hfb00, 4>>, "w") /\ OnBoard[3].who = "wds_register"
      BY DEF OnBoard, Entry, Both, Port, Reads, Writes, AllLanes, Lane, Offsets, Covers, Leq
    <3> QED BY <2>1, <3>1, Declared
  <2>5. Answers("mem", <<\hfc00, 0>>, "r") = "zs0_B_control"
    <3>1. Covers(OnBoard[5], <<\hfc00, 0>>, "r") /\ OnBoard[5].who = "zs0_B_control"
      BY DEF OnBoard, Entry, Both, Port, Reads, Writes, AllLanes, Lane, Offsets, Covers, Leq
    <3> QED BY <2>1, <3>1, Declared
  <2>6. Answers("mem", <<\hfc00, 4>>, "r") = "zs0_B_data"
    <3>1. Covers(OnBoard[6], <<\hfc00, 4>>, "r") /\ OnBoard[6].who = "zs0_B_data"
      BY DEF OnBoard, Entry, Both, Port, Reads, Writes, AllLanes, Lane, Offsets, Covers, Leq
    <3> QED BY <2>1, <3>1, Declared
  <2>7. Answers("mem", <<\hfc00, 8>>, "r") = "zs0_A_control"
    <3>1. Covers(OnBoard[7], <<\hfc00, 8>>, "r") /\ OnBoard[7].who = "zs0_A_control"
      BY DEF OnBoard, Entry, Both, Port, Reads, Writes, AllLanes, Lane, Offsets, Covers, Leq
    <3> QED BY <2>1, <3>1, Declared
  <2>8. Answers("mem", <<\hfc00, 12>>, "r") = "zs0_A_data"
    <3>1. Covers(OnBoard[8], <<\hfc00, 12>>, "r") /\ OnBoard[8].who = "zs0_A_data"
      BY DEF OnBoard, Entry, Both, Port, Reads, Writes, AllLanes, Lane, Offsets, Covers, Leq
    <3> QED BY <2>1, <3>1, Declared
  <2>9. Answers("mem", <<\hfd00, 0>>, "r") = "timekeeper"
    <3>1. Covers(OnBoard[9], <<\hfd00, 0>>, "r") /\ OnBoard[9].who = "timekeeper"
      BY DEF OnBoard, Entry, Both, Port, Reads, Writes, AllLanes, Lane, Offsets, Covers, Leq
    <3> QED BY <2>1, <3>1, Declared
  <2>10. Answers("mem", <<\hfe00, 0>>, "r") = "idprom"
    <3>1. Covers(OnBoard[10], <<\hfe00, 0>>, "r") /\ OnBoard[10].who = "idprom"
      BY DEF OnBoard, Entry, Both, Port, Reads, Writes, AllLanes, Lane, Offsets, Covers, Leq
    <3> QED BY <2>1, <3>1, Declared
  <2>11. Answers("mem", <<\hfffe, 0>>, "r") = "prom"
    <3>1. Covers(OnBoard[11], <<\hfffe, 0>>, "r") /\ OnBoard[11].who = "prom"
      BY DEF OnBoard, Entry, Both, Port, Reads, Writes, AllLanes, Lane, Offsets, Covers, Leq
    <3> QED BY <2>1, <3>1, Declared
  <2> QED BY <2>2, <2>3, <2>4, <2>5, <2>6, <2>7, <2>8, <2>9, <2>10, <2>11
<1>5. /\ Answers("io", <<0, \h378>>, "w") = "nop"
      /\ Answers("io", <<0, \h8000>>, "w") = "console"
      /\ Answers("io", <<0, \h8004>>, "w") = "trap_vector"
      /\ Answers("io", <<0, \h8010>>, "r") = "keyboard"
      /\ Answers("io", <<0, \h3f2>>, "w") = "fdc_dor"
      /\ Answers("io", <<0, \h3f4>>, "r") = "fdc_msr"
      /\ Answers("io", <<0, \h3f4>>, "w") = "fdc_dsr"
      /\ Answers("io", <<0, \h3f5>>, "r") = "fdc_fifo"
      /\ Answers("io", <<0, \h3f5>>, "w") = "fdc_fifo"
      /\ Answers("io", <<0, \h3f7>>, "r") = "fdc_dir"
      /\ Answers("io", <<0, \h3f7>>, "w") = "fdc_ccr"
  <2> USE DEF Cg3Index, Cg3Colour
  <2>1. ASSUME NEW k \in DOMAIN io_map, NEW a \in Nat \X Nat, NEW dir,
               Covers(io_map[k], a, dir)
        PROVE  Answers("io", a, dir) = io_map[k].who
    <3>1. 37 + k \in 1..59 /\ map[37 + k].space = "io" /\ map[37 + k].range = io_map[k]
      BY Declared
    <3> QED BY <2>1, <3>1, Sole
  <2>2. Answers("io", <<0, \h378>>, "w") = "nop"
    <3>1. Covers(io_map[1], <<0, \h378>>, "w") /\ io_map[1].who = "nop"
      BY DEF io_map, Entry, Both, Port, Reads, Writes, AllLanes, Lane, Offsets, Covers, Leq
    <3> QED BY <2>1, <3>1, Declared
  <2>3. Answers("io", <<0, \h8000>>, "w") = "console"
    <3>1. Covers(io_map[2], <<0, \h8000>>, "w") /\ io_map[2].who = "console"
      BY DEF io_map, Entry, Both, Port, Reads, Writes, AllLanes, Lane, Offsets, Covers, Leq
    <3> QED BY <2>1, <3>1, Declared
  <2>4. Answers("io", <<0, \h8004>>, "w") = "trap_vector"
    <3>1. Covers(io_map[5], <<0, \h8004>>, "w") /\ io_map[5].who = "trap_vector"
      BY DEF io_map, Entry, Both, Port, Reads, Writes, AllLanes, Lane, Offsets, Covers, Leq
    <3> QED BY <2>1, <3>1, Declared
  <2>5. Answers("io", <<0, \h8010>>, "r") = "keyboard"
    <3>1. Covers(io_map[3], <<0, \h8010>>, "r") /\ io_map[3].who = "keyboard"
      BY DEF io_map, Entry, Both, Port, Reads, Writes, AllLanes, Lane, Offsets, Covers, Leq
    <3> QED BY <2>1, <3>1, Declared
  <2>6. Answers("io", <<0, \h3f2>>, "w") = "fdc_dor"
    <3>1. Covers(io_map[8], <<0, \h3f2>>, "w") /\ io_map[8].who = "fdc_dor"
      BY DEF io_map, Entry, Both, Port, Reads, Writes, AllLanes, Lane, Offsets, Covers, Leq
    <3> QED BY <2>1, <3>1, Declared
  <2>7. Answers("io", <<0, \h3f4>>, "r") = "fdc_msr"
    <3>1. Covers(io_map[9], <<0, \h3f4>>, "r") /\ io_map[9].who = "fdc_msr"
      BY DEF io_map, Entry, Both, Port, Reads, Writes, AllLanes, Lane, Offsets, Covers, Leq
    <3> QED BY <2>1, <3>1, Declared
  <2>8. Answers("io", <<0, \h3f4>>, "w") = "fdc_dsr"
    <3>1. Covers(io_map[10], <<0, \h3f4>>, "w") /\ io_map[10].who = "fdc_dsr"
      BY DEF io_map, Entry, Both, Port, Reads, Writes, AllLanes, Lane, Offsets, Covers, Leq
    <3> QED BY <2>1, <3>1, Declared
  <2>9. Answers("io", <<0, \h3f5>>, "r") = "fdc_fifo"
    <3>1. Covers(io_map[11], <<0, \h3f5>>, "r") /\ io_map[11].who = "fdc_fifo"
      BY DEF io_map, Entry, Both, Port, Reads, Writes, AllLanes, Lane, Offsets, Covers, Leq
    <3> QED BY <2>1, <3>1, Declared
  <2>10. Answers("io", <<0, \h3f5>>, "w") = "fdc_fifo"
    <3>1. Covers(io_map[11], <<0, \h3f5>>, "w") /\ io_map[11].who = "fdc_fifo"
      BY DEF io_map, Entry, Both, Port, Reads, Writes, AllLanes, Lane, Offsets, Covers, Leq
    <3> QED BY <2>1, <3>1, Declared
  <2>11. Answers("io", <<0, \h3f7>>, "r") = "fdc_dir"
    <3>1. Covers(io_map[12], <<0, \h3f7>>, "r") /\ io_map[12].who = "fdc_dir"
      BY DEF io_map, Entry, Both, Port, Reads, Writes, AllLanes, Lane, Offsets, Covers, Leq
    <3> QED BY <2>1, <3>1, Declared
  <2>12. Answers("io", <<0, \h3f7>>, "w") = "fdc_ccr"
    <3>1. Covers(io_map[13], <<0, \h3f7>>, "w") /\ io_map[13].who = "fdc_ccr"
      BY DEF io_map, Entry, Both, Port, Reads, Writes, AllLanes, Lane, Offsets, Covers, Leq
    <3> QED BY <2>1, <3>1, Declared
  <2> QED BY <2>2, <2>3, <2>4, <2>5, <2>6, <2>7, <2>8, <2>9, <2>10, <2>11, <2>12
<1>6. /\ Answers("at", <<0, \h00>>, "w") = "dma_0"
      /\ Answers("at", <<0, \h20>>, "w") = "bank_0"
      /\ Answers("at", <<0, \h30>>, "w") = "bank_1"
      /\ Answers("at", <<0, \ha0>>, "w") = "bank_2"
      /\ Answers("at", <<0, \h40>>, "w") = "pit"
      /\ Answers("at", <<0, \h44>>, "w") = "pit3"
      /\ Answers("at", <<0, \h47>>, "w") = "pit3"
      /\ Answers("at", <<0, \hc6>>, "w") = "dma_1"
      /\ Answers("at", <<0, \hc7>>, "w") = "dma_1"
      /\ Answers("at", <<0, \h19>>, "r") = "chaining_0"
      /\ Answers("at", <<0, \hd9>>, "r") = "chaining_1"
  <2> USE DEF Cg3Index, Cg3Colour
  <2>1. ASSUME NEW k \in DOMAIN atblock, NEW a \in Nat \X Nat, NEW dir,
               Covers(atblock[k], a, dir)
        PROVE  Answers("at", a, dir) = atblock[k].who
    <3>1. 50 + k \in 1..59 /\ map[50 + k].space = "at" /\ map[50 + k].range = atblock[k]
      BY Declared
    <3> QED BY <2>1, <3>1, Sole
  <2>2. Answers("at", <<0, \h00>>, "w") = "dma_0"
    <3>1. Covers(atblock[1], <<0, \h00>>, "w") /\ atblock[1].who = "dma_0"
      BY DEF atblock, Entry, Both, Port, Reads, Writes, AllLanes, Lane, Offsets, Covers, Leq
    <3> QED BY <2>1, <3>1, Declared
  <2>3. Answers("at", <<0, \h20>>, "w") = "bank_0"
    <3>1. Covers(atblock[2], <<0, \h20>>, "w") /\ atblock[2].who = "bank_0"
      BY DEF atblock, Entry, Both, Port, Reads, Writes, AllLanes, Lane, Offsets, Covers, Leq
    <3> QED BY <2>1, <3>1, Declared
  <2>4. Answers("at", <<0, \h30>>, "w") = "bank_1"
    <3>1. Covers(atblock[3], <<0, \h30>>, "w") /\ atblock[3].who = "bank_1"
      BY DEF atblock, Entry, Both, Port, Reads, Writes, AllLanes, Lane, Offsets, Covers, Leq
    <3> QED BY <2>1, <3>1, Declared
  <2>5. Answers("at", <<0, \ha0>>, "w") = "bank_2"
    <3>1. Covers(atblock[6], <<0, \ha0>>, "w") /\ atblock[6].who = "bank_2"
      BY DEF atblock, Entry, Both, Port, Reads, Writes, AllLanes, Lane, Offsets, Covers, Leq
    <3> QED BY <2>1, <3>1, Declared
  <2>6. Answers("at", <<0, \h40>>, "w") = "pit"
    <3>1. Covers(atblock[4], <<0, \h40>>, "w") /\ atblock[4].who = "pit"
      BY DEF atblock, Entry, Both, Port, Reads, Writes, AllLanes, Lane, Offsets, Covers, Leq
    <3> QED BY <2>1, <3>1, Declared
  <2>7. Answers("at", <<0, \h44>>, "w") = "pit3"
    <3>1. Covers(atblock[5], <<0, \h44>>, "w") /\ atblock[5].who = "pit3"
      BY DEF atblock, Entry, Both, Port, Reads, Writes, AllLanes, Lane, Offsets, Covers, Leq
    <3> QED BY <2>1, <3>1, Declared
  <2>8. Answers("at", <<0, \h47>>, "w") = "pit3"
    <3>1. Covers(atblock[5], <<0, \h47>>, "w") /\ atblock[5].who = "pit3"
      BY DEF atblock, Entry, Both, Port, Reads, Writes, AllLanes, Lane, Offsets, Covers, Leq
    <3> QED BY <2>1, <3>1, Declared
  <2>9. Answers("at", <<0, \hc6>>, "w") = "dma_1"
    <3>1. Covers(atblock[7], <<0, \hc6>>, "w") /\ atblock[7].who = "dma_1"
      BY DEF atblock, Entry, Both, Port, Reads, Writes, AllLanes, Lane, Offsets, Covers, Leq
    <3> QED BY <2>1, <3>1, Declared
  <2>10. Answers("at", <<0, \hc7>>, "w") = "dma_1"
    <3>1. Covers(atblock[7], <<0, \hc7>>, "w") /\ atblock[7].who = "dma_1"
      BY DEF atblock, Entry, Both, Port, Reads, Writes, AllLanes, Lane, Offsets, Covers, Leq
    <3> QED BY <2>1, <3>1, Declared
  <2>11. Answers("at", <<0, \h19>>, "r") = "chaining_0"
    <3>1. Covers(atblock[8], <<0, \h19>>, "r") /\ atblock[8].who = "chaining_0"
      BY DEF atblock, Entry, Both, Port, Reads, Writes, AllLanes, Lane, Offsets, Covers, Leq
    <3> QED BY <2>1, <3>1, Declared
  <2>12. Answers("at", <<0, \hd9>>, "r") = "chaining_1"
    <3>1. Covers(atblock[9], <<0, \hd9>>, "r") /\ atblock[9].who = "chaining_1"
      BY DEF atblock, Entry, Both, Port, Reads, Writes, AllLanes, Lane, Offsets, Covers, Leq
    <3> QED BY <2>1, <3>1, Declared
  <2> QED BY <2>2, <2>3, <2>4, <2>5, <2>6, <2>7, <2>8, <2>9, <2>10, <2>11, <2>12
<1>7. \A d \in InMemory : Answers(d[1], d[2], d[3]) = d[4]
  BY <1>1, <1>2, <1>3, <1>4 DEF InMemory
<1>8. \A d \in AtPorts : Answers(d[1], d[2], d[3]) = d[4]
  BY <1>5 DEF AtPorts
<1>9. \A d \in InBlock : Answers(d[1], d[2], d[3]) = d[4]
  BY <1>6 DEF InBlock
<1> QED BY <1>7, <1>8, <1>9 DEF Misplaced, Documented

(* Not more is declared than there is. *)
DeclaredInv == declared \in 0..59

LEMMA DeclaredCounts == Spec => []DeclaredInv
<1> USE DEF DeclaredInv
<1>1. ScreenInit => DeclaredInv
  BY DEF ScreenInit
<1>2. DeclaredInv /\ [Next]_screen => DeclaredInv'
  BY Declared DEF Next, DeclareEntry, Running, screen
<1> QED BY <1>1, <1>2, PTL DEF Spec

(* No entry shadows one declared before it, at any point of the declarations *)
(* (mem_map, io_map, atblock_r).                                             *)
THEOREM NothingShadowed == Spec => []NoneShadowed
<1>1. DeclaredInv => NoneShadowed
  BY NoOverlap DEF DeclaredInv, NoneShadowed
<1> QED BY <1>1, DeclaredCounts, PTL

(* The devices answer where the kernel looks for them (mem_map, io_map,      *)
(* atblock_w).                                                               *)
THEOREM DevicesAtTheirPlaces == Spec => []DevicesAnswer
<1>1. DevicesAnswer
  BY EveryDeviceAnswers DEF DevicesAnswer
<1> QED BY <1>1, PTL

-----------------------------------------------------------------------------
(* The palette's two registers are reached at their addresses (mem_map).     *)
LEMMA Registers == /\ Answers("mem", Cg3Index, "w") = "cg3_index"
                   /\ Answers("mem", Cg3Colour, "w") = "cg3_colour"
<1>1. /\ <<"mem", Cg3Index, "w", "cg3_index">> \in Documented
      /\ <<"mem", Cg3Colour, "w", "cg3_colour">> \in Documented
  BY DEF Documented, InMemory
<1>2. \A d \in Documented : Answers(d[1], d[2], d[3]) = d[4]
  BY EveryDeviceAnswers DEF Misplaced
<1> HIDE DEF Documented
<1>3. ASSUME NEW at, NEW who, <<"mem", at, "w", who>> \in Documented
      PROVE  Answers("mem", at, "w") = who
  <2> DEFINE d == <<"mem", at, "w", who>>
  <2>1. d[1] = "mem" /\ d[2] = at /\ d[3] = "w" /\ d[4] = who
    OBVIOUS
  <2>2. Answers(d[1], d[2], d[3]) = d[4]
    BY <1>2, <1>3
  <2> QED BY <2>1, <2>2
<1> QED BY <1>1, <1>3

(* A write to them is the write of an index, and of a component.             *)
LEMMA Stores ==
  ASSUME NEW data
  PROVE  /\ Store(Cg3Index, data) => cg3_addr_w(data)
         /\ Store(Cg3Colour, data) => cg3_data_w(data)
<1>1. ASSUME NEW at, Answers("mem", at, "w") = "cg3_index", Store(at, data)
      PROVE  cg3_addr_w(data)
  BY <1>1 DEF Store
<1>2. ASSUME NEW at, Answers("mem", at, "w") = "cg3_colour", Store(at, data)
      PROVE  cg3_data_w(data)
  BY <1>2 DEF Store
<1> QED BY <1>1, <1>2, Registers

(* The grey map is a map. *)
LEMMA GreyIsMap == Grey \in [Index -> Colour]
BY PaletteAssumption, BoardAssumption DEF Grey, Index, Colour

(* A new index starts a colour, whatever was left unfinished (cg3_addr_w). *)
LEMMA IndexKeeps ==
  ASSUME ScreenInv, NEW i \in Index, SetsIndex(i) PROVE ScreenInv'
<1>1. cg3_addr_w(i) /\ given = 0 /\ given' = 0 /\ started' /\ entry' = i
      /\ UNCHANGED <<tint, expected>>
  BY Stores DEF SetsIndex
<1> QED BY <1>1 DEF cg3_addr_w, ScreenInv, PaletteFollows

(* A component goes to the entry and the place the program means, and the    *)
(* third one completes the colour (cg3_data_w).                              *)
LEMMA ComponentKeeps ==
  ASSUME ScreenInv, GivesComponent PROVE ScreenInv'
<1> USE PaletteAssumption, BoardAssumption DEF ScreenInv
<1>1. /\ started /\ cgidx = entry /\ cgphase = given /\ started' = started
      /\ tint' \in Tints /\ (given # 0 => tint' = tint)
      /\ cg3_data_w(tint'[given + 1])
  BY Stores DEF GivesComponent, ScreenInv
<1>2. tint' \in Colour /\ given + 1 \in 1..3 /\ tint'[given + 1] \in 0..MapSize-1
  BY <1>1 DEF Colour
<1>3. /\ cgmap' = [cgmap EXCEPT ![entry] = [@ EXCEPT ![given + 1] = tint'[given + 1]]]
      /\ cgmap[entry] \in Colour
  BY <1>1 DEF cg3_data_w
<1>4. /\ cgmap' \in [Index -> Colour]
      /\ cgmap'[entry] = [cgmap[entry] EXCEPT ![given + 1] = tint'[given + 1]]
      /\ \A i \in Index \ {entry} : cgmap'[i] = cgmap[i]
  BY <1>2, <1>3 DEF Colour
<1>5. \A k \in 1..given + 1 : cgmap'[entry][k] = tint'[k]
  BY <1>1, <1>2, <1>3, <1>4 DEF Colour
<1>6. CASE given = 2
  <2>1. given' = 0 /\ entry' = (entry + 1) % MapSize
        /\ expected' = [expected EXCEPT ![entry] = tint]
        /\ cgphase' = 0 /\ cgidx' = (entry + 1) % MapSize
    BY <1>1, <1>6 DEF GivesComponent, cg3_data_w
  <2>2. (entry + 1) % MapSize \in Index
    BY DEF Index
  <2>3. cgmap'[entry] = tint /\ tint \in Colour /\ tint' = tint
    <3>1. \A k \in 1..3 : cgmap'[entry][k] = tint'[k]
      BY <1>5, <1>6
    <3> QED BY <1>1, <1>2, <1>4, <1>6, <3>1 DEF Colour
  <2>4. expected' \in [Index -> Colour] /\ expected'[entry] = tint
        /\ \A i \in Index \ {entry} : expected'[i] = expected[i]
    BY <2>1, <2>3
  <2>5. PaletteFollows'
    BY <1>4, <2>3, <2>4 DEF PaletteFollows
  <2> QED BY <1>1, <1>4, <2>1, <2>2, <2>3, <2>4, <2>5
<1>7. CASE given # 2
  <2>1. given' = given + 1 /\ given + 1 \in 1..2 /\ UNCHANGED <<entry, expected>>
        /\ cgphase' = given + 1 /\ cgidx' = entry
    BY <1>1, <1>7 DEF GivesComponent, cg3_data_w
  <2>2. PaletteFollows'
    BY <1>4, <2>1 DEF PaletteFollows
  <2>3. \A k \in 1..given' : cgmap'[entry'][k] = tint'[k]
    BY <1>5, <2>1
  <2>4. started' /\ cgidx' = entry' /\ cgphase' = given'
    BY <1>1, <2>1
  <2>5. cgidx' \in Index /\ entry' \in Index /\ cgphase' \in 0..2 /\ given' \in 0..2
    BY <2>1
  <2> QED BY <1>1, <1>4, <2>1, <2>2, <2>3, <2>4, <2>5, Zenon
<1> QED BY <1>6, <1>7

(* The palette is as the program gave it, in every state: ScreenInv is       *)
(* inductive, and a reset in mid colour keeps it (hold_lines).               *)
THEOREM PaletteInvariant == Spec => []ScreenInv
<1>1. ScreenInit => ScreenInv
  <2>1. 0 \in Index /\ 0 \in 0..2 /\ 1..0 = {}
    BY PaletteAssumption, BoardAssumption DEF Index
  <2> QED BY <2>1, GreyIsMap, Zenon DEF ScreenInit, ScreenInv, PaletteFollows
<1>2. ScreenInv /\ [Next]_screen => ScreenInv'
  <2> SUFFICES ASSUME ScreenInv, [Next]_screen PROVE ScreenInv'
    OBVIOUS
  <2>1. ASSUME NEW i \in Index, SetsIndex(i) PROVE ScreenInv'
    BY <2>1, IndexKeeps
  <2>2. CASE GivesComponent
    BY <2>2, ComponentKeeps
  <2>3. CASE hold_lines
    <3>1. 0 \in Index /\ 0 \in 0..2 /\ 1..0 = {}
      BY PaletteAssumption, BoardAssumption DEF Index
    <3> QED BY <2>3, <3>1, GreyIsMap, Zenon DEF hold_lines, ScreenInv, PaletteFollows
  <2>4. CASE DeclareEntry \/ Writes8000 \/ Draws \/ UNCHANGED screen
    BY <2>4 DEF DeclareEntry, Writes8000, Draws, screen, palette, program, ScreenInv, PaletteFollows
  <2> QED BY <2>1, <2>2, <2>3, <2>4 DEF Next
<1> QED BY <1>1, <1>2, PTL DEF Spec

(* Every entry of the palette has the colour the program gave it since the   *)
(* reset, or its grey (cg3_addr_w, cg3_data_w, hold_lines).                  *)
THEOREM PaletteIsProgrammed == Spec => []PaletteFollows
<1>1. ScreenInv => PaletteFollows
  BY DEF ScreenInv
<1> QED BY <1>1, PaletteInvariant, PTL

(* No cell is ever torn: every step of the terminal leaves a character in    *)
(* every cell.                                                               *)
Whole == \A r \in 0..Rows-1, c \in 0..Cols-1 : Shown(fb, r, c) \in Chars \cup {Blank}

LEMMA CellsWhole == Spec => []Whole
<1> DEFINE Grid == [0..Rows-1 -> [0..Cols-1 -> Chars \cup {Blank}]]
<1>1. Whole <=> Cells(fb) \in Grid
  BY DEF Whole, Cells
<1>2. T!Clear \in Grid
  BY DEF T!Clear
<1>3. ScreenInit => Whole
  BY <1>1, <1>2, PaperGlass DEF ScreenInit, Init
<1>4. CursorOnGlass /\ Whole /\ [Next]_screen => Whole'
  <2> SUFFICES ASSUME CursorOnGlass, Whole, [T!Next]_(T!vars) PROVE Cells(fb') \in Grid
    BY TerminalStep DEF Whole, Cells
  <2>0. cony \in 0..Rows-1 /\ conx \in 0..Cols-1 /\ Cells(fb) \in Grid
    BY <1>1 DEF CursorOnGlass
  <2>1. ASSUME NEW g \in Grid, T!NextLine(g) PROVE Cells(fb') \in Grid
    <3>1. T!MovedUp(g) \in Grid
      BY <1>2, SizesAssumption DEF T!MovedUp
    <3>2. T!MovedUp(Cells(fb)) \in Grid
      BY <1>2, <2>0, SizesAssumption DEF T!MovedUp
    <3> HIDE DEF Grid
    <3> QED BY <2>1, <3>1, <3>2, TerminalOn
  <2>2. ASSUME NEW ch \in Chars, T!Put(ch) PROVE Cells(fb') \in Grid
    <3>1. [Cells(fb) EXCEPT ![cony][conx] = ch] \in Grid
      BY <2>0
    <3> HIDE DEF Grid
    <3> QED BY <2>1, <2>2, <3>1, TerminalOn
  <2>3. CASE T!Return \/ T!Backspace \/ T!Draw
    BY <2>0, <2>3, TerminalOn
  <2>4. CASE T!LineFeed
    BY <2>0, <2>1, <2>4, TerminalOn
  <2>5. CASE T!Wipe
    BY <1>2, <2>5, TerminalOn
  <2>6. CASE UNCHANGED T!vars
    <3>1. Cells(fb') = Cells(fb)
      BY <2>6, Glass DEF T!vars
    <3> QED BY <2>0, <3>1
  <2> QED BY <2>2, <2>3, <2>4, <2>5, <2>6 DEF T!Next
<1> QED BY <1>3, <1>4, CursorStaysOnGlass, PTL DEF Spec

(* What the screen shows of a glyph, on either board. *)
LEMMA GlyphPixels ==
  ASSUME ScreenInv, Untouched, NEW r \in 0..Rows-1, NEW c \in 0..Cols-1,
         NEW ch \in Chars \cup {Blank}, NEW y \in Lines, NEW x \in 0..Width-1,
         \A b \in Bytes : fb[ByteAt(r, c, y, b)] = GlyphByte(ch, y, b)
  PROVE  CellPixel(r, c, y, x) = IF x \in s_font[ch][y] THEN Black ELSE White
<1>1. 0 \in Index /\ MapSize - 1 \in Index
  BY BoardAssumption DEF Index
<1>2. cgmap[0] = White /\ cgmap[MapSize - 1] = Black
  <2>1. cgmap[0] = Grey[0] /\ cgmap[MapSize - 1] = Grey[MapSize - 1]
    BY <1>1 DEF ScreenInv, PaletteFollows, Untouched
  <2>2. Grey[0] = White /\ Grey[MapSize - 1] = Black
    BY <1>1, BoardAssumption DEF Grey, White, Black
  <2> QED BY <2>1, <2>2
<1>3. CASE ColourBoard
  <2>1. x \in Bytes
    BY <1>3, BoardAssumption DEF Bytes
  <2>2. ByteAt(r, c, y, x) = (r * GlyphLines + y) * Stride + (c * CellBytes + x)
    BY SizesAssumption, EndRadix, BoardAssumption DEF ByteAt, Lines
  <2>3. CellPixel(r, c, y, x) = cgmap[GlyphByte(ch, y, x)]
    BY <1>3, <2>1, <2>2 DEF CellPixel, Pixel
  <2> QED BY <1>2, <1>3, <2>3 DEF GlyphByte
<1>4. CASE ~ColourBoard
  <2>1. 0 \in Bytes
    BY <1>4, BoardAssumption DEF Bytes
  <2>2. ByteAt(r, c, y, 0) = (r * GlyphLines + y) * Stride + c * CellBytes
    BY SizesAssumption, EndRadix DEF ByteAt, Lines
  <2>3. fb[(r * GlyphLines + y) * Stride + c * CellBytes] = s_font[ch][y]
    BY <1>4, <2>1, <2>2 DEF GlyphByte
  <2> QED BY <1>4, <2>3 DEF CellPixel, Pixel
<1> QED BY <1>3, <1>4

(* What was printed is on the screen, pixel by pixel, on both boards, until  *)
(* the program changes the two colours the console uses (console_glyph,      *)
(* hold_lines, the two screen updates).                                      *)
THEOREM ConsoleIsLegible == Spec => []Legible
<1>1. ScreenInv /\ Whole => Legible
  <2> SUFFICES ASSUME ScreenInv, Whole, Untouched, NEW r \in 0..Rows-1, NEW c \in 0..Cols-1
               PROVE  /\ ShownAt(r, c) \in Chars \cup {Blank}
                      /\ \A y \in Lines, x \in 0..Width-1 :
                           CellPixel(r, c, y, x) = IF x \in s_font[ShownAt(r, c)][y] THEN Black ELSE White
    BY Zenon DEF Legible, Lines
  <2> DEFINE ch == Shown(fb, r, c)
             Fits(k) == \A y \in Lines, b \in Bytes : fb[ByteAt(r, c, y, b)] = GlyphByte(k, y, b)
  <2>1. ShownAt(r, c) = ch
    BY DEF ShownAt, Shown, ByteAt, Lines, Bytes
  <2>2. ch \in Chars \cup {Blank}
    BY DEF Whole
  <2>3. Fits(ch)
    <3>1. ch = IF \E k \in Chars \cup {Blank} : Fits(k)
                 THEN CHOOSE k \in Chars \cup {Blank} : Fits(k) ELSE "torn"
      BY DEF Shown
    <3>2. "torn" \notin Chars \cup {Blank}
      BY FontAssumption DEF Blank
    <3> HIDE DEF ch, Fits
    <3> QED BY <2>2, <3>1, <3>2
  <2> HIDE DEF ch
  <2> QED BY <2>1, <2>2, <2>3, GlyphPixels
<1> QED BY <1>1, PaletteInvariant, CellsWhole, PTL
=============================================================================
