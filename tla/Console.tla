------------------------------- MODULE Console -------------------------------
(***************************************************************************)
(* The console the stub PROM draws on the frame buffer (console_glyph): a  *)
(* flat array of bytes, glyphs written into it line by line, and a memmove *)
(* when the last row is full.  One module for both boards: a cell is one   *)
(* byte wide on the monochrome one, whose bytes are sets of inked pixels,  *)
(* and eight on the colour one, whose bytes are entries of the palette.    *)
(***************************************************************************)
EXTENDS Naturals, FiniteSets

CONSTANTS Rows, Cols,    \* rows and cols of console_glyph
          GlyphLines,    \* scan lines of a character (16)
          Width,         \* pixels of a scan line of a character (8)
          CellBytes,     \* bytes of a scan line of a character (1 or 8)
          SpareLines,    \* scan lines below the last row (900 - 56 * 16)
          ColourBoard,   \* which board is fitted (m_fbtype)
          MapSize,       \* entries of the colour board's palette (256)
          Chars,         \* the printable characters
          s_font         \* the pixels of a character that are inked, by scan line

ASSUME SizesAssumption == /\ Rows \in Nat \ {0} /\ Cols \in Nat \ {0}
                          /\ GlyphLines \in Nat \ {0} /\ CellBytes \in Nat \ {0}
                          /\ SpareLines \in Nat
ASSUME BoardAssumption == /\ ColourBoard \in BOOLEAN /\ MapSize \in Nat \ {0, 1}
                          /\ Width \in Nat \ {0}
                          /\ CellBytes = IF ColourBoard THEN Width ELSE 1

Blank == " "

(* Every character has a glyph of its own, and the blank's is empty.  (The   *)
(* properties call a cell without a glyph torn.)                             *)
ASSUME FontAssumption ==
  /\ "torn" \notin Chars
  /\ s_font \in [Chars \cup {Blank} -> [0..GlyphLines-1 -> SUBSET (0..Width-1)]]
  /\ s_font[Blank] = [y \in 0..GlyphLines-1 |-> {}]
  /\ \A a, b \in Chars \cup {Blank} : s_font[a] = s_font[b] => a = b

Stride    == Cols * CellBytes
RowBytes  == GlyphLines * Stride
ScreenEnd == Rows * RowBytes
Address   == 0 .. ScreenEnd + SpareLines * Stride - 1

(* A byte of paper, and of what somebody else draws.                         *)
Paper == IF ColourBoard THEN 0 ELSE {}
Drawn == IF ColourBoard THEN MapSize - 1 ELSE 0..Width-1

(* (Mutation: the leftmost pixel is in the high bit, as on other Suns.)      *)
GlyphByte_Mirrored(ch, y, x) ==
  IF ColourBoard
    THEN IF (Width - 1 - x) \in s_font[ch][y] THEN MapSize - 1 ELSE 0
    ELSE {Width - 1 - i : i \in s_font[ch][y]}

(* The byte x of scan line y of the glyph of ch: on the colour board a pixel *)
(* each, ink the last entry of the map and paper entry 0; on the monochrome  *)
(* one the bits of the scan line as they are.                                *)
GlyphByte(ch, y, x) ==
  IF ColourBoard THEN IF x \in s_font[ch][y] THEN MapSize - 1 ELSE 0
                 ELSE s_font[ch][y]

VARIABLES fb, conx, cony
vars == <<fb, conx, cony>>

Init == fb = [i \in Address |-> Paper] /\ conx = 0 /\ cony = 0

(* The glyph of ch written at the cursor. *)
WithGlyph(ch) ==
  LET Byte(y, x) == (cony * GlyphLines + y) * Stride + conx * CellBytes + x
      written == {Byte(y, x) : y \in 0..GlyphLines-1, x \in 0..CellBytes-1}
      At(i) == CHOOSE p \in (0..GlyphLines-1) \X (0..CellBytes-1) : Byte(p[1], p[2]) = i
  IN  [i \in Address |-> IF i \in written THEN GlyphByte(ch, At(i)[1], At(i)[2]) ELSE fb[i]]

(* (Mutations: the picture moves up one scan line less, and the line that    *)
(* scrolls in is not cleared.)                                               *)
Scrolled_OneLineLess(f) ==
  [i \in Address |-> CASE i < ScreenEnd - RowBytes -> f[i + RowBytes - Stride]
                       [] i >= ScreenEnd - RowBytes /\ i < ScreenEnd -> Paper
                       [] OTHER -> f[i]]

(* memmove and memset: everything a row up, the last row to paper.           *)
Scrolled(f) ==
  [i \in Address |-> CASE i < ScreenEnd - RowBytes -> f[i + RowBytes]
                       [] i >= ScreenEnd - RowBytes /\ i < ScreenEnd -> Paper
                       [] OTHER -> f[i]]

(* (Mutation: the last row is one too far.)                                  *)
NewLine_RowTooFar(f) ==
  /\ conx' = 0
  /\ IF cony < Rows THEN cony' = cony + 1 /\ fb' = f
                    ELSE cony' = Rows - 1 /\ fb' = Scrolled(f)

NewLine(f) ==
  /\ conx' = 0
  /\ IF cony + 1 < Rows THEN cony' = cony + 1 /\ fb' = f
                        ELSE cony' = Rows - 1 /\ fb' = Scrolled(f)

CarriageReturn == conx' = 0 /\ UNCHANGED <<fb, cony>>
Backspace      == conx > 0 /\ conx' = conx - 1 /\ UNCHANGED <<fb, cony>>
LineFeed       == NewLine(fb)

Put(ch) ==
  IF conx + 1 < Cols
    THEN conx' = conx + 1 /\ fb' = WithGlyph(ch) /\ UNCHANGED cony
    ELSE NewLine(WithGlyph(ch))

(* hold_lines clears the glass, all of it, and sends the cursor home.        *)
ClearGlass == /\ fb' = [i \in Address |-> Paper]
              /\ conx' = 0 /\ cony' = 0

(* A program draws over the lines below the console. *)
DrawBelow == /\ fb' = [i \in Address |-> IF i >= ScreenEnd THEN Drawn ELSE fb[i]]
             /\ UNCHANGED <<conx, cony>>

(* What a byte sent to the console does. *)
console_glyph == \/ CarriageReturn \/ Backspace \/ LineFeed
                 \/ \E ch \in Chars : Put(ch)

-----------------------------------------------------------------------------
(* The cursor never leaves the grid, so that no glyph is written past the    *)
(* frame buffer (console_glyph).                                             *)
CursorOnGlass == conx \in 0..Cols-1 /\ cony \in 0..Rows-1

(* The character whose glyph is at a row and column, whole. *)
ShownAt(r, c) ==
  LET Byte(y, x) == (r * GlyphLines + y) * Stride + c * CellBytes + x
      Fits(ch) == \A y \in 0..GlyphLines-1, x \in 0..CellBytes-1 : fb[Byte(y, x)] = GlyphByte(ch, y, x)
  IN  IF \E ch \in Chars \cup {Blank} : Fits(ch)
        THEN CHOOSE ch \in Chars \cup {Blank} : Fits(ch) ELSE "torn"

T == INSTANCE Terminal WITH
       col <- conx, row <- cony,
       cell  <- [r \in 0..Rows-1 |-> [c \in 0..Cols-1 |-> ShownAt(r, c)]],
       strip <- [i \in {a \in Address : a >= ScreenEnd} |-> fb[i]]

(* The bytes of the frame buffer always show the terminal that was promised: *)
(* no glyph is torn, written over its neighbour, lost in a scroll or left    *)
(* behind by one, and the lines below the console stay what they were.       *)
IsTerminal == T!Spec
=============================================================================
