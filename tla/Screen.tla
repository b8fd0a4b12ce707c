------------------------------- MODULE Screen -------------------------------
(***************************************************************************)
(* The screen as the program on the machine sees it: the console that the  *)
(* stub's entry point writes to through port 0x8000, the colour board's    *)
(* frame buffer and its palette, all reached through the address maps, and *)
(* the wipe of a reset.  The palette is a Brooktree: an index, and a phase *)
(* that counts the three components of a colour and steps the index on.    *)
(*                                                                         *)
(* The program keeps its own account of the palette: the colour it is      *)
(* giving and the entry it believes it is at.  A reset may come in mid     *)
(* colour; the palette's index and phase survive it.  Before the machine   *)
(* runs its maps are declared, entry by entry.                             *)
(***************************************************************************)
EXTENDS Console, AddressMap

CONSTANT Tints   \* the colours a program sets, triples of levels below MapSize

ASSUME PaletteAssumption == Tints \subseteq [1..3 -> 0..MapSize-1]

VARIABLES
  declared,                \* the entries of the address maps declared so far
  cgmap, cgidx, cgphase,   \* m_cgmap, m_cgidx, m_cgphase
  \* the program: whether it has set the index since the reset, the entry it
  \* is at, the colour it is giving, how much of it is given, and the colours
  \* it counts on; and whether it has touched the palette
  started, entry, tint, given, expected

palette == <<cgmap, cgidx, cgphase>>
program == <<started, entry, tint, given, expected>>
screen  == <<declared, vars, palette, program>>

Index  == 0..MapSize-1
Colour == [1..3 -> 0..MapSize-1]

(* The map of hold_lines: entry zero is the lightest and the last is ink.    *)
Grey == [i \in Index |-> [k \in 1..3 |-> MapSize - 1 - i]]

ScreenInit ==
  /\ Init /\ declared = 0
  /\ cgmap = Grey /\ cgidx = 0 /\ cgphase = 0
  /\ started = FALSE /\ entry = 0 /\ given = 0 /\ expected = Grey
  /\ tint \in Tints

(* mem_map, io_map: one more entry; the machine runs when all are there.     *)
DeclareEntry == /\ declared < Len(map)
                /\ declared' = declared + 1
                /\ UNCHANGED <<vars, palette, program>>
Running == declared = Len(map) /\ UNCHANGED declared

(* (Mutation: the phase of an unfinished colour is kept.)                    *)
cg3_addr_w_KeepsPhase(i) == cgidx' = i /\ UNCHANGED <<cgmap, cgphase>>

cg3_addr_w(i) == cgidx' = i /\ cgphase' = 0 /\ UNCHANGED cgmap

cg3_data_w(level) ==
  /\ cgmap' = [cgmap EXCEPT ![cgidx][cgphase + 1] = level]
  /\ IF cgphase + 1 >= 3
       THEN cgphase' = 0 /\ cgidx' = (cgidx + 1) % MapSize
       ELSE cgphase' = cgphase + 1 /\ UNCHANGED cgidx

(* A write to the colour board's two registers, wherever the map sends it.   *)
Store(at, data) ==
  CASE Answers("mem", at, "w") = "cg3_index"  -> cg3_addr_w(data)
    [] Answers("mem", at, "w") = "cg3_colour" -> cg3_data_w(data)
    [] OTHER -> UNCHANGED palette

(* The program starts a run of colours at an entry; it finishes one before   *)
(* it starts the next.                                                       *)
SetsIndex(i) ==
  /\ given = 0
  /\ Store(Cg3Index, i)
  /\ started' = TRUE /\ entry' = i
  /\ UNCHANGED <<vars, tint, given, expected>>

(* It gives a component; after the third the palette is at the next entry.   *)
GivesComponent ==
  /\ started
  /\ IF given = 0 THEN tint' \in Tints ELSE UNCHANGED tint
  /\ Store(Cg3Colour, tint'[given + 1])
  /\ IF given = 2
       THEN /\ given' = 0 /\ entry' = (entry + 1) % MapSize
            /\ expected' = [expected EXCEPT ![entry] = tint]
       ELSE given' = given + 1 /\ UNCHANGED <<entry, expected>>
  /\ UNCHANGED <<vars, started>>

(* A byte to the console's port, and a program that draws.                   *)
Writes8000 == /\ Answers("io", <<0, \h8000>>, "w") = "console" /\ console_glyph
              /\ UNCHANGED <<palette, program>>
Draws == /\ Answers("mem", <<\ha040, 0>>, "w") = "cvram" /\ DrawBelow
         /\ UNCHANGED <<palette, program>>

(* A reset: the glass is wiped, the map is grey again and the program starts *)
(* over.  The palette's index and phase are left where they are.             *)
hold_lines ==
  /\ ClearGlass
  /\ cgmap' = Grey /\ UNCHANGED <<cgidx, cgphase>>
  /\ started' = FALSE /\ entry' = 0 /\ given' = 0 /\ expected' = Grey
  /\ UNCHANGED tint

Next == \/ DeclareEntry
        \/ Running /\ Writes8000
        \/ Running /\ Draws
        \/ Running /\ hold_lines
        \/ Running /\ \E i \in Index : SetsIndex(i)
        \/ Running /\ GivesComponent

Spec == ScreenInit /\ [][Next]_screen

-----------------------------------------------------------------------------
(* What the screen shows for pixel b of byte i of scan line n: on the colour *)
(* board a byte is a pixel, and an entry of the map (screen_update_cg3); on  *)
(* the monochrome one each bit is, the low one leftmost, and a set one is    *)
(* black (screen_update).                                                    *)
Black == [k \in 1..3 |-> 0]
White == [k \in 1..3 |-> MapSize - 1]
Pixel(n, i, b) ==
  LET p == fb[n * Stride + i]
  IN  IF ColourBoard THEN cgmap[p] ELSE IF b \in p THEN Black ELSE White

(* The pixel x of scan line y of a cell. *)
CellPixel(r, c, y, x) ==
  IF ColourBoard THEN Pixel(r * GlyphLines + y, c * CellBytes + x, 0)
                 ELSE Pixel(r * GlyphLines + y, c * CellBytes, x)

-----------------------------------------------------------------------------
(* Properties *)

(* Every entry of the palette has the colour the program gave it since the   *)
(* reset, or its grey, but for the one colour being given: no component goes *)
(* to the wrong entry or place, over the end of the map or after a reset in  *)
(* mid colour (cg3_addr_w, cg3_data_w, hold_lines).                          *)
PaletteFollows ==
  \A i \in Index : cgmap[i] = expected[i] \/ (given > 0 /\ i = entry)

(* What was printed can be read on either board, from the first character    *)
(* on and after any reset: until the program changes the two colours the     *)
(* console uses, every cell is, pixel by pixel, the glyph of the character   *)
(* the terminal has there, black where the font has ink and white elsewhere  *)
(* (console_glyph, hold_lines, screen_update and screen_update_cg3).         *)
Untouched == \A i \in {0, MapSize - 1} : expected[i] = Grey[i] /\ (given > 0 => entry # i)
Legible ==
  Untouched =>
    \A r \in 0..Rows-1, c \in 0..Cols-1 :
      /\ ShownAt(r, c) \in Chars \cup {Blank}
      /\ \A y \in 0..GlyphLines-1, x \in 0..Width-1 :
           CellPixel(r, c, y, x) = IF x \in s_font[ShownAt(r, c)][y] THEN Black ELSE White

(* No entry covers another declared before it, in part or whole: every      *)
(* access goes to the only entry that names its byte, whatever the order of  *)
(* the declarations (mem_map, io_map, atblock_r and atblock_w; the comment   *)
(* above the catch-all of the board).                                        *)
NoneShadowed == \A i \in 1..declared-1 : ~Overlap(i, declared)

(* On a running machine the devices answer where the kernel looks for them:  *)
(* both serial chips with the channel on bit 3, the frame buffers, the       *)
(* palette, the SCSI chip, the diskette controller's registers by lane, the  *)
(* byte-addressed second DMA controller (mem_map, io_map, atblock_w).        *)
DevicesAnswer == declared = Len(map) => Misplaced = {}

-----------------------------------------------------------------------------
(* The palette and the program agree on where they are as soon as the        *)
(* program has set the index, whatever colour a reset broke off before, and  *)
(* the components given so far are in their places.                          *)
ScreenInv ==
  /\ cgmap \in [Index -> Colour] /\ expected \in [Index -> Colour]
  /\ cgidx \in Index /\ entry \in Index
  /\ cgphase \in 0..2 /\ given \in 0..2
  /\ started \in BOOLEAN /\ tint \in Tints
  /\ started => cgidx = entry /\ cgphase = given
  /\ ~started => given = 0
  /\ \A k \in 1..given : cgmap[entry][k] = tint[k]
  /\ PaletteFollows
=============================================================================
