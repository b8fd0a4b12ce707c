------------------------------ MODULE Terminal ------------------------------
(***************************************************************************)
(* What the screen console promises: a grid of characters with a cursor,   *)
(* a line that is full goes on in the next, and the grid moves up by one   *)
(* row when the cursor leaves it at the bottom.  Nothing of this touches   *)
(* the strip of the screen below the last row.                             *)
(***************************************************************************)
EXTENDS Naturals

CONSTANTS Rows, Cols, Chars, Blank

VARIABLES cell,    \* the character at [row][column]
          col, row,  \* the cursor
          strip    \* what is below the last row

vars == <<cell, col, row, strip>>

Clear == [r \in 0..Rows-1 |-> [c \in 0..Cols-1 |-> Blank]]

MovedUp(g) == [r \in 0..Rows-1 |-> IF r + 1 < Rows THEN g[r + 1] ELSE Clear[r]]

NextLine(g) == /\ col' = 0
               /\ IF row + 1 < Rows THEN row' = row + 1 /\ cell' = g
                                    ELSE row' = row /\ cell' = MovedUp(g)

Return    == col' = 0 /\ UNCHANGED <<cell, row, strip>>
Backspace == col > 0 /\ col' = col - 1 /\ UNCHANGED <<cell, row, strip>>
LineFeed  == NextLine(cell) /\ UNCHANGED strip

Put(ch) ==
  LET g == [cell EXCEPT ![row][col] = ch]
  IN  /\ IF col + 1 < Cols THEN col' = col + 1 /\ cell' = g /\ row' = row
                           ELSE NextLine(g)
      /\ UNCHANGED strip

(* The screen is cleared, or somebody draws below the last row. *)
Wipe == cell' = Clear /\ col' = 0 /\ row' = 0
Draw == UNCHANGED <<cell, col, row>>

Init == cell = Clear /\ col = 0 /\ row = 0

Next == \/ Return \/ Backspace \/ LineFeed \/ Wipe \/ Draw
        \/ \E ch \in Chars : Put(ch)

Spec == Init /\ [][Next]_vars
=============================================================================
