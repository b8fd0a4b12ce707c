------------------------------ MODULE MCScreen ------------------------------
(* A palette of two entries: the least in which a run of colours passes from *)
(* one entry to the next and over the end of the map; and one colour, whose  *)
(* components shifted by one place or more are another colour.  Glyphs of    *)
(* two pixels by two, neither of which is a mirror image of a glyph.         *)
EXTENDS Screen

TwoGlyphs ==
  LET Glyph(top, bottom) == [y \in 0..1 |-> IF y = 0 THEN top ELSE bottom]
  IN  [ch \in {"a", "b", " "} |-> CASE ch = "a" -> Glyph({0}, {0, 1})
                                    [] ch = "b" -> Glyph({0, 1}, {1})
                                    [] OTHER    -> Glyph({}, {})]

OneTint == {<<1, 0, 1>>}
=============================================================================
