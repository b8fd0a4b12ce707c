CONSTANTS
  Rows = 3
  Cols = 2
  GlyphLines = 2
  Width = 2
  CellBytes = 2
  ColourBoard = TRUE
  SpareLines = 1
  Chars = {"a", "b"}
  s_font <- TwoGlyphs
  MapSize = 2
  Tints <- OneTint
SPECIFICATION Spec
INVARIANTS CursorOnGlass PaletteFollows Legible NoneShadowed DevicesAnswer
PROPERTIES IsTerminal
