SPECIFICATION Spec
CONSTANTS
  glyphsPerLine = 3
  glyphsPerColumn = 2
  ringGlyphsPerColumn = 4
  FILE_BUF_LEN = 16
  MAX_SCROLLBACK_LINES = 4
  TAB_SIZE_IN_GLYPHS = 2
  Flushes <- SomeFlushes
  Garbage = {"nul", "newline"}
  MaxCalls = 4
INVARIANTS ShowsText RingsSound
CHECK_DEADLOCK FALSE
