SPECIFICATION PatternSpec
CONSTANTS
  H_VISIBLE = 16
  H_FRONT = 1
  H_SYNC = 2
  H_TOTAL = 20
  V_VISIBLE = 8
  V_FRONT = 1
  V_SYNC = 2
  V_TOTAL = 12
  GRID = 5
  LEVELS = 8
  Mode <- AllModes
  Lut <- InverseLut
  Bitmap <- Glyph
INVARIANT PatternAligned
