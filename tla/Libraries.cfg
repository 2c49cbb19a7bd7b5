SPECIFICATION LibSpec
CONSTANTS
  WORD = 32
  BEG = 3
  END = 16
  Aligns = {1, 2, 8}
  Sizes = {1, 3}
  Counts = {0, 2, 4, 11}
INVARIANTS HandsOutApart AllocatorsSound HashSound BytesSound TestsSound
PROPERTY CallsReturn
CHECK_DEADLOCK FALSE
