SPECIFICATION FairSpec
CONSTANTS
  ENTRIES = 2
  PAGE_FRAME_SIZE = 2
  START = 2
  END = 30
  SCREEN <- MCSCREEN
  RAM <- MCRAM
  ROOT <- MCROOT
  LOADED <- MCLOADED
  TABLE_AT <- MCTABLE_AT
  Bytes = {1, 3, 9}
  Preferred = {1, 4, 16}
  Numbers = {1, 2}
  MaxCalls = 3
INVARIANTS MappingsRight FramesRight
PROPERTY CallsReturn
