SPECIFICATION Spec
CONSTANTS
  INIT_MEMORY = 64
  FLUSH_BUFFER_SIZE = 8
  FILE_BUF_LEN = 4
  PageSize = 8
  ScreenSizes = {16, 25, 33, 44, 48, 49, 50, 60}
  Rings = 1
  Raised = {0, 1, 2, 3, 6, 8, 9, 12, 13, 14, 17, 18, 21, 29, 32, 35, 128, 255}
INVARIANTS InterruptsSound KeepsWhatItUses
PROPERTY BootSettles
CHECK_DEADLOCK FALSE
