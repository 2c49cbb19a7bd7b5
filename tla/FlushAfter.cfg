CONSTANTS
  FLUSH_BUFFER_SIZE = 3
  Bytes = {"a", "b", "c", "d", "e", "LF", "NUL"}
  Strings <- SomeStrings
  Zeros = {1, 5}
  Devices = {"screen", "console", "file"}
  MaxCalls = 12
  Blocks <- SomeBlocks
  MaxFailures = 3
  MaxFreeCalls = 3
SPECIFICATION BlockSpec
INVARIANTS BlockTypeOK WithinBuffer NothingLost FlushedMeansDelivered BlockDelivered
PROPERTIES IsStream CallsReturn BlockEnds
