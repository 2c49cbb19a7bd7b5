SPECIFICATION FairSpec
CONSTANTS
  MIN_CLUSTERS_OF_FAT32 = 30
  DEFAULT_RESERVED_SECTORS = 8
  GPT_PARTITION_TABLE_SIZE = 32
  U32_BYTES = 4
  INF_BYTES = 7
  MiB = 128
  LBASizes = {16, 32}
  Alignments = {0, 8, 64}
  EfiSizes = {1, 33, 64}
  KernelSizes = {0, 16, 49}
INVARIANTS TablesSound ReadBack FailureCleansUp
PROPERTY BuilderEnds
CHECK_DEADLOCK FALSE
