CONSTANTS
  ENTRIES = 2
  EntriesPerPage = 3
  MemoryMaps <- UnalignedMaps
  Requests = {1}
  MaxCalls = 0
SPECIFICATION Spec
INVARIANT NothingLost
