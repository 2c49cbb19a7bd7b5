CONSTANTS
  ENTRIES = 2
  EntriesPerPage = 3
  MemoryMaps <- AlignedMaps
  Requests = {1, 2}
  MaxCalls = 4
SPECIFICATION Spec
INVARIANT NoOverrun
