CONSTANTS
  ENTRIES = 2
  EntriesPerPage = 3
  MemoryMaps <- LargeListMaps
  Requests = {1, 2}
  MaxCalls = 5
SPECIFICATION Spec
INVARIANT HeldAligned
