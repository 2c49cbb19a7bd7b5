CONSTANTS
  ENTRIES = 2
  EntriesPerPage = 3
  MemoryMaps <- PlentyMaps
  Requests = {1, 2}
  MaxCalls = 4
SPECIFICATION Spec
PROPERTY FreeAddsThePages
