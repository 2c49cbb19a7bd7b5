CONSTANTS
  ENTRIES = 2
  EntriesPerPage = 3
  MemoryMaps <- AlignedMaps
  Requests = {1, 2}
  MaxCalls = 5
SPECIFICATION FairSpec
INVARIANTS TypeOK SingleOwner NothingLost ExactlyWhatWasAsked Aligned ListFitsArray
PROPERTIES GatherFaultsOnlyWhenShort EveryCallEnds BootEnds
