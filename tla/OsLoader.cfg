SPECIFICATION FairSpec
CONSTANTS
  Memory <- SmallMemory
  FrameBuffer <- Screen
  UEFI_PAGE_SIZE = 4
  DESCRIPTORS_PER_PAGE = 6
  STACK_PAGES = 2
  GDT_PAGES = 3
  Handles <- FourHandles
  OwnMedia = 1
  OwnDisk = 1
  Magic <- ThreeKernels
  InfoFile <- TwoLines
  Processors <- OneMissing
  Tables <- SomeTables
  MaxFirmware = 2
  MaxBelow = 1
INVARIANTS HandOver KernelRead StopsOnlyWhenBusy
PROPERTY LoaderEnds
CHECK_DEADLOCK FALSE
