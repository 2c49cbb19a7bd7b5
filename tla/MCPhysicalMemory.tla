--------------------------- MODULE MCPhysicalMemory ---------------------------
EXTENDS PhysicalMemory
D(type, start, pages) ==
  [type |-> type, physicalStart |-> start, numberOfPages |-> pages]
C(start, pages) == D("CONVENTIONAL_MEMORY", start, pages)
R(start, pages) == D("RESERVED_MEMORY_TYPE", start, pages)

AlignedMaps == {
  \* one frame for basePMM's array, then an aligned run: everything is promoted
  <<C(3, 1), C(4, 8), R(12, 2), D("LOADER_DATA", 14, 2)>>,
  \* the array is taken from the run that then holds freeMemoryArray
  <<R(0, 1), C(1, 4), R(5, 1), C(7, 1), C(8, 8)>>,
  \* more runs than freeMemoryArray and basePMM's first array have room for
  <<C(1, 1), C(2, 1), C(4, 1), C(6, 2), C(8, 1), C(10, 1), C(12, 4), C(16, 1)>>,
  \* nothing, or too little, to start with
  <<R(0, 4)>>, <<C(0, 1)>>, <<C(0, 2)>> }

\* A run that does not start on a boundary of the next page size.
UnalignedMaps == { <<C(0, 2), C(4, 6)>> }

\* Boots with whole huge pages free and with two adjacent odd frames left, so
\* that largePMM's list can be filled and moved.
LargeListMaps == { <<C(0, 1), C(1, 1), C(3, 1), C(6, 18), C(25, 2)>> }

\* Boots with empty base and large lists and four huge pages free.
PlentyMaps == { <<C(1, 1), C(2, 1), C(5, 1), C(8, 16)>> }
=============================================================================
