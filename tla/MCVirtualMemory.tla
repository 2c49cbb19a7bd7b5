-------------------------- MODULE MCVirtualMemory --------------------------
EXTENDS VirtualMemory

\* Base pages of two bytes, large pages of two and huge pages of four of them.  Two
\* huge pages at each end, and between them the memory the loader used: its tables
\* and, at the end, the kernel.
MCRAM == {32 + 2 * i : i \in 0 .. 7} \cup {60 + 2 * i : i \in 0 .. 7} \cup {80 + 2 * i : i \in 0 .. 7}
MCSCREEN == {0}

\* The loader mapped the screen and, at the end of the addresses, the kernel.
MCLOADED == [v \in {0, 30} |-> IF v = 0 THEN 0 ELSE 74]
MCROOT == 60
MCTABLE_AT ==
  [q \in LoaderPlaces |->
     60 + 2 * (IF q.level = 0 THEN 0 ELSE 2 * q.level - (IF q.region = 0 THEN 1 ELSE 0))]
=============================================================================
