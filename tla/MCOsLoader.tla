----------------------------- MODULE MCOsLoader -----------------------------
EXTENDS OsLoader

\* Free memory around a page of the firmware and one that is reserved.
SmallMemory ==
  [p \in 0 .. 23 |-> IF p = 5 THEN "firmware" ELSE IF p = 17 THEN "reserved" ELSE "conventional"]

\* A partition of our disk, another disk with a kernel, our disk, and a disk with a
\* kernel and the MediaId of ours.
FourHandles == <<[disk |-> 1, media |-> 1, offset |-> 3, blockSize |-> 2],
                 [disk |-> 2, media |-> 2, offset |-> 0, blockSize |-> 4],
                 [disk |-> 1, media |-> 1, offset |-> 0, blockSize |-> 2],
                 [disk |-> 3, media |-> 1, offset |-> 0, blockSize |-> 4]>>
ThreeKernels == {<<1, 12>>, <<2, 12>>, <<3, 12>>}

TwoLines == <<<<5>>, <<1, 2>>>>

OneMissing == {Required, Required \ {"SSE"}}

SomeTables ==
  {<<[revision |-> 2, checksum |-> 0], [revision |-> 1, checksum |-> 0]>>,
   <<[revision |-> 1, checksum |-> 0], [revision |-> 2, checksum |-> 7]>>,
   <<[revision |-> 1, checksum |-> 3]>>}

Screen == {100, 101}
=============================================================================
