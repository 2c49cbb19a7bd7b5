---------------------------- MODULE Manipulation ----------------------------
(***************************************************************************)
(* The kernel's own memcpy, memmove, memset and memcmp (manipulation.c).   *)
(* memcpy and memset write with overlapping stores of 1, 4, 8, 16 and 32   *)
(* bytes: what matters is which bytes the stores of a call cover, so a     *)
(* store is its offset, its width and whether it is an aligned one.        *)
(* memmove works on memory whose parts overlap, so there the memory itself *)
(* is kept.  Addresses have the width of ADDRESSES.                        *)
(***************************************************************************)
EXTENDS Integers, Sequences, FiniteSets, FiniteSetsExt

CONSTANTS
  ADDRESSES,      \* 2^w, the number of addresses
  WS,             \* size of the words memmove moves
  SetSizes, CopySizes,    \* sizes of the calls of memset and of memcpy
  MoveSizes, Places,      \* sizes of the calls of memmove, and their addresses
  Bytes, CompareSizes     \* what memcmp compares: values, and lengths

VARIABLES
  call,       \* the call: op, and its arguments
  pc, d, s, n,
  stores,     \* what memcpy or memset wrote
  mem,        \* what memmove works on: address -> the address it came from
  result      \* of memcmp

vars == <<call, pc, d, s, n, stores, mem, result>>

Memory == 0 .. Max(Places) + Max(MoveSizes)

Calls ==
  [op : {"memset"}, d : 0 .. 31, s : {0}, n : SetSizes, data : { << >> }]
    \cup [op : {"memcpy"}, d : {0}, s : {0}, n : CopySizes, data : { << >> }]
    \cup [op : {"memmove"}, d : Places, s : Places, n : MoveSizes, data : { << >> }]
    \cup UNION {[op : {"memcmp"}, d : {0}, s : {0}, n : {k},
                 data : [1 .. 2 -> [1 .. k -> Bytes]]] : k \in CompareSizes}

\* The types of the call in progress: pointers and sizes do not wrap.
TypeOK ==
  /\ pc \in {"call", "memcpy", "chunks", "huge", "rest", "forward", "words", "bytes",
             "back", "backWords", "backBytes", "compare", "done"}
  /\ d \in 0 .. ADDRESSES - 1 /\ s \in 0 .. ADDRESSES - 1 /\ n \in 0 .. ADDRESSES - 1
  /\ Len(stores) <= ADDRESSES \div 8
  /\ DOMAIN mem = Memory

Init ==
  /\ call \in Calls
  /\ pc = "call" /\ d = call.d /\ s = call.s /\ n = call.n
  /\ stores = << >> /\ mem = [a \in Memory |-> a] /\ result = 0

Store(offset, width) == [at |-> offset, width |-> width, aligned |-> FALSE]
AlignedStore(offset) == [at |-> offset, width |-> 32, aligned |-> TRUE]

-----------------------------------------------------------------------------
(* memcpy and memset.  d is the offset of the next store.                  *)

\* Up to 32 bytes: two stores, one from each end; four single bytes below 5.
Small(k) ==
  CASE k = 0 -> << >>
    [] k \in 1 .. 2 -> <<Store(0, 1), Store(k - 1, 1)>>
    [] k \in 3 .. 4 -> <<Store(0, 1), Store(k - 1, 1), Store(1, 1), Store(2, 1)>>
    [] k \in 5 .. 7 -> <<Store(0, 4), Store(k - 4, 4)>>
    [] k \in 8 .. 16 -> <<Store(0, 8), Store(k - 8, 8)>>
    [] OTHER -> <<Store(0, 16), Store(k - 16, 16)>>

SmallCall ==
  /\ pc' = "done" /\ stores' = Small(n)
  /\ UNCHANGED <<call, d, s, n, mem, result>>

\* The first chunk of a larger call.
FirstChunk(store, next, label) ==
  /\ pc' = label /\ stores' = <<store>> /\ d' = next
  /\ UNCHANGED <<call, s, n, mem, result>>

memcpy == IF n <= 32 THEN SmallCall ELSE FirstChunk(Store(0, 32), 32, "chunks")

Memcpy ==
  /\ (pc = "call" /\ call.op = "memcpy") \/ pc = "memcpy"
  /\ memcpy

\* Variant with a defect: the aligned stores start a whole chunk after the first.
memsetUnaligned ==
  /\ pc = "call" /\ call.op = "memset"
  /\ IF n < 32 THEN SmallCall
     ELSE IF n <= 160 THEN FirstChunk(Store(0, 32), 32, "chunks")
     ELSE FirstChunk(Store(0, 32), 32, "huge")

\* From n = 32 on chunks of 32, beyond 160 aligned ones, five at a time.
memset ==
  /\ pc = "call" /\ call.op = "memset"
  /\ IF n < 32 THEN SmallCall
     ELSE IF n <= 160 THEN FirstChunk(Store(0, 32), 32, "chunks")
     ELSE FirstChunk(Store(0, 32), 32 - (call.d % 32), "huge")

\* do ... while (d < last_word_d), then the last 32 bytes.
Chunks ==
  /\ pc = "chunks"
  /\ IF d < n - 32
     THEN pc' = pc /\ stores' = Append(stores, Store(d, 32)) /\ d' = d + 32
     ELSE pc' = "done" /\ stores' = Append(stores, Store(n - 32, 32)) /\ d' = d
  /\ UNCHANGED <<call, s, n, mem, result>>

HugeLoop ==
  /\ pc = "huge"
  /\ IF d + 32 * 5 < n
     THEN /\ stores' = stores \o [i \in 1 .. 5 |-> AlignedStore(d + 32 * (i - 1))]
          /\ d' = d + 32 * 5 /\ pc' = pc
     ELSE pc' = "rest" /\ UNCHANGED <<stores, d>>
  /\ UNCHANGED <<call, s, n, mem, result>>

\* Variant with a defect: one store fewer is tried.
TriesThree == 3

Tries == 4

\* TRY_STAMP_32_BYTES, then the last unaligned 32 bytes.
HugeRest ==
  LET tried == {i \in 0 .. Tries - 1 : d + 32 * i < n - 32}
  IN /\ pc = "rest" /\ pc' = "done"
     /\ stores' = Append(stores \o [i \in 1 .. Cardinality(tried) |->
                                      AlignedStore(d + 32 * (i - 1))],
                         Store(n - 32, 32))
     /\ UNCHANGED <<call, d, s, n, mem, result>>

-----------------------------------------------------------------------------
(* memmove.                                                                *)

\* Variant with a defect: the distance is compared with the size, not with twice the size.
ApartOnce == ((s - d - n) % ADDRESSES) <= ((0 - n) % ADDRESSES)

\* The unsigned test for parts that do not overlap.
Apart == ((s - d - n) % ADDRESSES) <= ((0 - 2 * n) % ADDRESSES)

memmove ==
  /\ pc = "call" /\ call.op = "memmove"
  /\ pc' = IF d = s THEN "done"
           ELSE IF Apart THEN "memcpy"
           ELSE IF d < s THEN (IF s % WS = d % WS THEN "forward" ELSE "bytes")
           ELSE (IF s % WS = d % WS THEN "back" ELSE "backBytes")
  /\ UNCHANGED <<call, d, s, n, stores, mem, result>>

\* What a move of k bytes makes of the memory.
Moved(to, from, k) ==
  [a \in Memory |-> IF a \in to .. to + k - 1 THEN mem[from + a - to] ELSE mem[a]]

\* From the front: k bytes.
Forward(k, label) ==
  /\ mem' = Moved(d, s, k) /\ d' = d + k /\ s' = s + k /\ n' = n - k /\ pc' = label
  /\ UNCHANGED <<call, stores, result>>

\* Variant with a defect: the end of the source is found with the size that is left after it.
BackShort(k, label) ==
  /\ mem' = Moved(d + n - k, s + n - k, k - 1) /\ n' = n - k /\ pc' = label
  /\ UNCHANGED <<call, d, s, stores, result>>

\* From the back: the last k bytes.
Back(k, label) ==
  /\ mem' = Moved(d + n - k, s + n - k, k) /\ n' = n - k /\ pc' = label
  /\ UNCHANGED <<call, d, s, stores, result>>

Skip(label) == pc' = label /\ UNCHANGED <<call, d, s, n, stores, mem, result>>

\* Variant with a defect: words are moved while there is anything left to move.
ForwardWordsAll ==
  /\ pc = "words"
  /\ IF n > 0 THEN Forward(WS, pc) ELSE Skip("bytes")

\* Bytes up to a word boundary, then words, then the bytes left.
ForwardAlign ==
  /\ pc = "forward"
  /\ IF d % WS = 0 THEN Skip("words")
     ELSE IF n = 0 THEN Skip("done") ELSE Forward(1, pc)

ForwardWords ==
  /\ pc = "words"
  /\ IF n >= WS THEN Forward(WS, pc) ELSE Skip("bytes")

ForwardBytes ==
  /\ pc = "bytes"
  /\ IF n > 0 THEN Forward(1, pc) ELSE Skip("done")

BackAlign ==
  /\ pc = "back"
  /\ IF (d + n) % WS = 0 THEN Skip("backWords")
     ELSE IF n = 0 THEN Skip("done") ELSE Back(1, pc)

BackWords ==
  /\ pc = "backWords"
  /\ IF n >= WS THEN Back(WS, pc) ELSE Skip("backBytes")

BackBytes ==
  /\ pc = "backBytes"
  /\ IF n > 0 THEN Back(1, pc) ELSE Skip("done")

-----------------------------------------------------------------------------
(* memcmp: s is i, the bytes found equal so far.                           *)

\* Variant with a defect: the bytes are subtracted the other way round.
CompareSwapped ==
  /\ pc = "compare"
  /\ IF s < n /\ call.data[1][s + 1] = call.data[2][s + 1]
     THEN s' = s + 1 /\ UNCHANGED <<pc, result>>
     ELSE /\ pc' = "done" /\ UNCHANGED s
          /\ result' = IF s = n THEN 0 ELSE call.data[2][s + 1] - call.data[1][s + 1]
  /\ UNCHANGED <<call, d, n, stores, mem>>

Compare ==
  /\ pc = "compare"
  /\ IF s < n /\ call.data[1][s + 1] = call.data[2][s + 1]
     THEN s' = s + 1 /\ UNCHANGED <<pc, result>>
     ELSE /\ pc' = "done" /\ UNCHANGED s
          /\ result' = IF s = n THEN 0 ELSE call.data[1][s + 1] - call.data[2][s + 1]
  /\ UNCHANGED <<call, d, n, stores, mem>>

\* Equal pointers are not compared; they point to the same bytes.
memcmp ==
  /\ pc = "call" /\ call.op = "memcmp"
  /\ \/ call.data[1] = call.data[2] /\ Skip("done")
     \/ Skip("compare")

Next ==
  \/ Memcpy \/ memset \/ Chunks \/ HugeLoop \/ HugeRest
  \/ memmove \/ ForwardAlign \/ ForwardWords \/ ForwardBytes
  \/ BackAlign \/ BackWords \/ BackBytes
  \/ memcmp \/ Compare

Spec == Init /\ [][Next]_vars

-----------------------------------------------------------------------------
\* The bytes that the stores of a call cover.
Covered == UNION {stores[i].at .. stores[i].at + stores[i].width - 1 : i \in DOMAIN stores}

\* The stores of a call of memset, memcpy, or memmove by way of memcpy, cover
\* the n bytes they are asked for and no other, at every size and alignment.
CoversExactly ==
  pc = "done" /\ (call.op \in {"memset", "memcpy"} \/ stores # << >>) =>
    Covered = 0 .. call.n - 1

\* A store that the code declares aligned is at a multiple of 32.
AlignedStores ==
  \A i \in DOMAIN stores : stores[i].aligned => (call.d + stores[i].at) % 32 = 0

\* memmove moves: the destination holds what the source held before the call,
\* however the two overlap, and nothing else changes.
Moves ==
  pc = "done" /\ call.op = "memmove" /\ stores = << >> =>
    mem = [a \in Memory |-> IF a \in call.d .. call.d + call.n - 1
                            THEN call.s + a - call.d ELSE a]

\* memmove leaves the work to memcpy, which may copy in any order, only when
\* the parts have no byte in common.
CopyNeedsApart ==
  pc = "memcpy" => (call.d .. call.d + n - 1) \cap (call.s .. call.s + n - 1) = {}

\* memcmp orders as the first byte that differs, bytes being unsigned.
Orders ==
  pc = "done" /\ call.op = "memcmp" =>
    LET differ == {i \in 1 .. call.n : call.data[1][i] # call.data[2][i]}
    IN (IF differ = {} THEN result = 0
        ELSE (result < 0) = (call.data[1][Min(differ)] < call.data[2][Min(differ)])
             /\ result # 0)
=============================================================================
