------------------------------- MODULE Arena -------------------------------
(***************************************************************************)
(* The arena allocator (shared/code/memory/allocator/src/arena.c): memory  *)
(* is handed out upwards and never taken back.  Addresses and sizes are    *)
(* unsigned integers that wrap at WORD (2^64 in the code).                 *)
(***************************************************************************)
EXTENDS Integers

CONSTANTS
  WORD,       \* the number of values of a U64
  BEG, END,   \* the memory of the arena
  Aligns,     \* the alignments of the types allocated, powers of two
  Sizes,      \* the sizes of the types allocated
  Counts      \* how many are asked for

\* The end of an arena is aligned for every type: it is the end of a page.
ASSUME ArenaAssumption ==
  /\ WORD \in Nat /\ BEG \in Nat /\ END \in Nat /\ BEG <= END /\ END < WORD
  /\ Aligns \subseteq Nat \ {0} /\ Sizes \subseteq Nat \ {0} /\ Counts \subseteq Nat
  /\ \A align \in Aligns : END % align = 0
  /\ \A count \in Counts : count < WORD

VARIABLES
  curFree,   \* where the free memory begins
  blocks,    \* what has been handed out and is not empty, as [from, to, align]
  jumped     \* an allocation did not fit and jumped to the caller's handler

vars == <<curFree, blocks, jumped>>

Minus(a, b) == (a - b) % WORD

padding(align) == (-curFree) % align

\* Variant with a defect: the padding is not taken from what is available.
RoomUnpadded(align) == Minus(END, curFree)

\* What is left after the padding, as alloc computes it.
Room(align) == LET avail == Minus(END, curFree) IN Minus(avail, padding(align))

\* Variant with a defect: as many elements are compared with the bytes left.
FitsBytes(size, align, count) == count <= Room(align)

Fits(size, align, count) == count <= Room(align) \div size

alloc(size, align, count) ==
  LET p == (curFree + padding(align)) % WORD
      total == (size * count) % WORD
  IN
  /\ ~jumped /\ Fits(size, align, count)
  /\ curFree' = (p + total) % WORD
  /\ blocks' = blocks \cup {b \in {[from |-> p, to |-> p + total, align |-> align]} :
                             total > 0}
  /\ UNCHANGED jumped

\* Without NULLPTR_ON_FAIL the caller's handler is entered and the arena is used no more.
allocFails(size, align, count, nullptrOnFail) ==
  /\ ~jumped /\ ~Fits(size, align, count)
  /\ jumped' = ~nullptrOnFail
  /\ UNCHANGED <<curFree, blocks>>

Init == curFree = BEG /\ blocks = {} /\ jumped = FALSE

Next ==
  \/ \E size \in Sizes, align \in Aligns, count \in Counts :
       \/ alloc(size, align, count)
       \/ \E nullptrOnFail \in BOOLEAN : allocFails(size, align, count, nullptrOnFail)
  \/ jumped /\ UNCHANGED vars

Spec == Init /\ [][Next]_vars

-----------------------------------------------------------------------------

\* The types of the arena's pointer and of what it has handed out.
TypeOK ==
  /\ curFree \in 0 .. WORD - 1 /\ jumped \in BOOLEAN
  /\ blocks \subseteq [from : 0 .. WORD - 1, to : 0 .. WORD - 1, align : Aligns]

\* The arena never hands out memory behind its end, however the sizes wrap (arena.c);
\* two callers never share memory, and each gets the alignment of its type.
HandsOutApart ==
  /\ curFree \in BEG .. END
  /\ \A b \in blocks :
       /\ BEG <= b.from /\ b.from < b.to /\ b.to <= curFree /\ b.from % b.align = 0
       /\ \A c \in blocks : b = c \/ b.to <= c.from \/ c.to <= b.from
=============================================================================
