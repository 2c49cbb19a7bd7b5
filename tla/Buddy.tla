------------------------------- MODULE Buddy -------------------------------
(***************************************************************************)
(* The buddy allocator (shared/code/memory/allocator/src/buddy.c).  The    *)
(* memory is a chain of blocks, each with a header that holds its size and *)
(* whether it is free; the next block begins where a block ends.  header   *)
(* maps the beginning of every block of the chain to its header.  What is  *)
(* asked for is the product size * count, as one number: a product that    *)
(* overflows its I64, which is undefined, is not among them.               *)
(***************************************************************************)
EXTENDS Integers

CONSTANTS
  SIZE,       \* the size of the memory, a power of two
  HEADER,     \* sizeof(BuddyBlock)
  Totals,     \* the sizes that are asked for, size * count
  MaxCalls    \* bound on the calls made

BuddyAssumption == /\ SIZE \in Nat /\ HEADER \in Nat \ {0} /\ SIZE > HEADER
                   /\ Totals \subseteq Nat /\ MaxCalls \in Nat

VARIABLES
  header,      \* the blocks: [size, isFree] by address
  held,        \* what callers hold: the size asked for by address of the block
  pc,          \* where the call in progress is
  size,        \* totalSize of the allocation in progress, 0 in a call to free
  block,       \* the left block of the walk
  buddy,       \* the right one
  best,        \* bestBlock, or NULL
  retried,     \* the search after coalescing
  noCoalesce,  \* the pass over the blocks has merged none
  failed,      \* the last call was an allocation that failed
  calls        \* calls made so far

walk == <<block, buddy, best>>
vars == <<header, held, pc, size, walk, retried, noCoalesce, failed, calls>>

NULL == -1
head == 0
tail == SIZE

\* The address behind a block, and the blocks there are.
nextBuddy(b) == b + header[b].size
Blocks == DOMAIN header
IsFree(b) == header[b].isFree

\* The walk goes on with b and the block behind it; with none there, buddy is stale.
WalkFrom(b) ==
  /\ block' = b
  /\ buddy' = IF b < tail THEN b + header'[b].size ELSE buddy

\* b and the block behind it become one.
Merge(b) ==
  header' = [x \in Blocks \ {nextBuddy(b)} |->
               IF x = b THEN [header[b] EXCEPT !.size = 2 * @] ELSE header[x]]

-----------------------------------------------------------------------------

Call == pc = "idle" /\ calls < MaxCalls /\ calls' = calls + 1

\* findBestBuddy begins; memory that is one free block is split at once.
FindFrom(h) ==
  IF head + h[head].size = tail /\ h[head].isFree
    THEN pc' = "split" /\ best' = head /\ UNCHANGED <<block, buddy>>
    ELSE pc' = "find" /\ best' = NULL /\ block' = head /\ buddy' = head + h[head].size

CoalescePass(h) ==
  /\ pc' = "coalesce" /\ noCoalesce' = TRUE
  /\ block' = head /\ buddy' = head + h[head].size

buddyAlloc(total) ==
  /\ Call
  /\ size' = total + HEADER /\ retried' = FALSE /\ failed' = FALSE
  /\ FindFrom(header)
  /\ UNCHANGED <<header, held, noCoalesce>>

\* Variant with a defect: the block behind the one that is given back is freed.
freeBuddyNext(b) ==
  /\ Call
  /\ held' = [x \in DOMAIN held \ {b} |-> held[x]]
  /\ header' = [header EXCEPT ![IF nextBuddy(b) = tail THEN b ELSE nextBuddy(b)].isFree = TRUE]
  /\ size' = 0 /\ failed' = FALSE
  /\ CoalescePass(header')
  /\ UNCHANGED <<best, retried>>

freeBuddy(b) ==
  /\ Call
  /\ held' = [x \in DOMAIN held \ {b} |-> held[x]]
  /\ header' = [header EXCEPT ![b].isFree = TRUE]
  /\ size' = 0 /\ failed' = FALSE
  /\ CoalescePass(header')
  /\ UNCHANGED <<best, retried>>

-----------------------------------------------------------------------------
(* findBestBuddy *)

InRange == block < tail /\ buddy < tail
Walking(where) == pc = where /\ InRange
MayMerge == IsFree(block) /\ IsFree(buddy) /\ header[block].size = header[buddy].size

FindMerge ==
  /\ Walking("find") /\ MayMerge
  /\ Merge(block)
  /\ best' = IF size <= header'[block].size
                /\ (best = NULL \/ header'[block].size <= header'[best].size)
               THEN block ELSE best
  /\ WalkFrom(nextBuddy(buddy))
  /\ UNCHANGED <<held, pc, size, retried, noCoalesce, failed, calls>>

\* The better of the best block so far and b.
Better(b, sofar) ==
  IF IsFree(b) /\ size <= header[b].size /\ (sofar = NULL \/ header[b].size < header[sofar].size)
    THEN b ELSE sofar

FindNext ==
  /\ Walking("find") /\ ~MayMerge
  /\ best' = Better(buddy, Better(block, best))
  /\ header' = header
  /\ IF header[block].size < header[buddy].size
       THEN WalkFrom(nextBuddy(buddy))
       ELSE block' = buddy /\ buddy' = nextBuddy(buddy)
  /\ UNCHANGED <<held, pc, size, retried, noCoalesce, failed, calls>>

\* buddyAlloc has been given no block: coalesce and search again, once.
NotFound ==
  IF retried
    THEN pc' = "idle" /\ failed' = TRUE /\ UNCHANGED <<block, buddy, noCoalesce>>
    ELSE CoalescePass(header) /\ UNCHANGED failed

FindEnd ==
  /\ pc = "find" /\ ~InRange
  /\ IF best # NULL
       THEN pc' = "split" /\ UNCHANGED <<block, buddy, noCoalesce, failed>>
       ELSE NotFound
  /\ UNCHANGED <<header, held, size, best, retried, calls>>

-----------------------------------------------------------------------------
(* splitBuddy: the right half is split on and given out. *)

\* Variant with a defect: the left half keeps its size.
SplitHalfOneSided ==
  LET half == header[best].size \div 2
      right == best + half
  IN
  /\ pc = "split" /\ 2 * size < header[best].size
  /\ header' = [x \in Blocks \cup {right} |->
                  IF x = right THEN [size |-> half, isFree |-> TRUE] ELSE header[x]]
  /\ best' = right
  /\ UNCHANGED <<held, pc, size, block, buddy, retried, noCoalesce, failed, calls>>

SplitHalf ==
  LET half == header[best].size \div 2
      right == best + half
  IN
  /\ pc = "split" /\ 2 * size < header[best].size
  /\ header' = [x \in Blocks \cup {right} |->
                  CASE x = right -> [size |-> half, isFree |-> TRUE]
                    [] x = best -> [header[best] EXCEPT !.size = half]
                    [] OTHER -> header[x]]
  /\ best' = right
  /\ UNCHANGED <<held, pc, size, block, buddy, retried, noCoalesce, failed, calls>>

SplitDone ==
  /\ pc = "split" /\ 2 * size >= header[best].size
  /\ IF size <= header[best].size
       THEN /\ header' = [header EXCEPT ![best].isFree = FALSE]
            /\ held' = [x \in DOMAIN held \cup {best} |->
                          IF x = best THEN size - HEADER ELSE held[x]]
            /\ pc' = "idle"
            /\ UNCHANGED <<block, buddy, noCoalesce, failed>>
       ELSE NotFound /\ UNCHANGED <<header, held>>
  /\ UNCHANGED <<size, best, retried, calls>>

-----------------------------------------------------------------------------
(* coalesceBuddies *)

\* Variant with a defect: a merge is done without looking at the right block.
CoalesceMergeUsed ==
  /\ Walking("coalesce") /\ IsFree(block) /\ header[block].size = header[buddy].size
  /\ Merge(block)
  /\ WalkFrom(nextBuddy(buddy))
  /\ noCoalesce' = (noCoalesce /\ block' >= tail)
  /\ UNCHANGED <<held, pc, size, best, retried, failed, calls>>

CoalesceMerge ==
  /\ Walking("coalesce") /\ MayMerge
  /\ Merge(block)
  /\ WalkFrom(nextBuddy(buddy))
  /\ noCoalesce' = (noCoalesce /\ block' >= tail)
  /\ UNCHANGED <<held, pc, size, best, retried, failed, calls>>

CoalesceNext ==
  /\ Walking("coalesce") /\ ~MayMerge
  /\ header' = header
  /\ IF header[block].size > header[buddy].size
       THEN block' = buddy /\ buddy' = nextBuddy(buddy)
       ELSE WalkFrom(nextBuddy(buddy))
  /\ UNCHANGED <<held, pc, size, best, retried, noCoalesce, failed, calls>>

\* Variant with a defect: a pass is repeated even when it has merged nothing.
CoalesceEndForever ==
  /\ pc = "coalesce" /\ ~InRange
  /\ CoalescePass(header) /\ UNCHANGED <<best, retried>>
  /\ UNCHANGED <<header, held, size, failed, calls>>

\* A pass that has merged something is followed by another.
CoalesceEnd ==
  /\ pc = "coalesce" /\ ~InRange
  /\ \/ ~noCoalesce /\ CoalescePass(header) /\ UNCHANGED <<best, retried>>
     \/ noCoalesce /\ size = 0 /\ pc' = "idle" /\ UNCHANGED <<walk, retried, noCoalesce>>
     \/ noCoalesce /\ size > 0 /\ FindFrom(header) /\ retried' = TRUE /\ UNCHANGED noCoalesce
  /\ UNCHANGED <<header, held, size, failed, calls>>

Finished == pc = "idle" /\ calls = MaxCalls /\ UNCHANGED vars

-----------------------------------------------------------------------------

\* createBuddyAllocator
Init ==
  /\ header = [x \in {head} |-> [size |-> SIZE, isFree |-> TRUE]]
  /\ held = [x \in {} |-> 0]
  /\ pc = "idle" /\ size = 0 /\ block = head /\ buddy = tail /\ best = NULL
  /\ retried = FALSE /\ noCoalesce = TRUE /\ failed = FALSE /\ calls = 0

Step == \/ FindMerge \/ FindNext \/ FindEnd \/ SplitHalf \/ SplitDone
        \/ CoalesceMerge \/ CoalesceNext \/ CoalesceEnd

Next == \/ \E total \in Totals : buddyAlloc(total)
        \/ \E b \in DOMAIN held : freeBuddy(b)
        \/ Step
        \/ Finished

Spec == Init /\ [][Next]_vars

-----------------------------------------------------------------------------

\* The types of the blocks, the call in progress and the counters.
TypeOK ==
  /\ Blocks \subseteq 0 .. SIZE - 1 /\ head \in Blocks
  /\ header \in [Blocks -> [size : 1 .. SIZE, isFree : BOOLEAN]]
  /\ DOMAIN held \subseteq Blocks /\ held \in [DOMAIN held -> Nat]
  /\ pc \in {"idle", "find", "split", "coalesce"}
  /\ size \in Nat /\ block \in 0 .. SIZE /\ buddy \in 0 .. SIZE
  /\ best \in {NULL} \cup 0 .. SIZE
  /\ retried \in BOOLEAN /\ noCoalesce \in BOOLEAN /\ failed \in BOOLEAN
  /\ calls \in 0 .. MaxCalls

\* The blocks tile the memory: whatever is split and merged, every block ends
\* where another begins or at the end of the memory, and none begins inside another.
Tiling ==
  \A b \in Blocks : /\ nextBuddy(b) \in Blocks \cup {tail}
                    /\ \A c \in Blocks : c <= b \/ nextBuddy(b) <= c

\* What a caller holds stays its own: its block is there, is not free and is large
\* enough for what was asked, so no split, merge or other allocation touches it.
HeldIntact ==
  \A b \in DOMAIN held : /\ b \in Blocks /\ ~IsFree(b)
                         /\ held[b] + HEADER <= header[b].size

\* Between calls a block that is not free is held by a caller: none is lost.
NoBlockLost == pc = "idle" => \A b \in Blocks : IsFree(b) \/ b \in DOMAIN held
=============================================================================
