-------------------------------- MODULE Pool --------------------------------
(***************************************************************************)
(* The pool allocator (shared/code/memory/allocator/src/pool.c): chunks of *)
(* one size on a free list whose links are kept in the free chunks         *)
(* themselves, in the bytes a caller may write while it holds the chunk.   *)
(***************************************************************************)
EXTENDS Integers, FiniteSets

CONSTANTS chunkCount, MaxCalls

PoolAssumption == chunkCount \in Nat \ {0, 1} /\ MaxCalls \in Nat

VARIABLES
  head,     \* pool->head
  next,     \* the first word of every chunk: the link of a free one
  held,     \* the chunks callers hold
  early,    \* freePool has been called while some chunks were free
  twice,    \* a chunk was handed out to two callers
  failed,   \* the last allocation found the list empty
  calls     \* calls made so far

vars == <<head, next, held, early, twice, failed, calls>>

NULL == 0
Chunks == 1 .. chunkCount

Call == calls < MaxCalls /\ calls' = calls + 1

-----------------------------------------------------------------------------

\* freePool pushes every chunk in the order of their addresses, on the list there is.
Pushed(h) == [c \in Chunks |-> IF c = 1 THEN h ELSE c - 1]

\* Variant with a defect: the loop runs once too often.
freePoolPastEnd ==
  /\ Call
  /\ next' = Pushed(head) /\ head' = chunkCount + 1
  /\ held' = {} /\ failed' = FALSE
  /\ early' = (early \/ head # NULL)
  /\ UNCHANGED twice

freePool ==
  /\ Call
  /\ next' = Pushed(head) /\ head' = chunkCount
  /\ held' = {} /\ failed' = FALSE
  /\ early' = (early \/ head # NULL)
  /\ UNCHANGED twice

\* Variant with a defect: the list is not moved on.
poolAllocKeepsHead ==
  /\ Call /\ head # NULL
  /\ head' = head
  /\ held' = held \cup {head}
  /\ twice' = (twice \/ head \in held)
  /\ failed' = FALSE
  /\ UNCHANGED <<next, early>>

poolAlloc ==
  /\ Call /\ head # NULL
  /\ head' = next[head]
  /\ held' = held \cup {head}
  /\ twice' = (twice \/ head \in held)
  /\ failed' = FALSE
  /\ UNCHANGED <<next, early>>

poolAllocFails ==
  /\ Call /\ head = NULL
  /\ failed' = TRUE
  /\ UNCHANGED <<head, next, held, early, twice>>

\* Variant with a defect: the chunk becomes the list without its link being set.
freePoolNodeUnlinked(c) ==
  /\ Call /\ c \in held
  /\ head' = c
  /\ held' = held \ {c} /\ failed' = FALSE
  /\ UNCHANGED <<next, early, twice>>

freePoolNode(c) ==
  /\ Call /\ c \in held
  /\ next' = [next EXCEPT ![c] = head] /\ head' = c
  /\ held' = held \ {c} /\ failed' = FALSE
  /\ UNCHANGED <<early, twice>>

\* A caller writes to a chunk it holds, over the link too.
CallerWrites(c, word) ==
  /\ c \in held
  /\ next' = [next EXCEPT ![c] = word]
  /\ UNCHANGED <<head, held, early, twice, failed, calls>>

\* createPoolAllocator: an empty list on which freePool puts every chunk.
Init ==
  /\ head = chunkCount /\ next = Pushed(NULL)
  /\ held = {} /\ early = FALSE /\ twice = FALSE /\ failed = FALSE /\ calls = 0

Next ==
  \/ freePool \/ poolAlloc \/ poolAllocFails
  \/ \E c \in Chunks : freePoolNode(c) \/ \E word \in Chunks \cup {NULL} : CallerWrites(c, word)
  \/ calls = MaxCalls /\ UNCHANGED vars

Spec == Init /\ [][Next]_vars

-----------------------------------------------------------------------------

\* The chunks on the list that n steps from c reach.
Reach[n \in Nat, c \in Chunks \cup {NULL}] ==
  IF n = 0 \/ c = NULL THEN {} ELSE {c} \cup Reach[n - 1, next[c]]

Free == Reach[chunkCount, head]

\* The types of the list, the callers' chunks and the histories.
TypeOK ==
  /\ head \in Chunks \cup {NULL} /\ next \in [Chunks -> Chunks \cup {NULL}]
  /\ held \subseteq Chunks /\ calls \in 0 .. MaxCalls
  /\ {early, twice, failed} \subseteq BOOLEAN

\* Unless freePool is called on a pool that has free chunks, the list holds exactly
\* the chunks nobody holds, whatever callers write to theirs.
ListIsTheRest == ~early => Free = Chunks \ held

\* A chunk is handed out to two callers, or an allocation fails with chunks left, only
\* after freePool was called on a pool that had free chunks.
OneHolder == ~early => ~twice /\ (failed => held = Chunks)
=============================================================================
