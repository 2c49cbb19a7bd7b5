----------------------------- MODULE Libraries -----------------------------
(***************************************************************************)
(* The libraries that the kernel, the loader and the hosted builds share   *)
(* call one another only through the arena, so each of them is checked on  *)
(* its own: a behaviour chooses one library in its initial state and takes *)
(* the steps of that library alone.  The slots hold the variables of the   *)
(* library chosen; the arena, which has theorems, keeps its own.  Every    *)
(* INSTANCE names the bounds of its library.                               *)
(***************************************************************************)
EXTENDS Arena, Sequences

VARIABLES
  library,   \* the library of this behaviour
  v1, v2, v3, v4, v5, v6, v7, v8, v9, v10, v11

slots == <<v1, v2, v3, v4, v5, v6, v7, v8, v9, v10, v11>>
libVars == <<vars, library, slots>>

\* The hashes of the keys, up to a permutation of the keys.
Hashings3(hashes) ==
  {f \in [{"a", "b", "c"} -> hashes] : f["a"] <= f["b"] /\ f["b"] <= f["c"]}
Hashings4(hashes) ==
  {f \in [{"a", "b", "c", "d"} -> hashes] :
     f["a"] <= f["b"] /\ f["b"] <= f["c"] /\ f["c"] <= f["d"]}

pool == INSTANCE Pool WITH
  chunkCount <- 3, MaxCalls <- 6,
  head <- v1, next <- v2, held <- v3, early <- v4, twice <- v5, failed <- v6, calls <- v7

\* Sizes that need a block of 2 * HEADER, of more, and of half the memory.
buddy == INSTANCE Buddy WITH
  SIZE <- 32, HEADER <- 2, Totals <- {0, 1, 2, 5, 13}, MaxCalls <- 5,
  header <- v1, held <- v2, pc <- v3, size <- v4, block <- v5, buddy <- v6,
  best <- v7, retried <- v8, noCoalesce <- v9, failed <- v10, calls <- v11

\* Hashes that share their slots, their steps, or both.
msi == INSTANCE MsiSet WITH
  Keys <- {"a", "b", "c"}, BITS <- 6, Hashings <- Hashings3({0, 7, 23, 39, 56}),
  MaxExp <- 3, MaxCalls <- 6,
  hash <- v1, set <- v2, todo <- v3, result <- v4, members <- v5, calls <- v6

\* Two branches each: hashes that part at the root, below it, or not at all, and
\* hashes that are used up.
trie == INSTANCE HashTrie WITH
  Keys <- {"a", "b", "c", "d"},
  Hashings <- {[k \in DOMAIN f |-> <<f[k] \div 4, f[k] % 4>>] : f \in Hashings4({0, 3, 12})},
  NODE_MAX <- 3, MaxCalls <- 5,
  hash <- v1, node <- v2, nodeCount <- v3, jumped <- v4, pc <- v5, head <- v6,
  free <- v7, seen <- v8, expected <- v9, inserted <- v10, calls <- v11

\* The sizes at which memset and memcpy change their way of writing, and around them.
bytes == INSTANCE Manipulation WITH
  ADDRESSES <- 1024, WS <- 4,
  SetSizes <- {0, 1, 2, 3, 4, 5, 7, 8, 9, 16, 17, 31, 32, 33, 64, 65, 159, 160,
               161, 162, 191, 192, 193, 223, 224, 225, 255, 256, 257, 319, 320, 321,
               351, 352, 353, 480, 481},
  CopySizes <- {0, 1, 2, 3, 4, 5, 7, 8, 9, 15, 16, 17, 31, 32, 33, 34, 63, 64, 65, 96,
                97, 300},
  MoveSizes <- {0, 1, 2, 3, 4, 5, 7, 9, 12}, Places <- {0, 1, 2, 3, 4, 5, 6, 8, 9, 13},
  Bytes <- {0, 1, 255}, CompareSizes <- {0, 1, 2},
  call <- v1, pc <- v2, d <- v3, s <- v4, n <- v5, stores <- v6, mem <- v7, result <- v8

\* Every word, the floating point numbers around zero and around the largest, and
\* all short strings of letters and separators (TOKEN is -4).
text == INSTANCE Text WITH
  WORD <- 1024, HALF <- 256, SHORT <- 64, PREC <- 100,
  Halves <- -4100 .. 4100 \cup 102380 .. 102420 \cup -102420 .. -102380,
  Strings <- UNION {[1 .. k -> {1, -4}] : k \in 0 .. 5},
  call <- v1, pc <- v2, pos <- v3, out <- v4

tests == INSTANCE TestFramework WITH
  Faults <- {"nmi", "exhausted"}, MAX_TEST_TOPICS <- 4, MaxTopics <- 3, MaxTests <- 2,
  pc <- v1, loops <- v2, topics <- v3, started <- v4, jumper <- v5, triggered <- v6,
  tests <- v7, scores <- v8, exit <- v9

\* What the libraries require of their parameters.
ASSUME LibraryAssumptions ==
  pool!PoolAssumption /\ buddy!BuddyAssumption /\ msi!MsiAssumption /\ trie!TrieAssumption

-----------------------------------------------------------------------------

Is(name) == library = name

\* The slots that are not used, from the last one down.
NoneFrom10 == v10 = 0 /\ v11 = 0
NoneFrom8 == v8 = 0 /\ v9 = 0 /\ NoneFrom10
NoneFrom5 == v5 = 0 /\ v6 = 0 /\ v7 = 0 /\ NoneFrom8
NoneFrom1 == v1 = 0 /\ v2 = 0 /\ v3 = 0 /\ v4 = 0 /\ NoneFrom5

LibInit ==
  /\ Init
  /\ \/ Is("arena") /\ NoneFrom1
     \/ Is("pool") /\ pool!Init /\ NoneFrom8
     \/ Is("buddy") /\ buddy!Init
     \/ Is("msi") /\ msi!Init /\ v7 = 0 /\ NoneFrom8
     \/ Is("trie") /\ trie!Init
     \/ Is("bytes") /\ bytes!Init /\ v9 = 0 /\ NoneFrom10
     \/ Is("text") /\ text!Init /\ NoneFrom5
     \/ Is("tests") /\ tests!Init /\ NoneFrom10

\* Everything but the slots stays as it is.
Apart == UNCHANGED <<vars, library>>

ArenaNext == Is("arena") /\ Next /\ UNCHANGED <<library, slots>>
PoolNext == Is("pool") /\ pool!Next /\ Apart /\ UNCHANGED <<v8, v9, v10, v11>>
BuddyNext == Is("buddy") /\ buddy!Next /\ Apart
MsiNext == Is("msi") /\ msi!Next /\ Apart /\ UNCHANGED <<v7, v8, v9, v10, v11>>
TrieNext == Is("trie") /\ trie!Next /\ Apart
BytesNext == Is("bytes") /\ bytes!Next /\ Apart /\ UNCHANGED <<v9, v10, v11>>
TextNext == Is("text") /\ text!Next /\ Apart /\ UNCHANGED <<v5, v6, v7, v8, v9, v10, v11>>
TestsNext == Is("tests") /\ tests!Next /\ Apart /\ UNCHANGED <<v10, v11>>

LibNext == \/ ArenaNext \/ PoolNext \/ BuddyNext \/ MsiNext \/ TrieNext
           \/ BytesNext \/ TextNext \/ TestsNext

\* A call in progress runs to its end: nothing else runs meanwhile.
BuddyStep == Is("buddy") /\ buddy!Step /\ Apart
TrieStep == Is("trie") /\ trie!Iterating /\ Apart

LibSpec == LibInit /\ [][LibNext]_libVars /\ WF_libVars(BuddyStep) /\ WF_libVars(TrieStep)

-----------------------------------------------------------------------------

\* The allocators hand out what nobody else holds and lose nothing: the chunks a
\* pool has left are exactly the ones nobody holds whatever callers write to theirs,
\* unless freePool is called too early (pool.c); the blocks of the buddy allocator
\* tile its memory and what is held is kept, through every split, merge and pass
\* that coalesces (buddy.c).
AllocatorsSound ==
  /\ Is("pool") => pool!TypeOK /\ pool!ListIsTheRest /\ pool!OneHolder
  /\ Is("buddy") => buddy!TypeOK /\ buddy!Tiling /\ buddy!HeldIntact /\ buddy!NoBlockLost

\* The hash structures find exactly what was inserted, through collisions, rehashing
\* and insertions during an iteration: no probe of a table goes on for ever and two
\* sets are equal exactly when their members are (hash/msi); the numbers of a trie
\* are kept and its iterator returns every key once (hash/trie).
HashSound ==
  /\ Is("msi") => /\ msi!TypeOK /\ msi!NeverSpins /\ msi!FindsMembers
                  /\ msi!LenCounts /\ msi!EqualMeansEqual
  /\ Is("trie") => /\ trie!TypeOK /\ trie!FindsMembers /\ trie!Numbered
                   /\ trie!VisitsOnce /\ trie!VisitsAll

\* Memory and text come out as they went in: memset and memcpy write the bytes asked
\* for and no other at every size and alignment, memmove moves however its parts
\* overlap, memcmp orders (manipulation.c); a number written and read back is the
\* same number and the parts of a string are all of it (converter.c, parser.c).
BytesSound ==
  /\ Is("bytes") => /\ bytes!TypeOK /\ bytes!CoversExactly /\ bytes!AlignedStores
                    /\ bytes!Moves /\ bytes!CopyNeedsApart /\ bytes!Orders
  /\ Is("text") => /\ text!TypeOK /\ text!RoundTrip /\ text!SignedText
                   /\ text!RoundedText /\ text!PartsCover

\* Every test has one verdict and it is the right one, whichever way the test is left
\* by end, longjmp or break; the exit code and, unless a fault comes before anything is
\* expected, the scores of the topics agree with the verdicts (test.c, idt.c).
TestsSound ==
  Is("tests") => /\ tests!TypeOK /\ tests!OneVerdict /\ tests!TrueVerdicts
                 /\ tests!ExitCode /\ tests!ScoresTrue

\* Calls return: the passes of coalesceBuddies end (buddy.c), and an iteration over a
\* trie that grows meanwhile ends unless the caller's handler is entered (hash/trie).
CallsReturn ==
  /\ Is("buddy") /\ v3 # "idle" ~> Is("buddy") /\ v3 = "idle"
  /\ Is("trie") /\ v5 # "idle" ~> Is("trie") /\ (v5 = "idle" \/ v4)
=============================================================================
