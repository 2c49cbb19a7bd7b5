------------------------ MODULE PhysicalOwnersProofs ------------------------
(***************************************************************************)
(* Who owns the frames of memory: the physical memory manager neither      *)
(* gives a frame to two owners nor loses one, for every page table size,   *)
(* every memory map and every sequence of calls.  The owners of a frame    *)
(* are counted; every step of the manager takes from one what it gives to  *)
(* another.                                                                *)
(***************************************************************************)
EXTENDS PhysicalMemoryProofs, FiniteSetTheorems

-----------------------------------------------------------------------------
(* How often a frame is owned.  The owners are those Claims lists; counted, *)
(* what a step gives to one owner it takes from another.                    *)

\* The runs of a list that frame f is in, and how many they are.
Hits(runs, ps, f) == {i \in DOMAIN runs : f \in FramesOf(runs[i], ps)}
In(runs, ps, f) == Cardinality(Hits(runs, ps, f))
IsIn(run, ps, f) == IF f \in FramesOf(run, ps) THEN 1 ELSE 0

InLists(f) == In(memory[BASE_PAGE], BASE_PAGE, f) + In(memory[LARGE_PAGE], LARGE_PAGE, f)
              + In(memory[HUGE_PAGE], HUGE_PAGE, f)
InArrays(f) == IsIn(buf[BASE_PAGE], BASE_PAGE, f) + IsIn(buf[LARGE_PAGE], BASE_PAGE, f)
               + IsIn(buf[HUGE_PAGE], BASE_PAGE, f)

\* The runs passed to the calls of a stack.  Calls are numbered from the bottom,
\* so that a call keeps its number while it is in progress.
HitsOf(frame, f) == Hits(frame.pages, frame.ps, f)
PassedHits(s, f) == UNION {{d} \X HitsOf(s[Len(s) + 1 - d], f) : d \in 1 .. Len(s)}
InPassed(s, f) == Cardinality(PassedHits(s, f))
InGot(s, f) == IF s = <<>> THEN 0 ELSE In(s[1].got, GotSize(s[1]), f)
InCalls(s, f) == InPassed(s, f) + InGot(s, f)

ResultSize == IF phase = "buffer" THEN BASE_PAGE ELSE pageSize
InResult(f) == In(result, ResultSize, f)
HeldHits(f) == {h \in held : f \in FramesOf(h.run, h.ps)}
InHeld(f) == Cardinality(HeldHits(f))
MapHits(f) == {i \in Uncollected : /\ Booting /\ canBeUsedByOS(descriptors[i].type)
                                   /\ f \in FramesOf(DescriptorRun(i), BASE_PAGE)}
InBoot(f) == In(freeMemory, BASE_PAGE, f) + IsIn(holder, BASE_PAGE, f)
             + Cardinality(MapHits(f))

InHand(f) == InLists(f) + InArrays(f) + InCalls(stack, f) + InResult(f)
Owners(f) == InHand(f) + InBoot(f) + InHeld(f)

\* Usable frames have an owner until the calls are abandoned, and no frame has two
\* as long as only basePMM's list has been moved.
OwnedOnce == OnlyBaseGrew => \A f \in Int : Owners(f) <= 1
OwnedStill == ~Stopped => \A f \in Frames : Owners(f) >= 1

-----------------------------------------------------------------------------
(* What the frames of the calls promise one another. *)

\* A call of allocContiguousPhysicalPagesWithManager has no pages before it has
\* split larger ones.
EmptyHanded(frame) == frame.pc \in {"alloc", "split"} => frame.pages = <<>>

\* What is asked of, and what has come from, the manager of larger pages or, for
\* an array, basePMM.
Answers(frame, pages, used) ==
  /\ frame.pc = "split" => pages = CeilingDiv(frame.n, ENTRIES)
  /\ frame.pc = "grow" => pages <= used[frame.ps] + 1
Promised ==
  /\ \A d \in DOMAIN stack : EmptyHanded(stack[d])
  /\ \A d \in 2 .. Len(stack) : Answers(stack[d], stack[d - 1].n, usedBasePages)
  /\ stack # <<>> /\ top.pc \in {"split", "grow"} =>
       Answers(top, top.got[1].numberOfPages, usedBasePages)

\* No array has more frames than its manager counts.
ArraysBounded ==
  /\ \A ps \in PageSizes : buf[ps].numberOfPages <= usedBasePages[ps]
  /\ phase = "buffer" =>
       /\ stack # <<>> => stack[Len(stack)].n <= usedBasePages[pageSize]
       /\ stack = <<>> => result[1].numberOfPages <= usedBasePages[pageSize]

\* freeMemoryArray is stored nowhere before the first usable run is found.
NoHolderYet == phase = "first" => holder = Run(0, 0)

\* initPMM promotes only runs that start on a boundary of the larger page size.
PromotesFromBoundary ==
  LET smaller == toSmallerPageSize(pageSize)
      run == memory[smaller][index]
      moved == (AlignUp(run.pageStart, pageSize) - run.pageStart) \div smaller
  IN  /\ Idle("promote") /\ index <= Len(memory[smaller])
      /\ run.numberOfPages >= moved + ENTRIES
      => run.pageStart % pageSize = 0
-----------------------------------------------------------------------------
(* Counting the runs of a list that a frame is in *)

\* The runs of a list are finitely many, so its hits can be counted.
LEMMA HitsFinite ==
  ASSUME NEW runs \in Seq(PagedMemory), NEW ps, NEW f
  PROVE  /\ IsFiniteSet(Hits(runs, ps, f)) /\ In(runs, ps, f) \in Nat
         /\ Hits(runs, ps, f) \subseteq 1 .. Len(runs)
<1>1. Hits(runs, ps, f) \in SUBSET (1 .. Len(runs))
  BY DEF Hits
<1>2. IsFiniteSet(1 .. Len(runs))
  BY FS_Interval
<1>3. IsFiniteSet(Hits(runs, ps, f))
  BY <1>1, <1>2, FS_Subset
<1> QED BY <1>1, <1>3, FS_CardinalityType DEF In

LEMMA IsInType == \A run, ps, f : IsIn(run, ps, f) \in Nat /\ IsIn(run, ps, f) \in {0, 1}
BY DEF IsIn

LEMMA InEmpty == \A ps, f : In(<<>>, ps, f) = 0
<1> SUFFICES ASSUME NEW ps, NEW f PROVE In(<<>>, ps, f) = 0
  OBVIOUS
<1>1. Hits(<<>>, ps, f) = {}
  BY DEF Hits
<1> QED BY <1>1, FS_EmptySet DEF In

\* One hit more when the frame is in the run at k.
LEMMA OneMore ==
  ASSUME NEW S, IsFiniteSet(S), NEW k, k \notin S, NEW T, NEW run, NEW ps, NEW f,
         T = IF f \in FramesOf(run, ps) THEN S \cup {k} ELSE S
  PROVE  Cardinality(T) = Cardinality(S) + IsIn(run, ps, f)
<1>1. Cardinality(S) \in Nat
  BY FS_CardinalityType
<1>2. Cardinality(S \cup {k}) = Cardinality(S) + 1
  BY FS_AddElement
<1>3. CASE f \in FramesOf(run, ps)
  BY <1>2, <1>3 DEF IsIn
<1>4. CASE f \notin FramesOf(run, ps)
  BY <1>1, <1>4 DEF IsIn
<1> QED BY <1>3, <1>4

LEMMA InAppend ==
  ASSUME NEW runs \in Seq(PagedMemory), NEW run \in PagedMemory, NEW ps, NEW f
  PROVE  In(Append(runs, run), ps, f) = In(runs, ps, f) + IsIn(run, ps, f)
<1> DEFINE t == Append(runs, run)
           k == Len(runs) + 1
<1>1. /\ t[k] = run /\ DOMAIN t = DOMAIN runs \cup {k} /\ k \notin DOMAIN runs
      /\ \A i \in DOMAIN runs : t[i] = runs[i]
  OBVIOUS
<1> HIDE DEF t, k
<1>2. /\ k \notin Hits(runs, ps, f)
      /\ Hits(t, ps, f) = IF f \in FramesOf(run, ps) THEN Hits(runs, ps, f) \cup {k}
                                                     ELSE Hits(runs, ps, f)
  BY <1>1 DEF Hits
<1> QED BY <1>2, HitsFinite, OneMore DEF In, t

LEMMA InOne ==
  ASSUME NEW run \in PagedMemory, NEW ps, NEW f
  PROVE  In(<<run>>, ps, f) = IsIn(run, ps, f)
<1>1. <<run>> = Append(<<>>, run) /\ <<>> \in Seq(PagedMemory)
  OBVIOUS
<1> DEFINE e == <<>>
<1>2. In(Append(e, run), ps, f) = In(e, ps, f) + IsIn(run, ps, f)
  <2>1. e \in Seq(PagedMemory)
    BY <1>1
  <2> HIDE DEF e
  <2> QED BY <2>1, InAppend
<1> QED BY <1>1, <1>2, InEmpty, IsInType

LEMMA InSingle ==
  ASSUME NEW runs \in Seq(PagedMemory), Len(runs) = 1, NEW ps, NEW f
  PROVE  runs[1] \in PagedMemory /\ In(runs, ps, f) = IsIn(runs[1], ps, f)
<1>1. runs = <<runs[1]>> /\ runs[1] \in PagedMemory
  OBVIOUS
<1> QED BY <1>1, InOne

\* The last run, and those before it.
LEMMA InLast ==
  ASSUME NEW runs \in Seq(PagedMemory), runs # <<>>, NEW ps, NEW f
  PROVE  /\ runs[Len(runs)] \in PagedMemory
         /\ SubSeq(runs, 1, Len(runs) - 1) \in Seq(PagedMemory)
         /\ In(runs, ps, f) = In(SubSeq(runs, 1, Len(runs) - 1), ps, f)
                              + IsIn(runs[Len(runs)], ps, f)
<1> DEFINE t == SubSeq(runs, 1, Len(runs) - 1)
           run == runs[Len(runs)]
<1>1. run \in PagedMemory /\ t \in Seq(PagedMemory) /\ runs = Append(t, run)
  OBVIOUS
<1> HIDE DEF t, run
<1>2. In(Append(t, run), ps, f) = In(t, ps, f) + IsIn(run, ps, f)
  BY <1>1, InAppend
<1>3. In(runs, ps, f) = In(t, ps, f) + IsIn(run, ps, f)
  BY <1>1, <1>2
<1> QED BY <1>1, <1>3 DEF t, run

\* The first run, and those behind it.
LEMMA InFirst ==
  ASSUME NEW runs \in Seq(PagedMemory), runs # <<>>, NEW ps, NEW f
  PROVE  /\ Head(runs) \in PagedMemory /\ Tail(runs) \in Seq(PagedMemory)
         /\ In(runs, ps, f) = IsIn(Head(runs), ps, f) + In(Tail(runs), ps, f)
<1> DEFINE t == Tail(runs)
           run == Head(runs)
           H == Hits(t, ps, f)
           S == {i + 1 : i \in H}
           g == [i \in H |-> i + 1]
<1>1. /\ run \in PagedMemory /\ t \in Seq(PagedMemory) /\ run = runs[1]
      /\ Len(runs) \in Nat /\ Len(runs) >= 1 /\ Len(t) = Len(runs) - 1
      /\ \A i \in 1 .. Len(t) : t[i] = runs[i + 1]
  OBVIOUS
<1> HIDE DEF t, run
<1>2. IsFiniteSet(H) /\ In(t, ps, f) \in Nat /\ H \subseteq 1 .. Len(t)
  BY <1>1, HitsFinite
<1>3. \A i \in H : i \in Nat /\ i >= 1 /\ i <= Len(t)
  BY <1>1, <1>2
<1>4. g \in Bijection(H, S)
  <2>1. \A i, j \in H : g[i] = g[j] => i = j
    BY <1>3
  <2> HIDE DEF H
  <2> QED BY <2>1 DEF Bijection, Injection, Surjection, IsInjective
<1>5. IsFiniteSet(S) /\ Cardinality(S) = Cardinality(H)
  <2>1. ExistsBijection(H, S)
    BY <1>4 DEF ExistsBijection
  <2> HIDE DEF S, H
  <2> QED BY <1>2, <2>1, FS_Bijection
<1>6. 1 \notin S
  BY <1>3
<1>7. Hits(runs, ps, f) = IF f \in FramesOf(run, ps) THEN S \cup {1} ELSE S
  <2>1. ASSUME NEW i \in 2 .. Len(runs) PROVE i \in Hits(runs, ps, f) <=> i \in S
    <3>1. i - 1 \in 1 .. Len(t) /\ (i - 1) + 1 = i /\ t[i - 1] = runs[i]
      BY <1>1
    <3>2. i \in Hits(runs, ps, f) <=> i - 1 \in H
      <4>1. DOMAIN t = 1 .. Len(t) /\ DOMAIN runs = 1 .. Len(runs)
        BY <1>1
      <4>2. i \in DOMAIN runs /\ i - 1 \in DOMAIN t
        BY <1>1, <3>1, <4>1
      <4> QED BY <3>1, <4>2 DEF Hits
    <3>3. i \in S => i - 1 \in H
      <4> SUFFICES ASSUME NEW j \in H, i = j + 1 PROVE i - 1 \in H
        OBVIOUS
      <4>1. i - 1 = j
        BY <1>3
      <4> QED BY <4>1
    <3>4. i - 1 \in H => i \in S
      BY <3>1
    <3> QED BY <3>2, <3>3, <3>4
  <2>2. 1 \in Hits(runs, ps, f) <=> f \in FramesOf(run, ps)
    BY <1>1 DEF Hits
  <2>3. \A i \in Hits(runs, ps, f) : i = 1 \/ i \in 2 .. Len(runs)
    BY <1>1 DEF Hits
  <2>4. \A i \in S : i \in 2 .. Len(runs)
    BY <1>1, <1>3
  <2> HIDE DEF S, H
  <2> QED BY <2>1, <2>2, <2>3, <2>4
<1>8. In(runs, ps, f) = In(t, ps, f) + IsIn(run, ps, f)
  <2> HIDE DEF S
  <2> QED BY <1>5, <1>6, <1>7, OneMore DEF In
<1> QED BY <1>1, <1>2, <1>8, IsInType DEF t, run
-----------------------------------------------------------------------------
(* Runs cut in two, taken out of a list, and seen in another page size *)

\* The pages of a run before and behind a cut.
LEMMA CutRun ==
  ASSUME NEW a \in Nat, NEW n \in Nat, NEW m \in Nat, NEW ps \in Nat, NEW f
  PROVE  IsIn(Run(a, n + m), ps, f) = IsIn(Run(a, n), ps, f) + IsIn(Run(a + n * ps, m), ps, f)
<1> DEFINE x == n * ps
           y == m * ps
<1>1. x \in Nat /\ y \in Nat /\ (n + m) * ps = x + y
  BY SMT
<1>2. /\ FramesOf(Run(a, n + m), ps) = a .. a + (x + y) - 1
      /\ FramesOf(Run(a, n), ps) = a .. a + x - 1
      /\ FramesOf(Run(a + n * ps, m), ps) = a + x .. (a + x) + y - 1
  BY <1>1 DEF FramesOf, Run
<1> HIDE DEF x, y
<1>3. /\ f \in a .. a + (x + y) - 1 <=> f \in a .. a + x - 1 \/ f \in a + x .. (a + x) + y - 1
      /\ ~(f \in a .. a + x - 1 /\ f \in a + x .. (a + x) + y - 1)
  BY <1>1
<1> DEFINE A == FramesOf(Run(a, n + m), ps)
           B == FramesOf(Run(a, n), ps)
           C == FramesOf(Run(a + n * ps, m), ps)
<1>4. (f \in A <=> f \in B \/ f \in C) /\ ~(f \in B /\ f \in C)
  BY <1>2, <1>3
<1> HIDE DEF A, B, C
<1>5. (IF f \in A THEN 1 ELSE 0) = (IF f \in B THEN 1 ELSE 0) + (IF f \in C THEN 1 ELSE 0)
  BY <1>4
<1> QED BY <1>5 DEF IsIn, A, B, C

\* A run of no pages has no frames.
LEMMA NoPages ==
  ASSUME NEW a \in Nat, NEW ps \in Nat, NEW f
  PROVE  IsIn(Run(a, 0), ps, f) = 0
<1>1. FramesOf(Run(a, 0), ps) = a .. a - 1
  BY DEF FramesOf, Run
<1> QED BY <1>1 DEF IsIn

\* The larger pages of a run, as pages of the smaller size.
LEMMA SmallerRun ==
  ASSUME NEW a \in Nat, NEW n \in Nat, NEW ps \in PageSizes, NEW f
  PROVE  IsIn(Run(a, n), toLargerPageSize(ps), f) = IsIn(Run(a, toSmallerPages(n)), ps, f)
<1>1. ENTRIES \in Nat /\ ps \in Nat
  BY PageSizeFacts
<1>2. n * (ps * ENTRIES) = (n * ENTRIES) * ps
  BY <1>1
<1> QED BY <1>2 DEF IsIn, FramesOf, Run, toLargerPageSize, toSmallerPages

LEMMA SmallerRuns ==
  ASSUME NEW runs \in Seq(PagedMemory), NEW ps \in PageSizes, NEW f
  PROVE  In([i \in DOMAIN runs |-> ToSmallerRun(runs[i])], ps, f)
           = In(runs, toLargerPageSize(ps), f)
<1> DEFINE t == [i \in DOMAIN runs |-> ToSmallerRun(runs[i])]
<1>1. ASSUME NEW i \in DOMAIN runs
      PROVE  f \in FramesOf(t[i], ps) <=> f \in FramesOf(runs[i], toLargerPageSize(ps))
  <2>1. runs[i] \in PagedMemory
    OBVIOUS
  <2>2. runs[i].pageStart \in Nat /\ runs[i].numberOfPages \in Nat
    BY <2>1 DEF PagedMemory
  <2>3. runs[i] = Run(runs[i].pageStart, runs[i].numberOfPages)
    BY <2>1 DEF PagedMemory, Run
  <2>4. IsIn(runs[i], toLargerPageSize(ps), f) = IsIn(t[i], ps, f)
    BY <2>2, <2>3, SmallerRun DEF ToSmallerRun
  <2> QED BY <2>4 DEF IsIn
<1>2. DOMAIN t = DOMAIN runs
  OBVIOUS
<1> HIDE DEF t
<1>3. Hits(t, ps, f) = Hits(runs, toLargerPageSize(ps), f)
  BY <1>1, <1>2 DEF Hits
<1> QED BY <1>3 DEF In, t

\* A run replaced by another: the hits elsewhere in the list stay.
LEMMA InReplaced ==
  ASSUME NEW runs \in Seq(PagedMemory), NEW i \in DOMAIN runs, NEW run \in PagedMemory,
         NEW t, DOMAIN t = DOMAIN runs, t[i] = run,
         \A j \in DOMAIN runs : j # i => t[j] = runs[j], NEW ps, NEW f
  PROVE  In(t, ps, f) + IsIn(runs[i], ps, f) = In(runs, ps, f) + IsIn(run, ps, f)
<1> DEFINE S == Hits(runs, ps, f) \ {i}
<1>2. IsFiniteSet(S) /\ i \notin S
  BY HitsFinite, FS_RemoveElement
<1>3. Hits(runs, ps, f) = IF f \in FramesOf(runs[i], ps) THEN S \cup {i} ELSE S
  BY DEF Hits
<1>4. Hits(t, ps, f) = IF f \in FramesOf(run, ps) THEN S \cup {i} ELSE S
  BY DEF Hits
<1> HIDE DEF S
<1>5. In(runs, ps, f) = Cardinality(S) + IsIn(runs[i], ps, f)
  BY <1>2, <1>3, OneMore DEF In
<1>6. In(t, ps, f) = Cardinality(S) + IsIn(run, ps, f)
  BY <1>2, <1>4, OneMore DEF In
<1>7. Cardinality(S) \in Nat
  BY <1>2, FS_CardinalityType
<1> QED BY <1>5, <1>6, <1>7, IsInType

\* decreasePages takes the first pages of run i out of the list, and no others.
LEMMA InDecreased ==
  ASSUME NEW runs \in Seq(PagedMemory), NEW ps \in PageSizes, NEW i \in DOMAIN runs,
         NEW by \in Nat, by <= runs[i].numberOfPages, NEW f
  PROVE  In(runs, ps, f) = In(decreasePages(runs, ps, i, by), ps, f)
                           + IsIn(Run(runs[i].pageStart, by), ps, f)
<1> DEFINE t == decreasePages(runs, ps, i, by)
           a == runs[i].pageStart
           n == runs[i].numberOfPages
<1>1. runs[i] \in PagedMemory /\ ps \in Nat
  BY PageSizeFacts
<1>2. a \in Nat /\ n \in Nat /\ runs[i] = Run(a, n)
  BY <1>1 DEF PagedMemory, Run
<1> HIDE DEF a, n
<1>3. t \in Seq(PagedMemory)
  BY <1>1, DecreasePagesType
<1>4. In(t, ps, f) \in Nat /\ In(runs, ps, f) \in Nat
  BY <1>3, HitsFinite
<1>5. CASE n # by
  <2> DEFINE rest == Run(a + by * ps, n - by)
  <2>1. by * ps \in Nat /\ n - by \in Nat
    BY <1>1, <1>2, <1>5 DEF n
  <2>2. rest \in PagedMemory
    <3>1. a + by * ps \in Nat
      BY <1>2, <2>1
    <3> QED BY <2>1, <3>1, OneRun
  <2>3. t = [runs EXCEPT ![i] = rest]
    BY <1>5 DEF decreasePages, a, n
  <2>4. IsIn(Run(a, by + (n - by)), ps, f) = IsIn(Run(a, by), ps, f) + IsIn(rest, ps, f)
    BY <1>1, <1>2, <2>1, CutRun
  <2>5. by + (n - by) = n
    BY <1>2
  <2>8. /\ DOMAIN t = DOMAIN runs /\ t[i] = rest
        /\ \A j \in DOMAIN runs : j # i => t[j] = runs[j]
    <3> HIDE DEF rest, t
    <3> QED BY <2>3
  <2> HIDE DEF rest, t
  <2>6. In(t, ps, f) + IsIn(runs[i], ps, f) = In(runs, ps, f) + IsIn(rest, ps, f)
    BY <2>2, <2>8, InReplaced
  <2>7. IsIn(runs[i], ps, f) = IsIn(Run(a, by), ps, f) + IsIn(rest, ps, f)
    BY <1>2, <2>4, <2>5
  <2>9. In(t, ps, f) + (IsIn(Run(a, by), ps, f) + IsIn(rest, ps, f))
          = In(runs, ps, f) + IsIn(rest, ps, f)
    BY <2>6, <2>7
  <2>10. IsIn(Run(a, by), ps, f) \in Nat /\ IsIn(rest, ps, f) \in Nat
    BY IsInType
  <2>11. In(runs, ps, f) = In(t, ps, f) + IsIn(Run(a, by), ps, f)
    BY <1>4, <2>9, <2>10
  <2> QED BY <2>11 DEF t, a
<1>6. CASE n = by
  <2> DEFINE last == runs[Len(runs)]
             m == SubSeq(runs, 1, Len(runs) - 1)
  <2>1. runs # <<>> /\ Len(runs) \in Nat /\ Len(runs) >= 1 /\ i \in 1 .. Len(runs)
    OBVIOUS
  <2>2. /\ last \in PagedMemory /\ m \in Seq(PagedMemory)
        /\ In(runs, ps, f) = In(m, ps, f) + IsIn(last, ps, f)
    BY <2>1, InLast
  <2>3. t = [j \in 1 .. Len(runs) - 1 |-> IF j = i THEN last ELSE runs[j]]
    BY <1>6 DEF decreasePages, n
  <2>4. DOMAIN m = 1 .. Len(runs) - 1 /\ \A j \in 1 .. Len(runs) - 1 : m[j] = runs[j]
    OBVIOUS
  <2>5. CASE i = Len(runs)
    <3>1. t = m
      BY <2>1, <2>3, <2>4, <2>5, <1>3
    <3>2. last = Run(a, by)
      BY <1>2, <1>6, <2>5
    <3> QED BY <2>2, <3>1, <3>2 DEF a
  <2>6. CASE i # Len(runs)
    <3>1. i \in DOMAIN m /\ m[i] = runs[i]
      BY <2>1, <2>4, <2>6
    <3>2. /\ DOMAIN t = DOMAIN m /\ t[i] = last
          /\ \A j \in DOMAIN m : j # i => t[j] = m[j]
      <4> HIDE DEF t, m, last
      <4> QED BY <2>3, <2>4, <3>1
    <3> HIDE DEF t, m, last
    <3>3. In(t, ps, f) + IsIn(m[i], ps, f) = In(m, ps, f) + IsIn(last, ps, f)
      BY <2>2, <3>1, <3>2, InReplaced
    <3>4. m[i] = Run(a, by)
      BY <1>2, <1>6, <3>1
    <3> QED BY <2>2, <3>3, <3>4 DEF t, a
  <2> QED BY <2>5, <2>6
<1> QED BY <1>5, <1>6
-----------------------------------------------------------------------------
(* Counting the runs passed to the calls in progress *)

LEMMA FrameRuns ==
  ASSUME NEW c \in Frame
  PROVE  /\ c.pages \in Seq(PagedMemory) /\ c.got \in Seq(PagedMemory) /\ c.ps \in PageSizes
         /\ c.n \in Nat
BY DEF Frame

LEMMA PassedFinite ==
  ASSUME NEW s \in Seq(Frame), NEW f
  PROVE  IsFiniteSet(PassedHits(s, f)) /\ InPassed(s, f) \in Nat
<1> DEFINE D == 1 .. Len(s)
           T == [d \in D |-> {d} \X HitsOf(s[Len(s) + 1 - d], f)]
           U == {{d} \X HitsOf(s[Len(s) + 1 - d], f) : d \in D}
<1>1. IsFiniteSet(D)
  BY FS_Interval
<1>2. ASSUME NEW d \in D PROVE IsFiniteSet({d} \X HitsOf(s[Len(s) + 1 - d], f))
  <2>1. s[Len(s) + 1 - d] \in Frame
    OBVIOUS
  <2> DEFINE c == s[Len(s) + 1 - d]
             H == HitsOf(c, f)
  <2>2. IsFiniteSet(H)
    <3>1. c.pages \in Seq(PagedMemory)
      BY <2>1 DEF Frame
    <3> QED BY <3>1, HitsFinite DEF HitsOf
  <2>3. IsFiniteSet({d})
    BY FS_Singleton
  <2> HIDE DEF H
  <2>4. IsFiniteSet({d} \X H)
    BY <2>2, <2>3, FS_Product
  <2> QED BY <2>4 DEF H
<1>3. IsFiniteSet(U)
  <2> HIDE DEF D
  <2>1. T \in Surjection(D, U)
    BY DEF Surjection
  <2> HIDE DEF T, U
  <2> QED BY <1>1, <2>1, FS_Surjection
<1>4. IsFiniteSet(UNION U)
  <2>1. \A x \in U : IsFiniteSet(x)
    BY <1>2
  <2> HIDE DEF U
  <2> QED BY <1>3, <2>1, FS_UNION
<1>5. IsFiniteSet(PassedHits(s, f))
  BY <1>4 DEF PassedHits
<1> QED BY <1>5, FS_CardinalityType DEF InPassed

\* A call on top of the stack r adds the runs it was passed.
LEMMA PassedPush ==
  ASSUME NEW r \in Seq(Frame), NEW g \in Frame, NEW t \in Seq(Frame), NEW f,
         Len(t) = Len(r) + 1, HitsOf(t[1], f) = HitsOf(g, f),
         \A d \in 1 .. Len(r) : HitsOf(t[d + 1], f) = HitsOf(r[d], f)
  PROVE  InPassed(t, f) = InPassed(r, f) + In(g.pages, g.ps, f)
<1> DEFINE n == Len(r)
           H == HitsOf(g, f)
           N == {n + 1} \X H
           P == PassedHits(r, f)
<1>1. n \in Nat /\ Len(t) = n + 1
  OBVIOUS
<1>2. ASSUME NEW d \in 1 .. n
      PROVE  /\ HitsOf(t[Len(t) + 1 - d], f) = HitsOf(r[n + 1 - d], f)
             /\ d # n + 1 /\ d \in 1 .. Len(t)
  <2>2. d # n + 1 /\ d \in 1 .. Len(t)
    BY <1>1
  <2>1. n + 1 - d \in 1 .. Len(r) /\ Len(t) + 1 - d = (n + 1 - d) + 1
    BY <1>1
  <2> QED BY <2>1, <2>2 DEF n
<1>3. HitsOf(t[Len(t) + 1 - (n + 1)], f) = H
  <2>1. Len(t) + 1 - (n + 1) = 1
    BY <1>1
  <2> QED BY <2>1
<1>4. (1 .. Len(t)) = (1 .. n) \cup {n + 1}
  BY <1>1
<1> HIDE DEF n, H
<1>5. P = UNION {{d} \X HitsOf(r[n + 1 - d], f) : d \in 1 .. n}
  BY DEF PassedHits, n
<1>6. PassedHits(t, f) = P \cup N
  <2>1. \A x : x \in PassedHits(t, f) <=>
          \E d \in 1 .. Len(t) : x \in {d} \X HitsOf(t[Len(t) + 1 - d], f)
    BY DEF PassedHits
  <2>2. \A x : x \in P <=> \E d \in 1 .. n : x \in {d} \X HitsOf(r[n + 1 - d], f)
    BY <1>5
  <2>3. \A x : x \in PassedHits(t, f) <=> x \in P \/ x \in N
    <3> SUFFICES ASSUME NEW x PROVE x \in PassedHits(t, f) <=> x \in P \/ x \in N
      OBVIOUS
    <3>1. ASSUME x \in PassedHits(t, f) PROVE x \in P \/ x \in N
      <4>1. PICK d \in 1 .. Len(t) : x \in {d} \X HitsOf(t[Len(t) + 1 - d], f)
        BY <2>1, <3>1
      <4>2. CASE d \in 1 .. n
        <5>1. x \in {d} \X HitsOf(r[n + 1 - d], f)
          BY <1>2, <4>1, <4>2
        <5> QED BY <2>2, <4>2, <5>1
      <4>3. CASE d = n + 1
        BY <1>3, <4>1, <4>3
      <4> QED BY <1>4, <4>1, <4>2, <4>3
    <3>2. ASSUME x \in P PROVE x \in PassedHits(t, f)
      <4>1. PICK d \in 1 .. n : x \in {d} \X HitsOf(r[n + 1 - d], f)
        BY <2>2, <3>2
      <4>2. d \in 1 .. Len(t) /\ x \in {d} \X HitsOf(t[Len(t) + 1 - d], f)
        BY <1>2, <4>1
      <4> QED BY <2>1, <4>2
    <3>3. ASSUME x \in N PROVE x \in PassedHits(t, f)
      <4>1. n + 1 \in 1 .. Len(t) /\ x \in {n + 1} \X HitsOf(t[Len(t) + 1 - (n + 1)], f)
        BY <1>3, <1>4, <3>3
      <4> QED BY <2>1, <4>1
    <3> QED BY <3>1, <3>2, <3>3
  <2> HIDE DEF P, N
  <2> QED BY <2>3
<1>7. P \cap N = {}
  <2> SUFFICES ASSUME NEW x \in P, x \in N PROVE FALSE
    OBVIOUS
  <2>1. PICK d \in 1 .. n : x \in {d} \X HitsOf(r[n + 1 - d], f)
    BY <1>5
  <2>2. x[1] = d /\ x[1] = n + 1
    BY <2>1
  <2> QED BY <1>2, <2>2
<1>8. IsFiniteSet(P) /\ InPassed(r, f) = Cardinality(P) /\ Cardinality(P) \in Nat
  BY PassedFinite DEF InPassed
<1>9. IsFiniteSet(N) /\ Cardinality(N) = Cardinality(H) /\ Cardinality(H) \in Nat
  <2>1. IsFiniteSet(H) /\ Cardinality(H) \in Nat
    <3>1. g.pages \in Seq(PagedMemory)
      BY DEF Frame
    <3> QED BY <3>1, HitsFinite DEF H, HitsOf, In
  <2>2. IsFiniteSet({n + 1}) /\ Cardinality({n + 1}) = 1
    BY FS_Singleton
  <2>3. IsFiniteSet(N) /\ Cardinality(N) = Cardinality({n + 1}) * Cardinality(H)
    BY <2>1, <2>2, FS_Product
  <2> QED BY <2>1, <2>2, <2>3
<1> HIDE DEF P, N
<1>10. Cardinality(P \cup N) = Cardinality(P) + Cardinality(N) - Cardinality(P \cap N)
  BY <1>8, <1>9, FS_Union
<1>11. Cardinality(P \cap N) = 0
  BY <1>7, FS_EmptySet
<1>12. InPassed(t, f) = Cardinality(P) + Cardinality(H)
  BY <1>6, <1>8, <1>9, <1>10, <1>11 DEF InPassed
<1> QED BY <1>8, <1>12 DEF H, HitsOf, In

LEMMA PassedNone == \A f : InPassed(<<>>, f) = 0
<1> SUFFICES ASSUME NEW f PROVE InPassed(<<>>, f) = 0
  OBVIOUS
<1>1. 1 .. Len(<<>>) = {}
  OBVIOUS
<1>2. PassedHits(<<>>, f) = {}
  BY <1>1 DEF PassedHits
<1> QED BY <1>2, FS_EmptySet DEF InPassed

LEMMA PassedOn ==
  ASSUME NEW r \in Seq(Frame), NEW g \in Frame, NEW f
  PROVE  /\ <<g>> \o r \in Seq(Frame) /\ <<g>> \o r # <<>> /\ (<<g>> \o r)[1] = g
         /\ InPassed(<<g>> \o r, f) = InPassed(r, f) + In(g.pages, g.ps, f)
<1> DEFINE t == <<g>> \o r
<1>1. t \in Seq(Frame) /\ Len(t) = Len(r) + 1 /\ t[1] = g
  OBVIOUS
<1>2. \A d \in 1 .. Len(r) : t[d + 1] = r[d]
  OBVIOUS
<1>3. t # <<>>
  OBVIOUS
<1> HIDE DEF t
<1>4. InPassed(t, f) = InPassed(r, f) + In(g.pages, g.ps, f)
  BY <1>1, <1>2, PassedPush
<1> QED BY <1>1, <1>3, <1>4 DEF t

LEMMA PassedTop ==
  ASSUME NEW s \in Seq(Frame), s # <<>>, NEW f
  PROVE  /\ Tail(s) \in Seq(Frame) /\ s[1] \in Frame /\ Head(s) = s[1]
         /\ InPassed(s, f) = InPassed(Tail(s), f) + In(s[1].pages, s[1].ps, f)
<1> DEFINE r == Tail(s)
<1>1. r \in Seq(Frame) /\ s[1] \in Frame /\ s = <<s[1]>> \o r /\ Head(s) = s[1]
  OBVIOUS
<1> DEFINE g == s[1]
<1> HIDE DEF r, g
<1>2. InPassed(<<g>> \o r, f) = InPassed(r, f) + In(g.pages, g.ps, f)
  BY <1>1, PassedOn DEF g
<1>3. s = <<g>> \o r
  BY <1>1 DEF g
<1>4. InPassed(s, f) = InPassed(r, f) + In(g.pages, g.ps, f)
  BY <1>2, <1>3
<1> QED BY <1>1, <1>4 DEF r, g
-----------------------------------------------------------------------------
(* What a step adds and takes away *)

\* What the frame on top of the stack has.
Carried(c, f) == In(c.pages, c.ps, f) + In(c.got, GotSize(c), f)

LEMMA CarriedType ==
  ASSUME NEW c \in Frame, NEW f
  PROVE  /\ In(c.pages, c.ps, f) \in Nat /\ In(c.got, GotSize(c), f) \in Nat
         /\ Carried(c, f) \in Nat
BY FrameRuns, HitsFinite DEF Carried

LEMMA InCallsTop ==
  ASSUME NEW s \in Seq(Frame), s # <<>>, NEW f
  PROVE  /\ Tail(s) \in Seq(Frame) /\ InPassed(Tail(s), f) \in Nat /\ s[1] \in Frame
         /\ InCalls(s, f) = InPassed(Tail(s), f) + Carried(s[1], f)
<1>1. /\ Tail(s) \in Seq(Frame) /\ s[1] \in Frame
      /\ InPassed(s, f) = InPassed(Tail(s), f) + In(s[1].pages, s[1].ps, f)
  BY PassedTop
<1>2. InPassed(Tail(s), f) \in Nat
  BY <1>1, PassedFinite
<1>3. InGot(s, f) = In(s[1].got, GotSize(s[1]), f)
  BY DEF InGot
<1>4. In(s[1].pages, s[1].ps, f) \in Nat /\ In(s[1].got, GotSize(s[1]), f) \in Nat
  BY <1>1, CarriedType
<1>5. InCalls(s, f) = InPassed(Tail(s), f) + Carried(s[1], f)
  BY <1>1, <1>2, <1>3, <1>4 DEF InCalls, Carried
<1> QED BY <1>1, <1>2, <1>5

LEMMA InCallsNone == \A f : InCalls(<<>>, f) = 0
BY PassedNone DEF InCalls, InGot

LEMMA InCallsType ==
  ASSUME NEW s \in Seq(Frame), NEW f
  PROVE  InCalls(s, f) \in Nat
<1>1. CASE s = <<>>
  BY <1>1, InCallsNone
<1>2. CASE s # <<>>
  BY <1>2, InCallsTop, CarriedType
<1> QED BY <1>1, <1>2

\* The call on top goes on with what another frame has.
LEMMA GotoCounts ==
  ASSUME IInv, stack # <<>>, NEW c \in Frame, Goto(c), NEW f
  PROVE  InCalls(stack', f) + Carried(top, f) = InCalls(stack, f) + Carried(c, f)
<1> DEFINE r == Tail(stack)
<1>1. stack \in Seq(Frame) /\ top = stack[1]
  BY TopFacts DEF IInv, StackOK
<1>2. /\ r \in Seq(Frame) /\ InPassed(r, f) \in Nat /\ top \in Frame
      /\ InCalls(stack, f) = InPassed(r, f) + Carried(top, f)
  BY <1>1, InCallsTop
<1>3. stack' = <<c>> \o r
  BY DEF Goto
<1> HIDE DEF r
<1>4. /\ stack' # <<>> /\ stack'[1] = c
      /\ InPassed(stack', f) = InPassed(r, f) + In(c.pages, c.ps, f)
  BY <1>2, <1>3, PassedOn
<1>5. InGot(stack', f) = In(c.got, GotSize(c), f)
  BY <1>4 DEF InGot
<1>6. /\ In(c.pages, c.ps, f) \in Nat /\ In(c.got, GotSize(c), f) \in Nat
      /\ Carried(c, f) \in Nat
  BY CarriedType
<1>7. InCalls(stack', f) = InPassed(r, f) + Carried(c, f)
  BY <1>2, <1>4, <1>5, <1>6 DEF InCalls, Carried
<1>8. Carried(top, f) \in Nat
  BY <1>2, CarriedType
<1> QED BY <1>2, <1>6, <1>7, <1>8

\* The call on top makes a call.
LEMMA CallCounts ==
  ASSUME IInv, stack # <<>>, NEW c \in Frame, NEW g \in Frame, Call(g, c), NEW f
  PROVE  InCalls(stack', f) + Carried(top, f)
           = InCalls(stack, f) + In(c.pages, c.ps, f) + Carried(g, f)
<1> DEFINE r == Tail(stack)
           u == <<c>> \o r
<1>1. stack \in Seq(Frame) /\ top = stack[1]
  BY TopFacts DEF IInv, StackOK
<1>2. /\ r \in Seq(Frame) /\ InPassed(r, f) \in Nat /\ top \in Frame
      /\ InCalls(stack, f) = InPassed(r, f) + Carried(top, f)
  BY <1>1, InCallsTop
<1>3. stack' = <<g>> \o u
  <2>1. stack' = <<g, c>> \o r
    BY DEF Call
  <2> HIDE DEF r
  <2> QED BY <1>2, <2>1
<1> HIDE DEF r
<1>4. u \in Seq(Frame) /\ InPassed(u, f) = InPassed(r, f) + In(c.pages, c.ps, f)
  BY <1>2, PassedOn
<1> HIDE DEF u
<1>5. /\ stack' # <<>> /\ stack'[1] = g
      /\ InPassed(stack', f) = InPassed(u, f) + In(g.pages, g.ps, f)
  BY <1>3, <1>4, PassedOn
<1>6. InGot(stack', f) = In(g.got, GotSize(g), f)
  BY <1>5 DEF InGot
<1>7. /\ In(g.pages, g.ps, f) \in Nat /\ In(g.got, GotSize(g), f) \in Nat
      /\ Carried(g, f) \in Nat /\ In(c.pages, c.ps, f) \in Nat
  BY CarriedType
<1>8. InCalls(stack', f) = InPassed(r, f) + In(c.pages, c.ps, f) + Carried(g, f)
  BY <1>2, <1>4, <1>5, <1>6, <1>7 DEF InCalls, Carried
<1>9. Carried(top, f) \in Nat
  BY <1>2, CarriedType
<1> QED BY <1>2, <1>7, <1>8, <1>9

LEMMA TailOfOne ==
  ASSUME NEW S, NEW s \in Seq(S), Len(s) = 1
  PROVE  Tail(s) = <<>>
<1>1. Tail(s) \in Seq(S) /\ Len(Tail(s)) = 0
  OBVIOUS
<1> DEFINE t == Tail(s)
<1>2. t \in Seq(S) /\ Len(t) = 0
  BY <1>1
<1> HIDE DEF t
<1>3. t = <<>>
  BY <1>2
<1> QED BY <1>3 DEF t

\* The call on top returns the runs v, to the frame below or to the top level.
LEMMA ReturnCounts ==
  ASSUME IInv, stack # <<>>, UNCHANGED topLevel, NEW v,
         Returnable(top, v), Return(v), NEW f
  PROVE  InCalls(stack', f) + InResult(f)' + Carried(top, f)
           = InCalls(stack, f) + InResult(f) + In(v, top.ps, f)
<1>1. /\ stack \in Seq(Frame) /\ Len(stack) \in Nat /\ Len(stack) >= 1 /\ top = stack[1]
      /\ v \in Seq(PagedMemory) /\ (Kind(top) = "free" => v = <<>>)
      /\ UNCHANGED <<phase, pageSize>>
  BY HeadTail DEF IInv, StackOK, top, Returnable, topLevel
<1>2. result = <<>> /\ InResult(f) = 0
  BY InEmpty DEF IInv, TopLevelOK, InResult
<1> DEFINE r == Tail(stack)
<1>3. /\ r \in Seq(Frame) /\ InPassed(r, f) \in Nat /\ top \in Frame
      /\ InCalls(stack, f) = InPassed(r, f) + Carried(top, f)
      /\ Carried(top, f) \in Nat
  BY <1>1, InCallsTop, CarriedType
<1>4. In(v, top.ps, f) \in Nat
  BY <1>1, HitsFinite
<1>5. CASE Len(stack) = 1
  <2>1. stack' = <<>> /\ result' = v
    BY <1>5, AfterLastReturn
  <2>2. BottomOK(top)
    BY <1>1, <1>5 DEF IInv, TopLevelOK
  <2>3. In(v, ResultSize, f) = In(v, top.ps, f)
    <3>1. CASE v = <<>>
      BY <3>1, InEmpty
    <3>2. CASE v # <<>>
      <4>1. Kind(top) # "free"
        BY <1>1, <3>2
      <4>2. ResultSize = top.ps
        BY <2>2, <4>1 DEF BottomOK, ResultSize
      <4> QED BY <4>2
    <3> QED BY <3>1, <3>2
  <2>4. InResult(f)' = In(v, top.ps, f)
    BY <1>1, <2>1, <2>3 DEF InResult, ResultSize
  <2>5. InCalls(stack', f) = 0
    BY <2>1, InCallsNone
  <2>6. InPassed(r, f) = 0
    <3>1. r = <<>>
      BY <1>1, <1>5, TailOfOne
    <3> QED BY <3>1, PassedNone
  <2> QED BY <1>2, <1>3, <1>4, <2>4, <2>5, <2>6
<1>6. CASE Len(stack) # 1
  <2>0. Len(stack) >= 2
    BY <1>1, <1>6, TwoOrMore, Zenon
  <2>1. /\ stack' \in Seq(Frame) /\ Len(stack') = Len(stack) - 1
        /\ stack'[1].pc = stack[2].pc /\ stack'[1].ps = stack[2].ps
        /\ stack'[1].pages = stack[2].pages
        /\ stack'[1].got = v
        /\ \A d \in 2 .. Len(stack) - 1 : stack'[d] = stack[d + 1]
        /\ result' = result /\ stack' # <<>>
    BY <1>1, <2>0, AfterReturn
  <2>2. InGot(stack', f) = In(v, top.ps, f)
    <3>1. InGot(stack', f) = In(v, GotSize(stack'[1]), f)
      BY <2>1 DEF InGot
    <3>2. GotSize(stack'[1]) = GotSize(stack[2])
      BY <2>1 DEF GotSize
    <3>3. CASE v = <<>>
      BY <3>1, <3>3, InEmpty
    <3>4. CASE v # <<>>
      <4>1. Kind(top) # "free"
        BY <1>1, <3>4
      <4>2. GotSize(stack[2]) = top.ps
        BY <1>1, <2>0, <4>1, CalleeSize
      <4> QED BY <3>1, <3>2, <4>2
    <3> QED BY <3>3, <3>4
  <2>3. InPassed(stack', f) = InPassed(r, f)
    <3> DEFINE q == Tail(r)
    <3>0. Len(r) = Len(stack) - 1 /\ \A d \in 1 .. Len(r) : r[d] = stack[d + 1]
      BY <1>1
    <3>1. r # <<>> /\ Len(r) = Len(stack) - 1 /\ \A d \in 1 .. Len(r) : r[d] = stack[d + 1]
      <4>1. Len(r) # 0 /\ Len(<<>>) = 0
        BY <1>1, <2>0, <3>0
      <4> QED BY <3>0, <4>1, Zenon
    <3>2. /\ q \in Seq(Frame) /\ r[1] \in Frame
          /\ InPassed(r, f) = InPassed(q, f) + In(r[1].pages, r[1].ps, f)
      <4> HIDE DEF r
      <4> QED BY <1>3, <3>1, PassedTop
    <3>3. Len(q) = Len(r) - 1 /\ \A d \in 1 .. Len(q) : q[d] = r[d + 1]
      <4> HIDE DEF r
      <4> QED BY <1>3, <3>1
    <3> HIDE DEF q, r
    <3>4. r[1] = stack[2] /\ Len(stack') = Len(q) + 1
      BY <1>1, <2>0, <2>1, <3>1, <3>3
    <3>5. HitsOf(stack'[1], f) = HitsOf(r[1], f)
      BY <2>1, <3>4 DEF HitsOf
    <3>6. ASSUME NEW d \in 1 .. Len(q) PROVE HitsOf(stack'[d + 1], f) = HitsOf(q[d], f)
      <4>1. /\ d + 1 \in 2 .. Len(stack) - 1 /\ d + 1 \in 1 .. Len(r)
            /\ d + 1 \in Int
        BY <1>1, <3>1, <3>2, <3>3
      <4>2. stack'[d + 1] = stack[(d + 1) + 1] /\ r[d + 1] = stack[(d + 1) + 1] /\ q[d] = r[d + 1]
        BY <2>1, <3>1, <3>3, <4>1
      <4> QED BY <4>2
    <3>7. InPassed(stack', f) = InPassed(q, f) + In(r[1].pages, r[1].ps, f)
      BY <2>1, <3>2, <3>4, <3>5, <3>6, PassedPush
    <3> QED BY <3>2, <3>7
  <2>4. InResult(f)' = 0
    BY <1>2, <2>1, InEmpty DEF InResult
  <2> HIDE DEF r
  <2> QED BY <1>2, <1>3, <1>4, <2>2, <2>3, <2>4 DEF InCalls
<1> QED BY <1>5, <1>6
-----------------------------------------------------------------------------
(* Every step of a call takes from one owner what it gives to another *)

LEMMA HandType ==
  ASSUME IInv, NEW f
  PROVE  /\ InLists(f) \in Nat /\ InArrays(f) \in Nat /\ InCalls(stack, f) \in Nat
         /\ InResult(f) \in Nat /\ InHand(f) \in Nat
<1>1. /\ memory \in [PageSizes -> Seq(PagedMemory)] /\ stack \in Seq(Frame)
      /\ result \in Seq(PagedMemory)
  BY DEF IInv, TypeOK
<1>2. \A ps \in PageSizes : In(memory[ps], ps, f) \in Nat
  BY <1>1, HitsFinite
<1>3. InLists(f) \in Nat
  BY <1>2, PageSizeFacts DEF InLists
<1>4. InArrays(f) \in Nat
  BY IsInType DEF InArrays
<1>5. InCalls(stack, f) \in Nat /\ InResult(f) \in Nat
  BY <1>1, InCallsType, HitsFinite DEF InResult
<1> QED BY <1>3, <1>4, <1>5 DEF InHand

\* One list changes.
LEMMA ListCounts ==
  ASSUME IInv, NEW ps \in PageSizes, NEW list \in Seq(PagedMemory),
         memory' = [memory EXCEPT ![ps] = list], NEW f
  PROVE  InLists(f)' + In(memory[ps], ps, f) = InLists(f) + In(list, ps, f)
<1>1. memory \in [PageSizes -> Seq(PagedMemory)]
  BY DEF IInv, TypeOK
<1>2. /\ memory'[ps] = list
      /\ \A p \in PageSizes : p # ps => memory'[p] = memory[p]
  BY <1>1
<1>3. \A p \in PageSizes : In(memory[p], p, f) \in Nat
  BY <1>1, HitsFinite
<1>4. In(list, ps, f) \in Nat
  BY HitsFinite
<1>5. /\ BASE_PAGE \in PageSizes /\ LARGE_PAGE \in PageSizes /\ HUGE_PAGE \in PageSizes
      /\ BASE_PAGE # LARGE_PAGE /\ BASE_PAGE # HUGE_PAGE /\ LARGE_PAGE # HUGE_PAGE
      /\ ps = BASE_PAGE \/ ps = LARGE_PAGE \/ ps = HUGE_PAGE
  <2>1. PageSizes \subseteq Nat
    BY PageSizeFacts
  <2> QED BY <2>1, PageSizeFacts DEF PageSizes
<1> DEFINE b == In(memory[BASE_PAGE], BASE_PAGE, f)
           l == In(memory[LARGE_PAGE], LARGE_PAGE, f)
           h == In(memory[HUGE_PAGE], HUGE_PAGE, f)
           n == In(list, ps, f)
<1>6. b \in Nat /\ l \in Nat /\ h \in Nat /\ n \in Nat
  BY <1>3, <1>4, <1>5
<1>7. InLists(f) = b + l + h
  BY DEF InLists
<1>8. InLists(f)' = In(memory'[BASE_PAGE], BASE_PAGE, f) + In(memory'[LARGE_PAGE], LARGE_PAGE, f)
                    + In(memory'[HUGE_PAGE], HUGE_PAGE, f)
  BY DEF InLists, In, Hits, FramesOf, LARGE_PAGE, HUGE_PAGE, BASE_PAGE
<1>9. CASE ps = BASE_PAGE
  <2>1. InLists(f)' = n + l + h /\ In(memory[ps], ps, f) = b
    BY <1>2, <1>5, <1>8, <1>9
  <2> HIDE DEF b, l, h, n
  <2> QED BY <1>6, <1>7, <2>1 DEF n
<1>10. CASE ps = LARGE_PAGE
  <2>1. InLists(f)' = b + n + h /\ In(memory[ps], ps, f) = l
    BY <1>2, <1>5, <1>8, <1>10
  <2> HIDE DEF b, l, h, n
  <2> QED BY <1>6, <1>7, <2>1 DEF n
<1>11. CASE ps = HUGE_PAGE
  <2>1. InLists(f)' = b + l + n /\ In(memory[ps], ps, f) = h
    BY <1>2, <1>5, <1>8, <1>11
  <2> HIDE DEF b, l, h, n
  <2> QED BY <1>6, <1>7, <2>1 DEF n
<1> QED BY <1>5, <1>9, <1>10, <1>11

\* One list moves to another array.
LEMMA ArrayCounts ==
  ASSUME IInv, NEW ps \in PageSizes, NEW run \in PagedMemory,
         buf' = [buf EXCEPT ![ps] = run], NEW f
  PROVE  InArrays(f)' + IsIn(buf[ps], BASE_PAGE, f) = InArrays(f) + IsIn(run, BASE_PAGE, f)
<1>1. buf \in [PageSizes -> PagedMemory]
  BY DEF IInv, TypeOK
<1>2. /\ buf'[ps] = run
      /\ \A p \in PageSizes : p # ps => buf'[p] = buf[p]
  BY <1>1
<1>5. /\ BASE_PAGE \in PageSizes /\ LARGE_PAGE \in PageSizes /\ HUGE_PAGE \in PageSizes
      /\ BASE_PAGE # LARGE_PAGE /\ BASE_PAGE # HUGE_PAGE /\ LARGE_PAGE # HUGE_PAGE
      /\ ps = BASE_PAGE \/ ps = LARGE_PAGE \/ ps = HUGE_PAGE
  <2>1. PageSizes \subseteq Nat
    BY PageSizeFacts
  <2> QED BY <2>1, PageSizeFacts DEF PageSizes
<1> DEFINE b == IsIn(buf[BASE_PAGE], BASE_PAGE, f)
           l == IsIn(buf[LARGE_PAGE], BASE_PAGE, f)
           h == IsIn(buf[HUGE_PAGE], BASE_PAGE, f)
           n == IsIn(run, BASE_PAGE, f)
<1>6. b \in Nat /\ l \in Nat /\ h \in Nat /\ n \in Nat
  BY IsInType
<1>7. InArrays(f) = b + l + h
  BY DEF InArrays
<1>8. InArrays(f)' = IsIn(buf'[BASE_PAGE], BASE_PAGE, f) + IsIn(buf'[LARGE_PAGE], BASE_PAGE, f)
                     + IsIn(buf'[HUGE_PAGE], BASE_PAGE, f)
  BY DEF InArrays, IsIn, FramesOf, LARGE_PAGE, HUGE_PAGE, BASE_PAGE
<1>9. CASE ps = BASE_PAGE
  <2>1. InArrays(f)' = n + l + h /\ IsIn(buf[ps], BASE_PAGE, f) = b
    BY <1>2, <1>5, <1>8, <1>9
  <2> HIDE DEF b, l, h, n
  <2> QED BY <1>6, <1>7, <2>1 DEF n
<1>10. CASE ps = LARGE_PAGE
  <2>1. InArrays(f)' = b + n + h /\ IsIn(buf[ps], BASE_PAGE, f) = l
    BY <1>2, <1>5, <1>8, <1>10
  <2> HIDE DEF b, l, h, n
  <2> QED BY <1>6, <1>7, <2>1 DEF n
<1>11. CASE ps = HUGE_PAGE
  <2>1. InArrays(f)' = b + l + n /\ IsIn(buf[ps], BASE_PAGE, f) = h
    BY <1>2, <1>5, <1>8, <1>11
  <2> HIDE DEF b, l, h, n
  <2> QED BY <1>6, <1>7, <2>1 DEF n
<1> QED BY <1>5, <1>9, <1>10, <1>11

\* What is not touched counts the same.
LEMMA SameCounts ==
  ASSUME NEW f
  PROVE  /\ UNCHANGED memory => InLists(f)' = InLists(f)
         /\ UNCHANGED buf => InArrays(f)' = InArrays(f)
         /\ UNCHANGED <<result, phase, pageSize>> => InResult(f)' = InResult(f)
         /\ UNCHANGED held => InHeld(f)' = InHeld(f)
         /\ UNCHANGED <<boot, phase>> => InBoot(f)' = InBoot(f)
         /\ InHand(f) = InLists(f) + InArrays(f) + InCalls(stack, f) + InResult(f)
         /\ InHand(f)' = InLists(f)' + InArrays(f)' + InCalls(stack', f) + InResult(f)'
         /\ Owners(f)' = InHand(f)' + InBoot(f)' + InHeld(f)'
<1>1. UNCHANGED memory => InLists(f)' = InLists(f)
  BY DEF InLists, In, Hits, FramesOf, BASE_PAGE, LARGE_PAGE, HUGE_PAGE
<1>2. UNCHANGED buf => InArrays(f)' = InArrays(f)
  BY DEF InArrays, IsIn, FramesOf, BASE_PAGE, LARGE_PAGE, HUGE_PAGE
<1>3. UNCHANGED <<result, phase, pageSize>> => InResult(f)' = InResult(f)
  BY DEF InResult, ResultSize, In, Hits, FramesOf, BASE_PAGE
<1>4. UNCHANGED held => InHeld(f)' = InHeld(f)
  BY DEF InHeld, HeldHits, FramesOf
<1>5. UNCHANGED <<boot, phase>> => InBoot(f)' = InBoot(f)
  BY DEF InBoot, boot, MapHits, Uncollected, Booting, canBeUsedByOS, DescriptorRun, Run, In,
         Hits, IsIn, FramesOf, BASE_PAGE
<1>6. InHand(f)' = InLists(f)' + InArrays(f)' + InCalls(stack', f) + InResult(f)'
  BY DEF InHand, InCalls, InPassed, InGot, PassedHits, HitsOf, In, Hits, FramesOf, GotSize,
         toLargerPageSize, BASE_PAGE
<1>7. Owners(f)' = InHand(f)' + InBoot(f)' + InHeld(f)'
  BY DEF Owners
<1>8. InHand(f) = InLists(f) + InArrays(f) + InCalls(stack, f) + InResult(f)
  BY DEF InHand
<1> QED BY <1>1, <1>2, <1>3, <1>4, <1>5, <1>6, <1>7, <1>8

LEMMA HandTypeNext ==
  ASSUME IInv', NEW f
  PROVE  /\ InLists(f)' \in Nat /\ InArrays(f)' \in Nat /\ InCalls(stack', f) \in Nat
         /\ InResult(f)' \in Nat /\ InHand(f)' \in Nat
<1>1. /\ memory' \in [PageSizes -> Seq(PagedMemory)] /\ stack' \in Seq(Frame)
      /\ result' \in Seq(PagedMemory)
  BY DEF IInv, TypeOK, PageSizes, BASE_PAGE, LARGE_PAGE, HUGE_PAGE, PagedMemory, Frame, Labels
<1>2. \A ps \in PageSizes : In(memory'[ps], ps, f) \in Nat
  BY <1>1, HitsFinite
<1>3. InLists(f)' \in Nat
  <2>1. InLists(f)' = In(memory'[BASE_PAGE], BASE_PAGE, f) + In(memory'[LARGE_PAGE], LARGE_PAGE, f)
                      + In(memory'[HUGE_PAGE], HUGE_PAGE, f)
    BY DEF InLists, In, Hits, FramesOf, LARGE_PAGE, HUGE_PAGE, BASE_PAGE
  <2> QED BY <1>2, <2>1, PageSizeFacts
<1>4. InArrays(f)' \in Nat
  <2>1. InArrays(f)' = IsIn(buf'[BASE_PAGE], BASE_PAGE, f) + IsIn(buf'[LARGE_PAGE], BASE_PAGE, f)
                       + IsIn(buf'[HUGE_PAGE], BASE_PAGE, f)
    BY DEF InArrays, IsIn, FramesOf, LARGE_PAGE, HUGE_PAGE, BASE_PAGE
  <2> QED BY <2>1, IsInType
<1>5. InCalls(stack', f) \in Nat
  BY <1>1, InCallsType
<1>6. InResult(f)' \in Nat
  <2>1. InResult(f)' = In(result', ResultSize', f)
    BY DEF InResult, In, Hits, FramesOf
  <2> QED BY <1>1, <2>1, HitsFinite
<1> QED BY <1>3, <1>4, <1>5, <1>6, SameCounts
\* What the steps of the calls rely on.
LEMMA TopHands ==
  ASSUME IInv, Promised, stack # <<>>, NEW f
  PROVE  /\ top.pc \in {"alloc", "return", "free", "gather"} => In(top.got, GotSize(top), f) = 0
         /\ top.pc \in {"alloc", "split"} => In(top.pages, top.ps, f) = 0
         /\ In(top.pages, top.ps, f) \in Nat /\ In(top.got, GotSize(top), f) \in Nat
         /\ Carried(top, f) = In(top.pages, top.ps, f) + In(top.got, GotSize(top), f)
<1>1. top \in Frame /\ top = stack[1] /\ TopAnswered(top)
  BY TopFacts
<1>2. EmptyHanded(top)
  <2>1. stack \in Seq(Frame)
    BY DEF IInv, StackOK
  <2>2. 1 \in DOMAIN stack
    BY <2>1
  <2> QED BY <1>1, <2>2 DEF Promised
<1>3. top.pc \in {"alloc", "return", "free", "gather"} => In(top.got, GotSize(top), f) = 0
  BY <1>1, InEmpty DEF TopAnswered
<1>4. top.pc \in {"alloc", "split"} => In(top.pages, top.ps, f) = 0
  BY <1>2, InEmpty DEF EmptyHanded
<1> QED BY <1>1, <1>3, <1>4, CarriedType DEF Carried

LEMMA AllocFitCounts ==
  ASSUME IInv, Promised, AllocFit, NEW f
  PROVE  InHand(f)' = InHand(f)
<1>1. stack # <<>> /\ top.pc = "alloc" /\ UNCHANGED <<usedBasePages, buf, topLevel>>
  BY DEF AllocFit, At
<1>2. PICK i \in FirstFit(top.n, top.ps) :
        /\ memory' = [memory EXCEPT ![top.ps] = decreasePages(@, top.ps, i, top.n)]
        /\ Return(<<Run(memory[top.ps][i].pageStart, top.n)>>)
  BY DEF AllocFit
<1>3. /\ top.ps \in PageSizes /\ top.ps \in Nat /\ top.n \in Nat
      /\ memory[top.ps] \in Seq(PagedMemory) /\ memory \in [PageSizes -> Seq(PagedMemory)]
  BY <1>1, TopFacts, PageSizeFacts DEF IInv, TypeOK
<1>4. i \in DOMAIN memory[top.ps] /\ memory[top.ps][i].numberOfPages >= top.n
  BY DEF FirstFit
<1> DEFINE list == memory[top.ps]
           rest == decreasePages(list, top.ps, i, top.n)
           run == Run(list[i].pageStart, top.n)
           v == <<run>>
<1>5. list[i].pageStart \in Nat /\ list[i].numberOfPages \in Nat
  <2>1. list[i] \in PagedMemory
    BY <1>3, <1>4
  <2> QED BY <2>1 DEF PagedMemory
<1>6. run \in PagedMemory /\ v \in Seq(PagedMemory) /\ Len(v) = 1
  BY <1>3, <1>5, OneRun
<1>7. top.n <= list[i].numberOfPages
  BY <1>3, <1>4, <1>5
<1>8. rest \in Seq(PagedMemory)
  BY <1>3, <1>4, <1>7, DecreasePagesType
<1>9. memory' = [memory EXCEPT ![top.ps] = rest] /\ Return(v)
  BY <1>2
<1>10. In(list, top.ps, f) = In(rest, top.ps, f) + IsIn(run, top.ps, f)
  BY <1>3, <1>4, <1>7, InDecreased
<1> HIDE DEF rest, run
<1>11. In(v, top.ps, f) = IsIn(run, top.ps, f)
  BY <1>6, InOne
<1>12. Returnable(top, v)
  BY <1>1, <1>6 DEF Returnable, Kind
<1> HIDE DEF v
<1>13. InLists(f)' + In(list, top.ps, f) = InLists(f) + In(rest, top.ps, f)
  BY <1>3, <1>8, <1>9, ListCounts
<1>14. InCalls(stack', f) + InResult(f)' + Carried(top, f)
         = InCalls(stack, f) + InResult(f) + In(v, top.ps, f)
  BY <1>1, <1>9, <1>12, ReturnCounts
<1>15. Carried(top, f) = 0
  BY <1>1, TopHands
<1>16. In(list, top.ps, f) \in Nat /\ In(rest, top.ps, f) \in Nat
  BY <1>3, <1>8, HitsFinite
<1> HIDE DEF list
<1>17. IInv'
  BY AllocStepKeeps DEF AllocStep
<1> QED
  <2>1. /\ InLists(f) \in Nat /\ InArrays(f) \in Nat /\ InCalls(stack, f) \in Nat
        /\ InResult(f) \in Nat
    BY HandType
  <2>2. InLists(f)' \in Nat /\ InCalls(stack', f) \in Nat /\ InResult(f)' \in Nat
    BY <1>17, HandTypeNext
  <2>3. InArrays(f)' = InArrays(f)
    BY <1>1, SameCounts
  <2>4. InHand(f)' = InLists(f)' + InArrays(f)' + InCalls(stack', f) + InResult(f)'
    BY SameCounts
  <2> QED BY <1>10, <1>11, <1>13, <1>14, <1>15, <1>16, <2>1, <2>2, <2>3, <2>4, IsInType DEF InHand

\* A call is made, and the managers are left alone.
LEMMA QuietCall ==
  ASSUME IInv, Promised, stack # <<>>, UNCHANGED <<managers, result, topLevel>>,
         NEW c \in Frame, NEW g \in Frame, Call(g, c), g.got = <<>>, NEW f,
         In(c.pages, c.ps, f) + In(g.pages, g.ps, f) = Carried(top, f)
  PROVE  InHand(f)' = InHand(f)
<1>1. InCalls(stack', f) + Carried(top, f)
        = InCalls(stack, f) + In(c.pages, c.ps, f) + Carried(g, f)
  BY CallCounts
<1>2. Carried(g, f) = In(g.pages, g.ps, f)
  <2>1. In(g.got, GotSize(g), f) = 0
    BY InEmpty
  <2>2. In(g.pages, g.ps, f) \in Nat
    BY CarriedType
  <2> QED BY <2>1, <2>2 DEF Carried
<1>3. /\ In(c.pages, c.ps, f) \in Nat /\ In(g.pages, g.ps, f) \in Nat
      /\ InCalls(stack, f) \in Nat
  BY CarriedType, HandType
<1>4. InCalls(stack', f) \in Nat
  <2>1. stack' \in Seq(Frame)
    BY AfterCall
  <2> QED BY <2>1, InCallsType
<1>5. InCalls(stack', f) = InCalls(stack, f)
  BY <1>1, <1>2, <1>3, <1>4
<1>6. InLists(f)' = InLists(f) /\ InArrays(f)' = InArrays(f) /\ InResult(f)' = InResult(f)
  BY SameCounts DEF managers, topLevel
<1> QED BY <1>5, <1>6, SameCounts DEF InHand

\* A call returns what it has, and the managers are left alone.
LEMMA QuietReturn ==
  ASSUME IInv, stack # <<>>, UNCHANGED <<managers, topLevel>>, NEW v,
         Returnable(top, v), Return(v), IInv', NEW f, Carried(top, f) = In(v, top.ps, f)
  PROVE  InHand(f)' = InHand(f)
<1>1. InCalls(stack', f) + InResult(f)' + Carried(top, f)
        = InCalls(stack, f) + InResult(f) + In(v, top.ps, f)
  BY ReturnCounts
<1>2. /\ InLists(f) \in Nat /\ InArrays(f) \in Nat /\ InCalls(stack, f) \in Nat
      /\ InResult(f) \in Nat
  BY HandType
<1>3. InCalls(stack', f) \in Nat /\ InResult(f)' \in Nat
  BY HandTypeNext
<1>4. InLists(f)' = InLists(f) /\ InArrays(f)' = InArrays(f)
  BY SameCounts DEF managers
<1>5. /\ InHand(f)' = InLists(f)' + InArrays(f)' + InCalls(stack', f) + InResult(f)'
      /\ InHand(f) = InLists(f) + InArrays(f) + InCalls(stack, f) + InResult(f)
  BY SameCounts
<1>6. Carried(top, f) \in Nat
  BY TopFacts, CarriedType
<1>7. InCalls(stack', f) + InResult(f)' = InCalls(stack, f) + InResult(f)
  BY <1>1, <1>2, <1>3, <1>6
<1>8. InHand(f)' = (InLists(f) + InArrays(f)) + (InCalls(stack', f) + InResult(f)')
  BY <1>2, <1>3, <1>4, <1>5
<1>9. InHand(f) = (InLists(f) + InArrays(f)) + (InCalls(stack, f) + InResult(f))
  BY <1>2, <1>5
<1> QED BY <1>7, <1>8, <1>9

LEMMA AllocFromLargerCounts ==
  ASSUME IInv, Promised, AllocFromLarger, NEW f
  PROVE  InHand(f)' = InHand(f)
<1> DEFINE c == [top EXCEPT !.pc = "split"]
           g == Alloc(CeilingDiv(top.n, ENTRIES), toLargerPageSize(top.ps))
<1>1. /\ stack # <<>> /\ top.pc = "alloc" /\ top.ps < HUGE_PAGE
      /\ UNCHANGED <<managers, result, topLevel>> /\ Call(g, c)
  BY DEF AllocFromLarger, At
<1>2. top \in Frame /\ top.ps \in PageSizes /\ top.n \in Nat
  BY <1>1, TopFacts
<1>3. c \in Frame /\ c.ps = top.ps /\ c.pages = top.pages
  BY <1>2 DEF Frame, Labels
<1>4. g \in Frame
  BY <1>1, <1>2, PageSizeFacts, CeilingFacts, NewFrames
<1>5. g.pages = <<>> /\ g.got = <<>>
  BY DEF Alloc
<1> HIDE DEF c, g
<1>6. In(g.pages, g.ps, f) = 0
  BY <1>5, InEmpty
<1>7. In(c.pages, c.ps, f) + In(g.pages, g.ps, f) = Carried(top, f)
  BY <1>1, <1>3, <1>6, TopHands
<1> QED BY <1>1, <1>3, <1>4, <1>5, <1>7, QuietCall

LEMMA AllocSplitCounts ==
  ASSUME IInv, Promised, AllocSplit, NEW f
  PROVE  InHand(f)' = InHand(f)
<1> DEFINE address == top.got[1].pageStart
           larger == CeilingDiv(top.n, ENTRIES)
           free == toSmallerPages(larger) - top.n
           rest == Run(address + top.n * top.ps, free)
           run == Run(address, top.n)
           p == <<run>>
           c == [top EXCEPT !.pc = "return", !.pages = <<Run(address, top.n)>>, !.got = <<>>]
           g == Free(<<rest>>, top.ps)
<1>1. /\ stack # <<>> /\ top.pc = "split" /\ Call(g, c)
      /\ UNCHANGED <<managers, result, topLevel>>
  BY DEF AllocSplit, At
<1>2. /\ top \in Frame /\ top.ps \in PageSizes /\ top.n \in Nat /\ top.ps \in Nat
      /\ top.got \in Seq(PagedMemory) /\ Len(top.got) = 1
  BY <1>1, TopFacts, PageSizeFacts DEF TopAnswered
<1>3. address \in Nat /\ top.got[1] \in PagedMemory
  <2>1. top.got[1] \in PagedMemory
    BY <1>2, OnlyOne
  <2> QED BY <2>1 DEF PagedMemory
<1>4. top.got[1].numberOfPages = larger
  BY <1>1 DEF Promised, Answers
<1>5. top.got[1] = Run(address, larger)
  BY <1>3, <1>4 DEF PagedMemory, Run
<1> HIDE DEF address
<1>6. larger \in Nat /\ toSmallerPages(larger) \in Nat /\ free \in Nat
  <2>1. larger \in Nat
    BY <1>2, CeilingFacts, PageSizeFacts
  <2>2. free \in Nat
    BY <1>2, RemainderFacts
  <2>3. toSmallerPages(larger) \in Nat
    <3> HIDE DEF larger
    <3> QED BY <2>1, PageSizeFacts DEF toSmallerPages
  <2> QED BY <2>1, <2>2, <2>3
<1>7. top.n + free = toSmallerPages(larger)
  <2> HIDE DEF larger
  <2> QED BY <1>2, <1>6
<1> HIDE DEF larger, free
<1>8. address + top.n * top.ps \in Nat
  <2>1. top.n * top.ps \in Nat
    BY <1>2
  <2> QED BY <1>3, <2>1
<1>9. rest \in PagedMemory /\ run \in PagedMemory
  BY <1>2, <1>3, <1>6, <1>8, OneRun
<1>10. IsIn(Run(address, top.n + free), top.ps, f) = IsIn(run, top.ps, f) + IsIn(rest, top.ps, f)
  BY <1>2, <1>3, <1>6, CutRun
<1>11. IsIn(Run(address, larger), toLargerPageSize(top.ps), f)
         = IsIn(Run(address, toSmallerPages(larger)), top.ps, f)
  BY <1>2, <1>3, <1>6, SmallerRun
<1> HIDE DEF rest, run
<1>12. p \in Seq(PagedMemory) /\ <<rest>> \in Seq(PagedMemory)
  BY <1>9
<1>13. c \in Frame /\ c.ps = top.ps /\ c.pages = p
  <2>1. "return" \in Labels
    BY DEF Labels
  <2>2. c = GoingOn(top, "return", p)
    BY DEF GoingOn, run
  <2> HIDE DEF c, p
  <2> QED BY <1>2, <1>12, <2>1, <2>2, ChangedFrame
<1>14. g \in Frame /\ g.ps = top.ps /\ g.pages = <<rest>> /\ g.got = <<>>
  BY <1>2, <1>12, NewFrames DEF Free
<1> HIDE DEF c, g
<1>15. /\ In(c.pages, c.ps, f) = IsIn(run, top.ps, f)
       /\ In(g.pages, g.ps, f) = IsIn(rest, top.ps, f)
  BY <1>9, <1>13, <1>14, InOne
<1>16. GotSize(top) = toLargerPageSize(top.ps)
  BY <1>1 DEF GotSize
<1>17. In(top.got, GotSize(top), f) = IsIn(top.got[1], toLargerPageSize(top.ps), f)
  BY <1>2, <1>16, InSingle
<1>18. Carried(top, f) = In(top.got, GotSize(top), f)
  BY <1>1, TopHands
<1>19. In(c.pages, c.ps, f) + In(g.pages, g.ps, f) = Carried(top, f)
  BY <1>5, <1>7, <1>10, <1>11, <1>15, <1>17, <1>18
<1> QED BY <1>1, <1>13, <1>14, <1>19, QuietCall

LEMMA AllocReturnCounts ==
  ASSUME IInv, Promised, AllocReturn, NEW f
  PROVE  InHand(f)' = InHand(f)
<1>1. /\ stack # <<>> /\ top.pc = "return" /\ Return(top.pages)
      /\ top.pages \in Seq(PagedMemory) /\ Len(top.pages) = 1
      /\ UNCHANGED <<managers, topLevel>>
  BY AllocReturnDoes
<1>2. Returnable(top, top.pages)
  BY <1>1 DEF Returnable, Kind
<1>3. Carried(top, f) = In(top.pages, top.ps, f)
  BY <1>1, TopHands
<1>4. IInv'
  BY AllocStepKeeps DEF AllocStep
<1> QED BY <1>1, <1>2, <1>3, <1>4, QuietReturn

LEMMA FreeStoreCounts ==
  ASSUME IInv, Promised, FreeStore, NEW f
  PROVE  InHand(f)' = InHand(f)
<1> DEFINE c == [top EXCEPT !.pages = Tail(@)]
           run == Head(top.pages)
           tail == Tail(top.pages)
           list == memory[top.ps]
           more == Append(list, run)
<1>1. /\ stack # <<>> /\ top.pc = "free" /\ top.pages # <<>> /\ Goto(c)
      /\ memory' = [memory EXCEPT ![top.ps] = more]
      /\ UNCHANGED <<usedBasePages, buf, result, topLevel>>
  BY DEF FreeStore, At, Stored
<1>2. /\ top \in Frame /\ top.ps \in PageSizes /\ list \in Seq(PagedMemory)
      /\ top.pages \in Seq(PagedMemory)
  BY <1>1, TopFacts
<1>3. /\ run \in PagedMemory /\ tail \in Seq(PagedMemory)
      /\ In(top.pages, top.ps, f) = IsIn(run, top.ps, f) + In(tail, top.ps, f)
  BY <1>1, <1>2, InFirst
<1>4. c \in Frame /\ c.pc = "free" /\ c.ps = top.ps /\ c.pages = tail
      /\ c.got = top.got
  BY <1>1, <1>2, <1>3 DEF Frame
<1>5. c.got = <<>>
  <2>1. top.got = <<>>
    BY <1>1, TopFacts DEF TopAnswered
  <2> QED BY <1>4, <2>1
<1> HIDE DEF c, run, tail
<1>6. In(more, top.ps, f) = In(list, top.ps, f) + IsIn(run, top.ps, f) /\ more \in Seq(PagedMemory)
  BY <1>2, <1>3, InAppend
<1> HIDE DEF more
<1>7. InLists(f)' + In(list, top.ps, f) = InLists(f) + In(more, top.ps, f)
  BY <1>1, <1>2, <1>6, ListCounts
<1>8. InCalls(stack', f) + Carried(top, f) = InCalls(stack, f) + Carried(c, f)
  BY <1>1, <1>4, GotoCounts
<1>9. Carried(top, f) = In(top.pages, top.ps, f) /\ In(top.pages, top.ps, f) \in Nat
  BY <1>1, TopHands
<1>10. Carried(c, f) = In(tail, top.ps, f) /\ In(tail, top.ps, f) \in Nat
  <2>1. In(c.got, GotSize(c), f) = 0
    BY <1>5, InEmpty
  <2>2. In(tail, top.ps, f) \in Nat
    BY <1>3, HitsFinite
  <2> QED BY <1>4, <2>1, <2>2 DEF Carried
<1>11. In(list, top.ps, f) \in Nat
  BY <1>2, HitsFinite
<1> HIDE DEF list
<1>12. /\ InLists(f) \in Nat /\ InArrays(f) \in Nat /\ InCalls(stack, f) \in Nat
       /\ InResult(f) \in Nat
  BY HandType
<1>13. IInv'
  BY FreeStepKeeps DEF FreeStep
<1>14. InLists(f)' \in Nat /\ InCalls(stack', f) \in Nat
  BY <1>13, HandTypeNext
<1>15. InArrays(f)' = InArrays(f) /\ InResult(f)' = InResult(f)
  BY <1>1, SameCounts DEF topLevel
<1>16. /\ InHand(f)' = InLists(f)' + InArrays(f)' + InCalls(stack', f) + InResult(f)'
       /\ InHand(f) = InLists(f) + InArrays(f) + InCalls(stack, f) + InResult(f)
  BY SameCounts
<1>17. IsIn(run, top.ps, f) \in Nat
  BY IsInType
<1>18. InLists(f)' = InLists(f) + IsIn(run, top.ps, f)
  <2>1. InLists(f)' + In(list, top.ps, f)
          = InLists(f) + (In(list, top.ps, f) + IsIn(run, top.ps, f))
    BY <1>6, <1>7
  <2> QED BY <1>11, <1>12, <1>14, <1>17, <2>1
<1>19. InCalls(stack', f) + IsIn(run, top.ps, f) = InCalls(stack, f)
  <2>1. InCalls(stack', f) + (IsIn(run, top.ps, f) + In(tail, top.ps, f))
          = InCalls(stack, f) + In(tail, top.ps, f)
    BY <1>3, <1>8, <1>9, <1>10
  <2> QED BY <1>10, <1>12, <1>14, <1>17, <2>1
<1> QED BY <1>12, <1>14, <1>15, <1>16, <1>17, <1>18, <1>19

\* What the lists lose, the calls and their result get.
LEMMA Balance ==
  ASSUME IInv, IInv', UNCHANGED buf, NEW f,
         NEW old \in Nat, NEW new \in Nat, NEW had \in Nat, NEW has \in Nat,
         InLists(f)' + old = InLists(f) + new, new + has = old + had,
         InCalls(stack', f) + InResult(f)' + had = InCalls(stack, f) + InResult(f) + has
  PROVE  InHand(f)' = InHand(f)
<1>1. /\ InLists(f) \in Nat /\ InArrays(f) \in Nat /\ InCalls(stack, f) \in Nat
      /\ InResult(f) \in Nat
  BY HandType
<1>2. InLists(f)' \in Nat /\ InCalls(stack', f) \in Nat /\ InResult(f)' \in Nat
  BY HandTypeNext
<1>3. InArrays(f)' = InArrays(f)
  BY SameCounts
<1>4. /\ InHand(f)' = InLists(f)' + InArrays(f)' + InCalls(stack', f) + InResult(f)'
      /\ InHand(f) = InLists(f) + InArrays(f) + InCalls(stack, f) + InResult(f)
  BY SameCounts
<1>5. InLists(f)' + InCalls(stack', f) + InResult(f)' = InLists(f) + InCalls(stack, f) + InResult(f)
  BY <1>1, <1>2
<1> QED BY <1>1, <1>2, <1>3, <1>4, <1>5

\* A list and the call on top exchange runs.
LEMMA GotoMoves ==
  ASSUME IInv, IInv', stack # <<>>, NEW c \in Frame, Goto(c), NEW list \in Seq(PagedMemory),
         memory' = [memory EXCEPT ![top.ps] = list], UNCHANGED <<buf, result, topLevel>>, NEW f,
         In(list, top.ps, f) + Carried(c, f) = In(memory[top.ps], top.ps, f) + Carried(top, f)
  PROVE  InHand(f)' = InHand(f)
<1> DEFINE old == In(memory[top.ps], top.ps, f)
           new == In(list, top.ps, f)
           had == Carried(top, f)
           has == Carried(c, f)
<1>1. top \in Frame /\ top.ps \in PageSizes /\ memory[top.ps] \in Seq(PagedMemory)
  BY TopFacts
<1>2. InLists(f)' + old = InLists(f) + new
  BY <1>1, ListCounts
<1>3. InCalls(stack', f) + had = InCalls(stack, f) + has
  BY GotoCounts
<1>4. old \in Nat /\ new \in Nat /\ had \in Nat /\ has \in Nat
  BY <1>1, HitsFinite, CarriedType
<1>5. InResult(f)' = InResult(f) /\ InResult(f) = 0
  BY SameCounts, InEmpty DEF topLevel, IInv, TopLevelOK, InResult
<1>6. new + has = old + had
  OBVIOUS
<1>7. InCalls(stack', f) \in Nat /\ InCalls(stack, f) \in Nat
  BY HandType, HandTypeNext
<1> HIDE DEF old, new, had, has
<1>8. InCalls(stack', f) + InResult(f)' + had = InCalls(stack, f) + InResult(f) + has
  BY <1>3, <1>5, <1>7
<1> QED BY <1>2, <1>4, <1>6, <1>8, Balance

\* A call returns what it has and what it takes from a list.
LEMMA ReturnMoves ==
  ASSUME IInv, IInv', stack # <<>>, NEW v, Returnable(top, v), Return(v),
         NEW list \in Seq(PagedMemory), memory' = [memory EXCEPT ![top.ps] = list],
         UNCHANGED <<buf, topLevel>>, NEW f,
         In(list, top.ps, f) + In(v, top.ps, f) = In(memory[top.ps], top.ps, f) + Carried(top, f)
  PROVE  InHand(f)' = InHand(f)
<1> DEFINE old == In(memory[top.ps], top.ps, f)
           new == In(list, top.ps, f)
           had == Carried(top, f)
           has == In(v, top.ps, f)
<1>1. top \in Frame /\ top.ps \in PageSizes /\ memory[top.ps] \in Seq(PagedMemory)
  BY TopFacts
<1>2. InLists(f)' + old = InLists(f) + new
  BY <1>1, ListCounts
<1>3. InCalls(stack', f) + InResult(f)' + had = InCalls(stack, f) + InResult(f) + has
  BY ReturnCounts
<1>4. old \in Nat /\ new \in Nat /\ had \in Nat /\ has \in Nat
  BY <1>1, HitsFinite, CarriedType DEF Returnable
<1>5. new + has = old + had
  OBVIOUS
<1> HIDE DEF old, new, had, has
<1> QED BY <1>2, <1>3, <1>4, <1>5, Balance

LEMMA FreeFullCounts ==
  ASSUME IInv, Promised, FreeFull, NEW f
  PROVE  InHand(f)' = InHand(f)
<1> DEFINE c == [top EXCEPT !.pc = "grow"]
           g == Alloc(usedBasePages[top.ps] + 1, BASE_PAGE)
<1>1. /\ stack # <<>> /\ top.pc = "free" /\ UNCHANGED <<managers, result, topLevel>>
      /\ Call(g, c)
  BY DEF FreeFull, At
<1>2. top \in Frame /\ usedBasePages[top.ps] \in Nat
  BY <1>1, TopFacts
<1>3. c \in Frame /\ c.ps = top.ps /\ c.pages = top.pages
  BY <1>2 DEF Frame, Labels
<1>4. g \in Frame
  <2>1. usedBasePages[top.ps] + 1 \in Nat
    BY <1>2
  <2> QED BY <2>1, PageSizeFacts, NewFrames
<1>5. g.pages = <<>> /\ g.got = <<>>
  BY DEF Alloc
<1> HIDE DEF c, g
<1>6. In(g.pages, g.ps, f) = 0
  BY <1>5, InEmpty
<1>7. In(c.pages, c.ps, f) + In(g.pages, g.ps, f) = Carried(top, f)
  BY <1>1, <1>3, <1>6, TopHands
<1> QED BY <1>1, <1>3, <1>4, <1>5, <1>7, QuietCall

LEMMA FreeReturnCounts ==
  ASSUME IInv, Promised, FreeReturn, NEW f
  PROVE  InHand(f)' = InHand(f)
<1> DEFINE v == <<>>
<1>1. /\ stack # <<>> /\ top.pc = "free" /\ top.pages = <<>>
      /\ Return(v) /\ UNCHANGED <<managers, topLevel>>
  BY FreeReturnDoes
<1>2. Returnable(top, v) /\ In(v, top.ps, f) = 0 /\ In(top.pages, top.ps, f) = 0
  BY <1>1, InEmpty DEF Returnable, Kind
<1>3. Carried(top, f) = 0
  BY <1>1, <1>2, TopHands
<1>4. IInv'
  BY FreeStepKeeps DEF FreeStep
<1> HIDE DEF v
<1> QED BY <1>1, <1>2, <1>3, <1>4, QuietReturn

\* The frames of an array are among those counted as a free run when it is left.
LEMMA OldArray ==
  ASSUME IInv, ArraysBounded, NEW ps \in PageSizes, NEW f
  PROVE  /\ Run(buf[ps].pageStart, usedBasePages[ps]) \in PagedMemory
         /\ IsIn(Run(buf[ps].pageStart, usedBasePages[ps]), ps, f) >= IsIn(buf[ps], BASE_PAGE, f)
         /\ ps = BASE_PAGE /\ buf[ps].numberOfPages = usedBasePages[ps] =>
              IsIn(Run(buf[ps].pageStart, usedBasePages[ps]), ps, f) = IsIn(buf[ps], BASE_PAGE, f)
<1> DEFINE a == buf[ps].pageStart
           n == buf[ps].numberOfPages
           u == usedBasePages[ps]
           old == Run(a, u)
<1>1. buf[ps] \in PagedMemory /\ u \in Nat
  BY DEF IInv, TypeOK
<1>2. a \in Nat /\ n \in Nat /\ buf[ps] = Run(a, n) /\ n <= u
  BY <1>1 DEF PagedMemory, Run, ArraysBounded
<1>3. ps \in Nat /\ ps >= 1 /\ BASE_PAGE = 1
  BY PageSizeFacts
<1> HIDE DEF a, n, u
<1>4. old \in PagedMemory
  BY <1>1, <1>2, OneRun
<1>5. u * ps \in Nat /\ n * 1 = n /\ n <= u * ps
  <2>1. u * ps >= u
    BY <1>1, <1>3
  <2>2. u * ps \in Nat
    BY <1>1, <1>3
  <2> HIDE DEF old
  <2> QED BY <1>1, <1>2, <2>1, <2>2
<1>6. FramesOf(old, ps) = a .. a + u * ps - 1 /\ FramesOf(Run(a, n), BASE_PAGE) = a .. a + n - 1
  BY <1>3, <1>5 DEF FramesOf, Run
<1>7. f \in a .. a + n - 1 => f \in a .. a + u * ps - 1
  BY <1>2, <1>5
<1>8. IsIn(old, ps, f) >= IsIn(Run(a, n), BASE_PAGE, f)
  BY <1>6, <1>7 DEF IsIn
<1> HIDE DEF old
<1> QED BY <1>2, <1>4, <1>8, IsInType DEF old, a, n, u

\* The array on its way to a list that moves, and the array the list leaves.
LEMMA GrowBalance ==
  ASSUME IInv, IInv', NEW f, NEW x \in Nat, NEW y \in Nat, NEW b \in Nat, NEW g \in Nat,
         InLists(f)' = InLists(f) + x + y, InArrays(f)' + b = InArrays(f) + g,
         InCalls(stack', f) + y + g = InCalls(stack, f), InResult(f)' = InResult(f)
  PROVE  InHand(f)' + b = InHand(f) + x
<1>1. /\ InLists(f) \in Nat /\ InArrays(f) \in Nat /\ InCalls(stack, f) \in Nat
      /\ InResult(f) \in Nat
  BY HandType
<1>2. InLists(f)' \in Nat /\ InArrays(f)' \in Nat /\ InCalls(stack', f) \in Nat
  BY HandTypeNext
<1>3. /\ InHand(f)' = InLists(f)' + InArrays(f)' + InCalls(stack', f) + InResult(f)'
      /\ InHand(f) = InLists(f) + InArrays(f) + InCalls(stack, f) + InResult(f)
  BY SameCounts
<1> QED BY <1>1, <1>2, <1>3

LEMMA FreeGrowCounts ==
  ASSUME ArraysInv, Promised, ArraysBounded, FreeGrow, NEW f
  PROVE  InHand(f)' >= InHand(f) /\ (OnlyBaseGrew' => InHand(f)' = InHand(f))
<1> DEFINE ps == top.ps
           list == memory[ps]
           left == Run(buf[ps].pageStart, usedBasePages[ps])
           run == Head(top.pages)
           tail == Tail(top.pages)
           c == GoingOn(top, "free", tail)
           array == top.got[1]
           more == Append(Append(list, left), run)
<1>0. IInv /\ IInv'
  BY FreeStepKeeps DEF ArraysInv, FreeStep
<1>1. /\ stack # <<>> /\ top.pc = "grow" /\ UNCHANGED <<result, topLevel>>
      /\ memory' = [memory EXCEPT ![ps] = list \o <<left, run>>]
      /\ buf' = [buf EXCEPT ![ps] = array] /\ Goto(c)
  BY DEF FreeGrow, At, GoingOn
<1>2. /\ top \in Frame /\ ps \in PageSizes /\ list \in Seq(PagedMemory)
      /\ top.pages \in Seq(PagedMemory) /\ top.pages # <<>>
      /\ top.got \in Seq(PagedMemory) /\ Len(top.got) = 1
  BY <1>0, <1>1, TopFacts DEF TopAnswered, CarriesPages
<1>3. /\ run \in PagedMemory /\ tail \in Seq(PagedMemory)
      /\ In(top.pages, ps, f) = IsIn(run, ps, f) + In(tail, ps, f)
  BY <1>2, InFirst
<1>4. left \in PagedMemory /\ IsIn(left, ps, f) >= IsIn(buf[ps], BASE_PAGE, f)
  BY <1>0, <1>2, OldArray
<1>5. OnlyBaseGrew' => IsIn(left, ps, f) = IsIn(buf[ps], BASE_PAGE, f)
  <2> SUFFICES ASSUME OnlyBaseGrew' PROVE IsIn(left, ps, f) = IsIn(buf[ps], BASE_PAGE, f)
    OBVIOUS
  <2>1. At("grow") /\ Next
    BY <1>1 DEF At, Next, Running, FreeStep
  <2>2. ps = BASE_PAGE /\ OnlyBaseGrew
    BY <1>0, <2>1, CountsGrow DEF ArraysInv
  <2>3. ~Unready(ps)
    BY <1>0, <1>1, TopReady DEF ArraysInv, Fitting
  <2>4. ~Stopped
    BY <1>0, <1>1 DEF IInv, TopLevelOK, BottomOK, Stopped
  <2>5. ArrayOf(ps)
    BY <1>2, <2>2 DEF ArraysInv, Fitting
  <2>6. buf[ps].numberOfPages = usedBasePages[ps]
    BY <2>3, <2>4, <2>5 DEF ArrayOf
  <2> QED BY <1>0, <1>2, <2>2, <2>6, OldArray
<1>6. c \in Frame /\ c.ps = ps /\ c.pages = tail /\ c.got = <<>>
  <2>1. "free" \in Labels
    BY DEF Labels
  <2> HIDE DEF tail
  <2> QED BY <1>2, <1>3, <2>1, ChangedFrame
<1> HIDE DEF c, left, run, tail, ps
<1>7. list \o <<left, run>> = more
  <2> HIDE DEF list
  <2> QED BY <1>2, <1>3, <1>4
<1>8. /\ more \in Seq(PagedMemory)
      /\ In(more, ps, f) = (In(list, ps, f) + IsIn(left, ps, f)) + IsIn(run, ps, f)
  <2> DEFINE one == Append(list, left)
  <2>1. one \in Seq(PagedMemory) /\ In(one, ps, f) = In(list, ps, f) + IsIn(left, ps, f)
    BY <1>2, <1>4, InAppend
  <2> HIDE DEF one
  <2>2. Append(one, run) \in Seq(PagedMemory)
        /\ In(Append(one, run), ps, f) = In(one, ps, f) + IsIn(run, ps, f)
    BY <1>3, <2>1, InAppend
  <2> QED BY <2>1, <2>2 DEF one
<1>9. memory' = [memory EXCEPT ![ps] = more]
  BY <1>1, <1>7
<1> HIDE DEF more
<1>10. InLists(f)' + In(list, ps, f) = InLists(f) + In(more, ps, f)
  BY <1>0, <1>2, <1>8, <1>9, ListCounts
<1>11. array \in PagedMemory /\ In(top.got, GotSize(top), f) = IsIn(array, BASE_PAGE, f)
  <2>1. GotSize(top) = BASE_PAGE
    BY <1>1 DEF GotSize
  <2> QED BY <1>2, <2>1, InSingle
<1> HIDE DEF array, list
<1>12. InArrays(f)' + IsIn(buf[ps], BASE_PAGE, f) = InArrays(f) + IsIn(array, BASE_PAGE, f)
  BY <1>0, <1>1, <1>2, <1>11, ArrayCounts
<1>13. InCalls(stack', f) + Carried(top, f) = InCalls(stack, f) + Carried(c, f)
  BY <1>0, <1>1, <1>6, GotoCounts
<1> DEFINE l == In(list, ps, f)
           t == In(tail, ps, f)
           x == IsIn(left, ps, f)
           y == IsIn(run, ps, f)
           b == IsIn(buf[ps], BASE_PAGE, f)
           g == IsIn(array, BASE_PAGE, f)
<1>14. l \in Nat /\ t \in Nat
  BY <1>2, <1>3, HitsFinite DEF list
<1>15. x \in Nat /\ y \in Nat /\ b \in Nat /\ g \in Nat
  BY IsInType
<1>16. Carried(c, f) = t
  <2>1. In(c.got, GotSize(c), f) = 0
    BY <1>6, InEmpty
  <2> QED BY <1>6, <1>14, <2>1 DEF Carried
<1>17. Carried(top, f) = (y + t) + g
  BY <1>0, <1>1, <1>3, <1>11, TopHands DEF ps
<1>18. /\ InLists(f) \in Nat /\ InArrays(f) \in Nat /\ InCalls(stack, f) \in Nat
       /\ InResult(f) \in Nat
  BY <1>0, HandType
<1>19. InLists(f)' \in Nat /\ InArrays(f)' \in Nat /\ InCalls(stack', f) \in Nat
  BY <1>0, HandTypeNext
<1>20. /\ InLists(f)' + l = InLists(f) + ((l + x) + y)
       /\ InArrays(f)' + b = InArrays(f) + g
       /\ InCalls(stack', f) + ((y + t) + g) = InCalls(stack, f) + t
  BY <1>8, <1>10, <1>12, <1>13, <1>16, <1>17
<1>21. InResult(f)' = InResult(f)
  BY <1>1, SameCounts DEF topLevel
<1>22. (x >= b) /\ (OnlyBaseGrew' => x = b)
  BY <1>4, <1>5
<1> HIDE DEF l, t, x, y, b, g
<1>23. InLists(f)' = InLists(f) + x + y
  BY <1>14, <1>15, <1>18, <1>19, <1>20
<1>24. InCalls(stack', f) + y + g = InCalls(stack, f)
  BY <1>14, <1>15, <1>18, <1>19, <1>20
<1>25. InHand(f)' + b = InHand(f) + x
  BY <1>0, <1>15, <1>20, <1>21, <1>23, <1>24, GrowBalance
<1>26. InHand(f) \in Nat /\ InHand(f)' \in Nat
  BY <1>0, HandType, HandTypeNext
<1> QED BY <1>15, <1>22, <1>25, <1>26

\* Collecting runs from the end of a list.
LEMMA GatherWholeCounts ==
  ASSUME IInv, Promised, GatherWhole, NEW f
  PROVE  InHand(f)' = InHand(f)
<1> DEFINE list == memory[top.ps]
           run == LastRun(top.ps)
           rest == SubSeq(list, 1, Len(list) - 1)
           pages == Append(top.pages, run)
           c == [top EXCEPT !.pages = pages, !.n = @ - run.numberOfPages]
<1>1. /\ stack # <<>> /\ top.pc = "gather" /\ list # <<>>
      /\ run.numberOfPages < top.n
      /\ memory' = [memory EXCEPT ![top.ps] = rest] /\ Goto(c)
      /\ UNCHANGED <<usedBasePages, buf, result, topLevel>>
  BY DEF GatherWhole, At
<1>2. /\ top \in Frame /\ top.ps \in PageSizes /\ list \in Seq(PagedMemory)
      /\ top.pages \in Seq(PagedMemory) /\ top.got = <<>> /\ top.n \in Nat
  BY <1>1, TopFacts DEF TopAnswered
<1>3. /\ run \in PagedMemory /\ rest \in Seq(PagedMemory)
      /\ In(list, top.ps, f) = In(rest, top.ps, f) + IsIn(run, top.ps, f)
  BY <1>1, <1>2, InLast DEF LastRun
<1>4. In(pages, top.ps, f) = In(top.pages, top.ps, f) + IsIn(run, top.ps, f) /\ pages \in Seq(PagedMemory)
  <2> HIDE DEF run
  <2> QED BY <1>2, <1>3, InAppend
<1> HIDE DEF run, pages, rest
<1>5. c \in Frame /\ c.ps = top.ps /\ c.pages = pages /\ c.got = <<>>
  <2>1. run.numberOfPages \in Nat
    BY <1>3 DEF PagedMemory
  <2>2. top.n - run.numberOfPages \in Nat
    BY <1>1, <1>2, <2>1
  <2> QED BY <1>2, <1>4, <2>2 DEF Frame
<1> HIDE DEF c
<1>6. Carried(c, f) = In(pages, top.ps, f)
  <2>1. In(c.got, GotSize(c), f) = 0
    BY <1>5, InEmpty
  <2>2. In(pages, top.ps, f) \in Nat
    BY <1>4, HitsFinite
  <2> QED BY <1>5, <2>1, <2>2 DEF Carried
<1>7. Carried(top, f) = In(top.pages, top.ps, f)
  BY <1>1, TopHands
<1>8. IsIn(run, top.ps, f) \in Nat /\ In(rest, top.ps, f) \in Nat /\ In(top.pages, top.ps, f) \in Nat
  BY <1>2, <1>3, HitsFinite, IsInType
<1>9. In(rest, top.ps, f) + Carried(c, f) = In(list, top.ps, f) + Carried(top, f)
  <2> HIDE DEF list
  <2> QED BY <1>3, <1>4, <1>6, <1>7, <1>8
<1>10. IInv'
  BY GatherStepKeeps DEF GatherStep
<1> QED BY <1>1, <1>3, <1>5, <1>9, <1>10, GotoMoves

LEMMA GatherLastCounts ==
  ASSUME IInv, Promised, GatherLast, NEW f
  PROVE  InHand(f)' = InHand(f)
<1> DEFINE list == memory[top.ps]
           k == Len(list)
           rest == decreasePages(list, top.ps, k, top.n)
           run == Run(LastRun(top.ps).pageStart, top.n)
           v == Append(top.pages, run)
<1>1. /\ stack # <<>> /\ top.pc = "gather" /\ list # <<>>
      /\ LastRun(top.ps).numberOfPages >= top.n
      /\ memory' = [memory EXCEPT ![top.ps] = rest] /\ Return(v)
      /\ UNCHANGED <<usedBasePages, buf, topLevel>>
  BY DEF GatherLast, At
<1>2. /\ top \in Frame /\ top.ps \in PageSizes /\ list \in Seq(PagedMemory)
      /\ top.pages \in Seq(PagedMemory) /\ top.n \in Nat /\ top.ps \in Nat
  BY <1>1, TopFacts, PageSizeFacts
<1>3. k \in DOMAIN list /\ list[k] \in PagedMemory /\ LastRun(top.ps) = list[k]
  BY <1>1, <1>2 DEF LastRun
<1>4. list[k].pageStart \in Nat /\ list[k].numberOfPages \in Nat /\ top.n <= list[k].numberOfPages
  BY <1>1, <1>2, <1>3 DEF PagedMemory
<1>5. run \in PagedMemory /\ run = Run(list[k].pageStart, top.n)
  BY <1>2, <1>3, <1>4, OneRun
<1> HIDE DEF run, k
<1>6. rest \in Seq(PagedMemory)
  BY <1>2, <1>3, <1>4, DecreasePagesType
<1>7. In(list, top.ps, f) = In(rest, top.ps, f) + IsIn(run, top.ps, f)
  BY <1>2, <1>3, <1>4, <1>5, InDecreased
<1>8. v \in Seq(PagedMemory) /\ In(v, top.ps, f) = In(top.pages, top.ps, f) + IsIn(run, top.ps, f)
  BY <1>2, <1>5, InAppend
<1> HIDE DEF v, rest
<1>9. Returnable(top, v)
  BY <1>1, <1>8 DEF Returnable, Kind
<1>10. Carried(top, f) = In(top.pages, top.ps, f)
  BY <1>1, TopHands
<1>11. IsIn(run, top.ps, f) \in Nat /\ In(rest, top.ps, f) \in Nat /\ In(top.pages, top.ps, f) \in Nat
  BY <1>2, <1>6, HitsFinite, IsInType
<1>12. In(rest, top.ps, f) + In(v, top.ps, f) = In(list, top.ps, f) + Carried(top, f)
  <2> HIDE DEF list
  <2> QED BY <1>7, <1>8, <1>10, <1>11
<1>13. IInv'
  BY GatherStepKeeps DEF GatherStep
<1> QED BY <1>1, <1>6, <1>9, <1>12, <1>13, ReturnMoves

LEMMA GatherFromLargerCounts ==
  ASSUME IInv, Promised, GatherFromLarger, NEW f
  PROVE  InHand(f)' = InHand(f)
<1> DEFINE c == [top EXCEPT !.pc = "gathered"]
           room == top.room - Len(top.pages)
           g == Gather(CeilingDiv(top.n, ENTRIES), toLargerPageSize(top.ps), room)
<1>1. /\ stack # <<>> /\ top.pc = "gather" /\ top.ps < HUGE_PAGE
      /\ UNCHANGED <<managers, result, topLevel>> /\ Call(g, c)
  BY DEF GatherFromLarger, At
<1>2. /\ top \in Frame /\ top.ps \in PageSizes /\ top.n \in Nat /\ top.room \in Int
      /\ top.pages \in Seq(PagedMemory)
  BY <1>1, TopFacts
<1>3. c \in Frame /\ c.ps = top.ps /\ c.pages = top.pages
  BY <1>2 DEF Frame, Labels
<1>4. g \in Frame
  <2>1. room \in Int
    BY <1>2
  <2> HIDE DEF room
  <2> QED BY <1>1, <1>2, <2>1, PageSizeFacts, CeilingFacts, NewFrames
<1>5. g.pages = <<>> /\ g.got = <<>>
  BY DEF Gather
<1> HIDE DEF c, g
<1>6. In(g.pages, g.ps, f) = 0
  BY <1>5, InEmpty
<1>7. In(c.pages, c.ps, f) + In(g.pages, g.ps, f) = Carried(top, f)
  BY <1>1, <1>3, <1>6, TopHands
<1> QED BY <1>1, <1>3, <1>4, <1>5, <1>7, QuietCall

LEMMA GatherConvertCounts ==
  ASSUME IInv, Promised, GatherConvert, NEW f
  PROVE  InHand(f)' = InHand(f)
<1> DEFINE runs == [i \in DOMAIN top.got |-> ToSmallerRun(top.got[i])]
           c == GoingOn(top, "gather", top.pages)
           g == Free(runs, top.ps)
<1>1. /\ stack # <<>> /\ top.pc = "gathered" /\ top \in Frame
      /\ UNCHANGED <<managers, result, topLevel>>
      /\ Call(g, [top EXCEPT !.pc = "gather", !.got = <<>>])
  BY TopFacts DEF GatherConvert, At
<1>2. /\ top.ps \in PageSizes /\ top.pages \in Seq(PagedMemory)
      /\ top.got \in Seq(PagedMemory)
  BY <1>1, TopFacts
<1>3. c = [top EXCEPT !.pc = "gather", !.got = <<>>]
  BY <1>1 DEF GoingOn, Frame
<1>4. c \in Frame /\ c.ps = top.ps /\ c.pages = top.pages
  <2>1. "gather" \in Labels
    BY DEF Labels
  <2> QED BY <1>1, <1>2, <2>1, ChangedFrame
<1>5. Call(g, c)
  BY <1>1, <1>3
<1> HIDE DEF c
<1>6. runs \in Seq(PagedMemory)
  <2>1. ASSUME NEW i \in DOMAIN top.got PROVE ToSmallerRun(top.got[i]) \in PagedMemory
    <3>0. top.got[i] \in PagedMemory
      BY <1>2
    <3>1. top.got[i].pageStart \in Nat /\ top.got[i].numberOfPages \in Nat
      BY <3>0 DEF PagedMemory
    <3>2. toSmallerPages(top.got[i].numberOfPages) \in Nat
      BY <3>1, PageSizeFacts DEF toSmallerPages
    <3> QED BY <3>1, <3>2, OneRun DEF ToSmallerRun
  <2>2. DOMAIN top.got = 1 .. Len(top.got) /\ Len(top.got) \in Nat
    BY <1>2
  <2> QED BY <2>1, <2>2
<1>7. In(runs, top.ps, f) = In(top.got, toLargerPageSize(top.ps), f)
  BY <1>2, SmallerRuns
<1> HIDE DEF runs
<1>8. g \in Frame /\ g.ps = top.ps /\ g.pages = runs /\ g.got = <<>>
  BY <1>2, <1>6, NewFrames DEF Free
<1> HIDE DEF g
<1>9. GotSize(top) = toLargerPageSize(top.ps)
  BY <1>1 DEF GotSize
<1>10. In(c.pages, c.ps, f) + In(g.pages, g.ps, f) = Carried(top, f)
  BY <1>1, <1>4, <1>7, <1>8, <1>9, TopHands
<1> QED BY <1>1, <1>4, <1>5, <1>8, <1>10, QuietCall

-----------------------------------------------------------------------------
(* Every step, the top level's included, leaves a frame as many owners *)

\* The kernel holds finitely many runs.
HeldFinite == IsFiniteSet(held)

\* A step gives no frame another owner, and no frame it owns away for nothing.
Kept(f) == /\ OnlyBaseGrew' => Owners(f)' <= Owners(f)
           /\ ~Stopped' /\ Owners(f) >= 1 => Owners(f)' >= 1

\* The usable descriptors from position k on whose frames f is among.
UsableFrom(k, f) == {i \in k .. Len(descriptors) :
                       /\ canBeUsedByOS(descriptors[i].type)
                       /\ f \in FramesOf(DescriptorRun(i), BASE_PAGE)}

LEMMA UsableFinite ==
  ASSUME IInv, NEW k \in Nat, NEW f
  PROVE  IsFiniteSet(UsableFrom(k, f)) /\ Cardinality(UsableFrom(k, f)) \in Nat
<1>1. descriptors \in Seq(MemoryDescriptor)
  BY MapsAssumption DEF IInv, TypeOK
<1>2. Len(descriptors) \in Nat
  BY <1>1
<1>3. IsFiniteSet(k .. Len(descriptors))
  BY <1>2, FS_Interval
<1>4. UsableFrom(k, f) \subseteq k .. Len(descriptors)
  BY DEF UsableFrom
<1>5. IsFiniteSet(UsableFrom(k, f))
  BY <1>3, <1>4, FS_Subset
<1> QED BY <1>5, FS_CardinalityType

\* The descriptors still to be looked at, in each phase.
LEMMA MapHitsAre ==
  ASSUME IInv, NEW f
  PROVE  /\ phase = "first" => MapHits(f) = UsableFrom(1, f)
         /\ phase = "collect" => MapHits(f) = UsableFrom(index, f)
         /\ phase \notin {"first", "collect"} => MapHits(f) = {}
         /\ IsFiniteSet(MapHits(f)) /\ Cardinality(MapHits(f)) \in Nat
<1>1. descriptors \in Seq(MemoryDescriptor) /\ index \in Nat
  BY MapsAssumption DEF IInv, TypeOK
<1>2. DOMAIN descriptors = 1 .. Len(descriptors)
  BY <1>1
<1>3. phase = "first" => MapHits(f) = UsableFrom(1, f)
  BY <1>2 DEF MapHits, UsableFrom, Uncollected, Booting
<1>4. phase = "collect" => MapHits(f) = UsableFrom(index, f)
  BY DEF MapHits, UsableFrom, Uncollected, Booting
<1>5. phase \notin {"first", "collect"} => MapHits(f) = {}
  BY DEF MapHits, Booting
<1>6. IsFiniteSet(MapHits(f))
  BY <1>1, <1>3, <1>4, <1>5, UsableFinite, FS_EmptySet
<1> QED BY <1>3, <1>4, <1>5, <1>6, FS_CardinalityType

LEMMA HeldHitsFinite ==
  ASSUME HeldFinite, NEW f
  PROVE  IsFiniteSet(HeldHits(f)) /\ InHeld(f) \in Nat
<1>1. HeldHits(f) \subseteq held
  BY DEF HeldHits
<1>2. IsFiniteSet(HeldHits(f))
  BY <1>1, FS_Subset DEF HeldFinite
<1> QED BY <1>2, FS_CardinalityType DEF InHeld

\* The counts of what is not in the managers' hands.
LEMMA OwnersType ==
  ASSUME IInv, HeldFinite, NEW f
  PROVE  /\ In(freeMemory, BASE_PAGE, f) \in Nat /\ IsIn(holder, BASE_PAGE, f) \in Nat
         /\ Cardinality(MapHits(f)) \in Nat /\ InBoot(f) \in Nat /\ InHeld(f) \in Nat
         /\ InHand(f) \in Nat /\ Owners(f) \in Nat
         /\ InBoot(f) = In(freeMemory, BASE_PAGE, f) + IsIn(holder, BASE_PAGE, f)
                        + Cardinality(MapHits(f))
         /\ Owners(f) = InHand(f) + InBoot(f) + InHeld(f)
<1>1. freeMemory \in Seq(PagedMemory)
  BY DEF IInv, TypeOK
<1>2. In(freeMemory, BASE_PAGE, f) \in Nat /\ IsIn(holder, BASE_PAGE, f) \in Nat
  BY <1>1, HitsFinite, IsInType
<1>3. Cardinality(MapHits(f)) \in Nat
  BY MapHitsAre
<1>4. /\ InBoot(f) = In(freeMemory, BASE_PAGE, f) + IsIn(holder, BASE_PAGE, f)
                     + Cardinality(MapHits(f))
      /\ Owners(f) = InHand(f) + InBoot(f) + InHeld(f)
  BY DEF InBoot, Owners
<1>5. InBoot(f) \in Nat
  BY <1>2, <1>3, <1>4
<1>6. InHeld(f) \in Nat /\ InHand(f) \in Nat
  BY HeldHitsFinite, HandType
<1>7. Owners(f) \in Nat
  BY <1>4, <1>5, <1>6
<1> QED BY <1>2, <1>3, <1>4, <1>5, <1>6, <1>7

\* The steps of the calls.
LEMMA CallsKeep ==
  ASSUME ArraysInv, Promised, ArraysBounded, HeldFinite, NEW f,
         AllocStep \/ FreeStep \/ (GatherStep /\ ~GatherOverrun)
  PROVE  Kept(f)
<1>0. IInv
  BY DEF ArraysInv
<1>1. InHand(f)' >= InHand(f) /\ (OnlyBaseGrew' => InHand(f)' = InHand(f))
  <2>1. CASE FreeGrow
    BY <2>1, FreeGrowCounts
  <2>2. CASE ~FreeGrow
    <3>1. InHand(f)' = InHand(f)
      BY <1>0, <2>2, AllocFitCounts, AllocFromLargerCounts, AllocSplitCounts, AllocReturnCounts,
         FreeStoreCounts, FreeFullCounts, FreeReturnCounts, GatherWholeCounts, GatherLastCounts,
         GatherFromLargerCounts, GatherConvertCounts DEF AllocStep, FreeStep, GatherStep
    <3>2. InHand(f) \in Nat
      BY <1>0, HandType
    <3> QED BY <3>1, <3>2
  <2> QED BY <2>1, <2>2
<1>2. UNCHANGED topLevel
  BY DEF AllocStep, FreeStep, GatherStep, AllocFit, AllocFromLarger, AllocSplit, AllocReturn,
         FreeStore, FreeFull, FreeGrow, FreeReturn, GatherWhole, GatherLast, GatherFromLarger,
         GatherConvert
<1>3. InBoot(f)' = InBoot(f) /\ InHeld(f)' = InHeld(f)
  BY <1>2, SameCounts DEF topLevel, kernel
<1>4. IInv'
  BY <1>0, AllocStepKeeps, FreeStepKeeps, GatherStepKeeps
<1>5. /\ InBoot(f) \in Nat /\ InHeld(f) \in Nat /\ InHand(f) \in Nat
      /\ Owners(f) = InHand(f) + InBoot(f) + InHeld(f)
  BY <1>0, OwnersType
<1>6. InHand(f)' \in Nat /\ Owners(f)' = InHand(f)' + InBoot(f)' + InHeld(f)'
  BY <1>4, HandTypeNext, SameCounts
<1>7. Owners(f)' >= Owners(f) /\ (OnlyBaseGrew' => Owners(f)' = Owners(f))
  BY <1>1, <1>3, <1>5, <1>6
<1>8. Owners(f) \in Nat /\ Owners(f)' \in Nat
  BY <1>3, <1>5, <1>6
<1> QED BY <1>7, <1>8 DEF Kept

\* The calls in progress are abandoned: frames may be lost, but none is owned twice.
LEMMA StopCounts ==
  ASSUME IInv, HeldFinite, result = <<>>, NEW reason \in {"fault", "overrun"}, Stop(reason), NEW f
  PROVE  Kept(f)
<1>1. /\ phase' = reason /\ stack' = <<>>
      /\ UNCHANGED <<memory, usedBasePages, buf, result, held, freeMemory, holder>>
  BY DEF Stop, managers, boot, kernel
<1>2. /\ InLists(f)' = InLists(f) /\ InArrays(f)' = InArrays(f) /\ InHeld(f)' = InHeld(f)
      /\ InHand(f)' = InLists(f)' + InArrays(f)' + InCalls(stack', f) + InResult(f)'
      /\ InHand(f) = InLists(f) + InArrays(f) + InCalls(stack, f) + InResult(f)
      /\ Owners(f)' = InHand(f)' + InBoot(f)' + InHeld(f)'
  BY <1>1, SameCounts
<1>3. InCalls(stack', f) = 0
  BY <1>1, InCallsNone
<1>4. InResult(f)' = 0
  BY <1>1, InEmpty DEF InResult
<1>5. InBoot(f)' = In(freeMemory, BASE_PAGE, f) + IsIn(holder, BASE_PAGE, f) + 0
  <2>1. MapHits(f)' = {}
    BY <1>1 DEF MapHits, Booting
  <2>2. Cardinality(MapHits(f)') = 0
    BY <2>1, FS_EmptySet
  <2>3. InBoot(f)' = In(freeMemory, BASE_PAGE, f) + IsIn(holder, BASE_PAGE, f)
                     + Cardinality(MapHits(f)')
    BY <1>1 DEF InBoot, In, Hits, IsIn, FramesOf, BASE_PAGE
  <2> QED BY <2>2, <2>3
<1>6. /\ In(freeMemory, BASE_PAGE, f) \in Nat /\ IsIn(holder, BASE_PAGE, f) \in Nat
      /\ Cardinality(MapHits(f)) \in Nat /\ InBoot(f) \in Nat /\ InHeld(f) \in Nat
      /\ InBoot(f) = In(freeMemory, BASE_PAGE, f) + IsIn(holder, BASE_PAGE, f)
                     + Cardinality(MapHits(f))
      /\ Owners(f) = InHand(f) + InBoot(f) + InHeld(f)
  BY OwnersType
<1>7. /\ InLists(f) \in Nat /\ InArrays(f) \in Nat /\ InCalls(stack, f) \in Nat
      /\ InResult(f) \in Nat
  BY HandType
<1>8. InHand(f)' <= InHand(f) /\ InHand(f) \in Nat /\ InHand(f)' \in Nat
  BY <1>2, <1>3, <1>4, <1>7
<1>9. InBoot(f)' <= InBoot(f) /\ InBoot(f)' \in Nat
  BY <1>5, <1>6
<1>10. Owners(f)' <= Owners(f)
  BY <1>2, <1>6, <1>8, <1>9
<1>11. Stopped'
  BY <1>1 DEF Stopped
<1> QED BY <1>10, <1>11 DEF Kept

\* The first call of a stack.
LEMMA FirstCall ==
  ASSUME NEW c \in Frame, c.got = <<>>, stack' = <<c>>, NEW f
  PROVE  InCalls(stack', f) = In(c.pages, c.ps, f) /\ In(c.pages, c.ps, f) \in Nat
<1> DEFINE r == <<>>
           s == <<c>> \o r
<1>1. r \in Seq(Frame) /\ stack' = s /\ InPassed(r, f) = 0
  BY PassedNone
<1>5. stack' # <<>> /\ stack'[1] = c
  OBVIOUS
<1>6. InPassed(s, f) = InPassed(r, f) + In(c.pages, c.ps, f)
  <2> HIDE DEF r
  <2> QED BY <1>1, PassedOn
<1> HIDE DEF r, s
<1>2. /\ stack' # <<>> /\ stack'[1] = c
      /\ InPassed(stack', f) = InPassed(r, f) + In(c.pages, c.ps, f)
  BY <1>1, <1>5, <1>6
<1>3. In(c.pages, c.ps, f) \in Nat
  BY CarriedType
<1>4. InGot(stack', f) = 0
  BY <1>2, InEmpty DEF InGot
<1> QED BY <1>1, <1>2, <1>3, <1>4 DEF InCalls

LEMMA BootNext ==
  ASSUME UNCHANGED descriptors, NEW f
  PROVE  /\ InBoot(f)' = In(freeMemory', BASE_PAGE, f) + IsIn(holder', BASE_PAGE, f)
                         + Cardinality(MapHits(f)')
         /\ phase' = "collect" => MapHits(f)' = UsableFrom(index', f)
         /\ phase' \notin {"first", "collect"} => MapHits(f)' = {}
<1>1. InBoot(f)' = In(freeMemory', BASE_PAGE, f) + IsIn(holder', BASE_PAGE, f)
                   + Cardinality(MapHits(f)')
  BY DEF InBoot, In, Hits, IsIn, FramesOf, BASE_PAGE
<1>2. phase' = "collect" => MapHits(f)' = UsableFrom(index', f)
  BY DEF MapHits, UsableFrom, Uncollected, Booting, canBeUsedByOS, DescriptorRun, Run, FramesOf,
         BASE_PAGE
<1>3. phase' \notin {"first", "collect"} => MapHits(f)' = {}
  BY DEF MapHits, Booting
<1> QED BY <1>1, <1>2, <1>3

\* The descriptor found next, and those behind it.
LEMMA NextUsable ==
  ASSUME IInv, NEW k \in Nat, k >= 1, NEW i \in nextValidDescriptor(k), NEW f
  PROVE  Cardinality(UsableFrom(k, f))
           = Cardinality(UsableFrom(i + 1, f)) + IsIn(DescriptorRun(i), BASE_PAGE, f)
<1>1. /\ i \in k .. Len(descriptors) /\ canBeUsedByOS(descriptors[i].type)
      /\ \A j \in k .. i - 1 : ~canBeUsedByOS(descriptors[j].type)
  BY DEF nextValidDescriptor
<1>2. Len(descriptors) \in Nat
  <2>1. descriptors \in Seq(MemoryDescriptor)
    BY MapsAssumption DEF IInv, TypeOK
  <2> QED BY <2>1
<1>3. i \in Nat /\ i >= k /\ i <= Len(descriptors) /\ i + 1 \in Nat
  BY <1>1, <1>2
<1> DEFINE S == UsableFrom(i + 1, f)
           D == FramesOf(DescriptorRun(i), BASE_PAGE)
<1>4. IsFiniteSet(S)
  BY <1>3, UsableFinite
<1>5. i \notin S
  BY <1>2, <1>3 DEF UsableFrom
<1>6. UsableFrom(k, f) = IF f \in D THEN S \cup {i} ELSE S
  <2>1. ASSUME NEW j \in k .. Len(descriptors), canBeUsedByOS(descriptors[j].type)
        PROVE  j = i \/ j \in i + 1 .. Len(descriptors)
    BY <1>1, <1>2, <1>3, <2>1
  <2>2. \A j \in i + 1 .. Len(descriptors) : j \in k .. Len(descriptors) /\ j # i
    BY <1>2, <1>3
  <2>3. \A j : j \in UsableFrom(k, f) <=>
          /\ j \in k .. Len(descriptors) /\ canBeUsedByOS(descriptors[j].type)
          /\ f \in FramesOf(DescriptorRun(j), BASE_PAGE)
    BY DEF UsableFrom
  <2>4. \A j : j \in S <=>
          /\ j \in i + 1 .. Len(descriptors) /\ canBeUsedByOS(descriptors[j].type)
          /\ f \in FramesOf(DescriptorRun(j), BASE_PAGE)
    BY DEF UsableFrom
  <2> HIDE DEF S
  <2>5. \A j : j \in UsableFrom(k, f) <=> j \in S \/ (j = i /\ f \in D)
    BY <1>1, <2>1, <2>2, <2>3, <2>4, Zenon
  <2> HIDE DEF D
  <2> QED BY <2>5
<1> HIDE DEF S
<1> QED BY <1>4, <1>5, <1>6, OneMore DEF S

\* No descriptor is found: none behind this one is usable.
LEMMA NoneUsable ==
  ASSUME IInv, NEW k \in Nat, k >= 1, nextValidDescriptor(k) = {}, NEW f
  PROVE  UsableFrom(k, f) = {}
<1> DEFINE S == {j \in k .. Len(descriptors) : canBeUsedByOS(descriptors[j].type)}
<1>1. Len(descriptors) \in Nat
  <2>1. descriptors \in Seq(MemoryDescriptor)
    BY MapsAssumption DEF IInv, TypeOK
  <2> QED BY <2>1
<1>2. S = {}
  <2> SUFFICES ASSUME S # {} PROVE FALSE
    OBVIOUS
  <2>1. S \in SUBSET Nat
    BY <1>1
  <2>2. PICK x \in S : \A y \in S : x <= y
    <3> HIDE DEF S
    <3> QED BY <2>1, Least
  <2>3. ASSUME NEW j \in k .. x - 1 PROVE ~canBeUsedByOS(descriptors[j].type)
    <3>1. x \in Nat /\ x <= Len(descriptors)
      BY <1>1
    <3>2. j \in k .. Len(descriptors) /\ ~(x <= j)
      BY <1>1, <3>1
    <3> QED BY <2>2, <3>2
  <2>4. x \in nextValidDescriptor(k)
    BY <2>3 DEF nextValidDescriptor
  <2> QED BY <2>4
<1> QED BY <1>2 DEF UsableFrom

\* A step of the top level that leaves the kernel's runs alone.
LEMMA TopBalance ==
  ASSUME IInv, IInv', HeldFinite, NEW f, stack = <<>>, result = <<>>, result' = <<>>,
         UNCHANGED held, InBoot(f)' \in Nat,
         InLists(f)' + InArrays(f)' + InCalls(stack', f) + InBoot(f)'
           = InLists(f) + InArrays(f) + InBoot(f)
  PROVE  Kept(f)
<1>1. InCalls(stack, f) = 0 /\ InResult(f) = 0
  BY InCallsNone, InEmpty DEF InResult
<1>2. InResult(f)' = 0
  BY InEmpty DEF InResult
<1>3. /\ InHeld(f)' = InHeld(f)
      /\ InHand(f)' = InLists(f)' + InArrays(f)' + InCalls(stack', f) + InResult(f)'
      /\ InHand(f) = InLists(f) + InArrays(f) + InCalls(stack, f) + InResult(f)
      /\ Owners(f)' = InHand(f)' + InBoot(f)' + InHeld(f)'
  BY SameCounts
<1>4. /\ InBoot(f) \in Nat /\ InHeld(f) \in Nat /\ Owners(f) \in Nat
      /\ Owners(f) = InHand(f) + InBoot(f) + InHeld(f)
  BY OwnersType
<1>5. InLists(f) \in Nat /\ InArrays(f) \in Nat
  BY HandType
<1>6. InLists(f)' \in Nat /\ InArrays(f)' \in Nat /\ InCalls(stack', f) \in Nat
  BY HandTypeNext
<1>7. /\ InHand(f) = InLists(f) + InArrays(f)
      /\ InHand(f)' = InLists(f)' + InArrays(f)' + InCalls(stack', f)
  BY <1>1, <1>2, <1>3, <1>5, <1>6
<1>8. InHand(f)' + InBoot(f)' = InHand(f) + InBoot(f)
  BY <1>7
<1>9. Owners(f)' = Owners(f)
  BY <1>3, <1>4, <1>8
<1> QED BY <1>4, <1>9 DEF Kept

-----------------------------------------------------------------------------
(* The steps of initPhysicalMemoryManager and initPMM *)

\* The first usable frames become basePMM's array and freeMemoryArray's memory.
LEMMA InitFirstKeeps ==
  ASSUME ArraysInv, NoHolderYet, HeldFinite, InitFirst, NEW f
  PROVE  Kept(f)
<1>0. IInv /\ IInv'
  BY InitStepKeeps DEF ArraysInv, InitStep
<1>1. /\ stack = <<>> /\ phase = "first" /\ phase' = "collect" /\ result = <<>>
      /\ UNCHANGED <<memory, stack, result, descriptors, freeMemory, held>>
  BY <1>0 DEF InitFirst, Idle, kernel, IInv, TopLevelOK
<1>2. PICK first \in nextValidDescriptor(1) :
        /\ buf' = [buf EXCEPT ![BASE_PAGE] = Run(descriptors[first].physicalStart, 1)]
        /\ \/ /\ descriptors[first].numberOfPages > 1
              /\ holder' = RestOfRun(first) /\ index' = first + 1
           \/ /\ descriptors[first].numberOfPages = 1
              /\ \E second \in nextValidDescriptor(first + 1) :
                   holder' = DescriptorRun(second) /\ index' = second + 1
  BY DEF InitFirst
<1> DEFINE a == descriptors[first].physicalStart
           n == descriptors[first].numberOfPages
           one == Run(a, 1)
           all == Cardinality(UsableFrom(1, f))
           rest == Cardinality(UsableFrom(first + 1, f))
           left == Cardinality(UsableFrom(index', f))
           array == IsIn(one, BASE_PAGE, f)
           kept == IsIn(holder', BASE_PAGE, f)
           whole == IsIn(DescriptorRun(first), BASE_PAGE, f)
<1>3. first \in Nat /\ first >= 1 /\ a \in Nat /\ n \in Nat /\ n >= 1 /\ DescriptorRun(first) = Run(a, n)
  BY <1>0, DescriptorFacts DEF DescriptorRun
<1> HIDE DEF a, n
<1>4. one \in PagedMemory
  BY <1>3, OneRun
<1>5. all = rest + whole
  BY <1>0, NextUsable
<1>6. array \in Nat /\ kept \in Nat /\ whole \in Nat
  BY IsInType
<1>7. rest \in Nat /\ first + 1 \in Nat /\ first + 1 >= 1
  <2>1. first + 1 \in Nat /\ first + 1 >= 1
    BY <1>3
  <2> QED BY <1>0, <2>1, UsableFinite
<1>8. left \in Nat /\ all = left + (array + kept)
  <2>1. CASE n > 1 /\ holder' = RestOfRun(first) /\ index' = first + 1
    <3>1. n - 1 \in Nat /\ 1 + (n - 1) = n /\ a + 1 * 1 = a + 1
      BY <1>3, <2>1
    <3>2. IsIn(Run(a, 1 + (n - 1)), 1, f) = IsIn(one, 1, f) + IsIn(Run(a + 1 * 1, n - 1), 1, f)
      BY <1>3, <3>1, CutRun
    <3>3. RestOfRun(first) = Run(a + 1, n - 1)
      BY DEF RestOfRun, a, n
    <3>4. whole = array + kept
      BY <1>3, <2>1, <3>1, <3>2, <3>3, PageSizeFacts
    <3>5. left = rest
      BY <2>1
    <3> HIDE DEF rest, left, array, kept, whole, all
    <3> QED BY <1>5, <1>6, <1>7, <3>4, <3>5
  <2>2. CASE n = 1 /\ \E second \in nextValidDescriptor(first + 1) :
                        holder' = DescriptorRun(second) /\ index' = second + 1
    <3>1. PICK second \in nextValidDescriptor(first + 1) :
                 holder' = DescriptorRun(second) /\ index' = second + 1
      BY <2>2
    <3> DEFINE k == first + 1
    <3>2. k \in Nat /\ k >= 1 /\ second \in nextValidDescriptor(k)
      BY <1>7
    <3> HIDE DEF k
    <3>3. second \in Nat
      BY <1>0, <3>2, DescriptorFacts
    <3>4. Cardinality(UsableFrom(k, f)) = Cardinality(UsableFrom(second + 1, f))
            + IsIn(DescriptorRun(second), BASE_PAGE, f)
      BY <1>0, <3>2, NextUsable
    <3>5. rest = left + kept
      BY <3>1, <3>4 DEF k
    <3>6. left \in Nat
      <4>1. second + 1 \in Nat
        BY <3>3
      <4> QED BY <1>0, <3>1, <4>1, UsableFinite
    <3>7. whole = array
      BY <1>3, <2>2
    <3> HIDE DEF rest, left, array, kept, whole, all
    <3> QED BY <1>5, <1>6, <3>5, <3>6, <3>7
  <2> QED BY <1>2, <2>1, <2>2 DEF n
<1>9. InLists(f)' = InLists(f)
  BY <1>1, SameCounts
<1>10. InArrays(f)' = InArrays(f) + array
  <2>1. InArrays(f)' + IsIn(buf[BASE_PAGE], BASE_PAGE, f) = InArrays(f) + array
    <3>1. buf' = [buf EXCEPT ![BASE_PAGE] = one] /\ BASE_PAGE \in PageSizes
      BY <1>2, PageSizeFacts DEF a
    <3> HIDE DEF one
    <3> QED BY <1>0, <1>4, <3>1, ArrayCounts
  <2>2. buf[BASE_PAGE] = Run(0, 0)
    BY <1>1, PageSizeFacts DEF ArraysInv, Fitting, UnreadyEmpty, Unready
  <2>3. IsIn(buf[BASE_PAGE], BASE_PAGE, f) = 0
    BY <2>2, NoPages, PageSizeFacts
  <2>4. InArrays(f)' \in Nat /\ InArrays(f) \in Nat
    BY <1>0, HandType, HandTypeNext
  <2> HIDE DEF array
  <2> QED BY <1>6, <2>1, <2>3, <2>4
<1>11. InCalls(stack', f) = 0
  BY <1>1, InCallsNone
<1> DEFINE free == In(freeMemory, BASE_PAGE, f)
<1>12. free \in Nat
  BY <1>0, OwnersType
<1>13. InBoot(f) = free + 0 + all
  <2>1. IsIn(holder, BASE_PAGE, f) = 0
    BY <1>1, NoPages, PageSizeFacts DEF NoHolderYet
  <2>2. MapHits(f) = UsableFrom(1, f)
    BY <1>0, <1>1, MapHitsAre
  <2> QED BY <2>1, <2>2 DEF InBoot
<1>14. InBoot(f)' = free + kept + left
  BY <1>1, BootNext
<1>15. InLists(f) \in Nat /\ InArrays(f) \in Nat
  BY <1>0, HandType
<1> HIDE DEF rest, left, array, kept, whole, all, free
<1>16. InBoot(f)' \in Nat
  BY <1>6, <1>8, <1>12, <1>14
<1>17. array + InBoot(f)' = InBoot(f)
  BY <1>6, <1>8, <1>12, <1>13, <1>14
<1>18. InLists(f)' + InArrays(f)' + InCalls(stack', f) + InBoot(f)'
         = InLists(f) + InArrays(f) + InBoot(f)
  BY <1>6, <1>9, <1>10, <1>11, <1>15, <1>16, <1>17
<1> QED BY <1>0, <1>1, <1>16, <1>18, TopBalance

\* Another run is collected; a full freeMemoryArray is freed first.
LEMMA InitCollectKeeps ==
  ASSUME IInv, HeldFinite, InitCollect, NEW f
  PROVE  Kept(f)
<1>1. /\ stack = <<>> /\ phase = "collect" /\ phase' = "collect" /\ result = <<>>
      /\ UNCHANGED <<memory, buf, result, descriptors, holder, held>>
  BY DEF InitCollect, Idle, kernel, managers, IInv, TopLevelOK
<1>2. PICK i \in nextValidDescriptor(index) :
        LET full == Len(freeMemory) >= EntriesPerPage * holder.numberOfPages
        IN  /\ stack' = IF full THEN <<Free(freeMemory, BASE_PAGE)>> ELSE <<>>
            /\ freeMemory' = Append(IF full THEN <<>> ELSE freeMemory, DescriptorRun(i))
            /\ index' = i + 1
  BY DEF InitCollect
<1>3. IInv'
  BY InitStepKeeps DEF InitStep
<1>4. index \in Nat /\ index >= 1 /\ freeMemory \in Seq(PagedMemory)
  BY DEF IInv, TypeOK, TopLevelOK
<1>5. i \in Nat /\ DescriptorRun(i) \in PagedMemory
  BY <1>4, DescriptorFacts
<1> DEFINE run == DescriptorRun(i)
           x == IsIn(run, BASE_PAGE, f)
           free == In(freeMemory, BASE_PAGE, f)
           more == In(freeMemory', BASE_PAGE, f)
           all == Cardinality(UsableFrom(index, f))
           left == Cardinality(UsableFrom(index', f))
           kept == IsIn(holder, BASE_PAGE, f)
<1>6. all = left + x
  BY <1>2, <1>4, NextUsable
<1>7. left \in Nat /\ x \in Nat /\ free \in Nat /\ kept \in Nat
  <2>1. index' \in Nat
    BY <1>2, <1>5
  <2> QED BY <2>1, <1>4, UsableFinite, IsInType, HitsFinite
<1> HIDE DEF run
<1>8. InCalls(stack', f) + more = free + x
  <2>1. CASE stack' = <<Free(freeMemory, BASE_PAGE)>> /\ freeMemory' = Append(<<>>, run)
    <3> DEFINE c == Free(freeMemory, BASE_PAGE)
    <3>1. c \in Frame /\ c.pages = freeMemory /\ c.ps = BASE_PAGE /\ c.got = <<>>
      BY <1>4, PageSizeFacts, NewFrames DEF Free
    <3> HIDE DEF c
    <3>2. InCalls(stack', f) = free
      BY <2>1, <3>1, FirstCall DEF c
    <3>3. freeMemory' = <<run>>
      BY <2>1
    <3>4. more = x
      BY <1>5, <3>3, InOne DEF run
    <3> QED BY <3>2, <3>4
  <2>2. CASE stack' = <<>> /\ freeMemory' = Append(freeMemory, run)
    <3>1. InCalls(stack', f) = 0
      BY <2>2, InCallsNone
    <3>2. more = free + x
      BY <1>4, <1>5, <2>2, InAppend DEF run
    <3> HIDE DEF free, x, more
    <3> QED BY <1>7, <3>1, <3>2
  <2> QED BY <1>2, <2>1, <2>2 DEF run
<1>9. InLists(f)' = InLists(f) /\ InArrays(f)' = InArrays(f)
  BY <1>1, SameCounts
<1>10. InBoot(f) = free + kept + all
  <2>1. MapHits(f) = UsableFrom(index, f)
    BY <1>1, MapHitsAre
  <2> QED BY <2>1 DEF InBoot
<1>11. InBoot(f)' = more + kept + left
  BY <1>1, BootNext
<1>12. InLists(f) \in Nat /\ InArrays(f) \in Nat
  BY HandType
<1>13. InCalls(stack', f) \in Nat
  BY <1>3, HandTypeNext
<1>14. more \in Nat
  <2>1. freeMemory' \in Seq(PagedMemory)
    BY <1>3 DEF IInv, TypeOK, PagedMemory
  <2> QED BY <2>1, HitsFinite
<1> HIDE DEF x, free, more, all, left, kept
<1>15. InBoot(f)' \in Nat
  BY <1>7, <1>11, <1>14
<1>16. InCalls(stack', f) + InBoot(f)' = InBoot(f)
  BY <1>6, <1>7, <1>8, <1>10, <1>11, <1>13, <1>14
<1>17. InLists(f)' + InArrays(f)' + InCalls(stack', f) + InBoot(f)'
         = InLists(f) + InArrays(f) + InBoot(f)
  BY <1>9, <1>12, <1>13, <1>15, <1>16
<1> QED BY <1>1, <1>3, <1>15, <1>17, TopBalance

\* The end of the descriptors: what has been collected is freed.
LEMMA InitFreeCollectedKeeps ==
  ASSUME IInv, HeldFinite, InitFreeCollected, NEW f
  PROVE  Kept(f)
<1> DEFINE c == Free(freeMemory, BASE_PAGE)
           free == In(freeMemory, BASE_PAGE, f)
           kept == IsIn(holder, BASE_PAGE, f)
<1>1. /\ stack = <<>> /\ phase = "collect" /\ phase' = "holder" /\ result = <<>>
      /\ nextValidDescriptor(index) = {} /\ stack' = <<c>> /\ freeMemory' = <<>>
      /\ UNCHANGED <<memory, buf, result, descriptors, holder, held>>
  BY DEF InitFreeCollected, Idle, kernel, managers, IInv, TopLevelOK
<1>2. IInv'
  BY InitStepKeeps DEF InitStep
<1>3. index \in Nat /\ index >= 1 /\ freeMemory \in Seq(PagedMemory)
  BY DEF IInv, TypeOK, TopLevelOK
<1>4. c \in Frame /\ c.pages = freeMemory /\ c.ps = BASE_PAGE /\ c.got = <<>>
  BY <1>3, PageSizeFacts, NewFrames DEF Free
<1> HIDE DEF c
<1>5. InCalls(stack', f) = free /\ free \in Nat
  BY <1>1, <1>4, FirstCall
<1>6. InBoot(f) = free + kept + 0
  <2>1. MapHits(f) = {}
    BY <1>1, <1>3, MapHitsAre, NoneUsable
  <2>2. Cardinality(MapHits(f)) = 0
    BY <2>1, FS_EmptySet
  <2> QED BY <2>2 DEF InBoot
<1>7. InBoot(f)' = 0 + kept + 0
  <2>1. MapHits(f)' = {}
    BY <1>1, BootNext
  <2>2. Cardinality(MapHits(f)') = 0
    BY <2>1, FS_EmptySet
  <2>3. In(freeMemory', BASE_PAGE, f) = 0
    BY <1>1, InEmpty
  <2> QED BY <1>1, <2>2, <2>3, BootNext
<1>8. InLists(f)' = InLists(f) /\ InArrays(f)' = InArrays(f)
  BY <1>1, SameCounts
<1>9. InLists(f) \in Nat /\ InArrays(f) \in Nat /\ kept \in Nat
  BY HandType, IsInType
<1> HIDE DEF free, kept
<1>10. InBoot(f)' \in Nat /\ InCalls(stack', f) + InBoot(f)' = InBoot(f)
  BY <1>5, <1>6, <1>7, <1>9
<1>11. InLists(f)' + InArrays(f)' + InCalls(stack', f) + InBoot(f)'
         = InLists(f) + InArrays(f) + InBoot(f)
  BY <1>5, <1>8, <1>9, <1>10
<1> QED BY <1>1, <1>2, <1>10, <1>11, TopBalance

\* The memory freeMemoryArray was stored in is freed.
LEMMA InitFreeHolderKeeps ==
  ASSUME IInv, HeldFinite, InitFreeHolder, NEW f
  PROVE  Kept(f)
<1> DEFINE c == Free(<<holder>>, BASE_PAGE)
           free == In(freeMemory, BASE_PAGE, f)
           kept == IsIn(holder, BASE_PAGE, f)
<1>1. /\ stack = <<>> /\ phase = "holder" /\ phase' = "initPMM" /\ result = <<>>
      /\ stack' = <<c>> /\ holder' = Run(0, 0)
      /\ UNCHANGED <<memory, buf, result, descriptors, freeMemory, held>>
  BY DEF InitFreeHolder, Idle, kernel, managers, IInv, TopLevelOK
<1>2. IInv'
  BY InitStepKeeps DEF InitStep
<1>3. holder \in PagedMemory /\ <<holder>> \in Seq(PagedMemory)
  BY DEF IInv, TypeOK
<1>4. c \in Frame /\ c.pages = <<holder>> /\ c.ps = BASE_PAGE /\ c.got = <<>>
  BY <1>3, PageSizeFacts, NewFrames DEF Free
<1> HIDE DEF c
<1>5. InCalls(stack', f) = kept
  <2>1. InCalls(stack', f) = In(c.pages, c.ps, f)
    BY <1>1, <1>4, FirstCall
  <2>2. In(c.pages, c.ps, f) = kept
    BY <1>3, <1>4, InOne
  <2> QED BY <2>1, <2>2
<1>6. InBoot(f) = free + kept + 0
  <2>1. MapHits(f) = {}
    BY <1>1, MapHitsAre
  <2>2. Cardinality(MapHits(f)) = 0
    BY <2>1, FS_EmptySet
  <2> QED BY <2>2 DEF InBoot
<1>7. InBoot(f)' = free + 0 + 0
  <2>1. MapHits(f)' = {}
    BY <1>1, BootNext
  <2>2. Cardinality(MapHits(f)') = 0
    BY <2>1, FS_EmptySet
  <2>3. IsIn(holder', BASE_PAGE, f) = 0
    BY <1>1, NoPages, PageSizeFacts
  <2> QED BY <1>1, <2>2, <2>3, BootNext
<1>8. InLists(f)' = InLists(f) /\ InArrays(f)' = InArrays(f)
  BY <1>1, SameCounts
<1>9. InLists(f) \in Nat /\ InArrays(f) \in Nat /\ kept \in Nat /\ free \in Nat
  BY HandType, OwnersType
<1> HIDE DEF free, kept
<1>10. InBoot(f)' \in Nat /\ InCalls(stack', f) + InBoot(f)' = InBoot(f)
  BY <1>5, <1>6, <1>7, <1>9
<1>11. InLists(f)' + InArrays(f)' + InCalls(stack', f) + InBoot(f)'
         = InLists(f) + InArrays(f) + InBoot(f)
  BY <1>5, <1>8, <1>9, <1>10
<1> QED BY <1>1, <1>2, <1>10, <1>11, TopBalance

\* After the boot nothing but freeMemoryArray and its memory is counted for it.
LEMMA BootOver ==
  ASSUME IInv, phase \notin {"first", "collect"}, phase' \notin {"first", "collect"},
         UNCHANGED <<descriptors, freeMemory, holder>>, NEW f
  PROVE  InBoot(f)' = InBoot(f)
<1>1. MapHits(f) = {} /\ MapHits(f)' = {}
  BY MapHitsAre, BootNext
<1>2. InBoot(f) = In(freeMemory, BASE_PAGE, f) + IsIn(holder, BASE_PAGE, f)
                  + Cardinality(MapHits(f))
  BY DEF InBoot
<1>3. InBoot(f)' = In(freeMemory', BASE_PAGE, f) + IsIn(holder', BASE_PAGE, f)
                   + Cardinality(MapHits(f)')
  BY BootNext
<1> QED BY <1>1, <1>2, <1>3

\* A call that brings no runs, or no call at all.
LEMMA EmptyCallKeeps ==
  ASSUME IInv, IInv', HeldFinite, stack = <<>>, result = <<>>, NEW f,
         phase \notin {"first", "collect"}, phase' \notin {"first", "collect"},
         UNCHANGED <<memory, buf, result, descriptors, freeMemory, holder, held>>,
         \/ stack' = <<>>
         \/ \E c \in Frame : stack' = <<c>> /\ c.pages = <<>> /\ c.got = <<>>
  PROVE  Kept(f)
<1>1. InCalls(stack', f) = 0
  <2>1. CASE stack' = <<>>
    BY <2>1, InCallsNone
  <2>2. ASSUME NEW c \in Frame, stack' = <<c>> /\ c.pages = <<>> /\ c.got = <<>>
        PROVE  InCalls(stack', f) = 0
    <3>1. InCalls(stack', f) = In(c.pages, c.ps, f)
      BY <2>2, FirstCall
    <3>2. In(c.pages, c.ps, f) = 0
      BY <2>2, InEmpty
    <3> QED BY <3>1, <3>2
  <2> QED BY <2>1, <2>2
<1>2. InLists(f)' = InLists(f) /\ InArrays(f)' = InArrays(f) /\ InBoot(f)' = InBoot(f)
  BY SameCounts, BootOver
<1>3. InLists(f) \in Nat /\ InArrays(f) \in Nat /\ InBoot(f) \in Nat
  BY HandType, OwnersType
<1>4. InBoot(f)' \in Nat /\ InLists(f)' + InArrays(f)' + InCalls(stack', f) + InBoot(f)'
        = InLists(f) + InArrays(f) + InBoot(f)
  BY <1>1, <1>2, <1>3
<1> QED BY <1>4, TopBalance

LEMMA InitPMMKeeps ==
  ASSUME IInv, HeldFinite, InitPMM \/ InitPMMDone, NEW f
  PROVE  Kept(f)
<1>1. IInv'
  BY InitStepKeeps DEF InitStep
<1>2. CASE InitPMM
  <2> DEFINE c == Alloc(usedBasePages[pageSize], BASE_PAGE)
  <2>1. /\ stack = <<>> /\ phase = "initPMM" /\ phase' = "buffer" /\ result = <<>>
        /\ stack' = <<c>>
        /\ UNCHANGED <<memory, buf, result, descriptors, freeMemory, holder, held>>
    BY <1>2 DEF InitPMM, Idle, managers, boot, kernel, IInv, TopLevelOK
  <2>2. usedBasePages[pageSize] \in Nat
    BY DEF IInv, TypeOK
  <2>3. c \in Frame /\ c.pages = <<>> /\ c.got = <<>>
    BY <2>2, PageSizeFacts, NewFrames DEF Alloc
  <2> HIDE DEF c
  <2> QED BY <1>1, <2>1, <2>3, EmptyCallKeeps
<1>3. CASE InitPMMDone
  <2>1. /\ stack = <<>> /\ phase = "promote" /\ phase' \in {"initPMM", "kernel"}
        /\ result = <<>> /\ stack' = <<>>
        /\ UNCHANGED <<memory, buf, result, descriptors, freeMemory, holder, held>>
    BY <1>3 DEF InitPMMDone, Idle, managers, boot, kernel, IInv, TopLevelOK
  <2> QED BY <1>1, <2>1, EmptyCallKeeps
<1> QED BY <1>2, <1>3

\* The new array goes to its manager.
LEMMA InitBufferKeeps ==
  ASSUME ArraysInv, HeldFinite, InitBuffer, NEW f
  PROVE  Kept(f)
<1>0. IInv /\ IInv'
  BY InitStepKeeps DEF ArraysInv, InitStep
<1>1. /\ stack = <<>> /\ phase = "buffer" /\ phase' = "promote" /\ result' = <<>>
      /\ buf' = [buf EXCEPT ![pageSize] = result[1]]
      /\ UNCHANGED <<memory, stack, descriptors, freeMemory, holder, held>>
  BY DEF InitBuffer, Idle, kernel
<1>2. /\ result \in Seq(PagedMemory) /\ Len(result) = 1 /\ pageSize \in PageSizes
      /\ pageSize \in Nat
  BY <1>0, <1>1, PageSizeFacts DEF IInv, TypeOK, TopLevelOK
<1> DEFINE x == IsIn(result[1], BASE_PAGE, f)
<1>3. result[1] \in PagedMemory /\ In(result, BASE_PAGE, f) = x
  BY <1>2, InSingle
<1>4. InResult(f) = x
  BY <1>1, <1>3 DEF InResult, ResultSize
<1>5. InResult(f)' = 0
  BY <1>1, InEmpty DEF InResult
<1>6. InArrays(f)' + IsIn(buf[pageSize], BASE_PAGE, f) = InArrays(f) + x
  BY <1>0, <1>1, <1>2, <1>3, ArrayCounts
<1>7. IsIn(buf[pageSize], BASE_PAGE, f) = 0
  <2>1. Unready(pageSize)
    BY <1>1, <1>2 DEF Unready
  <2>2. buf[pageSize] = Run(0, 0)
    BY <1>2, <2>1 DEF ArraysInv, Fitting, UnreadyEmpty
  <2> QED BY <2>2, NoPages, PageSizeFacts
<1>8. /\ InLists(f)' = InLists(f) /\ InBoot(f)' = InBoot(f) /\ InHeld(f)' = InHeld(f)
      /\ InHand(f)' = InLists(f)' + InArrays(f)' + InCalls(stack', f) + InResult(f)'
      /\ InHand(f) = InLists(f) + InArrays(f) + InCalls(stack, f) + InResult(f)
      /\ Owners(f)' = InHand(f)' + InBoot(f)' + InHeld(f)'
  BY <1>0, <1>1, SameCounts, BootOver
<1>9. InCalls(stack, f) = 0 /\ InCalls(stack', f) = 0
  BY <1>1, InCallsNone
<1>10. InLists(f) \in Nat /\ InArrays(f) \in Nat /\ InArrays(f)' \in Nat /\ x \in Nat
  BY <1>0, HandType, HandTypeNext, IsInType
<1> HIDE DEF x
<1>11. InArrays(f)' = InArrays(f) + x
  BY <1>6, <1>7, <1>10
<1>12. InHand(f)' = InHand(f)
  BY <1>4, <1>5, <1>8, <1>9, <1>10, <1>11
<1>13. Owners(f) \in Nat /\ Owners(f) = InHand(f) + InBoot(f) + InHeld(f)
  BY <1>0, OwnersType
<1>14. Owners(f)' = Owners(f)
  BY <1>8, <1>12, <1>13
<1> QED BY <1>13, <1>14 DEF Kept

\* The second call of Promote is made while the first is in progress.
LEMMA TwoCalls ==
  ASSUME NEW c \in Frame, c.got = <<>>, NEW d \in Frame, stack' = <<c>> \o <<d>>, NEW f
  PROVE  InCalls(stack', f) = In(c.pages, c.ps, f) + In(d.pages, d.ps, f)
<1> DEFINE e == <<>>
           r == <<d>> \o e
           s == <<c>> \o r
<1>1. e \in Seq(Frame) /\ r \in Seq(Frame) /\ stack' = s /\ InPassed(e, f) = 0
  BY PassedNone
<1>2. s # <<>> /\ s[1] = c
  OBVIOUS
<1>3. InPassed(r, f) = InPassed(e, f) + In(d.pages, d.ps, f)
  <2> HIDE DEF e
  <2> QED BY <1>1, PassedOn
<1>4. InPassed(s, f) = InPassed(r, f) + In(c.pages, c.ps, f)
  <2> HIDE DEF r
  <2> QED BY <1>1, PassedOn
<1> HIDE DEF e, r, s
<1>5. InGot(s, f) = 0
  BY <1>2, InEmpty DEF InGot
<1>6. In(c.pages, c.ps, f) \in Nat /\ In(d.pages, d.ps, f) \in Nat
  BY CarriedType
<1>7. InCalls(s, f) = InPassed(s, f) + InGot(s, f)
  BY DEF InCalls
<1>8. InPassed(s, f) = In(c.pages, c.ps, f) + In(d.pages, d.ps, f)
  BY <1>1, <1>3, <1>4, <1>6
<1>9. InCalls(s, f) = In(c.pages, c.ps, f) + In(d.pages, d.ps, f)
  BY <1>5, <1>6, <1>7, <1>8
<1> QED BY <1>1, <1>9

\* The boundary of a run that starts on one.
LEMMA OnBoundary ==
  ASSUME NEW a \in Nat, NEW d \in Nat \ {0}, a % d = 0
  PROVE  AlignUp(a, d) = a
<1>1. PICK q \in Nat : a = q * d
  BY Multiple
<1> DEFINE c == CeilingDiv(a, d)
<1>2. c \in Nat /\ a <= d * c /\ d * c < a + d
  BY CeilingFacts
<1> HIDE DEF c
<1>3. c = q
  <2>1. ASSUME c < q PROVE FALSE
    <3>1. d * c < d * q
      BY <2>1, <1>1, <1>2
    <3> QED BY <1>1, <1>2, <3>1
  <2>2. ASSUME c > q PROVE FALSE
    <3>1. c >= q + 1
      BY <1>2, <2>2
    <3>2. d * c >= d * (q + 1)
      BY <1>2, <3>1
    <3>3. d * (q + 1) = a + d
      BY <1>1
    <3> QED BY <1>1, <1>2, <3>2, <3>3
  <2> QED BY <1>1, <1>2, <2>1, <2>2
<1> QED BY <1>1, <1>3 DEF AlignUp, c

\* A run that starts on a boundary goes to the larger manager, except for its last
\* pages, which go back.
LEMMA PromoteCounts ==
  ASSUME IInv, HeldFinite, PromotesFromBoundary, Promote, NEW f
  PROVE  Kept(f)
<1> DEFINE smaller == toSmallerPageSize(pageSize)
           list == memory[smaller]
           run == list[index]
           a == run.pageStart
           n == run.numberOfPages
           boundary == AlignUp(a, pageSize)
           moved == (boundary - a) \div smaller
           fromAlign == n - moved
           aligned == AlignDown(fromAlign, ENTRIES)
           leftover == fromAlign - aligned
           c == Free(<<Run(boundary, toLargerPages(aligned))>>, pageSize)
           d == Free(<<Run(boundary + aligned * smaller, leftover)>>, smaller)
           promotes == n >= ENTRIES /\ fromAlign >= ENTRIES
<1>1. /\ stack = <<>> /\ phase = "promote" /\ result = <<>> /\ phase' = phase
      /\ index <= Len(list)
      /\ UNCHANGED <<buf, result, descriptors, freeMemory, holder, held>>
  BY DEF Promote, Idle, kernel, IInv, TopLevelOK
<1>2. /\ promotes => /\ memory' = [memory EXCEPT ![smaller] =
                                     decreasePages(@, smaller, index, fromAlign)]
                     /\ stack' = <<c>> \o IF leftover > 0 THEN <<d>> ELSE <<>>
      /\ ~promotes => UNCHANGED <<memory, stack>>
  BY DEF Promote
<1>3. IInv'
  BY InitStepKeeps DEF InitStep
<1>4. CASE ~promotes
  <2>1. stack' = <<>> /\ UNCHANGED memory
    BY <1>1, <1>2, <1>4
  <2> QED BY <1>1, <1>3, <2>1, EmptyCallKeeps
<1>5. CASE promotes
  <2>1. /\ smaller \in PageSizes /\ smaller \in Nat \ {0} /\ pageSize \in PageSizes
        /\ pageSize \in Nat \ {0} /\ pageSize = smaller * ENTRIES
    BY <1>1, PromotedSize DEF IInv, TopLevelOK
  <2>2. /\ index \in Nat /\ index >= 1 /\ list \in Seq(PagedMemory) /\ index \in DOMAIN list
        /\ ENTRIES \in Nat \ {0}
    <3>1. index \in Nat /\ index >= 1 /\ list \in Seq(PagedMemory)
      BY <2>1 DEF IInv, TypeOK, TopLevelOK
    <3> QED BY <1>1, <3>1, PageSizeFacts
  <2>3. a \in Nat /\ n \in Nat /\ run = Run(a, n)
    <3>1. run \in PagedMemory
      BY <2>2
    <3> QED BY <3>1 DEF PagedMemory, Run
  <2>4. a % pageSize = 0
    <3>1. boundary \in Nat /\ boundary >= a /\ moved \in Nat
      <4>1. boundary \in Nat /\ boundary >= a
        <5>1. CeilingDiv(a, pageSize) \in Nat /\ a <= pageSize * CeilingDiv(a, pageSize)
          BY <2>1, <2>3, CeilingFacts
        <5> DEFINE q == CeilingDiv(a, pageSize)
        <5> HIDE DEF q
        <5>2. pageSize * q \in Nat
          BY <2>1, <5>1 DEF q
        <5> QED BY <2>3, <5>1, <5>2 DEF AlignUp, q
      <4>2. boundary - a \in Nat
        <5> HIDE DEF boundary, a
        <5> QED BY <2>3, <4>1
      <4> QED BY <2>1, <4>1, <4>2, DivFacts
    <3>2. n >= moved + ENTRIES
      <4> HIDE DEF n, moved
      <4> QED BY <1>5, <2>2, <2>3, <3>1
    <3> QED BY <1>1, <3>2 DEF PromotesFromBoundary, Idle
  <2>5. boundary = a /\ moved = 0 /\ fromAlign = n
    <3>1. boundary = a
      BY <2>1, <2>3, <2>4, OnBoundary
    <3> HIDE DEF boundary, a, n
    <3>2. boundary - a = 0
      BY <2>3, <3>1
    <3> HIDE DEF smaller
    <3>3. moved = 0
      BY <2>1, <3>2
    <3> QED BY <2>3, <3>1, <3>3
  <2> DEFINE m == n \div ENTRIES
             k == n - ENTRIES * m
  <2>6. m \in Nat /\ ENTRIES * m \in Nat /\ k \in Nat
    <3>1. m \in Nat /\ ENTRIES * m <= n
      BY <2>2, <2>3, DivFacts
    <3> HIDE DEF m, n
    <3>2. ENTRIES * m \in Nat
      BY <2>2, <3>1
    <3> QED BY <2>3, <3>1, <3>2
  <2>7. aligned = ENTRIES * m /\ leftover = k /\ toLargerPages(aligned) = m
    <3>1. aligned = ENTRIES * m
      BY <2>5 DEF AlignDown
    <3>2. leftover = k
      BY <2>5, <3>1
    <3> HIDE DEF aligned, m
    <3>3. (ENTRIES * m) \div ENTRIES = m
      BY <2>2, <2>6
    <3> QED BY <3>1, <3>2, <3>3 DEF toLargerPages
  <2> DEFINE big == Run(a, m)
             b == ENTRIES * m
             rest == Run(a + b * smaller, k)
             shorter == decreasePages(list, smaller, index, n)
             x == IsIn(big, pageSize, f)
             y == IsIn(rest, smaller, f)
  <2>8. c = Free(<<big>>, pageSize) /\ d = Free(<<rest>>, smaller)
    BY <2>5, <2>7
  <2>9. /\ memory' = [memory EXCEPT ![smaller] = shorter]
        /\ stack' = <<c>> \o IF k > 0 THEN <<d>> ELSE <<>>
    BY <1>2, <1>5, <2>5, <2>7
  <2> HIDE DEF smaller, a, n, m, k, b, run
  <2>10. big \in PagedMemory /\ rest \in PagedMemory /\ b \in Nat /\ a + b * smaller \in Nat
    <3>1. b * smaller \in Nat
      BY <2>1, <2>6 DEF b
    <3>2. a + b * smaller \in Nat
      BY <2>3, <3>1
    <3> QED BY <2>3, <2>6, <3>2, OneRun DEF b
  <2>11. IsIn(Run(a, n), smaller, f) = x + y
    <3>1. b + k = n
      BY <2>3, <2>6 DEF b, k
    <3>2. IsIn(Run(a, b + k), smaller, f) = IsIn(Run(a, b), smaller, f) + y
      BY <2>1, <2>3, <2>6, <2>10, CutRun
    <3>3. IsIn(big, toLargerPageSize(smaller), f) = IsIn(Run(a, toSmallerPages(m)), smaller, f)
      BY <2>1, <2>3, <2>6, SmallerRun
    <3>4. toLargerPageSize(smaller) = pageSize /\ toSmallerPages(m) = b
      BY <2>1, <2>2, <2>6 DEF toLargerPageSize, toSmallerPages, b
    <3> QED BY <3>1, <3>2, <3>3, <3>4
  <2>12. /\ shorter \in Seq(PagedMemory)
         /\ In(list, smaller, f) = In(shorter, smaller, f) + IsIn(Run(a, n), smaller, f)
    <3>1. list[index].pageStart = a /\ n = list[index].numberOfPages
      BY DEF a, n, run
    <3>2. n <= list[index].numberOfPages
      BY <2>3, <3>1
    <3>3. shorter \in Seq(PagedMemory)
      <4> HIDE DEF list
      <4> QED BY <2>1, <2>2, <2>3, <3>2, DecreasePagesType
    <3>4. In(list, smaller, f) = In(shorter, smaller, f)
                                 + IsIn(Run(list[index].pageStart, n), smaller, f)
      <4> HIDE DEF list
      <4> QED BY <2>1, <2>2, <2>3, <3>2, InDecreased
    <3> QED BY <3>1, <3>3, <3>4
  <2> HIDE DEF shorter, big, rest
  <2>13. InLists(f)' + In(list, smaller, f) = InLists(f) + In(shorter, smaller, f)
    BY <2>1, <2>9, <2>12, ListCounts
  <2>14. /\ c \in Frame /\ c.got = <<>> /\ In(c.pages, c.ps, f) = x
         /\ d \in Frame /\ In(d.pages, d.ps, f) = y
    <3>1. <<big>> \in Seq(PagedMemory) /\ <<rest>> \in Seq(PagedMemory)
      BY <2>10
    <3>2. /\ c \in Frame /\ c.got = <<>> /\ c.ps = pageSize /\ c.pages = <<big>>
          /\ d \in Frame /\ d.ps = smaller /\ d.pages = <<rest>>
      BY <2>1, <2>8, <3>1, NewFrames DEF Free
    <3> QED BY <2>10, <3>2, InOne
  <2>15. x \in Nat /\ y \in Nat
    BY IsInType
  <2> HIDE DEF c, d
  <2>16. InCalls(stack', f) = x + y
    <3>1. CASE k > 0
      <4>1. stack' = <<c>> \o <<d>>
        BY <2>9, <3>1
      <4>2. InCalls(stack', f) = In(c.pages, c.ps, f) + In(d.pages, d.ps, f)
        BY <2>14, <4>1, TwoCalls
      <4> QED BY <2>14, <4>2
    <3>2. CASE ~(k > 0)
      <4>1. stack' = <<c>>
        BY <2>9, <3>2
      <4>2. InCalls(stack', f) = x
        BY <2>14, <4>1, FirstCall
      <4>3. k = 0
        BY <2>6, <3>2
      <4>4. y = 0
        BY <2>1, <2>10, <4>3, NoPages DEF rest
      <4> HIDE DEF x, y
      <4> QED BY <2>15, <4>2, <4>4
    <3> QED BY <3>1, <3>2
  <2>17. InArrays(f)' = InArrays(f) /\ InBoot(f)' = InBoot(f)
    BY <1>1, SameCounts, BootOver
  <2>18. InLists(f) \in Nat /\ InArrays(f) \in Nat /\ InBoot(f) \in Nat /\ InLists(f)' \in Nat
    BY <1>3, HandType, OwnersType, HandTypeNext
  <2> DEFINE l == In(shorter, smaller, f)
             o == In(list, smaller, f)
  <2>19. l \in Nat /\ o \in Nat /\ o = l + (x + y) /\ InLists(f)' + o = InLists(f) + l
    BY <2>2, <2>11, <2>12, <2>13, HitsFinite
  <2> HIDE DEF x, y, l, o, list, promotes
  <2>20. InLists(f)' + (x + y) = InLists(f)
    BY <2>15, <2>18, <2>19
  <2>21. InLists(f)' + InArrays(f)' + InCalls(stack', f) + InBoot(f)'
           = InLists(f) + InArrays(f) + InBoot(f)
    BY <2>15, <2>16, <2>17, <2>18, <2>20
  <2> QED BY <1>1, <1>3, <2>17, <2>18, <2>21, TopBalance
<1> QED BY <1>4, <1>5

-----------------------------------------------------------------------------
(* The calls of the rest of the kernel *)

LEMMA KernelAsksKeeps ==
  ASSUME IInv, HeldFinite, NEW n \in Requests, NEW ps \in PageSizes,
         KernelAlloc(n, ps) \/ KernelGather(n, ps), NEW f
  PROVE  Kept(f)
<1>1. IInv'
  BY KernelStepKeeps DEF KernelStep
<1>2. /\ stack = <<>> /\ phase = "kernel" /\ phase' = "waiting" /\ result = <<>>
      /\ UNCHANGED <<memory, buf, result, descriptors, freeMemory, holder, held>>
  BY DEF KernelAlloc, KernelGather, Idle, managers, boot, IInv, TopLevelOK
<1>3. n \in Nat /\ ENTRIES \in Int
  BY RequestsAssumption, PageSizeFacts
<1>4. \E c \in Frame : stack' = <<c>> /\ c.pages = <<>> /\ c.got = <<>>
  <2>1. CASE KernelAlloc(n, ps)
    <3> DEFINE c == Alloc(n, ps)
    <3>1. c \in Frame /\ stack' = <<c>> /\ c.pages = <<>> /\ c.got = <<>>
      BY <1>3, <2>1, NewFrames DEF KernelAlloc, Alloc
    <3> HIDE DEF c
    <3> QED BY <3>1
  <2>2. CASE KernelGather(n, ps)
    <3> DEFINE c == Gather(n, ps, ENTRIES)
    <3>1. c \in Frame /\ stack' = <<c>> /\ c.pages = <<>> /\ c.got = <<>>
      BY <1>3, <2>2, NewFrames DEF KernelGather, Gather
    <3> HIDE DEF c
    <3> QED BY <3>1
  <2> QED BY <2>1, <2>2
<1> QED BY <1>1, <1>2, <1>4, EmptyCallKeeps

\* A set that gets an element more counts at most one more.
LEMMA OneMoreAtMost ==
  ASSUME NEW S, IsFiniteSet(S), NEW k, NEW T, NEW run, NEW ps, NEW f,
         T = IF f \in FramesOf(run, ps) THEN S \cup {k} ELSE S
  PROVE  /\ IsFiniteSet(T) /\ Cardinality(T) \in Nat
         /\ Cardinality(T) <= Cardinality(S) + IsIn(run, ps, f)
<1>1. Cardinality(S) \in Nat
  BY FS_CardinalityType
<1>2. /\ IsFiniteSet(S \cup {k})
      /\ Cardinality(S \cup {k}) = IF k \in S THEN Cardinality(S) ELSE Cardinality(S) + 1
  BY FS_AddElement
<1>3. CASE f \in FramesOf(run, ps)
  BY <1>1, <1>2, <1>3 DEF IsIn
<1>4. CASE f \notin FramesOf(run, ps)
  BY <1>1, <1>4 DEF IsIn
<1> QED BY <1>3, <1>4

\* The kernel gives back the middle of a run: it holds the two ends, and the rest is
\* on its way to a list.
LEMMA KernelFreeKeeps ==
  ASSUME IInv, HeldFinite, NEW h \in held, NEW k \in 0 .. h.run.numberOfPages,
         NEW n \in 1 .. h.run.numberOfPages, KernelFree(h, k, n), NEW f
  PROVE  Kept(f) /\ HeldFinite'
<1> DEFINE ps == h.ps
           a == h.run.pageStart
           m == h.run.numberOfPages
           front == Run(a, k)
           given == Run(a + k * ps, n)
           back == Run(a + (k + n) * ps, m - (k + n))
           p == [ps |-> ps, run |-> front]
           q == [ps |-> ps, run |-> back]
           c == Free(<<given>>, ps)
<1>1. IInv'
  BY KernelStepKeeps DEF KernelStep
<1>2. /\ stack = <<>> /\ phase = "kernel" /\ phase' = "waiting" /\ result = <<>>
      /\ k + n <= m /\ stack' = <<c>>
      /\ UNCHANGED <<memory, usedBasePages, buf, result, descriptors, freeMemory, holder>>
  BY DEF KernelFree, Idle, managers, boot, IInv, TopLevelOK
<1>3. held' = (held \ {h}) \cup {[ps |-> ps, run |-> r] :
                                   r \in {x \in {front, back} : x.numberOfPages > 0}}
  BY DEF KernelFree
<1>4. /\ h \in [ps : PageSizes, run : PagedMemory] /\ ps \in PageSizes
      /\ h.run \in PagedMemory /\ ps \in Nat
  <2>1. h \in [ps : PageSizes, run : PagedMemory]
    BY DEF IInv, TypeOK
  <2> QED BY <2>1, PageSizeFacts
<1>5. a \in Nat /\ m \in Nat /\ h.run = Run(a, m) /\ k \in Nat /\ n \in Nat
  BY <1>4 DEF PagedMemory, Run
<1> HIDE DEF ps, a, m
<1> DEFINE e == m - (k + n)
           z == (k + n) * ps
           y == k * ps
<1>6. e \in Nat /\ z \in Nat /\ y \in Nat /\ n * ps \in Nat /\ z = y + n * ps
  <2>1. e \in Nat
    BY <1>2, <1>5
  <2>2. z \in Nat /\ y \in Nat /\ n * ps \in Nat /\ z = y + n * ps
    BY <1>4, <1>5
  <2> QED BY <2>1, <2>2
<1>7. /\ front \in PagedMemory /\ given \in PagedMemory /\ back \in PagedMemory
      /\ front.numberOfPages = k /\ back.numberOfPages = e
  <2> HIDE DEF y, z, e
  <2>1. a + y \in Nat /\ a + z \in Nat
    BY <1>5, <1>6
  <2> QED BY <1>5, <1>6, <2>1, OneRun DEF y, z, e
<1> DEFINE x1 == IsIn(front, ps, f)
           x2 == IsIn(given, ps, f)
           x3 == IsIn(back, ps, f)
           x == IsIn(h.run, ps, f)
<1>8. x = x1 + (x2 + x3) /\ x1 \in Nat /\ x2 \in Nat /\ x3 \in Nat
  <2>1. x1 \in Nat /\ x2 \in Nat /\ x3 \in Nat
    BY IsInType
  <2>2. IsIn(Run(a, k + (n + e)), ps, f) = x1 + IsIn(Run(a + y, n + e), ps, f)
    <3> DEFINE t == n + e
    <3>1. t \in Nat
      BY <1>5, <1>6
    <3> HIDE DEF t
    <3>2. IsIn(Run(a, k + t), ps, f) = IsIn(Run(a, k), ps, f) + IsIn(Run(a + k * ps, t), ps, f)
      BY <1>4, <1>5, <3>1, CutRun
    <3> QED BY <3>2 DEF t
  <2>3. IsIn(Run(a + y, n + e), ps, f) = x2 + IsIn(Run((a + y) + n * ps, e), ps, f)
    <3> DEFINE t == a + y
    <3>1. t \in Nat
      BY <1>5, <1>6
    <3> HIDE DEF t, e
    <3>2. IsIn(Run(t, n + e), ps, f) = IsIn(Run(t, n), ps, f) + IsIn(Run(t + n * ps, e), ps, f)
      BY <1>4, <1>5, <1>6, <3>1, CutRun
    <3> QED BY <3>2 DEF t
  <2>4. k + (n + e) = m
    BY <1>2, <1>5
  <2>5. (a + y) + n * ps = a + z
    <3> HIDE DEF y, z, e
    <3>1. n * ps \in Nat
      BY <1>6
    <3> QED BY <1>5, <1>6
  <2>6. IsIn(Run((a + y) + n * ps, e), ps, f) = x3
    BY <2>5
  <2>7. IsIn(Run(a, k + (n + e)), ps, f) = x
    BY <1>5, <2>4
  <2> HIDE DEF x, x1, x2, x3
  <2> QED BY <2>1, <2>2, <2>3, <2>6, <2>7
<1> HIDE DEF x, x1, x2, x3, front, given, back
<1> DEFINE S == HeldHits(f) \ {h}
           T == IF f \in FramesOf(front, ps) THEN S \cup {p} ELSE S
           U == IF f \in FramesOf(back, ps) THEN T \cup {q} ELSE T
<1>9. /\ IsFiniteSet(HeldHits(f)) /\ InHeld(f) \in Nat /\ IsFiniteSet(S)
      /\ Cardinality(S) \in Nat
  BY HeldHitsFinite, FS_RemoveElement, FS_CardinalityType
<1>10. InHeld(f) = Cardinality(S) + x
  <2>1. h \notin S
    OBVIOUS
  <2>2. HeldHits(f) = IF f \in FramesOf(h.run, ps) THEN S \cup {h} ELSE S
    BY DEF HeldHits, ps
  <2> HIDE DEF S
  <2> QED BY <1>9, <2>1, <2>2, OneMore DEF InHeld, x
<1>11. /\ IsFiniteSet(T) /\ Cardinality(T) \in Nat /\ Cardinality(T) <= Cardinality(S) + x1
  <2> HIDE DEF S, p
  <2> QED BY <1>9, OneMoreAtMost DEF x1
<1>12. /\ IsFiniteSet(U) /\ Cardinality(U) \in Nat /\ Cardinality(U) <= Cardinality(T) + x3
  <2> HIDE DEF T, q
  <2> QED BY <1>11, OneMoreAtMost DEF x3
<1>13. \A g : g \in held' <=> \/ g \in held /\ g # h
                              \/ g = p /\ k > 0
                              \/ g = q /\ e > 0
  <2>1. \A g : g \in held' <=> \/ g \in held /\ g # h
                               \/ \E r \in {front, back} : r.numberOfPages > 0 /\ g = [ps |-> ps, run |-> r]
    BY <1>3
  <2> HIDE DEF e
  <2> QED BY <1>7, <2>1
<1>14. p.run = front /\ p.ps = ps /\ q.run = back /\ q.ps = ps
  OBVIOUS
<1> HIDE DEF p, q
<1>15. HeldHits(f)' = {g \in held' : f \in FramesOf(g.run, g.ps)} /\ InHeld(f)' = Cardinality(HeldHits(f)')
  BY DEF HeldHits, InHeld, FramesOf
<1>16. (f \in FramesOf(front, ps) => k > 0) /\ (f \in FramesOf(back, ps) => e > 0)
  <2>1. k = 0 => x1 = 0
    BY <1>4, <1>5, NoPages DEF x1, front
  <2>2. e = 0 => x3 = 0
    <3>1. a + z \in Nat
      BY <1>5, <1>6
    <3> DEFINE t == a + z
    <3> HIDE DEF t
    <3>2. IsIn(Run(t, 0), ps, f) = 0
      BY <1>4, <3>1, NoPages DEF t
    <3> QED BY <3>2 DEF x3, back, t
  <2> HIDE DEF e
  <2> QED BY <1>5, <1>6, <2>1, <2>2 DEF x1, x3, IsIn
<1>17. HeldHits(f)' = U
  <2>1. \A g : g \in HeldHits(f)' <=> g \in held' /\ f \in FramesOf(g.run, g.ps)
    BY <1>15
  <2>2. \A g : g \in S <=> g \in held /\ g # h /\ f \in FramesOf(g.run, g.ps)
    BY DEF HeldHits
  <2> HIDE DEF S, e
  <2>3. \A g : g \in U <=> \/ g \in S
                           \/ g = p /\ f \in FramesOf(front, ps)
                           \/ g = q /\ f \in FramesOf(back, ps)
    OBVIOUS
  <2> HIDE DEF U
  <2>4. \A g : g \in HeldHits(f)' <=> g \in U
    BY <1>13, <1>14, <1>16, <2>1, <2>2, <2>3, Zenon
  <2> QED BY <2>4
<1>18. HeldFinite'
  <2>1. held' \subseteq (held \cup {p}) \cup {q}
    BY <1>13
  <2>2. IsFiniteSet((held \cup {p}) \cup {q})
    BY FS_AddElement DEF HeldFinite
  <2>3. IsFiniteSet(held')
    BY <2>1, <2>2, FS_Subset
  <2> QED BY <2>3 DEF HeldFinite
<1>19. InCalls(stack', f) = x2
  <2>1. <<given>> \in Seq(PagedMemory)
    BY <1>7
  <2>2. c \in Frame /\ c.got = <<>> /\ c.ps = ps /\ c.pages = <<given>>
    BY <1>4, <2>1, NewFrames DEF Free
  <2> HIDE DEF c
  <2>3. In(c.pages, c.ps, f) = x2
    BY <1>7, <2>2, InOne DEF x2
  <2> QED BY <1>2, <2>2, <2>3, FirstCall
<1> HIDE DEF S, T, U, e, y, z
<1>20. InHeld(f)' \in Nat /\ InHeld(f)' <= (Cardinality(S) + x1) + x3
  <2>1. InHeld(f)' = Cardinality(U)
    BY <1>15, <1>17
  <2>2. Cardinality(U) <= (Cardinality(S) + x1) + x3
    BY <1>8, <1>9, <1>11, <1>12
  <2> QED BY <1>12, <2>1, <2>2
<1>21. InCalls(stack', f) + InHeld(f)' <= InHeld(f)
  BY <1>8, <1>9, <1>10, <1>19, <1>20
<1>22. InHeld(f) >= 1 => InCalls(stack', f) + InHeld(f)' >= 1
  <2> SUFFICES ASSUME InHeld(f) >= 1 PROVE InCalls(stack', f) + InHeld(f)' >= 1
    OBVIOUS
  <2>1. CASE U = {}
    <3>1. S = {} /\ f \notin FramesOf(front, ps) /\ f \notin FramesOf(back, ps)
      BY <2>1 DEF U, T
    <3>2. x1 = 0 /\ x3 = 0 /\ Cardinality(S) = 0
      BY <3>1, FS_EmptySet DEF x1, x3, IsIn
    <3> QED BY <1>8, <1>10, <1>19, <1>20, <3>2
  <2>2. CASE U # {}
    <3>1. Cardinality(U) # 0
      BY <1>12, <2>2, FS_EmptySet
    <3> QED BY <1>8, <1>12, <1>15, <1>17, <1>19, <3>1
  <2> QED BY <2>1, <2>2
<1>23. /\ InLists(f)' = InLists(f) /\ InArrays(f)' = InArrays(f) /\ InBoot(f)' = InBoot(f)
       /\ InHand(f)' = InLists(f)' + InArrays(f)' + InCalls(stack', f) + InResult(f)'
       /\ InHand(f) = InLists(f) + InArrays(f) + InCalls(stack, f) + InResult(f)
       /\ Owners(f)' = InHand(f)' + InBoot(f)' + InHeld(f)'
  BY <1>2, SameCounts, BootOver
<1>24. InCalls(stack, f) = 0 /\ InResult(f) = 0 /\ InResult(f)' = 0
  BY <1>2, InCallsNone, InEmpty DEF InResult
<1> DEFINE rest == InLists(f) + InArrays(f) + InBoot(f)
<1>25. InLists(f) \in Nat /\ InArrays(f) \in Nat /\ InBoot(f) \in Nat
  BY HandType, OwnersType
<1>26. InCalls(stack', f) \in Nat
  BY <1>8, <1>19
<1>27. Owners(f) = InHand(f) + InBoot(f) + InHeld(f)
  BY OwnersType
<1>28. Owners(f) = rest + InHeld(f)
  BY <1>9, <1>23, <1>24, <1>25, <1>27
<1>29. Owners(f)' = rest + (InCalls(stack', f) + InHeld(f)')
  BY <1>20, <1>23, <1>24, <1>25, <1>26
<1>30. rest \in Nat
  BY <1>25
<1> HIDE DEF rest
<1>31. Owners(f)' <= Owners(f) /\ (Owners(f) >= 1 => Owners(f)' >= 1)
  BY <1>9, <1>20, <1>21, <1>22, <1>26, <1>28, <1>29, <1>30
<1> QED BY <1>18, <1>31 DEF Kept

\* The runs a call returned are the kernel's from now on.
LEMMA KernelReceiveOwns ==
  ASSUME IInv, HeldFinite, KernelReceive, NEW f
  PROVE  Kept(f) /\ HeldFinite'
<1> DEFINE J == {j \in DOMAIN result : result[j].numberOfPages > 0}
           H == Hits(result, pageSize, f)
           R == {[ps |-> pageSize, run |-> result[i]] : i \in J}
           Q == {[ps |-> pageSize, run |-> result[i]] : i \in H}
<1>1. IInv'
  BY KernelReceiveKeeps
<1>2. /\ stack = <<>> /\ phase = "waiting" /\ phase' = "kernel" /\ result' = <<>>
      /\ held' = held \cup R
      /\ UNCHANGED <<memory, usedBasePages, buf, stack, descriptors, freeMemory, holder>>
  BY DEF KernelReceive, Idle, managers, boot
<1>3. result \in Seq(PagedMemory) /\ pageSize \in Nat
  BY PageSizeFacts DEF IInv, TypeOK
<1>4. IsFiniteSet(H) /\ Cardinality(H) \in Nat /\ InResult(f) = Cardinality(H)
  BY <1>2, <1>3, HitsFinite DEF InResult, ResultSize, In
<1>5. IsFiniteSet(J)
  <2>1. IsFiniteSet(1 .. Len(result))
    BY <1>3, FS_Interval
  <2>2. J \subseteq 1 .. Len(result)
    BY <1>3
  <2> QED BY <2>1, <2>2, FS_Subset
<1>6. H \subseteq J
  <2> SUFFICES ASSUME NEW i \in H PROVE i \in J
    OBVIOUS
  <2>1. i \in DOMAIN result /\ f \in FramesOf(result[i], pageSize)
    BY DEF Hits
  <2>2. result[i] \in PagedMemory
    BY <1>3, <2>1
  <2>3. /\ result[i].pageStart \in Nat /\ result[i].numberOfPages \in Nat
        /\ result[i] = Run(result[i].pageStart, result[i].numberOfPages)
    BY <2>2 DEF PagedMemory, Run
  <2>4. ASSUME result[i].numberOfPages = 0 PROVE FALSE
    <3>1. IsIn(Run(result[i].pageStart, 0), pageSize, f) = 0
      BY <1>3, <2>3, NoPages
    <3>2. IsIn(result[i], pageSize, f) = 0
      BY <2>3, <2>4, <3>1
    <3> QED BY <2>1, <3>2 DEF IsIn
  <2>5. result[i].numberOfPages > 0
    BY <2>3, <2>4
  <2> QED BY <2>1, <2>5
<1>7. IsFiniteSet(Q) /\ Cardinality(Q) <= Cardinality(H)
  <2> DEFINE at == [i \in H |-> [ps |-> pageSize, run |-> result[i]]]
  <2> HIDE DEF H
  <2>1. at \in Surjection(H, Q)
    BY DEF Surjection
  <2> HIDE DEF at, Q
  <2> QED BY <1>4, <2>1, FS_Surjection
<1>8. HeldFinite'
  <2>1. IsFiniteSet(R)
    <3> DEFINE at == [i \in J |-> [ps |-> pageSize, run |-> result[i]]]
    <3> HIDE DEF J
    <3>1. at \in Surjection(J, R)
      BY DEF Surjection
    <3> HIDE DEF at, R
    <3> QED BY <1>5, <3>1, FS_Surjection
  <2> HIDE DEF R
  <2>2. IsFiniteSet(held')
    BY <1>2, <2>1, FS_Union DEF HeldFinite
  <2> QED BY <2>2 DEF HeldFinite
<1>9. HeldHits(f)' = HeldHits(f) \cup Q
  <2>1. \A g : g \in HeldHits(f)' <=> g \in held' /\ f \in FramesOf(g.run, g.ps)
    BY DEF HeldHits, FramesOf
  <2>2. \A g : g \in HeldHits(f) <=> g \in held /\ f \in FramesOf(g.run, g.ps)
    BY DEF HeldHits
  <2>3. ASSUME NEW g \in R, f \in FramesOf(g.run, g.ps) PROVE g \in Q
    <3>1. PICK i \in J : g = [ps |-> pageSize, run |-> result[i]]
      OBVIOUS
    <3>2. f \in FramesOf(result[i], pageSize)
      BY <2>3, <3>1
    <3>3. i \in H
      BY <3>2 DEF Hits
    <3> QED BY <3>1, <3>3
  <2>4. ASSUME NEW g \in Q PROVE g \in R /\ f \in FramesOf(g.run, g.ps)
    <3>1. PICK i \in H : g = [ps |-> pageSize, run |-> result[i]]
      OBVIOUS
    <3>2. f \in FramesOf(result[i], pageSize)
      BY DEF Hits
    <3> QED BY <1>6, <3>1, <3>2
  <2> HIDE DEF Q, R
  <2> QED BY <1>2, <2>1, <2>2, <2>3, <2>4
<1>10. IsFiniteSet(HeldHits(f)) /\ InHeld(f) \in Nat /\ InHeld(f) = Cardinality(HeldHits(f))
  BY HeldHitsFinite DEF InHeld
<1> HIDE DEF H, Q
<1> DEFINE G == HeldHits(f)
           W == G \cup Q
<1>11. InHeld(f)' = Cardinality(W)
  <2>1. InHeld(f)' = Cardinality(HeldHits(f)')
    BY DEF InHeld
  <2> QED BY <1>9, <2>1
<1> HIDE DEF G
<1>12. IsFiniteSet(W) /\ Cardinality(W) \in Nat /\ Cardinality(W) <= Cardinality(G) + Cardinality(Q)
  <2>1. /\ IsFiniteSet(W)
        /\ Cardinality(W) = Cardinality(G) + Cardinality(Q) - Cardinality(G \cap Q)
    BY <1>7, <1>10, FS_Union DEF G
  <2>2. IsFiniteSet(G \cap Q)
    BY <1>7, FS_Subset
  <2>3. /\ Cardinality(G \cap Q) \in Nat /\ Cardinality(W) \in Nat /\ Cardinality(G) \in Nat
        /\ Cardinality(Q) \in Nat
    BY <1>7, <1>10, <2>1, <2>2, FS_CardinalityType DEF G
  <2> DEFINE v == Cardinality(G \cap Q)
             w == Cardinality(W)
  <2>4. v \in Nat /\ w \in Nat /\ w = Cardinality(G) + Cardinality(Q) - v
    BY <2>1, <2>3
  <2> HIDE DEF v, w
  <2>5. w <= Cardinality(G) + Cardinality(Q)
    BY <2>3, <2>4
  <2> QED BY <2>1, <2>3, <2>5 DEF w
<1>13. Cardinality(Q) \in Nat
  BY <1>7, FS_CardinalityType
<1>14. Cardinality(W) >= Cardinality(G)
  <2>1. G \in SUBSET W
    OBVIOUS
  <2>2. Cardinality(G) <= Cardinality(W)
    <3> HIDE DEF W
    <3> QED BY <1>12, <2>1, FS_Subset
  <2> QED BY <1>10, <1>12, <2>2 DEF G
<1>15. Cardinality(H) >= 1 => Cardinality(W) >= 1
  <2> SUFFICES ASSUME Cardinality(H) >= 1 PROVE Cardinality(W) >= 1
    OBVIOUS
  <2>1. H # {}
    BY FS_EmptySet
  <2>2. W # {}
    BY <2>1 DEF Q
  <2>3. Cardinality(W) # 0
    <3> HIDE DEF W
    <3> QED BY <1>12, <2>2, FS_EmptySet
  <2> HIDE DEF W
  <2> QED BY <1>12, <2>3
<1>16. /\ InLists(f)' = InLists(f) /\ InArrays(f)' = InArrays(f) /\ InBoot(f)' = InBoot(f)
       /\ InHand(f)' = InLists(f)' + InArrays(f)' + InCalls(stack', f) + InResult(f)'
       /\ InHand(f) = InLists(f) + InArrays(f) + InCalls(stack, f) + InResult(f)
       /\ Owners(f)' = InHand(f)' + InBoot(f)' + InHeld(f)'
  BY <1>2, SameCounts, BootOver
<1>17. InCalls(stack, f) = 0 /\ InCalls(stack', f) = 0 /\ InResult(f)' = 0
  BY <1>2, InCallsNone, InEmpty DEF InResult
<1> DEFINE rest == InLists(f) + InArrays(f) + InBoot(f)
           b == InResult(f)
           o == InHeld(f)
           w == Cardinality(W)
<1>18. InLists(f) \in Nat /\ InArrays(f) \in Nat /\ InBoot(f) \in Nat
  BY HandType, OwnersType
<1>19. Owners(f) = InHand(f) + InBoot(f) + InHeld(f)
  BY OwnersType
<1>20. /\ rest \in Nat /\ b \in Nat /\ o \in Nat /\ w \in Nat
       /\ w <= o + b /\ w >= o /\ (b >= 1 => w >= 1)
  <2>1. rest \in Nat
    BY <1>18
  <2> HIDE DEF W
  <2>2. w <= o + b
    BY <1>4, <1>7, <1>10, <1>12, <1>13 DEF G
  <2> QED BY <1>4, <1>10, <1>12, <1>14, <1>15, <2>1, <2>2 DEF G
<1>21. Owners(f) = rest + b + o
  BY <1>16, <1>17, <1>18, <1>19, <1>20
<1>22. Owners(f)' = rest + w
  BY <1>11, <1>16, <1>17, <1>18, <1>20
<1> HIDE DEF rest, b, o, w
<1>23. Owners(f)' <= Owners(f) /\ (Owners(f) >= 1 => Owners(f)' >= 1)
  BY <1>20, <1>21, <1>22
<1> QED BY <1>8, <1>23 DEF Kept

-----------------------------------------------------------------------------
(* The calls keep what they promise one another *)

LEMMA UsedOnlyGrows ==
  ASSUME IInv, Next, NEW ps \in PageSizes
  PROVE  /\ usedBasePages[ps] \in Nat /\ usedBasePages'[ps] \in Nat
         /\ usedBasePages'[ps] >= usedBasePages[ps]
<1>1. usedBasePages \in [PageSizes -> Nat] /\ usedBasePages[ps] \in Nat
  BY DEF IInv, TypeOK
<1>2. CASE FreeGrow
  <2>1. usedBasePages' = [usedBasePages EXCEPT ![top.ps] = @ + 1]
    BY <1>2, FreeGrowDoes
  <2>2. usedBasePages'[ps] = IF ps = top.ps THEN usedBasePages[ps] + 1 ELSE usedBasePages[ps]
    BY <1>1, <2>1
  <2> QED BY <1>1, <2>2
<1>3. CASE ~FreeGrow
  BY <1>1, <1>3, WhoMovesLists
<1> QED BY <1>2, <1>3

\* A promise holds on when an array has more frames.
LEMMA AnswersGrow ==
  ASSUME NEW c \in Frame, NEW pages \in Nat, NEW u, NEW v, Answers(c, pages, u),
         \A ps \in PageSizes : u[ps] \in Nat /\ v[ps] \in Nat /\ v[ps] >= u[ps]
  PROVE  Answers(c, pages, v)
<1>1. c.ps \in PageSizes
  BY DEF Frame
<1> QED BY <1>1 DEF Answers

\* Who waits for a call that is not an allocation is promised nothing.
LEMMA OnlyAllocsAnswer ==
  ASSUME IInv, Len(stack) >= 2, Kind(top) # "alloc", NEW pages, NEW u
  PROVE  Answers(stack[2], pages, u)
<1>1. stack # <<>> /\ 2 \in 2 .. Len(stack) /\ stack \in Seq(Frame)
  BY DEF IInv, StackOK
<1>2. WaitsFor(stack[2], stack[1]) /\ top = stack[1]
  <2>1. WaitsFor(stack[2], stack[2 - 1])
    BY <1>1 DEF IInv, StackOK
  <2> QED BY <1>1, <2>1, TopFacts
<1>3. stack[2].pc \notin {"split", "grow"}
  BY <1>2 DEF WaitsFor
<1> QED BY <1>3 DEF Answers

Grown == \A ps \in PageSizes : /\ usedBasePages[ps] \in Nat /\ usedBasePages'[ps] \in Nat
                               /\ usedBasePages'[ps] >= usedBasePages[ps]

LEMMA PromisedGoto ==
  ASSUME IInv, Promised, Grown, stack # <<>>, NEW c \in Frame, Goto(c),
         c.pc \notin {"alloc", "split", "grow"}, c.n = top.n \/ Kind(top) # "alloc"
  PROVE  Promised'
<1>1. /\ stack' \in Seq(Frame) /\ Len(stack') = Len(stack) /\ stack'[1] = c
      /\ \A d \in 2 .. Len(stack) : stack'[d] = stack[d]
      /\ stack' # <<>> /\ Len(stack) \in Nat /\ Len(stack) >= 1
  BY AfterGoto
<1>2. stack \in Seq(Frame) /\ top = stack[1]
  BY TopFacts DEF IInv, StackOK
<1>3. top' = c
  BY <1>1, HeadTail DEF top
<1>4. ASSUME NEW d \in DOMAIN stack' PROVE EmptyHanded(stack'[d])
  <2>1. CASE d = 1
    BY <1>1, <2>1 DEF EmptyHanded
  <2>2. CASE d # 1
    <3>1. d \in 2 .. Len(stack) /\ d \in DOMAIN stack
      BY <1>1, <1>2, <2>2
    <3> QED BY <1>1, <3>1 DEF Promised
  <2> QED BY <2>1, <2>2
<1>5. ASSUME NEW d \in 2 .. Len(stack')
      PROVE  Answers(stack'[d], stack'[d - 1].n, usedBasePages')
  <2>1. d \in 2 .. Len(stack) /\ d \in Nat /\ Len(stack) >= 2 /\ stack'[d] = stack[d]
    BY <1>1
  <2>2. stack[d] \in Frame /\ stack[d - 1] \in Frame
    BY <1>2, <2>1
  <2>3. stack[d - 1].n \in Nat
    BY <2>2 DEF Frame
  <2>4. Answers(stack[d], stack[d - 1].n, usedBasePages)
    BY <2>1 DEF Promised
  <2>5. Answers(stack[d], stack[d - 1].n, usedBasePages')
    BY <2>2, <2>3, <2>4, AnswersGrow DEF Grown
  <2>6. CASE d = 2
    <3>1. CASE c.n = top.n
      <4>1. stack'[d - 1].n = stack[d - 1].n
        BY <1>1, <1>2, <2>6, <3>1
      <4> QED BY <2>1, <2>5, <4>1
    <3>2. CASE Kind(top) # "alloc"
      BY <2>1, <2>6, <3>2, OnlyAllocsAnswer
    <3> QED BY <3>1, <3>2
  <2>7. CASE d # 2
    <3>1. d - 1 \in 2 .. Len(stack)
      BY <1>1, <2>1, <2>7
    <3>2. stack'[d - 1] = stack[d - 1]
      BY <1>1, <3>1
    <3> QED BY <2>1, <2>5, <3>2
  <2> QED BY <2>6, <2>7
<1> QED BY <1>3, <1>4, <1>5 DEF Promised

LEMMA PromisedCall ==
  ASSUME IInv, Promised, UNCHANGED usedBasePages, stack # <<>>, NEW c \in Frame,
         NEW g \in Frame, Call(g, c), EmptyHanded(c), EmptyHanded(g), g.pc \notin {"split", "grow"},
         Answers(c, g.n, usedBasePages), c.n = top.n \/ Kind(top) # "alloc"
  PROVE  Promised'
<1>1. /\ stack' \in Seq(Frame) /\ Len(stack') = Len(stack) + 1
      /\ stack'[1] = g /\ stack'[2] = c
      /\ \A d \in 3 .. Len(stack) + 1 : stack'[d] = stack[d - 1]
      /\ stack' # <<>> /\ Len(stack) \in Nat /\ Len(stack) >= 1
  BY AfterCall
<1>2. stack \in Seq(Frame) /\ top = stack[1]
  BY TopFacts DEF IInv, StackOK
<1>3. top' = g
  BY <1>1, HeadTail DEF top
<1>4. ASSUME NEW d \in DOMAIN stack' PROVE EmptyHanded(stack'[d])
  <2>1. CASE d = 1 \/ d = 2
    BY <1>1, <2>1
  <2>2. CASE d # 1 /\ d # 2
    <3>1. d \in 3 .. Len(stack) + 1 /\ d - 1 \in DOMAIN stack
      BY <1>1, <1>2, <2>2
    <3> QED BY <1>1, <3>1 DEF Promised
  <2> QED BY <2>1, <2>2
<1>5. ASSUME NEW d \in 2 .. Len(stack')
      PROVE  Answers(stack'[d], stack'[d - 1].n, usedBasePages)
  <2>1. d \in Nat /\ d >= 2 /\ d <= Len(stack) + 1
    BY <1>1
  <2>2. CASE d = 2
    <3>1. stack'[d - 1] = g /\ stack'[d] = c
      BY <1>1, <2>2
    <3> QED BY <3>1
  <2>3. CASE d = 3
    <3>1. stack'[d] = stack[2] /\ stack'[d - 1] = c /\ 2 \in 2 .. Len(stack) /\ Len(stack) >= 2
      BY <1>1, <2>1, <2>3
    <3>2. CASE c.n = top.n
      <4>1. Answers(stack[2], stack[2 - 1].n, usedBasePages)
        BY <3>1 DEF Promised
      <4>2. stack[2 - 1].n = c.n
        BY <1>2, <3>2
      <4> QED BY <3>1, <4>1, <4>2
    <3>3. CASE Kind(top) # "alloc"
      BY <3>1, <3>3, OnlyAllocsAnswer
    <3> QED BY <3>2, <3>3
  <2>4. CASE d # 2 /\ d # 3
    <3>1. d \in 3 .. Len(stack) + 1 /\ d - 1 \in 3 .. Len(stack) + 1 /\ d - 1 \in 2 .. Len(stack)
      BY <1>1, <2>1, <2>4
    <3>2. stack'[d] = stack[d - 1] /\ stack'[d - 1] = stack[(d - 1) - 1]
      BY <1>1, <3>1
    <3>3. Answers(stack[d - 1], stack[(d - 1) - 1].n, usedBasePages)
      BY <3>1 DEF Promised
    <3> QED BY <3>2, <3>3
  <2> QED BY <2>2, <2>3, <2>4
<1> QED BY <1>3, <1>4, <1>5 DEF Promised

LEMMA PromisedReturn ==
  ASSUME IInv, Promised, UNCHANGED usedBasePages, stack # <<>>, NEW v \in Seq(PagedMemory),
         Return(v), Kind(top) = "alloc" => v[1].numberOfPages = top.n
  PROVE  Promised'
<1>2. stack \in Seq(Frame) /\ top = stack[1] /\ Len(stack) \in Nat /\ Len(stack) >= 1
  BY TopFacts, HeadTail DEF IInv, StackOK
<1>3. CASE Len(stack) = 1
  <2>1. stack' = <<>> /\ Len(stack') = 0
    BY <1>3, AfterLastReturn
  <2>2. DOMAIN stack' = {} /\ 2 .. Len(stack') = {}
    BY <2>1
  <2> QED BY <2>1, <2>2 DEF Promised
<1>4. CASE Len(stack) # 1
  <2>0. Len(stack) >= 2
    BY <1>2, <1>4, TwoOrMore, Zenon
  <2>1. /\ stack' \in Seq(Frame) /\ Len(stack') = Len(stack) - 1
        /\ stack'[1].pc = stack[2].pc /\ stack'[1].ps = stack[2].ps
        /\ stack'[1].n = stack[2].n /\ stack'[1].pages = stack[2].pages
        /\ stack'[1].got = v
        /\ \A d \in 2 .. Len(stack) - 1 : stack'[d] = stack[d + 1]
        /\ stack' # <<>>
    BY <2>0, AfterReturn
  <2>2. top' = stack'[1]
    BY <2>1, HeadTail DEF top
  <2>3. ASSUME NEW d \in DOMAIN stack' PROVE EmptyHanded(stack'[d])
    <3>1. CASE d = 1
      <4>1. EmptyHanded(stack[2])
        BY <1>2, <2>0 DEF Promised
      <4> QED BY <2>1, <3>1, <4>1 DEF EmptyHanded
    <3>2. CASE d # 1
      <4>1. d \in 2 .. Len(stack) - 1 /\ d + 1 \in DOMAIN stack
        BY <1>2, <2>1, <3>2
      <4> QED BY <2>1, <4>1 DEF Promised
    <3> QED BY <3>1, <3>2
  <2>4. ASSUME NEW d \in 2 .. Len(stack')
        PROVE  Answers(stack'[d], stack'[d - 1].n, usedBasePages)
    <3>1. /\ d \in Nat /\ d \in 2 .. Len(stack) - 1 /\ d + 1 \in 2 .. Len(stack)
          /\ (d + 1) - 1 = d
      BY <1>2, <2>1
    <3>2. Answers(stack[d + 1], stack[d].n, usedBasePages)
      BY <3>1 DEF Promised
    <3>3. stack'[d] = stack[d + 1]
      BY <2>1, <3>1
    <3>4. stack'[d - 1].n = stack[d].n
      <4>1. CASE d = 2
        BY <2>1, <4>1
      <4>2. CASE d # 2
        <5>1. d - 1 \in 2 .. Len(stack) - 1 /\ (d - 1) + 1 = d
          BY <1>2, <3>1, <4>2
        <5> QED BY <2>1, <5>1
      <4> QED BY <4>1, <4>2
    <3> QED BY <3>2, <3>3, <3>4
  <2>5. Answers(stack'[1], stack'[1].got[1].numberOfPages, usedBasePages)
    <3>1. Answers(stack[2], v[1].numberOfPages, usedBasePages)
      <4>1. CASE Kind(top) = "alloc"
        <5>1. 2 \in 2 .. Len(stack) /\ 2 - 1 = 1
          BY <1>2, <2>0
        <5>2. Answers(stack[2], stack[2 - 1].n, usedBasePages)
          BY <5>1 DEF Promised
        <5>3. stack[2 - 1].n = v[1].numberOfPages
          BY <1>2, <4>1, <5>1
        <5> QED BY <5>2, <5>3
      <4>2. CASE Kind(top) # "alloc"
        BY <2>0, <4>2, OnlyAllocsAnswer
      <4> QED BY <4>1, <4>2
    <3> QED BY <2>1, <3>1 DEF Answers
  <2> QED BY <2>2, <2>3, <2>4, <2>5 DEF Promised
<1> QED BY <1>3, <1>4

LEMMA CallsPromise ==
  ASSUME ArraysInv, Promised, Next, AllocStep \/ FreeStep \/ (GatherStep /\ ~GatherOverrun)
  PROVE  Promised'
<1>0. IInv /\ Grown /\ StackGood /\ UnreadyEmpty
  BY UsedOnlyGrows DEF ArraysInv, Grown, Fitting
<1>1. CASE AllocFit
  <2>1. /\ stack # <<>> /\ top.pc = "alloc" /\ UNCHANGED usedBasePages
        /\ \E v \in Seq(PagedMemory) : Return(v) /\ v[1].numberOfPages = top.n
    BY <1>0, <1>1, AllocFitDoes
  <2> QED BY <1>0, <2>1, PromisedReturn
<1>2. CASE AllocFromLarger
  <2> DEFINE c == [top EXCEPT !.pc = "split"]
             g == Alloc(CeilingDiv(top.n, ENTRIES), toLargerPageSize(top.ps))
  <2>1. /\ stack # <<>> /\ top.pc = "alloc" /\ top.ps < HUGE_PAGE
        /\ UNCHANGED usedBasePages /\ Call(g, c)
    BY <1>2 DEF AllocFromLarger, At, managers
  <2>2. top \in Frame /\ top.ps \in PageSizes /\ top.n \in Nat /\ top = stack[1]
    BY <1>0, <2>1, TopFacts
  <2>3. c \in Frame /\ c.n = top.n /\ c.pages = top.pages /\ c.pc = "split"
    BY <2>2 DEF Frame, Labels
  <2>4. g \in Frame
    BY <2>1, <2>2, PageSizeFacts, CeilingFacts, NewFrames
  <2>5. g.pages = <<>> /\ g.pc = "alloc" /\ g.n = CeilingDiv(top.n, ENTRIES)
    BY DEF Alloc
  <2> HIDE DEF c, g
  <2>6. EmptyHanded(top)
    <3>1. stack \in Seq(Frame)
      BY <1>0 DEF IInv, StackOK
    <3>2. 1 \in DOMAIN stack
      BY <2>1, <3>1
    <3> QED BY <2>2, <3>2 DEF Promised
  <2>7. EmptyHanded(c) /\ EmptyHanded(g)
    BY <2>1, <2>3, <2>5, <2>6 DEF EmptyHanded
  <2>8. Answers(c, g.n, usedBasePages)
    BY <2>3, <2>5 DEF Answers
  <2>9. g.pc \notin {"split", "grow"}
    BY <2>5
  <2> QED BY <1>0, <2>1, <2>3, <2>4, <2>7, <2>8, <2>9, PromisedCall
<1>3. CASE AllocSplit
  <2>1. /\ stack # <<>> /\ UNCHANGED usedBasePages
        /\ \E c, g \in Frame : /\ Call(g, c) /\ c.pc = "return" /\ c.n = top.n
                               /\ g.pc = "free"
    BY <1>0, <1>3, AllocSplitDoes DEF managers
  <2>2. PICK c \in Frame, g \in Frame : /\ Call(g, c) /\ c.pc = "return" /\ c.n = top.n
                                        /\ g.pc = "free"
    BY <2>1
  <2>3. EmptyHanded(c) /\ EmptyHanded(g) /\ Answers(c, g.n, usedBasePages)
        /\ g.pc \notin {"split", "grow"}
    BY <2>2 DEF EmptyHanded, Answers
  <2> QED BY <1>0, <2>1, <2>2, <2>3, PromisedCall
<1>4. CASE AllocReturn
  <2>1. /\ stack # <<>> /\ top.pc = "return" /\ UNCHANGED usedBasePages
        /\ Return(top.pages) /\ top.pages \in Seq(PagedMemory)
    BY <1>0, <1>4, AllocReturnDoes DEF managers
  <2>2. top.pages[1].numberOfPages = top.n
    BY <1>0, <2>1, TopReady
  <2> QED BY <1>0, <2>1, <2>2, PromisedReturn
<1>5. CASE FreeStore
  <2>1. stack # <<>> /\ \E c \in Frame : Goto(c) /\ c.pc = "free" /\ c.n = top.n
    BY <1>0, <1>5, FreeStoreDoes
  <2> QED BY <1>0, <2>1, PromisedGoto
<1>6. CASE FreeFull
  <2> DEFINE c == [top EXCEPT !.pc = "grow"]
             g == Alloc(usedBasePages[top.ps] + 1, BASE_PAGE)
  <2>1. /\ stack # <<>> /\ top.pc = "free" /\ UNCHANGED usedBasePages /\ Call(g, c)
    BY <1>6 DEF FreeFull, At, managers
  <2>2. top \in Frame /\ usedBasePages[top.ps] \in Nat
    BY <1>0, <2>1, TopFacts
  <2>3. c \in Frame /\ c.n = top.n /\ c.pc = "grow" /\ c.ps = top.ps
    BY <2>2 DEF Frame, Labels
  <2>4. g \in Frame
    <3>1. usedBasePages[top.ps] + 1 \in Nat
      BY <2>2
    <3> QED BY <3>1, PageSizeFacts, NewFrames
  <2>5. g.pages = <<>> /\ g.pc = "alloc" /\ g.n = usedBasePages[top.ps] + 1
    BY DEF Alloc
  <2> HIDE DEF c, g
  <2>6. EmptyHanded(c) /\ EmptyHanded(g) /\ g.pc \notin {"split", "grow"}
    BY <2>3, <2>5 DEF EmptyHanded
  <2>7. Answers(c, g.n, usedBasePages)
    BY <2>2, <2>3, <2>5 DEF Answers
  <2> QED BY <1>0, <2>1, <2>3, <2>4, <2>6, <2>7, PromisedCall
<1>7. CASE FreeGrow
  <2>1. stack # <<>> /\ \E c \in Frame : Goto(c) /\ c.pc = "free" /\ c.n = top.n
    BY <1>0, <1>7, FreeGrowDoes
  <2> QED BY <1>0, <2>1, PromisedGoto
<1>8. CASE FreeReturn
  <2> DEFINE v == <<>>
  <2>1. /\ stack # <<>> /\ top.pc = "free" /\ UNCHANGED usedBasePages /\ Return(v)
        /\ v \in Seq(PagedMemory)
    BY <1>0, <1>8, FreeReturnDoes DEF managers
  <2>2. Kind(top) # "alloc"
    BY <2>1 DEF Kind
  <2> HIDE DEF v
  <2> QED BY <1>0, <2>1, <2>2, PromisedReturn
<1>9. CASE GatherStep /\ ~GatherOverrun
  <2>1. /\ stack # <<>> /\ Kind(top) = "gather" /\ UNCHANGED usedBasePages
        /\ \/ \E c \in Frame : Goto(c) /\ Kind(c) = "gather"
           \/ \E v \in Seq(PagedMemory) : Return(v)
           \/ \E c, g \in Frame : /\ Call(g, c) /\ Kind(c) = "gather"
                                  /\ g.pc \in {"gather", "free"}
    BY <1>0, <1>9, GatherDoes
  <2>0. Kind(top) # "alloc"
    BY <2>1
  <2>2. \A c \in Frame : Kind(c) = "gather" => c.pc \in {"gather", "gathered"}
    BY DEF Kind, Frame, Labels
  <2>3. CASE \E c \in Frame : Goto(c) /\ Kind(c) = "gather"
    BY <1>0, <2>0, <2>1, <2>2, <2>3, PromisedGoto
  <2>4. CASE \E v \in Seq(PagedMemory) : Return(v)
    BY <1>0, <2>0, <2>1, <2>4, PromisedReturn
  <2>5. CASE \E c, g \in Frame : /\ Call(g, c) /\ Kind(c) = "gather"
                                 /\ g.pc \in {"gather", "free"}
    <3>1. PICK c \in Frame, g \in Frame : /\ Call(g, c) /\ Kind(c) = "gather"
                                          /\ g.pc \in {"gather", "free"}
      BY <2>5
    <3>2. EmptyHanded(c) /\ EmptyHanded(g) /\ Answers(c, g.n, usedBasePages)
          /\ g.pc \notin {"split", "grow"}
      BY <2>2, <3>1 DEF EmptyHanded, Answers
    <3> QED BY <1>0, <2>0, <2>1, <3>1, <3>2, PromisedCall
  <2> QED BY <2>1, <2>3, <2>4, <2>5
<1> QED BY <1>1, <1>2, <1>3, <1>4, <1>5, <1>6, <1>7, <1>8, <1>9 DEF AllocStep, FreeStep

\* The frames of an array do not outgrow what its manager counts.
LEMMA CallsBound ==
  ASSUME ArraysInv, Promised, ArraysBounded, Next,
         AllocStep \/ FreeStep \/ (GatherStep /\ ~GatherOverrun)
  PROVE  ArraysBounded'
<1>0. IInv /\ Grown /\ StackGood /\ UnreadyEmpty /\ usedBasePages \in [PageSizes -> Nat]
  BY UsedOnlyGrows DEF ArraysInv, Grown, Fitting, IInv, TypeOK
<1>1. UNCHANGED <<phase, pageSize>> /\ stack # <<>> /\ pageSize \in PageSizes
  <2>1. UNCHANGED topLevel /\ stack # <<>>
    BY DEF AllocStep, FreeStep, GatherStep, AllocFit, AllocFromLarger, AllocSplit, AllocReturn,
           FreeStore, FreeFull, FreeGrow, FreeReturn, GatherWhole, GatherLast, GatherFromLarger,
           GatherConvert, At
  <2> QED BY <1>0, <2>1 DEF topLevel, IInv, TypeOK
<1>2. ASSUME NEW ps \in PageSizes PROVE buf'[ps].numberOfPages <= usedBasePages'[ps]
  <2>1. buf \in [PageSizes -> PagedMemory] /\ buf[ps].numberOfPages <= usedBasePages[ps]
    BY <1>0 DEF IInv, TypeOK, ArraysBounded
  <2>2. buf[ps].numberOfPages \in Nat
    BY <2>1 DEF PagedMemory
  <2>3. /\ usedBasePages[ps] \in Nat /\ usedBasePages'[ps] \in Nat
        /\ usedBasePages'[ps] >= usedBasePages[ps]
    BY <1>0 DEF Grown
  <2>4. CASE FreeGrow
    <3>1. /\ top.pc = "grow" /\ buf' = [buf EXCEPT ![top.ps] = top.got[1]]
          /\ usedBasePages' = [usedBasePages EXCEPT ![top.ps] = @ + 1]
      BY <1>0, <2>4, FreeGrowDoes
    <3>2. top.got[1].numberOfPages <= usedBasePages[top.ps] + 1
      BY <1>1, <3>1 DEF Promised, Answers
    <3>3. CASE ps = top.ps
      <4>1. buf'[ps] = top.got[1] /\ usedBasePages'[ps] = usedBasePages[ps] + 1
        BY <1>0, <2>1, <3>1, <3>3
      <4> QED BY <3>2, <3>3, <4>1
    <3>4. CASE ps # top.ps
      <4>1. buf'[ps] = buf[ps]
        BY <2>1, <3>1, <3>4
      <4> QED BY <2>1, <2>2, <2>3, <4>1
    <3> QED BY <3>3, <3>4
  <2>5. CASE ~FreeGrow
    <3>1. buf' = buf
      BY <2>5 DEF AllocStep, FreeStep, GatherStep, AllocFit, AllocFromLarger, AllocSplit,
           AllocReturn, FreeStore, FreeFull, FreeReturn, GatherWhole, GatherLast,
           GatherFromLarger, GatherConvert, managers
    <3> QED BY <2>1, <2>2, <2>3, <3>1
  <2> QED BY <2>4, <2>5
<1>3. ASSUME phase = "buffer"
      PROVE  /\ stack' # <<>> => stack'[Len(stack')].n <= usedBasePages'[pageSize]
             /\ stack' = <<>> => result'[1].numberOfPages <= usedBasePages'[pageSize]
  <2>1. Kind(top) # "gather" /\ ~GatherStep
    <3>1. Kind(top) # "gather"
      BY <1>0, <1>1, <1>3, GatherReady DEF StackGood
    <3>2. GatherStep => Kind(top) = "gather"
      BY DEF GatherStep, GatherWhole, GatherLast, GatherOverrun, GatherFromLarger, GatherConvert,
             At, Kind
    <3> QED BY <3>1, <3>2
  <2>2. stack[Len(stack)].n <= usedBasePages[pageSize] /\ stack[Len(stack)].n \in Nat
    <3>1. stack \in Seq(Frame)
      BY <1>0 DEF IInv, StackOK
    <3>2. stack[Len(stack)] \in Frame
      BY <1>1, <3>1
    <3> QED BY <1>1, <1>3, <3>2 DEF ArraysBounded, Frame
  <2>3. /\ usedBasePages[pageSize] \in Nat /\ usedBasePages'[pageSize] \in Nat
        /\ usedBasePages'[pageSize] >= usedBasePages[pageSize]
    BY <1>0, <1>1 DEF Grown
  <2>4. /\ stack' # <<>> => stack'[Len(stack')].n = stack[Len(stack)].n
        /\ stack' = <<>> => result'[1].numberOfPages = stack[Len(stack)].n
    <3>1. \/ \E c \in Frame : Goto(c) /\ c.n = top.n
          \/ \E c, g \in Frame : Call(g, c) /\ c.n = top.n
          \/ \E v \in Seq(PagedMemory) :
               Return(v) /\ (Kind(top) = "alloc" => v[1].numberOfPages = top.n)
      <4>1. CASE AllocStep
        <5>1. AllocReturn => top.pages[1].numberOfPages = top.n
          BY <1>0, <1>1, AllocReturnDoes, TopReady
        <5>2. AllocFit => \E v \in Seq(PagedMemory) : Return(v) /\ v[1].numberOfPages = top.n
          BY <1>0, AllocFitDoes
        <5>3. AllocFromLarger \/ AllocSplit => \E c, g \in Frame : Call(g, c) /\ c.n = top.n
          BY <1>0, AllocFromLargerDoes, AllocSplitDoes DEF SameFrame
        <5>4. AllocReturn => Return(top.pages) /\ top.pages \in Seq(PagedMemory)
          BY <1>0, AllocReturnDoes
        <5> QED BY <4>1, <5>1, <5>2, <5>3, <5>4, Zenon DEF AllocStep
      <4>2. CASE FreeStep
        <5>1. FreeStore \/ FreeGrow => \E c \in Frame : Goto(c) /\ c.n = top.n
          BY <1>0, FreeStoreDoes, FreeGrowDoes
        <5>2. FreeFull => \E c, g \in Frame : Call(g, c) /\ c.n = top.n
          BY <1>0, FreeFullDoes DEF SameFrame
        <5>3. FreeReturn => /\ Return(<<>>) /\ <<>> \in Seq(PagedMemory)
                            /\ Kind(top) # "alloc"
          BY <1>0, FreeReturnDoes DEF Kind
        <5> QED BY <4>2, <5>1, <5>2, <5>3, Zenon DEF FreeStep
      <4> QED BY <2>1, <4>1, <4>2
    <3>2. CASE \E c \in Frame : Goto(c) /\ c.n = top.n
      BY <1>0, <1>1, <3>2, BottomGoto
    <3>3. CASE \E c, g \in Frame : Call(g, c) /\ c.n = top.n
      BY <1>0, <1>1, <3>3, BottomCall
    <3>4. CASE \E v \in Seq(PagedMemory) :
                 Return(v) /\ (Kind(top) = "alloc" => v[1].numberOfPages = top.n)
      <4>1. PICK v \in Seq(PagedMemory) :
                   Return(v) /\ (Kind(top) = "alloc" => v[1].numberOfPages = top.n)
        BY <3>4
      <4>2. \/ stack' = <<>> /\ result' = v /\ stack[Len(stack)] = top
            \/ stack' # <<>> /\ stack'[Len(stack')].n = stack[Len(stack)].n
        BY <1>0, <1>1, <4>1, BottomReturn
      <4>3. stack[Len(stack)] = top => Kind(top) = "alloc"
        BY <1>0, <1>1, <1>3 DEF IInv, TopLevelOK, BottomOK
      <4> QED BY <4>1, <4>2, <4>3
    <3> QED BY <3>1, <3>2, <3>3, <3>4
  <2> QED BY <2>2, <2>3, <2>4
<1> QED BY <1>1, <1>2, <1>3 DEF ArraysBounded

-----------------------------------------------------------------------------
(* The top level's steps keep what the calls promise *)

\* Calls the top level has just made are promised nothing yet.
LEMMA FreshPromise ==
  ASSUME stack' \in Seq(Frame),
         \A d \in DOMAIN stack' : \/ stack'[d].pc \in {"free", "gather"}
                                  \/ stack'[d].pc = "alloc" /\ stack'[d].pages = <<>>
  PROVE  Promised'
<1>1. DOMAIN stack' = 1 .. Len(stack') /\ Len(stack') \in Nat
  OBVIOUS
<1>2. \A d \in DOMAIN stack' : EmptyHanded(stack'[d])
  BY DEF EmptyHanded
<1>3. ASSUME NEW d \in DOMAIN stack', NEW pages, NEW used PROVE Answers(stack'[d], pages, used)
  BY <1>3 DEF Answers
<1>4. ASSUME stack' # <<>> PROVE top'.pc \notin {"split", "grow"}
  <2>1. top' = stack'[1] /\ Len(stack') >= 1
    BY <1>4, HeadTail DEF top
  <2>2. 1 \in DOMAIN stack'
    BY <1>1, <2>1
  <2> QED BY <2>1, <2>2
<1>5. \A d \in 2 .. Len(stack') : d \in DOMAIN stack'
  BY <1>1
<1>6. \A d \in 2 .. Len(stack') : Answers(stack'[d], stack'[d - 1].n, usedBasePages')
  BY <1>3, <1>5
<1> QED BY <1>2, <1>4, <1>6 DEF Promised

LEMMA OneFreshCall ==
  ASSUME NEW c \in Frame, c.pc \in {"free", "gather"} \/ (c.pc = "alloc" /\ c.pages = <<>>),
         stack' = <<c>>
  PROVE  Promised'
<1>1. /\ <<c>> \in Seq(Frame)
      /\ \A d \in DOMAIN <<c>> : <<c>>[d] = c
  OBVIOUS
<1> QED BY <1>1, FreshPromise

LEMMA NoFreshCall == ASSUME stack' = <<>> PROVE Promised'
<1>1. <<>> \in Seq(Frame) /\ DOMAIN <<>> = {}
  OBVIOUS
<1> QED BY <1>1, FreshPromise

\* The steps outside the calls, and those that abandon them.
TopLevelStep == InitStep \/ KernelStep \/ KernelReceive \/ NoMorePhysicalMemory \/ GatherOverrun

LEMMA TopLevelPromise ==
  ASSUME IInv, TopLevelStep
  PROVE  Promised'
<1>1. CASE InitFirst \/ InitFault \/ InitBuffer \/ InitPMMDone \/ KernelReceive
           \/ NoMorePhysicalMemory \/ GatherOverrun
  <2>1. stack' = <<>>
    BY <1>1 DEF InitFirst, InitFault, InitBuffer, InitPMMDone, KernelReceive,
       NoMorePhysicalMemory, GatherOverrun, Stop, Idle
  <2> QED BY <2>1, NoFreshCall
<1>2. CASE InitCollect
  <2>1. freeMemory \in Seq(PagedMemory)
    BY DEF IInv, TypeOK
  <2> DEFINE c == Free(freeMemory, BASE_PAGE)
  <2>2. c \in Frame /\ c.pc = "free"
    BY <2>1, PageSizeFacts, NewFrames DEF Free
  <2>3. stack' = <<>> \/ stack' = <<c>>
    BY <1>2 DEF InitCollect
  <2> HIDE DEF c
  <2> QED BY <2>2, <2>3, OneFreshCall, NoFreshCall
<1>3. CASE InitFreeCollected
  <2>1. freeMemory \in Seq(PagedMemory)
    BY DEF IInv, TypeOK
  <2> DEFINE c == Free(freeMemory, BASE_PAGE)
  <2>2. c \in Frame /\ c.pc = "free"
    BY <2>1, PageSizeFacts, NewFrames DEF Free
  <2>3. stack' = <<c>>
    BY <1>3 DEF InitFreeCollected
  <2> HIDE DEF c
  <2> QED BY <2>2, <2>3, OneFreshCall
<1>4. CASE InitFreeHolder
  <2>1. <<holder>> \in Seq(PagedMemory)
    BY DEF IInv, TypeOK
  <2> DEFINE c == Free(<<holder>>, BASE_PAGE)
  <2>2. c \in Frame /\ c.pc = "free"
    BY <2>1, PageSizeFacts, NewFrames DEF Free
  <2>3. stack' = <<c>>
    BY <1>4 DEF InitFreeHolder
  <2> HIDE DEF c
  <2> QED BY <2>2, <2>3, OneFreshCall
<1>5. CASE InitPMM
  <2>1. usedBasePages[pageSize] \in Nat
    BY DEF IInv, TypeOK
  <2> DEFINE c == Alloc(usedBasePages[pageSize], BASE_PAGE)
  <2>2. c \in Frame /\ c.pc = "alloc" /\ c.pages = <<>>
    BY <2>1, PageSizeFacts, NewFrames DEF Alloc
  <2>3. stack' = <<c>>
    BY <1>5 DEF InitPMM
  <2> HIDE DEF c
  <2> QED BY <2>2, <2>3, OneFreshCall
<1>6. CASE Promote
  BY <1>6, PromoteDoes, FreshPromise
<1>7. ASSUME NEW n \in Requests, NEW ps \in PageSizes, KernelAlloc(n, ps) \/ KernelGather(n, ps)
      PROVE  Promised'
  <2>1. n \in Nat /\ ENTRIES \in Int
    BY RequestsAssumption, PageSizeFacts
  <2>2. Alloc(n, ps) \in Frame /\ Alloc(n, ps).pc = "alloc" /\ Alloc(n, ps).pages = <<>>
    BY <2>1, NewFrames DEF Alloc
  <2>3. Gather(n, ps, ENTRIES) \in Frame /\ Gather(n, ps, ENTRIES).pc = "gather"
    BY <2>1, NewFrames DEF Gather
  <2>4. stack' = <<Alloc(n, ps)>> \/ stack' = <<Gather(n, ps, ENTRIES)>>
    BY <1>7 DEF KernelAlloc, KernelGather
  <2> QED BY <2>2, <2>3, <2>4, OneFreshCall
<1>8. ASSUME NEW h \in held, NEW k \in 0 .. h.run.numberOfPages,
             NEW n \in 1 .. h.run.numberOfPages, KernelFree(h, k, n)
      PROVE  Promised'
  <2>1. h.ps \in PageSizes /\ h.run \in PagedMemory
    BY DEF IInv, TypeOK
  <2>0. h.ps \in Nat /\ h.run.pageStart \in Nat /\ h.run.numberOfPages \in Nat
    BY <2>1, PageSizeFacts DEF PagedMemory
  <2>2. h.ps \in Nat /\ h.run.pageStart \in Nat /\ k \in Nat /\ n \in Nat
    BY <2>0
  <2>3. h.run.pageStart + k * h.ps \in Nat
    BY <2>2
  <2> DEFINE c == Free(<<Run(h.run.pageStart + k * h.ps, n)>>, h.ps)
  <2>4. c \in Frame /\ c.pc = "free"
    BY <2>1, <2>2, <2>3, OneRun, NewFrames DEF Free
  <2>5. stack' = <<c>>
    BY <1>8 DEF KernelFree
  <2> HIDE DEF c
  <2> QED BY <2>4, <2>5, OneFreshCall
<1> QED BY <1>1, <1>2, <1>3, <1>4, <1>5, <1>6, <1>7, <1>8
      DEF TopLevelStep, InitStep, KernelStep

LEMMA TopLevelBound ==
  ASSUME ArraysInv, ArraysBounded, TopLevelStep
  PROVE  ArraysBounded'
<1>0. /\ IInv /\ buf \in [PageSizes -> PagedMemory] /\ usedBasePages \in [PageSizes -> Nat]
      /\ pageSize \in PageSizes
  BY DEF ArraysInv, IInv, TypeOK
<1>1. ASSUME UNCHANGED <<buf, usedBasePages>>, phase' # "buffer" PROVE ArraysBounded'
  BY <1>1 DEF ArraysBounded
<1>2. CASE InitFirst
  <2>1. PICK a : buf' = [buf EXCEPT ![BASE_PAGE] = Run(a, 1)]
    BY <1>2 DEF InitFirst
  <2>2. usedBasePages' = usedBasePages /\ phase' = "collect"
    BY <1>2 DEF InitFirst
  <2>3. ASSUME NEW ps \in PageSizes PROVE buf'[ps].numberOfPages <= usedBasePages[ps]
    <3>1. CASE ps = BASE_PAGE
      <4>1. buf'[ps].numberOfPages = 1
        BY <1>0, <2>1, <3>1 DEF Run
      <4> QED BY <1>0, <4>1 DEF ArraysInv, ArraysCounted
    <3>2. CASE ps # BASE_PAGE
      BY <1>0, <2>1, <3>2 DEF ArraysBounded
    <3> QED BY <3>1, <3>2
  <2> QED BY <2>2, <2>3 DEF ArraysBounded
<1>3. CASE InitPMM
  <2>1. /\ UNCHANGED <<buf, usedBasePages, pageSize>>
        /\ stack' = <<Alloc(usedBasePages[pageSize], BASE_PAGE)>>
    BY <1>3 DEF InitPMM, managers
  <2>2. /\ stack' # <<>>
        /\ stack'[Len(stack')].n = usedBasePages[pageSize] /\ usedBasePages[pageSize] \in Nat
    BY <1>0, <2>1 DEF Alloc
  <2> QED BY <2>1, <2>2 DEF ArraysBounded
<1>4. CASE InitBuffer
  <2>1. /\ buf' = [buf EXCEPT ![pageSize] = result[1]] /\ usedBasePages' = usedBasePages
        /\ phase' = "promote" /\ stack = <<>> /\ phase = "buffer"
    BY <1>4 DEF InitBuffer, Idle
  <2>2. result[1].numberOfPages <= usedBasePages[pageSize]
    BY <2>1 DEF ArraysBounded
  <2>3. ASSUME NEW ps \in PageSizes PROVE buf'[ps].numberOfPages <= usedBasePages[ps]
    <3>1. CASE ps = pageSize
      BY <1>0, <2>1, <2>2, <3>1
    <3>2. CASE ps # pageSize
      BY <1>0, <2>1, <3>2 DEF ArraysBounded
    <3> QED BY <3>1, <3>2
  <2> QED BY <2>1, <2>3 DEF ArraysBounded
<1>5. CASE Promote
  BY <1>0, <1>1, <1>5, PromoteDoes
<1>6. CASE InitCollect \/ InitFreeCollected \/ InitFreeHolder \/ InitFault \/ InitPMMDone
  <2>1. UNCHANGED <<buf, usedBasePages>> /\ phase' # "buffer"
    BY <1>6 DEF InitCollect, InitFreeCollected, InitFreeHolder, InitFault, InitPMMDone, Stop,
       managers, Idle
  <2> QED BY <1>1, <2>1
<1>7. CASE KernelStep \/ KernelReceive \/ NoMorePhysicalMemory \/ GatherOverrun
  <2>1. UNCHANGED <<buf, usedBasePages>> /\ phase' # "buffer"
    BY <1>7 DEF KernelStep, KernelAlloc, KernelGather, KernelFree, KernelReceive,
       NoMorePhysicalMemory, GatherOverrun, Stop, managers
  <2> QED BY <1>1, <2>1
<1> QED BY <1>2, <1>3, <1>4, <1>5, <1>6, <1>7 DEF TopLevelStep, InitStep

\* The phases never come back to the first, and what the kernel holds stays finite.
LEMMA PhaseMovesOn ==
  ASSUME IInv, Next
  PROVE  phase' = "first" => UNCHANGED vars
<1>1. CASE AllocStep \/ FreeStep \/ (GatherStep /\ ~GatherOverrun)
  <2>1. UNCHANGED topLevel /\ stack # <<>>
    BY <1>1 DEF AllocStep, FreeStep, GatherStep, AllocFit, AllocFromLarger, AllocSplit,
       AllocReturn, FreeStore, FreeFull, FreeGrow, FreeReturn, GatherWhole, GatherLast,
       GatherFromLarger, GatherConvert, At
  <2>2. phase' = phase
    BY <2>1 DEF topLevel
  <2>3. phase # "first"
    BY <2>1 DEF IInv, TopLevelOK, BottomOK
  <2> QED BY <2>2, <2>3
<1>2. CASE InitStep
  BY <1>2 DEF InitStep, InitFirst, InitFault, InitCollect, InitFreeCollected, InitFreeHolder,
     InitPMM, InitBuffer, Promote, InitPMMDone, Stop, Idle
<1>3. CASE KernelStep \/ KernelReceive \/ NoMorePhysicalMemory \/ GatherOverrun
  BY <1>3 DEF KernelStep, KernelAlloc, KernelGather, KernelFree, KernelReceive,
     NoMorePhysicalMemory, GatherOverrun, Stop
<1>4. CASE Halted
  BY <1>4 DEF Halted
<1> QED BY <1>1, <1>2, <1>3, <1>4 DEF Next, Running

-----------------------------------------------------------------------------
(* Every step keeps a frame's owners *)

\* What the counts rest on.
CountsInv == ArraysInv /\ Promised /\ ArraysBounded /\ NoHolderYet /\ HeldFinite

LEMMA StutterKept ==
  ASSUME IInv, HeldFinite, UNCHANGED vars, NEW f
  PROVE  Kept(f)
<1>1. UNCHANGED <<memory, buf, stack, result, phase, pageSize, boot, held, usedBasePages>>
  BY DEF vars, managers, topLevel, kernel
<1>2. /\ InLists(f)' = InLists(f) /\ InArrays(f)' = InArrays(f) /\ InResult(f)' = InResult(f)
      /\ InHeld(f)' = InHeld(f) /\ InBoot(f)' = InBoot(f)
      /\ InCalls(stack', f) = InCalls(stack, f)
  BY <1>1, SameCounts
<1>3. InHand(f)' = InHand(f)
  BY <1>2, SameCounts
<1>4. Owners(f) \in Nat /\ Owners(f) = InHand(f) + InBoot(f) + InHeld(f)
  BY OwnersType
<1>5. Owners(f)' = Owners(f)
  BY <1>2, <1>3, <1>4, SameCounts
<1>6. Owners(f)' <= Owners(f) /\ (Owners(f) >= 1 => Owners(f)' >= 1)
  BY <1>4, <1>5
<1> QED BY <1>6 DEF Kept

\* A frame has no more owners after a step, and still one if it had one.
LEMMA NextKept ==
  ASSUME CountsInv, PromotesFromBoundary, Next, NEW f
  PROVE  Kept(f)
<1>0. ArraysInv /\ IInv /\ Promised /\ ArraysBounded /\ NoHolderYet /\ HeldFinite
  BY DEF CountsInv, ArraysInv
<1>1. CASE AllocStep \/ FreeStep \/ (GatherStep /\ ~GatherOverrun)
  BY <1>0, <1>1, CallsKeep
<1>2. CASE NoMorePhysicalMemory \/ GatherOverrun
  <2>1. stack # <<>> /\ \E reason \in {"fault", "overrun"} : Stop(reason)
    BY <1>2 DEF NoMorePhysicalMemory, GatherOverrun, At
  <2>2. result = <<>>
    BY <1>0, <2>1 DEF IInv, TopLevelOK
  <2> QED BY <1>0, <2>1, <2>2, StopCounts
<1>3. CASE InitFault
  <2>1. phase = "first" /\ Stop("fault")
    BY <1>3 DEF InitFault, Idle
  <2>2. result = <<>>
    BY <1>0, <2>1 DEF IInv, TopLevelOK
  <2> QED BY <1>0, <2>1, <2>2, StopCounts
<1>4. CASE InitStep /\ ~InitFault
  BY <1>0, <1>4, InitFirstKeeps, InitCollectKeeps, InitFreeCollectedKeeps, InitFreeHolderKeeps,
     InitPMMKeeps, InitBufferKeeps, PromoteCounts DEF InitStep
<1>5. CASE KernelStep
  BY <1>0, <1>5, KernelAsksKeeps, KernelFreeKeeps DEF KernelStep
<1>6. CASE KernelReceive
  BY <1>0, <1>6, KernelReceiveOwns
<1>7. CASE Halted
  BY <1>0, <1>7, StutterKept DEF Halted
<1> QED BY <1>1, <1>2, <1>3, <1>4, <1>5, <1>6, <1>7 DEF Next, Running

\* What the kernel holds changes when it gets runs and when it gives pages back.
LEMMA StillFinite ==
  ASSUME IInv, HeldFinite, Next
  PROVE  HeldFinite'
<1>1. CASE KernelReceive
  BY <1>1, KernelReceiveOwns
<1>2. ASSUME NEW h \in held, NEW k \in 0 .. h.run.numberOfPages,
             NEW n \in 1 .. h.run.numberOfPages, KernelFree(h, k, n)
      PROVE  HeldFinite'
  BY <1>2, KernelFreeKeeps
<1>3. ASSUME UNCHANGED held PROVE HeldFinite'
  BY <1>3 DEF HeldFinite
<1>4. CASE AllocStep \/ FreeStep \/ GatherStep \/ NoMorePhysicalMemory
  <2>1. UNCHANGED held
    BY <1>4 DEF AllocStep, FreeStep, GatherStep, AllocFit, AllocFromLarger, AllocSplit,
       AllocReturn, FreeStore, FreeFull, FreeGrow, FreeReturn, GatherWhole, GatherLast,
       GatherOverrun, GatherFromLarger, GatherConvert, NoMorePhysicalMemory, Stop, topLevel, kernel
  <2> QED BY <1>3, <2>1
<1>5. CASE InitStep
  <2>1. UNCHANGED held
    BY <1>5 DEF InitStep, InitFirst, InitFault, InitCollect, InitFreeCollected, InitFreeHolder,
       InitPMM, InitBuffer, Promote, InitPMMDone, Stop, kernel
  <2> QED BY <1>3, <2>1
<1>6. CASE Halted
  BY <1>3, <1>6 DEF Halted, vars, topLevel, kernel
<1>7. CASE \E n \in Requests, ps \in PageSizes : KernelAlloc(n, ps) \/ KernelGather(n, ps)
  BY <1>3, <1>7 DEF KernelAlloc, KernelGather
<1> QED BY <1>1, <1>2, <1>4, <1>5, <1>6, <1>7 DEF Next, Running, KernelStep

LEMMA NextCounts ==
  ASSUME CountsInv, [Next]_vars
  PROVE  CountsInv'
<1>0. ArraysInv /\ IInv /\ Promised /\ ArraysBounded /\ NoHolderYet /\ HeldFinite
  BY DEF CountsInv, ArraysInv
<1>1. CASE UNCHANGED vars
  <2>1. ArraysInv'
    BY <1>0, <1>1, ArraysStutter, StutterKeeps
       DEF ArraysInv, ArraysCounted, vars, managers
  <2>2. UNCHANGED <<stack, usedBasePages, buf, phase, pageSize, result, holder, held>>
    BY <1>1 DEF vars, managers, topLevel, boot, kernel
  <2>3. Promised'
    BY <1>0, <2>2 DEF Promised, top
  <2>4. ArraysBounded' /\ NoHolderYet' /\ HeldFinite'
    BY <1>0, <2>2 DEF ArraysBounded, NoHolderYet, HeldFinite
  <2> QED BY <2>1, <2>3, <2>4 DEF CountsInv
<1>2. CASE Next
  <2>1. ArraysInv' /\ HeldFinite'
    BY <1>0, <1>2, NextFits, StillFinite
  <2>2. NoHolderYet'
    <3>1. ASSUME phase' = "first" PROVE UNCHANGED <<phase, holder>>
      BY <1>0, <1>2, <3>1, PhaseMovesOn DEF vars, topLevel, boot
    <3> QED BY <1>0, <3>1 DEF NoHolderYet
  <2>3. CASE AllocStep \/ FreeStep \/ (GatherStep /\ ~GatherOverrun)
    BY <1>0, <1>2, <2>1, <2>2, <2>3, CallsPromise, CallsBound DEF CountsInv
  <2>4. CASE TopLevelStep
    BY <1>0, <2>1, <2>2, <2>4, TopLevelPromise, TopLevelBound DEF CountsInv
  <2>5. CASE Halted
    BY <1>1, <2>5 DEF Halted
  <2> QED BY <1>2, <2>3, <2>4, <2>5 DEF Next, Running, TopLevelStep
<1> QED BY <1>1, <1>2

-----------------------------------------------------------------------------
(* At the start the memory map owns everything *)

LEMMA InitCounts == ASSUME Init PROVE CountsInv
<1>1. ArraysInv
  BY InitFitting
<1>2. Promised
  <2>1. stack = <<>> /\ Len(<<>>) = 0 /\ DOMAIN <<>> = {}
    BY DEF Init
  <2>2. \A d \in 2 .. Len(stack) : FALSE
    BY <2>1
  <2> QED BY <2>1, <2>2 DEF Promised
<1>3. ArraysBounded
  <2>1. \A ps \in PageSizes : buf[ps].numberOfPages = 0 /\ usedBasePages[ps] = 1
    BY DEF Init, Run
  <2> QED BY <2>1 DEF Init, ArraysBounded
<1>4. NoHolderYet /\ HeldFinite
  BY FS_EmptySet DEF Init, NoHolderYet, HeldFinite
<1> QED BY <1>1, <1>2, <1>3, <1>4 DEF CountsInv

LEMMA InitOwners ==
  ASSUME Init, NEW f
  PROVE  /\ IsFiniteSet(UsableFrom(1, f)) /\ Cardinality(UsableFrom(1, f)) \in Nat
         /\ Owners(f) = Cardinality(UsableFrom(1, f))
<1>1. IInv /\ HeldFinite
  BY InitCounts DEF CountsInv, ArraysInv
<1>2. IsFiniteSet(UsableFrom(1, f)) /\ Cardinality(UsableFrom(1, f)) \in Nat
  BY <1>1, UsableFinite
<1>3. InLists(f) = 0
  <2>1. memory[BASE_PAGE] = <<>> /\ memory[LARGE_PAGE] = <<>> /\ memory[HUGE_PAGE] = <<>>
    BY PageSizeFacts DEF Init
  <2> QED BY <2>1, InEmpty DEF InLists
<1>4. InArrays(f) = 0
  <2>1. /\ buf[BASE_PAGE] = Run(0, 0) /\ buf[LARGE_PAGE] = Run(0, 0)
        /\ buf[HUGE_PAGE] = Run(0, 0)
    BY PageSizeFacts DEF Init
  <2>2. IsIn(Run(0, 0), BASE_PAGE, f) = 0
    BY NoPages, PageSizeFacts
  <2> QED BY <2>1, <2>2 DEF InArrays
<1>5. InCalls(stack, f) = 0 /\ InResult(f) = 0
  BY InCallsNone, InEmpty DEF Init, InResult
<1>6. InBoot(f) = Cardinality(UsableFrom(1, f))
  <2>1. In(freeMemory, BASE_PAGE, f) = 0 /\ IsIn(holder, BASE_PAGE, f) = 0
    BY InEmpty, NoPages, PageSizeFacts DEF Init
  <2>2. MapHits(f) = UsableFrom(1, f)
    BY <1>1, MapHitsAre DEF Init
  <2> QED BY <1>2, <2>1, <2>2 DEF InBoot
<1>7. InHeld(f) = 0
  <2>1. HeldHits(f) = {}
    BY DEF Init, HeldHits
  <2> QED BY <2>1, FS_EmptySet DEF InHeld
<1>8. InHand(f) = 0
  BY <1>3, <1>4, <1>5, SameCounts
<1>9. Owners(f) = InHand(f) + InBoot(f) + InHeld(f)
  BY <1>1, OwnersType
<1> QED BY <1>2, <1>6, <1>7, <1>8, <1>9

\* Two members make two, and one is enough for one.
LEMMA Members ==
  ASSUME NEW S, IsFiniteSet(S)
  PROVE  /\ Cardinality(S) \in Nat /\ (Cardinality(S) >= 1 <=> S # {})
         /\ \A x, y \in S : x # y => Cardinality(S) >= 2
         /\ (\A x, y \in S : x = y) => Cardinality(S) <= 1
<1>1. Cardinality(S) \in Nat /\ (Cardinality(S) = 0 <=> S = {})
  BY FS_CardinalityType, FS_EmptySet
<1>2. Cardinality(S) = 1 <=> \E x : S = {x}
  BY FS_Singleton
<1>3. ASSUME NEW x \in S, NEW y \in S, x # y PROVE Cardinality(S) >= 2
  <2>1. Cardinality(S) # 0 /\ Cardinality(S) # 1
    BY <1>1, <1>2, <1>3
  <2> QED BY <1>1, <2>1
<1>4. ASSUME \A x, y \in S : x = y PROVE S = {} \/ \E x : S = {x}
  BY <1>4
<1>5. (\A x, y \in S : x = y) => Cardinality(S) <= 1
  BY <1>1, <1>2, <1>4
<1>6. Cardinality(S) >= 1 <=> S # {}
  BY <1>1
<1> QED BY <1>1, <1>3, <1>5, <1>6

\* The firmware's memory maps describe no frame twice.
DescriptorsApart ==
  \A map \in MemoryMaps : \A i, j \in DOMAIN map :
    i # j /\ canBeUsedByOS(map[i].type) /\ canBeUsedByOS(map[j].type) =>
      FramesOf(Run(map[i].physicalStart, map[i].numberOfPages), BASE_PAGE)
        \cap FramesOf(Run(map[j].physicalStart, map[j].numberOfPages), BASE_PAGE) = {}

LEMMA InitOwned ==
  ASSUME Init
  PROVE  OwnedStill /\ (DescriptorsApart => OwnedOnce)
<1>0. /\ descriptors \in MemoryMaps
      /\ DOMAIN descriptors = 1 .. Len(descriptors)
  BY MapsAssumption DEF Init
<1>1. ASSUME NEW f \in Frames PROVE Owners(f) >= 1
  <2>1. PICK i \in DOMAIN descriptors : /\ canBeUsedByOS(descriptors[i].type)
                                        /\ f \in FramesOf(DescriptorRun(i), BASE_PAGE)
    BY DEF Frames
  <2>2. i \in UsableFrom(1, f)
    BY <1>0, <2>1 DEF UsableFrom
  <2> QED BY <2>2, InitOwners, Members
<1>2. ASSUME DescriptorsApart, NEW f \in Int PROVE Owners(f) <= 1
  <2>1. ASSUME NEW i \in UsableFrom(1, f), NEW j \in UsableFrom(1, f) PROVE i = j
    <3>1. /\ i \in DOMAIN descriptors /\ j \in DOMAIN descriptors
          /\ canBeUsedByOS(descriptors[i].type) /\ canBeUsedByOS(descriptors[j].type)
          /\ f \in FramesOf(DescriptorRun(i), BASE_PAGE)
          /\ f \in FramesOf(DescriptorRun(j), BASE_PAGE)
      BY <1>0 DEF UsableFrom
    <3>2. i # j => FramesOf(DescriptorRun(i), BASE_PAGE)
                     \cap FramesOf(DescriptorRun(j), BASE_PAGE) = {}
      BY <1>0, <1>2, <3>1, Zenon DEF DescriptorsApart, DescriptorRun
    <3> QED BY <3>1, <3>2
  <2> QED BY <2>1, InitOwners, Members
<1> QED BY <1>1, <1>2 DEF OwnedStill, OwnedOnce

-----------------------------------------------------------------------------
(* The owners counted are the claims *)

\* c is the number of the claims S that f is in, as far as one and two go.
Counts(S, c, f) == /\ c \in Nat /\ (c >= 1 => \E a \in S : f \in a[4])
                   /\ \A a \in S : f \in a[4] => c >= 1
                   /\ \A a, b \in S : a # b /\ f \in a[4] /\ f \in b[4] => c >= 2

LEMMA CountsUnion ==
  ASSUME NEW S, NEW T, NEW c, NEW d, NEW f, Counts(S, c, f), Counts(T, d, f)
  PROVE  Counts(S \cup T, c + d, f)
<1>1. c \in Nat /\ d \in Nat
  BY DEF Counts
<1>2. c + d \in Nat /\ (c + d >= 1 => c >= 1 \/ d >= 1) /\ (c >= 1 \/ d >= 1 => c + d >= 1)
      /\ (c >= 1 /\ d >= 1 => c + d >= 2) /\ (c >= 2 \/ d >= 2 => c + d >= 2)
  BY <1>1
<1> DEFINE e == c + d
<1>3. e \in Nat /\ (e >= 1 => c >= 1 \/ d >= 1) /\ (c >= 1 \/ d >= 1 => e >= 1)
      /\ (c >= 1 /\ d >= 1 => e >= 2) /\ (c >= 2 \/ d >= 2 => e >= 2)
  BY <1>2
<1> HIDE DEF e
<1>4. Counts(S \cup T, e, f)
  BY <1>3, Zenon DEF Counts
<1> QED BY <1>4 DEF e

\* Claims that are numbered by a finite set.
LEMMA CountsImage ==
  ASSUME NEW X, NEW g, NEW f, NEW H, H = {x \in X : f \in g[x][4]}, IsFiniteSet(H)
  PROVE  Counts({g[x] : x \in X}, Cardinality(H), f)
<1>1. /\ Cardinality(H) \in Nat /\ (Cardinality(H) >= 1 <=> H # {})
      /\ \A x, y \in H : x # y => Cardinality(H) >= 2
  BY Members
<1> DEFINE S == {g[x] : x \in X}
<1>2. ASSUME NEW a \in S, f \in a[4] PROVE \E x \in H : a = g[x]
  BY <1>2
<1>3. \A x \in H : g[x] \in S /\ f \in g[x][4]
  OBVIOUS
<1>4. H # {} => \E a \in S : f \in a[4]
  BY <1>3
<1>5. \A a \in S : f \in a[4] => H # {}
  BY <1>2
<1>6. \A a, b \in S : a # b /\ f \in a[4] /\ f \in b[4] => \E x, y \in H : x # y
  BY <1>2
<1> HIDE DEF S
<1>7. Counts(S, Cardinality(H), f)
  BY <1>1, <1>4, <1>5, <1>6 DEF Counts
<1> QED BY <1>7 DEF S

LEMMA CountsNone == \A f : Counts({}, 0, f)
BY DEF Counts

LEMMA CountsOne ==
  ASSUME NEW kind, NEW k, NEW run, NEW ps, NEW f
  PROVE  Counts({<<kind, k, 0, FramesOf(run, ps)>>}, IsIn(run, ps, f), f)
<1>1. <<kind, k, 0, FramesOf(run, ps)>>[4] = FramesOf(run, ps)
  OBVIOUS
<1>2. IsIn(run, ps, f) \in Nat /\ (IsIn(run, ps, f) >= 1 <=> f \in FramesOf(run, ps))
  BY DEF IsIn
<1> QED BY <1>1, <1>2 DEF Counts

LEMMA CountsList ==
  ASSUME NEW kind, NEW k, NEW runs \in Seq(PagedMemory), NEW ps, NEW f
  PROVE  Counts(Claim(kind, k, runs, ps), In(runs, ps, f), f)
<1> DEFINE X == DOMAIN runs
           g == [i \in X |-> <<kind, k, i, FramesOf(runs[i], ps)>>]
           H == Hits(runs, ps, f)
<1>1. \A i \in X : g[i] = <<kind, k, i, FramesOf(runs[i], ps)>> /\ g[i][4] = FramesOf(runs[i], ps)
  OBVIOUS
<1>2. Claim(kind, k, runs, ps) = {g[i] : i \in X}
  BY <1>1 DEF Claim
<1> HIDE DEF g
<1>3. H = {i \in X : f \in g[i][4]}
  BY <1>1 DEF Hits
<1>4. IsFiniteSet(H)
  BY HitsFinite
<1> HIDE DEF X, H
<1>5. Counts({g[i] : i \in X}, Cardinality(H), f)
  BY <1>3, <1>4, CountsImage
<1> QED BY <1>2, <1>5 DEF In, H

\* The runs passed to the calls.
LEMMA CountsPassed ==
  ASSUME NEW s \in Seq(Frame), NEW f
  PROVE  Counts(UNION {Claim("passed", d, s[d].pages, s[d].ps) : d \in DOMAIN s},
                InPassed(s, f), f)
<1> DEFINE L == Len(s)
           X == UNION {{d} \X DOMAIN s[L + 1 - d].pages : d \in 1 .. L}
           g == [x \in X |-> <<"passed", L + 1 - x[1], x[2],
                               FramesOf(s[L + 1 - x[1]].pages[x[2]], s[L + 1 - x[1]].ps)>>]
           H == PassedHits(s, f)
           S == UNION {Claim("passed", d, s[d].pages, s[d].ps) : d \in DOMAIN s}
<1>0. L \in Nat /\ DOMAIN s = 1 .. L
  OBVIOUS
<1>1. \A x \in X : /\ g[x] = <<"passed", L + 1 - x[1], x[2],
                               FramesOf(s[L + 1 - x[1]].pages[x[2]], s[L + 1 - x[1]].ps)>>
                   /\ g[x][4] = FramesOf(s[L + 1 - x[1]].pages[x[2]], s[L + 1 - x[1]].ps)
  OBVIOUS
<1> HIDE DEF g, L
<1>2. ASSUME NEW a \in S PROVE \E x \in X : a = g[x]
  <2>0. PICK d \in DOMAIN s : a \in Claim("passed", d, s[d].pages, s[d].ps)
    OBVIOUS
  <2>1. PICK i \in DOMAIN s[d].pages :
               a = <<"passed", d, i, FramesOf(s[d].pages[i], s[d].ps)>>
    BY <2>0 DEF Claim
  <2> DEFINE e == L + 1 - d
  <2>2. e \in 1 .. L /\ L + 1 - e = d
    BY <1>0, <2>1
  <2> HIDE DEF e
  <2>3. <<e, i>> \in X
    BY <2>1, <2>2
  <2>4. g[<<e, i>>] = a
    <3>1. <<e, i>>[1] = e /\ <<e, i>>[2] = i
      OBVIOUS
    <3> HIDE DEF X
    <3> QED BY <1>1, <2>1, <2>2, <2>3, <3>1
  <2> QED BY <2>3, <2>4
<1>3. ASSUME NEW x \in X PROVE g[x] \in S
  <2>1. PICK d \in 1 .. L : x \in {d} \X DOMAIN s[L + 1 - d].pages
    OBVIOUS
  <2>2. x[1] = d /\ x[2] \in DOMAIN s[L + 1 - d].pages
    BY <2>1
  <2> DEFINE e == L + 1 - d
  <2>3. e \in DOMAIN s
    BY <1>0, <2>1
  <2>4. g[x] = <<"passed", e, x[2], FramesOf(s[e].pages[x[2]], s[e].ps)>>
    BY <1>1, <2>2
  <2> HIDE DEF e
  <2>5. x[2] \in DOMAIN s[e].pages
    BY <2>2 DEF e
  <2>6. g[x] \in Claim("passed", e, s[e].pages, s[e].ps)
    BY <2>4, <2>5 DEF Claim
  <2> QED BY <2>3, <2>6
<1>4. S = {g[x] : x \in X}
  <2> HIDE DEF S, X
  <2> QED BY <1>2, <1>3
<1>5. H = {x \in X : f \in g[x][4]}
  <2>1. ASSUME NEW x \in H PROVE x \in X /\ f \in g[x][4]
    <3>1. PICK d \in 1 .. L : x \in {d} \X HitsOf(s[L + 1 - d], f)
      BY DEF PassedHits, L
    <3>2. x \in {d} \X DOMAIN s[L + 1 - d].pages
      BY <3>1 DEF HitsOf, Hits
    <3>3. x \in X
      BY <3>2
    <3>4. x[1] = d /\ f \in FramesOf(s[L + 1 - d].pages[x[2]], s[L + 1 - d].ps)
      BY <3>1 DEF HitsOf, Hits
    <3> HIDE DEF X
    <3> QED BY <1>1, <3>3, <3>4
  <2>2. ASSUME NEW x \in X, f \in g[x][4] PROVE x \in H
    <3>1. PICK d \in 1 .. L : x \in {d} \X DOMAIN s[L + 1 - d].pages
      OBVIOUS
    <3>2. x[1] = d /\ x[2] \in DOMAIN s[L + 1 - d].pages /\ x = <<x[1], x[2]>>
      BY <3>1
    <3>3. f \in FramesOf(s[L + 1 - d].pages[x[2]], s[L + 1 - d].ps)
      BY <1>1, <2>2, <3>2
    <3>4. x[2] \in HitsOf(s[L + 1 - d], f)
      BY <3>2, <3>3 DEF HitsOf, Hits
    <3>5. x \in {d} \X HitsOf(s[L + 1 - d], f)
      BY <3>2, <3>4
    <3> QED BY <3>5 DEF PassedHits, L
  <2> HIDE DEF X, H
  <2> QED BY <2>1, <2>2
<1>6. IsFiniteSet(H)
  BY PassedFinite
<1> HIDE DEF X, H, S
<1>7. Counts({g[x] : x \in X}, Cardinality(H), f)
  BY <1>5, <1>6, CountsImage
<1> QED BY <1>4, <1>7 DEF InPassed, H, S

\* Only the call on top has got an answer.
LEMMA CountsGot ==
  ASSUME IInv, NEW f
  PROVE  Counts(UNION {Claim("got", d, stack[d].got, GotSize(stack[d])) : d \in DOMAIN stack},
                InGot(stack, f), f)
<1> DEFINE S == UNION {Claim("got", d, stack[d].got, GotSize(stack[d])) : d \in DOMAIN stack}
<1>0. stack \in Seq(Frame) /\ DOMAIN stack = 1 .. Len(stack) /\ Len(stack) \in Nat
  BY DEF IInv, StackOK
<1>1. CASE stack = <<>>
  <2>1. S = {} /\ InGot(stack, f) = 0
    BY <1>1 DEF InGot
  <2> QED BY <2>1, CountsNone
<1>2. CASE stack # <<>>
  <2>1. 1 \in DOMAIN stack /\ stack[1] \in Frame
    BY <1>0, <1>2
  <2>2. ASSUME NEW d \in DOMAIN stack, d # 1
        PROVE  Claim("got", d, stack[d].got, GotSize(stack[d])) = {}
    <3>1. d \in 2 .. Len(stack)
      BY <1>0, <2>2
    <3>2. stack[d].got = <<>>
      BY <3>1 DEF IInv, StackOK
    <3> QED BY <3>2 DEF Claim
  <2>3. S = Claim("got", 1, stack[1].got, GotSize(stack[1]))
    BY <2>1, <2>2
  <2>4. stack[1].got \in Seq(PagedMemory)
    BY <2>1 DEF Frame
  <2>5. InGot(stack, f) = In(stack[1].got, GotSize(stack[1]), f)
    BY <1>2 DEF InGot
  <2> HIDE DEF S
  <2>6. Counts(S, InGot(stack, f), f)
    BY <2>3, <2>4, <2>5, CountsList
  <2> QED BY <2>6 DEF S
<1> QED BY <1>1, <1>2

LEMMA CountsFree ==
  ASSUME IInv, NEW f
  PROVE  Counts(UNION {Claim("free", ps, memory[ps], ps) : ps \in PageSizes}, InLists(f), f)
<1> DEFINE Of(ps) == Claim("free", ps, memory[ps], ps)
           B == Of(BASE_PAGE)
           L == Of(LARGE_PAGE)
           H == Of(HUGE_PAGE)
<1>1. UNION {Of(ps) : ps \in PageSizes} = (B \cup L) \cup H
  BY DEF PageSizes
<1>2. \A ps \in PageSizes : memory[ps] \in Seq(PagedMemory)
  BY DEF IInv, TypeOK
<1>3. /\ Counts(B, In(memory[BASE_PAGE], BASE_PAGE, f), f)
      /\ Counts(L, In(memory[LARGE_PAGE], LARGE_PAGE, f), f)
      /\ Counts(H, In(memory[HUGE_PAGE], HUGE_PAGE, f), f)
  BY <1>2, CountsList, PageSizeFacts
<1> HIDE DEF B, L, H
<1>4. Counts((B \cup L) \cup H, InLists(f), f)
  BY <1>3, CountsUnion DEF InLists
<1> QED BY <1>1, <1>4

LEMMA CountsArrays ==
  ASSUME NEW f
  PROVE  Counts({<<"array", ps, 0, FramesOf(buf[ps], BASE_PAGE)>> : ps \in PageSizes},
                InArrays(f), f)
<1> DEFINE Of(ps) == <<"array", ps, 0, FramesOf(buf[ps], BASE_PAGE)>>
           B == {Of(BASE_PAGE)}
           L == {Of(LARGE_PAGE)}
           H == {Of(HUGE_PAGE)}
<1>1. {Of(ps) : ps \in PageSizes} = (B \cup L) \cup H
  BY DEF PageSizes
<1>2. /\ Counts(B, IsIn(buf[BASE_PAGE], BASE_PAGE, f), f)
      /\ Counts(L, IsIn(buf[LARGE_PAGE], BASE_PAGE, f), f)
      /\ Counts(H, IsIn(buf[HUGE_PAGE], BASE_PAGE, f), f)
  BY CountsOne
<1> HIDE DEF B, L, H
<1>3. Counts((B \cup L) \cup H, InArrays(f), f)
  BY <1>2, CountsUnion DEF InArrays
<1> QED BY <1>1, <1>3

LEMMA CountsHeld ==
  ASSUME HeldFinite, NEW f
  PROVE  Counts({<<"held", h.ps, h.run.pageStart, FramesOf(h.run, h.ps)>> : h \in held},
                InHeld(f), f)
<1> DEFINE g == [h \in held |-> <<"held", h.ps, h.run.pageStart, FramesOf(h.run, h.ps)>>]
           H == HeldHits(f)
<1>1. \A h \in held : /\ g[h] = <<"held", h.ps, h.run.pageStart, FramesOf(h.run, h.ps)>>
                      /\ g[h][4] = FramesOf(h.run, h.ps)
  OBVIOUS
<1>2. {<<"held", h.ps, h.run.pageStart, FramesOf(h.run, h.ps)>> : h \in held}
        = {g[h] : h \in held}
  BY <1>1
<1> HIDE DEF g
<1>3. H = {h \in held : f \in g[h][4]} /\ IsFiniteSet(H)
  BY <1>1, HeldHitsFinite DEF HeldHits
<1> HIDE DEF H
<1>4. Counts({g[h] : h \in held}, Cardinality(H), f)
  BY <1>3, CountsImage
<1> QED BY <1>2, <1>4 DEF InHeld, H

LEMMA CountsMap ==
  ASSUME IInv, NEW f
  PROVE  Counts({<<"map", 0, i, FramesOf(DescriptorRun(i), BASE_PAGE)>> :
                   i \in {j \in Uncollected : Booting /\ canBeUsedByOS(descriptors[j].type)}},
                Cardinality(MapHits(f)), f)
<1> DEFINE X == {j \in Uncollected : Booting /\ canBeUsedByOS(descriptors[j].type)}
           g == [i \in X |-> <<"map", 0, i, FramesOf(DescriptorRun(i), BASE_PAGE)>>]
           H == MapHits(f)
<1>1. \A i \in X : /\ g[i] = <<"map", 0, i, FramesOf(DescriptorRun(i), BASE_PAGE)>>
                   /\ g[i][4] = FramesOf(DescriptorRun(i), BASE_PAGE)
  OBVIOUS
<1>2. {<<"map", 0, i, FramesOf(DescriptorRun(i), BASE_PAGE)>> : i \in X} = {g[i] : i \in X}
  BY <1>1
<1> HIDE DEF g
<1>3. H = {i \in X : f \in g[i][4]} /\ IsFiniteSet(H)
  BY <1>1, MapHitsAre DEF MapHits
<1> HIDE DEF H, X
<1>4. Counts({g[i] : i \in X}, Cardinality(H), f)
  BY <1>3, CountsImage
<1> QED BY <1>2, <1>4 DEF H, X

\* The claims are counted by Owners.
LEMMA ClaimsCounted ==
  ASSUME IInv, HeldFinite, NEW f
  PROVE  Counts(Claims, Owners(f), f)
<1> DEFINE C1 == UNION {Claim("free", ps, memory[ps], ps) : ps \in PageSizes}
           C2 == {<<"array", ps, 0, FramesOf(buf[ps], BASE_PAGE)>> : ps \in PageSizes}
           C3 == UNION {Claim("passed", d, stack[d].pages, stack[d].ps) : d \in DOMAIN stack}
           C4 == UNION {Claim("got", d, stack[d].got, GotSize(stack[d])) : d \in DOMAIN stack}
           C5 == Claim("result", 0, result, IF phase = "buffer" THEN BASE_PAGE ELSE pageSize)
           C6 == Claim("collected", 0, freeMemory, BASE_PAGE)
           C7 == {<<"holder", 0, 0, FramesOf(holder, BASE_PAGE)>>}
           C8 == {<<"held", h.ps, h.run.pageStart, FramesOf(h.run, h.ps)>> : h \in held}
           C9 == {<<"map", 0, i, FramesOf(DescriptorRun(i), BASE_PAGE)>> :
                    i \in {j \in Uncollected : Booting /\ canBeUsedByOS(descriptors[j].type)}}
           n6 == In(freeMemory, BASE_PAGE, f)
           n7 == IsIn(holder, BASE_PAGE, f)
           n9 == Cardinality(MapHits(f))
<1>1. Claims = C1 \cup C2 \cup C3 \cup C4 \cup C5 \cup C6 \cup C7 \cup C8 \cup C9
  BY DEF Claims
<1>2. Counts(C1, InLists(f), f) /\ Counts(C2, InArrays(f), f)
  BY CountsFree, CountsArrays
<1>3. Counts(C3, InPassed(stack, f), f) /\ Counts(C4, InGot(stack, f), f)
  <2>1. stack \in Seq(Frame)
    BY DEF IInv, StackOK
  <2> QED BY <2>1, CountsPassed, CountsGot
<1>4. Counts(C5, InResult(f), f) /\ Counts(C6, n6, f)
  <2>1. result \in Seq(PagedMemory) /\ freeMemory \in Seq(PagedMemory)
    BY DEF IInv, TypeOK
  <2>2. Counts(Claim("result", 0, result, ResultSize), In(result, ResultSize, f), f)
    BY <2>1, CountsList
  <2>3. Counts(C6, n6, f)
    BY <2>1, CountsList
  <2>4. /\ C5 = Claim("result", 0, result, ResultSize)
        /\ InResult(f) = In(result, ResultSize, f)
    BY DEF ResultSize, InResult
  <2> HIDE DEF C5, C6, n6
  <2> QED BY <2>2, <2>3, <2>4
<1>5. Counts(C7, n7, f)
  BY CountsOne
<1>6. Counts(C8, InHeld(f), f) /\ Counts(C9, n9, f)
  BY CountsHeld, CountsMap
<1>7. /\ n6 \in Nat /\ n7 \in Nat /\ n9 \in Nat /\ InHeld(f) \in Nat
      /\ InBoot(f) = n6 + n7 + n9
      /\ Owners(f) = InHand(f) + InBoot(f) + InHeld(f)
  BY OwnersType
<1>8. /\ InHand(f) = InLists(f) + InArrays(f) + InCalls(stack, f) + InResult(f)
      /\ InCalls(stack, f) = InPassed(stack, f) + InGot(stack, f)
  BY SameCounts DEF InCalls
<1>9. /\ InLists(f) \in Nat /\ InArrays(f) \in Nat /\ InPassed(stack, f) \in Nat
      /\ InGot(stack, f) \in Nat /\ InResult(f) \in Nat
  BY <1>2, <1>3, <1>4 DEF Counts
<1> HIDE DEF C1, C2, C3, C4, C5, C6, C7, C8, C9, n6, n7, n9
<1>10. Owners(f) = InLists(f) + InArrays(f) + InPassed(stack, f) + InGot(stack, f)
                   + InResult(f) + n6 + n7 + InHeld(f) + n9
  BY <1>7, <1>8, <1>9
<1>11. Counts(C1 \cup C2, InLists(f) + InArrays(f), f)
  BY <1>2, CountsUnion
<1>12. Counts(C1 \cup C2 \cup C3, InLists(f) + InArrays(f) + InPassed(stack, f), f)
  BY <1>3, <1>11, CountsUnion
<1>13. Counts(C1 \cup C2 \cup C3 \cup C4,
              InLists(f) + InArrays(f) + InPassed(stack, f) + InGot(stack, f), f)
  BY <1>3, <1>12, CountsUnion
<1>14. Counts(C1 \cup C2 \cup C3 \cup C4 \cup C5,
              InLists(f) + InArrays(f) + InPassed(stack, f) + InGot(stack, f)
                + InResult(f), f)
  BY <1>4, <1>13, CountsUnion
<1>15. Counts(C1 \cup C2 \cup C3 \cup C4 \cup C5 \cup C6,
              InLists(f) + InArrays(f) + InPassed(stack, f) + InGot(stack, f)
                + InResult(f) + n6, f)
  BY <1>4, <1>14, CountsUnion
<1>16. Counts(C1 \cup C2 \cup C3 \cup C4 \cup C5 \cup C6 \cup C7,
              InLists(f) + InArrays(f) + InPassed(stack, f) + InGot(stack, f)
                + InResult(f) + n6 + n7, f)
  BY <1>5, <1>15, CountsUnion
<1>17. Counts(C1 \cup C2 \cup C3 \cup C4 \cup C5 \cup C6 \cup C7 \cup C8,
              InLists(f) + InArrays(f) + InPassed(stack, f) + InGot(stack, f)
                + InResult(f) + n6 + n7 + InHeld(f), f)
  BY <1>6, <1>16, CountsUnion
<1>18. Counts(C1 \cup C2 \cup C3 \cup C4 \cup C5 \cup C6 \cup C7 \cup C8 \cup C9,
              InLists(f) + InArrays(f) + InPassed(stack, f) + InGot(stack, f)
                + InResult(f) + n6 + n7 + InHeld(f) + n9, f)
  BY <1>6, <1>17, CountsUnion
<1> QED BY <1>1, <1>10, <1>18

\* Claims are sets of frame numbers.
LEMMA ClaimsAreFrames ==
  ASSUME NEW a \in Claims
  PROVE  a[4] \subseteq Int
<1>1. \E run, ps : a[4] = FramesOf(run, ps)
  <2>1. ASSUME NEW kind, NEW k, NEW runs, NEW ps, a \in Claim(kind, k, runs, ps)
        PROVE  \E run, q : a[4] = FramesOf(run, q)
    BY <2>1 DEF Claim
  <2>2. CASE \E ps \in PageSizes : a \in Claim("free", ps, memory[ps], ps)
    BY <2>1, <2>2
  <2>3. CASE \E ps \in PageSizes : a = <<"array", ps, 0, FramesOf(buf[ps], BASE_PAGE)>>
    BY <2>3
  <2>4. CASE \E d \in DOMAIN stack : a \in Claim("passed", d, stack[d].pages, stack[d].ps)
    BY <2>1, <2>4
  <2>5. CASE \E d \in DOMAIN stack : a \in Claim("got", d, stack[d].got, GotSize(stack[d]))
    BY <2>1, <2>5
  <2>6. CASE \/ a \in Claim("result", 0, result,
                            IF phase = "buffer" THEN BASE_PAGE ELSE pageSize)
             \/ a \in Claim("collected", 0, freeMemory, BASE_PAGE)
    BY <2>1, <2>6
  <2>7. CASE a = <<"holder", 0, 0, FramesOf(holder, BASE_PAGE)>>
    BY <2>7
  <2>8. CASE \E h \in held : a = <<"held", h.ps, h.run.pageStart, FramesOf(h.run, h.ps)>>
    BY <2>8
  <2>9. CASE \E i : a = <<"map", 0, i, FramesOf(DescriptorRun(i), BASE_PAGE)>>
    BY <2>9
  <2> QED BY <2>2, <2>3, <2>4, <2>5, <2>6, <2>7, <2>8, <2>9, Zenon DEF Claims
<1> QED BY <1>1 DEF FramesOf

-----------------------------------------------------------------------------

\* The usable frames stay what they are, and a kernel that has stopped does not go on.
LEMMA MapStays ==
  ASSUME IInv, Next
  PROVE  Frames' = Frames /\ (~Stopped' => ~Stopped)
<1>1. CASE AllocStep \/ FreeStep \/ (GatherStep /\ ~GatherOverrun)
  <2>1. UNCHANGED topLevel
    BY <1>1 DEF AllocStep, FreeStep, GatherStep, AllocFit, AllocFromLarger, AllocSplit,
       AllocReturn, FreeStore, FreeFull, FreeGrow, FreeReturn, GatherWhole, GatherLast,
       GatherFromLarger, GatherConvert
  <2>2. UNCHANGED <<phase, descriptors>>
    BY <2>1 DEF topLevel, boot
  <2> QED BY <2>2 DEF Frames, DescriptorRun, Stopped
<1>2. CASE GatherOverrun \/ NoMorePhysicalMemory
  <2>1. UNCHANGED descriptors /\ phase' \in {"fault", "overrun"}
    BY <1>2 DEF GatherOverrun, NoMorePhysicalMemory, Stop, boot
  <2> QED BY <2>1 DEF Frames, DescriptorRun, Stopped
<1>3. CASE InitStep \/ KernelStep \/ KernelReceive
  <2>1. UNCHANGED descriptors
    BY <1>3 DEF InitStep, InitFirst, InitFault, InitCollect, InitFreeCollected, InitFreeHolder,
       InitPMM, InitBuffer, Promote, InitPMMDone, KernelStep, KernelAlloc, KernelGather,
       KernelFree, KernelReceive, Stop, boot
  <2>2. ~Stopped
    BY <1>3 DEF InitStep, InitFirst, InitFault, InitCollect, InitFreeCollected, InitFreeHolder,
       InitPMM, InitBuffer, Promote, InitPMMDone, KernelStep, KernelAlloc, KernelGather,
       KernelFree, KernelReceive, Idle, Stopped
  <2> QED BY <2>1, <2>2 DEF Frames, DescriptorRun
<1>4. CASE Halted
  <2>1. UNCHANGED <<phase, descriptors>>
    BY <1>4 DEF Halted, vars, topLevel, boot
  <2> QED BY <2>1 DEF Frames, DescriptorRun, Stopped
<1> QED BY <1>1, <1>2, <1>3, <1>4 DEF Next, Running

LEMMA OwnersNat == CountsInv => \A f : Owners(f) \in Nat
BY OwnersType DEF CountsInv, ArraysInv

LEMMA OwnersNatNext == CountsInv' => (\A f : Owners(f) \in Nat)'
BY OwnersNat, PTL

-----------------------------------------------------------------------------
(* Theorems *)

LEMMA OwnedNext ==
  ASSUME CountsInv, PromotesFromBoundary, [Next]_vars
  PROVE  (OwnedOnce => OwnedOnce') /\ (OwnedStill => OwnedStill')
<1>0. IInv /\ ArraysInv /\ ArraysCounted /\ HeldFinite
  BY DEF CountsInv, ArraysInv
<1>1. ASSUME NEW f PROVE Kept(f)
  BY <1>0, NextKept, StutterKept
<1>2. /\ OnlyBaseGrew' => OnlyBaseGrew
      /\ Frames' = Frames /\ (~Stopped' => ~Stopped)
  <2>1. CASE Next
    BY <1>0, <2>1, CountsGrow, MapStays
  <2>2. CASE UNCHANGED vars
    <3>1. UNCHANGED <<usedBasePages, phase, descriptors>>
      BY <2>2 DEF vars, managers, topLevel, boot
    <3> QED BY <3>1 DEF OnlyBaseGrew, Frames, DescriptorRun, Stopped
  <2> QED BY <2>1, <2>2
<1>3. CountsInv'
  BY NextCounts
<1>4. ASSUME NEW f PROVE Owners(f) \in Nat /\ Owners(f)' \in Nat
  BY <1>0, <1>3, OwnersNat, OwnersNatNext
<1>5. ASSUME OwnedOnce, OnlyBaseGrew', NEW f \in Int PROVE Owners(f)' <= 1
  <2>1. Owners(f) <= 1
    BY <1>2, <1>5 DEF OwnedOnce
  <2>2. Owners(f)' <= Owners(f)
    BY <1>1, <1>5 DEF Kept
  <2> QED BY <1>4, <2>1, <2>2
<1>6. ASSUME OwnedStill, ~Stopped', NEW f \in Frames PROVE Owners(f)' >= 1
  <2>1. Owners(f) >= 1
    BY <1>2, <1>6 DEF OwnedStill
  <2> QED BY <1>1, <1>6, <2>1 DEF Kept
<1>7. OwnedOnce => OwnedOnce'
  BY <1>5 DEF OwnedOnce
<1>8. OwnedStill => OwnedStill'
  BY <1>2, <1>6 DEF OwnedStill
<1> QED BY <1>7, <1>8

\* No frame is owned twice, for every memory map that describes no frame twice and
\* every sequence of calls of allocContiguousPhysicalPages, allocPhysicalPages and
\* freePhysicalPages, as long as initPMM promotes no run that starts off a boundary
\* of the larger page size: not by two free runs, nor by a free run and the array
\* of a list, a run on its way through a call, or a run the kernel holds.
THEOREM NoFrameOwnedTwice ==
  ASSUME DescriptorsApart
  PROVE  Spec /\ []PromotesFromBoundary => []SingleOwner
<1> DEFINE Inv == CountsInv /\ OwnedOnce
<1>1. Init => Inv
  BY InitCounts, InitOwned
<1>2. Inv /\ PromotesFromBoundary /\ [Next]_vars => Inv'
  BY NextCounts, OwnedNext
<1>3. Inv => SingleOwner
  <2> SUFFICES ASSUME CountsInv, OwnedOnce, OnlyBaseGrew, NEW a \in Claims, NEW b \in Claims,
                      a # b, NEW f \in a[4] \cap b[4]
               PROVE  FALSE
    BY DEF SingleOwner
  <2>1. IInv /\ HeldFinite
    BY DEF CountsInv, ArraysInv
  <2>2. f \in Int
    BY ClaimsAreFrames
  <2>3. Owners(f) \in Nat /\ Owners(f) >= 2
    BY <2>1, ClaimsCounted DEF Counts
  <2>4. Owners(f) <= 1
    BY <2>2 DEF OwnedOnce
  <2> QED BY <2>3, <2>4
<1> HIDE DEF Inv
<1> QED BY <1>1, <1>2, <1>3, PTL DEF Spec

\* No usable frame is lost, for every memory map and every sequence of calls, under
\* the same condition on initPMM: booting, splitting larger pages, moving a list and
\* freeing leave every frame with the managers, in a call, or with the kernel.
THEOREM NoFrameLost == Spec /\ []PromotesFromBoundary => []NothingLost
<1> DEFINE Inv == CountsInv /\ OwnedStill
<1>1. Init => Inv
  BY InitCounts, InitOwned
<1>2. Inv /\ PromotesFromBoundary /\ [Next]_vars => Inv'
  BY NextCounts, OwnedNext
<1>3. Inv => NothingLost
  <2> SUFFICES ASSUME CountsInv, OwnedStill, ~Stopped, NEW f \in Frames
               PROVE  \E a \in Claims : f \in a[4]
    BY DEF NothingLost, Stopped
  <2>1. IInv /\ HeldFinite
    BY DEF CountsInv, ArraysInv
  <2>2. Owners(f) >= 1
    BY DEF OwnedStill
  <2> QED BY <2>1, <2>2, ClaimsCounted DEF Counts
<1> HIDE DEF Inv
<1> QED BY <1>1, <1>2, <1>3, PTL DEF Spec
=============================================================================
