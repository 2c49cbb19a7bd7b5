------------------------ MODULE VirtualMemoryProofs ------------------------
(***************************************************************************)
(* The virtual memory manager, for every number of entries, page size,     *)
(* memory and sequence of calls: every page in use is translated to its    *)
(* own frames, and no frame has two uses or is lost, but for the memory    *)
(* the kernel runs on since the loader, which the code counts as free.     *)
(***************************************************************************)
EXTENDS VirtualMemory, TLAPS, FiniteSetTheorems, NaturalsInduction, WellFoundedInduction

-----------------------------------------------------------------------------
(* Division and boundaries *)

\* Euclid's division, as % and \div round.
LEMMA DivisionFacts ==
  ASSUME NEW x \in Nat, NEW a \in Nat \ {0}
  PROVE  /\ x % a \in 0 .. a - 1 /\ x \div a \in Nat
         /\ x = a * (x \div a) + (x % a)
<1>1. x % a \in 0 .. a - 1 /\ x \div a \in Int /\ x = a * (x \div a) + (x % a)
  BY SMT
<1>2. x \div a >= 0
  BY SMT
<1> QED BY <1>1, <1>2

\* A product grows with its factor.
LEMMA ProductsGrow ==
  ASSUME NEW a \in Nat, NEW k \in Nat, NEW m \in Nat, k <= m
  PROVE  a * k \in Nat /\ a * m \in Nat /\ a * k <= a * m
<1>1. PICK d \in Nat : m = k + d
  BY m - k \in Nat, m = k + (m - k)
<1>2. a * m = a * k + a * d /\ a * k \in Nat /\ a * d \in Nat
  BY <1>1, SMT
<1> QED BY <1>1, <1>2

\* The quotient is the only number that brackets x between two multiples.
LEMMA QuotientIs ==
  ASSUME NEW x \in Nat, NEW a \in Nat \ {0}, NEW q \in Nat, a * q <= x, x < a * q + a
  PROVE  x \div a = q
<1> DEFINE d == x \div a
           r == x % a
<1>1. d \in Nat /\ r \in 0 .. a - 1 /\ x = a * d + r
  BY DivisionFacts
<1> HIDE DEF d, r
<1>2. ASSUME d + 1 <= q PROVE FALSE
  <2>1. a * (d + 1) <= a * q /\ a * (d + 1) = a * d + a /\ a * d \in Nat /\ a * q \in Nat
    BY <1>1, <1>2, ProductsGrow
  <2> QED BY <1>1, <2>1
<1>3. ASSUME q + 1 <= d PROVE FALSE
  <2>1. a * (q + 1) <= a * d /\ a * (q + 1) = a * q + a /\ a * d \in Nat /\ a * q \in Nat
    BY <1>1, <1>3, ProductsGrow
  <2> QED BY <1>1, <2>1
<1>4. d = q
  BY <1>1, <1>2, <1>3
<1> QED BY <1>4 DEF d

LEMMA Bracket ==
  ASSUME NEW x \in Nat, NEW a \in Nat \ {0}
  PROVE  /\ x \div a \in Nat /\ a * (x \div a) \in Nat
         /\ a * (x \div a) <= x /\ x < a * (x \div a) + a
<1> DEFINE d == x \div a
           r == x % a
<1>1. d \in Nat /\ r \in 0 .. a - 1 /\ x = a * d + r
  BY DivisionFacts
<1> HIDE DEF d, r
<1>2. a * d \in Nat
  BY <1>1
<1>3. a * d <= x /\ x < a * d + a
  BY <1>1, <1>2
<1> QED BY <1>1, <1>2, <1>3 DEF d

\* Dividing by a product is dividing twice.
LEMMA NestedDiv ==
  ASSUME NEW x \in Nat, NEW c \in Nat \ {0}, NEW e \in Nat \ {0}
  PROVE  x \div (c * e) = (x \div c) \div e
<1> DEFINE q == x \div c
           p == q \div e
           m == c * e
<1>1. q \in Nat /\ c * q \in Nat /\ c * q <= x /\ x < c * q + c
  BY Bracket
<1>2. p \in Nat /\ e * p \in Nat /\ e * p <= q /\ q < e * p + e
  <2> HIDE DEF q
  <2> QED BY <1>1, Bracket DEF p
<1> HIDE DEF q, p
<1>3. m \in Nat \ {0}
  BY SMT
<1>4. m * p = c * (e * p) /\ c * (e * p) <= c * q
  <2>1. c * (e * p) <= c * q
    BY <1>1, <1>2, ProductsGrow
  <2>2. m * p = c * (e * p)
    BY <1>2, SMT
  <2> QED BY <2>1, <2>2
<1>5. c * (q + 1) <= c * (e * p + e)
  BY <1>1, <1>2, ProductsGrow
<1>6. c * (q + 1) = c * q + c /\ c * (e * p + e) = m * p + m
  BY <1>1, <1>2, SMT
<1> HIDE DEF m
<1>7. m * p \in Nat
  BY <1>3, <1>2
<1>8. m * p <= x /\ x < m * p + m
  BY <1>1, <1>3, <1>4, <1>5, <1>6, <1>7
<1>9. x \div m = p
  BY <1>2, <1>3, <1>8, QuotientIs
<1> QED BY <1>9 DEF m, p, q

LEMMA Multiple ==
  ASSUME NEW a \in Nat, NEW d \in Nat \ {0}
  PROVE  a % d = 0 <=> \E q \in Nat : a = d * q
<1> DEFINE q == a \div d
           r == a % d
<1>1. q \in Nat /\ r \in 0 .. d - 1 /\ a = d * q + r
  BY DivisionFacts
<1>2. ASSUME r = 0 PROVE \E p \in Nat : a = d * p
  <2> HIDE DEF q, r
  <2>1. a = d * q
    BY <1>1, <1>2
  <2> QED BY <1>1, <2>1
<1>3. ASSUME NEW p \in Nat, a = d * p PROVE r = 0
  <2>1. q = p
    <3> HIDE DEF r
    <3>1. d * p <= a /\ a < d * p + d
      BY <1>3
    <3> QED BY <1>3, <3>1, QuotientIs
  <2> HIDE DEF q, r
  <2>2. a = a + r
    BY <1>1, <1>3, <2>1
  <2> QED BY <1>1, <2>2
<1> QED BY <1>2, <1>3 DEF r

\* Whole pages further on is a boundary again.
LEMMA FurtherOn ==
  ASSUME NEW a \in Nat, NEW k \in Nat, NEW d \in Nat \ {0}, a % d = 0
  PROVE  a + k * d \in Nat /\ (a + k * d) % d = 0
<1>1. PICK q \in Nat : a = d * q
  BY Multiple
<1>2. a + k * d = d * (q + k) /\ q + k \in Nat /\ k * d \in Nat
  BY <1>1
<1> DEFINE b == a + k * d
<1>3. b \in Nat /\ \E p \in Nat : b = d * p
  BY <1>2
<1> HIDE DEF b
<1>4. b % d = 0
  BY <1>3, Multiple
<1> QED BY <1>3, <1>4 DEF b

LEMMA NextBoundary ==
  ASSUME NEW a \in Nat, NEW d \in Nat \ {0}, a % d = 0
  PROVE  (a + d) % d = 0
<1>1. \A k \in Nat : (a + k * d) % d = 0
  BY FurtherOn
<1>2. (a + 1 * d) % d = 0
  BY <1>1
<1>3. a + 1 * d = a + d
  OBVIOUS
<1> QED BY <1>2, <1>3

\* A boundary of the larger page size is one of the smaller.
LEMMA SmallerBoundary ==
  ASSUME NEW a \in Nat, NEW c \in Nat \ {0}, NEW e \in Nat \ {0}, a % (c * e) = 0
  PROVE  a % c = 0
<1> DEFINE m == c * e
<1>1. m \in Nat \ {0}
  BY SMT
<1>2. PICK q \in Nat : a = m * q
  <2> HIDE DEF m
  <2>1. a % m = 0
    BY DEF m
  <2> QED BY <1>1, <2>1, Multiple
<1>3. a = c * (e * q) /\ e * q \in Nat
  BY <1>2, SMT
<1> QED BY <1>3, Multiple

\* Two boundaries are a page apart.
LEMMA BoundariesApart ==
  ASSUME NEW a \in Nat, NEW b \in Nat, NEW d \in Nat \ {0}, a % d = 0, b % d = 0, a < b
  PROVE  a + d <= b
<1>1. PICK q \in Nat : a = d * q
  BY Multiple
<1>2. PICK p \in Nat : b = d * p
  BY Multiple
<1>3. q + 1 <= p
  <2> SUFFICES ASSUME p <= q PROVE FALSE
    OBVIOUS
  <2>1. d * p <= d * q
    BY ProductsGrow
  <2> QED BY <1>1, <1>2, <2>1
<1>4. d * (q + 1) <= d * p /\ d * (q + 1) = d * q + d
  BY <1>3, ProductsGrow
<1> QED BY <1>1, <1>2, <1>4

\* A page begins at its number, and ends before the next one's.
LEMMA BeginsAtSlot ==
  ASSUME NEW a \in Nat, NEW d \in Nat \ {0}, a % d = 0
  PROVE  (a \div d) * d = a /\ d * (a \div d) = a
<1>1. a \div d \in Nat /\ a = d * (a \div d) + (a % d)
  BY DivisionFacts
<1> DEFINE q == a \div d
<1>2. q \in Nat /\ a = d * q + 0
  BY <1>1
<1> HIDE DEF q
<1>3. q * d = a /\ d * q = a
  BY <1>2
<1> QED BY <1>3 DEF q

\* The addresses inside a page have the page's number.
LEMMA InsidePage ==
  ASSUME NEW a \in Nat, NEW b \in Nat, NEW d \in Nat \ {0}, a % d = 0, a <= b, b < a + d
  PROVE  b \div d = a \div d
<1> DEFINE q == a \div d
<1>1. q \in Nat /\ d * q = a
  BY BeginsAtSlot, DivisionFacts
<1> HIDE DEF q
<1>2. b \div d = q
  BY <1>1, QuotientIs
<1> QED BY <1>2 DEF q

\* Rounding up goes up to a boundary, by less than a page.
LEMMA RoundsUp ==
  ASSUME NEW x \in Nat, NEW a \in Nat \ {0}
  PROVE  /\ AlignUp(x, a) \in Nat /\ AlignUp(x, a) % a = 0
         /\ x <= AlignUp(x, a) /\ AlignUp(x, a) < x + a
<1> DEFINE y == x + a - 1
           q == y \div a
           z == q * a
<1>1. y \in Nat
  OBVIOUS
<1>2. q \in Nat /\ a * q \in Nat /\ a * q <= y /\ y < a * q + a
  <2> HIDE DEF y
  <2> QED BY <1>1, Bracket
<1>3. AlignUp(x, a) = z
  BY DEF AlignUp
<1> HIDE DEF q
<1>4. z = a * q
  BY <1>2
<1>5. z \in Nat /\ z % a = 0
  <2> HIDE DEF z
  <2> QED BY <1>2, <1>4, Multiple
<1>6. x <= z /\ z < x + a
  <2> HIDE DEF z
  <2> QED BY <1>2, <1>4
<1> HIDE DEF z
<1> QED BY <1>3, <1>5, <1>6

\* Rounding up a boundary stays, and rounding up inside a page goes to its end.
LEMMA RoundsTo ==
  ASSUME NEW p \in Nat, NEW x \in Nat, NEW a \in Nat \ {0}, p % a = 0, p <= x, x < p + a
  PROVE  AlignUp(x, a) = IF x = p THEN p ELSE p + a
<1> DEFINE z == AlignUp(x, a)
<1>1. z \in Nat /\ z % a = 0 /\ x <= z /\ z < x + a
  BY RoundsUp
<1> HIDE DEF z
<1>2. (p + a) % a = 0 /\ p + a \in Nat
  <2>1. (p + a) % a = 0
    BY NextBoundary
  <2> QED BY <2>1
<1>3. CASE x = p
  <2>1. ~(p < z)
    <3> SUFFICES ASSUME p < z PROVE FALSE
      OBVIOUS
    <3>1. p + a <= z
      BY <1>1, BoundariesApart
    <3> QED BY <1>1, <1>3, <3>1
  <2> QED BY <1>1, <1>3, <2>1 DEF z
<1>4. CASE x # p
  <2>1. p < z
    BY <1>1, <1>4
  <2>2. p + a <= z
    BY <1>1, <2>1, BoundariesApart
  <2>3. ~(p + a < z)
    <3> SUFFICES ASSUME p + a < z PROVE FALSE
      OBVIOUS
    <3>1. p + a + a <= z
      BY <1>1, <1>2, BoundariesApart
    <3> QED BY <1>1, <3>1
  <2>4. z = p + a
    BY <1>1, <2>2, <2>3
  <2> QED BY <1>4, <2>4 DEF z
<1> QED BY <1>3, <1>4

-----------------------------------------------------------------------------
(* The inductive invariant *)

\* The entries an address is translated by: at the root, and one level down each.
E0(v) == Read(ROOT, Index(v, 0))
E1(v) == Read(E0(v).frame, Index(v, 1))
E2(v) == Read(E1(v).frame, Index(v, 2))
E3(v) == Read(E2(v).frame, Index(v, 3))

\* The page found is the one of the first extended entry, or of the last.
Found(v) ==
  IF E1(v).extended THEN [phys |-> E1(v).frame, size |-> HUGE_PAGE]
  ELSE IF E2(v).extended THEN [phys |-> E2(v).frame, size |-> LARGE_PAGE]
  ELSE [phys |-> E3(v).frame, size |-> BASE_PAGE]

\* The number of what an entry at a level covers, among all at that level.
Slot(v, level) == v \div Covers(level)

\* The addresses from here on have never been mapped.
Frontier == IF pc = "map" THEN job.virt ELSE start

\* Not all of what an entry covers is among the addresses handed out.
Outside(slot, level) == slot * Covers(level) < START \/ END < (slot + 1) * Covers(level)

\* A table is there for an address that has been mapped, or is about to be, by the
\* kernel or by the loader.
Needed(slot, level) ==
  \/ Outside(slot, level) \/ slot * Covers(level) < Frontier
  \/ pc = "map" /\ slot * Covers(level) = job.virt /\ job.size < Covers(level)

\* An entry for a base page as the loader wrote it: the page is where it was, or
\* behind the addresses handed out.
ByLoader(e, level, slot) ==
  /\ level = 3
  /\ \/ END <= slot * BASE_PAGE
     \/ slot * BASE_PAGE < START /\ e = [frame |-> slot * BASE_PAGE, extended |-> FALSE]

\* An entry is empty, leads to the table for what it covers, or was written for a
\* page: by the loader, or else all it covers is behind.
EntryOK(place, t, i) ==
  LET e == table[t][i]
      level == place[t].level
      slot == place[t].region * ENTRIES + i
  IN \/ e = NONE
     \/ /\ level < 3 /\ ~e.extended /\ e.frame \in DOMAIN table
        /\ place[e.frame] = [level |-> level + 1, region |-> slot]
        /\ Needed(slot, level)
     \/ (level = 3 \/ e.extended) /\ (slot + 1) * Covers(level) <= Frontier
     \/ ByLoader(e, level, slot)

\* The tables are a tree: each has its level and the one region it is for.
Places == [level : 0 .. 3, region : Nat]
Placed(place) ==
  /\ place \in [DOMAIN table -> Places]
  /\ ROOT \in DOMAIN table /\ place[ROOT] = [level |-> 0, region |-> 0]
  /\ \A t \in DOMAIN table, i \in 0 .. ENTRIES - 1 : EntryOK(place, t, i)
  /\ pc = "map" => place[walk.table] = [level |-> walk.level,
                                        region |-> Slot(job.virt, walk.level) \div ENTRIES]

\* What is mapped before the addresses handed out is the screen, where it is.
InPlace == job.virt < START =>
  /\ job.size = BASE_PAGE
  /\ \A i \in DOMAIN job.pages : job.pages[i] = job.virt + (i - 1) * BASE_PAGE

\* The mapping in progress, and how far its walk has come.
MapOK == pc = "map" =>
  /\ InPlace
  /\ job \in [virt : Nat, pages : Seq(Nat), size : pageSizes]
  /\ job.virt % job.size = 0 /\ job.pages # <<>>
  /\ job.virt + Len(job.pages) * job.size <= start
  /\ walk \in [table : DOMAIN table, level : 0 .. pageSizeToDepth(job.size) - 1]
WalkOK == pc = "map" =>
  /\ walk.level = 0 => walk.table = ROOT
  /\ walk.level = 1 => walk.table = E0(job.virt).frame
  /\ walk.level = 2 => walk.table = E1(job.virt).frame /\ ~E1(job.virt).extended
  /\ walk.level = 3 => /\ walk.table = E2(job.virt).frame
                       /\ ~E1(job.virt).extended /\ ~E2(job.virt).extended

\* The memory on its way into a mapping or back to the physical memory manager.
InJob ==
  IF pc = "map" THEN UNION {Pages(job.pages[i], job.size) : i \in DOMAIN job.pages}
  ELSE IF pc = "free" THEN Pages(job.run.phys, job.run.number * job.run.size)
  ELSE {}

\* The pages a mapping has still to map: aligned, none of them twice, and from the
\* physical memory manager unless they are the screen's.
PagesTaken == pc = "map" =>
  /\ \A i \in DOMAIN job.pages :
       /\ job.pages[i] \in RAM \cup SCREEN /\ job.pages[i] % job.size = 0
       /\ \/ Pages(job.pages[i], job.size) \subseteq RAM
          \/ job.virt + Len(job.pages) * job.size <= START
  /\ \A i, j \in DOMAIN job.pages : i # j => job.pages[i] # job.pages[j]

\* The pages mapped: where they may be, and at addresses of their own.
FramesOf(p) == Pages(p.phys, p.size)
MappedPages == [virt : Nat, phys : RAM \cup SCREEN, size : pageSizes]
WellMapped(mapped, frontier) ==
  /\ mapped \subseteq MappedPages
  /\ \A p \in mapped : /\ p.virt % p.size = 0 /\ p.virt + p.size <= frontier
                       /\ p.virt >= START => FramesOf(p) \subseteq RAM
  /\ \A p, q \in mapped : p # q => p.virt + p.size <= q.virt \/ q.virt + q.size <= p.virt
FoundAll(mapped) == \A p \in mapped : Found(p.virt) = [phys |-> p.phys, size |-> p.size]

\* No frame is free, a table, in a job or in a page mapped, and another of these, but
\* for the free ones the kernel runs on; and each of the memory is one.
Apart(unused, tables, inJob, mapped) ==
  /\ tables \cap unused \subseteq KernelFrames
  /\ inJob \cap unused = {} /\ inJob \cap tables = {} /\ inJob \cap KernelFrames = {}
  /\ \A p \in mapped : /\ FramesOf(p) \cap unused = {} /\ FramesOf(p) \cap tables = {}
                       /\ FramesOf(p) \cap inJob = {} /\ FramesOf(p) \cap KernelFrames = {}
  /\ \A p, q \in mapped : p # q => FramesOf(p) \cap FramesOf(q) = {}
Kept(unused, tables, inJob, mapped) ==
  \A f \in RAM : \/ f \in unused \/ f \in tables \/ f \in inJob
                 \/ \E p \in mapped : f \in FramesOf(p)

\* freeMapped has still to collect what is mapped from where it is to its end.
Ahead(rest, at, end) ==
  /\ \A g \in rest : at <= g.virt /\ g.virt < end /\ START <= g.virt
  /\ \A b \in at .. end - 1 : \E g \in rest : g.virt <= b /\ b < g.virt + g.size
Runs == [phys : Nat, number : Nat, size : pageSizes]
FreeOK(rest) ==
  /\ pc # "free" => rest = {}
  /\ pc = "free" =>
       /\ job \in [at : Nat, end : Nat, run : Runs]
       /\ InJob \subseteq RAM /\ Ahead(rest, job.at, job.end) /\ live \cap rest = {}

Tree == \E place : Placed(place)
MemoryOK(rest) ==
  /\ WellMapped(live \cup rest, Frontier) /\ FoundAll(live \cup rest)
  /\ Apart(free, DOMAIN table, InJob, live \cup rest)
  /\ Kept(free, DOMAIN table, InJob, live \cup rest)
  /\ FreeOK(rest)

IInv == /\ TypeOK /\ NeverCorrupt /\ MapOK /\ WalkOK /\ Tree /\ PagesTaken
        /\ \E rest : MemoryOK(rest)

-----------------------------------------------------------------------------
(* Page sizes, and what the entries of a level cover *)

LEMMA PageFacts ==
  /\ ENTRIES \in Nat \ {0, 1}
  /\ BASE_PAGE \in Nat \ {0} /\ LARGE_PAGE \in Nat \ {0}
  /\ HUGE_PAGE \in Nat \ {0} /\ JUMBO_PAGE_SIZE \in Nat \ {0}
  /\ LARGE_PAGE = BASE_PAGE * ENTRIES /\ HUGE_PAGE = LARGE_PAGE * ENTRIES
  /\ JUMBO_PAGE_SIZE = HUGE_PAGE * ENTRIES
  /\ BASE_PAGE < LARGE_PAGE /\ LARGE_PAGE < HUGE_PAGE /\ HUGE_PAGE < JUMBO_PAGE_SIZE
<1>1. ASSUME NEW c \in Nat \ {0}, NEW e \in Nat \ {0, 1}
      PROVE  c * e \in Nat \ {0} /\ c < c * e
  <2>1. c * 2 <= c * e /\ c * e \in Nat
    BY ProductsGrow
  <2> QED BY <2>1
<1>2. ENTRIES \in Nat \ {0, 1} /\ BASE_PAGE \in Nat \ {0}
  BY RegionAssumption DEF BASE_PAGE
<1>3. LARGE_PAGE \in Nat \ {0} /\ BASE_PAGE < LARGE_PAGE
  BY <1>1, <1>2 DEF LARGE_PAGE
<1>4. HUGE_PAGE \in Nat \ {0} /\ LARGE_PAGE < HUGE_PAGE
  BY <1>1, <1>2, <1>3 DEF HUGE_PAGE
<1>5. JUMBO_PAGE_SIZE \in Nat \ {0} /\ HUGE_PAGE < JUMBO_PAGE_SIZE
  BY <1>1, <1>2, <1>4 DEF JUMBO_PAGE_SIZE
<1>6. /\ LARGE_PAGE = BASE_PAGE * ENTRIES /\ HUGE_PAGE = LARGE_PAGE * ENTRIES
      /\ JUMBO_PAGE_SIZE = HUGE_PAGE * ENTRIES
  BY DEF LARGE_PAGE, HUGE_PAGE, JUMBO_PAGE_SIZE
<1> QED BY <1>2, <1>3, <1>4, <1>5, <1>6

LEMMA CoversFacts ==
  /\ Covers(0) = JUMBO_PAGE_SIZE /\ Covers(1) = HUGE_PAGE
  /\ Covers(2) = LARGE_PAGE /\ Covers(3) = BASE_PAGE
  /\ \A level \in 0 .. 3 : Covers(level) \in Nat \ {0}
<1>1. /\ Covers(0) = JUMBO_PAGE_SIZE /\ Covers(1) = HUGE_PAGE
      /\ Covers(2) = LARGE_PAGE /\ Covers(3) = BASE_PAGE
  BY DEF Covers
<1>2. ASSUME NEW level \in 0 .. 3 PROVE Covers(level) \in Nat \ {0}
  <2>1. level = 0 \/ level = 1 \/ level = 2 \/ level = 3
    OBVIOUS
  <2> QED BY <1>1, <2>1, PageFacts
<1> QED BY <1>1, <1>2

\* The size of a page is what the entries of its level cover.
LEMMA SizeFacts ==
  ASSUME NEW size \in pageSizes
  PROVE  /\ size \in Nat \ {0}
         /\ pageSizeToDepth(size) - 1 \in 1 .. 3
         /\ Covers(pageSizeToDepth(size) - 1) = size
         /\ pageSizeToDepth(size) - 1 = 3 <=> size = BASE_PAGE
         /\ pageSizeToDepth(size) - 1 = 2 <=> size = LARGE_PAGE
         /\ pageSizeToDepth(size) - 1 = 1 <=> size = HUGE_PAGE
         /\ \A level \in 0 .. 3 : level < pageSizeToDepth(size) - 1 => size < Covers(level)
<1> USE PageFacts, CoversFacts
<1>0. BASE_PAGE # LARGE_PAGE /\ BASE_PAGE # HUGE_PAGE /\ LARGE_PAGE # HUGE_PAGE
  OBVIOUS
<1>1. size = BASE_PAGE \/ size = LARGE_PAGE \/ size = HUGE_PAGE
  BY DEF pageSizes
<1>2. /\ size = BASE_PAGE => pageSizeToDepth(size) = 4
      /\ size = LARGE_PAGE => pageSizeToDepth(size) = 3
      /\ size = HUGE_PAGE => pageSizeToDepth(size) = 2
  BY <1>0 DEF pageSizeToDepth
<1>3. ASSUME NEW level \in 0 .. 3, level < pageSizeToDepth(size) - 1
      PROVE  size < Covers(level)
  <2>1. level = 0 \/ level = 1 \/ level = 2 \/ level = 3
    OBVIOUS
  <2>2. CASE size = BASE_PAGE
    BY <1>2, <1>3, <2>1, <2>2
  <2>3. CASE size = LARGE_PAGE
    BY <1>2, <1>3, <2>1, <2>3
  <2>4. CASE size = HUGE_PAGE
    BY <1>2, <1>3, <2>1, <2>4
  <2> QED BY <1>1, <2>2, <2>3, <2>4
<1>4. CASE size = BASE_PAGE
  BY <1>0, <1>2, <1>3, <1>4
<1>5. CASE size = LARGE_PAGE
  BY <1>0, <1>2, <1>3, <1>5
<1>6. CASE size = HUGE_PAGE
  BY <1>0, <1>2, <1>3, <1>6
<1> QED BY <1>1, <1>4, <1>5, <1>6

\* A page begins on a boundary of base pages.
LEMMA BaseBoundary ==
  ASSUME NEW x \in Nat, NEW size \in pageSizes, x % size = 0
  PROVE  x % BASE_PAGE = 0
<1> USE PageFacts
<1>1. x % LARGE_PAGE = 0 => x % BASE_PAGE = 0
  BY SmallerBoundary
<1>2. x % HUGE_PAGE = 0 => x % LARGE_PAGE = 0
  BY SmallerBoundary
<1> QED BY <1>1, <1>2 DEF pageSizes

\* What an entry covers is one of the parts of what its table is for.
LEMMA SlotsNest ==
  ASSUME NEW v \in Nat
  PROVE  /\ \A level \in 0 .. 3 : Slot(v, level) \in Nat
         /\ \A level \in 0 .. 2 : Slot(v, level) = Slot(v, level + 1) \div ENTRIES
<1> USE PageFacts, CoversFacts
<1>0. ENTRIES \in Nat \ {0}
  OBVIOUS
<1>1. ASSUME NEW level \in 0 .. 3 PROVE Slot(v, level) \in Nat
  BY DivisionFacts DEF Slot
<1>2. /\ v \div JUMBO_PAGE_SIZE = (v \div HUGE_PAGE) \div ENTRIES
      /\ v \div HUGE_PAGE = (v \div LARGE_PAGE) \div ENTRIES
      /\ v \div LARGE_PAGE = (v \div BASE_PAGE) \div ENTRIES
  <2>1. v \div (HUGE_PAGE * ENTRIES) = (v \div HUGE_PAGE) \div ENTRIES
    BY <1>0, NestedDiv, Zenon
  <2>2. v \div (LARGE_PAGE * ENTRIES) = (v \div LARGE_PAGE) \div ENTRIES
    BY <1>0, NestedDiv, Zenon
  <2>3. v \div (BASE_PAGE * ENTRIES) = (v \div BASE_PAGE) \div ENTRIES
    BY <1>0, NestedDiv, Zenon
  <2> QED BY <2>1, <2>2, <2>3, Zenon
<1>3. ASSUME NEW level \in 0 .. 2
      PROVE  Slot(v, level) = Slot(v, level + 1) \div ENTRIES
  <2>1. level = 0 \/ level = 1 \/ level = 2
    OBVIOUS
  <2> QED BY <1>2, <2>1 DEF Slot
<1> QED BY <1>1, <1>3

LEMMA IndexFacts ==
  ASSUME NEW v \in Nat, NEW level \in 0 .. 3
  PROVE  /\ Index(v, level) \in 0 .. ENTRIES - 1
         /\ Index(v, level) = Slot(v, level) % ENTRIES
         /\ Slot(v, level) \div ENTRIES \in Nat
         /\ (Slot(v, level) \div ENTRIES) * ENTRIES + Index(v, level) = Slot(v, level)
<1> DEFINE s == Slot(v, level)
           q == s \div ENTRIES
           r == s % ENTRIES
<1>1. s \in Nat
  BY SlotsNest
<1>2. Index(v, level) = r
  BY DEF Index, Slot
<1>3. q \in Nat /\ r \in 0 .. ENTRIES - 1 /\ s = ENTRIES * q + r
  <2> HIDE DEF s
  <2> QED BY <1>1, PageFacts, DivisionFacts
<1> HIDE DEF s, q, r
<1>4. q * ENTRIES + r = s
  BY <1>1, <1>3, PageFacts
<1> QED BY <1>2, <1>3, <1>4 DEF s, q, r

\* An address is in what its entry covers.
LEMMA SlotBounds ==
  ASSUME NEW v \in Nat, NEW level \in 0 .. 3
  PROVE  /\ Slot(v, level) * Covers(level) \in Nat
         /\ Slot(v, level) * Covers(level) <= v
         /\ v < (Slot(v, level) + 1) * Covers(level)
         /\ (Slot(v, level) + 1) * Covers(level) = Slot(v, level) * Covers(level) + Covers(level)
<1> DEFINE s == Slot(v, level)
           c == Covers(level)
<1>1. c \in Nat \ {0}
  BY CoversFacts
<1>2. s \in Nat /\ c * s \in Nat /\ c * s <= v /\ v < c * s + c
  <2> HIDE DEF c
  <2> QED BY <1>1, Bracket DEF s, c, Slot
<1> HIDE DEF s, c
<1>3. s * c = c * s /\ (s + 1) * c = c * s + c
  BY <1>1, <1>2
<1> QED BY <1>1, <1>2, <1>3 DEF s, c

\* The root is for all the addresses that are handed out.
LEMMA RootRegion ==
  ASSUME NEW v \in Nat, v < END
  PROVE  Slot(v, 0) \div ENTRIES = 0
<1> USE PageFacts, CoversFacts
<1> DEFINE m == JUMBO_PAGE_SIZE * ENTRIES
<1>1. m \in Nat \ {0} /\ ENTRIES * JUMBO_PAGE_SIZE = m
  BY SMT
<1>2. v \div m = (v \div JUMBO_PAGE_SIZE) \div ENTRIES
  <2>1. ENTRIES \in Nat \ {0}
    OBVIOUS
  <2> QED BY <2>1, NestedDiv, Zenon
<1> HIDE DEF m
<1>3. v < m
  BY <1>1, RegionAssumption
<1>4. v \div m = 0
  <2>1. m * 0 <= v /\ v < m * 0 + m
    BY <1>1, <1>3
  <2> QED BY <1>1, <2>1, QuotientIs
<1> QED BY <1>2, <1>4 DEF Slot

\* Two addresses of one slot share the slots of the levels above, and their indices.
LEMMA SameAbove ==
  ASSUME NEW v \in Nat, NEW w \in Nat, NEW level \in 0 .. 3, Slot(v, level) = Slot(w, level)
  PROVE  \A l \in 0 .. level : Slot(v, l) = Slot(w, l) /\ Index(v, l) = Index(w, l)
<1>1. \A l \in 0 .. 2 : Slot(v, l + 1) = Slot(w, l + 1) => Slot(v, l) = Slot(w, l)
  BY SlotsNest
<1>2. /\ Slot(v, 3) = Slot(w, 3) => Slot(v, 2) = Slot(w, 2)
      /\ Slot(v, 2) = Slot(w, 2) => Slot(v, 1) = Slot(w, 1)
      /\ Slot(v, 1) = Slot(w, 1) => Slot(v, 0) = Slot(w, 0)
  <2>1. /\ Slot(v, 2 + 1) = Slot(w, 2 + 1) => Slot(v, 2) = Slot(w, 2)
        /\ Slot(v, 1 + 1) = Slot(w, 1 + 1) => Slot(v, 1) = Slot(w, 1)
        /\ Slot(v, 0 + 1) = Slot(w, 0 + 1) => Slot(v, 0) = Slot(w, 0)
    BY <1>1
  <2> QED BY <2>1
<1>3. ASSUME NEW l \in 0 .. level PROVE Slot(v, l) = Slot(w, l) /\ Index(v, l) = Index(w, l)
  <2>1. l \in 0 .. 3 /\ (level = 0 \/ level = 1 \/ level = 2 \/ level = 3)
        /\ (l = 0 \/ l = 1 \/ l = 2 \/ l = 3)
    OBVIOUS
  <2>2. Slot(v, l) = Slot(w, l)
    BY <1>2, <2>1
  <2>3. Index(v, l) = Slot(v, l) % ENTRIES /\ Index(w, l) = Slot(w, l) % ENTRIES
    BY <2>1, IndexFacts
  <2> QED BY <2>2, <2>3
<1> QED BY <1>3

-----------------------------------------------------------------------------
(* getMappedPage *)

\* The entries of the walk for v, as getMappedPage defines them.
IsWalk(entry, v) ==
  entry = [level \in 0 .. 3 |->
             Read(IF level = 0 THEN ROOT ELSE entry[level - 1].frame, Index(v, level))]

LEMMA WalkExists == \A v : \E entry : IsWalk(entry, v)
<1> TAKE v
<1> DEFINE f == [level \in 0 .. 3 |-> CASE level = 0 -> E0(v) [] level = 1 -> E1(v)
                                        [] level = 2 -> E2(v) [] level = 3 -> E3(v)]
<1>1. f[0] = E0(v) /\ f[1] = E1(v) /\ f[2] = E2(v) /\ f[3] = E3(v)
  OBVIOUS
<1>2. ASSUME NEW level \in 0 .. 3
      PROVE  f[level] = Read(IF level = 0 THEN ROOT ELSE f[level - 1].frame, Index(v, level))
  <2> HIDE DEF f
  <2>1. level = 0 \/ level = 1 \/ level = 2 \/ level = 3
    OBVIOUS
  <2> QED BY <1>1, <2>1 DEF E0, E1, E2, E3
<1>3. f = [level \in 0 .. 3 |-> f[level]]
  OBVIOUS
<1> HIDE DEF f
<1>4. f = [level \in 0 .. 3 |->
             Read(IF level = 0 THEN ROOT ELSE f[level - 1].frame, Index(v, level))]
  BY <1>2, <1>3
<1> QED BY <1>4 DEF IsWalk

LEMMA WalkIs ==
  ASSUME NEW v, NEW entry, IsWalk(entry, v)
  PROVE  entry[0] = E0(v) /\ entry[1] = E1(v) /\ entry[2] = E2(v) /\ entry[3] = E3(v)
<1>1. /\ entry[0] = Read(ROOT, Index(v, 0)) /\ entry[1] = Read(entry[0].frame, Index(v, 1))
      /\ entry[2] = Read(entry[1].frame, Index(v, 2))
      /\ entry[3] = Read(entry[2].frame, Index(v, 3))
  <2>1. \A level \in 0 .. 3 : entry[level] =
          Read(IF level = 0 THEN ROOT ELSE entry[level - 1].frame, Index(v, level))
    BY DEF IsWalk
  <2> QED BY <2>1
<1> QED BY <1>1 DEF E0, E1, E2, E3

\* getMappedPage finds the page of the first extended entry, or of the last.
LEMMA Mapped == \A v : getMappedPage(v) = Found(v)
<1> TAKE v
<1>1. \E entry : /\ IsWalk(entry, v)
                 /\ LET last == IF entry[1].extended THEN 1
                                ELSE IF entry[2].extended THEN 2 ELSE 3
                    IN getMappedPage(v) = [phys |-> entry[last].frame, size |-> Covers(last)]
  BY WalkExists DEF getMappedPage, IsWalk
<1>2. PICK entry : /\ IsWalk(entry, v)
                 /\ LET last == IF entry[1].extended THEN 1
                                ELSE IF entry[2].extended THEN 2 ELSE 3
                    IN getMappedPage(v) = [phys |-> entry[last].frame, size |-> Covers(last)]
  BY <1>1
<1>3. entry[1] = E1(v) /\ entry[2] = E2(v) /\ entry[3] = E3(v)
  BY <1>2, WalkIs
<1> QED BY <1>2, <1>3, CoversFacts DEF Found

\* Two addresses inside the page found for one of them are translated alike.
LEMMA SameFound ==
  ASSUME NEW v \in Nat, NEW w \in Nat, NEW size \in pageSizes,
         Found(v).size = size, v % size = 0, v <= w, w < v + size
  PROVE  Found(w) = Found(v)
<1> DEFINE k == pageSizeToDepth(size) - 1
<1>1. k \in 1 .. 3 /\ Covers(k) = size /\ size \in Nat \ {0}
      /\ (k = 3 <=> size = BASE_PAGE) /\ (k = 2 <=> size = LARGE_PAGE)
      /\ (k = 1 <=> size = HUGE_PAGE)
  BY SizeFacts
<1> HIDE DEF k
<1>2. Slot(w, k) = Slot(v, k)
  <2>1. w \div size = v \div size
    BY <1>1, InsidePage
  <2> QED BY <1>1, <2>1 DEF Slot
<1>3. \A l \in 0 .. k : Index(w, l) = Index(v, l)
  <2>1. k \in 0 .. 3
    BY <1>1
  <2>2. \A l \in 0 .. k : Index(v, l) = Index(w, l)
    BY <1>2, <2>1, SameAbove
  <2> QED BY <2>2
<1>4. E0(w) = E0(v) /\ E1(w) = E1(v)
  <2>1. 0 \in 0 .. k /\ 1 \in 0 .. k
    BY <1>1
  <2> QED BY <1>3, <2>1 DEF E0, E1
<1>5. CASE k = 1
  <2>1. E1(v).extended
    BY <1>1, <1>5, PageFacts DEF Found
  <2> QED BY <1>4, <2>1 DEF Found
<1>6. CASE k = 2
  <2>1. E2(w) = E2(v)
    <3>1. 2 \in 0 .. k
      BY <1>6
    <3> QED BY <1>3, <1>4, <3>1 DEF E2
  <2>2. E1(v).extended \/ E2(v).extended
    BY <1>1, <1>6, PageFacts DEF Found
  <2> QED BY <1>4, <2>1, <2>2 DEF Found
<1>7. CASE k = 3
  <2>1. E2(w) = E2(v) /\ E3(w) = E3(v)
    <3>1. 2 \in 0 .. k /\ 3 \in 0 .. k
      BY <1>7
    <3> QED BY <1>3, <1>4, <3>1 DEF E2, E3
  <2> QED BY <1>4, <2>1 DEF Found
<1> QED BY <1>1, <1>5, <1>6, <1>7

\* The tables grow: no entry that was written changes.
Grown == /\ DOMAIN table \subseteq DOMAIN table'
         /\ \A t \in DOMAIN table, i \in 0 .. ENTRIES - 1 :
              table[t][i] # NONE => table'[t][i] = table[t][i]

\* An entry as it is after the step.
ReadNext(t, i) == IF t \in DOMAIN table' THEN table'[t][i] ELSE NONE

LEMMA WalkNext ==
  ASSUME NEW v
  PROVE  /\ E0(v)' = ReadNext(ROOT, Index(v, 0))
         /\ E1(v)' = ReadNext(E0(v)'.frame, Index(v, 1))
         /\ E2(v)' = ReadNext(E1(v)'.frame, Index(v, 2))
         /\ E3(v)' = ReadNext(E2(v)'.frame, Index(v, 3))
<1>1. E0(v)' = ReadNext(ROOT, Index(v, 0))
  BY DEF E0, Read, ReadNext, Index, Covers, NONE
<1>2. E1(v)' = ReadNext(E0(v)'.frame, Index(v, 1))
  BY DEF E1, Read, ReadNext, Index, Covers, NONE
<1>3. E2(v)' = ReadNext(E1(v)'.frame, Index(v, 2))
  BY DEF E2, Read, ReadNext, Index, Covers, NONE
<1>4. E3(v)' = ReadNext(E2(v)'.frame, Index(v, 3))
  BY DEF E3, Read, ReadNext, Index, Covers, NONE
<1> QED BY <1>1, <1>2, <1>3, <1>4

\* So a walk finds what it found.
LEMMA WalkGrows ==
  ASSUME Grown, -1 \notin DOMAIN table, NEW v \in Nat
  PROVE  /\ E0(v) # NONE => E0(v)' = E0(v)
         /\ E1(v) # NONE => E0(v)' = E0(v) /\ E1(v)' = E1(v)
         /\ E2(v) # NONE => E1(v)' = E1(v) /\ E2(v)' = E2(v)
         /\ E3(v) # NONE => E1(v)' = E1(v) /\ E2(v)' = E2(v) /\ E3(v)' = E3(v)
<1>0. \A level \in 0 .. 3 : Index(v, level) \in 0 .. ENTRIES - 1
  BY IndexFacts
<1>1. \A t : \A i \in 0 .. ENTRIES - 1 :
        Read(t, i) # NONE => t # -1 /\ ReadNext(t, i) = Read(t, i)
  <2> TAKE t
  <2> TAKE i \in 0 .. ENTRIES - 1
  <2> HAVE Read(t, i) # NONE
  <2>1. t \in DOMAIN table /\ table[t][i] # NONE
    BY DEF Read
  <2>2. t \in DOMAIN table' /\ table'[t][i] = table[t][i]
    BY <2>1 DEF Grown
  <2> QED BY <2>1, <2>2 DEF Read, ReadNext
<1>2. NONE.frame = -1
  BY DEF NONE
<1>3. /\ E1(v) # NONE => E0(v) # NONE
      /\ E2(v) # NONE => E1(v) # NONE
      /\ E3(v) # NONE => E2(v) # NONE
  BY <1>0, <1>1, <1>2 DEF E1, E2, E3
<1>4. E0(v) # NONE => E0(v)' = E0(v)
  BY <1>0, <1>1, WalkNext DEF E0
<1>5. E1(v) # NONE => E1(v)' = E1(v)
  BY <1>0, <1>1, <1>3, <1>4, WalkNext DEF E1
<1>6. E2(v) # NONE => E2(v)' = E2(v)
  BY <1>0, <1>1, <1>3, <1>5, WalkNext DEF E2
<1>7. E3(v) # NONE => E3(v)' = E3(v)
  BY <1>0, <1>1, <1>3, <1>6, WalkNext DEF E3
<1> QED BY <1>3, <1>4, <1>5, <1>6, <1>7

LEMMA FoundNext ==
  ASSUME NEW v
  PROVE  Found(v)' = IF E1(v)'.extended THEN [phys |-> E1(v)'.frame, size |-> HUGE_PAGE]
                     ELSE IF E2(v)'.extended THEN [phys |-> E2(v)'.frame, size |-> LARGE_PAGE]
                     ELSE [phys |-> E3(v)'.frame, size |-> BASE_PAGE]
BY DEF Found, HUGE_PAGE, LARGE_PAGE, BASE_PAGE

LEMMA FoundGrows ==
  ASSUME Grown, -1 \notin DOMAIN table, NEW v \in Nat, Found(v).phys # -1
  PROVE  Found(v)' = Found(v)
<1>1. NONE.frame = -1
  BY DEF NONE
<1>2. CASE E1(v).extended
  <2>1. E1(v) # NONE
    BY <1>1, <1>2 DEF Found
  <2>2. E1(v)' = E1(v)
    BY <2>1, WalkGrows
  <2> QED BY <1>2, <2>2, FoundNext DEF Found
<1>3. CASE ~E1(v).extended /\ E2(v).extended
  <2>1. E2(v) # NONE
    BY <1>1, <1>3 DEF Found
  <2>2. E1(v)' = E1(v) /\ E2(v)' = E2(v)
    BY <2>1, WalkGrows
  <2> QED BY <1>3, <2>2, FoundNext DEF Found
<1>4. CASE ~E1(v).extended /\ ~E2(v).extended
  <2>1. E3(v) # NONE
    BY <1>1, <1>4 DEF Found
  <2>2. E1(v)' = E1(v) /\ E2(v)' = E2(v) /\ E3(v)' = E3(v)
    BY <2>1, WalkGrows
  <2> QED BY <1>4, <2>2, FoundNext DEF Found
<1> QED BY <1>2, <1>3, <1>4

\* Without a change to the tables every walk is as it was.
LEMMA FoundKept ==
  ASSUME table' = table, NEW v
  PROVE  /\ E0(v)' = E0(v) /\ E1(v)' = E1(v) /\ E2(v)' = E2(v) /\ E3(v)' = E3(v)
         /\ Found(v)' = Found(v)
<1>1. \A t, i : ReadNext(t, i) = Read(t, i)
  BY DEF Read, ReadNext
<1>2. E0(v)' = E0(v)
  BY <1>1, WalkNext DEF E0
<1>3. E1(v)' = E1(v)
  BY <1>1, <1>2, WalkNext DEF E1
<1>4. E2(v)' = E2(v)
  BY <1>1, <1>3, WalkNext DEF E2
<1>5. E3(v)' = E3(v)
  BY <1>1, <1>4, WalkNext DEF E3
<1> QED BY <1>2, <1>3, <1>4, <1>5, FoundNext DEF Found

-----------------------------------------------------------------------------
(* The walk of a mapping *)

LEMMA RegionFacts ==
  /\ START \in Nat /\ END \in Nat /\ START <= END
  /\ RAM \subseteq Nat /\ SCREEN \subseteq Nat /\ RAM \cap SCREEN = {}
  /\ \A p \in RAM \cup SCREEN : p % BASE_PAGE = 0
BY RegionAssumption

LEMMA StartType ==
  ASSUME TypeOK
  PROVE  start \in Nat /\ START <= start /\ start <= END
<1>1. start \in START .. END
  BY DEF TypeOK
<1> QED BY <1>1, RegionFacts

\* Where a mapping's walk is, the entry is empty or leads down; at the leaf it is empty,
\* or as the loader wrote it for the screen.
ScreenEntry == job.virt < START /\ Entry = [frame |-> job.virt, extended |-> FALSE]

LEMMA AtWalk ==
  ASSUME TypeOK, MapOK, NEW place, Placed(place), pc = "map"
  PROVE  /\ job.virt \in Nat /\ job.virt < END /\ job.size \in pageSizes
         /\ walk.level \in 0 .. 3 /\ walk.level <= pageSizeToDepth(job.size) - 1
         /\ walk.table \in DOMAIN table
         /\ Index(job.virt, walk.level) \in 0 .. ENTRIES - 1
         /\ place[walk.table].level = walk.level
         /\ place[walk.table].region * ENTRIES + Index(job.virt, walk.level)
              = Slot(job.virt, walk.level)
         /\ \/ Entry = NONE
            \/ /\ walk.level < 3 /\ ~Entry.extended /\ Entry.frame \in DOMAIN table
               /\ place[Entry.frame] = [level |-> walk.level + 1,
                                        region |-> Slot(job.virt, walk.level)]
            \/ walk.level = 3
         /\ AtLeaf => /\ Entry = NONE \/ ScreenEntry
                      /\ Covers(walk.level) = job.size
                      /\ Slot(job.virt, walk.level) * job.size = job.virt
<1> DEFINE v == job.virt
           k == walk.level
           i == Index(v, k)
           s == Slot(v, k)
           d == pageSizeToDepth(job.size) - 1
<1>1. v \in Nat /\ job.size \in pageSizes /\ v % job.size = 0 /\ Len(job.pages) \in Nat \ {0}
      /\ walk \in [table : DOMAIN table, level : 0 .. d]
      /\ v + Len(job.pages) * job.size <= start
  <2>1. job.pages \in Seq(Nat) /\ job.pages # <<>>
    BY DEF MapOK
  <2>2. Len(job.pages) \in Nat \ {0}
    <3> DEFINE q == job.pages
    <3>1. q \in Seq(Nat) /\ q # <<>>
      BY <2>1
    <3> HIDE DEF q
    <3>2. Len(q) \in Nat \ {0}
      BY <3>1
    <3> QED BY <3>2 DEF q
  <2> QED BY <2>2 DEF MapOK
<1>2. job.size \in Nat \ {0} /\ d \in 1 .. 3 /\ Covers(d) = job.size
      /\ \A level \in 0 .. 3 : level < d => job.size < Covers(level)
  BY <1>1, SizeFacts
<1>3. v < END /\ v + job.size <= END
  <2>1. start \in Nat /\ start <= END
    BY StartType
  <2> DEFINE n == Len(job.pages)
             m == job.size
  <2>2. n \in Nat \ {0} /\ m \in Nat \ {0} /\ v + n * m <= start /\ v \in Nat
    BY <1>1, <1>2
  <2> HIDE DEF n, m, v
  <2>3. m * 1 <= m * n /\ m * n = n * m /\ m * n \in Nat
    BY <2>2, ProductsGrow
  <2>4. v < END /\ v + m <= END
    BY <2>1, <2>2, <2>3, RegionFacts
  <2> QED BY <2>4 DEF m
<1>4. k \in 0 .. d /\ k \in 0 .. 3 /\ walk.table \in DOMAIN table
  BY <1>1, <1>2
<1>5. i \in 0 .. ENTRIES - 1 /\ s \in Nat /\ (s \div ENTRIES) * ENTRIES + i = s
  BY <1>1, <1>4, IndexFacts, SlotsNest
<1>6. place[walk.table] = [level |-> k, region |-> s \div ENTRIES]
  BY DEF Placed
<1>7. place[walk.table].level = k /\ place[walk.table].region * ENTRIES + i = s
  BY <1>5, <1>6
<1>8. EntryOK(place, walk.table, i)
  BY <1>4, <1>5 DEF Placed
<1>9. s * Covers(k) \in Nat /\ s * Covers(k) <= v /\ v < (s + 1) * Covers(k)
  BY <1>1, <1>4, SlotBounds
<1>10. Frontier = v
  BY DEF Frontier
<1>11. \/ Entry = NONE
       \/ /\ k < 3 /\ ~Entry.extended /\ Entry.frame \in DOMAIN table
          /\ place[Entry.frame] = [level |-> k + 1, region |-> s]
          /\ Needed(s, k)
       \/ (s + 1) * Covers(k) <= v
       \/ ByLoader(Entry, k, s)
  <2>1. Entry = table[walk.table][i]
    BY DEF Entry
  <2> HIDE DEF i, s, k, v
  <2> QED BY <1>7, <1>8, <1>10, <2>1 DEF EntryOK
<1>12. ~((s + 1) * Covers(k) <= v)
  <2>1. (s + 1) * Covers(k) = s * Covers(k) + Covers(k) /\ Covers(k) \in Nat
    <3>1. (s + 1) * Covers(k) = s * Covers(k) + Covers(k)
      BY <1>1, <1>4, SlotBounds
    <3>2. Covers(k) \in Nat
      BY <1>4, CoversFacts
    <3> QED BY <3>1, <3>2
  <2> HIDE DEF s, k, v
  <2>2. (s + 1) * Covers(k) \in Nat
    BY <1>9, <2>1
  <2> QED BY <1>1, <1>9, <2>2 DEF v
<1>13. AtLeaf => (Entry = NONE \/ ScreenEntry) /\ Covers(k) = job.size /\ s * job.size = v
  <2> SUFFICES ASSUME k = d
               PROVE  (Entry = NONE \/ ScreenEntry) /\ Covers(k) = job.size /\ s * job.size = v
    BY DEF AtLeaf
  <2>1. Covers(k) = job.size
    BY <1>2
  <2>2. s * job.size = v
    <3>1. s = v \div job.size
      BY <2>1 DEF Slot
    <3> QED BY <1>1, <1>2, <3>1, BeginsAtSlot
  <2>3. k < 3 => ~Needed(s, k)
    <3> HAVE k < 3
    <3>1. job.size # BASE_PAGE
      BY <1>1, SizeFacts
    <3>2. START <= v
      BY <1>1, <3>1, RegionFacts DEF MapOK, InPlace
    <3>3. (s + 1) * Covers(k) = v + job.size
      <4>1. (s + 1) * Covers(k) = s * Covers(k) + Covers(k)
        BY <1>1, <1>4, SlotBounds
      <4> QED BY <2>1, <2>2, <4>1
    <3> HIDE DEF s, k, v
    <3>4. Needed(s, k) => v < v \/ job.size < job.size \/ v < START \/ END < v + job.size
      BY <1>10, <2>1, <2>2, <3>3 DEF Needed, Outside
    <3>5. v \in Nat /\ v + job.size <= END
      BY <1>1, <1>3 DEF v
    <3> QED BY <1>2, <3>2, <3>4, <3>5, RegionFacts
  <2>4. ByLoader(Entry, k, s) => ScreenEntry
    <3> HAVE ByLoader(Entry, k, s)
    <3>1. k = 3
      BY DEF ByLoader
    <3>2. job.size = BASE_PAGE
      BY <2>1, <3>1, CoversFacts DEF Covers
    <3>3. s * BASE_PAGE = v
      BY <2>2, <3>2
    <3>4. END <= v \/ (v < START /\ Entry = [frame |-> v, extended |-> FALSE])
      BY <3>3 DEF ByLoader
    <3>5. ~(END <= v)
      BY <1>1, <1>3, RegionFacts
    <3> QED BY <3>4, <3>5 DEF ScreenEntry
  <2>5. Entry = NONE \/ ScreenEntry
    BY <1>11, <1>12, <2>3, <2>4
  <2> QED BY <2>1, <2>2, <2>5
<1>14. k <= d
  BY <1>2, <1>4
<1> HIDE DEF i, s, k, v, d
<1>15. v \in Nat /\ job.size \in pageSizes
  BY <1>1
<1>16. ByLoader(Entry, k, s) => k = 3
  BY DEF ByLoader
<1> QED
  BY <1>16, <1>3, <1>4, <1>5, <1>7, <1>11, <1>12, <1>13, <1>14, <1>15 DEF i, s, k, v, d

\* What a step of the walk finds or writes is what the walk for the address meets next.
LEMMA WalkThrough ==
  ASSUME WalkOK, Grown, -1 \notin DOMAIN table, pc = "map", walk.table \in DOMAIN table,
         NEW v \in Nat, v = job.virt, NEW e, e = ReadNext(walk.table, Index(v, walk.level))
  PROVE  /\ walk.level = 0 => E0(v)' = e
         /\ walk.level = 1 => E1(v)' = e
         /\ walk.level = 2 => E2(v)' = e /\ ~E1(v)'.extended
         /\ walk.level = 3 => E3(v)' = e /\ ~E1(v)'.extended /\ ~E2(v)'.extended
<1>0. NONE.frame = -1
  BY DEF NONE
<1>1. ASSUME walk.level = 0 PROVE E0(v)' = e
  BY <1>1, WalkNext DEF WalkOK
<1>2. ASSUME walk.level = 1 PROVE E1(v)' = e
  <2>1. walk.table = E0(v).frame /\ E0(v) # NONE
    BY <1>0, <1>2 DEF WalkOK
  <2>2. E0(v)' = E0(v)
    BY <2>1, WalkGrows
  <2> QED BY <1>2, <2>1, <2>2, WalkNext
<1>3. ASSUME walk.level = 2 PROVE E2(v)' = e /\ ~E1(v)'.extended
  <2>1. walk.table = E1(v).frame /\ E1(v) # NONE /\ ~E1(v).extended
    BY <1>0, <1>3 DEF WalkOK
  <2>2. E1(v)' = E1(v)
    BY <2>1, WalkGrows
  <2> QED BY <1>3, <2>1, <2>2, WalkNext
<1>4. ASSUME walk.level = 3 PROVE E3(v)' = e /\ ~E1(v)'.extended /\ ~E2(v)'.extended
  <2>1. walk.table = E2(v).frame /\ E2(v) # NONE /\ ~E1(v).extended /\ ~E2(v).extended
    BY <1>0, <1>4 DEF WalkOK
  <2>2. E1(v)' = E1(v) /\ E2(v)' = E2(v)
    BY <2>1, WalkGrows
  <2> QED BY <1>4, <2>1, <2>2, WalkNext
<1> QED BY <1>1, <1>2, <1>3, <1>4

\* Nothing is mapped behind the addresses that were: they only grow.
Advances ==
  /\ Frontier \in Nat /\ Frontier' \in Nat /\ Frontier <= Frontier'
  /\ pc = "map" => \/ job.virt < Frontier'
                   \/ pc' = "map" /\ job'.virt = job.virt /\ job'.size = job.size

LEMMA EntryKept ==
  ASSUME TypeOK, NEW place, NEW place2, Placed(place), Advances,
         DOMAIN table \subseteq DOMAIN table', \A t \in DOMAIN table : place2[t] = place[t],
         NEW t \in DOMAIN table, NEW i \in 0 .. ENTRIES - 1, table'[t][i] = table[t][i]
  PROVE  EntryOK(place2, t, i)'
<1> DEFINE e == table[t][i]
           k == place[t].level
           s == place[t].region * ENTRIES + i
           c == Covers(k)
<1>1. EntryOK(place, t, i)
  BY DEF Placed
<1>2. k \in 0 .. 3 /\ place[t].region \in Nat
  BY DEF Placed, Places
<1>3. s \in Nat /\ c \in Nat \ {0}
  BY <1>2, PageFacts, CoversFacts
<1>4. s * c \in Nat /\ (s + 1) * c \in Nat
  <2> HIDE DEF s, c
  <2> QED BY <1>3
<1> HIDE DEF e, s, k
<1>5. \/ e = NONE
      \/ /\ k < 3 /\ ~e.extended /\ e.frame \in DOMAIN table
         /\ place[e.frame] = [level |-> k + 1, region |-> s]
         /\ Needed(s, k)
      \/ (k = 3 \/ e.extended) /\ (s + 1) * c <= Frontier
      \/ ByLoader(e, k, s)
  BY <1>1 DEF EntryOK, e, s, k
<1>6. Needed(s, k) =>
        Outside(s, k) \/ s * c < Frontier' \/ (pc' = "map" /\ s * c = job'.virt /\ job'.size < c)
  <2>1. Needed(s, k) =>
          Outside(s, k) \/ s * c < Frontier \/ (pc = "map" /\ s * c = job.virt /\ job.size < c)
    BY DEF Needed
  <2> HIDE DEF c
  <2>2. s * c < Frontier => s * c < Frontier'
    BY <1>4 DEF Advances
  <2> QED BY <2>1, <2>2 DEF Advances
<1>7. Needed(s, k)' <=>
        Outside(s, k) \/ s * c < Frontier' \/ (pc' = "map" /\ s * c = job'.virt /\ job'.size < c)
  BY DEF Needed, Outside, Covers
<1>8. e = table'[t][i] /\ place2[t] = place[t]
  BY DEF e
<1>9. e.frame \in DOMAIN table => e.frame \in DOMAIN table' /\ place2[e.frame] = place[e.frame]
  OBVIOUS
<1>10. (s + 1) * c <= Frontier => (s + 1) * c <= Frontier'
  <2> HIDE DEF c
  <2> QED BY <1>4 DEF Advances
<1> DEFINE f == table'[t][i]
<1>11. \/ f = NONE
       \/ /\ k < 3 /\ ~f.extended /\ f.frame \in DOMAIN table'
          /\ place2[f.frame] = [level |-> k + 1, region |-> s]
          /\ Needed(s, k)'
       \/ (k = 3 \/ f.extended) /\ (s + 1) * c <= Frontier'
       \/ ByLoader(f, k, s)
  BY <1>5, <1>6, <1>7, <1>8, <1>9, <1>10
<1>12. place2[t].level = k /\ place2[t].region * ENTRIES + i = s
  BY <1>8 DEF k, s
<1>13. ByLoader(f, k, s) => ByLoader(table[t][i], k, s)'
  BY <1>8 DEF ByLoader, BASE_PAGE, e
<1> QED
  BY <1>11, <1>12, <1>13 DEF EntryOK

-----------------------------------------------------------------------------
(* The lowest and the highest of some pages *)

\* A set of naturals that is not empty has a least element.
LEMMA Least ==
  ASSUME NEW S \in SUBSET Nat, S # {}
  PROVE  \E x \in S : \A y \in S : x <= y
<1>1. \E R : IsWellFoundedOn(R, Nat) /\ \A x, y \in Nat : y < x => <<y, x>> \in R
  <2> DEFINE R == OpToRel(<, Nat)
  <2>1. IsWellFoundedOn(R, Nat)
    BY NatLessThanWellFounded
  <2>2. \A x, y \in Nat : y < x => <<y, x>> \in R
    BY DEF OpToRel
  <2> HIDE DEF R
  <2> QED BY <2>1, <2>2
<1>2. PICK R : IsWellFoundedOn(R, Nat) /\ \A x, y \in Nat : y < x => <<y, x>> \in R
  BY <1>1
<1>3. PICK x \in S : \A y \in S : ~(<<y, x>> \in R)
  BY <1>2, WFMin, Zenon
<1>4. ASSUME NEW y \in S PROVE x <= y
  <2>1. ~(y < x)
    BY <1>2, <1>3, <1>4
  <2> QED BY <2>1, <1>4
<1> QED BY <1>4

LEMMA MinIs ==
  ASSUME NEW S \in SUBSET Nat, S # {}
  PROVE  Min(S) \in S /\ \A y \in S : Min(S) <= y
BY Least DEF Min

\* A finite set of naturals has an upper bound.
LEMMA Bounded ==
  ASSUME NEW n \in Nat, NEW f \in [1 .. n -> Nat]
  PROVE  \E b \in Nat : \A i \in 1 .. n : f[i] <= b
<1> DEFINE P(k) == \E b \in Nat : \A i \in 1 .. k : f[i] <= b
           S == {k \in 0 .. n : ~P(k)}
<1>1. S \in SUBSET Nat
  OBVIOUS
<1>2. ASSUME S # {} PROVE FALSE
  <2>1. PICK k \in S : \A y \in S : k <= y
    BY <1>1, <1>2, Least, Zenon
  <2>2. k \in 0 .. n /\ ~P(k)
    OBVIOUS
  <2>3. k # 0
    <3>1. P(0)
      <4>1. \A i \in 1 .. 0 : f[i] <= 0
        OBVIOUS
      <4> QED BY <4>1
    <3> QED BY <2>2, <3>1
  <2>4. k - 1 \in 0 .. n /\ ~(k <= k - 1)
    BY <2>2, <2>3
  <2>5. P(k - 1)
    BY <2>1, <2>4
  <2>6. PICK b \in Nat : \A i \in 1 .. k - 1 : f[i] <= b
    BY <2>5
  <2>7. f[k] \in Nat /\ k \in 1 .. n
    BY <2>2, <2>3
  <2>8. ASSUME NEW i \in 1 .. k PROVE f[i] <= b + f[k]
    <3>1. f[i] \in Nat
      BY <2>2
    <3>2. CASE i = k
      BY <2>7, <3>2
    <3>3. CASE i # k
      <4>1. i \in 1 .. k - 1
        BY <2>2, <3>3
      <4>2. f[i] <= b
        BY <2>6, <4>1
      <4> QED BY <2>7, <3>1, <4>2
    <3> QED BY <3>2, <3>3
  <2>9. b + f[k] \in Nat
    BY <2>7
  <2> QED BY <2>2, <2>8, <2>9
<1>3. n \in 0 .. n
  OBVIOUS
<1>4. P(n)
  BY <1>2, <1>3
<1> QED BY <1>4

LEMMA MaxIs ==
  ASSUME NEW S \in SUBSET Nat, S # {}, IsFiniteSet(S)
  PROVE  Max(S) \in S /\ \A y \in S : y <= Max(S)
<1>1. PICK n \in Nat : ExistsSurjection(1 .. n, S)
  BY FS_NatSurjection
<1>2. PICK f \in [1 .. n -> S] : \A y \in S : \E i \in 1 .. n : f[i] = y
  BY <1>1 DEF ExistsSurjection, Surjection
<1>3. f \in [1 .. n -> Nat]
  OBVIOUS
<1>4. PICK b \in Nat : \A i \in 1 .. n : f[i] <= b
  BY <1>3, Bounded
<1> DEFINE U == {u \in Nat : \A y \in S : y <= u}
<1>5. b \in U
  BY <1>2, <1>4
<1>6. PICK m \in U : \A u \in U : m <= u
  <2>1. U \in SUBSET Nat /\ U # {}
    BY <1>5
  <2> HIDE DEF U
  <2> QED BY <2>1, Least
<1>7. m \in S
  <2> SUFFICES ASSUME m \notin S PROVE FALSE
    OBVIOUS
  <2>1. PICK y \in S : TRUE
    OBVIOUS
  <2>2. \A x \in S : x \in Nat /\ x <= m /\ x # m
    OBVIOUS
  <2>3. m \in Nat /\ m # 0
    <3>1. m \in Nat
      OBVIOUS
    <3> QED BY <2>1, <2>2, <3>1
  <2>4. m - 1 \in Nat /\ \A x \in S : x <= m - 1
    BY <2>2, <2>3
  <2>5. m - 1 \in U
    BY <2>4
  <2> QED BY <1>6, <2>3, <2>5
<1>8. \A y \in S : y <= m
  OBVIOUS
<1>9. \E x \in S : \A y \in S : x >= y
  BY <1>7, <1>8
<1>10. Max(S) \in S /\ \A y \in S : Max(S) >= y
  BY <1>9 DEF Max
<1> QED BY <1>10

LEMMA EndsIn ==
  ASSUME NEW S \in SUBSET Nat, IsFiniteSet(S)
  PROVE  Ends(S) \subseteq S
BY MinIs, MaxIs DEF Ends

-----------------------------------------------------------------------------
(* The pages the physical memory manager may hand out *)

LEMMA AvailableFacts ==
  ASSUME TypeOK, NEW size
  PROVE  /\ Available(size) \in SUBSET Nat /\ IsFiniteSet(Available(size))
         /\ Available(size) \subseteq free
         /\ \A p \in Available(size) : p % size = 0 /\ Pages(p, size) \subseteq free
<1>1. free \subseteq RAM
  BY DEF TypeOK
<1>2. Available(size) \in SUBSET RAM
  BY <1>1 DEF Available
<1>3. IsFiniteSet(RAM)
  BY RegionAssumption
<1>4. IsFiniteSet(Available(size))
  BY <1>2, <1>3, FS_Subset, Zenon
<1> QED BY <1>2, <1>4, RegionFacts DEF Available, Divides

\* Pages taken one after the other, each from what is left of S.
IsPick(f, S, n, c) == f = [i \in 1 .. n |-> c[S \ {f[j] : j \in 1 .. i - 1}]]

LEMMA PickExists ==
  ASSUME NEW S, NEW n \in Nat, NEW c
  PROVE  \E f : IsPick(f, S, n, c)
<1> DEFINE P(k) == \E f : IsPick(f, S, k, c)
           B == {k \in Nat : ~P(k)}
<1>1. B \in SUBSET Nat
  OBVIOUS
<1>2. ASSUME B # {} PROVE FALSE
  <2>1. PICK k \in B : \A y \in B : k <= y
    BY <1>1, <1>2, Least, Zenon
  <2>2. k \in Nat /\ ~P(k)
    OBVIOUS
  <2>3. CASE k = 0
    <3> DEFINE z == [i \in 1 .. 0 |-> 0]
    <3>1. z = [i \in 1 .. k |-> c[S \ {z[j] : j \in 1 .. i - 1}]]
      BY <2>3
    <3> HIDE DEF z
    <3>2. IsPick(z, S, k, c)
      BY <3>1 DEF IsPick
    <3> QED BY <2>2, <3>2
  <2>4. CASE k # 0
    <3>1. k - 1 \in Nat /\ ~(k <= k - 1)
      BY <2>2, <2>4
    <3>2. k - 1 \notin B
      BY <2>1, <3>1
    <3>3. P(k - 1)
      BY <3>1, <3>2
    <3>4. PICK g : IsPick(g, S, k - 1, c)
      BY <3>3
    <3> DEFINE last == c[S \ {g[j] : j \in 1 .. k - 1}]
               h == [i \in 1 .. k |-> IF i = k THEN last ELSE g[i]]
    <3>5. ASSUME NEW i \in 1 .. k PROVE h[i] = c[S \ {h[j] : j \in 1 .. i - 1}]
      <4>1. {h[j] : j \in 1 .. i - 1} = {g[j] : j \in 1 .. i - 1}
        <5>1. \A j \in 1 .. i - 1 : h[j] = g[j]
          BY <2>2
        <5> HIDE DEF h
        <5> QED BY <5>1
      <4>2. CASE i = k
        <5>1. h[i] = last
          BY <4>2
        <5> QED BY <4>1, <4>2, <5>1
      <4>3. CASE i # k
        <5>1. h[i] = g[i] /\ i \in 1 .. k - 1
          BY <2>2, <4>3
        <5>2. g[i] = c[S \ {g[j] : j \in 1 .. i - 1}]
          BY <3>4, <5>1 DEF IsPick
        <5> HIDE DEF h
        <5> QED BY <4>1, <5>1, <5>2
      <4> QED BY <4>2, <4>3
    <3>6. h = [i \in 1 .. k |-> h[i]]
      OBVIOUS
    <3> HIDE DEF h
    <3>7. h = [i \in 1 .. k |-> c[S \ {h[j] : j \in 1 .. i - 1}]]
      BY <3>5, <3>6
    <3>8. IsPick(h, S, k, c)
      BY <3>7 DEF IsPick
    <3> QED BY <2>2, <3>8
  <2> QED BY <2>3, <2>4
<1>3. P(n)
  BY <1>2
<1> QED BY <1>3

\* None is taken twice, while there are enough.
LEMMA PicksDiffer ==
  ASSUME NEW S, IsFiniteSet(S), NEW n \in Nat, n <= Cardinality(S), NEW c,
         \A T \in SUBSET S : T # {} => c[T] \in T, NEW f, IsPick(f, S, n, c)
  PROVE  /\ f \in [1 .. n -> S]
         /\ \A i, j \in 1 .. n : i # j => f[i] # f[j]
<1>1. ASSUME NEW i \in 1 .. n PROVE f[i] \in S \ {f[j] : j \in 1 .. i - 1}
  <2> DEFINE T == {f[j] : j \in 1 .. i - 1}
             R == S \ T
             g == [j \in 1 .. i - 1 |-> f[j]]
  <2>1. f[i] = c[R]
    BY DEF IsPick
  <2>2. i - 1 \in Nat
    OBVIOUS
  <2>3. g \in Surjection(1 .. i - 1, T)
    BY DEF Surjection
  <2>4. ExistsSurjection(1 .. i - 1, T)
    BY <2>3 DEF ExistsSurjection
  <2> HIDE DEF T, g
  <2>5. IsFiniteSet(T) /\ Cardinality(T) <= i - 1
    BY <2>2, <2>4, FS_NatSurjection, FS_SurjCardinalityBound
  <2>6. R # {}
    <3> SUFFICES ASSUME S \in SUBSET T PROVE FALSE
      OBVIOUS
    <3>1. Cardinality(S) <= Cardinality(T)
      BY <2>5, FS_Subset
    <3>2. Cardinality(S) \in Nat /\ Cardinality(T) \in Nat
      BY <2>5, FS_CardinalityType
    <3> QED BY <2>5, <3>1, <3>2
  <2>7. R \in SUBSET S
    OBVIOUS
  <2> HIDE DEF R
  <2>8. c[R] \in R
    BY <2>6, <2>7
  <2> QED BY <2>1, <2>8 DEF R, T
<1>2. f = [i \in 1 .. n |-> f[i]]
  BY DEF IsPick
<1>3. f \in [1 .. n -> S]
  BY <1>1, <1>2
<1>4. ASSUME NEW i \in 1 .. n, NEW j \in 1 .. n, j < i PROVE f[i] # f[j]
  <2>1. j \in 1 .. i - 1
    BY <1>4
  <2> QED BY <1>1, <2>1
<1> QED BY <1>3, <1>4

IsUp(f, S, n) == f = [i \in 1 .. n |-> Min(S \ {f[j] : j \in 1 .. i - 1})]
IsDown(f, S, n) == f = [i \in 1 .. n |-> Max(S \ {f[j] : j \in 1 .. i - 1})]

\* Of n pages, in this order, each is available and none is there twice.
Chosen(pages, n, size) ==
  /\ pages \in [1 .. n -> Available(size)]
  /\ \A i, j \in 1 .. n : i # j => pages[i] # pages[j]

LEMMA UpChosen ==
  ASSUME TypeOK, NEW n \in Nat, NEW size, n <= Cardinality(Available(size)), NEW f,
         IsUp(f, Available(size), n)
  PROVE  Chosen(f, n, size)
<1> DEFINE S == Available(size)
           c == [T \in SUBSET S |-> Min(T)]
<1>1. S \in SUBSET Nat /\ IsFiniteSet(S) /\ n <= Cardinality(S)
  BY AvailableFacts
<1>2. IsUp(f, S, n)
  OBVIOUS
<1> HIDE DEF S
<1>3. \A T \in SUBSET S : c[T] = Min(T)
  OBVIOUS
<1>4. ASSUME NEW T \in SUBSET S, T # {} PROVE c[T] \in T
  <2>1. Min(T) \in T
    BY <1>1, <1>4, MinIs
  <2> QED BY <1>3, <2>1
<1> HIDE DEF c
<1>5. \A i : S \ {f[j] : j \in 1 .. i - 1} \in SUBSET S
  OBVIOUS
<1>6. IsPick(f, S, n, c)
  <2>1. f = [i \in 1 .. n |-> f[i]]
    BY <1>2 DEF IsUp
  <2>2. ASSUME NEW i \in 1 .. n PROVE f[i] = c[S \ {f[j] : j \in 1 .. i - 1}]
    <3>1. f[i] = Min(S \ {f[j] : j \in 1 .. i - 1})
      BY <1>2 DEF IsUp
    <3> QED BY <1>3, <1>5, <3>1
  <2>3. f = [i \in 1 .. n |-> c[S \ {f[j] : j \in 1 .. i - 1}]]
    BY <2>1, <2>2
  <2> QED BY <2>3 DEF IsPick
<1>7. f \in [1 .. n -> S] /\ \A i, j \in 1 .. n : i # j => f[i] # f[j]
  BY <1>1, <1>4, <1>6, PicksDiffer
<1> QED BY <1>7 DEF Chosen, S

LEMMA DownChosen ==
  ASSUME TypeOK, NEW n \in Nat, NEW size, n <= Cardinality(Available(size)), NEW f,
         IsDown(f, Available(size), n)
  PROVE  Chosen(f, n, size)
<1> DEFINE S == Available(size)
           c == [T \in SUBSET S |-> Max(T)]
<1>1. S \in SUBSET Nat /\ IsFiniteSet(S) /\ n <= Cardinality(S)
  BY AvailableFacts
<1>2. IsDown(f, S, n)
  OBVIOUS
<1> HIDE DEF S
<1>3. \A T \in SUBSET S : c[T] = Max(T)
  OBVIOUS
<1>4. ASSUME NEW T \in SUBSET S, T # {} PROVE c[T] \in T
  <2>1. IsFiniteSet(T)
    BY <1>1, FS_Subset, Zenon
  <2>2. Max(T) \in T
    BY <1>1, <1>4, <2>1, MaxIs
  <2> QED BY <1>3, <2>2
<1> HIDE DEF c
<1>5. \A i : S \ {f[j] : j \in 1 .. i - 1} \in SUBSET S
  OBVIOUS
<1>6. IsPick(f, S, n, c)
  <2>1. f = [i \in 1 .. n |-> f[i]]
    BY <1>2 DEF IsDown
  <2>2. ASSUME NEW i \in 1 .. n PROVE f[i] = c[S \ {f[j] : j \in 1 .. i - 1}]
    <3>1. f[i] = Max(S \ {f[j] : j \in 1 .. i - 1})
      BY <1>2 DEF IsDown
    <3> QED BY <1>3, <1>5, <3>1
  <2>3. f = [i \in 1 .. n |-> c[S \ {f[j] : j \in 1 .. i - 1}]]
    BY <2>1, <2>2
  <2> QED BY <2>3 DEF IsPick
<1>7. f \in [1 .. n -> S] /\ \A i, j \in 1 .. n : i # j => f[i] # f[j]
  BY <1>1, <1>4, <1>6, PicksDiffer
<1> QED BY <1>7 DEF Chosen, S

\* The functions of Scattered exist: one picks with Min, one with Max.
LEMMA UpExists ==
  ASSUME NEW S, NEW n \in Nat
  PROVE  \E f : IsUp(f, S, n)
<1> DEFINE c == [T \in SUBSET S |-> Min(T)]
<1>1. PICK f : IsPick(f, S, n, c)
  BY PickExists
<1>2. \A i : S \ {f[j] : j \in 1 .. i - 1} \in SUBSET S
  OBVIOUS
<1>3. \A T \in SUBSET S : c[T] = Min(T)
  OBVIOUS
<1> HIDE DEF c
<1>4. IsUp(f, S, n)
  BY <1>1, <1>2, <1>3 DEF IsPick, IsUp
<1> QED BY <1>4

LEMMA DownExists ==
  ASSUME NEW S, NEW n \in Nat
  PROVE  \E f : IsDown(f, S, n)
<1> DEFINE c == [T \in SUBSET S |-> Max(T)]
<1>1. PICK f : IsPick(f, S, n, c)
  BY PickExists
<1>2. \A i : S \ {f[j] : j \in 1 .. i - 1} \in SUBSET S
  OBVIOUS
<1>3. \A T \in SUBSET S : c[T] = Max(T)
  OBVIOUS
<1> HIDE DEF c
<1>4. IsDown(f, S, n)
  BY <1>1, <1>2, <1>3 DEF IsPick, IsDown
<1> QED BY <1>4

LEMMA ScatteredChosen ==
  ASSUME TypeOK, NEW n \in Nat, NEW size, NEW pages \in Scattered(n, size)
  PROVE  Chosen(pages, n, size)
<1> DEFINE S == Available(size)
<1>1. n <= Cardinality(S)
  <2>1. ~(Cardinality(S) < n)
    BY DEF Scattered
  <2>2. Cardinality(S) \in Nat
    BY AvailableFacts, FS_CardinalityType
  <2> QED BY <2>1, <2>2
<1>2. \E f : IsUp(f, S, n)
  BY UpExists
<1>3. \E f : IsDown(f, S, n)
  BY DownExists
<1>4. \/ IsUp(pages, S, n)
      \/ IsDown(pages, S, n)
  <2>1. \/ pages = CHOOSE f : IsUp(f, S, n)
        \/ pages = CHOOSE f : IsDown(f, S, n)
    BY <1>1 DEF Scattered, IsUp, IsDown
  <2> HIDE DEF S
  <2> QED BY <1>2, <1>3, <2>1, Zenon
<1> QED BY <1>1, <1>4, UpChosen, DownChosen

LEMMA ContiguousChosen ==
  ASSUME TypeOK, NEW n \in Nat \ {0}, NEW size \in Nat \ {0}, NEW pages \in Contiguous(n, size)
  PROVE  Chosen(pages, n, size)
<1> DEFINE first == {p \in Available(size) :
                       \A i \in 0 .. n - 1 : p + i * size \in Available(size)}
<1>1. PICK p \in Ends(first) : pages = [i \in 1 .. n |-> p + (i - 1) * size]
  BY DEF Contiguous
<1>2. first \in SUBSET Available(size)
  OBVIOUS
<1>3. first \in SUBSET Nat /\ IsFiniteSet(first)
  <2> HIDE DEF first
  <2>1. IsFiniteSet(first)
    BY <1>2, AvailableFacts, FS_Subset, Zenon
  <2> QED BY <1>2, <2>1, AvailableFacts
<1>4. p \in first
  <2> HIDE DEF first
  <2> QED BY <1>1, <1>3, EndsIn
<1>5. p \in Nat
  <2> HIDE DEF first
  <2> QED BY <1>3, <1>4
<1>6. ASSUME NEW i \in 1 .. n PROVE pages[i] = p + (i - 1) * size /\ pages[i] \in Available(size)
  <2>1. i - 1 \in 0 .. n - 1
    OBVIOUS
  <2> QED BY <1>1, <1>4, <2>1
<1>7. ASSUME NEW i \in 1 .. n, NEW j \in 1 .. n, i < j PROVE pages[i] # pages[j]
  <2>1. i - 1 \in Nat /\ i \in Nat /\ j - 1 \in Nat /\ i <= j - 1
    BY <1>7
  <2>2. size * i <= size * (j - 1) /\ size * (j - 1) \in Nat /\ size * i \in Nat
    BY <2>1, ProductsGrow
  <2>3. size * i = (i - 1) * size + size /\ size * (j - 1) = (j - 1) * size
    BY <2>1
  <2>4. (i - 1) * size + size <= (j - 1) * size /\ (i - 1) * size \in Nat
    BY <2>1, <2>2, <2>3
  <2> DEFINE a == (i - 1) * size
             b == (j - 1) * size
  <2>5. a + size <= b /\ a \in Nat /\ b \in Nat
    BY <2>1, <2>4
  <2> HIDE DEF a, b
  <2>6. p + a # p + b
    BY <1>5, <2>5
  <2> QED BY <1>6, <2>6 DEF a, b
<1>8. pages \in [1 .. n -> Available(size)]
  <2>1. pages = [i \in 1 .. n |-> pages[i]]
    BY <1>1
  <2> HIDE DEF first
  <2> QED BY <1>6, <2>1
<1>9. ASSUME NEW i \in 1 .. n, NEW j \in 1 .. n, i # j PROVE pages[i] # pages[j]
  <2>1. i < j \/ j < i
    BY <1>9
  <2> QED BY <1>7, <2>1
<1> QED BY <1>8, <1>9 DEF Chosen

-----------------------------------------------------------------------------
(* The base pages of a page *)

LEMMA PagesSelf ==
  ASSUME NEW p \in Nat, NEW size \in pageSizes, p % size = 0
  PROVE  p \in Pages(p, size)
<1>1. p % BASE_PAGE = 0 /\ size \in Nat \ {0}
  BY BaseBoundary, SizeFacts
<1>2. p \in p .. p + size - 1
  BY <1>1
<1> QED BY <1>1, <1>2 DEF Pages, Divides

LEMMA PagesBase ==
  ASSUME NEW p \in Nat, p % BASE_PAGE = 0
  PROVE  Pages(p, BASE_PAGE) = {p}
<1>1. BASE_PAGE \in pageSizes /\ BASE_PAGE \in Nat \ {0}
  BY PageFacts DEF pageSizes
<1>2. p \in Pages(p, BASE_PAGE)
  BY <1>1, PagesSelf
<1>3. ASSUME NEW x \in Pages(p, BASE_PAGE) PROVE x = p
  <2>1. x \in p .. p + BASE_PAGE - 1 /\ x % BASE_PAGE = 0
    BY DEF Pages, Divides
  <2>2. x \in Nat /\ p <= x /\ x < p + BASE_PAGE
    BY <1>1, <2>1
  <2>3. ~(p < x)
    <3> SUFFICES ASSUME p < x PROVE FALSE
      OBVIOUS
    <3>1. p + BASE_PAGE <= x
      BY <1>1, <2>1, <2>2, BoundariesApart
    <3> QED BY <1>1, <2>2, <3>1
  <2> QED BY <2>2, <2>3
<1> QED BY <1>2, <1>3

LEMMA PagesApart ==
  ASSUME NEW p \in Nat, NEW q \in Nat, NEW size \in Nat \ {0},
         p % size = 0, q % size = 0, p # q
  PROVE  Pages(p, size) \cap Pages(q, size) = {}
<1> SUFFICES ASSUME NEW x \in Pages(p, size), x \in Pages(q, size) PROVE FALSE
  OBVIOUS
<1>1. x \in p .. p + size - 1 /\ x \in q .. q + size - 1
  BY DEF Pages
<1>2. CASE p < q
  <2>1. p + size <= q
    BY <1>2, BoundariesApart
  <2> QED BY <1>1, <2>1
<1>3. CASE q < p
  <2>1. q + size <= p
    BY <1>3, BoundariesApart
  <2> QED BY <1>1, <2>1
<1> QED BY <1>2, <1>3

LEMMA PagesJoin ==
  ASSUME NEW p \in Nat, NEW n \in Nat, NEW size \in Nat \ {0}
  PROVE  /\ Pages(p, 1 * size) = Pages(p, size)
         /\ Pages(p, (n + 1) * size) = Pages(p, n * size) \cup Pages(p + n * size, size)
<1> DEFINE m == n * size
<1>1. m \in Nat /\ (n + 1) * size = m + size /\ 1 * size = size
  OBVIOUS
<1> HIDE DEF m
<1>2. ASSUME NEW x
      PROVE  x \in p .. p + (m + size) - 1
               <=> x \in p .. p + m - 1 \/ x \in p + m .. p + m + size - 1
  BY <1>1
<1>3. Pages(p, m + size) = Pages(p, m) \cup Pages(p + m, size)
  BY <1>2 DEF Pages
<1> QED BY <1>1, <1>3 DEF m

-----------------------------------------------------------------------------
(* The tables, step by step *)

LEMMA NotATable ==
  ASSUME TypeOK
  PROVE  -1 \notin DOMAIN table
<1>1. DOMAIN table \subseteq RAM
  BY DEF TypeOK
<1> QED BY <1>1, RegionFacts

\* A table is added.
LEMMA TableAdded ==
  ASSUME TypeOK, MapOK, WalkOK, Tree,
         NEW p \in free, p \notin DOMAIN table, pc = "map", ~AtLeaf, NeedsTable,
         table' = [t \in DOMAIN table \cup {p} |->
                     CASE t = p -> EmptyTable
                       [] t = walk.table ->
                            [table[t] EXCEPT ![Index(job.virt, walk.level)] =
                                                 [frame |-> p, extended |-> FALSE]]
                       [] OTHER -> table[t]],
         Descend(p), UNCHANGED <<pc, job, start>>
  PROVE  /\ Grown /\ DOMAIN table' = DOMAIN table \cup {p}
         /\ \A t \in DOMAIN table' : DOMAIN table'[t] = 0 .. ENTRIES - 1
         /\ MapOK' /\ WalkOK' /\ Tree'
<1>0. PICK v, k, w : v = job.virt /\ k = walk.level /\ w = walk.table
  OBVIOUS
<1> DEFINE i == Index(v, k)
           s == Slot(v, k)
           new == [frame |-> p, extended |-> FALSE]
<1>1. PICK place : Placed(place)
  BY DEF Tree
<1>2. /\ v \in Nat /\ job.size \in pageSizes /\ k \in 0 .. 3
      /\ k <= pageSizeToDepth(job.size) - 1 /\ w \in DOMAIN table /\ i \in 0 .. ENTRIES - 1
      /\ place[w].level = k /\ place[w].region * ENTRIES + i = s
  BY <1>0, <1>1, AtWalk
<1>3. pageSizeToDepth(job.size) - 1 \in 1 .. 3
      /\ \A l \in 0 .. 3 : l < pageSizeToDepth(job.size) - 1 => job.size < Covers(l)
  BY <1>2, SizeFacts
<1>4. k < pageSizeToDepth(job.size) - 1 /\ k \in 0 .. 2 /\ job.size < Covers(k)
  <2>1. k # pageSizeToDepth(job.size) - 1
    BY <1>0 DEF AtLeaf
  <2>2. k < pageSizeToDepth(job.size) - 1 /\ k \in 0 .. 2
    BY <1>2, <1>3, <2>1
  <2> QED BY <1>2, <1>3, <2>2
<1>5. p \notin DOMAIN table /\ w # p
  BY <1>2
<1>6. /\ DOMAIN table' = DOMAIN table \cup {p} /\ table'[p] = EmptyTable
      /\ table'[w] = [table[w] EXCEPT ![i] = new]
      /\ \A t \in DOMAIN table : t # w => table'[t] = table[t]
  <2>1. DOMAIN table' = DOMAIN table \cup {p}
    OBVIOUS
  <2>2. table'[p] = EmptyTable
    BY <1>0, <1>5
  <2>3. table'[w] = [table[w] EXCEPT ![i] = new]
    BY <1>0, <1>2, <1>5
  <2>4. ASSUME NEW t \in DOMAIN table, t # w PROVE table'[t] = table[t]
    BY <1>0, <1>5, <2>4
  <2> QED BY <2>1, <2>2, <2>3, <2>4
<1>7. \A t \in DOMAIN table : DOMAIN table[t] = 0 .. ENTRIES - 1
  BY DEF TypeOK
<1>8. /\ table'[w][i] = new
      /\ \A j \in 0 .. ENTRIES - 1 : j # i => table'[w][j] = table[w][j]
      /\ DOMAIN table'[w] = 0 .. ENTRIES - 1
  <2> DEFINE f == table[w]
             g == table'[w]
             J == 0 .. ENTRIES - 1
  <2>1. DOMAIN f = J /\ g = [f EXCEPT ![i] = new] /\ i \in J
    BY <1>2, <1>6, <1>7
  <2> HIDE DEF f, g, J, i, new
  <2>2. g[i] = new /\ DOMAIN g = J /\ \A j \in J : j # i => g[j] = f[j]
    BY <2>1
  <2> QED BY <2>2 DEF f, g, J
<1>9. table[w][i] = NONE
  BY <1>0 DEF NeedsTable, Entry
<1> HIDE DEF i, s, new
<1>10. Grown
  <2>1. \A t \in DOMAIN table, j \in 0 .. ENTRIES - 1 :
          table[t][j] # NONE => table'[t][j] = table[t][j]
    BY <1>6, <1>8, <1>9
  <2> QED BY <1>6, <2>1 DEF Grown
<1>11. \A j \in 0 .. ENTRIES - 1 : table'[p][j] = NONE
  <2>1. \A j \in 0 .. ENTRIES - 1 : EmptyTable[j] = NONE
    BY DEF EmptyTable
  <2> QED BY <1>6, <2>1, Zenon
<1>12. \A t \in DOMAIN table' : DOMAIN table'[t] = 0 .. ENTRIES - 1
  <2>1. DOMAIN table'[p] = 0 .. ENTRIES - 1
    BY <1>6 DEF EmptyTable
  <2> QED BY <1>6, <1>7, <1>8, <2>1
<1>13. walk' = [table |-> p, level |-> k + 1]
  BY <1>0 DEF Descend
<1>14. MapOK'
  <2>1. /\ job \in [virt : Nat, pages : Seq(Nat), size : pageSizes]
        /\ job.virt % job.size = 0 /\ job.pages # <<>>
        /\ job.virt + Len(job.pages) * job.size <= start
    BY DEF MapOK
  <2>2. k + 1 \in 0 .. pageSizeToDepth(job.size) - 1
    BY <1>3, <1>4
  <2>3. walk' \in [table : DOMAIN table', level : 0 .. pageSizeToDepth(job'.size) - 1]
    BY <1>6, <1>13, <2>2
  <2>4. InPlace'
    BY DEF MapOK, InPlace
  <2> QED BY <2>1, <2>3, <2>4 DEF MapOK
<1>15. WalkOK'
  <2>1. ReadNext(w, i) = new /\ new.frame = p /\ ~new.extended
    BY <1>2, <1>6, <1>8 DEF ReadNext, new
  <2>2. /\ k = 0 => E0(v)' = new
        /\ k = 1 => E1(v)' = new
        /\ k = 2 => E2(v)' = new /\ ~E1(v)'.extended
    <3>1. new = ReadNext(walk.table, Index(v, walk.level)) /\ walk.table \in DOMAIN table
      BY <1>0, <1>2, <2>1 DEF i
    <3>2. /\ walk.level = 0 => E0(v)' = new
          /\ walk.level = 1 => E1(v)' = new
          /\ walk.level = 2 => E2(v)' = new /\ ~E1(v)'.extended
      BY <1>0, <1>2, <1>10, <3>1, NotATable, WalkThrough
    <3> QED BY <1>0, <3>2
  <2>3. v = job'.virt /\ walk'.level = k + 1 /\ walk'.table = p
    BY <1>0, <1>13
  <2>4. /\ walk'.level = 0 => walk'.table = ROOT
        /\ walk'.level = 1 => walk'.table = E0(v)'.frame
        /\ walk'.level = 2 => walk'.table = E1(v)'.frame /\ ~E1(v)'.extended
        /\ walk'.level = 3 => /\ walk'.table = E2(v)'.frame
                              /\ ~E1(v)'.extended /\ ~E2(v)'.extended
    BY <1>4, <2>1, <2>2, <2>3
  <2>5. \A x : x = job'.virt => E0(x)' = E0(job.virt)' /\ E1(x)' = E1(job.virt)'
                                /\ E2(x)' = E2(job.virt)'
    OBVIOUS
  <2> QED BY <2>3, <2>4, <2>5 DEF WalkOK
<1>16. Tree'
  <2>1. PICK place2 : place2 = [t \in DOMAIN table \cup {p} |->
                                  IF t = p THEN [level |-> k + 1, region |-> s] ELSE place[t]]
    OBVIOUS
  <2>2. place \in [DOMAIN table -> Places] /\ ROOT \in DOMAIN table
        /\ place[ROOT] = [level |-> 0, region |-> 0]
    BY <1>1 DEF Placed
  <2>3. s \in Nat /\ k \in 0 .. 3 /\ k + 1 \in 0 .. 3
    BY <1>2, <1>4, SlotsNest DEF s
  <2>4. /\ place2 \in [DOMAIN table' -> Places]
        /\ \A t \in DOMAIN table : place2[t] = place[t]
        /\ place2[p] = [level |-> k + 1, region |-> s]
    <3>1. \A t \in DOMAIN table : place2[t] = place[t]
      BY <1>5, <2>1
    <3>2. place2[p] = [level |-> k + 1, region |-> s]
      BY <2>1
    <3>3. [level |-> k + 1, region |-> s] \in Places
      BY <2>3 DEF Places
    <3>4. \A t \in DOMAIN table' : place2[t] \in Places
      BY <1>6, <2>2, <3>1, <3>2, <3>3
    <3>5. place2 = [t \in DOMAIN table' |-> place2[t]]
      BY <1>6, <2>1
    <3> QED BY <3>1, <3>2, <3>4, <3>5
  <2>5. Advances
    BY <1>0, <1>2 DEF Advances, Frontier
  <2>6. ASSUME NEW t \in DOMAIN table', NEW j \in 0 .. ENTRIES - 1
        PROVE  EntryOK(place2, t, j)'
    <3>1. CASE t = p
      <4>1. table'[t][j] = NONE
        BY <1>11, <3>1
      <4> QED BY <4>1 DEF EntryOK, NONE
    <3>2. CASE t = w /\ j = i
      <4>1. table'[t][j] = new /\ ~new.extended /\ new.frame = p
        BY <1>8, <3>2 DEF new
      <4>2. place2[t].level = k /\ place2[t].region * ENTRIES + j = s
        BY <1>2, <2>4, <3>2
      <4>3. Needed(s, k)'
        <5>1. s * Covers(k) \in Nat /\ s * Covers(k) <= v
          BY <1>2, SlotBounds DEF s
        <5>2. Frontier' = v /\ job'.virt = v /\ pc' = "map" /\ job'.size < Covers(k)
          BY <1>0, <1>4 DEF Frontier
        <5>3. s * Covers(k) < v \/ s * Covers(k) = v
          <6> DEFINE m == s * Covers(k)
          <6>1. m \in Nat /\ m <= v
            BY <5>1
          <6> HIDE DEF m
          <6>2. m < v \/ m = v
            BY <1>2, <6>1
          <6> QED BY <6>2 DEF m
        <5> QED BY <5>2, <5>3 DEF Needed
      <4>4. k < 3 /\ p \in DOMAIN table' /\ place2[p] = [level |-> k + 1, region |-> s]
        BY <1>4, <1>6, <2>4
      <4> QED BY <4>1, <4>2, <4>3, <4>4 DEF EntryOK
    <3>3. CASE t # p /\ ~(t = w /\ j = i)
      <4>1. t \in DOMAIN table /\ table'[t][j] = table[t][j]
        BY <1>6, <1>8, <3>3
      <4>2. DOMAIN table \subseteq DOMAIN table'
        BY <1>6
      <4> QED BY <1>1, <2>4, <2>5, <4>1, <4>2, EntryKept
    <3> QED BY <3>1, <3>2, <3>3
  <2>7. place2[walk'.table] = [level |-> walk'.level,
                               region |-> Slot(job'.virt, walk'.level) \div ENTRIES]
    <3>1. walk'.table = p /\ walk'.level = k + 1 /\ job'.virt = v
      BY <1>0, <1>13
    <3>2. s = Slot(v, k + 1) \div ENTRIES
      BY <1>2, <1>4, SlotsNest DEF s
    <3> QED BY <2>4, <3>1, <3>2
  <2>8. ROOT \in DOMAIN table' /\ place2[ROOT] = [level |-> 0, region |-> 0]
    BY <1>6, <2>2, <2>4
  <2>9. Placed(place2)'
    BY <2>4, <2>6, <2>7, <2>8 DEF Placed
  <2> QED BY <2>9 DEF Tree
<1> QED BY <1>6, <1>10, <1>12, <1>14, <1>15, <1>16

\* The tables stay as they are, and the walk is at a table for what it maps.
LEMMA TreeKept ==
  ASSUME TypeOK, NEW place, Placed(place), Advances, table' = table,
         pc' = "map" => place[walk'.table] = [level |-> walk'.level,
                                region |-> Slot(job'.virt, walk'.level) \div ENTRIES]
  PROVE  Tree'
<1>1. ASSUME NEW t \in DOMAIN table, NEW i \in 0 .. ENTRIES - 1
      PROVE  EntryOK(place, t, i)'
  <2>1. table'[t][i] = table[t][i]
    OBVIOUS
  <2>2. \A x \in DOMAIN table : place[x] = place[x]
    OBVIOUS
  <2>3. DOMAIN table \subseteq DOMAIN table'
    OBVIOUS
  <2> QED BY <2>1, <2>2, <2>3, EntryKept
<1>2. /\ place \in [DOMAIN table -> Places] /\ ROOT \in DOMAIN table
      /\ place[ROOT] = [level |-> 0, region |-> 0]
  BY DEF Placed
<1>3. Placed(place)'
  BY <1>1, <1>2 DEF Placed
<1> QED BY <1>3 DEF Tree

\* A walk that begins is at the root.
LEMMA WalkBegins ==
  ASSUME NEW v \in Nat, v < END
  PROVE  [level |-> 0, region |-> 0] = [level |-> 0, region |-> Slot(v, 0) \div ENTRIES]
BY RootRegion

\* The walk goes down to a table that is there.
LEMMA WalkDescends ==
  ASSUME TypeOK, MapOK, WalkOK, Tree, pc = "map", ~AtLeaf, ~NeedsTable
  PROVE  /\ Entry.frame \in DOMAIN table
         /\ Descend(Entry.frame) /\ UNCHANGED <<table, pc, job, start>> =>
              MapOK' /\ WalkOK' /\ Tree'
<1>0. PICK v, k, w : v = job.virt /\ k = walk.level /\ w = walk.table
  OBVIOUS
<1>1. PICK place : Placed(place)
  BY DEF Tree
<1>2. /\ v \in Nat /\ job.size \in pageSizes /\ k \in 0 .. 3
      /\ k <= pageSizeToDepth(job.size) - 1 /\ w \in DOMAIN table
      /\ Index(v, k) \in 0 .. ENTRIES - 1
  BY <1>0, <1>1, AtWalk
<1>3. PICK e : e = Entry
  OBVIOUS
<1>5. k < pageSizeToDepth(job.size) - 1 /\ pageSizeToDepth(job.size) - 1 \in 1 .. 3
  <2>1. k # pageSizeToDepth(job.size) - 1
    BY <1>0 DEF AtLeaf
  <2>2. pageSizeToDepth(job.size) - 1 \in 1 .. 3
    BY <1>2, SizeFacts
  <2> QED BY <1>2, <2>1, <2>2
<1>4. /\ k < 3 /\ ~e.extended /\ e.frame \in DOMAIN table
      /\ place[e.frame] = [level |-> k + 1, region |-> Slot(v, k)]
  <2>1. k # 3
    BY <1>2, <1>5
  <2> QED BY <1>0, <1>1, <1>3, <2>1, AtWalk DEF NeedsTable
<1> SUFFICES ASSUME Descend(e.frame), UNCHANGED <<table, pc, job, start>>
             PROVE  MapOK' /\ WalkOK' /\ Tree'
  BY <1>3, <1>4
<1>6. walk' = [table |-> e.frame, level |-> k + 1]
  BY <1>0 DEF Descend
<1>7. MapOK'
  <2>1. /\ job \in [virt : Nat, pages : Seq(Nat), size : pageSizes]
        /\ job.virt % job.size = 0 /\ job.pages # <<>>
        /\ job.virt + Len(job.pages) * job.size <= start
    BY DEF MapOK
  <2>2. k + 1 \in 0 .. pageSizeToDepth(job.size) - 1
    BY <1>2, <1>5
  <2>3. walk' \in [table : DOMAIN table', level : 0 .. pageSizeToDepth(job'.size) - 1]
    BY <1>4, <1>6, <2>2
  <2>4. InPlace'
    BY DEF MapOK, InPlace
  <2> QED BY <2>1, <2>3, <2>4 DEF MapOK
<1>8. WalkOK'
  <2>0. Grown
    BY DEF Grown
  <2>1. e = ReadNext(walk.table, Index(v, walk.level)) /\ walk.table \in DOMAIN table
    BY <1>0, <1>2, <1>3 DEF ReadNext, Entry
  <2>2. /\ walk.level = 0 => E0(v)' = e
        /\ walk.level = 1 => E1(v)' = e
        /\ walk.level = 2 => E2(v)' = e /\ ~E1(v)'.extended
    BY <1>0, <1>2, <2>0, <2>1, NotATable, WalkThrough
  <2>3. v = job'.virt /\ walk'.level = k + 1 /\ walk'.table = e.frame
    BY <1>0, <1>6
  <2>4. /\ walk'.level = 0 => walk'.table = ROOT
        /\ walk'.level = 1 => walk'.table = E0(v)'.frame
        /\ walk'.level = 2 => walk'.table = E1(v)'.frame /\ ~E1(v)'.extended
        /\ walk'.level = 3 => /\ walk'.table = E2(v)'.frame
                              /\ ~E1(v)'.extended /\ ~E2(v)'.extended
    BY <1>0, <1>2, <1>4, <2>2, <2>3
  <2> QED BY <2>3, <2>4 DEF WalkOK
<1>9. Tree'
  <2>1. Advances
    BY <1>0, <1>2 DEF Advances, Frontier
  <2>2. place[walk'.table] = [level |-> walk'.level,
                              region |-> Slot(job'.virt, walk'.level) \div ENTRIES]
    <3>1. walk'.table = e.frame /\ walk'.level = k + 1 /\ job'.virt = v /\ k \in 0 .. 2
      BY <1>0, <1>2, <1>4, <1>6
    <3>2. Slot(v, k) = Slot(v, k + 1) \div ENTRIES
      BY <1>2, <3>1, SlotsNest
    <3> QED BY <1>4, <3>1, <3>2
  <2> QED BY <1>1, <2>1, <2>2, TreeKept
<1> QED BY <1>7, <1>8, <1>9

\* The job of a mapping, one page further.
LEMMA JobShrinks ==
  ASSUME NEW P, NEW j \in [virt : Nat, pages : P, size : pageSizes], NEW k,
         k = [j EXCEPT !.virt = @ + j.size, !.pages = Tail(@)]
  PROVE  /\ k.virt = j.virt + j.size /\ k.pages = Tail(j.pages) /\ k.size = j.size
         /\ k = [virt |-> k.virt, pages |-> k.pages, size |-> k.size]
<1>1. j = [virt |-> j.virt, pages |-> j.pages, size |-> j.size]
  OBVIOUS
<1>2. k = [virt |-> j.virt + j.size, pages |-> Tail(j.pages), size |-> j.size]
  BY <1>1
<1> QED BY <1>2

\* What is left of the job when a page is mapped.
LEMMA JobLeft ==
  ASSUME TypeOK, MapOK, MapLeaf
  PROVE  /\ job.virt \in Nat /\ job.size \in pageSizes /\ job.size \in Nat \ {0}
         /\ job.virt % job.size = 0
         /\ Len(job.pages) \in Nat \ {0} /\ DOMAIN job.pages = 1 .. Len(job.pages)
         /\ Head(job.pages) = job.pages[1] /\ \A i \in DOMAIN job.pages : job.pages[i] \in Nat
         /\ job'.virt = job.virt + job.size /\ job'.size = job.size
         /\ job' \in [virt : Nat, pages : Seq(Nat), size : pageSizes]
         /\ DOMAIN job'.pages = 1 .. Len(job.pages) - 1
         /\ \A i \in 1 .. Len(job.pages) - 1 : job'.pages[i] = job.pages[i + 1]
         /\ Len(job'.pages) = Len(job.pages) - 1
         /\ job'.virt + Len(job'.pages) * job'.size = job.virt + Len(job.pages) * job.size
         /\ job'.virt + Len(job'.pages) * job'.size <= start
         /\ job'.virt <= start
         /\ pc' = "map" <=> Len(job.pages) # 1
         /\ pc' = IF Len(job.pages) = 1 THEN "idle" ELSE "map"
<1>0. pc = "map" /\ job' = [job EXCEPT !.virt = @ + job.size, !.pages = Tail(@)]
      /\ pc' = IF Len(job.pages) = 1 THEN "idle" ELSE "map"
  BY DEF MapLeaf
<1>1. /\ job \in [virt : Nat, pages : Seq(Nat), size : pageSizes]
      /\ job.virt % job.size = 0 /\ job.pages # <<>>
      /\ job.virt + Len(job.pages) * job.size <= start
  BY <1>0 DEF MapOK
<1>2. PICK q : q = job.pages
  OBVIOUS
<1>3. q \in Seq(Nat) /\ q # <<>>
  BY <1>1, <1>2
<1>4. /\ Len(q) \in Nat \ {0} /\ DOMAIN q = 1 .. Len(q) /\ Head(q) = q[1]
      /\ \A i \in DOMAIN q : q[i] \in Nat
      /\ Tail(q) \in Seq(Nat) /\ Len(Tail(q)) = Len(q) - 1
      /\ DOMAIN Tail(q) = 1 .. Len(q) - 1
      /\ \A i \in 1 .. Len(q) - 1 : Tail(q)[i] = q[i + 1]
  BY <1>3
<1>5. job.virt \in Nat /\ job.size \in pageSizes /\ job.size \in Nat \ {0}
  BY <1>1, SizeFacts
<1>6. /\ job'.virt = job.virt + job.size /\ job'.pages = Tail(q) /\ job'.size = job.size
      /\ job' = [virt |-> job'.virt, pages |-> job'.pages, size |-> job'.size]
  <2>1. PICK P : P = Seq(Nat)
    OBVIOUS
  <2>2. job \in [virt : Nat, pages : P, size : pageSizes]
    BY <1>1, <2>1
  <2> QED BY <1>0, <1>2, <2>2, JobShrinks
<1>7. job' \in [virt : Nat, pages : Seq(Nat), size : pageSizes]
  <2>1. PICK P : P = Seq(Nat)
    OBVIOUS
  <2>2. job'.virt \in Nat /\ job'.pages \in P /\ job'.size \in pageSizes
    BY <1>4, <1>5, <1>6, <2>1
  <2>3. job' \in [virt : Nat, pages : P, size : pageSizes]
    BY <1>6, <2>2
  <2> QED BY <2>1, <2>3
<1>8. PICK n, m, v : n = Len(q) /\ m = job.size /\ v = job.virt
  OBVIOUS
<1>9. n \in Nat \ {0} /\ m \in Nat \ {0} /\ v \in Nat /\ v + n * m <= start
  BY <1>1, <1>2, <1>4, <1>5, <1>8
<1>10. (v + m) + (n - 1) * m = v + n * m /\ n - 1 \in Nat /\ (n - 1) * m \in Nat
  BY <1>9
<1>11. v + m <= start
  <2>1. start \in Nat
    BY StartType
  <2> QED BY <1>9, <1>10, <2>1
<1>12. /\ job'.virt = v + m /\ Len(job'.pages) = n - 1 /\ job'.size = m
  BY <1>4, <1>6, <1>8
<1>13. /\ job'.virt + Len(job'.pages) * job'.size = job.virt + Len(job.pages) * job.size
       /\ job'.virt + Len(job'.pages) * job'.size <= start /\ job'.virt <= start
  BY <1>2, <1>8, <1>9, <1>10, <1>11, <1>12
<1>14. pc' = "map" <=> Len(job.pages) # 1
  BY <1>0
<1>15. /\ Len(job.pages) \in Nat \ {0} /\ DOMAIN job.pages = 1 .. Len(job.pages)
       /\ Head(job.pages) = job.pages[1] /\ \A i \in DOMAIN job.pages : job.pages[i] \in Nat
       /\ DOMAIN job'.pages = 1 .. Len(job.pages) - 1
       /\ \A i \in 1 .. Len(job.pages) - 1 : job'.pages[i] = job.pages[i + 1]
       /\ Len(job'.pages) = Len(job.pages) - 1
  BY <1>2, <1>4, <1>6
<1> QED BY <1>0, <1>1, <1>5, <1>6, <1>7, <1>13, <1>14, <1>15

\* A page is mapped: the entry that was written, and where the next walk begins.
LEMMA PageMapped ==
  ASSUME TypeOK, MapOK, WalkOK, Tree, MapLeaf
  PROVE  /\ Grown /\ DOMAIN table' = DOMAIN table
         /\ \A t \in DOMAIN table' : DOMAIN table'[t] = 0 .. ENTRIES - 1
         /\ MapOK' /\ WalkOK' /\ Tree'
         /\ job.virt + job.size <= Frontier' /\ Frontier' \in Nat
         /\ \A v : v = job.virt =>
              Found(v)' = [phys |-> Head(job.pages), size |-> job.size]
<1>0. PICK v, k, w, m : v = job.virt /\ k = walk.level /\ w = walk.table /\ m = job.size
  OBVIOUS
<1> DEFINE i == Index(v, k)
           s == Slot(v, k)
<1>1. PICK place : Placed(place)
  BY DEF Tree
<1>2. PICK new : new = [frame |-> Head(job.pages), extended |-> job.size # BASE_PAGE]
  OBVIOUS
<1>3. /\ pc = "map" /\ AtLeaf /\ table' = [table EXCEPT ![w][i] = new]
      /\ walk' = [table |-> ROOT, level |-> 0] /\ start' = start
  BY <1>0, <1>2 DEF MapLeaf
<1>4. /\ v \in Nat /\ m \in pageSizes /\ k \in 0 .. 3 /\ w \in DOMAIN table
      /\ i \in 0 .. ENTRIES - 1 /\ place[w].level = k /\ place[w].region * ENTRIES + i = s
      /\ table[w][i] = NONE \/ (v < START /\ table[w][i] = [frame |-> v, extended |-> FALSE])
      /\ Covers(k) = m /\ s * m = v
  <2>1. Entry = table[w][i]
    BY <1>0 DEF Entry
  <2> QED BY <1>0, <1>1, <1>3, <2>1, AtWalk DEF ScreenEntry
<1>5. k = pageSizeToDepth(m) - 1
  BY <1>0, <1>3 DEF AtLeaf
<1>6. /\ m \in Nat \ {0} /\ k \in 1 .. 3 /\ (k = 3 <=> m = BASE_PAGE)
      /\ (k = 2 <=> m = LARGE_PAGE) /\ (k = 1 <=> m = HUGE_PAGE)
  BY <1>4, <1>5, SizeFacts
<1>7. \A t \in DOMAIN table : DOMAIN table[t] = 0 .. ENTRIES - 1
  BY DEF TypeOK
<1> HIDE DEF i, s
<1>8. /\ DOMAIN table' = DOMAIN table /\ table'[w] = [table[w] EXCEPT ![i] = new]
      /\ \A t \in DOMAIN table : t # w => table'[t] = table[t]
  BY <1>3, <1>4
<1>9. /\ table'[w][i] = new
      /\ \A j \in 0 .. ENTRIES - 1 : j # i => table'[w][j] = table[w][j]
      /\ DOMAIN table'[w] = 0 .. ENTRIES - 1
  <2> DEFINE f == table[w]
             g == table'[w]
             J == 0 .. ENTRIES - 1
  <2>1. DOMAIN f = J /\ g = [f EXCEPT ![i] = new] /\ i \in J
    BY <1>4, <1>7, <1>8
  <2> HIDE DEF f, g, J
  <2>2. g[i] = new /\ DOMAIN g = J /\ \A j \in J : j # i => g[j] = f[j]
    BY <2>1
  <2> QED BY <2>2 DEF f, g, J
<1>10. Grown
  <2>1. table[w][i] # NONE => new = table[w][i]
    <3> HAVE table[w][i] # NONE
    <3>1. v < START /\ table[w][i] = [frame |-> v, extended |-> FALSE]
      BY <1>4
    <3>2. m = BASE_PAGE /\ \A j \in DOMAIN job.pages : job.pages[j] = v + (j - 1) * BASE_PAGE
      BY <1>0, <1>3, <3>1 DEF MapOK, InPlace
    <3>3. Head(job.pages) = job.pages[1] /\ 1 \in DOMAIN job.pages
      <4>1. Len(job.pages) \in Nat \ {0} /\ DOMAIN job.pages = 1 .. Len(job.pages)
            /\ Head(job.pages) = job.pages[1]
        BY JobLeft
      <4> QED BY <4>1
    <3>4. Head(job.pages) = v
      <4>1. v + (1 - 1) * BASE_PAGE = v
        BY <1>4, PageFacts
      <4> QED BY <3>2, <3>3, <4>1
    <3>5. (job.size # BASE_PAGE) = FALSE
      BY <1>0, <3>2
    <3> QED BY <1>2, <3>1, <3>4, <3>5, Zenon
  <2>2. \A t \in DOMAIN table, j \in 0 .. ENTRIES - 1 :
          table[t][j] # NONE => table'[t][j] = table[t][j]
    BY <1>4, <1>8, <1>9, <2>1
  <2> QED BY <1>8, <2>2 DEF Grown
<1>11. \A t \in DOMAIN table' : DOMAIN table'[t] = 0 .. ENTRIES - 1
  BY <1>7, <1>8, <1>9
<1>12. ROOT \in DOMAIN table /\ place[ROOT] = [level |-> 0, region |-> 0]
       /\ place \in [DOMAIN table -> Places]
  BY <1>1 DEF Placed
<1>13. MapOK'
  <2> SUFFICES ASSUME pc' = "map"
               PROVE  /\ job' \in [virt : Nat, pages : Seq(Nat), size : pageSizes]
                      /\ job'.virt % job'.size = 0 /\ job'.pages # <<>>
                      /\ job'.virt + Len(job'.pages) * job'.size <= start'
                      /\ walk' \in [table : DOMAIN table', level : 0 .. pageSizeToDepth(job'.size) - 1]
                      /\ InPlace'
    BY DEF MapOK
  <2>1. job' \in [virt : Nat, pages : Seq(Nat), size : pageSizes]
        /\ job'.virt + Len(job'.pages) * job'.size <= start'
    BY <1>3, JobLeft
  <2>2. job'.virt % job'.size = 0
    <3>1. job'.virt = v + m /\ job'.size = m /\ v % m = 0
      BY <1>0, JobLeft
    <3>2. (v + m) % m = 0
      BY <1>4, <1>6, <3>1, NextBoundary
    <3> QED BY <3>1, <3>2
  <2>3. job'.pages # <<>>
    <3>1. Len(job'.pages) = Len(job.pages) - 1 /\ Len(job.pages) # 1 /\ Len(job.pages) \in Nat
      BY JobLeft
    <3>2. Len(job'.pages) # 0
      BY <3>1
    <3> QED BY <3>2
  <2>4. walk' \in [table : DOMAIN table', level : 0 .. pageSizeToDepth(job'.size) - 1]
    <3>1. job'.size = m /\ 0 \in 0 .. k
      BY <1>0, <1>6, JobLeft
    <3> QED BY <1>3, <1>5, <1>8, <1>12, <3>1
  <2>5. InPlace'
    <3>1. job'.virt = v + m /\ job'.size = m /\ Len(job.pages) \in Nat
          /\ DOMAIN job.pages = 1 .. Len(job.pages) /\ DOMAIN job'.pages = 1 .. Len(job.pages) - 1
          /\ \A j \in 1 .. Len(job.pages) - 1 : job'.pages[j] = job.pages[j + 1]
      BY <1>0, JobLeft
    <3> SUFFICES ASSUME v + m < START
                 PROVE  /\ m = BASE_PAGE
                        /\ \A j \in DOMAIN job'.pages : job'.pages[j] = (v + m) + (j - 1) * BASE_PAGE
      BY <3>1 DEF InPlace, BASE_PAGE
    <3>2. v < START
      BY <1>4, <1>6, RegionFacts
    <3>3. m = BASE_PAGE /\ \A j \in DOMAIN job.pages : job.pages[j] = v + (j - 1) * BASE_PAGE
      BY <1>0, <1>3, <3>2 DEF MapOK, InPlace
    <3>4. ASSUME NEW j \in DOMAIN job'.pages PROVE job'.pages[j] = (v + m) + (j - 1) * BASE_PAGE
      <4>1. j + 1 \in DOMAIN job.pages /\ j \in Nat /\ job'.pages[j] = job.pages[j + 1]
        BY <3>1
      <4>2. job.pages[j + 1] = v + ((j + 1) - 1) * BASE_PAGE
        BY <3>3, <4>1
      <4>3. v + ((j + 1) - 1) * m = (v + m) + (j - 1) * m
        BY <1>4, <1>6, <4>1
      <4> QED BY <3>3, <4>1, <4>2, <4>3
    <3> QED BY <3>3, <3>4
  <2> QED BY <2>1, <2>2, <2>3, <2>4, <2>5
<1>14. WalkOK'
  BY <1>3 DEF WalkOK
<1>15. Frontier' \in Nat /\ v + m <= Frontier'
  <2>1. job'.virt = v + m /\ job'.virt <= start /\ v + m \in Nat
    BY <1>0, <1>4, <1>6, JobLeft
  <2>2. start \in Nat
    BY StartType
  <2> QED BY <1>3, <2>1, <2>2 DEF Frontier
<1>16. Tree'
  <2>1. Advances
    <3>1. Frontier = v
      BY <1>0, <1>3 DEF Frontier
    <3>2. v < Frontier' /\ v <= Frontier'
      BY <1>4, <1>6, <1>15
    <3> QED BY <1>0, <1>4, <1>15, <3>1, <3>2 DEF Advances
  <2>2. ASSUME NEW t \in DOMAIN table', NEW j \in 0 .. ENTRIES - 1
        PROVE  EntryOK(place, t, j)'
    <3>1. CASE t = w /\ j = i
      <4>1. table'[t][j] = new /\ new.extended = (m # BASE_PAGE)
        BY <1>0, <1>2, <1>9, <3>1
      <4>2. place[t].level = k /\ place[t].region * ENTRIES + j = s
        BY <1>4, <3>1
      <4>3. k = 3 \/ new.extended
        BY <1>6, <4>1
      <4>4. (s + 1) * Covers(k) <= Frontier'
        <5>1. s \in Nat
          BY <1>4, SlotsNest DEF s
        <5>2. (s + 1) * m = s * m + m
          BY <1>6, <5>1
        <5> QED BY <1>4, <1>15, <5>2
      <4> QED BY <4>1, <4>2, <4>3, <4>4 DEF EntryOK
    <3>2. CASE ~(t = w /\ j = i)
      <4>1. t \in DOMAIN table /\ table'[t][j] = table[t][j]
        BY <1>8, <1>9, <3>2
      <4>2. DOMAIN table \subseteq DOMAIN table' /\ \A x \in DOMAIN table : place[x] = place[x]
        BY <1>8
      <4> QED BY <1>1, <2>1, <4>1, <4>2, EntryKept
    <3> QED BY <3>1, <3>2
  <2>3. pc' = "map" => place[walk'.table] = [level |-> walk'.level,
                               region |-> Slot(job'.virt, walk'.level) \div ENTRIES]
    <3> HAVE pc' = "map"
    <3>1. job'.virt \in Nat /\ job'.virt < END
      <4>1. /\ job'.virt \in Nat /\ Len(job'.pages) \in Nat \ {0} /\ job'.size \in Nat \ {0}
            /\ job'.virt + Len(job'.pages) * job'.size <= start
        <5>1. Len(job'.pages) = Len(job.pages) - 1 /\ Len(job.pages) \in Nat \ {0}
              /\ Len(job.pages) # 1
          BY JobLeft
        <5>2. Len(job'.pages) \in Nat \ {0}
          BY <5>1
        <5> QED BY <5>2, JobLeft
      <4>2. start \in Nat /\ start <= END /\ END \in Nat
        BY StartType, RegionFacts
      <4>3. job'.size * 1 <= job'.size * Len(job'.pages)
            /\ job'.size * Len(job'.pages) = Len(job'.pages) * job'.size
        BY <4>1, ProductsGrow
      <4>4. PICK a, b, c : a = job'.virt /\ b = Len(job'.pages) * job'.size /\ c = job'.size
        OBVIOUS
      <4>5. a \in Nat /\ c \in Nat \ {0} /\ c <= b /\ a + b <= start /\ b \in Nat
        BY <4>1, <4>3, <4>4
      <4>6. a < END
        BY <4>2, <4>5
      <4> QED BY <4>1, <4>4, <4>6
    <3> QED BY <1>3, <1>12, <3>1, WalkBegins
  <2>4. Placed(place)'
    BY <1>8, <1>12, <2>2, <2>3 DEF Placed
  <2> QED BY <2>4 DEF Tree
<1>17. Found(v)' = [phys |-> Head(job.pages), size |-> m]
  <2>1. new = ReadNext(walk.table, Index(v, walk.level)) /\ walk.table \in DOMAIN table
    BY <1>0, <1>4, <1>8, <1>9 DEF ReadNext, i
  <2>2. /\ k = 1 => E1(v)' = new
        /\ k = 2 => E2(v)' = new /\ ~E1(v)'.extended
        /\ k = 3 => E3(v)' = new /\ ~E1(v)'.extended /\ ~E2(v)'.extended
    BY <1>0, <1>3, <1>4, <1>10, <2>1, NotATable, WalkThrough
  <2>3. new.frame = Head(job.pages) /\ (k # 3 => new.extended)
    BY <1>0, <1>2, <1>6
  <2> QED BY <1>6, <2>2, <2>3, FoundNext
<1> QED BY <1>0, <1>8, <1>10, <1>11, <1>13, <1>14, <1>15, <1>16, <1>17

-----------------------------------------------------------------------------
(* The uses of the frames, rearranged *)

LEMMA SizeIn ==
  ASSUME NEW M, NEW F, WellMapped(M, F), NEW p \in M
  PROVE  p.virt \in Nat /\ p.size \in pageSizes /\ p.size \in Nat \ {0} /\ p.phys \in RAM \cup SCREEN
         /\ p.phys \in Nat
<1>1. p \in MappedPages
  BY DEF WellMapped
<1>2. p.virt \in Nat /\ p.size \in pageSizes /\ p.phys \in RAM \cup SCREEN
  BY <1>1 DEF MappedPages
<1> QED BY <1>2, SizeFacts, RegionFacts

\* Memory is taken for a job.
LEMMA JobTakes ==
  ASSUME NEW F, NEW T, NEW M, NEW X, Apart(F, T, {}, M), Kept(F, T, {}, M), X \subseteq F,
         X \cap KernelFrames = {}
  PROVE  Apart(F \ X, T, X, M) /\ Kept(F \ X, T, X, M)
<1>1. Apart(F \ X, T, X, M)
  BY DEF Apart
<1>2. Kept(F \ X, T, X, M)
  BY DEF Kept
<1> QED BY <1>1, <1>2

\* A frame becomes a table.
LEMMA TableTakes ==
  ASSUME NEW F, NEW T, NEW J, NEW M, Apart(F, T, J, M), Kept(F, T, J, M), NEW x \in F
  PROVE  Apart(F \ {x}, T \cup {x}, J, M) /\ Kept(F \ {x}, T \cup {x}, J, M)
<1>1. Apart(F \ {x}, T \cup {x}, J, M)
  BY DEF Apart
<1>2. Kept(F \ {x}, T \cup {x}, J, M)
  BY DEF Kept
<1> QED BY <1>1, <1>2

\* A page of the job is mapped.
LEMMA PageTakes ==
  ASSUME NEW F, NEW T, NEW J, NEW M, Apart(F, T, J, M), Kept(F, T, J, M), NEW p,
         FramesOf(p) \subseteq J
  PROVE  /\ Apart(F, T, J \ FramesOf(p), M \cup {p})
         /\ Kept(F, T, J \ FramesOf(p), M \cup {p})
<1>1. Apart(F, T, J \ FramesOf(p), M \cup {p})
  <2>1. ASSUME NEW q \in M PROVE FramesOf(q) \cap FramesOf(p) = {}
    BY DEF Apart
  <2>2. FramesOf(p) \cap F = {} /\ FramesOf(p) \cap T = {}
    BY DEF Apart
  <2> QED BY <2>1, <2>2 DEF Apart
<1>2. Kept(F, T, J \ FramesOf(p), M \cup {p})
  BY DEF Kept
<1> QED BY <1>1, <1>2

\* A page is collected.
LEMMA PageCollected ==
  ASSUME NEW F, NEW T, NEW J, NEW M, Apart(F, T, J, M), Kept(F, T, J, M), NEW p \in M
  PROVE  /\ Apart(F, T, J \cup FramesOf(p), M \ {p})
         /\ Kept(F, T, J \cup FramesOf(p), M \ {p})
<1>1. Apart(F, T, J \cup FramesOf(p), M \ {p})
  BY DEF Apart
<1>2. Kept(F, T, J \cup FramesOf(p), M \ {p})
  BY DEF Kept
<1> QED BY <1>1, <1>2

\* The job's memory is given back.
LEMMA JobGives ==
  ASSUME NEW F, NEW T, NEW J, NEW M, Apart(F, T, J, M), Kept(F, T, J, M)
  PROVE  Apart(F \cup J, T, {}, M) /\ Kept(F \cup J, T, {}, M)
<1>1. Apart(F \cup J, T, {}, M)
  BY DEF Apart
<1>2. Kept(F \cup J, T, {}, M)
  BY DEF Kept
<1> QED BY <1>1, <1>2

\* The first page that is ahead is where freeMapped is, and the others are behind it.
LEMMA FirstAhead ==
  ASSUME NEW M, NEW F, WellMapped(M, F), NEW rest \in SUBSET M, NEW at \in Nat, NEW end \in Nat,
         Ahead(rest, at, end), at < end
  PROVE  \E g \in rest : g.virt = at /\ Ahead(rest \ {g}, at + g.size, end)
<1>1. at \in at .. end - 1
  OBVIOUS
<1>2. PICK g \in rest : g.virt <= at /\ at < g.virt + g.size
  BY <1>1 DEF Ahead
<1>3. \A x \in rest : x.virt \in Nat /\ x.size \in Nat \ {0}
  BY SizeIn
<1>4. g.virt = at
  <2>1. at <= g.virt
    BY DEF Ahead
  <2> QED BY <1>2, <1>3, <2>1
<1>5. ASSUME NEW x \in rest \ {g} PROVE at + g.size <= x.virt /\ x.virt < end /\ START <= x.virt
  <2>1. at <= x.virt /\ x.virt < end /\ START <= x.virt
    BY DEF Ahead
  <2>2. g.virt + g.size <= x.virt \/ x.virt + x.size <= g.virt
    BY DEF WellMapped
  <2>3. x.virt \in Nat /\ x.size \in Nat \ {0} /\ g.size \in Nat \ {0}
    BY <1>3
  <2> QED BY <1>4, <2>1, <2>2, <2>3
<1>6. ASSUME NEW b \in at + g.size .. end - 1
      PROVE  \E x \in rest \ {g} : x.virt <= b /\ b < x.virt + x.size
  <2>1. g.size \in Nat \ {0}
    BY <1>3
  <2>2. b \in at .. end - 1 /\ ~(b < at + g.size)
    BY <2>1
  <2>3. PICK x \in rest : x.virt <= b /\ b < x.virt + x.size
    BY <2>2 DEF Ahead
  <2>4. x # g
    BY <1>4, <2>2, <2>3
  <2> QED BY <2>3, <2>4
<1>7. Ahead(rest \ {g}, at + g.size, end)
  BY <1>5, <1>6 DEF Ahead
<1> QED BY <1>4, <1>7

\* What a caller gives up lies ahead of the first page that is freed.
LEMMA GivenAhead ==
  ASSUME NEW M, NEW F, WellMapped(M, F), NEW p \in M, START <= p.virt, NEW q \in M,
         p.virt <= q.virt, NEW from \in p.virt .. p.virt + p.size - 1, NEW end,
         end = q.virt + q.size,
         \A b \in from .. end - 1 : \E x \in M : x.virt <= b /\ b < x.virt + x.size,
         NEW at, at = AlignUp(from, p.size), NEW given, given = {x \in M : at <= x.virt /\ x.virt < end}
  PROVE  /\ at \in Nat /\ end \in Nat /\ from \in Nat
         /\ at # from /\ at >= end => given = {}
         /\ ~(at # from /\ at >= end) => Ahead(given, at, end) /\ at < end
<1>1. \A x \in M : x.virt \in Nat /\ x.size \in Nat \ {0}
  BY SizeIn
<1>2. p.virt \in Nat /\ p.size \in Nat \ {0} /\ q.virt \in Nat /\ q.size \in Nat \ {0}
  BY <1>1
<1>3. from \in Nat /\ p.virt <= from /\ from < p.virt + p.size /\ end \in Nat /\ p.virt < end
  BY <1>2
<1>4. at = IF from = p.virt THEN p.virt ELSE p.virt + p.size
  <2>1. p.virt % p.size = 0
    BY DEF WellMapped
  <2> QED BY <1>2, <1>3, <2>1, RoundsTo
<1>5. at \in Nat /\ p.virt <= at
  BY <1>2, <1>4
<1>6. ASSUME at # from, at >= end PROVE given = {}
  <2>1. ASSUME NEW x \in M, at <= x.virt, x.virt < end PROVE FALSE
    BY <1>1, <1>3, <1>5, <1>6, <2>1
  <2> QED BY <2>1
<1>7. ASSUME ~(at # from /\ at >= end) PROVE Ahead(given, at, end) /\ at < end
  <2>1. at < end
    <3>1. CASE at = from
      BY <1>3, <1>4, <3>1
    <3>2. CASE at # from
      BY <1>3, <1>5, <1>7, <3>2
    <3> QED BY <3>1, <3>2
  <2>2. ASSUME NEW g \in given PROVE at <= g.virt /\ g.virt < end /\ START <= g.virt
    <3>1. g \in M /\ at <= g.virt /\ g.virt < end
      OBVIOUS
    <3>2. g.virt \in Nat
      BY <1>1, <3>1
    <3> QED BY <1>2, <1>5, <3>1, <3>2, RegionFacts
  <2>3. ASSUME NEW b \in at .. end - 1
        PROVE  \E g \in given : g.virt <= b /\ b < g.virt + g.size
    <3>1. b \in Nat /\ from <= b /\ b \in from .. end - 1 /\ at <= b /\ b < end
      BY <1>3, <1>4, <1>5
    <3>2. PICK x \in M : x.virt <= b /\ b < x.virt + x.size
      BY <3>1
    <3>3. x.virt \in Nat /\ x.size \in Nat \ {0}
      BY <1>1
    <3>4. at <= x.virt
      <4>1. CASE x = p
        BY <1>2, <1>3, <1>4, <3>1, <3>2, <4>1
      <4>2. CASE x # p
        <5>1. p.virt + p.size <= x.virt \/ x.virt + x.size <= p.virt
          BY <4>2 DEF WellMapped
        <5>2. ~(x.virt + x.size <= p.virt)
          BY <1>2, <1>5, <3>1, <3>2, <3>3
        <5>3. at <= p.virt + p.size
          BY <1>2, <1>4
        <5> QED BY <1>2, <1>5, <3>3, <5>1, <5>2, <5>3
      <4> QED BY <4>1, <4>2
    <3>5. x \in given
      BY <3>1, <3>2, <3>3, <3>4
    <3> QED BY <3>2, <3>5
  <2> QED BY <2>1, <2>2, <2>3 DEF Ahead
<1> QED BY <1>3, <1>5, <1>6, <1>7

\* More addresses handed out leave what is mapped where it is.
LEMMA FurtherMapped ==
  ASSUME NEW M, NEW F \in Nat, NEW G \in Nat, F <= G, WellMapped(M, F)
  PROVE  WellMapped(M, G)
<1>1. ASSUME NEW p \in M PROVE p.virt + p.size <= G
  <2>1. p.virt + p.size <= F
    BY DEF WellMapped
  <2>2. p.virt \in Nat /\ p.size \in Nat
    BY SizeIn
  <2> QED BY <2>1, <2>2
<1> QED BY <1>1 DEF WellMapped

-----------------------------------------------------------------------------
(* The whole invariant, step by step *)

LEMMA MemoryNext ==
  ASSUME NEW rest, NEW M, M = live' \cup rest, WellMapped(M, Frontier'),
         \A p \in M : Found(p.virt)' = [phys |-> p.phys, size |-> p.size],
         Apart(free', DOMAIN table', InJob', M), Kept(free', DOMAIN table', InJob', M),
         FreeOK(rest)'
  PROVE  MemoryOK(rest)'
<1>1. WellMapped(live \cup rest, Frontier)'
  BY DEF WellMapped
<1>2. FoundAll(live \cup rest)'
  BY DEF FoundAll
<1>3. Apart(free, DOMAIN table, InJob, live \cup rest)'
  BY DEF Apart
<1>4. Kept(free, DOMAIN table, InJob, live \cup rest)'
  BY DEF Kept
<1> QED BY <1>1, <1>2, <1>3, <1>4 DEF MemoryOK

LEMMA NotBefore ==
  ASSUME NEW x \in Nat
  PROVE  x <= x
OBVIOUS

LEMMA OneMore ==
  ASSUME NEW m \in Nat, NEW c \in 0 .. m, c < m
  PROVE  c + 1 \in 0 .. m
OBVIOUS

LEMMA CallCounts ==
  ASSUME TypeOK, Call
  PROVE  calls' \in 0 .. MaxCalls
<1>1. calls \in 0 .. MaxCalls /\ MaxCalls \in Nat
  BY CallsAssumption DEF TypeOK
<1>2. calls' = calls + 1 /\ calls < MaxCalls
  BY DEF Call, Ready
<1> QED BY <1>1, <1>2, OneMore

LEMMA TypeNext ==
  ASSUME start' \in START .. END, free' \subseteq RAM,
         DOMAIN table' \subseteq RAM,
         \A t \in DOMAIN table' : DOMAIN table'[t] = 0 .. ENTRIES - 1,
         live' \subseteq MappedPages, pc' \in {"idle", "map", "free"},
         calls' \in 0 .. MaxCalls,
         fault' \in {"", "tooLarge", "assertion", "noMemory", "overwritten"}
  PROVE  TypeOK' /\ NeverCorrupt'
<1>1. NeverCorrupt'
  BY DEF NeverCorrupt
<1>2. live' \subseteq [virt : Nat, phys : RAM \cup SCREEN, size : pageSizes]
  BY DEF MappedPages
<1> QED BY <1>1, <1>2 DEF TypeOK

LEMMA LiveMapped ==
  ASSUME NEW rest, MemoryOK(rest)
  PROVE  /\ live \subseteq MappedPages
         /\ \A p \in live \cup rest : p.virt \in Nat /\ Found(p.virt).phys # -1
<1>1. WellMapped(live \cup rest, Frontier) /\ FoundAll(live \cup rest)
  BY DEF MemoryOK
<1>2. ASSUME NEW p \in live \cup rest PROVE p.virt \in Nat /\ Found(p.virt).phys # -1
  <2>1. p.virt \in Nat /\ p.phys \in Nat
    <3>1. PICK M, F : M = live \cup rest /\ F = Frontier
      OBVIOUS
    <3>2. WellMapped(M, F) /\ p \in M
      BY <1>1, <3>1
    <3> QED BY <3>2, SizeIn
  <2>2. Found(p.virt) = [phys |-> p.phys, size |-> p.size]
    BY <1>1 DEF FoundAll
  <2> QED BY <2>1, <2>2
<1> QED BY <1>1, <1>2 DEF WellMapped

LEMMA FaultType ==
  ASSUME TypeOK, NeverCorrupt
  PROVE  /\ fault \in {"", "tooLarge", "assertion", "noMemory", "overwritten"}
         /\ free \subseteq RAM /\ DOMAIN table \subseteq RAM
         /\ \A t \in DOMAIN table : DOMAIN table[t] = 0 .. ENTRIES - 1
         /\ pc \in {"idle", "map", "free"} /\ start \in START .. END
         /\ calls \in 0 .. MaxCalls
BY DEF TypeOK, NeverCorrupt

\* A mapping that runs out of memory stops where it is.
LEMMA MapStops ==
  ASSUME IInv, pc = "map", fault' \in {"", "tooLarge", "assertion", "noMemory", "overwritten"},
         UNCHANGED <<start, table, free, live, pc, job, walk, calls>>
  PROVE  IInv'
<1>1. PICK rest : MemoryOK(rest)
  BY DEF IInv
<1>2. TypeOK /\ NeverCorrupt /\ MapOK /\ WalkOK /\ Tree /\ PagesTaken
  BY DEF IInv
<1>3. TypeOK' /\ NeverCorrupt'
  <2>1. start' = start /\ free' = free /\ table' = table /\ live' = live /\ pc' = pc
        /\ calls' = calls
    OBVIOUS
  <2> QED BY <1>1, <1>2, <2>1, LiveMapped, FaultType, TypeNext
<1>4. MapOK'
  BY <1>2 DEF MapOK, InPlace
<1>5. WalkOK'
  <2>1. \A v : E0(v)' = E0(v) /\ E1(v)' = E1(v) /\ E2(v)' = E2(v)
    BY FoundKept
  <2>2. PICK v : v = job.virt
    OBVIOUS
  <2> QED BY <1>2, <2>1, <2>2 DEF WalkOK
<1>6. Tree'
  <2>1. PICK place : Placed(place)
    BY <1>2 DEF Tree
  <2>2. job.virt \in Nat
    BY <1>2, <2>1, AtWalk
  <2>3. Advances
    <3>1. PICK v : v = job.virt
      OBVIOUS
    <3>2. Frontier = v /\ Frontier' = v
      BY <3>1 DEF Frontier
    <3>3. v \in Nat
      BY <2>2, <3>1, Zenon
    <3>4. v <= v
      BY <3>3, NotBefore
    <3>5. pc' = "map" /\ job'.virt = job.virt /\ job'.size = job.size
      OBVIOUS
    <3> QED BY <3>2, <3>3, <3>4, <3>5, Zenon DEF Advances
  <2>4. place[walk'.table] = [level |-> walk'.level,
                              region |-> Slot(job'.virt, walk'.level) \div ENTRIES]
    BY <2>1 DEF Placed
  <2> QED BY <1>2, <2>1, <2>3, <2>4, TreeKept
<1>7. PagesTaken'
  BY <1>2 DEF PagesTaken
<1>8. MemoryOK(rest)'
  <2>1. PICK M : M = live \cup rest
    OBVIOUS
  <2>2. Frontier' = Frontier /\ InJob' = InJob
    BY DEF Frontier, InJob
  <2>3. /\ WellMapped(M, Frontier) /\ FoundAll(M)
        /\ Apart(free, DOMAIN table, InJob, M) /\ Kept(free, DOMAIN table, InJob, M)
        /\ FreeOK(rest)
    BY <1>1, <2>1 DEF MemoryOK
  <2>4. \A p \in M : Found(p.virt)' = [phys |-> p.phys, size |-> p.size]
    BY <2>3, FoundKept DEF FoundAll
  <2>5. FreeOK(rest)'
    BY <2>3 DEF FreeOK
  <2>6. /\ WellMapped(M, Frontier') /\ Apart(free', DOMAIN table', InJob', M)
        /\ Kept(free', DOMAIN table', InJob', M)
    BY <2>2, <2>3
  <2> QED BY <2>1, <2>4, <2>5, <2>6, MemoryNext
<1> QED BY <1>3, <1>4, <1>5, <1>6, <1>7, <1>8 DEF IInv

LEMMA MapTableKeeps ==
  ASSUME IInv, MapTable
  PROVE  IInv'
<1>1. PICK rest : MemoryOK(rest)
  BY DEF IInv
<1>2. TypeOK /\ NeverCorrupt /\ MapOK /\ WalkOK /\ Tree /\ PagesTaken
  BY DEF IInv
<1>3. pc = "map" /\ ~AtLeaf /\ NeedsTable /\ UNCHANGED <<start, live, pc, job, calls>>
  BY DEF MapTable
<1>4. CASE Stop("overwritten")
  BY <1>3, <1>4, MapStops DEF Stop
<1>5. CASE \E p \in Ends(Available(BASE_PAGE)) :
          /\ p \notin KernelFrames
          /\ free' = free \ {p}
          /\ table' = [t \in DOMAIN table \cup {p} |->
                         CASE t = p -> EmptyTable
                           [] t = walk.table ->
                                [table[t] EXCEPT ![Index(job.virt, walk.level)] =
                                                     [frame |-> p, extended |-> FALSE]]
                           [] OTHER -> table[t]]
          /\ Descend(p) /\ UNCHANGED fault
  <2>1. PICK p \in Ends(Available(BASE_PAGE)) :
          /\ p \notin KernelFrames
          /\ free' = free \ {p}
          /\ table' = [t \in DOMAIN table \cup {p} |->
                         CASE t = p -> EmptyTable
                           [] t = walk.table ->
                                [table[t] EXCEPT ![Index(job.virt, walk.level)] =
                                                     [frame |-> p, extended |-> FALSE]]
                           [] OTHER -> table[t]]
          /\ Descend(p) /\ UNCHANGED fault
    BY <1>5
  <2>2. p \in free
    BY <1>2, AvailableFacts, EndsIn
  <2>3. PICK M : M = live \cup rest
    OBVIOUS
  <2>4. /\ WellMapped(M, Frontier) /\ FoundAll(M)
        /\ Apart(free, DOMAIN table, InJob, M) /\ Kept(free, DOMAIN table, InJob, M)
        /\ FreeOK(rest)
    BY <1>1, <2>3 DEF MemoryOK
  <2>5. p \notin DOMAIN table
    BY <2>1, <2>2, <2>4 DEF Apart
  <2>6. /\ Grown /\ DOMAIN table' = DOMAIN table \cup {p}
        /\ \A t \in DOMAIN table' : DOMAIN table'[t] = 0 .. ENTRIES - 1
        /\ MapOK' /\ WalkOK' /\ Tree'
    BY <1>2, <1>3, <2>1, <2>2, <2>5, TableAdded
  <2>7. TypeOK' /\ NeverCorrupt'
    <3>1. free \subseteq RAM /\ DOMAIN table \subseteq RAM /\ start \in START .. END
          /\ fault \in {"", "tooLarge", "assertion", "noMemory", "overwritten"} /\ live \subseteq MappedPages
      BY <1>1, <1>2, FaultType, LiveMapped
    <3>2. free' \subseteq RAM /\ DOMAIN table' \subseteq RAM /\ start' \in START .. END
          /\ fault' \in {"", "tooLarge", "assertion", "noMemory", "overwritten"} /\ live' \subseteq MappedPages
          /\ pc' \in {"idle", "map", "free"} /\ calls' \in 0 .. MaxCalls
      BY <1>2, <1>3, <2>1, <2>2, <2>6, <3>1, FaultType
    <3> QED BY <2>6, <3>2, TypeNext
  <2>8. PagesTaken'
    BY <1>2, <1>3 DEF PagesTaken
  <2>9. MemoryOK(rest)'
    <3>1. Frontier' = Frontier /\ InJob' = InJob
      BY <1>3 DEF Frontier, InJob
    <3>2. ASSUME NEW q \in M PROVE Found(q.virt)' = [phys |-> q.phys, size |-> q.size]
      <4>1. q.virt \in Nat /\ Found(q.virt).phys # -1
        BY <1>1, <2>3, LiveMapped
      <4>2. Found(q.virt)' = Found(q.virt)
        BY <1>2, <2>6, <4>1, FoundGrows, NotATable
      <4> QED BY <2>4, <4>2 DEF FoundAll
    <3>3. /\ Apart(free', DOMAIN table', InJob', M) /\ Kept(free', DOMAIN table', InJob', M)
      BY <2>1, <2>2, <2>4, <2>6, <3>1, TableTakes
    <3>4. FreeOK(rest)'
      BY <1>3, <2>4 DEF FreeOK
    <3>5. M = live' \cup rest /\ WellMapped(M, Frontier')
      BY <1>3, <2>3, <2>4, <3>1
    <3> QED BY <3>2, <3>3, <3>4, <3>5, MemoryNext
  <2> QED BY <2>6, <2>7, <2>8, <2>9 DEF IInv
<1> QED BY <1>4, <1>5 DEF MapTable

LEMMA MapDescendKeeps ==
  ASSUME IInv, MapDescend
  PROVE  IInv'
<1>1. PICK rest : MemoryOK(rest)
  BY DEF IInv
<1>2. TypeOK /\ NeverCorrupt /\ MapOK /\ WalkOK /\ Tree /\ PagesTaken
  BY DEF IInv
<1>3. pc = "map" /\ ~AtLeaf /\ ~NeedsTable /\ UNCHANGED <<start, live, pc, job, calls>>
  BY DEF MapDescend
<1>4. Descend(Entry.frame) /\ UNCHANGED <<table, free, fault>>
  <2>1. Entry.frame \in DOMAIN table
    BY <1>2, <1>3, WalkDescends
  <2> QED BY <2>1 DEF MapDescend
<1>5. MapOK' /\ WalkOK' /\ Tree'
  BY <1>2, <1>3, <1>4, WalkDescends
<1>6. TypeOK' /\ NeverCorrupt'
  <2>1. start' = start /\ free' = free /\ table' = table /\ live' = live /\ pc' = pc
        /\ calls' = calls /\ fault' = fault
    BY <1>3, <1>4
  <2> QED BY <1>1, <1>2, <2>1, LiveMapped, FaultType, TypeNext
<1>7. PagesTaken'
  BY <1>2, <1>3 DEF PagesTaken
<1>8. MemoryOK(rest)'
  <2>1. PICK M : M = live \cup rest
    OBVIOUS
  <2>2. Frontier' = Frontier /\ InJob' = InJob
    BY <1>3 DEF Frontier, InJob
  <2>3. /\ WellMapped(M, Frontier) /\ FoundAll(M)
        /\ Apart(free, DOMAIN table, InJob, M) /\ Kept(free, DOMAIN table, InJob, M)
        /\ FreeOK(rest)
    BY <1>1, <2>1 DEF MemoryOK
  <2>4. \A p \in M : Found(p.virt)' = [phys |-> p.phys, size |-> p.size]
    BY <1>4, <2>3, FoundKept DEF FoundAll
  <2>5. FreeOK(rest)'
    BY <1>3, <2>3 DEF FreeOK
  <2>6. /\ WellMapped(M, Frontier') /\ Apart(free', DOMAIN table', InJob', M)
        /\ Kept(free', DOMAIN table', InJob', M) /\ M = live' \cup rest
    BY <1>3, <1>4, <2>1, <2>2, <2>3
  <2> QED BY <2>4, <2>5, <2>6, MemoryNext
<1> QED BY <1>5, <1>6, <1>7, <1>8 DEF IInv

\* The frames of the job without those of its first page.
LEMMA JobFramesShrink ==
  ASSUME IInv, MapLeaf, NEW x, x = Pages(Head(job.pages), job.size)
  PROVE  x \subseteq InJob /\ InJob' = InJob \ x
<1>1. TypeOK /\ MapOK /\ PagesTaken /\ pc = "map"
  BY DEF IInv, MapLeaf
<1>2. PICK n, m, q, r : n = Len(job.pages) /\ m = job.size /\ q = job.pages /\ r = job'.pages
  OBVIOUS
<1>3. /\ n \in Nat \ {0} /\ m \in Nat \ {0} /\ DOMAIN q = 1 .. n /\ Head(q) = q[1]
      /\ \A i \in 1 .. n : q[i] \in Nat
      /\ job'.size = m /\ DOMAIN r = 1 .. n - 1 /\ \A i \in 1 .. n - 1 : r[i] = q[i + 1]
      /\ pc' = IF n = 1 THEN "idle" ELSE "map"
  BY <1>1, <1>2, JobLeft
<1>4. /\ \A i \in 1 .. n : q[i] % m = 0
      /\ \A i, j \in 1 .. n : i # j => q[i] # q[j]
  BY <1>1, <1>2, <1>3 DEF PagesTaken
<1>5. InJob = UNION {Pages(q[i], m) : i \in 1 .. n}
  BY <1>1, <1>2, <1>3 DEF InJob
<1>6. InJob' = UNION {Pages(r[i], m) : i \in 1 .. n - 1}
  <2>1. CASE n = 1
    BY <1>3, <2>1 DEF InJob
  <2>2. CASE n # 1
    <3>1. pc' = "map"
      BY <1>3, <2>2
    <3> QED BY <1>2, <1>3, <3>1 DEF InJob
  <2> QED BY <2>1, <2>2
<1>7. \A i \in 2 .. n : Pages(q[i], m) \cap Pages(q[1], m) = {}
  <2> TAKE i \in 2 .. n
  <2>1. i \in 1 .. n /\ 1 \in 1 .. n /\ i # 1
    BY <1>3
  <2> QED BY <1>3, <1>4, <2>1, PagesApart
<1>8. x = Pages(q[1], m)
  BY <1>2, <1>3
<1>9. x \subseteq InJob
  <2>1. 1 \in 1 .. n
    BY <1>3
  <2> QED BY <1>5, <1>8, <2>1
<1>10. ASSUME NEW f \in InJob' PROVE f \in InJob \ x
  <2>1. PICK i \in 1 .. n - 1 : f \in Pages(r[i], m)
    BY <1>6
  <2>2. i + 1 \in 2 .. n /\ i + 1 \in 1 .. n /\ r[i] = q[i + 1]
    BY <1>3
  <2>3. f \in Pages(q[i + 1], m)
    BY <2>1, <2>2
  <2>4. f \in InJob
    BY <1>5, <2>2, <2>3
  <2>5. f \notin Pages(q[1], m)
    BY <1>7, <2>2, <2>3
  <2> QED BY <1>8, <2>4, <2>5
<1>11. ASSUME NEW f \in InJob, f \notin x PROVE f \in InJob'
  <2>1. PICK i \in 1 .. n : f \in Pages(q[i], m)
    BY <1>5
  <2>2. i # 1
    BY <1>8, <1>11, <2>1
  <2>3. PICK j : j = i - 1
    OBVIOUS
  <2>4. j \in 1 .. n - 1 /\ r[j] = q[j + 1] /\ j + 1 = i
    BY <1>3, <2>2, <2>3
  <2>5. f \in Pages(r[j], m)
    BY <2>1, <2>4
  <2> QED BY <1>6, <2>4, <2>5
<1> QED BY <1>9, <1>10, <1>11

LEMMA MapLeafKeeps ==
  ASSUME IInv, MapLeaf
  PROVE  IInv'
<1>1. PICK rest : MemoryOK(rest)
  BY DEF IInv
<1>2. TypeOK /\ NeverCorrupt /\ MapOK /\ WalkOK /\ Tree /\ PagesTaken
  BY DEF IInv
<1>3. /\ pc = "map" /\ UNCHANGED <<start, free, fault, calls>>
      /\ live' = live \cup {[virt |-> job.virt, phys |-> Head(job.pages), size |-> job.size]}
  BY DEF MapLeaf
<1>4. /\ Grown /\ DOMAIN table' = DOMAIN table
      /\ \A t \in DOMAIN table' : DOMAIN table'[t] = 0 .. ENTRIES - 1
      /\ MapOK' /\ WalkOK' /\ Tree'
      /\ job.virt + job.size <= Frontier' /\ Frontier' \in Nat
      /\ \A v : v = job.virt => Found(v)' = [phys |-> Head(job.pages), size |-> job.size]
  BY <1>2, PageMapped
<1>5. PICK v, m, h : v = job.virt /\ m = job.size /\ h = Head(job.pages)
  OBVIOUS
<1>6. PICK M, new : M = live \cup rest /\ new = [virt |-> v, phys |-> h, size |-> m]
  OBVIOUS
<1>7. /\ WellMapped(M, Frontier) /\ FoundAll(M)
      /\ Apart(free, DOMAIN table, InJob, M) /\ Kept(free, DOMAIN table, InJob, M)
      /\ FreeOK(rest)
  BY <1>1, <1>6 DEF MemoryOK
<1>8. /\ v \in Nat /\ m \in pageSizes /\ m \in Nat \ {0} /\ v % m = 0
      /\ pc' \in {"idle", "map"}
      /\ h = job.pages[1] /\ 1 \in DOMAIN job.pages
  <2>1. Len(job.pages) \in Nat \ {0} /\ DOMAIN job.pages = 1 .. Len(job.pages)
    BY <1>2, JobLeft
  <2>2. 1 \in DOMAIN job.pages
    BY <2>1
  <2> QED BY <1>2, <1>5, <2>2, JobLeft
<1>9. new.virt = v /\ new.phys = h /\ new.size = m
  BY <1>6
<1>10. new \in MappedPages
  <2>1. h \in RAM \cup SCREEN
    BY <1>2, <1>3, <1>8 DEF PagesTaken
  <2> QED BY <1>6, <1>8, <2>1 DEF MappedPages
<1>11. v >= START => FramesOf(new) \subseteq RAM
  <2> SUFFICES ASSUME v >= START PROVE Pages(h, m) \subseteq RAM
    BY <1>9 DEF FramesOf
  <2>1. \/ Pages(h, m) \subseteq RAM
        \/ v + Len(job.pages) * m <= START
    BY <1>2, <1>3, <1>5, <1>8 DEF PagesTaken
  <2>2. PICK n : n = Len(job.pages)
    OBVIOUS
  <2>3. n \in Nat \ {0}
    BY <1>2, <2>2, JobLeft
  <2>4. ~(v + n * m <= START)
    <3>1. m * 1 <= m * n /\ m * n = n * m /\ m * n \in Nat
      BY <1>8, <2>3, ProductsGrow
    <3> QED BY <1>8, <3>1, RegionFacts
  <2> QED BY <2>1, <2>2, <2>4
<1>12. WellMapped(M \cup {new}, Frontier')
  <2>1. Frontier = v
    BY <1>3, <1>5 DEF Frontier
  <2>2. v + m <= Frontier' /\ Frontier' \in Nat
    BY <1>4, <1>5
  <2>3. ASSUME NEW p \in M
        PROVE  p.virt \in Nat /\ p.size \in Nat \ {0} /\ p.virt + p.size <= v
               /\ p.virt + p.size <= Frontier'
    <3>1. p.virt \in Nat /\ p.size \in Nat \ {0}
      BY <1>7, SizeIn
    <3>2. p.virt + p.size <= v
      BY <1>7, <2>1 DEF WellMapped
    <3> QED BY <1>8, <2>2, <3>1, <3>2
  <2>4. M \cup {new} \subseteq MappedPages
    BY <1>7, <1>10 DEF WellMapped
  <2>5. ASSUME NEW p \in M \cup {new}
        PROVE  /\ p.virt % p.size = 0 /\ p.virt + p.size <= Frontier'
               /\ p.virt >= START => FramesOf(p) \subseteq RAM
    <3>1. CASE p = new
      BY <1>8, <1>9, <1>11, <2>2, <3>1
    <3>2. CASE p \in M
      BY <1>7, <2>3, <3>2 DEF WellMapped
    <3> QED BY <3>1, <3>2
  <2>6. ASSUME NEW p \in M \cup {new}, NEW q \in M \cup {new}, p # q
        PROVE  p.virt + p.size <= q.virt \/ q.virt + q.size <= p.virt
    <3>1. CASE p \in M /\ q \in M
      BY <1>7, <2>6, <3>1 DEF WellMapped
    <3>2. CASE p = new /\ q \in M
      BY <1>9, <2>3, <3>2
    <3>3. CASE q = new /\ p \in M
      BY <1>9, <2>3, <3>3
    <3> QED BY <2>6, <3>1, <3>2, <3>3
  <2> QED BY <2>4, <2>5, <2>6 DEF WellMapped
<1>13. \A p \in M \cup {new} : Found(p.virt)' = [phys |-> p.phys, size |-> p.size]
  <2>1. ASSUME NEW q \in M PROVE Found(q.virt)' = [phys |-> q.phys, size |-> q.size]
    <3>1. q.virt \in Nat /\ Found(q.virt).phys # -1
      BY <1>1, <1>6, LiveMapped
    <3>2. Found(q.virt)' = Found(q.virt)
      BY <1>2, <1>4, <3>1, FoundGrows, NotATable
    <3> QED BY <1>7, <3>2 DEF FoundAll
  <2>2. Found(v)' = [phys |-> h, size |-> m]
    BY <1>4, <1>5
  <2>3. Found(new.virt)' = [phys |-> new.phys, size |-> new.size]
    BY <1>9, <2>2
  <2> QED BY <2>1, <2>3
<1>14. /\ Apart(free', DOMAIN table', InJob', M \cup {new})
       /\ Kept(free', DOMAIN table', InJob', M \cup {new})
  <2>1. PICK x : x = Pages(Head(job.pages), job.size)
    OBVIOUS
  <2>2. x \subseteq InJob /\ InJob' = InJob \ x
    BY <2>1, JobFramesShrink
  <2>3. FramesOf(new) = x
    BY <1>5, <1>9, <2>1 DEF FramesOf
  <2>4. PICK F, T, J : F = free /\ T = DOMAIN table /\ J = InJob
    OBVIOUS
  <2>5. Apart(F, T, J \ FramesOf(new), M \cup {new}) /\ Kept(F, T, J \ FramesOf(new), M \cup {new})
    BY <1>7, <2>2, <2>3, <2>4, PageTakes
  <2>6. free' = F /\ DOMAIN table' = T /\ InJob' = J \ FramesOf(new)
    BY <1>3, <1>4, <2>2, <2>3, <2>4
  <2> QED BY <2>5, <2>6
<1>15. rest = {}
  BY <1>3, <1>7 DEF FreeOK
<1>16. FreeOK(rest)'
  BY <1>8, <1>15 DEF FreeOK
<1>17. MemoryOK(rest)'
  <2>1. PICK M2 : M2 = M \cup {new}
    OBVIOUS
  <2>2. M2 = live' \cup rest
    BY <1>3, <1>5, <1>6, <1>15, <2>1
  <2> QED BY <1>12, <1>13, <1>14, <1>16, <2>1, <2>2, MemoryNext
<1>18. PagesTaken'
  <2> SUFFICES ASSUME pc' = "map"
               PROVE  /\ \A i \in DOMAIN job'.pages :
                           /\ job'.pages[i] \in RAM \cup SCREEN /\ job'.pages[i] % job'.size = 0
                           /\ \/ Pages(job'.pages[i], job'.size) \subseteq RAM
                              \/ job'.virt + Len(job'.pages) * job'.size <= START
                      /\ \A i, j \in DOMAIN job'.pages : i # j => job'.pages[i] # job'.pages[j]
    BY DEF PagesTaken
  <2>1. /\ job'.size = job.size /\ Len(job.pages) \in Nat
        /\ DOMAIN job.pages = 1 .. Len(job.pages)
        /\ DOMAIN job'.pages = 1 .. Len(job.pages) - 1
        /\ \A i \in 1 .. Len(job.pages) - 1 : job'.pages[i] = job.pages[i + 1]
        /\ job'.virt + Len(job'.pages) * job'.size = job.virt + Len(job.pages) * job.size
    BY <1>2, JobLeft
  <2>2. \A i \in DOMAIN job'.pages : i + 1 \in DOMAIN job.pages /\ job'.pages[i] = job.pages[i + 1]
                                     /\ i \in Int
    BY <2>1
  <2>3. /\ \A i \in DOMAIN job.pages :
             /\ job.pages[i] \in RAM \cup SCREEN /\ job.pages[i] % job.size = 0
             /\ \/ Pages(job.pages[i], job.size) \subseteq RAM
                \/ job.virt + Len(job.pages) * job.size <= START
        /\ \A i, j \in DOMAIN job.pages : i # j => job.pages[i] # job.pages[j]
    BY <1>2, <1>3 DEF PagesTaken
  <2>4. ASSUME NEW i \in DOMAIN job'.pages
        PROVE  /\ job'.pages[i] \in RAM \cup SCREEN /\ job'.pages[i] % job'.size = 0
               /\ \/ Pages(job'.pages[i], job'.size) \subseteq RAM
                  \/ job'.virt + Len(job'.pages) * job'.size <= START
    BY <2>1, <2>2, <2>3
  <2>5. ASSUME NEW i \in DOMAIN job'.pages, NEW j \in DOMAIN job'.pages, i # j
        PROVE  job'.pages[i] # job'.pages[j]
    <3>1. i + 1 # j + 1
      BY <2>2, <2>5
    <3> QED BY <2>2, <2>3, <3>1
  <2> QED BY <2>4, <2>5
<1>19. TypeOK' /\ NeverCorrupt'
  <2>1. free \subseteq RAM /\ DOMAIN table \subseteq RAM /\ start \in START .. END
        /\ fault \in {"", "tooLarge", "assertion", "noMemory", "overwritten"} /\ live \subseteq MappedPages
    BY <1>1, <1>2, FaultType, LiveMapped
  <2>2. free' \subseteq RAM /\ DOMAIN table' \subseteq RAM /\ start' \in START .. END
        /\ fault' \in {"", "tooLarge", "assertion", "noMemory", "overwritten"} /\ live' \subseteq MappedPages
        /\ pc' \in {"idle", "map", "free"} /\ calls' \in 0 .. MaxCalls
    <3>1. calls' \in 0 .. MaxCalls
      BY <1>2, <1>3, FaultType
    <3> QED BY <1>3, <1>4, <1>5, <1>6, <1>8, <1>10, <2>1, <3>1
  <2> QED BY <1>2, <1>4, <2>2, TypeNext
<1> QED BY <1>4, <1>17, <1>18, <1>19 DEF IInv

LEMMA Between ==
  ASSUME NEW a \in Nat, NEW b \in Nat, NEW x \in Nat, NEW y \in Nat, a <= x, x <= y, y <= b
  PROVE  y \in a .. b
OBVIOUS

\* A step between calls that maps nothing: addresses may have been taken, no more.
LEMMA IdleKeeps ==
  ASSUME IInv, pc = "idle", pc' = "idle", UNCHANGED <<table, free, live>>,
         start' \in Nat, start <= start', start' <= END, calls' \in 0 .. MaxCalls,
         fault' \in {"", "tooLarge", "assertion", "noMemory", "overwritten"}
  PROVE  IInv'
<1>1. PICK rest : MemoryOK(rest)
  BY DEF IInv
<1>2. TypeOK /\ NeverCorrupt /\ Tree
  BY DEF IInv
<1>3. start \in Nat /\ START <= start /\ START \in Nat /\ END \in Nat
  BY <1>2, StartType, RegionFacts
<1>4. start' \in START .. END
  <2>1. PICK x, y : x = start /\ y = start'
    OBVIOUS
  <2>2. x \in Nat /\ y \in Nat /\ START <= x /\ x <= y /\ y <= END
    BY <1>3, <2>1
  <2> QED BY <1>3, <2>1, <2>2, Between
<1>5. TypeOK' /\ NeverCorrupt'
  <2>1. free' = free /\ table' = table /\ live' = live
    OBVIOUS
  <2> QED BY <1>1, <1>2, <1>4, <2>1, LiveMapped, FaultType, TypeNext
<1>6. MapOK' /\ WalkOK' /\ PagesTaken'
  BY DEF MapOK, WalkOK, PagesTaken
<1>7. Frontier = start /\ Frontier' = start' /\ InJob = {} /\ InJob' = {}
  BY DEF Frontier, InJob
<1>8. Tree'
  <2>1. PICK place : Placed(place)
    BY <1>2 DEF Tree
  <2>2. Advances
    BY <1>3, <1>7 DEF Advances
  <2> QED BY <1>2, <2>1, <2>2, TreeKept
<1>9. MemoryOK(rest)'
  <2>1. PICK M : M = live \cup rest
    OBVIOUS
  <2>2. /\ WellMapped(M, Frontier) /\ FoundAll(M)
        /\ Apart(free, DOMAIN table, InJob, M) /\ Kept(free, DOMAIN table, InJob, M)
        /\ FreeOK(rest)
    BY <1>1, <2>1 DEF MemoryOK
  <2>3. \A p \in M : Found(p.virt)' = [phys |-> p.phys, size |-> p.size]
    BY <2>2, FoundKept DEF FoundAll
  <2>4. FreeOK(rest)'
    BY <2>2 DEF FreeOK
  <2>5. WellMapped(M, Frontier')
    BY <1>3, <1>7, <2>2, FurtherMapped
  <2>6. /\ Apart(free', DOMAIN table', InJob', M)
        /\ Kept(free', DOMAIN table', InJob', M) /\ M = live' \cup rest
    BY <1>7, <2>1, <2>2
  <2> QED BY <2>3, <2>4, <2>5, <2>6, MemoryNext
<1> QED BY <1>5, <1>6, <1>8, <1>9 DEF IInv

\* The pages taken for a call, as the job that maps them.
LEMMA TakenFrames ==
  ASSUME TypeOK, NEW n \in Nat \ {0}, NEW size \in pageSizes, NEW pages, Chosen(pages, n, size)
  PROVE  /\ pages \in Seq(Nat) /\ Len(pages) = n /\ DOMAIN pages = 1 .. n /\ pages # <<>>
         /\ UNION {Pages(pages[i], size) : i \in 1 .. n} \subseteq free
         /\ \A i \in 1 .. n : /\ pages[i] \in RAM /\ pages[i] % size = 0
                              /\ Pages(pages[i], size) \subseteq RAM
<1>1. PICK A : A = Available(size)
  OBVIOUS
<1>2. A \in SUBSET Nat /\ A \subseteq free /\ \A p \in A : p % size = 0 /\ Pages(p, size) \subseteq free
  BY <1>1, AvailableFacts
<1>3. pages \in [1 .. n -> A]
  BY <1>1 DEF Chosen
<1>4. pages \in [1 .. n -> Nat]
  BY <1>2, <1>3
<1>5. pages \in Seq(Nat) /\ Len(pages) = n /\ DOMAIN pages = 1 .. n
  BY <1>4
<1>6. pages # <<>>
  BY <1>5
<1>7. \A i \in 1 .. n : pages[i] \in A
  BY <1>3
<1>8. free \subseteq RAM
  BY DEF TypeOK
<1>9. UNION {Pages(pages[i], size) : i \in 1 .. n} \subseteq free
  BY <1>2, <1>7
<1>10. \A i \in 1 .. n : /\ pages[i] \in RAM /\ pages[i] % size = 0
                         /\ Pages(pages[i], size) \subseteq RAM
  BY <1>2, <1>7, <1>8
<1> QED BY <1>5, <1>6, <1>9, <1>10

\* A call for pages takes addresses, then memory, or stops the kernel.
LEMMA TakeKeeps ==
  ASSUME IInv, NEW n \in Nat \ {0}, NEW size \in pageSizes, NEW candidates,
         \A pages \in candidates : Chosen(pages, n, size), TakeAndMap(n, size, candidates)
  PROVE  IInv'
<1>1. PICK rest : MemoryOK(rest)
  BY DEF IInv
<1>2. TypeOK /\ NeverCorrupt /\ Tree
  BY DEF IInv
<1>3. PICK virt, bytes : virt = AlignUp(start, size) /\ bytes = n * size
  OBVIOUS
<1>4. size \in Nat \ {0} /\ pageSizeToDepth(size) - 1 \in 1 .. 3
  BY SizeFacts
<1>5. start \in Nat /\ START <= start /\ START \in Nat /\ END \in Nat /\ start <= END
  BY <1>2, StartType, RegionFacts
<1>6. virt \in Nat /\ virt % size = 0 /\ start <= virt
  BY <1>3, <1>4, <1>5, RoundsUp
<1>7. bytes \in Nat /\ size <= bytes
  <2>1. size * 1 <= size * n /\ size * n \in Nat /\ size * n = n * size
    BY <1>4, ProductsGrow
  <2> QED BY <1>3, <1>4, <2>1
<1>8. pc = "idle" /\ UNCHANGED <<table, live>> /\ calls' \in 0 .. MaxCalls
  <2>1. Call
    BY DEF TakeAndMap
  <2>2. UNCHANGED <<table, live>>
    BY DEF TakeAndMap
  <2> QED BY <1>2, <2>1, <2>2, CallCounts DEF Call, Ready
<1>9. \/ /\ fault' \in {"tooLarge", "assertion"} /\ UNCHANGED <<start, free, pc, job, walk>>
      \/ /\ virt + bytes <= END /\ start' = virt + bytes
         /\ \/ fault' \in {"noMemory", "overwritten"} /\ UNCHANGED <<free, pc, job, walk>>
            \/ \E pages \in candidates :
                 /\ (UNION {Pages(pages[i], size) : i \in 1 .. n}) \cap KernelFrames = {}
                 /\ free' = free \ UNION {Pages(pages[i], size) : i \in 1 .. n}
                 /\ pc' = "map" /\ walk' = [table |-> ROOT, level |-> 0]
                 /\ job' = [virt |-> virt, pages |-> pages, size |-> size]
                 /\ UNCHANGED fault
  <2>1. virt = getVirtualMemory(size) /\ bytes = Reserved(n, size)
    BY <1>3 DEF getVirtualMemory, Reserved
  <2>2. \/ fault' = "tooLarge" /\ UNCHANGED <<start, free, pc, job, walk>>
        \/ fault' = "assertion" /\ UNCHANGED <<start, free, pc, job, walk>>
        \/ /\ virt + bytes <= END /\ start' = virt + bytes
           /\ \/ fault' = "noMemory" /\ UNCHANGED <<free, pc, job, walk>>
              \/ \E pages \in candidates : HandOut(pages, n, size, virt)
    BY <2>1, Zenon DEF TakeAndMap
  <2>3. ASSUME NEW pages, HandOut(pages, n, size, virt)
        PROVE  \/ fault' = "overwritten" /\ UNCHANGED <<free, pc, job, walk>>
               \/ /\ (UNION {Pages(pages[i], size) : i \in 1 .. n}) \cap KernelFrames = {}
                  /\ free' = free \ UNION {Pages(pages[i], size) : i \in 1 .. n}
                  /\ pc' = "map" /\ walk' = [table |-> ROOT, level |-> 0]
                  /\ job' = [virt |-> virt, pages |-> pages, size |-> size]
                  /\ UNCHANGED fault
    BY <2>3, Zenon DEF HandOut
  <2>4. CASE virt + bytes <= END /\ start' = virt + bytes
             /\ \E pages \in candidates : HandOut(pages, n, size, virt)
    BY <2>3, <2>4, Zenon
  <2>5. CASE virt + bytes <= END /\ start' = virt + bytes
             /\ fault' = "noMemory" /\ UNCHANGED <<free, pc, job, walk>>
    BY <2>5
  <2>6. CASE fault' \in {"tooLarge", "assertion"} /\ UNCHANGED <<start, free, pc, job, walk>>
    BY <2>6
  <2> QED BY <2>2, <2>4, <2>5, <2>6, Zenon
<1>10. CASE fault' \in {"tooLarge", "assertion"} /\ UNCHANGED <<start, free, pc, job, walk>>
  <2>1. start' = start /\ pc' = "idle" /\ UNCHANGED <<table, free, live>>
        /\ fault' \in {"", "tooLarge", "assertion", "noMemory", "overwritten"}
    BY <1>8, <1>10
  <2>2. start' \in Nat /\ start <= start' /\ start' <= END
    <3>1. start' = start
      BY <2>1
    <3>2. start <= start
      BY <1>5
    <3> QED BY <1>5, <3>1, <3>2, Zenon
  <2> QED BY <1>8, <2>1, <2>2, IdleKeeps
<1>11. CASE virt + bytes <= END /\ start' = virt + bytes
            /\ fault' \in {"noMemory", "overwritten"} /\ UNCHANGED <<free, pc, job, walk>>
  <2>1. pc' = "idle" /\ UNCHANGED <<table, free, live>>
        /\ fault' \in {"", "tooLarge", "assertion", "noMemory", "overwritten"}
    BY <1>8, <1>11
  <2>2. start' \in Nat /\ start <= start' /\ start' <= END
    BY <1>5, <1>6, <1>7, <1>11
  <2> QED BY <1>8, <2>1, <2>2, IdleKeeps
<1>12. ASSUME virt + bytes <= END, start' = virt + bytes, NEW pages \in candidates,
              (UNION {Pages(pages[i], size) : i \in 1 .. n}) \cap KernelFrames = {},
              free' = free \ UNION {Pages(pages[i], size) : i \in 1 .. n},
              pc' = "map", walk' = [table |-> ROOT, level |-> 0],
              job' = [virt |-> virt, pages |-> pages, size |-> size], UNCHANGED fault
       PROVE  IInv'
  <2>1. Chosen(pages, n, size)
    OBVIOUS
  <2>2. PICK X : X = UNION {Pages(pages[i], size) : i \in 1 .. n} /\ X \cap KernelFrames = {}
    BY <1>12, Zenon
  <2>3. /\ pages \in Seq(Nat) /\ Len(pages) = n /\ DOMAIN pages = 1 .. n /\ pages # <<>>
        /\ X \subseteq free
        /\ \A i \in 1 .. n : /\ pages[i] \in RAM /\ pages[i] % size = 0
                             /\ Pages(pages[i], size) \subseteq RAM
    BY <1>2, <2>1, <2>2, TakenFrames
  <2>4. job'.virt = virt /\ job'.pages = pages /\ job'.size = size
    BY <1>12
  <2>5. PICK place : Placed(place)
    BY <1>2 DEF Tree
  <2>6. ROOT \in DOMAIN table /\ place[ROOT] = [level |-> 0, region |-> 0]
    BY <2>5 DEF Placed
  <2>7. MapOK'
    <3>1. job' \in [virt : Nat, pages : Seq(Nat), size : pageSizes]
      <4>1. PICK P : P = Seq(Nat)
        OBVIOUS
      <4>2. job' \in [virt : Nat, pages : P, size : pageSizes]
        BY <1>6, <1>12, <2>3, <4>1
      <4> QED BY <4>1, <4>2
    <3>2. job'.virt + Len(job'.pages) * job'.size <= start'
      <4>1. Len(job'.pages) * job'.size = bytes /\ job'.virt = virt
        BY <1>3, <2>3, <2>4
      <4>2. virt + bytes <= start'
        BY <1>6, <1>7, <1>12
      <4> QED BY <4>1, <4>2
    <3>3. walk' \in [table : DOMAIN table', level : 0 .. pageSizeToDepth(job'.size) - 1]
      <4>1. 0 \in 0 .. pageSizeToDepth(size) - 1
        BY <1>4
      <4> QED BY <1>8, <1>12, <2>4, <2>6, <4>1
    <3>4. job'.virt % job'.size = 0 /\ job'.pages # <<>>
      BY <1>6, <2>3, <2>4
    <3>5. InPlace'
      <4>1. ~(virt < START)
        BY <1>5, <1>6
      <4> QED BY <2>4, <4>1 DEF InPlace
    <3> QED BY <3>1, <3>2, <3>3, <3>4, <3>5 DEF MapOK
  <2>8. WalkOK'
    BY <1>12 DEF WalkOK
  <2>9. PagesTaken'
    <3>1. \A i, j \in 1 .. n : i # j => pages[i] # pages[j]
      BY <2>1 DEF Chosen
    <3> QED BY <2>3, <2>4, <3>1 DEF PagesTaken
  <2>10. Frontier = start /\ Frontier' = virt /\ InJob = {}
    BY <1>8, <1>12, <2>4 DEF Frontier, InJob
  <2>11. InJob' = X
    BY <1>12, <2>2, <2>3, <2>4 DEF InJob
  <2>12. Tree'
    <3>1. Advances
      BY <1>5, <1>6, <1>8, <2>10 DEF Advances
    <3>2. virt < END
      BY <1>4, <1>5, <1>6, <1>7, <1>12
    <3>3. place[walk'.table] = [level |-> walk'.level,
                                region |-> Slot(job'.virt, walk'.level) \div ENTRIES]
      BY <1>6, <1>12, <2>4, <2>6, <3>2, WalkBegins
    <3> QED BY <1>2, <1>8, <2>5, <3>1, <3>3, TreeKept
  <2>13. MemoryOK(rest)'
    <3>1. PICK M : M = live \cup rest
      OBVIOUS
    <3>2. /\ WellMapped(M, Frontier) /\ FoundAll(M)
          /\ Apart(free, DOMAIN table, InJob, M) /\ Kept(free, DOMAIN table, InJob, M)
          /\ FreeOK(rest)
      BY <1>1, <3>1 DEF MemoryOK
    <3>3. \A p \in M : Found(p.virt)' = [phys |-> p.phys, size |-> p.size]
      BY <1>8, <3>2, FoundKept DEF FoundAll
    <3>4. FreeOK(rest)'
      BY <1>8, <1>12, <3>2 DEF FreeOK
    <3>5. WellMapped(M, Frontier')
      BY <1>5, <1>6, <2>10, <3>2, FurtherMapped
    <3>6. Apart(free', DOMAIN table', InJob', M) /\ Kept(free', DOMAIN table', InJob', M)
      <4>1. PICK F, T : F = free /\ T = DOMAIN table
        OBVIOUS
      <4>2. Apart(F \ X, T, X, M) /\ Kept(F \ X, T, X, M)
        BY <2>2, <2>3, <2>10, <3>2, <4>1, JobTakes
      <4>3. free' = F \ X /\ DOMAIN table' = T
        BY <1>8, <1>12, <2>2, <4>1
      <4> QED BY <2>11, <4>2, <4>3
    <3>7. M = live' \cup rest
      BY <1>8, <3>1
    <3> QED BY <3>3, <3>4, <3>5, <3>6, <3>7, MemoryNext
  <2>14. TypeOK' /\ NeverCorrupt'
    <3>1. free \subseteq RAM /\ fault \in {"", "tooLarge", "assertion", "noMemory", "overwritten"}
      BY <1>2, FaultType
    <3>2. free' \subseteq RAM /\ start' \in START .. END
          /\ fault' \in {"", "tooLarge", "assertion", "noMemory", "overwritten"}
      <4>1. start' \in START .. END
        BY <1>5, <1>6, <1>7, <1>12
      <4> QED BY <1>12, <3>1, <4>1
    <3>3. table' = table /\ live' = live /\ pc' \in {"idle", "map", "free"}
      BY <1>8, <1>12
    <3> QED BY <1>1, <1>2, <1>8, <3>2, <3>3, LiveMapped, FaultType, TypeNext
  <2> QED BY <2>7, <2>8, <2>9, <2>12, <2>13, <2>14 DEF IInv
<1> QED BY <1>9, <1>10, <1>11, <1>12

\* Freeing maps nothing.
LEMMA NotMapping ==
  ASSUME IInv, pc # "map", pc' # "map", table' = table, start' = start
  PROVE  /\ MapOK' /\ WalkOK' /\ PagesTaken' /\ Tree'
         /\ Frontier = start /\ Frontier' = start
<1>1. TypeOK /\ Tree
  BY DEF IInv
<1>2. start \in Nat
  BY <1>1, StartType
<1>3. MapOK' /\ WalkOK' /\ PagesTaken'
  BY DEF MapOK, WalkOK, PagesTaken
<1>4. Frontier = start /\ Frontier' = start
  BY DEF Frontier
<1>5. PICK place : Placed(place)
  BY <1>1 DEF Tree
<1>6. Advances
  <2>1. Frontier \in Nat /\ Frontier' \in Nat /\ Frontier <= Frontier'
    BY <1>2, <1>4
  <2> QED BY <2>1 DEF Advances
<1>7. Tree'
  BY <1>1, <1>5, <1>6, TreeKept
<1> QED BY <1>3, <1>4, <1>7

\* Fewer pages mapped are mapped as well.
LEMMA FewerMapped ==
  ASSUME NEW M, NEW F, WellMapped(M, F), NEW N \in SUBSET M
  PROVE  WellMapped(N, F)
BY DEF WellMapped

\* A step of freeMapped, from what it does with the page it is at.
LEMMA FreeStep ==
  ASSUME IInv, pc # "map", pc' \in {"idle", "free"}, table' = table, start' = start,
         fault' = fault, calls' \in 0 .. MaxCalls, free' \subseteq RAM,
         NEW rest, MemoryOK(rest), NEW M, M = live \cup rest,
         NEW rest2, NEW M2 \in SUBSET M, M2 = live' \cup rest2, FreeOK(rest2)',
         Apart(free', DOMAIN table, InJob', M2), Kept(free', DOMAIN table, InJob', M2)
  PROVE  IInv'
<1>1. TypeOK /\ NeverCorrupt
  BY DEF IInv
<1>2. MapOK' /\ WalkOK' /\ PagesTaken' /\ Tree' /\ Frontier = start /\ Frontier' = start
  BY NotMapping
<1>3. WellMapped(M, Frontier) /\ FoundAll(M)
  BY DEF MemoryOK
<1>4. WellMapped(M2, Frontier')
  BY <1>2, <1>3, FewerMapped
<1>5. \A p \in M2 : Found(p.virt)' = [phys |-> p.phys, size |-> p.size]
  BY <1>3, FoundKept DEF FoundAll
<1>6. MemoryOK(rest2)'
  <2>1. Apart(free', DOMAIN table', InJob', M2) /\ Kept(free', DOMAIN table', InJob', M2)
    OBVIOUS
  <2> QED BY <1>4, <1>5, <2>1, MemoryNext
<1>7. TypeOK' /\ NeverCorrupt'
  <2>1. live' \subseteq MappedPages
    BY <1>4 DEF WellMapped
  <2>2. start' \in START .. END /\ DOMAIN table' \subseteq RAM
        /\ fault' \in {"", "tooLarge", "assertion", "noMemory", "overwritten"}
        /\ \A t \in DOMAIN table' : DOMAIN table'[t] = 0 .. ENTRIES - 1
    BY <1>1, FaultType
  <2>3. pc' \in {"idle", "map", "free"}
    OBVIOUS
  <2> QED BY <2>1, <2>2, <2>3, TypeNext
<1> QED BY <1>2, <1>6, <1>7 DEF IInv

\* The page found at an address of a mapped page.
LEMMA FoundInside ==
  ASSUME NEW M, NEW F, WellMapped(M, F), FoundAll(M), NEW p \in M,
         NEW v \in p.virt .. p.virt + p.size - 1
  PROVE  getMappedPage(v) = [phys |-> p.phys, size |-> p.size]
<1>1. p.virt \in Nat /\ p.size \in pageSizes /\ p.size \in Nat \ {0}
  BY SizeIn
<1>2. Found(p.virt) = [phys |-> p.phys, size |-> p.size] /\ p.virt % p.size = 0
  BY DEF FoundAll, WellMapped
<1>3. v \in Nat /\ p.virt <= v /\ v < p.virt + p.size
  BY <1>1
<1>4. PICK a, s : a = p.virt /\ s = p.size
  OBVIOUS
<1>5. Found(v) = Found(a)
  <2>1. Found(a).size = s
    BY <1>2, <1>4
  <2> QED BY <1>1, <1>2, <1>3, <1>4, <2>1, SameFound
<1> QED BY <1>2, <1>4, <1>5, Mapped

LEMMA FreeMappedKeeps ==
  ASSUME IInv, NEW p \in live, START <= p.virt, NEW q \in live, p.virt <= q.virt,
         NEW from \in p.virt .. p.virt + p.size - 1, NEW end, end = q.virt + q.size,
         \A b \in from .. end - 1 : \E x \in live : x.virt <= b /\ b < x.virt + x.size,
         freeMapped(from, end)
  PROVE  IInv'
<1>1. PICK rest : MemoryOK(rest)
  BY DEF IInv
<1>2. TypeOK /\ NeverCorrupt
  BY DEF IInv
<1>3. Call /\ pc = "idle" /\ UNCHANGED <<start, table, free, walk, fault>>
  BY DEF freeMapped, Call, Ready
<1>4. PICK M : M = live
  OBVIOUS
<1>5. rest = {} /\ M = live \cup rest
  <2>1. rest = {}
    BY <1>1, <1>3 DEF MemoryOK, FreeOK
  <2> QED BY <1>4, <2>1
<1>6. PICK F : F = Frontier
  OBVIOUS
<1>7. InJob = {}
  BY <1>3 DEF InJob
<1>8. /\ WellMapped(M, F) /\ FoundAll(M)
      /\ Apart(free, DOMAIN table, {}, M) /\ Kept(free, DOMAIN table, {}, M)
  BY <1>1, <1>5, <1>6, <1>7 DEF MemoryOK
<1>9. getMappedPage(from) = [phys |-> p.phys, size |-> p.size]
  BY <1>4, <1>8, FoundInside
<1>10. PICK at : at = AlignUp(from, p.size)
  OBVIOUS
<1>11. PICK given : given = {x \in M : at <= x.virt /\ x.virt < end}
  OBVIOUS
<1>12. FirstPage(from) = at /\ AlignUp(from, getMappedPage(from).size) = at
  BY <1>9, <1>10 DEF FirstPage
<1>13. PICK page : page = getMappedPage(at)
  OBVIOUS
<1>14. /\ live' = live \ given
       /\ IF at # from /\ at >= end
            THEN UNCHANGED <<pc, job>>
            ELSE /\ pc' = "free"
                 /\ job' = [at |-> at + page.size, end |-> end,
                            run |-> [phys |-> page.phys, number |-> 1, size |-> page.size]]
  BY <1>4, <1>11, <1>12, <1>13 DEF freeMapped
<1>15. /\ at \in Nat /\ end \in Nat /\ from \in Nat
       /\ (at # from /\ at >= end => given = {})
       /\ (~(at # from /\ at >= end) => Ahead(given, at, end) /\ at < end)
  BY <1>4, <1>8, <1>10, <1>11, GivenAhead
<1>16. calls' \in 0 .. MaxCalls
  BY <1>2, <1>3, CallCounts
<1>17. free' \subseteq RAM
  BY <1>2, <1>3, FaultType
<1>18. CASE at # from /\ at >= end
  <2>1. given = {} /\ UNCHANGED <<pc, job>> /\ live' = live
    BY <1>14, <1>15, <1>18
  <2>2. InJob' = {} /\ pc' = "idle"
    BY <1>3, <2>1 DEF InJob
  <2>3. FreeOK(rest)'
    BY <1>5, <2>2 DEF FreeOK
  <2>4. Apart(free', DOMAIN table, InJob', M) /\ Kept(free', DOMAIN table, InJob', M)
        /\ M = live' \cup rest
    BY <1>3, <1>5, <1>8, <2>1, <2>2
  <2>5. M \in SUBSET M
    OBVIOUS
  <2> QED BY <1>1, <1>3, <1>5, <1>16, <1>17, <2>2, <2>3, <2>4, <2>5, FreeStep
<1>19. CASE ~(at # from /\ at >= end)
  <2>1. Ahead(given, at, end) /\ at < end /\ given \in SUBSET M
    BY <1>11, <1>15, <1>19
  <2>2. PICK g \in given : g.virt = at /\ Ahead(given \ {g}, at + g.size, end)
    BY <1>8, <1>15, <2>1, FirstAhead
  <2>3. g \in M /\ g.virt \in Nat /\ g.size \in pageSizes /\ g.size \in Nat \ {0} /\ g.phys \in Nat
    <3>1. g \in M
      BY <2>1
    <3> QED BY <1>8, <3>1, SizeIn
  <2>4. page = [phys |-> g.phys, size |-> g.size]
    <3>1. at \in g.virt .. g.virt + g.size - 1
      BY <2>2, <2>3
    <3> QED BY <1>8, <1>13, <2>3, <3>1, FoundInside
  <2>5. pc' = "free" /\ job' = [at |-> at + g.size, end |-> end,
                                run |-> [phys |-> g.phys, number |-> 1, size |-> g.size]]
    BY <1>14, <1>19, <2>4
  <2>6. InJob' = FramesOf(g)
    <3>1. Pages(g.phys, 1 * g.size) = Pages(g.phys, g.size)
      BY <2>3, PagesJoin
    <3>2. InJob' = Pages(g.phys, 1 * g.size)
      BY <2>5 DEF InJob
    <3> QED BY <3>1, <3>2 DEF FramesOf
  <2>7. PICK rest2, M2 : rest2 = given \ {g} /\ M2 = M \ {g}
    OBVIOUS
  <2>8. M2 = live' \cup rest2 /\ live' \cap rest2 = {} /\ M2 \in SUBSET M
    BY <1>4, <1>14, <2>1, <2>3, <2>7
  <2>9. Apart(free', DOMAIN table, InJob', M2) /\ Kept(free', DOMAIN table, InJob', M2)
    <3>1. PICK U, T, J : U = free /\ T = DOMAIN table /\ J = {}
      OBVIOUS
    <3>2. Apart(U, T, J \cup FramesOf(g), M2) /\ Kept(U, T, J \cup FramesOf(g), M2)
      BY <1>8, <2>3, <2>7, <3>1, PageCollected
    <3>3. InJob' = J \cup FramesOf(g) /\ free' = U
      BY <1>3, <2>6, <3>1
    <3> QED BY <3>1, <3>2, <3>3
  <2>10. FreeOK(rest2)'
    <3>1. job' \in [at : Nat, end : Nat, run : Runs]
      BY <1>15, <2>3, <2>5 DEF Runs
    <3>2. InJob' \subseteq RAM
      <4>1. g.virt >= START
        <5>1. START <= g.virt
          BY <2>1 DEF Ahead
        <5> QED BY <2>3, <5>1, RegionFacts
      <4> QED BY <1>8, <2>3, <2>6, <4>1 DEF WellMapped
    <3>3. Ahead(rest2, job'.at, job'.end)
      BY <2>2, <2>5, <2>7
    <3>4. Ahead(rest2, job.at, job.end)'
      BY <3>3 DEF Ahead
    <3> QED BY <2>5, <2>8, <3>1, <3>2, <3>4 DEF FreeOK
  <2> QED BY <1>1, <1>3, <1>5, <1>16, <1>17, <2>5, <2>8, <2>9, <2>10, FreeStep
<1> QED BY <1>18, <1>19

\* The job of a free, one page further: the run goes on, or a new one begins.
LEMMA RunReplaced ==
  ASSUME NEW R, NEW j \in [at : Nat, end : Nat, run : R], NEW x, NEW r, NEW k,
         k = [j EXCEPT !.at = x, !.run = r]
  PROVE  k = [at |-> x, end |-> j.end, run |-> r]
<1>1. j = [at |-> j.at, end |-> j.end, run |-> j.run]
  OBVIOUS
<1> QED BY <1>1

LEMMA RunCounts ==
  ASSUME NEW r \in Runs
  PROVE  [r EXCEPT !.number = @ + 1] =
           [phys |-> r.phys, number |-> r.number + 1, size |-> r.size]
<1>1. PICK f, n, m : r = [phys |-> f, number |-> n, size |-> m]
  BY DEF Runs
<1>2. PICK k : k = [r EXCEPT !.number = @ + 1]
  OBVIOUS
<1>3. k = [phys |-> f, number |-> n + 1, size |-> m]
  BY <1>1, <1>2
<1> QED BY <1>1, <1>2, <1>3

LEMMA FreeJobs ==
  ASSUME NEW j \in [at : Nat, end : Nat, run : Runs], NEW s, NEW r, NEW k
  PROVE  /\ k = [j EXCEPT !.at = @ + s, !.run = r] =>
              k = [at |-> j.at + s, end |-> j.end, run |-> r]
         /\ k = [j EXCEPT !.at = @ + s, !.run.number = @ + 1] =>
              k = [at |-> j.at + s, end |-> j.end,
                   run |-> [phys |-> j.run.phys, number |-> j.run.number + 1,
                            size |-> j.run.size]]
<1>1. PICK x, R : x = j.at + s /\ R = Runs
  OBVIOUS
<1>2. j \in [at : Nat, end : Nat, run : R]
  BY <1>1
<1>3. ASSUME NEW q, k = [j EXCEPT !.at = @ + s, !.run = q]
      PROVE  k = [at |-> j.at + s, end |-> j.end, run |-> q]
  <2>1. k = [j EXCEPT !.at = x, !.run = q]
    BY <1>1, <1>3
  <2> QED BY <1>1, <1>2, <2>1, RunReplaced
<1>4. ASSUME k = [j EXCEPT !.at = @ + s, !.run.number = @ + 1]
      PROVE  k = [at |-> j.at + s, end |-> j.end,
                  run |-> [phys |-> j.run.phys, number |-> j.run.number + 1,
                           size |-> j.run.size]]
  <2>1. PICK q : q = [j.run EXCEPT !.number = @ + 1]
    OBVIOUS
  <2>2. k = [j EXCEPT !.at = @ + s, !.run = q]
    <3> HIDE DEF Runs
    <3>1. [j EXCEPT !.at = @ + s, !.run.number = @ + 1] = [j EXCEPT !.at = @ + s, !.run = q]
      BY <1>2, <2>1
    <3> QED BY <1>4, <3>1
  <2>3. q = [phys |-> j.run.phys, number |-> j.run.number + 1, size |-> j.run.size]
    <3>1. j.run \in Runs
      OBVIOUS
    <3> QED BY <2>1, <3>1, RunCounts
  <2> QED BY <1>3, <2>2, <2>3
<1> QED BY <1>3, <1>4

LEMMA FreeNextKeeps ==
  ASSUME IInv, FreeNext
  PROVE  IInv'
<1>1. PICK rest : MemoryOK(rest)
  BY DEF IInv
<1>2. TypeOK /\ NeverCorrupt
  BY DEF IInv
<1>3. PICK at, end, run, page : /\ at = job.at /\ end = job.end /\ run = job.run
                                /\ page = getMappedPage(at)
  OBVIOUS
<1>4. /\ pc = "free" /\ at < end /\ UNCHANGED <<start, table, live, pc, walk, fault, calls>>
      /\ \/ /\ Continues(run, page) /\ UNCHANGED free
            /\ job' = [job EXCEPT !.at = @ + page.size, !.run.number = @ + 1]
         \/ /\ Give(run)
            /\ job' = [job EXCEPT !.at = @ + page.size,
                         !.run = [phys |-> page.phys, number |-> 1, size |-> page.size]]
  BY <1>3 DEF FreeNext
<1>5. PICK M, F : M = live \cup rest /\ F = Frontier
  OBVIOUS
<1>6. /\ WellMapped(M, F) /\ FoundAll(M)
      /\ Apart(free, DOMAIN table, InJob, M) /\ Kept(free, DOMAIN table, InJob, M)
      /\ FreeOK(rest)
  BY <1>1, <1>5 DEF MemoryOK
<1>7. /\ job \in [at : Nat, end : Nat, run : Runs] /\ InJob \subseteq RAM
      /\ Ahead(rest, at, end) /\ live \cap rest = {}
  <2>1. Ahead(rest, job.at, job.end)
    BY <1>4, <1>6 DEF FreeOK
  <2> QED BY <1>3, <1>4, <1>6, <2>1 DEF FreeOK
<1>8. at \in Nat /\ end \in Nat /\ run \in Runs /\ rest \in SUBSET M
  BY <1>3, <1>5, <1>7
<1>9. run.phys \in Nat /\ run.number \in Nat /\ run.size \in pageSizes /\ run.size \in Nat \ {0}
  BY <1>8, SizeFacts DEF Runs
<1>10. PICK g \in rest : g.virt = at /\ Ahead(rest \ {g}, at + g.size, end)
  BY <1>4, <1>6, <1>7, <1>8, FirstAhead
<1>11. g \in M /\ g.virt \in Nat /\ g.size \in pageSizes /\ g.size \in Nat \ {0} /\ g.phys \in Nat
  <2>1. g \in M
    BY <1>8
  <2> QED BY <1>6, <2>1, SizeIn
<1>12. page = [phys |-> g.phys, size |-> g.size]
  <2>1. at \in g.virt .. g.virt + g.size - 1
    BY <1>10, <1>11
  <2> QED BY <1>3, <1>6, <1>11, <2>1, FoundInside
<1>13. page.phys = g.phys /\ page.size = g.size
  BY <1>12
<1>14. FramesOf(g) \subseteq RAM
  <2>1. g.virt >= START
    <3>1. START <= g.virt
      BY <1>7 DEF Ahead
    <3> QED BY <1>11, <3>1, RegionFacts
  <2> QED BY <1>6, <1>11, <2>1 DEF WellMapped
<1>15. PICK rest2, M2 : rest2 = rest \ {g} /\ M2 = M \ {g}
  OBVIOUS
<1>16. M2 = live' \cup rest2 /\ live' \cap rest2 = {} /\ M2 \in SUBSET M
  <2>1. live' = live
    BY <1>4
  <2> QED BY <1>5, <1>7, <1>10, <1>15, <2>1
<1>17. InJob = Pages(run.phys, run.number * run.size)
  BY <1>3, <1>4 DEF InJob
<1>18. free \subseteq RAM /\ calls' \in 0 .. MaxCalls
  BY <1>2, <1>4, FaultType
<1>19. PICK U, T, J : U = free /\ T = DOMAIN table /\ J = InJob
  OBVIOUS
<1>20. ASSUME job'.at = at + g.size, job'.end = end, job' \in [at : Nat, end : Nat, run : Runs],
              InJob' \subseteq RAM
       PROVE  FreeOK(rest2)'
  <2>1. Ahead(rest2, job'.at, job'.end)
    BY <1>10, <1>15, <1>20
  <2>2. Ahead(rest2, job.at, job.end)'
    BY <2>1 DEF Ahead
  <2>3. pc' = "free"
    BY <1>4
  <2> QED BY <1>16, <1>20, <2>2, <2>3 DEF FreeOK
<1>21. CASE /\ Continues(run, page) /\ UNCHANGED free
            /\ job' = [job EXCEPT !.at = @ + page.size, !.run.number = @ + 1]
  <2>1. job' = [at |-> at + g.size, end |-> end,
                run |-> [phys |-> run.phys, number |-> run.number + 1, size |-> run.size]]
    <3>1. PICK j, k, s : j = job /\ k = job' /\ s = g.size
      OBVIOUS
    <3>2. k = [j EXCEPT !.at = @ + s, !.run.number = @ + 1]
      BY <1>13, <1>21, <3>1
    <3>3. j \in [at : Nat, end : Nat, run : Runs]
      BY <1>7, <3>1
    <3>4. k = [at |-> j.at + s, end |-> j.end,
               run |-> [phys |-> j.run.phys, number |-> j.run.number + 1, size |-> j.run.size]]
      BY <3>2, <3>3, FreeJobs
    <3> QED BY <1>3, <3>1, <3>4
  <2>2. g.phys = run.phys + run.number * run.size /\ g.size = run.size
    BY <1>13, <1>21 DEF Continues
  <2>3. InJob' = J \cup FramesOf(g)
    <3>1. InJob' = Pages(run.phys, (run.number + 1) * run.size)
      BY <1>4, <2>1 DEF InJob
    <3>2. Pages(run.phys, (run.number + 1) * run.size)
            = Pages(run.phys, run.number * run.size)
                \cup Pages(run.phys + run.number * run.size, run.size)
      BY <1>9, PagesJoin
    <3> QED BY <1>17, <1>19, <2>2, <3>1, <3>2 DEF FramesOf
  <2>4. Apart(free', DOMAIN table, InJob', M2) /\ Kept(free', DOMAIN table, InJob', M2)
    <3>1. Apart(U, T, J \cup FramesOf(g), M2) /\ Kept(U, T, J \cup FramesOf(g), M2)
      BY <1>6, <1>11, <1>15, <1>19, PageCollected
    <3>2. free' = U
      BY <1>19, <1>21
    <3> QED BY <1>19, <2>3, <3>1, <3>2
  <2>5. FreeOK(rest2)'
    <3>1. job' \in [at : Nat, end : Nat, run : Runs]
      BY <1>8, <1>9, <1>11, <2>1 DEF Runs
    <3>2. job'.at = at + g.size /\ job'.end = end
      BY <2>1
    <3>3. InJob' \subseteq RAM
      BY <1>7, <1>14, <1>19, <2>3
    <3> QED BY <1>20, <3>1, <3>2, <3>3
  <2>6. free' \subseteq RAM
    BY <1>18, <1>21
  <2> QED BY <1>1, <1>4, <1>5, <1>16, <1>18, <2>4, <2>5, <2>6, FreeStep
<1>22. CASE /\ Give(run)
            /\ job' = [job EXCEPT !.at = @ + page.size,
                         !.run = [phys |-> page.phys, number |-> 1, size |-> page.size]]
  <2>1. job' = [at |-> at + g.size, end |-> end,
                run |-> [phys |-> g.phys, number |-> 1, size |-> g.size]]
    <3>1. job' = [job EXCEPT !.at = @ + g.size,
                    !.run = [phys |-> g.phys, number |-> 1, size |-> g.size]]
      BY <1>13, <1>22
    <3> QED BY <1>3, <1>7, <3>1, FreeJobs
  <2>2. InJob' = FramesOf(g)
    <3>1. InJob' = Pages(g.phys, 1 * g.size)
      BY <1>4, <2>1 DEF InJob
    <3>2. Pages(g.phys, 1 * g.size) = Pages(g.phys, g.size)
      BY <1>11, PagesJoin
    <3> QED BY <3>1, <3>2 DEF FramesOf
  <2>3. free' = U \cup J
    BY <1>17, <1>19, <1>22 DEF Give
  <2>4. Apart(free', DOMAIN table, InJob', M2) /\ Kept(free', DOMAIN table, InJob', M2)
    <3>1. PICK U2, J2 : U2 = U \cup J /\ J2 = {}
      OBVIOUS
    <3>2. Apart(U2, T, J2, M) /\ Kept(U2, T, J2, M)
      BY <1>6, <1>19, <3>1, JobGives
    <3>3. Apart(U2, T, J2 \cup FramesOf(g), M2) /\ Kept(U2, T, J2 \cup FramesOf(g), M2)
      BY <1>11, <1>15, <3>2, PageCollected
    <3>4. J2 \cup FramesOf(g) = InJob'
      BY <2>2, <3>1
    <3> QED BY <1>19, <2>3, <3>1, <3>3, <3>4
  <2>5. FreeOK(rest2)'
    <3>1. job' \in [at : Nat, end : Nat, run : Runs]
      BY <1>8, <1>11, <2>1 DEF Runs
    <3>2. job'.at = at + g.size /\ job'.end = end
      BY <2>1
    <3>3. InJob' \subseteq RAM
      BY <1>14, <2>2
    <3> QED BY <1>20, <3>1, <3>2, <3>3
  <2>6. free' \subseteq RAM
    BY <1>7, <1>18, <1>19, <2>3
  <2> QED BY <1>1, <1>4, <1>5, <1>16, <1>18, <2>4, <2>5, <2>6, FreeStep
<1> QED BY <1>4, <1>21, <1>22

LEMMA FreeEndKeeps ==
  ASSUME IInv, FreeEnd
  PROVE  IInv'
<1>1. PICK rest : MemoryOK(rest)
  BY DEF IInv
<1>2. TypeOK /\ NeverCorrupt
  BY DEF IInv
<1>3. /\ pc = "free" /\ job.at >= job.end /\ Give(job.run) /\ pc' = "idle"
      /\ UNCHANGED <<start, table, live, job, walk, fault, calls>>
  BY DEF FreeEnd
<1>4. PICK M, F : M = live \cup rest /\ F = Frontier
  OBVIOUS
<1>5. /\ WellMapped(M, F)
      /\ Apart(free, DOMAIN table, InJob, M) /\ Kept(free, DOMAIN table, InJob, M)
      /\ FreeOK(rest)
  BY <1>1, <1>4 DEF MemoryOK
<1>6. /\ job \in [at : Nat, end : Nat, run : Runs] /\ InJob \subseteq RAM
      /\ Ahead(rest, job.at, job.end)
  BY <1>3, <1>5 DEF FreeOK
<1>7. rest = {}
  <2> SUFFICES ASSUME NEW g \in rest PROVE FALSE
    OBVIOUS
  <2>1. PICK a, e : a = job.at /\ e = job.end
    OBVIOUS
  <2>2. a \in Nat /\ e \in Nat /\ a >= e
    BY <1>3, <1>6, <2>1
  <2>3. a <= g.virt /\ g.virt < e
    BY <1>6, <2>1 DEF Ahead
  <2>4. g.virt \in Nat
    BY <1>4, <1>5, SizeIn
  <2> QED BY <2>2, <2>3, <2>4
<1>8. InJob' = {} /\ free' = free \cup InJob
  <2>1. InJob' = {}
    BY <1>3 DEF InJob
  <2>2. InJob = Pages(job.run.phys, job.run.number * job.run.size)
    BY <1>3 DEF InJob
  <2> QED BY <1>3, <2>1, <2>2 DEF Give
<1>9. Apart(free', DOMAIN table, InJob', M) /\ Kept(free', DOMAIN table, InJob', M)
  <2>1. PICK U, T, J : U = free /\ T = DOMAIN table /\ J = InJob
    OBVIOUS
  <2>2. Apart(U \cup J, T, {}, M) /\ Kept(U \cup J, T, {}, M)
    BY <1>5, <2>1, JobGives
  <2> QED BY <1>8, <2>1, <2>2
<1>10. FreeOK(rest)'
  BY <1>3, <1>7 DEF FreeOK
<1>11. free' \subseteq RAM /\ calls' \in 0 .. MaxCalls
  BY <1>2, <1>3, <1>6, <1>8, FaultType
<1>12. M = live' \cup rest /\ M \in SUBSET M
  BY <1>3, <1>4
<1> QED BY <1>1, <1>3, <1>4, <1>9, <1>10, <1>11, <1>12, FreeStep

-----------------------------------------------------------------------------
(* The calls, and every step *)

LEMMA AtLeastOne ==
  ASSUME NEW x \in Nat, NEW a \in Nat \ {0}, a <= x
  PROVE  x \div a \in Nat \ {0}
<1>1. PICK q : q = x \div a
  OBVIOUS
<1>2. q \in Nat /\ x < a * q + a
  BY <1>1, Bracket
<1>3. q # 0
  BY <1>2
<1> QED BY <1>1, <1>2, <1>3

LEMMA PositiveProduct ==
  ASSUME NEW a \in Nat \ {0}, NEW b \in Nat \ {0}
  PROVE  a * b \in Nat \ {0}
<1>1. a * 1 <= a * b /\ a * b \in Nat
  BY ProductsGrow
<1> QED BY <1>1

\* A page size asked for is made of pages of a size there is.
LEMMA Converts ==
  ASSUME NEW bytes \in Nat \ {0}
  PROVE  /\ convertPreferredPageToAvailablePages(bytes).size \in pageSizes
         /\ convertPreferredPageToAvailablePages(bytes).number \in Nat \ {0}
<1>1. BASE_PAGE \in Nat \ {0} /\ BASE_PAGE \in pageSizes
  BY PageFacts DEF pageSizes
<1>2. CASE bytes <= BASE_PAGE
  BY <1>1, <1>2 DEF convertPreferredPageToAvailablePages
<1>3. CASE ~(bytes <= BASE_PAGE)
  <2>1. PICK S : S = {s \in pageSizes : s <= bytes}
    OBVIOUS
  <2>2. S \in SUBSET pageSizes /\ S \in SUBSET Nat /\ BASE_PAGE \in S
    <3>1. S \in SUBSET pageSizes
      BY <2>1
    <3>2. \A s \in pageSizes : s \in Nat
      BY SizeFacts
    <3>3. BASE_PAGE <= bytes
      BY <1>1, <1>3
    <3> QED BY <1>1, <2>1, <3>1, <3>2, <3>3, Zenon
  <2>3. IsFiniteSet(pageSizes)
    <3>1. IsFiniteSet({BASE_PAGE})
      BY FS_Singleton
    <3>2. IsFiniteSet({BASE_PAGE} \cup {LARGE_PAGE})
      BY <3>1, FS_AddElement
    <3>3. IsFiniteSet(({BASE_PAGE} \cup {LARGE_PAGE}) \cup {HUGE_PAGE})
      BY <3>2, FS_AddElement
    <3>4. pageSizes = ({BASE_PAGE} \cup {LARGE_PAGE}) \cup {HUGE_PAGE}
      BY DEF pageSizes
    <3> QED BY <3>3, <3>4
  <2>4. IsFiniteSet(S)
    BY <2>2, <2>3, FS_Subset, Zenon
  <2>5. PICK m : m = Max(S)
    OBVIOUS
  <2>6. m \in S
    BY <2>2, <2>4, <2>5, MaxIs
  <2>7. m \in pageSizes /\ m \in Nat \ {0} /\ m <= bytes
    BY <2>1, <2>6, SizeFacts
  <2>8. bytes \div m \in Nat \ {0}
    BY <2>7, AtLeastOne
  <2>9. convertPreferredPageToAvailablePages(bytes) = [size |-> m, number |-> bytes \div m]
    BY <1>3, <2>1, <2>5 DEF convertPreferredPageToAvailablePages
  <2> QED BY <2>7, <2>8, <2>9
<1> QED BY <1>2, <1>3

LEMMA ExplicitKeeps ==
  ASSUME IInv, NEW number \in Nat \ {0}, NEW preferred \in Nat \ {0},
         allocAndMapExplicit(number, preferred) \/ allocContiguousAndMap(number, preferred)
  PROVE  IInv'
<1>1. PICK size, k : /\ size = convertPreferredPageToAvailablePages(preferred).size
                     /\ k = convertPreferredPageToAvailablePages(preferred).number
  OBVIOUS
<1>2. size \in pageSizes /\ k \in Nat \ {0} /\ size \in Nat \ {0}
  BY <1>1, Converts, SizeFacts
<1>3. PICK n : n = number * k
  OBVIOUS
<1>4. n \in Nat \ {0} /\ n \in Nat
  BY <1>2, <1>3, PositiveProduct
<1>5. TypeOK
  BY DEF IInv
<1>6. CASE allocAndMapExplicit(number, preferred)
  <2>1. PICK candidates : candidates = Scattered(n, size)
    OBVIOUS
  <2>2. TakeAndMap(n, size, Scattered(n, size))
    BY <1>1, <1>3, <1>6 DEF allocAndMapExplicit
  <2>3. \A pages \in Scattered(n, size) : Chosen(pages, n, size)
    BY <1>4, <1>5, ScatteredChosen
  <2> QED BY <1>2, <1>4, <2>2, <2>3, TakeKeeps
<1>7. CASE allocContiguousAndMap(number, preferred)
  <2>1. TakeAndMap(n, size, Contiguous(n, size))
    BY <1>1, <1>3, <1>7 DEF allocContiguousAndMap
  <2>2. \A pages \in Contiguous(n, size) : Chosen(pages, n, size)
    BY <1>2, <1>4, <1>5, ContiguousChosen
  <2> QED BY <1>2, <1>4, <2>1, <2>2, TakeKeeps
<1> QED BY <1>6, <1>7

LEMMA AllocKeeps ==
  ASSUME IInv, NEW bytes \in Nat \ {0}, allocAndMap(bytes)
  PROVE  IInv'
<1>1. PICK enough : enough = {s \in {BASE_PAGE, LARGE_PAGE} : CeilingDiv(bytes, s) <= ENTRIES \div 2}
  OBVIOUS
<1>2. PICK size : size = IF enough = {} THEN HUGE_PAGE ELSE Min(enough)
  OBVIOUS
<1>3. size \in Nat \ {0}
  <2>1. enough \in SUBSET Nat /\ enough \in SUBSET {BASE_PAGE, LARGE_PAGE}
    BY <1>1, PageFacts
  <2>2. enough # {} => Min(enough) \in enough
    BY <2>1, MinIs
  <2> QED BY <1>2, <2>1, <2>2, PageFacts
<1>4. PICK n : n = CeilingDiv(bytes, size)
  OBVIOUS
<1>5. n \in Nat \ {0}
  <2>1. bytes + size - 1 \in Nat /\ size <= bytes + size - 1
    BY <1>3
  <2> QED BY <1>3, <1>4, <2>1, AtLeastOne DEF CeilingDiv
<1>6. allocAndMapExplicit(n, size)
  BY <1>1, <1>2, <1>4 DEF allocAndMap
<1> QED BY <1>3, <1>5, <1>6, ExplicitKeeps

LEMMA GivableKeeps ==
  ASSUME IInv, NEW r \in Givable, freeMapped(r[1], r[2])
  PROVE  IInv'
<1>1. PICK p \in {x \in live : x.virt >= START} :
        r \in {<<f, q.virt + q.size>> : f \in p.virt .. p.virt + p.size - 1,
                                        q \in {x \in live : x.virt >= p.virt}}
  BY DEF Givable
<1>2. PICK f \in p.virt .. p.virt + p.size - 1, q \in {x \in live : x.virt >= p.virt} :
        r = <<f, q.virt + q.size>>
  BY <1>1
<1>3. \A b \in r[1] .. r[2] - 1 : \E x \in live : x.virt <= b /\ b < x.virt + x.size
  BY DEF Givable
<1>4. PICK end : end = q.virt + q.size
  OBVIOUS
<1>5. r[1] = f /\ r[2] = end
  BY <1>2, <1>4
<1>6. p \in live /\ q \in live /\ p.virt >= START /\ q.virt >= p.virt
  OBVIOUS
<1>7. p.virt \in Nat /\ q.virt \in Nat
  <2>1. TypeOK
    BY DEF IInv
  <2>2. live \subseteq MappedPages
    BY <2>1 DEF TypeOK, MappedPages
  <2>3. p \in MappedPages /\ q \in MappedPages
    BY <1>6, <2>2
  <2> QED BY <2>3 DEF MappedPages
<1>8. START <= p.virt /\ p.virt <= q.virt
  BY <1>6, <1>7, RegionFacts
<1>9. /\ \A b \in f .. end - 1 : \E x \in live : x.virt <= b /\ b < x.virt + x.size
      /\ freeMapped(f, end)
  BY <1>3, <1>5
<1> QED BY <1>4, <1>6, <1>8, <1>9, FreeMappedKeeps

\* A step that changes nothing.
LEMMA StutterKeeps ==
  ASSUME IInv, UNCHANGED vars
  PROVE  IInv'
<1>1. UNCHANGED <<start, table, free, live, pc, job, walk, fault, calls>>
  BY DEF vars
<1>2. TypeOK /\ NeverCorrupt
  BY DEF IInv
<1>3. /\ pc \in {"idle", "map", "free"} /\ calls' \in 0 .. MaxCalls
      /\ fault' \in {"", "tooLarge", "assertion", "noMemory", "overwritten"}
      /\ free' \subseteq RAM
  BY <1>1, <1>2, FaultType
<1>4. CASE pc = "map"
  BY <1>1, <1>3, <1>4, MapStops
<1>5. CASE pc = "idle"
  <2>1. start' \in Nat /\ start <= start' /\ start' <= END
    <3>1. start \in Nat /\ start <= END /\ start' = start
      BY <1>1, <1>2, StartType
    <3>2. start <= start
      BY <3>1
    <3> QED BY <3>1, <3>2, Zenon
  <2> QED BY <1>1, <1>3, <1>5, <2>1, IdleKeeps
<1>6. CASE pc = "free"
  <2>1. PICK rest : MemoryOK(rest)
    BY DEF IInv
  <2>2. PICK M : M = live \cup rest
    OBVIOUS
  <2>3. /\ Apart(free, DOMAIN table, InJob, M) /\ Kept(free, DOMAIN table, InJob, M)
        /\ FreeOK(rest)
    BY <2>1, <2>2 DEF MemoryOK
  <2>4. InJob' = InJob
    BY <1>1, <1>6 DEF InJob
  <2>5. FreeOK(rest)'
    <3>1. Ahead(rest, job.at, job.end)' <=> Ahead(rest, job.at, job.end)
      BY <1>1 DEF Ahead
    <3> QED BY <1>1, <1>6, <2>3, <2>4, <3>1 DEF FreeOK
  <2>6. M = live' \cup rest /\ M \in SUBSET M
    BY <1>1, <2>2
  <2>7. Apart(free', DOMAIN table, InJob', M) /\ Kept(free', DOMAIN table, InJob', M)
    BY <1>1, <2>3, <2>4
  <2> QED BY <1>1, <1>3, <1>6, <2>1, <2>2, <2>5, <2>6, <2>7, FreeStep
<1> QED BY <1>3, <1>4, <1>5, <1>6

LEMMA NextKeeps == IInv /\ [Next]_vars => IInv'
<1> SUFFICES ASSUME IInv, [Next]_vars PROVE IInv'
  OBVIOUS
<1>1. ASSUME NEW bytes \in Bytes, allocAndMap(bytes) PROVE IInv'
  BY <1>1, AllocKeeps, CallsAssumption
<1>2. ASSUME NEW number \in Numbers, NEW preferred \in Preferred,
             allocAndMapExplicit(number, preferred) \/ allocContiguousAndMap(number, preferred)
      PROVE  IInv'
  BY <1>2, ExplicitKeeps, CallsAssumption
<1>3. ASSUME NEW r \in Givable, freeMapped(r[1], r[2]) PROVE IInv'
  BY <1>3, GivableKeeps
<1>4. CASE MapTable
  BY <1>4, MapTableKeeps
<1>5. CASE MapDescend
  BY <1>5, MapDescendKeeps
<1>6. CASE MapLeaf
  BY <1>6, MapLeafKeeps
<1>7. CASE FreeNext
  BY <1>7, FreeNextKeeps
<1>8. CASE FreeEnd
  BY <1>8, FreeEndKeeps
<1>9. CASE UNCHANGED vars
  BY <1>9, StutterKeeps
<1> QED BY <1>1, <1>2, <1>3, <1>4, <1>5, <1>6, <1>7, <1>8, <1>9, Zenon DEF Next, Step

-----------------------------------------------------------------------------
(* The screen is mapped first *)

LEMMA Listed ==
  ASSUME NEW n \in Nat \ {0}, NEW f \in [1 .. n -> Nat]
  PROVE  f \in Seq(Nat) /\ Len(f) = n /\ DOMAIN f = 1 .. n /\ f # <<>>
<1>1. f \in Seq(Nat) /\ Len(f) = n /\ DOMAIN f = 1 .. n
  OBVIOUS
<1> QED BY <1>1

\* The n pages from a on: the screen's, and below the addresses handed out.
ScreenJob(n, a, pages) ==
  /\ n \in Nat \ {0} /\ a \in Nat /\ a % BASE_PAGE = 0
  /\ a + n * BASE_PAGE <= START /\ a < START /\ Min(SCREEN \cup {START}) = a
  /\ pages \in Seq(Nat) /\ Len(pages) = n /\ DOMAIN pages = 1 .. n /\ pages # <<>>
  /\ \A i \in 1 .. n : pages[i] \in SCREEN /\ pages[i] % BASE_PAGE = 0
  /\ \A i, j \in 1 .. n : i # j => pages[i] # pages[j]

LEMMA ScreenPages ==
  ASSUME SCREEN # {}, NEW n, n = Cardinality(SCREEN), NEW a, a = Min(SCREEN),
         NEW pages, pages = [i \in 1 .. n |-> a + (i - 1) * BASE_PAGE]
  PROVE  ScreenJob(n, a, pages)
<1>1. IsFiniteSet(SCREEN) /\ SCREEN \in SUBSET Nat
  BY RegionAssumption
<1>2. n \in Nat \ {0}
  <2>1. n \in Nat
    BY <1>1, FS_CardinalityType
  <2>2. n # 0
    BY <1>1, FS_EmptySet
  <2> QED BY <2>1, <2>2
<1>3. a \in SCREEN /\ \A y \in SCREEN : a <= y
  BY <1>1, MinIs
<1>4. a \in Nat /\ a % BASE_PAGE = 0 /\ START \in Nat /\ BASE_PAGE \in Nat \ {0}
  BY <1>1, <1>3, RegionFacts, PageFacts
<1>5. \A i \in 1 .. n : a + (i - 1) * BASE_PAGE \in SCREEN /\ a + i * BASE_PAGE <= START
  BY RegionAssumption
<1>6. a + n * BASE_PAGE <= START
  BY <1>2, <1>5
<1>7. a < START
  <2>1. PICK m : m = n * BASE_PAGE
    OBVIOUS
  <2>2. m \in Nat \ {0}
    BY <1>2, <1>4, <2>1, PositiveProduct
  <2>3. a + m <= START
    BY <1>6, <2>1
  <2> QED BY <1>4, <2>2, <2>3
<1>8. Min(SCREEN \cup {START}) = a
  <2>1. PICK S, m : S = SCREEN \cup {START} /\ m = Min(S)
    OBVIOUS
  <2>2. S \in SUBSET Nat /\ S # {}
    BY <1>1, <1>4, <2>1
  <2>3. m \in S /\ \A y \in S : m <= y
    BY <2>1, <2>2, MinIs
  <2>4. m <= a /\ m \in Nat
    BY <1>3, <2>1, <2>2, <2>3
  <2>5. m # START
    BY <1>4, <1>7, <2>4
  <2>6. a <= m
    BY <1>3, <2>1, <2>3, <2>5
  <2> QED BY <1>4, <2>1, <2>4, <2>6
<1>9. \A i \in 1 .. n : pages[i] = a + (i - 1) * BASE_PAGE
  OBVIOUS
<1>10. \A i \in 1 .. n : pages[i] \in SCREEN /\ pages[i] % BASE_PAGE = 0
  BY <1>5, <1>9, RegionFacts
<1>11. pages \in [1 .. n -> Nat]
  <2>1. \A i \in 1 .. n : pages[i] \in Nat
    BY <1>1, <1>10
  <2>2. pages = [i \in 1 .. n |-> pages[i]]
    BY <1>9
  <2> QED BY <2>1, <2>2
<1>12. pages \in Seq(Nat) /\ Len(pages) = n /\ DOMAIN pages = 1 .. n /\ pages # <<>>
  BY <1>2, <1>11, Listed
<1>13. ASSUME NEW i \in 1 .. n, NEW j \in 1 .. n, i < j PROVE pages[i] # pages[j]
  <2>1. PICK k, x : k = j - i /\ x = (i - 1) * BASE_PAGE
    OBVIOUS
  <2>2. k \in Nat \ {0} /\ x \in Nat
    BY <1>2, <1>4, <1>13, <2>1
  <2>3. PICK d : d = k * BASE_PAGE
    OBVIOUS
  <2>4. d \in Nat \ {0}
    BY <1>4, <2>2, <2>3, PositiveProduct
  <2>5. (j - 1) * BASE_PAGE = x + d
    BY <1>2, <1>4, <2>1, <2>3
  <2>6. pages[i] = a + x /\ pages[j] = a + (x + d)
    BY <1>9, <2>1, <2>5
  <2> QED BY <1>4, <2>2, <2>4, <2>6
<1>14. \A i, j \in 1 .. n : i # j => pages[i] # pages[j]
  <2> SUFFICES ASSUME NEW i \in 1 .. n, NEW j \in 1 .. n, i # j PROVE pages[i] # pages[j]
    OBVIOUS
  <2>1. i < j \/ j < i
    BY <1>2
  <2> QED BY <1>13, <2>1
<1> QED BY <1>2, <1>4, <1>6, <1>7, <1>8, <1>10, <1>12, <1>14 DEF ScreenJob

\* The loader's tables are in memory the kernel runs on, which is all of the memory's.
LEMMA LoaderFrames ==
  /\ ROOT \in DOMAIN LoaderTables /\ DOMAIN LoaderTables \subseteq KernelFrames
  /\ KernelFrames \subseteq RAM
  /\ \A t \in DOMAIN LoaderTables : DOMAIN LoaderTables[t] = 0 .. ENTRIES - 1
<1>1. DOMAIN LoaderTables = {TABLE_AT[q] : q \in LoaderPlaces}
  BY DEF LoaderTables
<1>2. [level |-> 0, region |-> 0] \in LoaderPlaces
  BY DEF LoaderPlaces
<1>3. ROOT \in DOMAIN LoaderTables
  BY <1>1, <1>2, LoaderAssumption
<1>4. DOMAIN LoaderTables \subseteq KernelFrames
  BY <1>1 DEF KernelFrames
<1>5. KernelFrames \subseteq RAM
  <2>1. \A q \in LoaderPlaces : TABLE_AT[q] \in RAM
    BY LoaderAssumption
  <2>2. ASSUME NEW v \in DOMAIN LOADED, END <= v PROVE LOADED[v] \in RAM
    <3>1. v \in Nat /\ ((v < START /\ LOADED[v] = v) \/ LOADED[v] \in RAM)
      BY LoaderAssumption
    <3>2. ~(v < START)
      BY <2>2, <3>1, RegionFacts
    <3> QED BY <3>1, <3>2
  <2> QED BY <2>1, <2>2 DEF KernelFrames
<1>6. ASSUME NEW t \in DOMAIN LoaderTables PROVE DOMAIN LoaderTables[t] = 0 .. ENTRIES - 1
  BY <1>1, <1>6 DEF LoaderTables
<1> QED BY <1>3, <1>4, <1>5, <1>6

\* The place of a table of the loader, and the entry the loader wrote.
PlaceOf(t) == CHOOSE q \in LoaderPlaces : TABLE_AT[q] = t
LoadedEntry(at, slot) ==
  IF at.level = 3
    THEN IF slot * BASE_PAGE \in DOMAIN LOADED
           THEN [frame |-> LOADED[slot * BASE_PAGE], extended |-> FALSE] ELSE NONE
    ELSE IF [level |-> at.level + 1, region |-> slot] \in LoaderPlaces
           THEN [frame |-> TABLE_AT[[level |-> at.level + 1, region |-> slot]], extended |-> FALSE]
           ELSE NONE

LEMMA LoaderEntries ==
  ASSUME NEW t \in DOMAIN LoaderTables, NEW i \in 0 .. ENTRIES - 1
  PROVE  LoaderTables[t][i] = LoadedEntry(PlaceOf(t), PlaceOf(t).region * ENTRIES + i)
<1>1. t \in {TABLE_AT[q] : q \in LoaderPlaces}
  BY DEF LoaderTables
<1> QED BY <1>1 DEF LoaderTables, LoadedEntry, PlaceOf

LEMMA PlacesFound ==
  /\ \A t \in DOMAIN LoaderTables : PlaceOf(t) \in LoaderPlaces
  /\ \A q \in LoaderPlaces : TABLE_AT[q] \in DOMAIN LoaderTables /\ PlaceOf(TABLE_AT[q]) = q
<1>1. DOMAIN LoaderTables = {TABLE_AT[q] : q \in LoaderPlaces}
  BY DEF LoaderTables
<1>2. ASSUME NEW t \in DOMAIN LoaderTables
      PROVE  PlaceOf(t) \in LoaderPlaces /\ TABLE_AT[PlaceOf(t)] = t
  <2>1. \E q \in LoaderPlaces : TABLE_AT[q] = t
    BY <1>1
  <2> QED BY <2>1 DEF PlaceOf
<1>3. ASSUME NEW q \in LoaderPlaces
      PROVE  TABLE_AT[q] \in DOMAIN LoaderTables /\ PlaceOf(TABLE_AT[q]) = q
  <2>1. TABLE_AT[q] \in DOMAIN LoaderTables
    BY <1>1
  <2>2. PlaceOf(TABLE_AT[q]) \in LoaderPlaces /\ TABLE_AT[PlaceOf(TABLE_AT[q])] = TABLE_AT[q]
    BY <1>2, <2>1
  <2> QED BY <2>1, <2>2, LoaderAssumption
<1> QED BY <1>2, <1>3

\* A table below the root is there for a page the loader mapped in what it covers.
LEMMA PlaceNeeded ==
  ASSUME NEW k \in 0 .. 2, NEW slot, [level |-> k + 1, region |-> slot] \in LoaderPlaces
  PROVE  Outside(slot, k)
<1>1. [level |-> k + 1, region |-> slot] # [level |-> 0, region |-> 0]
  <2>1. k + 1 # 0
    OBVIOUS
  <2> QED BY <2>1
<1>2. PICK v \in DOMAIN LOADED, l \in 1 .. 3 :
        [level |-> k + 1, region |-> slot] = [level |-> l, region |-> v \div Covers(l - 1)]
  BY <1>1 DEF LoaderPlaces
<1>3. l = k + 1 /\ slot = v \div Covers(l - 1)
  BY <1>2
<1>4. slot = Slot(v, k)
  <2>1. l - 1 = k
    BY <1>3
  <2> QED BY <1>3, <2>1 DEF Slot
<1>5. v \in Nat /\ (v < START \/ END <= v)
  BY LoaderAssumption
<1>6. slot * Covers(k) \in Nat /\ slot * Covers(k) <= v /\ v < (slot + 1) * Covers(k)
      /\ (slot + 1) * Covers(k) \in Nat
  <2>1. k \in 0 .. 3
    OBVIOUS
  <2>2. Slot(v, k) * Covers(k) \in Nat /\ Slot(v, k) * Covers(k) <= v
        /\ v < (Slot(v, k) + 1) * Covers(k)
        /\ (Slot(v, k) + 1) * Covers(k) = Slot(v, k) * Covers(k) + Covers(k)
    BY <1>5, <2>1, SlotBounds
  <2>3. Covers(k) \in Nat
    BY <2>1, CoversFacts
  <2> QED BY <1>4, <2>2, <2>3
<1>7. PICK x, y : x = slot * Covers(k) /\ y = (slot + 1) * Covers(k)
  OBVIOUS
<1>8. x < START \/ END < y
  BY <1>5, <1>6, <1>7, RegionFacts
<1> QED BY <1>7, <1>8 DEF Outside

LEMMA PlacesTyped == LoaderPlaces \subseteq Places
<1> SUFFICES ASSUME NEW q \in LoaderPlaces PROVE q \in Places
  OBVIOUS
<1>1. CASE q = [level |-> 0, region |-> 0]
  BY <1>1 DEF Places
<1>2. CASE \E v \in DOMAIN LOADED, k \in 1 .. 3 : q = [level |-> k, region |-> v \div Covers(k - 1)]
  <2>1. PICK v \in DOMAIN LOADED, k \in 1 .. 3 : q = [level |-> k, region |-> v \div Covers(k - 1)]
    BY <1>2
  <2>2. v \in Nat /\ k - 1 \in 0 .. 3
    BY LoaderAssumption
  <2>3. Covers(k - 1) \in Nat \ {0}
    BY <2>2, CoversFacts
  <2>4. v \div Covers(k - 1) \in Nat
    BY <2>2, <2>3, DivisionFacts
  <2> QED BY <2>1, <2>4 DEF Places
<1> QED BY <1>1, <1>2 DEF LoaderPlaces

\* The loader's tables are a tree of base pages outside the addresses handed out.
LEMMA LoaderTree ==
  ASSUME table = LoaderTables
  PROVE  \E place : /\ place \in [DOMAIN table -> Places]
                    /\ place[ROOT] = [level |-> 0, region |-> 0]
                    /\ \A t \in DOMAIN table, i \in 0 .. ENTRIES - 1 : EntryOK(place, t, i)
<1>1. PICK place : place = [t \in DOMAIN LoaderTables |-> PlaceOf(t)]
  OBVIOUS
<1>2. \A t \in DOMAIN LoaderTables : place[t] = PlaceOf(t) /\ place[t] \in LoaderPlaces
  BY <1>1, PlacesFound
<1>3. \A q \in LoaderPlaces : TABLE_AT[q] \in DOMAIN LoaderTables /\ place[TABLE_AT[q]] = q
  BY <1>2, PlacesFound
<1>4. place \in [DOMAIN table -> Places]
  BY <1>1, <1>2, PlacesTyped
<1>5. place[ROOT] = [level |-> 0, region |-> 0]
  <2>1. [level |-> 0, region |-> 0] \in LoaderPlaces
    BY DEF LoaderPlaces
  <2> QED BY <1>3, <2>1, LoaderAssumption
<1>6. ASSUME NEW t \in DOMAIN table, NEW i \in 0 .. ENTRIES - 1
      PROVE  EntryOK(place, t, i)
  <2>1. PICK k, slot, e : k = place[t].level /\ slot = place[t].region * ENTRIES + i /\ e = table[t][i]
    OBVIOUS
  <2>2. e = LoadedEntry(place[t], slot) /\ k \in 0 .. 3
    <3>1. k \in 0 .. 3
      BY <1>4, <2>1 DEF Places
    <3> QED BY <1>2, <2>1, <3>1, LoaderEntries
  <2>3. CASE k = 3
    <3>1. CASE slot * BASE_PAGE \in DOMAIN LOADED
      <4>1. e = [frame |-> LOADED[slot * BASE_PAGE], extended |-> FALSE]
        BY <2>1, <2>2, <2>3, <3>1 DEF LoadedEntry
      <4>2. PICK v : v = slot * BASE_PAGE
        OBVIOUS
      <4>3. (v < START /\ LOADED[v] = v) \/ END <= v
        BY <3>1, <4>2, LoaderAssumption
      <4>4. ByLoader(e, k, slot)
        BY <2>3, <4>1, <4>2, <4>3 DEF ByLoader
      <4> QED BY <2>1, <4>4 DEF EntryOK
    <3>2. CASE slot * BASE_PAGE \notin DOMAIN LOADED
      <4>1. e = NONE
        BY <2>1, <2>2, <2>3, <3>2 DEF LoadedEntry
      <4> QED BY <2>1, <4>1 DEF EntryOK
    <3> QED BY <3>1, <3>2
  <2>4. CASE k # 3
    <3>0. k \in 0 .. 2 /\ k < 3
      BY <2>2, <2>4
    <3>1. PICK below : below = [level |-> k + 1, region |-> slot]
      OBVIOUS
    <3>2. CASE below \in LoaderPlaces
      <4>1. e = [frame |-> TABLE_AT[below], extended |-> FALSE]
        BY <2>1, <2>2, <2>4, <3>1, <3>2 DEF LoadedEntry
      <4>2. ~e.extended /\ e.frame \in DOMAIN table /\ place[e.frame] = below
        BY <1>3, <3>2, <4>1
      <4>3. Needed(slot, k)
        BY <3>0, <3>1, <3>2, PlaceNeeded DEF Needed
      <4> QED BY <2>1, <3>0, <3>1, <4>2, <4>3 DEF EntryOK
    <3>3. CASE below \notin LoaderPlaces
      <4>1. e = NONE
        BY <2>1, <2>2, <2>4, <3>1, <3>3 DEF LoadedEntry
      <4> QED BY <2>1, <4>1 DEF EntryOK
    <3> QED BY <3>2, <3>3
  <2> QED BY <2>3, <2>4
<1> QED BY <1>4, <1>5, <1>6

LEMMA InitHolds == Init => IInv
<1> SUFFICES ASSUME Init PROVE IInv
  OBVIOUS
<1>1. /\ start = START /\ table = LoaderTables /\ free = RAM /\ live = {}
      /\ (SCREEN = {} => pc = "idle") /\ (SCREEN # {} => pc = "map")
      /\ walk = [table |-> ROOT, level |-> 0] /\ fault = "" /\ calls = 0
      /\ job = [virt |-> Min(SCREEN \cup {START}), size |-> BASE_PAGE,
                pages |-> [i \in 1 .. Cardinality(SCREEN) |-> Min(SCREEN) + (i - 1) * BASE_PAGE]]
  BY DEF Init
<1>2. ROOT \in DOMAIN table /\ DOMAIN table \subseteq KernelFrames /\ KernelFrames \subseteq RAM
      /\ \A t \in DOMAIN table : DOMAIN table[t] = 0 .. ENTRIES - 1
  BY <1>1, LoaderFrames
<1>4. TypeOK /\ NeverCorrupt
  <2>1. start \in START .. END
    <3>1. START \in START .. END
      BY RegionFacts
    <3> QED BY <1>1, <3>1, Zenon
  <2>2. calls \in 0 .. MaxCalls
    <3>1. 0 \in 0 .. MaxCalls
      BY CallsAssumption
    <3> QED BY <1>1, <3>1, Zenon
  <2>3. pc \in {"idle", "map", "free"}
    BY <1>1
  <2> QED BY <1>1, <1>2, <2>1, <2>2, <2>3 DEF TypeOK, NeverCorrupt
<1>5. PICK n, a, pages : /\ n = Cardinality(SCREEN) /\ a = Min(SCREEN)
                         /\ pages = [i \in 1 .. n |-> a + (i - 1) * BASE_PAGE]
  OBVIOUS
<1>6. ASSUME pc = "map"
      PROVE  /\ n \in Nat \ {0} /\ a \in Nat /\ a % BASE_PAGE = 0
             /\ a + n * BASE_PAGE <= START /\ a < START
             /\ pages \in Seq(Nat) /\ Len(pages) = n /\ DOMAIN pages = 1 .. n /\ pages # <<>>
             /\ \A i \in 1 .. n : pages[i] \in SCREEN /\ pages[i] % BASE_PAGE = 0
             /\ \A i, j \in 1 .. n : i # j => pages[i] # pages[j]
             /\ job = [virt |-> a, size |-> BASE_PAGE, pages |-> pages]
             /\ job.virt = a /\ job.size = BASE_PAGE /\ job.pages = pages
  <2>1. SCREEN # {}
    BY <1>1, <1>6
  <2>2. ScreenJob(n, a, pages)
    BY <1>5, <2>1, ScreenPages
  <2>3. job = [virt |-> a, size |-> BASE_PAGE, pages |-> pages]
    BY <1>1, <1>5, <2>2 DEF ScreenJob
  <2>4. job.virt = a /\ job.size = BASE_PAGE /\ job.pages = pages
    BY <2>3
  <2> QED BY <2>2, <2>3, <2>4 DEF ScreenJob
<1>7. BASE_PAGE \in pageSizes /\ BASE_PAGE \in Nat \ {0}
  BY PageFacts DEF pageSizes
<1>8. MapOK
  <2> SUFFICES ASSUME pc = "map"
               PROVE  /\ job \in [virt : Nat, pages : Seq(Nat), size : pageSizes]
                      /\ job.virt % job.size = 0 /\ job.pages # <<>>
                      /\ job.virt + Len(job.pages) * job.size <= start
                      /\ walk \in [table : DOMAIN table, level : 0 .. pageSizeToDepth(job.size) - 1]
                      /\ InPlace
    BY DEF MapOK
  <2>1. job \in [virt : Nat, pages : Seq(Nat), size : pageSizes]
    <3>1. PICK P : P = Seq(Nat)
      OBVIOUS
    <3>2. job \in [virt : Nat, pages : P, size : pageSizes]
      BY <1>6, <1>7, <3>1
    <3> QED BY <3>1, <3>2
  <2>2. walk \in [table : DOMAIN table, level : 0 .. pageSizeToDepth(job.size) - 1]
    <3>1. 0 \in 0 .. pageSizeToDepth(BASE_PAGE) - 1
      BY <1>7, SizeFacts
    <3> QED BY <1>1, <1>2, <1>6, <3>1
  <2>3. job.virt + Len(job.pages) * job.size <= start
    BY <1>1, <1>6
  <2>4. InPlace
    BY <1>5, <1>6 DEF InPlace
  <2> QED BY <1>6, <2>1, <2>2, <2>3, <2>4
<1>9. WalkOK
  <2>1. walk.level = 0 /\ walk.table = ROOT
    BY <1>1
  <2> QED BY <2>1 DEF WalkOK
<1>10. Tree
  <2>1. PICK place : /\ place \in [DOMAIN table -> Places]
                     /\ place[ROOT] = [level |-> 0, region |-> 0]
                     /\ \A t \in DOMAIN table, i \in 0 .. ENTRIES - 1 : EntryOK(place, t, i)
    BY <1>1, LoaderTree
  <2>5. ASSUME pc = "map"
        PROVE  place[walk.table] = [level |-> walk.level,
                                    region |-> Slot(job.virt, walk.level) \div ENTRIES]
    <3>1. a < END /\ a \in Nat
      BY <1>6, <2>5, RegionFacts
    <3>2. [level |-> 0, region |-> 0] = [level |-> 0, region |-> Slot(a, 0) \div ENTRIES]
      BY <3>1, WalkBegins
    <3>3. walk.table = ROOT /\ walk.level = 0 /\ job.virt = a
      BY <1>1, <1>6, <2>5
    <3> QED BY <2>1, <3>2, <3>3
  <2>6. Placed(place)
    BY <1>2, <2>1, <2>5 DEF Placed
  <2> QED BY <2>6 DEF Tree
<1>11. PagesTaken
  BY <1>6 DEF PagesTaken
<1>12. InJob \cap RAM = {} /\ pc # "free"
  <2>1. InJob \subseteq SCREEN
    <3>1. CASE pc = "map"
      <4>1. ASSUME NEW i \in 1 .. n PROVE Pages(pages[i], BASE_PAGE) \subseteq SCREEN
        <5>1. pages[i] \in SCREEN /\ pages[i] \in Nat /\ pages[i] % BASE_PAGE = 0
          BY <1>6, <3>1, RegionFacts
        <5> QED BY <5>1, PagesBase
      <4>2. InJob = UNION {Pages(pages[i], BASE_PAGE) : i \in 1 .. n}
        BY <1>6, <3>1 DEF InJob
      <4> QED BY <4>1, <4>2
    <3>2. CASE pc = "idle"
      BY <3>2 DEF InJob
    <3> QED BY <1>1, <3>1, <3>2
  <2> QED BY <1>1, <2>1, RegionFacts
<1>13. MemoryOK({})
  <2>1. live \cup {} = {}
    BY <1>1
  <2>2. WellMapped({}, Frontier) /\ FoundAll({})
    BY DEF WellMapped, FoundAll
  <2>4. Apart(free, DOMAIN table, InJob, {})
    <3>1. PICK U, T, J : U = free /\ T = DOMAIN table /\ J = InJob
      OBVIOUS
    <3>2. T \subseteq KernelFrames /\ KernelFrames \subseteq RAM /\ U = RAM /\ J \cap RAM = {}
      BY <1>1, <1>2, <1>12, <3>1
    <3>3. Apart(U, T, J, {})
      BY <3>2 DEF Apart
    <3> QED BY <3>1, <3>3
  <2>5. Kept(free, DOMAIN table, InJob, {})
    BY <1>1 DEF Kept
  <2>6. FreeOK({})
    BY <1>12 DEF FreeOK
  <2> QED BY <2>1, <2>2, <2>4, <2>5, <2>6 DEF MemoryOK
<1> QED BY <1>4, <1>8, <1>9, <1>10, <1>11, <1>13 DEF IInv

-----------------------------------------------------------------------------
(* The theorems *)

LEMMA InvariantMappings == IInv => MappingsRight
<1> SUFFICES ASSUME IInv PROVE MappingsRight
  OBVIOUS
<1>1. PICK rest : MemoryOK(rest)
  BY DEF IInv
<1>2. WellMapped(live \cup rest, Frontier) /\ FoundAll(live \cup rest)
  BY <1>1 DEF MemoryOK
<1>3. Translates
  BY <1>2, Mapped DEF Translates, FoundAll
<1>4. AddressesDisjoint
  BY <1>2 DEF AddressesDisjoint, WellMapped
<1> QED BY <1>3, <1>4 DEF IInv, MappingsRight

LEMMA InvariantFrames == IInv => FramesRight
<1> SUFFICES ASSUME IInv PROVE FramesRight
  OBVIOUS
<1>1. PICK rest : MemoryOK(rest)
  BY DEF IInv
<1>2. PICK U, T, J, M : U = free /\ T = DOMAIN table /\ J = InJob /\ M = live \cup rest
  OBVIOUS
<1>3. Apart(U, T, J, M) /\ Kept(U, T, J, M) /\ FreeOK(rest)
  BY <1>1, <1>2 DEF MemoryOK
<1>4. OneUse
  <2>1. T \cap U \subseteq KernelFrames /\ J \cap (U \cup T \cup KernelFrames) = {}
    BY <1>3 DEF Apart
  <2>2. ASSUME NEW p \in live
        PROVE  FramesOf(p) \cap (U \cup T \cup KernelFrames) = {} /\ FramesOf(p) \cap J = {}
    <3>1. p \in M
      BY <1>2
    <3> QED BY <1>3, <3>1 DEF Apart
  <2>3. ASSUME NEW p \in live, NEW q \in live, p # q PROVE FramesOf(p) \cap FramesOf(q) = {}
    <3>1. p \in M /\ q \in M
      BY <1>2
    <3> QED BY <1>3, <2>3, <3>1 DEF Apart
  <2>4. ASSUME NEW q \in Pending PROVE Pages(q.phys, q.size) \subseteq J
    <3>1. pc = "map" /\ \E i \in DOMAIN job.pages : q = [phys |-> job.pages[i], size |-> job.size]
      BY DEF Pending
    <3>2. PICK i \in DOMAIN job.pages : q = [phys |-> job.pages[i], size |-> job.size]
      BY <3>1
    <3>3. Pages(q.phys, q.size) = Pages(job.pages[i], job.size)
      BY <3>2
    <3> QED BY <1>2, <3>1, <3>3 DEF InJob
  <2>5. \A p \in live, q \in Pending : FramesOf(p) \cap Pages(q.phys, q.size) = {}
    BY <2>2, <2>4
  <2>6. \A q \in Pending : Pages(q.phys, q.size) \cap (U \cup T \cup KernelFrames) = {}
    BY <2>1, <2>4
  <2> QED BY <1>2, <2>1, <2>2, <2>3, <2>5, <2>6 DEF OneUse, FramesOf
<1>5. NothingLost
  <2> SUFFICES ASSUME pc = "idle"
               PROVE  RAM \subseteq free \cup DOMAIN table \cup UNION {Pages(p.phys, p.size) : p \in live}
    BY DEF NothingLost
  <2>1. rest = {} /\ J = {}
    BY <1>2, <1>3 DEF FreeOK, InJob
  <2>2. \A f \in RAM : f \in U \/ f \in T \/ \E p \in live : f \in FramesOf(p)
    BY <1>2, <1>3, <2>1 DEF Kept
  <2> QED BY <1>2, <2>2 DEF FramesOf
<1> QED BY <1>4, <1>5 DEF FramesRight

\* The virtual memory manager never leaves its invariant: the page tables are a tree,
\* nothing behind the addresses handed out is mapped by the kernel yet, and free, table,
\* pending and mapped frames are together all of the memory, and apart but for the
\* frames the kernel runs on since the loader, which are free too.
THEOREM InvariantHolds == Spec => []IInv
<1> USE InitHolds, NextKeeps
<1> QED BY PTL DEF Spec

\* Every page in use is translated by the tables mapVirtualRegionWithFlags wrote to the
\* frames it was mapped to, with its size and at addresses of its own, and no walk
\* ever follows an entry for a page as if it led to a table.
THEOREM Mappings == Spec => []MappingsRight
BY InvariantHolds, InvariantMappings, PTL

\* From the loader's tables on, and until a frame the kernel runs on is handed out: no
\* frame is used twice, as pages, tables, free memory or the pages of a call being
\* served, but for those frames, which are free as well; and between calls of
\* allocAndMap and freeMapped none is lost.
THEOREM Frames == Spec => []FramesRight
BY InvariantHolds, InvariantFrames, PTL
=============================================================================
