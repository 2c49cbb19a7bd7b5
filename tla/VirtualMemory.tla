--------------------------- MODULE VirtualMemory ---------------------------
(***************************************************************************)
(* The virtual memory manager and the memory policy of the kernel          *)
(* (x86/memory/virtual, x86/memory/policy): four levels of page tables,    *)
(* virtual addresses that are handed out upwards, allocAndMap and its      *)
(* relatives, and freeMapped.  The physical memory manager is what it      *)
(* promises in PhysicalMemory: a call for pages returns aligned ones that  *)
(* were free, or raises a fault when there are too few.  The tables it     *)
(* begins with are the loader's, and the kernel takes the frames they are  *)
(* in, with those of its code, parameters and stack, for free memory: when *)
(* one of them is handed out, what happens next is no longer the kernel's  *)
(* to say, and the model stops.                                            *)
(***************************************************************************)
EXTENDS Integers, Sequences, FiniteSets, FiniteSetsExt

CONSTANTS
  ENTRIES,           \* entries of a page table: 512 in the code
  PAGE_FRAME_SIZE,   \* bytes of a base page
  START, END,        \* higherHalfRegion as it is at the beginning
  SCREEN,            \* the base pages of the screen, mapped where they are
  RAM,               \* the base pages of the physical memory, by address
  ROOT,              \* the loader's root table, in CR3
  LOADED,            \* the frame of each base page the loader mapped, by address
  TABLE_AT,          \* the frame of each of the loader's tables, by its place
  Bytes,             \* the sizes allocAndMap is called with
  Preferred,         \* the page sizes asked of the explicit calls
  Numbers,           \* and how many pages
  MaxCalls           \* bound on the calls made

BASE_PAGE == PAGE_FRAME_SIZE
LARGE_PAGE == BASE_PAGE * ENTRIES
HUGE_PAGE == LARGE_PAGE * ENTRIES
JUMBO_PAGE_SIZE == HUGE_PAGE * ENTRIES
pageSizes == {BASE_PAGE, LARGE_PAGE, HUGE_PAGE}

\* The addresses handed out, without the bits the processor repeats, are within what
\* the tables translate, and behind the screen's, which are one after the other.
ASSUME RegionAssumption ==
  /\ ENTRIES \in Nat \ {0, 1} /\ PAGE_FRAME_SIZE \in Nat \ {0}
  /\ RAM \subseteq Nat /\ SCREEN \subseteq Nat
  /\ IsFiniteSet(RAM) /\ IsFiniteSet(SCREEN) /\ RAM \cap SCREEN = {}
  /\ \A p \in RAM \cup SCREEN : p % BASE_PAGE = 0
  /\ START \in Nat /\ END \in Nat /\ START % BASE_PAGE = 0
  /\ START <= END /\ END <= ENTRIES * JUMBO_PAGE_SIZE
  /\ \A i \in 1 .. Cardinality(SCREEN) :
       /\ Min(SCREEN) + (i - 1) * BASE_PAGE \in SCREEN
       /\ Min(SCREEN) + i * BASE_PAGE <= START

\* What an entry of the table at each level covers: the root is level 0.
Covers(level) == CASE level = 0 -> JUMBO_PAGE_SIZE [] level = 1 -> HUGE_PAGE
                   [] level = 2 -> LARGE_PAGE [] level = 3 -> BASE_PAGE

\* The places of the loader's tables: one for what an entry above covers, if the
\* loader mapped a page there.
LoaderPlaces ==
  {[level |-> 0, region |-> 0]}
    \cup {[level |-> k, region |-> v \div Covers(k - 1)] : v \in DOMAIN LOADED, k \in 1 .. 3}

\* The loader maps the memory and the screen where they are, and the kernel's code,
\* parameters and stack behind the addresses the kernel hands out.
ASSUME LoaderAssumption ==
  /\ DOMAIN LOADED \subseteq Nat
  /\ \A v \in DOMAIN LOADED :
       /\ v % BASE_PAGE = 0 /\ v < ENTRIES * JUMBO_PAGE_SIZE
       /\ (v < START /\ LOADED[v] = v) \/ (END <= v /\ LOADED[v] \in RAM)
  /\ TABLE_AT \in [LoaderPlaces -> RAM]
  /\ \A q, r \in LoaderPlaces : TABLE_AT[q] = TABLE_AT[r] => q = r
  /\ ROOT = TABLE_AT[[level |-> 0, region |-> 0]]

\* A call asks for something.
ASSUME CallsAssumption ==
  /\ Bytes \subseteq Nat \ {0} /\ Preferred \subseteq Nat \ {0}
  /\ Numbers \subseteq Nat \ {0} /\ MaxCalls \in Nat

VARIABLES
  start,   \* higherHalfRegion.start
  table,   \* the page tables: for each its entries, [frame, extended], or NONE
  free,    \* the base pages the physical memory manager has
  live,    \* the mapped pages in use: [virt, phys, size]
  pc,      \* where the call in progress is
  job,     \* mapping: where to, the pages to map and their size;
           \* freeing: where it is, its end and the run collected so far
  walk,    \* the table and the level mapVirtualRegionWithFlags is at
  fault,   \* why the kernel has stopped
  calls

vars == <<start, table, free, live, pc, job, walk, fault, calls>>

NONE == [frame |-> -1, extended |-> FALSE]
EmptyTable == [i \in 0 .. ENTRIES - 1 |-> NONE]

Divides(a, b) == b % a = 0
AlignUp(x, a) == ((x + a - 1) \div a) * a
CeilingDiv(x, a) == (x + a - 1) \div a

\* The base pages of a page at p.
Pages(p, size) == {x \in p .. p + size - 1 : Divides(BASE_PAGE, x)}

\* Where the pages of a size could be taken from.
Available(size) == {p \in free : Divides(size, p) /\ Pages(p, size) \subseteq free}

-----------------------------------------------------------------------------
(* The page tables *)

Index(virt, level) == (virt \div Covers(level)) % ENTRIES

pageSizeToDepth(size) == CASE size = BASE_PAGE -> 4 [] size = LARGE_PAGE -> 3
                           [] size = HUGE_PAGE -> 2

\* An entry of the table at t; where there is no table, nothing is mapped.
Read(t, i) == IF t \in DOMAIN table THEN table[t][i] ELSE NONE

\* The walk stops at an entry for a huge or large page.
getMappedPage(virt) ==
  LET entry[level \in 0 .. 3] ==
        LET t == IF level = 0 THEN ROOT ELSE entry[level - 1].frame
        IN Read(t, Index(virt, level))
      last == IF entry[1].extended THEN 1 ELSE IF entry[2].extended THEN 2 ELSE 3
  IN [phys |-> entry[last].frame, size |-> Covers(last)]

\* The tables mapVirtualRegion made for the loader, of base pages only.
LoaderTables ==
  [t \in {TABLE_AT[q] : q \in LoaderPlaces} |->
     LET at == CHOOSE q \in LoaderPlaces : TABLE_AT[q] = t
         Below(slot) == [level |-> at.level + 1, region |-> slot]
         To(frame) == [frame |-> frame, extended |-> FALSE]
         Loaded(slot) ==
           IF at.level = 3
             THEN IF slot * BASE_PAGE \in DOMAIN LOADED THEN To(LOADED[slot * BASE_PAGE]) ELSE NONE
             ELSE IF Below(slot) \in LoaderPlaces THEN To(TABLE_AT[Below(slot)]) ELSE NONE
     IN [i \in 0 .. ENTRIES - 1 |-> Loaded(at.region * ENTRIES + i)]]

\* The memory the kernel runs on, which the memory map calls the loader's data and
\* the physical memory manager so takes for free: the loader's tables, and the pages
\* of the kernel's code, parameters and stack.
KernelFrames ==
  {TABLE_AT[q] : q \in LoaderPlaces} \cup {LOADED[v] : v \in {x \in DOMAIN LOADED : END <= x}}

-----------------------------------------------------------------------------
(* Allocating *)

Ready == pc = "idle" /\ fault = "" /\ calls < MaxCalls
Call == Ready /\ calls' = calls + 1

\* An available size and how many such pages make one of the size preferred.
convertPreferredPageToAvailablePages(bytes) ==
  LET size == IF bytes <= BASE_PAGE THEN BASE_PAGE ELSE Max({s \in pageSizes : s <= bytes})
  IN [size |-> size, number |-> IF bytes <= BASE_PAGE THEN 1 ELSE bytes \div size]

\* Variant with a defect: addresses are handed out unaligned.
getVirtualMemoryUnaligned(align) == AlignUp(start, BASE_PAGE)

getVirtualMemory(align) == AlignUp(start, align)

\* Variant with a defect: one page is reserved, however many are mapped.
ReservedOne(number, size) == size
Reserved(number, size) == number * size

\* Of the pages it has, the physical manager hands out the lowest or the highest:
\* runs that go up, and pages that go down and so make no run.
Ends(pages) == IF pages = {} THEN {} ELSE {Min(pages), Max(pages)}
Scattered(n, size) ==
  LET pages == Available(size)
      up[i \in 1 .. n] == Min(pages \ {up[j] : j \in 1 .. i - 1})
      down[i \in 1 .. n] == Max(pages \ {down[j] : j \in 1 .. i - 1})
  IN IF Cardinality(pages) < n THEN {} ELSE {up, down}
Contiguous(n, size) ==
  LET first == {p \in Available(size) : \A i \in 0 .. n - 1 : p + i * size \in Available(size)}
  IN {[i \in 1 .. n |-> p + (i - 1) * size] : p \in Ends(first)}

\* The pages are taken from the lists, whoever uses the memory, and mapping begins.
HandOut(pages, number, size, virt) ==
  LET taken == UNION {Pages(pages[i], size) : i \in 1 .. number}
  IN \/ /\ taken \cap KernelFrames # {}
        /\ fault' = "overwritten" /\ UNCHANGED <<free, pc, job, walk>>
     \/ /\ taken \cap KernelFrames = {}
        /\ free' = free \ taken
        /\ pc' = "map" /\ walk' = [table |-> ROOT, level |-> 0]
        /\ job' = [virt |-> virt, pages |-> pages, size |-> size]
        /\ UNCHANGED fault

\* The addresses are taken first, then one of the candidates for the pages.
TakeAndMap(number, size, candidates) ==
  LET virt == getVirtualMemory(size)
      bytes == Reserved(number, size)
  IN
  /\ Call
  /\ \/ number > ENTRIES /\ fault' = "tooLarge" /\ UNCHANGED <<start, free, pc, job, walk>>
     \/ /\ number <= ENTRIES /\ virt + bytes > END
        /\ fault' = "assertion" /\ UNCHANGED <<start, free, pc, job, walk>>
     \/ /\ number <= ENTRIES /\ virt + bytes <= END
        /\ start' = virt + bytes
        /\ \/ /\ candidates = {}
              /\ fault' = "noMemory" /\ UNCHANGED <<free, pc, job, walk>>
           \/ \E pages \in candidates : HandOut(pages, number, size, virt)
  /\ UNCHANGED <<table, live>>

allocAndMapExplicit(number, preferred) ==
  LET c == convertPreferredPageToAvailablePages(preferred)
      n == number * c.number
  IN TakeAndMap(n, c.size, Scattered(n, c.size))

allocContiguousAndMap(number, preferred) ==
  LET c == convertPreferredPageToAvailablePages(preferred)
      n == number * c.number
  IN TakeAndMap(n, c.size, Contiguous(n, c.size))

\* The smallest page size of which half a table is enough, or else the largest.
allocAndMap(bytes) ==
  LET enough == {s \in {BASE_PAGE, LARGE_PAGE} : CeilingDiv(bytes, s) <= ENTRIES \div 2}
      size == IF enough = {} THEN HUGE_PAGE ELSE Min(enough)
  IN allocAndMapExplicit(CeilingDiv(bytes, size), size)

-----------------------------------------------------------------------------
(* mapVirtualRegionWithFlags: one step per level of the walk *)

Entry == table[walk.table][Index(job.virt, walk.level)]
AtLeaf == walk.level = pageSizeToDepth(job.size) - 1
Descend(t) == walk' = [table |-> t, level |-> walk.level + 1]
Stop(why) == fault' = why /\ UNCHANGED <<table, free, walk>>

NeedsTable == Entry = NONE

\* A table that is missing is a zeroed base page.  There always is one: the tables
\* in use come before there is no more memory.
MapTable ==
  /\ pc = "map" /\ fault = "" /\ ~AtLeaf /\ NeedsTable
  /\ \E p \in Ends(Available(BASE_PAGE)) :
       \/ p \in KernelFrames /\ Stop("overwritten")
       \/ /\ p \notin KernelFrames
          /\ free' = free \ {p}
          /\ table' = [t \in DOMAIN table \cup {p} |->
                         CASE t = p -> EmptyTable
                           [] t = walk.table ->
                                [table[t] EXCEPT ![Index(job.virt, walk.level)] =
                                                     [frame |-> p, extended |-> FALSE]]
                           [] OTHER -> table[t]]
          /\ Descend(p) /\ UNCHANGED fault
  /\ UNCHANGED <<start, live, pc, job, calls>>

\* A walk that follows an entry for a page writes to memory that is no table.
MapDescend ==
  /\ pc = "map" /\ fault = "" /\ ~AtLeaf /\ ~NeedsTable
  /\ IF Entry.frame \in DOMAIN table
       THEN Descend(Entry.frame) /\ UNCHANGED <<table, free, fault>>
       ELSE Stop("corrupt")
  /\ UNCHANGED <<start, live, pc, job, calls>>

MapLeaf ==
  /\ pc = "map" /\ fault = "" /\ AtLeaf
  /\ table' = [table EXCEPT ![walk.table][Index(job.virt, walk.level)] =
                 [frame |-> Head(job.pages), extended |-> job.size # BASE_PAGE]]
  /\ live' = live \cup {[virt |-> job.virt, phys |-> Head(job.pages), size |-> job.size]}
  /\ job' = [job EXCEPT !.virt = @ + job.size, !.pages = Tail(@)]
  /\ walk' = [table |-> ROOT, level |-> 0]
  /\ pc' = IF Len(job.pages) = 1 THEN "idle" ELSE "map"
  /\ UNCHANGED <<start, free, fault, calls>>

-----------------------------------------------------------------------------
(* freeMapped: nothing is unmapped *)

\* Variant with a defect: the page the range begins in is freed too.
FirstPageDown(from) == (from \div getMappedPage(from).size) * getMappedPage(from).size

\* The first page that is freed: the one the range begins in is still used before it.
FirstPage(from) == AlignUp(from, getMappedPage(from).size)

\* The caller gives up pages it uses: from an address inside one to the end of one.
freeMapped(from, end) ==
  LET given == {p \in live : AlignUp(from, getMappedPage(from).size) <= p.virt /\ p.virt < end}
      at == FirstPage(from)
      page == getMappedPage(at)
  IN
  /\ Call
  /\ live' = live \ given
  /\ IF at # from /\ at >= end
       THEN UNCHANGED <<pc, job>>
       ELSE /\ pc' = "free"
            /\ job' = [at |-> at + page.size, end |-> end,
                       run |-> [phys |-> page.phys, number |-> 1, size |-> page.size]]
  /\ UNCHANGED <<start, table, free, walk, fault>>

\* Variant with a defect: the first page of a run is counted twice.
GiveOneMore(run) == free' = free \cup Pages(run.phys, (run.number + 1) * run.size)

Give(run) == free' = free \cup Pages(run.phys, run.number * run.size)

\* Variant with a defect: pages of another size continue a run.
ContinuesAnySize(run, page) == page.phys = run.phys + run.number * run.size

Continues(run, page) == page.phys = run.phys + run.number * run.size /\ page.size = run.size

\* Variant with a defect: a page that continues the run is met again.
FreeNextStuck ==
  LET page == getMappedPage(job.at)
      run == job.run
  IN
  /\ pc = "free" /\ job.at < job.end
  /\ IF Continues(run, page)
       THEN job' = job /\ UNCHANGED free
       ELSE /\ Give(run)
            /\ job' = [job EXCEPT !.at = @ + page.size,
                         !.run = [phys |-> page.phys, number |-> 1, size |-> page.size]]
  /\ UNCHANGED <<start, table, live, pc, walk, fault, calls>>

FreeNext ==
  LET page == getMappedPage(job.at)
      run == job.run
  IN
  /\ pc = "free" /\ job.at < job.end
  /\ IF Continues(run, page)
       THEN job' = [job EXCEPT !.at = @ + page.size, !.run.number = @ + 1] /\ UNCHANGED free
       ELSE /\ Give(run)
            /\ job' = [job EXCEPT !.at = @ + page.size,
                         !.run = [phys |-> page.phys, number |-> 1, size |-> page.size]]
  /\ UNCHANGED <<start, table, live, pc, walk, fault, calls>>

FreeEnd ==
  /\ pc = "free" /\ job.at >= job.end
  /\ Give(job.run)
  /\ pc' = "idle"
  /\ UNCHANGED <<start, table, live, job, walk, fault, calls>>

-----------------------------------------------------------------------------

\* initVirtualMemoryManager, which takes the loader's tables from CR3, and
\* initScreenMemory, which maps the screen.
Init ==
  /\ start = START /\ table = LoaderTables /\ free = RAM /\ live = {}
  /\ IF SCREEN = {} THEN pc = "idle" ELSE pc = "map"
  /\ job = [virt |-> Min(SCREEN \cup {START}), size |-> BASE_PAGE,
            pages |-> [i \in 1 .. Cardinality(SCREEN) |-> Min(SCREEN) + (i - 1) * BASE_PAGE]]
  /\ walk = [table |-> ROOT, level |-> 0] /\ fault = "" /\ calls = 0

\* What the caller may give up: from any address of a page in use to the end of one,
\* with every page between in use.
Givable ==
  {r \in UNION {{<<f, q.virt + q.size>> : f \in p.virt .. p.virt + p.size - 1,
                                          q \in {x \in live : x.virt >= p.virt}} :
                p \in {x \in live : x.virt >= START}} :
     \A b \in r[1] .. r[2] - 1 : \E p \in live : p.virt <= b /\ b < p.virt + p.size}

Step == MapTable \/ MapDescend \/ MapLeaf \/ FreeNext \/ FreeEnd

Next ==
  \/ \E bytes \in Bytes : allocAndMap(bytes)
  \/ \E number \in Numbers, preferred \in Preferred :
       allocAndMapExplicit(number, preferred) \/ allocContiguousAndMap(number, preferred)
  \/ Ready /\ \E r \in Givable : freeMapped(r[1], r[2])
  \/ Step
  \/ (fault # "" \/ (pc = "idle" /\ calls = MaxCalls)) /\ UNCHANGED vars

Spec == Init /\ [][Next]_vars
FairSpec == Spec /\ WF_vars(Step)

-----------------------------------------------------------------------------

\* The types of the region, the tables and the call in progress.
TypeOK ==
  /\ start \in START .. END /\ free \subseteq RAM
  /\ DOMAIN table \subseteq RAM
  /\ \A t \in DOMAIN table : DOMAIN table[t] = 0 .. ENTRIES - 1
  /\ live \subseteq [virt : Nat, phys : RAM \cup SCREEN, size : pageSizes]
  /\ pc \in {"idle", "map", "free"} /\ calls \in 0 .. MaxCalls
  /\ fault \in {"", "tooLarge", "assertion", "noMemory", "overwritten", "corrupt"}

\* Every page in use is found where it was mapped, with its size, however many
\* tables were added and pages freed since.
Translates ==
  \A p \in live : getMappedPage(p.virt) = [phys |-> p.phys, size |-> p.size]

\* A mapping never follows an entry for a page as if it led to a table: pages of
\* different sizes never share what one entry covers.
NeverCorrupt == fault # "corrupt"

\* The memory of a call being served.
Pending == IF pc # "map" THEN {} ELSE {[phys |-> job.pages[i], size |-> job.size] : i \in DOMAIN job.pages}

\* No memory is used twice: as two pages, as a page and a table or what the kernel
\* runs on, or while it is free.  The one exception is the code's: what the kernel
\* runs on since the loader is free as well, until it is handed out.
OneUse ==
  /\ \A p \in live \cup Pending :
       Pages(p.phys, p.size) \cap (free \cup DOMAIN table \cup KernelFrames) = {}
  /\ DOMAIN table \cap free \subseteq KernelFrames
  /\ \A p, q \in live : p # q => Pages(p.phys, p.size) \cap Pages(q.phys, q.size) = {}
  /\ \A p \in live, q \in Pending : Pages(p.phys, p.size) \cap Pages(q.phys, q.size) = {}

\* Between calls nothing is lost: all memory is free, a table or in use.
NothingLost ==
  pc = "idle" /\ fault = "" =>
    RAM \subseteq free \cup DOMAIN table \cup UNION {Pages(p.phys, p.size) : p \in live}

\* Two calls never get the same virtual addresses.
AddressesDisjoint ==
  \A p, q \in live : p = q \/ p.virt + p.size <= q.virt \/ q.virt + q.size <= p.virt

\* Every call returns or stops the kernel.
CallsReturn == pc # "idle" ~> (pc = "idle" \/ fault # "")

\* What is mapped is what was asked for: every page in use is translated to its own
\* frames, at addresses of its own (mapVirtualRegionWithFlags, getVirtualMemory).
MappingsRight == TypeOK /\ Translates /\ NeverCorrupt /\ AddressesDisjoint

\* Until memory the kernel runs on is handed out, every frame has one use but for
\* that memory, which is also free, and none is lost (allocAndMap, freeMapped).
FramesRight == OneUse /\ NothingLost
=============================================================================
