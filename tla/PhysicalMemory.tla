--------------------------- MODULE PhysicalMemory ---------------------------
(***************************************************************************)
(* The physical memory manager of the kernel (physical.c).  Three managers *)
(* (basePMM, largePMM, hugePMM) each keep a list of free page runs.  A     *)
(* manager that cannot serve a request takes pages of the next larger size *)
(* and puts what it does not need on its own list; a list that is full is  *)
(* moved to a larger array, which is itself allocated from basePMM.  The   *)
(* C functions therefore call each other recursively; here every function  *)
(* is a small-step machine and `stack' is the C call stack, top first.     *)
(*                                                                         *)
(* Addresses and page sizes are counted in 4KiB frames: PAGE_FRAME_SIZE is *)
(* 1 and pageStart is a frame number.                                      *)
(***************************************************************************)
EXTENDS Integers, Sequences, FiniteSets

CONSTANTS
  ENTRIES,          \* PageTableFormat.ENTRIES: pages in one page of the next size
  EntriesPerPage,   \* MEMORY_ENTRIES_IN_BASE_PAGES(1): list entries in one frame
  MemoryMaps,       \* the firmware memory maps the kernel may be booted with
  Requests,         \* numbers of pages the rest of the kernel may ask for
  MaxCalls          \* bound on the calls the rest of the kernel makes

BASE_PAGE  == 1
LARGE_PAGE == ENTRIES
HUGE_PAGE  == ENTRIES * ENTRIES
PageSizes  == {BASE_PAGE, LARGE_PAGE, HUGE_PAGE}

PagedMemory == [pageStart : Nat, numberOfPages : Nat]

\* The memory types canBeUsedByOS accepts, and a type it refuses.
OSTypes == {"LOADER_CODE", "LOADER_DATA", "BOOT_SERVICES_CODE",
            "BOOT_SERVICES_DATA", "CONVENTIONAL_MEMORY", "PERSISTENT_MEMORY"}
MemoryDescriptor == [type : OSTypes \cup {"RESERVED_MEMORY_TYPE"},
                     physicalStart : Nat, numberOfPages : Nat \ {0}]

ASSUME SizesAssumption == /\ ENTRIES \in Nat /\ ENTRIES >= 2
                          /\ EntriesPerPage \in Nat /\ EntriesPerPage >= 2
                          /\ MaxCalls \in Nat
ASSUME MapsAssumption == MemoryMaps \subseteq Seq(MemoryDescriptor)
ASSUME RequestsAssumption == Requests \subseteq Nat

VARIABLES
  memory,         \* manager->memory, the list of free runs, per page size
  usedBasePages,  \* manager->usedBasePages: frames the list's array occupies
  buf,            \* manager->memory.buf: the frames allocated for that array
  stack,          \* the activation records of the calls in progress
  result,         \* what the last call made from the top level returned
  phase,          \* where the top level is (initialisation, then the kernel)
  pageSize,       \* the page size the top level is working with
  asked,          \* the number of pages the kernel's call asked for
  index,          \* next descriptor to look at; then the loop index of initPMM
  descriptors,    \* kernelMemory.descriptors
  freeMemory,     \* freeMemoryArray of initPhysicalMemoryManager
  holder,         \* freeMemoryHolder: the memory freeMemoryArray is stored in
  held,           \* the runs the rest of the kernel holds, with their page size
  calls           \* the calls the rest of the kernel has made so far

boot == <<index, descriptors, freeMemory, holder>>
kernel == <<asked, held, calls>>
managers == <<memory, usedBasePages, buf>>
topLevel == <<phase, pageSize, boot, kernel>>
vars == <<managers, stack, result, topLevel>>

Run(start, pages) == [pageStart |-> start, numberOfPages |-> pages]

\* Variant with a defect: the room is counted before the array has been moved.
capTooLarge(ps) == EntriesPerPage * (usedBasePages[ps] + 1)

\* The free runs a manager's array has room for.
cap(ps) == EntriesPerPage * usedBasePages[ps]

\* Variants with a defect: rounding down, and always asking for one page more.
FloorDiv(n, d) == n \div d
DivPlusOne(n, d) == n \div d + 1

CeilingDiv(n, d) == (n + d - 1) \div d
AlignUp(n, a) == a * CeilingDiv(n, a)
AlignDown(n, a) == a * (n \div a)

toLargerPages(n) == n \div ENTRIES
toSmallerPages(n) == n * ENTRIES
toLargerPageSize(ps) == ps * ENTRIES
toSmallerPageSize(ps) == ps \div ENTRIES

\* Variant with a defect: the run shrinks but still starts where it did.
decreaseOnlyCount(list, ps, i, by) ==
  IF list[i].numberOfPages = by
    THEN [j \in 1 .. Len(list) - 1 |-> IF j = i THEN list[Len(list)] ELSE list[j]]
    ELSE [list EXCEPT ![i] = Run(@.pageStart, @.numberOfPages - by)]

\* Take `by' pages off the front of run i.  An emptied run is overwritten by
\* the last one of the list.
decreasePages(list, ps, i, by) ==
  IF list[i].numberOfPages = by
    THEN [j \in 1 .. Len(list) - 1 |-> IF j = i THEN list[Len(list)] ELSE list[j]]
    ELSE [list EXCEPT ![i] = Run(@.pageStart + by * ps, @.numberOfPages - by)]

-----------------------------------------------------------------------------
(* The call stack.  A frame holds the label the call is at, its manager,   *)
(* the pages it still asks for, the runs it was passed or has collected,   *)
(* the room in its output array, and what its last callee returned.        *)

Labels == {"alloc", "split", "return", "free", "grow", "gather", "gathered"}
Frame == [pc : Labels, ps : PageSizes, n : Nat, pages : Seq(PagedMemory),
          room : Int, got : Seq(PagedMemory)]

Alloc(n, ps) ==
  [pc |-> "alloc", ps |-> ps, n |-> n, pages |-> <<>>, room |-> 0, got |-> <<>>]
Free(pages, ps) ==
  [pc |-> "free", ps |-> ps, n |-> 0, pages |-> pages, room |-> 0, got |-> <<>>]
Gather(n, ps, room) ==
  [pc |-> "gather", ps |-> ps, n |-> n, pages |-> <<>>, room |-> room, got |-> <<>>]

top == Head(stack)
At(label) == stack # <<>> /\ top.pc = label
Idle(label) == stack = <<>> /\ phase = label

\* The call on top goes on as `frame', or calls `callee' and will go on as it.
Goto(frame) == stack' = <<frame>> \o Tail(stack)
Call(callee, frame) == stack' = <<callee, frame>> \o Tail(stack)

\* The call on top returns the runs v to the frame below, or to the top level.
Return(v) ==
  IF Len(stack) = 1
    THEN stack' = <<>> /\ result' = v
    ELSE /\ stack' = <<[stack[2] EXCEPT !.got = v]>> \o Tail(Tail(stack))
         /\ UNCHANGED result

\* The calls in progress are abandoned and nothing runs any more.
Stop(reason) == /\ phase' = reason /\ stack' = <<>>
                /\ UNCHANGED <<managers, result, pageSize, boot, kernel>>

-----------------------------------------------------------------------------
(* allocContiguousPhysicalPagesWithManager                                 *)

\* The position of the first run of at least n pages, if there is one.
FirstFit(n, ps) ==
  {i \in DOMAIN memory[ps] : /\ memory[ps][i].numberOfPages >= n
                             /\ \A j \in 1 .. i - 1 : memory[ps][j].numberOfPages < n}

AllocFit ==
  /\ At("alloc")
  /\ \E i \in FirstFit(top.n, top.ps) :
       /\ memory' = [memory EXCEPT ![top.ps] = decreasePages(@, top.ps, i, top.n)]
       /\ Return(<<Run(memory[top.ps][i].pageStart, top.n)>>)
  /\ UNCHANGED <<usedBasePages, buf, topLevel>>

AllocFromLarger ==
  /\ At("alloc")
  /\ FirstFit(top.n, top.ps) = {}
  /\ top.ps < HUGE_PAGE
  /\ Call(Alloc(CeilingDiv(top.n, ENTRIES), toLargerPageSize(top.ps)),
          [top EXCEPT !.pc = "split"])
  /\ UNCHANGED <<managers, result, topLevel>>

\* Variant with a defect: the remainder's address is not scaled by the page size.
AllocSplitUnscaled ==
  /\ At("split")
  /\ LET address   == top.got[1].pageStart
         freePages == toSmallerPages(CeilingDiv(top.n, ENTRIES)) - top.n
     IN  Call(Free(<<Run(address + top.n, freePages)>>, top.ps),
              [top EXCEPT !.pc = "return", !.pages = <<Run(address, top.n)>>,
                          !.got = <<>>])
  /\ UNCHANGED <<managers, result, topLevel>>

\* The larger pages have arrived: what is left of them is freed to this manager.
AllocSplit ==
  /\ At("split")
  /\ LET address   == top.got[1].pageStart
         freePages == toSmallerPages(CeilingDiv(top.n, ENTRIES)) - top.n
     IN  Call(Free(<<Run(address + top.n * top.ps, freePages)>>, top.ps),
              [top EXCEPT !.pc = "return", !.pages = <<Run(address, top.n)>>,
                          !.got = <<>>])
  /\ UNCHANGED <<managers, result, topLevel>>

AllocReturn ==
  /\ At("return")
  /\ Return(top.pages)
  /\ UNCHANGED <<managers, topLevel>>

\* interruptNoMorePhysicalMemory, whose handler does not return.
NoMorePhysicalMemory ==
  /\ \/ At("alloc") /\ FirstFit(top.n, top.ps) = {}
     \/ At("gather") /\ memory[top.ps] = <<>>
  /\ top.ps = HUGE_PAGE
  /\ Stop("fault")

-----------------------------------------------------------------------------
(* freePhysicalPagesWithManager                                            *)

Stored(ps, run) == [memory EXCEPT ![ps] = Append(@, run)]

\* Variant with a defect: an empty run is skipped without going on to the next.
FreeStoreSkipsEmpty ==
  /\ At("free")
  /\ top.pages # <<>>
  /\ Len(memory[top.ps]) < cap(top.ps)
  /\ Head(top.pages).numberOfPages > 0
  /\ memory' = Stored(top.ps, Head(top.pages))
  /\ Goto([top EXCEPT !.pages = Tail(@)])
  /\ UNCHANGED <<usedBasePages, buf, result, topLevel>>

FreeStore ==
  /\ At("free")
  /\ top.pages # <<>>
  /\ Len(memory[top.ps]) < cap(top.ps)
  /\ memory' = Stored(top.ps, Head(top.pages))
  /\ Goto([top EXCEPT !.pages = Tail(@)])
  /\ UNCHANGED <<usedBasePages, buf, result, topLevel>>

FreeFull ==
  /\ At("free")
  /\ top.pages # <<>>
  /\ Len(memory[top.ps]) >= cap(top.ps)
  /\ Call(Alloc(usedBasePages[top.ps] + 1, BASE_PAGE), [top EXCEPT !.pc = "grow"])
  /\ UNCHANGED <<managers, result, topLevel>>

\* Variant with a defect: the old array is forgotten.
FreeGrowForgets ==
  /\ At("grow")
  /\ memory' = Stored(top.ps, Head(top.pages))
  /\ buf' = [buf EXCEPT ![top.ps] = top.got[1]]
  /\ usedBasePages' = [usedBasePages EXCEPT ![top.ps] = @ + 1]
  /\ Goto([top EXCEPT !.pc = "free", !.pages = Tail(@), !.got = <<>>])
  /\ UNCHANGED <<result, topLevel>>

\* The list moves to the new array, the old array becomes a free run of this
\* manager, and the run that found the list full is stored.
FreeGrow ==
  /\ At("grow")
  /\ memory' = [memory EXCEPT ![top.ps] =
                  @ \o <<Run(buf[top.ps].pageStart, usedBasePages[top.ps]),
                       Head(top.pages)>>]
  /\ buf' = [buf EXCEPT ![top.ps] = top.got[1]]
  /\ usedBasePages' = [usedBasePages EXCEPT ![top.ps] = @ + 1]
  /\ Goto([top EXCEPT !.pc = "free", !.pages = Tail(@), !.got = <<>>])
  /\ UNCHANGED <<result, topLevel>>

FreeReturn ==
  /\ At("free")
  /\ top.pages = <<>>
  /\ Return(<<>>)
  /\ UNCHANGED <<managers, topLevel>>

-----------------------------------------------------------------------------
(* allocPhysicalPagesWithManager: collects runs from the end of the list.  *)
(* The second, recursive call it makes after taking larger pages goes on   *)
(* collecting behind what was found, so it is the same frame going on.     *)

LastRun(ps) == memory[ps][Len(memory[ps])]
HasRoom == Len(top.pages) < top.room

\* Variant with a defect: the pages found are not counted.
GatherWholeUncounted ==
  /\ At("gather") /\ HasRoom
  /\ memory[top.ps] # <<>>
  /\ LastRun(top.ps).numberOfPages < top.n
  /\ memory' = [memory EXCEPT ![top.ps] = SubSeq(@, 1, Len(@) - 1)]
  /\ Goto([top EXCEPT !.pages = Append(@, LastRun(top.ps))])
  /\ UNCHANGED <<usedBasePages, buf, result, topLevel>>

GatherWhole ==
  /\ At("gather") /\ HasRoom
  /\ memory[top.ps] # <<>>
  /\ LastRun(top.ps).numberOfPages < top.n
  /\ memory' = [memory EXCEPT ![top.ps] = SubSeq(@, 1, Len(@) - 1)]
  /\ Goto([top EXCEPT !.pages = Append(@, LastRun(top.ps)),
                      !.n = @ - LastRun(top.ps).numberOfPages])
  /\ UNCHANGED <<usedBasePages, buf, result, topLevel>>

GatherLast ==
  /\ At("gather") /\ HasRoom
  /\ memory[top.ps] # <<>>
  /\ LastRun(top.ps).numberOfPages >= top.n
  /\ memory' = [memory EXCEPT ![top.ps] = decreasePages(@, top.ps, Len(@), top.n)]
  /\ Return(Append(top.pages, Run(LastRun(top.ps).pageStart, top.n)))
  /\ UNCHANGED <<usedBasePages, buf, topLevel>>

\* A write behind the caller's array: what happens next is undefined.
GatherOverrun ==
  /\ At("gather") /\ ~HasRoom
  /\ memory[top.ps] # <<>>
  /\ Stop("overrun")

GatherFromLarger ==
  /\ At("gather")
  /\ memory[top.ps] = <<>>
  /\ top.ps < HUGE_PAGE
  /\ Call(Gather(CeilingDiv(top.n, ENTRIES), toLargerPageSize(top.ps),
                 top.room - Len(top.pages)),
          [top EXCEPT !.pc = "gathered"])
  /\ UNCHANGED <<managers, result, topLevel>>

ToSmallerRun(run) == Run(run.pageStart, toSmallerPages(run.numberOfPages))

GatherConvert ==
  /\ At("gathered")
  /\ Call(Free([i \in DOMAIN top.got |-> ToSmallerRun(top.got[i])], top.ps),
          [top EXCEPT !.pc = "gather", !.got = <<>>])
  /\ UNCHANGED <<managers, result, topLevel>>

-----------------------------------------------------------------------------
(* initPhysicalMemoryManager and initPMM                                   *)

canBeUsedByOS(type) == type \in OSTypes

\* The position of the first usable descriptor at or after i, if there is one.
nextValidDescriptor(i) ==
  {j \in i .. Len(descriptors) :
     /\ canBeUsedByOS(descriptors[j].type)
     /\ \A k \in i .. j - 1 : ~canBeUsedByOS(descriptors[k].type)}

\* The frames of descriptor i, and without the one taken for basePMM's array.
DescriptorRun(i) == Run(descriptors[i].physicalStart, descriptors[i].numberOfPages)
RestOfRun(i) == Run(descriptors[i].physicalStart + 1, descriptors[i].numberOfPages - 1)

\* basePMM's array is the first usable frame; what follows it in its run, or the
\* next usable run, holds freeMemoryArray while the other runs are collected.
InitFirst ==
  /\ Idle("first")
  /\ \E first \in nextValidDescriptor(1) :
       /\ buf' = [buf EXCEPT ![BASE_PAGE] = Run(descriptors[first].physicalStart, 1)]
       /\ \/ /\ descriptors[first].numberOfPages > 1
             /\ holder' = RestOfRun(first) /\ index' = first + 1
          \/ /\ descriptors[first].numberOfPages = 1
             /\ \E second \in nextValidDescriptor(first + 1) :
                  holder' = DescriptorRun(second) /\ index' = second + 1
  /\ phase' = "collect"
  /\ UNCHANGED <<memory, usedBasePages, stack, result, pageSize, descriptors,
                 freeMemory, kernel>>

InitFault ==
  /\ Idle("first")
  /\ \A first \in nextValidDescriptor(1) :
       descriptors[first].numberOfPages = 1 /\ nextValidDescriptor(first + 1) = {}
  /\ Stop("fault")

InitCollect ==
  /\ Idle("collect")
  /\ \E i \in nextValidDescriptor(index) :
       LET full == Len(freeMemory) >= EntriesPerPage * holder.numberOfPages
       IN  /\ stack' = IF full THEN <<Free(freeMemory, BASE_PAGE)>> ELSE <<>>
           /\ freeMemory' = Append(IF full THEN <<>> ELSE freeMemory, DescriptorRun(i))
           /\ index' = i + 1
  /\ UNCHANGED <<managers, result, phase, pageSize, descriptors, holder, kernel>>

\* Variant with a defect: the end of the descriptors does not end the loop.
InitCollectForever ==
  /\ Idle("collect")
  /\ nextValidDescriptor(index) = {}
  /\ stack' = <<Free(freeMemory, BASE_PAGE)>>
  /\ freeMemory' = <<>>
  /\ index' = Len(descriptors) + 1
  /\ UNCHANGED <<managers, result, phase, pageSize, descriptors, holder, kernel>>

InitFreeCollected ==
  /\ Idle("collect")
  /\ nextValidDescriptor(index) = {}
  /\ stack' = <<Free(freeMemory, BASE_PAGE)>>
  /\ freeMemory' = <<>>
  /\ index' = Len(descriptors) + 1
  /\ phase' = "holder"
  /\ UNCHANGED <<managers, result, pageSize, descriptors, holder, kernel>>

InitFreeHolder ==
  /\ Idle("holder")
  /\ stack' = <<Free(<<holder>>, BASE_PAGE)>>
  /\ holder' = Run(0, 0)
  /\ pageSize' = LARGE_PAGE
  /\ phase' = "initPMM"
  /\ UNCHANGED <<managers, result, index, descriptors, freeMemory, kernel>>

InitPMM ==
  /\ Idle("initPMM")
  /\ stack' = <<Alloc(usedBasePages[pageSize], BASE_PAGE)>>
  /\ phase' = "buffer"
  /\ UNCHANGED <<managers, result, pageSize, boot, kernel>>

InitBuffer ==
  /\ Idle("buffer")
  /\ buf' = [buf EXCEPT ![pageSize] = result[1]]
  /\ result' = <<>>
  /\ index' = 1
  /\ phase' = "promote"
  /\ UNCHANGED <<memory, usedBasePages, stack, pageSize, descriptors, freeMemory,
                 holder, kernel>>

\* One turn of initPMM's loop: run `index' of the smaller manager.
Promote ==
  LET smaller   == toSmallerPageSize(pageSize)
      run       == memory[smaller][index]
      boundary  == AlignUp(run.pageStart, pageSize)
      moved     == (boundary - run.pageStart) \div smaller
      fromAlign == run.numberOfPages - moved
      aligned   == AlignDown(fromAlign, ENTRIES)
      leftover  == fromAlign - aligned
  IN
  /\ Idle("promote")
  /\ index <= Len(memory[smaller])
  /\ IF run.numberOfPages >= ENTRIES /\ fromAlign >= ENTRIES
       THEN /\ memory' = [memory EXCEPT ![smaller] =
                            decreasePages(@, smaller, index, fromAlign)]
            /\ stack' = <<Free(<<Run(boundary, toLargerPages(aligned))>>, pageSize)>>
                          \o IF leftover > 0
                               THEN <<Free(<<Run(boundary + aligned * smaller, leftover)>>,
                                           smaller)>>
                               ELSE <<>>
       ELSE UNCHANGED <<memory, stack>>
  /\ index' = index + 1
  /\ UNCHANGED <<usedBasePages, buf, result, phase, pageSize, descriptors, freeMemory,
                 holder, kernel>>

InitPMMDone ==
  /\ Idle("promote")
  /\ index > Len(memory[toSmallerPageSize(pageSize)])
  /\ IF pageSize = LARGE_PAGE
       THEN phase' = "initPMM" /\ pageSize' = HUGE_PAGE
       ELSE phase' = "kernel" /\ UNCHANGED pageSize
  /\ UNCHANGED <<managers, stack, result, boot, kernel>>

-----------------------------------------------------------------------------
(* The rest of the kernel: allocAndMap, allocContiguousAndMap, the page    *)
(* tables and freeMapped ask for runs and give back pages they hold.  A    *)
(* request for more than ENTRIES pages is refused before it gets here, and *)
(* the array passed to allocPhysicalPages has ENTRIES entries.             *)

KernelCall == calls < MaxCalls /\ calls' = calls + 1

KernelAlloc(n, ps) ==
  /\ Idle("kernel") /\ KernelCall
  /\ n <= ENTRIES
  /\ stack' = <<Alloc(n, ps)>>
  /\ phase' = "waiting" /\ pageSize' = ps /\ asked' = n
  /\ UNCHANGED <<managers, result, boot, held>>

KernelGather(n, ps) ==
  /\ Idle("kernel") /\ KernelCall
  /\ n <= ENTRIES
  /\ stack' = <<Gather(n, ps, ENTRIES)>>
  /\ phase' = "waiting" /\ pageSize' = ps /\ asked' = n
  /\ UNCHANGED <<managers, result, boot, held>>

KernelReceive ==
  /\ Idle("waiting")
  /\ held' = held \cup {[ps |-> pageSize, run |-> result[i]] :
                         i \in {j \in DOMAIN result : result[j].numberOfPages > 0}}
  /\ result' = <<>>
  /\ phase' = "kernel"
  /\ UNCHANGED <<managers, stack, pageSize, asked, calls, boot>>

\* freeMapped may give back any pages of a run and the kernel keeps the others: it
\* keeps k pages, gives back n, and keeps what follows.
KernelFree(h, k, n) ==
  /\ Idle("kernel") /\ KernelCall
  /\ k + n <= h.run.numberOfPages
  /\ LET start == h.run.pageStart
         kept == {Run(start, k),
                  Run(start + (k + n) * h.ps, h.run.numberOfPages - (k + n))}
     IN  /\ held' = (held \ {h}) \cup {[ps |-> h.ps, run |-> r] :
                                         r \in {x \in kept : x.numberOfPages > 0}}
         /\ stack' = <<Free(<<Run(start + k * h.ps, n)>>, h.ps)>>
  /\ phase' = "waiting" /\ pageSize' = h.ps /\ asked' = 0
  /\ UNCHANGED <<managers, result, boot>>

\* The fault handler does not return; or the kernel has made all its calls.
Halted == /\ phase \in {"fault", "overrun"} \/ (phase = "kernel" /\ calls = MaxCalls)
          /\ UNCHANGED vars

-----------------------------------------------------------------------------

Init ==
  /\ memory = [ps \in PageSizes |-> <<>>]
  /\ usedBasePages = [ps \in PageSizes |-> 1]
  /\ buf = [ps \in PageSizes |-> Run(0, 0)]
  /\ stack = <<>> /\ result = <<>>
  /\ phase = "first" /\ pageSize = BASE_PAGE /\ asked = 0
  /\ index = 1
  /\ descriptors \in MemoryMaps
  /\ freeMemory = <<>>
  /\ holder = Run(0, 0)
  /\ held = {} /\ calls = 0

\* One step of the function on top of the stack.
AllocStep == AllocFit \/ AllocFromLarger \/ AllocSplit \/ AllocReturn
FreeStep == FreeStore \/ FreeFull \/ FreeGrow \/ FreeReturn
GatherStep == \/ GatherWhole \/ GatherLast \/ GatherOverrun
              \/ GatherFromLarger \/ GatherConvert
InitStep == \/ InitFirst \/ InitFault \/ InitCollect \/ InitFreeCollected \/ InitFreeHolder
            \/ InitPMM \/ InitBuffer \/ Promote \/ InitPMMDone
KernelStep ==
  \/ \E n \in Requests, ps \in PageSizes : KernelAlloc(n, ps) \/ KernelGather(n, ps)
  \/ \E h \in held : \E k \in 0 .. h.run.numberOfPages, n \in 1 .. h.run.numberOfPages :
       KernelFree(h, k, n)

\* Steps the processor takes on its own once a call or the boot is under way.
Running == \/ AllocStep \/ FreeStep \/ GatherStep \/ NoMorePhysicalMemory
           \/ InitStep \/ KernelReceive

Next == Running \/ KernelStep \/ Halted

Spec == Init /\ [][Next]_vars
FairSpec == Spec /\ WF_vars(Running)

-----------------------------------------------------------------------------
(* Properties                                                              *)

Phases == {"first", "collect", "holder", "initPMM", "buffer", "promote",
           "kernel", "waiting", "fault", "overrun"}

\* The types of the managers, of the call stack and of the top level's data.
TypeOK ==
  /\ memory \in [PageSizes -> Seq(PagedMemory)]
  /\ usedBasePages \in [PageSizes -> Nat]
  /\ buf \in [PageSizes -> PagedMemory]
  /\ stack \in Seq(Frame)
  /\ result \in Seq(PagedMemory)
  /\ phase \in Phases
  /\ pageSize \in PageSizes
  /\ asked \in Nat
  /\ index \in Nat
  /\ descriptors \in MemoryMaps
  /\ freeMemory \in Seq(PagedMemory)
  /\ holder \in PagedMemory
  /\ held \in SUBSET [ps : PageSizes, run : PagedMemory]
  /\ calls \in 0 .. MaxCalls

\* Who owns which frames: <<kind, number, position, frames>>.
FramesOf(run, ps) == run.pageStart .. run.pageStart + run.numberOfPages * ps - 1
Claim(kind, k, runs, ps) == {<<kind, k, i, FramesOf(runs[i], ps)>> : i \in DOMAIN runs}
GotSize(frame) == IF frame.pc \in {"split", "gathered"}
                    THEN toLargerPageSize(frame.ps) ELSE BASE_PAGE
Uncollected == IF phase = "first" THEN DOMAIN descriptors
               ELSE index .. Len(descriptors)
Booting == phase \in {"first", "collect"}

Claims ==
  (UNION {Claim("free", ps, memory[ps], ps) : ps \in PageSizes})
  \cup {<<"array", ps, 0, FramesOf(buf[ps], BASE_PAGE)>> : ps \in PageSizes}
  \cup (UNION {Claim("passed", d, stack[d].pages, stack[d].ps) : d \in DOMAIN stack})
  \cup (UNION {Claim("got", d, stack[d].got, GotSize(stack[d])) : d \in DOMAIN stack})
  \cup Claim("result", 0, result, IF phase = "buffer" THEN BASE_PAGE ELSE pageSize)
  \cup Claim("collected", 0, freeMemory, BASE_PAGE)
  \cup {<<"holder", 0, 0, FramesOf(holder, BASE_PAGE)>>}
  \cup {<<"held", h.ps, h.run.pageStart, FramesOf(h.run, h.ps)>> : h \in held}
  \cup {<<"map", 0, i, FramesOf(DescriptorRun(i), BASE_PAGE)>> :
          i \in {j \in Uncollected : Booting /\ canBeUsedByOS(descriptors[j].type)}}

Frames == UNION {FramesOf(DescriptorRun(i), BASE_PAGE) :
                   i \in {j \in DOMAIN descriptors : canBeUsedByOS(descriptors[j].type)}}

\* Only basePMM's list has been moved: see SingleOwner.
OnlyBaseGrew == usedBasePages[LARGE_PAGE] = 1 /\ usedBasePages[HUGE_PAGE] = 1

\* No frame is ever owned twice: not by two free runs, nor by a free run and the
\* array of a list, a run on its way through a call, or a run the kernel holds.
\* (freePhysicalPagesWithManager breaks this when the list of largePMM or
\* hugePMM moves, so it is claimed as long as neither has.)
SingleOwner ==
  OnlyBaseGrew => \A a, b \in Claims : a # b => a[4] \cap b[4] = {}

\* No usable frame is lost by booting, splitting, moving a list or freeing.
NothingLost ==
  phase \notin {"fault", "overrun"} => Frames \subseteq UNION {c[4] : c \in Claims}

SumPages(runs) == LET Sum[i \in 0 .. Len(runs)] ==
                        IF i = 0 THEN 0 ELSE Sum[i - 1] + runs[i].numberOfPages
                  IN  Sum[Len(runs)]

\* A call that returns gives the kernel exactly the number of pages it asked
\* for, however many managers they were collected from.
ExactlyWhatWasAsked ==
  Idle("waiting") => SumPages(result) = asked

\* allocPhysicalPages raises the fault only when its manager and the larger ones
\* together really hold fewer frames than were asked for: rounding up at every
\* level never makes it ask for more than it needs.
Within(c) == c[1] = "passed" \/ (c[1] = "free" /\ c[2] >= pageSize)
GatherFaultsOnlyWhenShort ==
  [][At("gather") /\ phase' = "fault" =>
       Cardinality(UNION {c[4] : c \in {x \in Claims : Within(x)}}) < asked * pageSize]_vars

\* Every run the kernel gets starts on a boundary of its page size, as
\* mapVirtualRegionWithFlags asserts of the memory it is asked to map.
HeldAligned == \A h \in held : h.run.pageStart % h.ps = 0

\* So does every free run, as long as only basePMM's list has been moved.
Aligned ==
  OnlyBaseGrew => /\ HeldAligned
                  /\ \A ps \in PageSizes : \A i \in DOMAIN memory[ps] :
                        memory[ps][i].pageStart % ps = 0

\* The list of a manager fits the frames its array was given, even when the
\* allocation of a larger array itself frees pages to the same manager.  (Once
\* largePMM's list has moved while basePMM's was about to, basePMM's can move
\* twice in the same call, the second time to an array that is one frame short.)
ListFitsArray ==
  OnlyBaseGrew =>
    \A ps \in PageSizes : Len(memory[ps]) <= EntriesPerPage * buf[ps].numberOfPages

\* The array a caller passes is large enough for the runs collected into it.
NoOverrun == phase # "overrun"

\* Giving pages back adds them to a list, and does not end in the fault for
\* having no more memory.
FreeAddsThePages == [][phase = "waiting" /\ asked = 0 => phase' # "fault"]_vars

\* Every call returns or raises the fault: taking pages from larger managers
\* and moving lists while doing so always comes to an end.
EveryCallEnds == (phase = "waiting") ~> (phase \in {"kernel", "fault", "overrun"})
BootEnds == <>(phase \in {"kernel", "fault", "overrun"})
=============================================================================
