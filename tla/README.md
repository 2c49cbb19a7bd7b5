# A TLA+ verification of homegrown

homegrown is a small operating system: a UEFI loader that reads a kernel from
disk, maps memory and leaves the boot services; a 64-bit kernel with a physical
and a virtual memory manager, a log and a screen terminal; and a hosted program
that builds the disk image. This directory holds TLA+ models of its parts, the
TLC configurations that check them on small instances and TLAPS proofs for every
size. Paths below are relative to `src/projects/`.

## 1. Inventory

| Component | State | Operations | Hard behaviour | Correct when |
|---|---|---|---|---|
| Physical memory manager (`x86/memory/physical`) | three managers, each a list of free runs in an array that is itself made of 4KiB frames | boot from the firmware memory map, allocate one run, collect several, free, promote | the three operations call each other; a list grows while it is being changed; rounding between page sizes | no frame owned twice or lost; calls return what was asked, aligned; lists fit their arrays; every call ends |
| Virtual memory (`x86/memory/virtual`, `x86/memory/policy/code/src/virtual.c`) | four levels of page tables, a bump pointer for addresses | map a region, look up a page, take addresses | tables are allocated on the way; a walk meets pages of three sizes | a lookup returns what was mapped; regions do not overlap |
| Memory policy (`x86/memory/policy`) | none of its own | allocate and map, free what is mapped | freed frames stay mapped; runs are rebuilt page by page | what is mapped is owned; what is freed was mapped |
| Log buffers (`freestanding`, `efi`, `posix` `/code/log`, `abstraction/log`) | a byte buffer per device | append, append zeros, flush, flush-after blocks | strings longer than the buffer, newline on a full buffer, short and failed writes, blocks repeated after a failure | a first-in first-out stream; nothing behind the buffer; a block that ends has delivered its text |
| Screen terminal (`freestanding/code/peripheral/screen`) | a ring of characters, rings of logical and screen lines, cursors | flush to screen, rewind, prowind, draw | rings that wrap at different times; only new rows are drawn | the screen shows the window, the window is the text |
| Allocators (`shared/code/memory/allocator`) | arena pointer; buddy blocks; pool free list | allocate, free | arithmetic that wraps, splitting and coalescing during a search, links in callers' memory | no overlap; nothing lost |
| Hash structures (`shared/code/hash`) | open-addressing tables, hash tries, iterators | insert, contains, compare, grow, iterate | probing that wraps, collisions, insertion while iterating | equal to a set or map |
| Text and arithmetic (`shared/code/text`, `maths`, `buffer`, `dynamic-array`, `uuid`) | none | conversions, rounding, splitting | edges of the integer types | equal to the mathematical function |
| Memory manipulation (`freestanding/code/memory/manipulation`) | none | memcpy, memmove, memset, memcmp | overlapping stores, sizes at which the method changes | exactly the bytes asked for |
| OS loader (`os-loader`, `x86/efi`, `efi`) | firmware handles, memory map and key | find the disk, read the kernel, map, leave the boot services, jump | the map key goes stale; the map grows between two calls; every service may fail | the kernel is entered only on a processor that has the features, with its own file read, an RSDP, a current map and everything mapped |
| Kernel entry (`kernel`, `efi-to-kernel`) | boot parameters, the initial arena | initialise, give the unused arena back | order of initialisation, memory that runs out | each part is used only after its initialisation; what is in use is kept |
| Interrupts and faults (`x86/code/idt`, `fault`), processor set-up (`x86/code/gdt`, `configuration`) | the table of gates, the descriptor table | raise a fault, halt | a fault before the table is loaded, an NMI in a handler | a fault finds its gate, gets one frame layout and is not returned from for good |
| Image builder (`image-builder`) | the image file | lay out partitions, write MBR, GPT, FAT | sizes in blocks, checksums, calls that fail | MBR and tables agree; what was written is found again; failures clean up |
| Hosted files and tests (`posix`) | counters, open topics | run suites, expect faults | longjmp and break out of nested loops | one true verdict per test; exit code |

Interaction: the loader passes a memory map to the kernel, which boots the
physical manager from it; the virtual manager takes frames for page tables from
the physical one; the policy combines both; the log is built on the policy's
memory and flushes to the screen. The kernel runs on one processor with
interrupts that only report faults and halt, so most of the hard interleavings are
not between threads but between nested calls: an operation that re-enters the
structure it is changing. Two actors do interleave: the firmware, which allocates
on its own while the loader runs, and the non-maskable interrupt. Nothing is
persisted by the kernel; the image builder's file is what survives it.

## 2. Modules

One module per component; the parts of a component that only work together are one
module. `MC...` modules hold values of constants, `...Proofs` modules only proofs.

| Module | Code | State and actions |
|---|---|---|
| `PhysicalMemory` | `x86/memory/physical` | see below |
| `VirtualMemory` | `x86/memory/virtual`, `x86/memory/policy` | `table` maps frames to page tables, `start` is the bump pointer, `free` what the physical manager owns, `live` what callers hold. It begins with the loader's tables (`TABLE_AT`, `LOADED`), whose frames, with the kernel's own, are free to the manager; when one of them is handed out the model stops (`overwritten`). `allocAndMapExplicit`, `allocContiguousAndMap`, `allocAndMap`, `freeMapped` begin a call; `MapTable`, `MapDescend`, `MapLeaf`, `FreeNext`, `FreeEnd` are its steps, one table entry each. The physical manager is what `PhysicalMemory` is checked to promise: any aligned free pages. |
| `FlushBuffer`, `LogStream`, `FlushAfter` | the three logs, `abstraction/log` | see below |
| `Screen` | `screen.c` | the ring of characters, the ring of logical lines (where each begins) and of screen lines, the cells drawn. `flushToScreen`, `rewind`, `prowind`. Cells stand for glyphs. |
| `OsLoader` | `os-loader`, `x86/efi`, `efi` | one label per call to the firmware; the firmware (external) may fail any call, allocate between calls and show several disks, with one MediaId or several. |
| `KernelStart` | `kernel`, `x86/code/idt`, `gdt` | the steps of `kernelmain` in order, the processor's view of gates and segments, the stack a handler sees, interrupts at every step, and a non-maskable one also in the entry code, the handler and the halt. |
| `ImageBuilder` | `image-builder` | the phases of `main`: arguments, files, layout, MBR, both GPTs, FAT, data, and the error handler; every system call may fail, the handler's own too, reads may be short. |
| `Arena`, `Pool`, `Buddy` | `shared/code/memory/allocator` | the calls of each; `Buddy` walks its blocks one at a time. |
| `MsiSet`, `HashTrie` | `shared/code/hash` | two sets over one hash, with growing as the header asks of callers; a trie with its iterator, one turn of the loop per step. |
| `Manipulation` | `manipulation.c` | a store is its offset, width and alignment; `memmove` works on memory. |
| `Text` | `shared/code/text` | one conversion or search per behaviour. |
| `TestFramework` | `posix/code/test-framework`, `x86/code/idt/mock`, the macros of the memory tests | the program's place in its nested loops and the framework's open topics, which a `break` may part. |
| `Libraries` | - | checks the eight library modules: a behaviour chooses one of them and takes its steps alone. Each INSTANCE states the bounds of its library, the slots `v1 .. v11` hold its variables. |

### PhysicalMemory

Models all of `physical.c`. `memory[ps]`, `usedBasePages[ps]` and `buf[ps]` are the
fields of the manager for page size `ps`; `cap(ps)` is the capacity the code
computes. Addresses are counted in 4KiB frames, so `PAGE_FRAME_SIZE` is 1,
`LARGE_PAGE` is `ENTRIES` and `HUGE_PAGE` is `ENTRIES^2` (512 in the code).

The C functions are mutually recursive, so each is a small-step machine and `stack`
is the C call stack. A frame has the label it is at:

| label | function and place |
|---|---|
| `alloc`, `split`, `return` | `allocContiguousPhysicalPagesWithManager`: searching, after the larger pages have arrived, after the remainder was freed |
| `free`, `grow` | `freePhysicalPagesWithManager`: at the head of its loop, after the larger array was allocated |
| `gather`, `gathered` | `allocPhysicalPagesWithManager`: in its loop, after the larger pages have arrived |

`phase` is where the top level is: the steps of `initPhysicalMemoryManager` and
`initPMM` (`first`, `collect`, `holder`, `initPMM`, `buffer`, `promote`), then
`kernel` and `waiting`. `fault` is the no-more-memory fault, whose handler does not
return, and `overrun` a write behind the array a caller passed, after which the
program's behaviour is undefined. The rest of the kernel is an environment that
asks for up to `ENTRIES` pages, as the policy enforces, and gives back any pages
of a run it holds, as `freeMapped` does.

### FlushBuffer, LogStream and FlushAfter

`FlushBuffer` is the log buffer with the three ways of handing bytes over: all at
once (screen), one by one with CRLF for a newline (EFI console), and `write()`,
which takes any number, none, or fails. `LogStream` is the abstract promise: bytes
wait, are delivered in order and once, and only a failing file drops what waits.
`FlushBuffer` implements it with the bytes not yet handed over as those waiting.
`FlushAfter` runs whole `KFLUSH_AFTER` and `PFLUSH_AFTER` blocks on it: the block's
calls, the flush, and the loop that repeats the block when the flush failed.

### Conventions

An operator whose comment begins "Variant with a defect" is not used by any
specification. It is a copy of the definition after it with a plausible mistake,
kept to show that a property notices: put in place of that definition, it makes
the property that `PROJECT.json` names fail. A property that joins several promises
has a variant for each of them. Firmware, disks and the processor are not in the
repository: their definitions are taken from how the code uses them and marked
external.

## 3. Runs

| Run | Shows |
|---|---|
| `physical_memory` | From six memory maps (one frame for the array; array and holder in the same run; more runs than both arrays have room for; too little memory) and five kernel calls in every order: `SingleOwner`, `NothingLost`, `ExactlyWhatWasAsked`, `Aligned`, `ListFitsArray`, `TypeOK`, that collecting pages faults only when there really are too few (`GatherFaultsOnlyWhenShort`), and that every call and the boot come to an end. |
| `unaligned_promotion` | Violation. A run that does not begin on a boundary loses the frames before the boundary when it is promoted, and keeps as many that were promoted. The maps of the other runs have no such run. |
| `large_list_moved` | Violation. A moved list of largePMM gets its old 4KiB array as a large page. `SingleOwner`, `Aligned` and `ListFitsArray` are therefore claimed only until that happens (`OnlyBaseGrew`): behind it a call of basePMM may move its list twice, to an array that is one frame short. |
| `gather_array` | Violation. Runs of zero pages overrun the caller's array. |
| `free_faults` | Violation. Freeing to a full list raises the fault while huge pages are free. |
| `flush_buffer` | Nothing behind the buffer, no byte lost, doubled or reordered, a flush that reports success leaves nothing, the buffer implements `LogStream`, every call returns. A flush-after block ends although writes fail, is repeated only after a failure, and has delivered its text when it ends. A write that fails returns false or, in a build with assertions, ends the program. |
| `virtual_memory` | `MappingsRight`: every page in use is translated to its frame, through every order of mapping and freeing pages of three sizes, and no two regions share addresses. `FramesRight`: until memory the kernel itself runs on is handed out, no frame has two uses - page table, page in use, page being mapped, free - but that memory, which is free from the start, and none is lost. `CallsReturn`. |
| `os_loader` | `HandOver`: the kernel is entered only on a processor with every feature asked for, those enabled that have to be; with an RSDP that is valid and the newest; with a map that was current when the boot services were left; and with everything the processor uses mapped. `KernelRead`: the kernel is read whole, from the block of the loader's own disk that `KERNEL.INF` names or from a device that shows the same MediaId and a kernel at that number, which the loader cannot tell from it; every protocol opened is closed. `StopsOnlyWhenBusy`: the two spare descriptors and the one retry are enough unless the firmware allocates more. `LoaderEnds`. |
| `kernel_start` | `InterruptsSound`: every fault, the manager's own and an NMI at any step of the boot, the entry code, the handler and the halt included, finds a loaded gate once the table is set up, and its handler one frame layout, but for vectors 29 and 30. `KeepsWhatItUses`: the rest of the first memory is given back, what is in use is not, and nothing behind it, unless it is full to its last byte (section 5). `BootSettles`: running or halted, and a halted kernel stays so. |
| `screen` | `ShowsText`: the rows drawn are the tail of the text, or the window rewound to. `RingsSound`: the rings hold the end of the text and its lines, and the search finds the line of an index. |
| `image_builder` | `TablesSound`: the MBR covers the disk from one GPT header to the other, the two GPTs agree, checksums included, partitions fit and the primary FAT is well formed. Nothing is said of the second FAT, which is in the wrong place (section 5). `ReadBack`: firmware and loader find what was written. `FailureCleansUp`: at every end but success, a half-written image is left only where the handler's `stat` or `unlink` failed or an assertion ended the program, and an older image that was not opened is kept. `BuilderEnds`: for files that keep their length. |
| `libraries` | `HandsOutApart` (arena), `AllocatorsSound` (pool, buddy), `HashSound` (sets, tries), `BytesSound` (memory manipulation, text), `TestsSound` (test framework), `CallsReturn` (coalescing and iterations end). |

Bounds. `PhysicalMemory`: `ENTRIES = 2` and three list entries per frame make every
path short enough to be taken within five calls: splitting a huge page, moving a
list, nested growth, zero-page remainders, collecting from three managers. Only
ratios matter to the code, and the proofs cover the other values. `FlushBuffer`: a
buffer of three bytes with strings shorter, as long and longer reaches every
relation of string and buffer; three free calls reach every combination of a call
that leaves bytes behind and one that finds them; `MaxFailures` bounds the writes
that fail in a block. `VirtualMemory`: two entries per table and memory for a few
large pages, so that pages of three sizes are mapped, given back and used again, and
memory and addresses run out; the loader's tables lie between the pages at both ends, and
the loader's mappings are a screen page and a kernel page, since 32 bytes of addresses
leave no room for the memory itself. `KernelStart`: screen sizes below, above and exactly
at the end of the first memory. `OsLoader`: four handles, two of them with the MediaId of
the loader's disk; the firmware allocates a bounded number of
times, enough to outgrow the spare descriptors and to spoil the retry, each time within
`MaxBelow` of the highest place that fits, which leaves free pages on either side. `Screen`: a
terminal of a few cells, with flushes that end in, at and behind a row, and one
longer than the ring. `ImageBuilder`: block, cluster and partition sizes that are
not multiples of one another, files from one byte to several clusters, an empty kernel. `Libraries`:
the bounds are named at each INSTANCE; three to six calls reach a pool that is
empty, two generations of merges, a set that has grown, and a trie that grows while
it is iterated. Hashes are considered up to a permutation of the keys.

Fairness. `WF_vars(Running)`: the processor goes on executing a call that was
started; the kernel is not obliged to make calls. The steps of `FlushBuffer` are
fair in the same way, and a `write()` does not take nothing for ever (a blocking
descriptor does not); the failures of a block are bounded, since no loop of retries
ends when every retry fails. The steps of `VirtualMemory`, `OsLoader`,
`KernelStart`, `ImageBuilder`, `Buddy` and the trie's iterator are fair because
nothing else runs meanwhile; in the loader a key is pressed in the end, and
interrupts and the firmware's own allocations are not fair. Deadlock is checked
where the specification has a step for every legal end; `libraries` and the runs
whose configurations say so let a behaviour stop at its end.

## 4. Proofs

Each `...Proofs` module proves its component's theorems for every value of the
constants. They have one form: an inductive invariant `IInv` that TLC checked first,
a lemma per action, and temporal steps that combine them. A theorem's hypotheses are
the assumptions named in the modules, which TLC evaluates in the runs, and those in
its statement.

`PhysicalMemoryProofs`: for every `ENTRIES` and `EntriesPerPage` of at least two,
every set of memory maps and requests, `Spec => []TypeOK`. `TypeOK` is not inductive:
that a frame's callee returns the right number of runs depends on what the callee
carries, and at the bottom of the stack on what the top level waits for. `IInv` adds
both (`StackOK`, `TopLevelOK`); each action has a lemma, and the temporal steps
combine them.

It also proves `Aligned`, `ListFitsArray` and `ExactlyWhatWasAsked`. `RunsOnBoundaries` says of every
run - in a list, on its way in a frame, returned, kept - that it starts on a boundary of its
page size; splitting a larger page keeps this, promotion rounds up to it.
`ListFitsArray` needs to know what a call nested in the growth of a list may do to
that list (`ArraysInv`): a manager that has no array yet is empty; each frame promises the
number of pages its caller asked for; basePMM's list grows by calling its own
allocator for one frame; while it waits, the list is full and no run in it fits the
request, so the call takes from a larger manager, and frees nothing to the list it
came from before it returns (`Arrays`, `Fitting`, `OneFrameAsked`). Therefore no call
nested in a growth stores into the full list or moves it again, and `FreeGrow` finds
the array it left.
`ExactlyWhatWasAsked` is about a sum over the runs collected: `Owing` says at each label
of allocPhysicalPages and of the allocators it calls that what is collected and what is
still wanted are what was asked for. What `SumPages` gives for every sequence follows
from its recursion by taking the least prefix of which it would be wrong, since the
naturals are well-founded; no induction theorem with an operator parameter is needed.

`PhysicalOwnersProofs`: `SingleOwner` and `NothingLost`. `Owners(f)` counts the owners
of frame `f` that `Claims` lists, and every step is shown to conserve the count
(`Kept`, `NextKept`): what `decreasePages` takes from a list is what the call returns,
the larger page `AllocSplit` gets is the run it keeps and the remainder it frees, the
descriptors still to be collected lose what `freeMemoryArray` gains. Only two
steps may change it. `FreeGrow` gives the old array back as `usedBasePages` pages of
its own size, which is the array for basePMM and more than it for the others, hence
`OnlyBaseGrew`; `KernelReceive` adds to a set. The count is an invariant only with
what the calls promise one another: a frame gets the pages it divides (`Promised`),
and an array has no more frames than its manager counts (`ArraysBounded`). That the
count is the number of claims, as far as one and two go, is `ClaimsCounted`. The
hypotheses are in the statements. `DescriptorsApart` (of `NoFrameOwnedTwice` only): the
firmware describes no usable frame twice. `PromotesFromBoundary`, in every state: when
`initPMM` promotes a run it starts on a boundary of the larger size. Without it frames
are lost, as the run `unaligned_promotion` shows; its trace also keeps as many frames in
the smaller list that have been promoted, so `SingleOwner` fails too. Both hypotheses
hold of all the maps of `physical_memory`, which moves lists, splits and promotes.

`VirtualMemoryProofs`: `MappingsRight` and `FramesRight`, for every number of entries of at
least two, every page size, memory, set of tables the loader left and sequence of calls. Neither is inductive: a page
stays mapped because no later mapping writes to an entry its walk reads, and that
depends on where every table is in the tree. `IInv` has four parts.
(1) The tables are a tree (`Tree`, `Placed`): each has a level and the one
region of addresses it is for, and an entry is empty, leads to the table one level down
for exactly what it covers, or was written for a page; the loader's are its first. (2) Addresses are handed out
upwards (`Frontier`): an entry written for a page covers only addresses behind the
frontier, and a table is there only for addresses behind it or for the one being mapped.
So a walk finds each entry on its way empty or leading down (`AtWalk`), its leaf is
empty, and what was found before is found after (`FoundGrows`). This is where the
alignment `getVirtualMemory` takes is needed: pages of different sizes never share what
an entry covers, and what the loader mapped is below `START` or behind `END`. (3) Frames are apart and none is lost (`Apart`, `Kept`): those that are
free, tables, in the job of the call being served, and of the pages mapped; only the
kernel's own frames (`KernelFrames`) are two of these, free besides their use, until one of
them is handed out, where the behaviour stops.
(4) freeMapped collects what the caller no longer uses (`Ahead`): the pages still to be
collected are mapped without gaps from where it is to its end, so that each
`getMappedPage` finds the page that begins there. The recursion of the walk, over four
levels, is unrolled once (`Mapped`). Of the pages handed out, the proof uses
only that they are aligned, free and different (`Chosen`): that they are the lowest or
the highest is there for TLC. The assumptions on the constants are what the code has:
`HIGHER_HALF_START` and `KERNEL_SPACE_START` are 0xffff800000000000 and
0xfffffffff8000000, which without the bits that repeat bit 47 are 2^47 and
2^48 - 2^27, within the 512 jumbo pages that four levels translate; the screen is mapped
where it is, in the lower half, below them; and calls ask for at least one byte and one page.

`FlushBufferProofs`: for every buffer size, device and set of strings, no byte is
stored behind the buffer, no byte is lost before a write fails, a flush that
reports success leaves an empty buffer, and `Spec => IsStream`, the refinement.
`IInv` adds which flags are still to be handled and that nothing has been handed
over outside a flush. That what is shown of two strings is what is shown of each
(`ShownConcat`) carries the argument. The same holds of the log driven by
flush-after blocks (`BlockKeepsBuffer`, `BlockImplementsStream`): a block's calls
are calls of `FlushBuffer`, and it is repeated only as often as writes fail
(`BlockRepeatsForFailures`).

`BlockReachesDevice` is `BlockSpec => []BlockDelivered`: a block that fits in the buffer
is the end of what the device was given when `KFLUSH_AFTER` is left, and no byte of a
block is given to it more often than once and once more for every failed write, with
`PFLUSH_AFTER` never twice. `BlockDelivered` looks at the state after the loop only;
`DeliveryInv` says what is true on the way. `CountInv`: what the device was given, what
waits, what the call has still to store and what the pass has still to log of a byte are
together at most the passes begun; a step of a call only moves a byte on or drops it
(`StepOwes`), and a new pass adds one at most. `WholeInv`: in a pass over a block that
fits, buffer, string and newline to come are the text of the lines so far (`PassInv`),
so that no step in it flushes; in the flush behind it the device's last bytes are what
the flush has sent of that text (`FlushInv`), and after a failure the buffer is empty
and the pass starts over. The text of the first lines is a recursive function; that it
exists and only grows (`TextExists`, `TextGrows`) is shown with the least line at which
it would not (`LeastOf`), which takes no induction rule. Bytes count because they are
told apart: `BlockAssumption` has every byte but the newline at most once in a block, so
the bytes of a block stand for its positions, and `BufferAssumption` keeps the console's
CRLF, an output, apart from the bytes logged.

`ArenaProofs`: for every word size, arena, type and count, `Spec => []HandsOutApart`.
The arithmetic of `alloc` is unsigned and wraps; the proof shows that it never does
as long as the end of the arena is aligned for the types allocated
(`ArenaAssumption`): the padding then stays inside the arena (`PaddingFits`), so the
subtraction does not wrap, and a count of at most room / size has a product of at
most the room (`WholeElements`). `NoWrap` collects these, `AllocStep` uses them.
Without the assumption the padding may be larger than what is left.

`OsLoaderProofs`: `HandOver`, `KernelRead` and `StopsOnlyWhenBusy` for every memory
map, list of devices, processor and number of allocations by the firmware. The
invariant says what is placed and mapped (`Placed`, `Covered`), that a map read is
the firmware's as long as the key is (`Current`), how many descriptors are spare
at each label of the two attempts (`Attempts`, `Spare`), and what has been read
from which disk (`Read`). Disks are told apart by what they hold and not by their
MediaId, so `KernelRead` names the devices that can be taken for the loader's own
(`Lookalikes`). That the features and an RSDP are there when the kernel is entered is an
invariant of its own (`Prepared`): no way leads around the checks. `Spare` is the arithmetic behind the two extra
descriptors: an allocation of the firmware splits at most one descriptor.

`KernelStartProofs`: `InterruptsSound` and `KeepsWhatItUses`. The first needs the
vectors raised to be vectors and the gates to be written before the table is loaded.
The second follows from what the log and the screen take of the first memory and
covers the case in which they fill it to its last byte: then, and only then, the page
given back is behind it.

`ImageBuilderProofs`: `FailureCleansUp` and `TablesSound`, for every size of block,
alignment and file. The first needs to know which ends the handler leads to (`Cleanup`),
and that the image is as it was found until `openImage`. The arithmetic of the layout (`LayoutHolds`): rounded up in three
places, the volume still fits in its partition, and both partitions start on the
alignment. Then every write after `writeGPTs` is shown to fall between the tables, and none on the MBR
(`WritesInside`): clusters taken stay in the volume or the program stops, which needs
that each directory is made once (`Entered`); reading the application may write past the
volume, but then `EfiEntry` does not go on (`Room`). The copy of the FAT is put
`U32_BYTES` times as far as meant, so the theorem has the hypothesis `MirrorInside`,
that it ends inside the partitions. It does with alignments below 32MiB (blocks of 512
bytes); with those and larger ones and a small kernel it overwrites the backup table.

Assumptions: `SizesAssumption`, `MapsAssumption`, `RequestsAssumption`
(`PhysicalMemory`), `RegionAssumption`, `LoaderAssumption`, `CallsAssumption` (`VirtualMemory`), `BufferAssumption`, `BlockAssumption`, `ArenaAssumption`,
`MemoryAssumption`, `SizesAssumption`, `DevicesAssumption`, `KernelAssumption`
(`OsLoader`), `Sizes`, `RaisedAreVectors`, `LoggerFits` (`KernelStart`),
`VolumeAssumption`, `BlocksAssumption`, `ArgumentsAssumption` (`ImageBuilder`). They are
types, sizes of at least one, and the relations of constants the code has at compile
time. `RECURSIVE` operators are kept out of the modules proved about: `getRSDP`
and `News` are defined by what their loops compute, and TLC compares the outcome.

Only model-checked, and why:

- `ReadBack` (chains of the FAT and paths of
  directories), `AllocatorsSound` of the buddy allocator, `HashSound` of the trie,
  `BytesSound`: they are about what a recursive definition computes, which is
  induction over data.
- `GatherFaultsOnlyWhenShort`: compares a sum over the three lists with the request.
- `ShowsText`, `RingsSound` of `Screen`: the search in the ring of lines and the walk
  back over them (`Bisect`, `Older`, `FinalEntry`) are recursive operators, and the
  display is a fold over the text.
- `TestsSound`: `Libraries` fixes the sizes of the test framework it checks, so a theorem
  about it would say no more than the run.
- `CallsReturn`, `BuilderEnds`, `LoaderEnds`, `BootSettles` and the other liveness
  properties: out of the prover's reach.

Worth proving next: that the screen's ring of characters holds the end of the text, apart
from the search for lines; `Pool`'s list; the test framework for every number of topics.

## 5. Where the code and its comments differ

The four runs that end in a violation are listed above. Met while modelling, and
modelled as the code does it, with properties stated so that they hold:

- `shared/.../buddy.c:112`, `:116`, `:39`: merged blocks need not be of one branch, a
  pass may leave two free halves, and an allocation may fail although a free block
  is large enough, because the walk steps over blocks. Sound all the same
  (`AllocatorsSound` states no more than that).
- `os-loader/.../main.c:112`: memory the loader took as loader data is in the map as
  memory the kernel may use (`x86/memory/physical/.../physical.c:72`). The page tables in
  force, the kernel's code, its parameters and its stack are in such memory, so all of
  them are on the free lists. `VirtualMemory` reaches states in which a call is given one
  of these frames; it stops there (`overwritten`), and `FramesRight` is claimed up to there.
- `os-loader/.../data-reading.c:83`: a device is taken for the loader's own disk if its
  MediaId is the same. UEFI does not make the MediaId the identity of a disk, so a disk
  with the same number and a kernel at the same block may be read instead (`Lookalikes`).
- `x86/memory/policy/.../policy.c:86`: asked to free what is left of an arena that is full
  to its last byte, `freeMapped` frees the page behind the arena. `KeepsWhatItUses` says
  that it happens in this case only (`FullArena`); the log and the screen together would
  have to take the first memory exactly.
- `x86/code/idt/real/src/idt.S:154`: vectors 29 and 30 have wrappers that push a zero, and
  processors that raise them push an error code: the handler's fields are shifted by one.
- `kernel/.../main.c:38`: when the first memory is exhausted the message is logged
  but the screen is not there to show it.
- `freestanding/.../screen.c:206`: a tab that does not fit in the last row drawn;
  `screen.c:405`: a newline counts as a cell; `screen.c:418`: rewinding may start in
  characters that were overwritten. `ShowsText` leaves these texts out.
- `shared/text/string.h:112`: `lastOccurenceOf` is left before its first step.
- `shared/text/.../converter.c:112`: zeros behind the point are written over (1.05
  becomes 1.50000); `converter.c:39`: `ptrToString` returns a length that is one
  short. `shared/text/.../converter.c:10`: one static buffer for all conversions.
- `image-builder/.../partitions/efi.c:463`: the second FAT is found by adding bytes to
  a pointer to words, so it lies behind the clusters in use, or, with alignments of
  32MiB and more, behind the partition, in the kernel or the backup table (`MirrorInside`); `efi.c:198`: the size computed does not count directories;
  `main.c:155`: an image of an earlier run that was written in the same second is
  removed by the error handler. `main.c:142`, `main.c:170`: when its `stat` or `unlink`
  fails the handler leaves a half-written image, as the assertions do that end the
  program first (`efi.c:416`, `data.c:22`); `FailureCleansUp` names these cases.
  `configuration.c:15`: `--lba` is not checked, and if the block size does not divide
  the partition table its end is shared with what follows (`BlocksAssumption`). `efi.c:411`: a file that became
  shorter makes the loop that reads it go on for ever (`BuilderEnds` leaves it out).
- `x86/memory/physical/code/tests/src/physical.c:35`: the `break` leaves a topic's loop
  without closing the topic; the scores printed afterwards are the wrong topic's.
- `x86/efi/code/src/init.c:46`: the division binds tighter than the difference, so a
  microsecond has far too many cycles.

## 6. Not modelled

The fonts, colours and pixels; the bits of page-table entries, control registers and
the PAT; TLB invalidation; the calibration of the wait; the names of faults; the
hash functions, whose values are inputs; collisions of checksums; `flushBuffer` of the
hosted log on an array of the caller's; the choice between stdout and stderr;
`readDiskLbas`, `getDiskImageMediaID`, the hosted `read.c` and `path.c`, the dynamic
arrays and the UUID parser, which have no callers outside tests; a `size * count` that
overflows in `buddyAlloc`, which nothing calls; an MBR of a disk of 2^32 blocks and more; integer overflow of
addresses and page counts in the managers (bounded by the physical address space);
the release build of the address allocator past the end of its region, where the
debug build stops at an assertion. The build system, linker scripts and declarations
of the EFI interface have no behaviour of their own.
