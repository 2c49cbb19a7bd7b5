------------------------------ MODULE OsLoader ------------------------------
(***************************************************************************)
(* The UEFI application that loads the kernel (os-loader, x86/efi): it     *)
(* sets up the processor, finds out where the kernel is, reads it from a   *)
(* device with the MediaId of its own, maps the memory, leaves the boot    *)
(* services and jumps.  The firmware is external: it hands out pages,      *)
(* numbers the states of its memory map with a key, and may allocate for   *)
(* itself between any two steps of the loader.                             *)
(***************************************************************************)
EXTENDS Integers, Sequences, FiniteSets, FiniteSetsExt, SequencesExt, Folds

CONSTANTS
  Memory,         \* the memory map at the start: page -> type of memory
  FrameBuffer,    \* the pages of the frame buffer, outside the memory
  UEFI_PAGE_SIZE, DESCRIPTORS_PER_PAGE, STACK_PAGES, GDT_PAGES,
  Handles,        \* the block devices, in the order of the handle buffer
  OwnMedia,       \* MediaId of the device the loader was started from
  OwnDisk,        \* the disk it is on, which the loader has no name for
  Magic,          \* the blocks of the disks that begin with KERNEL_MAGIC
  InfoFile,       \* KERNEL.INF: per line the digits after the '='
  Processors,     \* the sets of features a processor may have
  Tables,         \* the configuration tables the firmware may have
  MaxFirmware,    \* bound on what the firmware allocates for itself
  MaxBelow        \* bound on the places the firmware allocates at

Kinds == {"conventional", "loader", "firmware", "reserved"}

ASSUME MemoryAssumption ==
  /\ DOMAIN Memory \subseteq Nat /\ IsFiniteSet(DOMAIN Memory)
  /\ Memory \in [DOMAIN Memory -> Kinds]

ASSUME SizesAssumption ==
  /\ {UEFI_PAGE_SIZE, DESCRIPTORS_PER_PAGE, STACK_PAGES, GDT_PAGES} \subseteq Nat \ {0}
  /\ MaxFirmware \in Nat

\* A MediaId says which medium a device has now, not which disk it is: two disks
\* may show the same.
ASSUME DevicesAssumption ==
  /\ Handles \in Seq([disk : Nat, media : Nat, offset : Nat, blockSize : Nat \ {0}])
  /\ Tables \subseteq Seq([revision : {1, 2}, checksum : Nat])

Checks == <<"CPUID", "APIC", "TSC", "PGE", "FPU", "SSE">>
Required == Range(Checks)
Enabled == {"PGE", "FPU", "SSE"}
Purposes == {"root", "gdt", "info", "disk", "tables", "kernel", "params",
             "stack", "map"}

VARIABLES
  pc,         \* where efi_main is, "kernel" or "off" at its end
  memory,     \* the firmware's memory map, by page
  key,        \* and its key
  firmware,   \* what the firmware may still allocate
  opened,     \* the protocols and files the loader holds open
  enabled,    \* features switched on, of those the processor has
  cpu, table, \* the processor's features, the configuration tables searched
  owned,      \* the pages the loader allocated, by purpose
  identity,   \* the pages mapped where they are
  space,      \* the kernel's regions that are mapped, with their pages
  file,       \* kernelFile
  next,       \* the handle readDiskLbasFromCurrentGlobalImage looks at
  content,    \* what was read: disk and block, number of bytes
  info,       \* memoryInfo
  quiet,      \* no activity of the firmware since the size was asked for
  exited, params, message

vars == <<pc, memory, key, firmware, opened, enabled, cpu, table, owned,
          identity, space, file, next, content, info, quiet, exited, params,
          message>>
machine == <<enabled, cpu, table>>
maps == <<identity, space>>
disk == <<opened, file, next, content>>
handover == <<exited, params>>

NoInfo == [map |-> {}, size |-> 0, pages |-> {}, key |-> 0]

\* The types of what the firmware and the loader keep: nothing is enabled that
\* the processor does not have, and every page owned is one of the memory.
TypeOK ==
  /\ memory \in [DOMAIN Memory -> Kinds]
  /\ key \in Nat /\ firmware \in 0 .. MaxFirmware
  /\ DOMAIN owned = Purposes /\ UNION {owned[p] : p \in Purposes} \subseteq DOMAIN Memory
  /\ identity \subseteq DOMAIN Memory \cup FrameBuffer
  /\ next \in 1 .. Len(Handles) + 1
  /\ exited \in BOOLEAN /\ quiet \in BOOLEAN /\ enabled \subseteq cpu

-----------------------------------------------------------------------------
(* The firmware *)

\* The descriptors of a memory map: the runs of pages of one type.
Descriptors(m) ==
  LET same(p, q) == \A r \in p .. q : m[r] = m[p]
      starts == {p \in DOMAIN m : p - 1 \notin DOMAIN m \/ m[p - 1] # m[p]}
  IN {[type |-> m[p], pages |-> {q \in DOMAIN m : q >= p /\ same(p, q)}] : p \in starts}

\* allocate_pages may take any pages that are free; the highest place and up
\* to MaxBelow below it are looked at, which leave free pages on either side.
Places(m, n) ==
  LET fits == {p \in DOMAIN m : \A q \in p .. p + n - 1 :
                                   q \in DOMAIN m /\ m[q] = "conventional"}
  IN {p \in fits : \A q \in fits : q <= p + MaxBelow}

Taken(m, pages, type) == [p \in DOMAIN m |-> IF p \in pages THEN type ELSE m[p]]

FirmwareAllocates ==
  /\ ~exited /\ pc # "off" /\ firmware > 0
  /\ \E p \in Places(memory, 1) : memory' = Taken(memory, {p}, "firmware")
  /\ key' = key + 1 /\ firmware' = firmware - 1 /\ quiet' = FALSE
  /\ UNCHANGED <<pc, machine, owned, maps, disk, info, handover, message>>

-----------------------------------------------------------------------------
(* What the steps of the loader share *)

\* EXIT_WITH_MESSAGE: a message, then waitKeyThenReset; whatever is open or
\* allocated stays so.
Exit(why) ==
  /\ pc' = "message" /\ message' = why
  /\ UNCHANGED <<memory, key, firmware, machine, owned, maps, disk, info,
                 quiet, handover>>

\* allocate_pages of n pages of LOADER_DATA for a purpose.
Allocate(n, purpose) ==
  \E p \in Places(memory, n) :
    /\ memory' = Taken(memory, p .. p + n - 1, "loader")
    /\ owned' = [owned EXCEPT ![purpose] = @ \cup p .. p + n - 1]
    /\ key' = key + 1

NothingAllocated == UNCHANGED <<memory, owned, key>>

\* Variant with a defect: the key that is waited for is never pressed.
waitKeyForever == pc = "message" /\ pc' = "message" /\ UNCHANGED vars

waitKeyThenReset ==
  /\ pc = "message" /\ pc' = "off"
  /\ UNCHANGED <<memory, key, firmware, machine, owned, maps, disk, info,
                 quiet, handover, message>>

-----------------------------------------------------------------------------
(* initArchitecture *)

initArchitecture ==
  /\ pc = "root"
  /\ \/ /\ Allocate(1, "root") /\ pc' = "features"
        /\ UNCHANGED <<firmware, machine, maps, disk, info, quiet, handover, message>>
     \/ Exit("allocate")

\* Variant with a defect: a feature that is missing does not end the loader.
CheckFeaturesOn ==
  /\ pc = "features" /\ pc' = "gdt" /\ enabled' = Enabled \cap cpu
  /\ NothingAllocated
  /\ UNCHANGED <<firmware, cpu, table, maps, disk, info, quiet, handover, message>>

\* Each feature is asked for before it is enabled; the first one missing
\* ends the loader with the ones before it enabled.
CheckFeatures ==
  /\ pc = "features"
  /\ LET missing == {i \in DOMAIN Checks : Checks[i] \notin cpu}
         passed == IF missing = {} THEN DOMAIN Checks ELSE 1 .. Min(missing) - 1
     IN /\ enabled' = Enabled \cap {Checks[i] : i \in passed}
        /\ IF missing = {} THEN pc' = "gdt" /\ UNCHANGED message
           ELSE pc' = "message" /\ message' = "feature"
  /\ NothingAllocated
  /\ UNCHANGED <<firmware, cpu, table, maps, disk, info, quiet, handover>>

bootstrapProcessorWork ==
  /\ pc = "gdt"
  /\ \/ /\ Allocate(GDT_PAGES, "gdt") /\ pc' = "openInfo"
        /\ UNCHANGED <<firmware, machine, maps, disk, info, quiet, handover, message>>
     \/ Exit("allocate")

-----------------------------------------------------------------------------
(* getKernelInfo *)

InfoProtocols == {"loadedImage", "fileSystem", "root", "file"}

OpenInfo ==
  /\ pc = "openInfo"
  /\ \/ /\ pc' = "readInfo" /\ opened' = opened \cup InfoProtocols
        /\ NothingAllocated
        /\ UNCHANGED <<firmware, machine, maps, file, next, content, info, quiet,
                       handover, message>>
     \/ \* one of the openings fails: the ones before it stay open
        \E left \in {{}, {"loadedImage"}, {"loadedImage", "fileSystem"},
                     {"loadedImage", "fileSystem", "root"}} :
          /\ pc' = "message" /\ message' = "open" /\ opened' = opened \cup left
          /\ NothingAllocated
          /\ UNCHANGED <<firmware, machine, maps, file, next, content, info, quiet, handover>>

\* The digits of a line, most significant first.
Number(digits) == FoldLeft(LAMBDA n, d : n * 10 + d, 0, digits)

\* The layout goes by the order of the lines, not by the names before '='.
kernelFile == [bytes |-> Number(InfoFile[1]), lbaStart |-> Number(InfoFile[2])]

\* KERNEL.INF names a kernel that is not empty.
ASSUME KernelAssumption == kernelFile \in [bytes : Nat \ {0}, lbaStart : Nat]

\* Variant with a defect: the image's own protocols are forgotten.
getKernelInfoOpen ==
  /\ pc = "readInfo"
  /\ Allocate(1, "info") /\ file' = kernelFile /\ pc' = "search"
  /\ opened' = opened \ {"root", "file", "fileSystem"}
  /\ UNCHANGED <<firmware, machine, maps, next, content, info, quiet, handover, message>>

getKernelInfo ==
  /\ pc = "readInfo"
  /\ \/ /\ Allocate(1, "info") /\ file' = kernelFile /\ pc' = "search"
        /\ opened' = opened \ InfoProtocols
        /\ UNCHANGED <<firmware, machine, maps, next, content, info, quiet, handover, message>>
     \/ Exit("read")

-----------------------------------------------------------------------------
(* readDiskLbasFromCurrentGlobalImage *)

ImageProtocols == {"loadedImage", "imageBlockIo"}

StartSearch ==
  /\ pc = "search"
  /\ \/ /\ opened' = opened \cup ImageProtocols /\ pc' = "handles"
        /\ NothingAllocated
        /\ UNCHANGED <<firmware, machine, maps, file, next, content, info, quiet,
                       handover, message>>
     \/ Exit("open")

AlignUp(n, a) == ((n + a - 1) \div a) * a
CeilingDiv(n, a) == (n + a - 1) \div a

\* Variant with a defect: rounded down to whole pages.
DiskPagesDown(h) == AlignUp(file.bytes, h.blockSize) \div UEFI_PAGE_SIZE

DiskPages(h) == CeilingDiv(AlignUp(file.bytes, h.blockSize), UEFI_PAGE_SIZE)

\* The block of a disk that LBA lba of the handle is: a partition's own
\* numbering starts at its first block.
Block(h, lba) == <<h.disk, h.offset + lba>>

\* Variant with a defect: every device is read.
AnyMedia(h) == TRUE

\* What is asked of the handle before its content is used.
SameMedia(h) == h.media = OwnMedia

\* Variant with a defect: any block of our media will do.
IsKernelAny(h) == TRUE

IsKernel(h) == Block(h, file.lbaStart) \in Magic

\* One handle: open, allocate, read if it is of our media, compare, close.
\* The pages of a handle that is not the one are never freed.
readDiskLbasFromCurrentGlobalImage ==
  /\ pc = "handles" /\ next <= Len(Handles)
  /\ LET h == Handles[next]
     IN \/ Exit("handle")
        \/ /\ \E p \in Places(memory, DiskPages(h)) :
                LET pages == p .. p + DiskPages(h) - 1
                IN /\ memory' = Taken(memory, pages, "loader") /\ key' = key + 1
                   /\ \/ /\ SameMedia(h) /\ IsKernel(h)
                         /\ content' = <<Block(h, file.lbaStart),
                                         AlignUp(file.bytes, h.blockSize)>>
                         /\ owned' = [owned EXCEPT !["kernel"] = pages]
                         /\ pc' = "mapKernel"
                         /\ opened' = opened \ ImageProtocols
                         /\ UNCHANGED next
                      \/ \* another device, a block without the magic, or a
                         \* read that fails
                         /\ owned' = [owned EXCEPT !["disk"] = @ \cup pages]
                         /\ next' = next + 1
                         /\ UNCHANGED <<pc, content, opened>>
           /\ UNCHANGED <<firmware, machine, maps, file, info, quiet, handover, message>>

NoKernel ==
  /\ pc = "handles" /\ next > Len(Handles)
  /\ opened' = opened \ ImageProtocols /\ pc' = "message" /\ message' = "disk"
  /\ NothingAllocated
  /\ UNCHANGED <<firmware, machine, maps, file, next, content, info, quiet, handover>>

-----------------------------------------------------------------------------
(* The mappings of efi_main *)

\* mapVirtualRegion of the kernel's code; its first mapping allocates the
\* tables that the parameters and the stack use as well.
MapKernel ==
  /\ pc = "mapKernel"
  /\ \/ /\ Allocate(1, "tables")
        /\ space' = [space EXCEPT !["kernel"] = owned["kernel"]]
        /\ pc' = "mapSize"
        /\ UNCHANGED <<firmware, machine, identity, disk, info, quiet, handover, message>>
     \/ Exit("gop")

\* Variant with a defect: the frame buffer is forgotten.
MapDescriptorsOnly ==
  /\ pc = "mapDescriptors" /\ pc' = "params"
  /\ Allocate(1, "tables") /\ identity' = UNION {d.pages : d \in info.map}
  /\ UNCHANGED <<firmware, machine, space, disk, info, quiet, handover, message>>

\* Every descriptor and the frame buffer, mapped where they are.
MapDescriptors ==
  /\ pc = "mapDescriptors"
  /\ \/ /\ Allocate(1, "tables")
        /\ identity' = (UNION {d.pages : d \in info.map}) \cup FrameBuffer
        /\ pc' = "params"
        /\ UNCHANGED <<firmware, machine, space, disk, info, quiet, handover, message>>
     \/ Exit("allocate")

AllocateRegion(here, n, purpose, then) ==
  /\ pc = here
  /\ \/ /\ Allocate(n, purpose)
        /\ space' = [space EXCEPT ![purpose] = owned'[purpose]]
        /\ pc' = then
        /\ UNCHANGED <<firmware, machine, identity, disk, info, quiet, handover, message>>
     \/ Exit("allocate")

AllocateParams == AllocateRegion("params", 1, "params", "stack")
AllocateStack == AllocateRegion("stack", STACK_PAGES, "stack", "rsdp")

\* Variant with a defect: the search goes on after revision 2.
getRSDPLast(tables) ==
  Max({i \in DOMAIN tables : tables[i].checksum = 0} \cup {0})

\* The tables in order: every valid one replaces the one before it, and the
\* first valid one of revision 2 ends the search.
getRSDP(tables) ==
  LET valid == {i \in DOMAIN tables : tables[i].checksum = 0}
      ends == {i \in valid : tables[i].revision = 2}
  IN IF ends # {} THEN Min(ends) ELSE Max(valid \cup {0})

FindRSDP ==
  /\ pc = "rsdp"
  /\ \E t \in Tables :
       /\ table' = t
       /\ IF getRSDP(t) = 0 THEN pc' = "message" /\ message' = "rsdp"
          ELSE pc' = "exitSize" /\ UNCHANGED message
  /\ NothingAllocated
  /\ UNCHANGED <<firmware, enabled, cpu, maps, disk, info, quiet, handover>>

-----------------------------------------------------------------------------
(* getMemoryInfo, called before the mapping and before each attempt to exit *)

\* The three calls' names, by what comes after them.
SizeOf == [mapSize |-> "mapBuffer", exitSize |-> "exitBuffer", retrySize |-> "retryBuffer"]
BufferOf == [mapBuffer |-> "mapRead", exitBuffer |-> "exitRead", retryBuffer |-> "retryRead"]
ReadOf == [mapRead |-> "mapDescriptors", exitRead |-> "exit", retryRead |-> "retry"]

\* Variant with a defect: no descriptor to spare.
NoSpare == 0

\* get_memory_map without a buffer tells the size; two descriptors more are
\* allowed for the allocation of the buffer.
SPARE == 2
AskSize ==
  /\ pc \in DOMAIN SizeOf
  /\ info' = [NoInfo EXCEPT !.size = Cardinality(Descriptors(memory)) + SPARE]
  /\ quiet' = TRUE /\ pc' = SizeOf[pc]
  /\ NothingAllocated
  /\ UNCHANGED <<firmware, machine, maps, disk, handover, message>>

AllocateBuffer ==
  /\ pc \in DOMAIN BufferOf
  /\ \/ \E p \in Places(memory, CeilingDiv(info.size, DESCRIPTORS_PER_PAGE)) :
          LET pages == p .. p + CeilingDiv(info.size, DESCRIPTORS_PER_PAGE) - 1
          IN /\ memory' = Taken(memory, pages, "loader") /\ key' = key + 1
             /\ owned' = [owned EXCEPT !["map"] = pages]
             /\ info' = [info EXCEPT !.pages = pages]
             /\ pc' = BufferOf[pc]
             /\ UNCHANGED <<firmware, machine, maps, disk, quiet, handover, message>>
     \/ Exit("allocate")

ReadMap ==
  /\ pc \in DOMAIN ReadOf
  /\ LET map == Descriptors(memory)
     IN IF Cardinality(map) <= info.size
        THEN /\ info' = [info EXCEPT !.map = map, !.size = Cardinality(map), !.key = key]
             /\ pc' = ReadOf[pc] /\ UNCHANGED message
        ELSE pc' = "message" /\ message' = "mapTooSmall" /\ UNCHANGED info
  /\ NothingAllocated
  /\ UNCHANGED <<firmware, machine, maps, disk, quiet, handover>>

-----------------------------------------------------------------------------
(* Leaving the boot services *)

\* Variant with a defect: the exit is not checked, the jump comes after any attempt.
AcceptedUnchecked == TRUE

Accepted == info.key = key

Jump ==
  /\ exited' = TRUE /\ pc' = "kernel"
  /\ params' = info.map
  /\ NothingAllocated
  /\ UNCHANGED <<firmware, machine, maps, disk, info, quiet, message>>

\* A refused attempt frees the map that was read, as many pages as its size
\* now needs, and tries once more with a new one.
FreeMap ==
  /\ LET first == Min(info.pages)
         pages == first .. first + CeilingDiv(info.size, DESCRIPTORS_PER_PAGE) - 1
     IN memory' = Taken(memory, pages, "conventional")
  /\ owned' = [owned EXCEPT !["map"] = {}]
  /\ key' = key + 1 /\ pc' = "retrySize"
  /\ UNCHANGED <<firmware, machine, maps, disk, info, quiet, handover, message>>

\* Variant with a defect: the second attempt uses the key that was refused.
RetryOldKey ==
  /\ pc = "exit"
  /\ IF Accepted THEN Jump
     ELSE /\ pc' = "retry" /\ NothingAllocated
          /\ UNCHANGED <<firmware, machine, maps, disk, info, quiet, handover, message>>

exit_boot_services ==
  /\ pc = "exit"
  /\ IF Accepted THEN Jump ELSE FreeMap \/ Exit("free")

Retry ==
  /\ pc = "retry"
  /\ IF Accepted THEN Jump ELSE Exit("exitBootServices")

-----------------------------------------------------------------------------
Init ==
  /\ pc = "root" /\ memory = Memory /\ key = 0 /\ firmware = MaxFirmware
  /\ opened = {} /\ enabled = {} /\ cpu \in Processors /\ table = <<>>
  /\ owned = [p \in Purposes |-> {}] /\ identity = {}
  /\ space = [r \in {"kernel", "params", "stack"} |-> {}]
  /\ file = [bytes |-> 0, lbaStart |-> 0] /\ next = 1 /\ content = <<>>
  /\ info = NoInfo /\ quiet = FALSE /\ exited = FALSE /\ params = {}
  /\ message = "none"

Loader ==
  \/ initArchitecture \/ CheckFeatures \/ bootstrapProcessorWork
  \/ OpenInfo \/ getKernelInfo
  \/ StartSearch \/ readDiskLbasFromCurrentGlobalImage \/ NoKernel
  \/ MapKernel \/ MapDescriptors \/ AllocateParams \/ AllocateStack \/ FindRSDP
  \/ AskSize \/ AllocateBuffer \/ ReadMap
  \/ exit_boot_services \/ Retry \/ waitKeyThenReset

Next == Loader \/ FirmwareAllocates

Spec == Init /\ [][Next]_vars

\* The loader is the only thread and the firmware's calls return.
FairSpec == Spec /\ WF_vars(Loader)

-----------------------------------------------------------------------------
(* Properties *)

\* The memory map the kernel is given is the one the firmware had when it
\* accepted the key: nothing was allocated or freed after it was read.
MapIsCurrent == pc = "kernel" => exited /\ params = Descriptors(memory)

Needed == UNION {owned[p] : p \in {"root", "tables", "gdt", "kernel", "params", "stack", "map"}}

\* What the processor uses once level4PageTable is in force is mapped where
\* it is, also what was allocated after the descriptors were mapped, and the
\* kernel's regions are where it looks for them.
EverythingMapped ==
  pc = "kernel" =>
    /\ Needed \cup FrameBuffer \subseteq identity
    /\ \A r \in DOMAIN space : space[r] # {} /\ space[r] = owned[r]

\* Devices that the loader cannot tell from our disk: they show its MediaId, and
\* a kernel at the number KERNEL.INF names, which is another block.
OwnBlock == <<OwnDisk, kernelFile.lbaStart>>
Lookalikes ==
  {h \in Range(Handles) : /\ h.media = OwnMedia /\ Block(h, kernelFile.lbaStart) \in Magic
                          /\ Block(h, kernelFile.lbaStart) # OwnBlock}

\* What was loaded begins like a kernel and is the block of our own disk that
\* KERNEL.INF names, or else the one of a device that cannot be told from it: no
\* partition without a kernel there and no disk with another MediaId is taken.
OwnKernel ==
  content # <<>> =>
    /\ content[1] \in Magic
    /\ content[1] = OwnBlock \/ \E h \in Lookalikes : content[1] = Block(h, kernelFile.lbaStart)

\* Every byte of the kernel was read, into memory that has room for all of them.
WholeKernel ==
  content # <<>> =>
    /\ content[2] >= kernelFile.bytes
    /\ Cardinality(owned["kernel"]) * UEFI_PAGE_SIZE >= content[2]

\* Whatever was opened is closed again when the function that opened it is
\* left, unless the loader has given up.
OpenedIsClosed ==
  opened # {} => pc \in {"readInfo", "handles", "message", "off"}

\* The two spare descriptors are enough for the allocation of the buffer:
\* the map is too large for it only when the firmware allocated as well.
SpareSuffices == message = "mapTooSmall" => ~quiet

\* One activity of the firmware at the wrong moment does not stop the boot.
RetrySuffices == message = "exitBootServices" => MaxFirmware - firmware >= 2

\* The loader gets past the checks, and the kernel is entered, only on a processor
\* that has every feature asked for, with those enabled that have to be.
FeaturesPresent ==
  pc \notin {"root", "features", "message", "off"} => Required \subseteq cpu /\ enabled = Enabled

\* It is entered only with an RSDP, a valid one with no newer among the tables, in
\* whatever order these are.
NewestRSDP ==
  LET valid == {i \in DOMAIN table : table[i].checksum = 0}
      rsdp == getRSDP(table)
  IN pc = "kernel" =>
       rsdp \in valid /\ \A i \in valid : table[rsdp].revision >= table[i].revision

\* The loader ends in the kernel or with the machine off.
LoaderEnds == <>(pc \in {"kernel", "off"})

\* What the kernel finds when it is entered is right: the processor, the memory
\* map, the tables in force and the RSDP.
HandOver == TypeOK /\ MapIsCurrent /\ EverythingMapped /\ FeaturesPresent /\ NewestRSDP

\* The kernel is read whole, from our own disk or from one the loader cannot tell
\* from it, and what was opened is closed.
KernelRead == OwnKernel /\ WholeKernel /\ OpenedIsClosed

\* The loader gives up on the memory map only when the firmware allocated at
\* the wrong moment, and twice if it was while the boot services were left.
StopsOnlyWhenBusy == SpareSuffices /\ RetrySuffices
=============================================================================
