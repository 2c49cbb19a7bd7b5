--------------------------- MODULE OsLoaderProofs ---------------------------
(***************************************************************************)
(* The OS loader, for every memory map, every list of block devices, every *)
(* processor and every number of allocations the firmware makes between    *)
(* the loader's steps: what the kernel finds when it is entered, where it  *)
(* was read from, and when the loader gives up.                            *)
(***************************************************************************)
EXTENDS OsLoader, TLAPS, FiniteSetTheorems

Pages == DOMAIN Memory
Regions == {"kernel", "params", "stack"}

\* Where efi_main is, in the order of its steps.
Reading == {"root", "features", "gdt", "openInfo", "readInfo", "search", "handles"}
Mapping == {"mapSize", "mapBuffer", "mapRead", "mapDescriptors"}
Retrying == {"retrySize", "retryBuffer", "retryRead"}
Leaving == {"rsdp", "exitSize", "exitBuffer", "exitRead", "exit", "retry", "kernel"}
           \cup Retrying
Given == {"message", "off"}
Labels == Reading \cup {"mapKernel"} \cup Mapping \cup {"params", "stack"}
          \cup Leaving \cup Given

Maps == SUBSET [type : Kinds, pages : SUBSET Pages]

Types ==
  /\ pc \in Labels
  /\ memory \in [Pages -> Kinds]
  /\ key \in Nat /\ firmware \in 0 .. MaxFirmware
  /\ owned \in [Purposes -> SUBSET Pages]
  /\ space \in [Regions -> SUBSET Pages]
  /\ identity \subseteq Pages \cup FrameBuffer
  /\ file \in [bytes : Nat, lbaStart : Nat]
  /\ next \in 1 .. Len(Handles) + 1
  /\ info \in [map : Maps, size : Nat, pages : SUBSET Pages, key : Nat]
  /\ exited \in BOOLEAN /\ quiet \in BOOLEAN /\ enabled \subseteq cpu
  /\ table \in Tables \cup {<< >>}

\* The kernel's regions are mapped one after the other, each to the pages it
\* was read into or allocated.
Placed ==
  /\ pc \notin Reading \cup Given => owned["kernel"] # {}
  /\ pc \in Mapping \cup {"params", "stack"} \cup Leaving => space["kernel"] = owned["kernel"]
  /\ pc \in {"stack"} \cup Leaving => space["params"] = owned["params"] /\ owned["params"] # {}
  /\ pc \in Leaving => space["stack"] = owned["stack"] /\ owned["stack"] # {}

\* The identity mapping was made from a map that covered the whole memory.
Covered ==
  /\ pc = "mapDescriptors" => UNION {d.pages : d \in info.map} = Pages
  /\ pc \in {"params", "stack"} \cup Leaving => identity = Pages \cup FrameBuffer

\* The memory map that was read is the firmware's as long as the key is.
Current ==
  /\ pc \in {"exit", "retry"} =>
       info.key <= key /\ (info.key = key => info.map = Descriptors(memory))
  /\ pc = "kernel" => exited /\ params = Descriptors(memory)
  /\ exited => pc = "kernel"

\* Every attempt that is refused costs the firmware an allocation.
Attempts ==
  /\ pc = "exit" => key - info.key <= MaxFirmware - firmware
  /\ pc \in Retrying => MaxFirmware - firmware >= 1
  /\ pc = "retry" => key - info.key + 1 <= MaxFirmware - firmware
  /\ message = "exitBootServices" => MaxFirmware - firmware >= 2

\* How much room the buffer for the memory map has.
Spare ==
  /\ pc \in DOMAIN BufferOf /\ quiet => info.size = Cardinality(Descriptors(memory)) + SPARE
  /\ pc \in DOMAIN ReadOf /\ quiet => Cardinality(Descriptors(memory)) <= info.size
  /\ message = "mapTooSmall" => ~quiet
  /\ message # "none" => pc \in Given

\* What is open, and what KERNEL.INF said.
Read ==
  /\ pc = "readInfo" => opened \subseteq InfoProtocols
  /\ pc = "handles" => opened \subseteq ImageProtocols
  /\ pc \notin {"readInfo", "handles"} \cup Given => opened = {}
  /\ pc \in {"search", "handles"} => file = kernelFile
  /\ OwnKernel /\ WholeKernel

\* What the steps of the loader keep.
IInv == Types /\ Placed /\ Covered /\ Current /\ Attempts /\ Spare /\ Read

-----------------------------------------------------------------------------
(* Sets of numbers *)

\* A set of naturals that is not empty has a least element: what the search
\* for the first missing feature and for a run's first page rests on.
LEMMA Least ==
  ASSUME NEW S \in SUBSET Nat, S # {}
  PROVE  \E x \in S : \A y \in S : x <= y
<1>1. \E R : IsWellFoundedOn(R, Nat) /\ \A x, y \in Nat : y < x => <<y, x>> \in R
  <2> DEFINE R == OpToRel(<, Nat)
  <2>1. IsWellFoundedOn(R, Nat)
    BY NatLessThanWellFounded
  <2>2. \A x, y \in Nat : y < x => <<y, x>> \in R
    BY DEF OpToRel
  <2> HIDE DEF R
  <2> QED BY <2>1, <2>2
<1>2. PICK R : IsWellFoundedOn(R, Nat) /\ \A x, y \in Nat : y < x => <<y, x>> \in R
  BY <1>1
<1>3. PICK x \in S : \A y \in S : ~(<<y, x>> \in R)
  BY <1>2, WFMin, Zenon
<1>4. ASSUME NEW y \in S PROVE x <= y
  <2>1. ~(y < x)
    BY <1>2, <1>3, <1>4
  <2> QED BY <2>1, <1>4
<1> QED BY <1>4

\* Min of a set of naturals is in the set and below all of it.
LEMMA MinIs ==
  ASSUME NEW S \in SUBSET Nat, S # {}
  PROVE  Min(S) \in S /\ \A y \in S : Min(S) <= y
BY Least DEF Min

\* Max of a set of naturals with an upper bound likewise.
LEMMA MaxIs ==
  ASSUME NEW n \in Nat, NEW S \in SUBSET (0 .. n), S # {}
  PROVE  Max(S) \in S /\ \A y \in S : y <= Max(S)
<1> DEFINE T == {k \in Nat : k <= n /\ n - k \in S}
<1>1. T \in SUBSET Nat
  OBVIOUS
<1>2. T # {}
  <2>1. PICK s \in S : TRUE
    OBVIOUS
  <2>2. s \in 0 .. n /\ n - (n - s) = s
    OBVIOUS
  <2>3. n - s \in T
    BY <2>2
  <2> QED BY <2>3
<1>3. PICK k \in T : \A j \in T : k <= j
  BY <1>1, <1>2, Least
<1>4. ASSUME NEW y \in S PROVE y <= n - k
  <2>1. y \in 0 .. n /\ n - (n - y) = y
    BY <1>4
  <2>2. n - y \in T
    BY <2>1, <1>4
  <2> QED BY <1>3, <2>1, <2>2
<1>5. n - k \in S
  BY <1>3
<1>6. \E x \in S : \A y \in S : x >= y
  <2> WITNESS n - k \in S
  <2> TAKE y \in S
  <2>1. y <= n - k /\ y \in Int /\ n - k \in Int
    BY <1>4, <1>3
  <2> QED BY <2>1
<1> DEFINE x == Max(S)
<1>7. x \in S /\ \A y \in S : x >= y
  BY <1>6 DEF Max
<1>8. x \in S
  BY <1>7
<1>9. ASSUME NEW y \in S PROVE y <= x
  <2>1. x >= y /\ x \in 0 .. n /\ y \in 0 .. n
    BY <1>7
  <2> QED BY <2>1
<1> QED BY <1>8, <1>9

-----------------------------------------------------------------------------
(* Memory maps *)

\* The first pages of the runs of a memory map, and the run from a page on.
Starts(m) == {p \in DOMAIN m : p - 1 \notin DOMAIN m \/ m[p - 1] # m[p]}
RunFrom(m, p) ==
  [type |-> m[p], pages |-> {q \in DOMAIN m : q >= p /\ \A r \in p .. q : m[r] = m[p]}]

LEMMA DescriptorsAreRuns ==
  ASSUME NEW m
  PROVE  Descriptors(m) = {RunFrom(m, p) : p \in Starts(m)}
BY DEF Descriptors, Starts, RunFrom

LEMMA DescriptorsType ==
  ASSUME NEW m \in [Pages -> Kinds]
  PROVE  Descriptors(m) \in Maps
<1>1. Descriptors(m) = {RunFrom(m, p) : p \in Starts(m)}
  BY DescriptorsAreRuns
<1>2. ASSUME NEW p \in Starts(m) PROVE RunFrom(m, p) \in [type : Kinds, pages : SUBSET Pages]
  BY <1>2 DEF Starts, RunFrom
<1> QED BY <1>1, <1>2 DEF Maps

\* Every page is in a descriptor: the run it belongs to has a first page.
LEMMA DescriptorsCover ==
  ASSUME NEW m \in [Pages -> Kinds]
  PROVE  UNION {d.pages : d \in Descriptors(m)} = Pages
<1>1. Pages \subseteq Nat
  BY MemoryAssumption DEF Pages
<1>2. ASSUME NEW q \in Pages
      PROVE  \E p \in Starts(m) : q \in RunFrom(m, p).pages
  <2> DEFINE S == {p \in Pages : p <= q /\ \A r \in p .. q : r \in Pages /\ m[r] = m[q]}
  <2>1. S \in SUBSET Nat
    BY <1>1
  <2>2. q \in S
    <3>1. q \in Nat
      BY <1>1
    <3>2. \A r \in q .. q : r = q
      BY <3>1
    <3> QED BY <3>1, <3>2
  <2>3. PICK p \in S : \A y \in S : p <= y
    BY <2>1, <2>2, Least
  <2>4. p \in Nat /\ q \in Nat /\ p <= q /\ m[p] = m[q]
    <3>1. p \in Nat /\ q \in Nat /\ p <= q
      BY <1>1, <2>3
    <3>2. p \in p .. q
      BY <3>1
    <3> QED BY <3>1, <3>2, <2>3
  <2>5. p \in Starts(m)
    <3> SUFFICES ASSUME p - 1 \in Pages, m[p - 1] = m[p] PROVE FALSE
      BY <2>3 DEF Starts
    <3>1. \A r \in p - 1 .. q : r = p - 1 \/ r \in p .. q
      BY <2>4
    <3>2. p - 1 \in S
      BY <3>1, <2>3, <2>4
    <3>3. p <= p - 1
      BY <3>2, <2>3
    <3> QED BY <3>3, <2>4
  <2>6. q \in RunFrom(m, p).pages
    BY <2>3, <2>4 DEF RunFrom
  <2> QED BY <2>5, <2>6
<1>3. \A d \in Descriptors(m) : d.pages \subseteq Pages
  BY DescriptorsType DEF Maps
<1> QED BY <1>2, <1>3, DescriptorsAreRuns

\* There are as many descriptors as runs begin.
LEMMA CountRuns ==
  ASSUME NEW m \in [Pages -> Kinds]
  PROVE  /\ IsFiniteSet(Starts(m))
         /\ IsFiniteSet(Descriptors(m))
         /\ Cardinality(Descriptors(m)) = Cardinality(Starts(m))
         /\ Cardinality(Descriptors(m)) \in Nat
<1>1. IsFiniteSet(Starts(m))
  <2>1. Starts(m) \in SUBSET Pages
    BY DEF Starts
  <2> QED BY <2>1, MemoryAssumption, FS_Subset DEF Pages
<1> DEFINE f == [p \in Starts(m) |-> RunFrom(m, p)]
<1>2. f \in Bijection(Starts(m), Descriptors(m))
  <2>1. f \in [Starts(m) -> Descriptors(m)]
    BY DescriptorsAreRuns
  <2>2. ASSUME NEW p \in Starts(m), NEW q \in Starts(m), f[p] = f[q] PROVE p = q
    <3>1. p \in Nat /\ q \in Nat /\ p \in Pages /\ q \in Pages
      BY MemoryAssumption DEF Starts, Pages
    <3>2. RunFrom(m, p).pages = RunFrom(m, q).pages
      BY <2>2
    <3>3. p \in RunFrom(m, p).pages /\ q \in RunFrom(m, q).pages
      <4>1. (\A r \in p .. p : r = p) /\ (\A r \in q .. q : r = q)
        BY <3>1
      <4> QED BY <3>1, <4>1 DEF RunFrom
    <3>4. p >= q /\ q >= p
      BY <3>2, <3>3 DEF RunFrom
    <3> QED BY <3>1, <3>4
  <2>3. \A d \in Descriptors(m) : \E p \in Starts(m) : f[p] = d
    BY DescriptorsAreRuns
  <2> QED BY <2>1, <2>2, <2>3 DEF Bijection, Injection, Surjection, IsInjective
<1>3. ExistsBijection(Starts(m), Descriptors(m))
  BY <1>2 DEF ExistsBijection
<1> QED BY <1>1, <1>3, FS_Bijection, FS_CardinalityType

\* An allocation inside free memory makes at most two runs more: one that
\* begins with it and one that begins behind it.
LEMMA TwoMoreRuns ==
  ASSUME NEW m \in [Pages -> Kinds], NEW p \in Pages, NEW n \in Nat, NEW k \in Kinds,
         \A q \in p .. p + n - 1 : q \in Pages /\ m[q] = "conventional"
  PROVE  Cardinality(Descriptors(Taken(m, p .. p + n - 1, k)))
           <= Cardinality(Descriptors(m)) + 2
<1> DEFINE m2 == Taken(m, p .. p + n - 1, k)
           more == Starts(m) \cup {p} \cup {p + n}
<1>1. m2 \in [Pages -> Kinds] /\ \A q \in Pages : m2[q] = IF q \in p .. p + n - 1 THEN k ELSE m[q]
  BY DEF Taken
<1>2. Starts(m2) \subseteq more
  <2> SUFFICES ASSUME NEW x \in Starts(m2), x # p, x # p + n PROVE x \in Starts(m)
    OBVIOUS
  <2>1. x \in Pages /\ x \in Nat /\ p \in Nat /\ (x - 1 \notin Pages \/ m2[x - 1] # m2[x])
    BY <1>1, MemoryAssumption DEF Starts, Pages
  <2> HIDE DEF m2
  <2>2. CASE x \in p .. p + n - 1
    <3>1. x - 1 \in p .. p + n - 1
      BY <2>1, <2>2
    <3> QED BY <1>1, <2>1, <2>2, <3>1
  <2>3. CASE x \notin p .. p + n - 1
    <3>1. x - 1 \notin p .. p + n - 1
      BY <2>1, <2>3
    <3> QED BY <1>1, <2>1, <2>3, <3>1 DEF Starts
  <2> QED BY <2>2, <2>3
<1>3. /\ IsFiniteSet(Starts(m)) /\ Cardinality(Descriptors(m)) = Cardinality(Starts(m))
      /\ Cardinality(Descriptors(m2)) = Cardinality(Starts(m2))
      /\ Cardinality(Starts(m)) \in Nat
  BY <1>1, CountRuns
<1>4. /\ IsFiniteSet(Starts(m) \cup {p})
      /\ Cardinality(Starts(m) \cup {p}) \in {Cardinality(Starts(m)), Cardinality(Starts(m)) + 1}
  BY <1>3, FS_AddElement
<1>5. /\ IsFiniteSet(more)
      /\ Cardinality(more) \in {Cardinality(Starts(m) \cup {p}), Cardinality(Starts(m) \cup {p}) + 1}
  BY <1>4, FS_AddElement
<1>6. Cardinality(Starts(m2)) <= Cardinality(more)
  <2> HIDE DEF more
  <2> QED BY <1>2, <1>5, FS_Subset
<1>7. Cardinality(Starts(m2)) \in Nat
  BY <1>1, CountRuns
<1> HIDE DEF m2, more
<1> QED BY <1>3, <1>4, <1>5, <1>6, <1>7 DEF m2


\* Where the firmware finds room, every page is free.
LEMMA PlacesAreFree ==
  ASSUME NEW m \in [Pages -> Kinds], NEW n, NEW p \in Places(m, n)
  PROVE  p \in Pages /\ p \in Nat
         /\ \A q \in p .. p + n - 1 : q \in Pages /\ m[q] = "conventional"
BY MemoryAssumption DEF Places, Pages

LEMMA TakenType ==
  ASSUME NEW m \in [Pages -> Kinds], NEW pages, NEW k \in Kinds
  PROVE  Taken(m, pages, k) \in [Pages -> Kinds]
BY DEF Taken

\* Rounding up to whole units, of at least one.
LEMMA RoundsUp ==
  ASSUME NEW n \in Nat, NEW a \in Nat \ {0}
  PROVE  /\ CeilingDiv(n, a) \in Nat /\ n <= CeilingDiv(n, a) * a
         /\ AlignUp(n, a) \in Nat /\ n <= AlignUp(n, a)
         /\ n # 0 => CeilingDiv(n, a) # 0 /\ AlignUp(n, a) # 0
<1> DEFINE d == (n + a - 1) \div a
           r == (n + a - 1) % a
<1>1. d \in Int /\ r \in 0 .. a - 1 /\ n + a - 1 = a * d + r
  OBVIOUS
<1> HIDE DEF d, r
<1>2. d >= 0
  BY <1>1
<1>3. a * d = d * a /\ d * a \in Nat /\ n <= d * a
  BY <1>1, <1>2
<1>4. n # 0 => d # 0
  BY <1>3
<1> QED BY <1>2, <1>3, <1>4 DEF CeilingDiv, AlignUp, d

\* What one call of allocate_pages does.
LEMMA Allocates ==
  ASSUME Types, NEW n \in Nat \ {0}, NEW purpose \in Purposes, Allocate(n, purpose)
  PROVE  /\ memory' \in [Pages -> Kinds] /\ key' = key + 1
         /\ owned' \in [Purposes -> SUBSET Pages]
         /\ owned'[purpose] # {}
         /\ \A q \in Purposes : q # purpose => owned'[q] = owned[q]
<1>1. PICK p \in Places(memory, n) :
        /\ memory' = Taken(memory, p .. p + n - 1, "loader")
        /\ owned' = [owned EXCEPT ![purpose] = @ \cup p .. p + n - 1]
        /\ key' = key + 1
  BY DEF Allocate
<1>2. memory \in [Pages -> Kinds] /\ owned \in [Purposes -> SUBSET Pages]
  BY DEF Types
<1>3. p \in Nat /\ p .. p + n - 1 \subseteq Pages
  BY <1>2, PlacesAreFree
<1>4. p \in p .. p + n - 1
  BY <1>3
<1>5. memory' \in [Pages -> Kinds]
  BY <1>1, <1>2, TakenType DEF Kinds
<1> QED BY <1>1, <1>2, <1>3, <1>4, <1>5

-----------------------------------------------------------------------------
(* The invariant *)

LEMMA Start == Init => IInv
<1> SUFFICES ASSUME Init PROVE IInv
  OBVIOUS
<1> USE DEF Init
<1>1. Types
  <2>1. Len(Handles) \in Nat
    BY DevicesAssumption
  <2>2. 1 \in 1 .. Len(Handles) + 1
    BY <2>1
  <2>3. NoInfo \in [map : Maps, size : Nat, pages : SUBSET Pages, key : Nat]
    BY DEF NoInfo, Maps
  <2>4. memory \in [Pages -> Kinds] /\ firmware \in 0 .. MaxFirmware
    BY MemoryAssumption, SizesAssumption DEF Pages
  <2> QED BY <2>2, <2>3, <2>4 DEF Types, Labels, Reading, Regions
<1>2. Placed /\ Covered
  BY DEF Placed, Covered, Reading, Mapping, Leaving, Retrying, Given
<1>3. Current /\ Attempts /\ Spare
  BY DEF Current, Attempts, Spare, Retrying, BufferOf, ReadOf
<1>4. Read
  BY DEF Read, OwnKernel, WholeKernel, Given
<1> QED BY <1>1, <1>2, <1>3, <1>4 DEF IInv

\* Giving up keeps everything, whatever the reason.
LEMMA GivingUp ==
  ASSUME IInv, NEW why, Exit(why), ~exited, why # "mapTooSmall",
         why = "exitBootServices" => MaxFirmware - firmware >= 2
  PROVE  IInv'
<1> USE DEF IInv, Exit, machine, maps, disk, handover
<1>1. Types'
  BY DEF Types, Labels, Given
<1>2. Placed' /\ Covered' /\ Current'
  BY DEF Placed, Covered, Current, Reading, Mapping, Leaving, Retrying, Given
<1>3. Attempts' /\ Spare'
  BY DEF Attempts, Spare, Retrying, BufferOf, ReadOf, Given
<1>4. Read'
  BY DEF Read, OwnKernel, WholeKernel, Given
<1> QED BY <1>1, <1>2, <1>3, <1>4

\* The firmware takes a page between two steps: what was read of the memory
\* map no longer has the current key, and one allocation more was made.
LEMMA FirmwareStep ==
  ASSUME IInv, FirmwareAllocates
  PROVE  IInv'
<1> USE DEF IInv, FirmwareAllocates, machine, maps, disk, handover
<1>1. Types'
  <2>1. memory' \in [Pages -> Kinds]
    BY PlacesAreFree, TakenType DEF Types, Kinds
  <2>2. firmware' \in 0 .. MaxFirmware /\ key' \in Nat
    BY SizesAssumption DEF Types
  <2> QED BY <2>1, <2>2 DEF Types
<1>2. Placed' /\ Covered'
  BY DEF Placed, Covered
<1>3. Current'
  BY DEF Current, Types
<1>4. Attempts'
  <2>1. /\ key \in Nat /\ info.key \in Nat /\ firmware \in Nat /\ MaxFirmware \in Nat
        /\ key' = key + 1 /\ firmware' = firmware - 1
        /\ pc' = pc /\ info' = info /\ message' = message
    BY SizesAssumption DEF Types
  <2>2. Attempts
    OBVIOUS
  <2> QED BY ONLY <2>1, <2>2 DEF Attempts
<1>5. Spare'
  BY DEF Spare
<1>6. Read'
  BY DEF Read, OwnKernel, WholeKernel
<1> QED BY <1>1, <1>2, <1>3, <1>4, <1>5, <1>6


\* initArchitecture and bootstrapProcessorWork: one allocation each.
LEMMA SetUpStep ==
  ASSUME IInv, initArchitecture \/ bootstrapProcessorWork
  PROVE  IInv'
<1> USE DEF IInv
<1>0. ~exited /\ pc \in {"root", "gdt"}
  BY DEF initArchitecture, bootstrapProcessorWork, Current
<1>1. CASE \E why \in {"allocate"} : Exit(why)
  BY <1>0, <1>1, GivingUp
<1>2. CASE ~ \E why \in {"allocate"} : Exit(why)
  <2> DEFINE n == IF pc = "root" THEN 1 ELSE GDT_PAGES
             purpose == IF pc = "root" THEN "root" ELSE "gdt"
  <2>1. /\ Allocate(n, purpose) /\ pc' \in {"features", "openInfo"}
        /\ UNCHANGED <<firmware, machine, maps, disk, info, quiet, handover, message>>
    BY <1>2 DEF initArchitecture, bootstrapProcessorWork
  <2>2. n \in Nat \ {0} /\ purpose \in Purposes /\ purpose # "kernel"
    BY SizesAssumption DEF Purposes
  <2> HIDE DEF n, purpose
  <2>3. /\ memory' \in [Pages -> Kinds] /\ key' = key + 1
        /\ owned' \in [Purposes -> SUBSET Pages]
        /\ owned'["kernel"] = owned["kernel"]
    BY <2>1, <2>2, Allocates DEF Purposes
  <2> USE <2>1 DEF machine, maps, disk, handover
  <2>4. Types'
    BY <2>3 DEF Types, Labels, Reading
  <2>5. Placed' /\ Covered' /\ Current' /\ Attempts'
    BY <1>0 DEF Placed, Covered, Current, Attempts, Reading, Mapping, Leaving, Retrying, Given
  <2>6. Spare'
    BY <1>0 DEF Spare, BufferOf, ReadOf, Given
  <2>7. Read'
    BY <1>0, <2>3 DEF Read, OwnKernel, WholeKernel, Given
  <2> QED BY <2>4, <2>5, <2>6, <2>7
<1> QED BY <1>1, <1>2

\* CheckFeatures: what is enabled was asked for, also when a later check ends
\* the loader.
LEMMA FeaturesStep ==
  ASSUME IInv, CheckFeatures
  PROVE  IInv'
<1> USE DEF IInv
<1> DEFINE missing == {i \in DOMAIN Checks : Checks[i] \notin cpu}
           passed == IF missing = {} THEN DOMAIN Checks ELSE 1 .. Min(missing) - 1
<1>1. /\ pc = "features" /\ enabled' = Enabled \cap {Checks[i] : i \in passed}
      /\ \/ pc' = "gdt" /\ UNCHANGED message
         \/ pc' = "message" /\ message' = "feature"
      /\ UNCHANGED <<memory, owned, key, firmware, cpu, table, maps, disk, info, quiet, handover>>
  BY DEF CheckFeatures, NothingAllocated
<1>2. enabled' \subseteq cpu
  <2>1. DOMAIN Checks = 1 .. 6
    BY DEF Checks
  <2>2. \A i \in passed : i \in DOMAIN Checks /\ i \notin missing
    <3>1. CASE missing = {}
      BY <3>1
    <3>2. CASE missing # {}
      <4>1. missing \in SUBSET Nat
        BY <2>1
      <4>2. Min(missing) \in missing /\ \A i \in missing : Min(missing) <= i
        BY <3>2, <4>1, MinIs
      <4>3. Min(missing) \in 1 .. 6
        BY <4>2, <2>1
      <4>4. passed = 1 .. Min(missing) - 1
        BY <3>2
      <4> DEFINE first == Min(missing)
      <4> HIDE DEF missing, passed, first
      <4>5. ASSUME NEW i \in passed PROVE i \in 1 .. 6 /\ i < first
        BY <4>3, <4>4, <4>5 DEF first
      <4>6. ASSUME NEW i \in passed PROVE i \notin missing
        <5>1. first <= i => ~(i < first)
          BY <4>3, <4>5 DEF first
        <5> QED BY <4>2, <4>5, <5>1 DEF first
      <4> QED BY <4>5, <4>6, <2>1
    <3> QED BY <3>1, <3>2
  <2> QED BY <1>1, <2>2
<1> HIDE DEF missing, passed
<1> USE <1>1 DEF maps, disk, handover
<1>3. Types'
  BY <1>2 DEF Types, Labels, Reading, Given
<1>4. Placed' /\ Covered' /\ Current' /\ Attempts'
  BY DEF Placed, Covered, Current, Attempts, Reading, Mapping, Leaving, Retrying, Given
<1>5. Spare'
  BY DEF Spare, BufferOf, ReadOf, Given
<1>6. Read'
  BY DEF Read, OwnKernel, WholeKernel, Given
<1> QED BY <1>3, <1>4, <1>5, <1>6

\* getKernelInfo and the start of the search: what is opened is closed again
\* unless an opening fails.
LEMMA InfoStep ==
  ASSUME IInv, OpenInfo \/ getKernelInfo \/ StartSearch
  PROVE  IInv'
<1> USE DEF IInv
<1>0. ~exited /\ pc \in {"openInfo", "readInfo", "search"}
  BY DEF OpenInfo, getKernelInfo, StartSearch, Current
<1>1. CASE \E why \in {"read", "open"} : Exit(why)
  BY <1>0, <1>1, GivingUp
<1>2. CASE OpenInfo
  <2>1. /\ pc = "openInfo"
        /\ \/ pc' = "readInfo" /\ opened' = opened \cup InfoProtocols /\ UNCHANGED message
           \/ pc' = "message" /\ message' = "open"
        /\ UNCHANGED <<memory, owned, key, firmware, machine, maps, file, next, content,
                       info, quiet, handover>>
    BY <1>2 DEF OpenInfo, NothingAllocated
  <2> USE <2>1 DEF machine, maps, handover
  <2>2. Types'
    BY DEF Types, Labels, Reading, Given
  <2>3. Placed' /\ Covered' /\ Current' /\ Attempts'
    BY <1>0 DEF Placed, Covered, Current, Attempts, Reading, Mapping, Leaving, Retrying, Given
  <2>4. Spare'
    BY DEF Spare, BufferOf, ReadOf, Given
  <2>5. Read'
    BY DEF Read, OwnKernel, WholeKernel, Given
  <2> QED BY <2>2, <2>3, <2>4, <2>5
<1>3. CASE getKernelInfo /\ ~ \E why \in {"read", "open"} : Exit(why)
  <2>1. /\ pc = "readInfo" /\ Allocate(1, "info") /\ file' = kernelFile /\ pc' = "search"
        /\ opened' = opened \ InfoProtocols
        /\ UNCHANGED <<firmware, machine, maps, next, content, info, quiet, handover, message>>
    BY <1>3 DEF getKernelInfo
  <2>2. /\ memory' \in [Pages -> Kinds] /\ key' = key + 1
        /\ owned' \in [Purposes -> SUBSET Pages]
        /\ owned'["kernel"] = owned["kernel"]
    BY <2>1, Allocates DEF Purposes
  <2>3. file' \in [bytes : Nat, lbaStart : Nat]
    BY <2>1, KernelAssumption
  <2> USE <2>1, <2>2 DEF machine, maps, handover
  <2>4. Types'
    BY <2>3 DEF Types, Labels, Reading
  <2>5. Placed' /\ Covered' /\ Current' /\ Attempts'
    BY <1>0 DEF Placed, Covered, Current, Attempts, Reading, Mapping, Leaving, Retrying, Given
  <2>6. Spare'
    BY DEF Spare, BufferOf, ReadOf, Given
  <2>7. Read'
    BY DEF Read, OwnKernel, WholeKernel, Given
  <2> QED BY <2>4, <2>5, <2>6, <2>7
<1>4. CASE StartSearch /\ ~ \E why \in {"read", "open"} : Exit(why)
  <2>1. /\ pc = "search" /\ pc' = "handles" /\ opened' = opened \cup ImageProtocols
        /\ UNCHANGED <<memory, owned, key, firmware, machine, maps, file, next, content,
                       info, quiet, handover, message>>
    BY <1>4 DEF StartSearch, NothingAllocated
  <2> USE <2>1 DEF machine, maps, handover
  <2>2. Types'
    BY DEF Types, Labels, Reading
  <2>3. Placed' /\ Covered' /\ Current' /\ Attempts'
    BY <1>0 DEF Placed, Covered, Current, Attempts, Reading, Mapping, Leaving, Retrying, Given
  <2>4. Spare'
    BY DEF Spare, BufferOf, ReadOf, Given
  <2>5. Read'
    BY DEF Read, OwnKernel, WholeKernel, Given
  <2> QED BY <2>2, <2>3, <2>4, <2>5
<1> QED BY <1>1, <1>2, <1>3, <1>4


\* One handle of the search: the kernel is taken from the block KERNEL.INF
\* names, into as many pages as its blocks need.
LEMMA SearchStep ==
  ASSUME IInv, readDiskLbasFromCurrentGlobalImage
  PROVE  IInv'
<1> USE DEF IInv
<1> DEFINE h == Handles[next]
           n == DiskPages(h)
           bytes == AlignUp(file.bytes, h.blockSize)
<1>0. pc = "handles" /\ next <= Len(Handles) /\ ~exited /\ file = kernelFile
  BY DEF readDiskLbasFromCurrentGlobalImage, Current, Read
<1>1. CASE Exit("handle")
  BY <1>0, <1>1, GivingUp
<1>2. CASE ~Exit("handle")
  <2>1. PICK p \in Places(memory, n) :
          /\ memory' = Taken(memory, p .. p + n - 1, "loader") /\ key' = key + 1
          /\ \/ /\ SameMedia(h) /\ IsKernel(h)
                /\ content' = <<Block(h, file.lbaStart), bytes>>
                /\ owned' = [owned EXCEPT !["kernel"] = p .. p + n - 1]
                /\ pc' = "mapKernel"
                /\ opened' = opened \ ImageProtocols
                /\ UNCHANGED next
             \/ /\ owned' = [owned EXCEPT !["disk"] = @ \cup p .. p + n - 1]
                /\ next' = next + 1
                /\ UNCHANGED <<pc, content, opened>>
    BY <1>2 DEF readDiskLbasFromCurrentGlobalImage
  <2>2. UNCHANGED <<firmware, machine, maps, file, info, quiet, handover, message>>
    BY <1>2 DEF readDiskLbasFromCurrentGlobalImage
  <2>3. h \in [disk : Nat, media : Nat, offset : Nat, blockSize : Nat \ {0}] /\ Len(Handles) \in Nat
    <3>1. next \in 1 .. Len(Handles) /\ Len(Handles) \in Nat
      BY <1>0, DevicesAssumption DEF Types
    <3> DEFINE Device == [disk : Nat, media : Nat, offset : Nat, blockSize : Nat \ {0}]
    <3>2. Handles \in Seq(Device)
      BY DevicesAssumption
    <3> HIDE DEF Device
    <3>3. Handles[next] \in Device
      BY <3>1, <3>2
    <3> QED BY <3>1, <3>3 DEF Device
  <2>14. h \in Range(Handles)
    <3>1. next \in DOMAIN Handles
      BY <1>0, DevicesAssumption DEF Types
    <3> QED BY <3>1 DEF Range
  <2>4. /\ bytes \in Nat \ {0} /\ n \in Nat \ {0} /\ bytes <= n * UEFI_PAGE_SIZE
        /\ UEFI_PAGE_SIZE \in Nat \ {0} /\ file.bytes <= bytes
    <3>1. file.bytes \in Nat \ {0} /\ h.blockSize \in Nat \ {0} /\ UEFI_PAGE_SIZE \in Nat \ {0}
      BY <1>0, <2>3, KernelAssumption, SizesAssumption
    <3>2. bytes \in Nat \ {0} /\ file.bytes <= bytes
      BY <3>1, RoundsUp
    <3> HIDE DEF bytes, h
    <3>3. n = CeilingDiv(bytes, UEFI_PAGE_SIZE)
      BY DEF DiskPages, bytes
    <3> QED BY <3>1, <3>2, <3>3, RoundsUp
  <2> HIDE DEF n, bytes, h
  <2>5. memory \in [Pages -> Kinds] /\ owned \in [Purposes -> SUBSET Pages]
    BY DEF Types
  <2>6. /\ p \in Nat /\ p .. p + n - 1 \subseteq Pages /\ p \in p .. p + n - 1
        /\ memory' \in [Pages -> Kinds]
    <3>1. p \in Nat /\ p .. p + n - 1 \subseteq Pages
      BY <2>5, PlacesAreFree
    <3>2. p \in p .. p + n - 1
      BY <3>1, <2>4
    <3> QED BY <3>1, <3>2, <2>1, <2>5, TakenType DEF Kinds
  <2>7. owned' \in [Purposes -> SUBSET Pages] /\ next' \in 1 .. Len(Handles) + 1
    <3>1. owned' \in [Purposes -> SUBSET Pages]
      BY <2>1, <2>5, <2>6
    <3>2. next \in 1 .. Len(Handles) + 1 /\ (next' = next \/ next' = next + 1)
      BY <2>1 DEF Types
    <3> QED BY <3>1, <3>2, <1>0, <2>3
  <2> USE <2>2 DEF machine, maps, handover
  <2>8. Types'
    BY <2>1, <2>6, <2>7 DEF Types, Labels, Reading
  <2>9. Placed'
    <3>1. pc' = "mapKernel" => owned'["kernel"] # {}
      BY <1>0, <2>1, <2>5, <2>6 DEF Purposes
    <3> QED BY <1>0, <2>1, <3>1 DEF Placed, Reading, Mapping, Leaving, Retrying, Given
  <2>10. Covered' /\ Current' /\ Attempts'
    BY <1>0, <2>1 DEF Covered, Current, Attempts, Reading, Mapping, Leaving, Retrying, Given
  <2>11. Spare'
    BY <1>0, <2>1 DEF Spare, BufferOf, ReadOf, Given
  <2>12. OwnKernel' /\ WholeKernel'
    <3>1. CASE UNCHANGED content /\ owned'["kernel"] = owned["kernel"]
      BY <3>1 DEF Read, OwnKernel, WholeKernel
    <3>2. CASE /\ SameMedia(h) /\ IsKernel(h)
               /\ content' = <<Block(h, file.lbaStart), bytes>>
               /\ owned' = [owned EXCEPT !["kernel"] = p .. p + n - 1]
      <4>1. OwnKernel'
        <5>1. PICK b : b = Block(h, kernelFile.lbaStart)
          OBVIOUS
        <5>2. b \in Magic /\ h.media = OwnMedia /\ content'[1] = b
          BY <1>0, <3>2, <5>1 DEF SameMedia, IsKernel
        <5>3. b # OwnBlock => h \in Lookalikes
          BY <2>14, <5>1, <5>2, Zenon DEF Lookalikes
        <5> QED BY <5>1, <5>2, <5>3 DEF OwnKernel
      <4>2. owned'["kernel"] = p .. p + n - 1 /\ content'[2] = bytes
        BY <3>2, <2>5 DEF Purposes
      <4>3. Cardinality(p .. p + n - 1) = n
        <5>1. p \in Int /\ p + n - 1 \in Int /\ ~(p > p + n - 1) /\ (p + n - 1) - p + 1 = n
          BY <2>4, <2>6
        <5> QED BY <5>1, FS_Interval
      <4>4. n * UEFI_PAGE_SIZE >= bytes /\ bytes >= kernelFile.bytes
        BY <1>0, <2>4
      <4> QED BY <4>1, <4>2, <4>3, <4>4 DEF WholeKernel
    <3>3. owned' = [owned EXCEPT !["disk"] = @ \cup p .. p + n - 1]
             => owned'["kernel"] = owned["kernel"]
      BY <2>5 DEF Purposes
    <3> QED BY <3>1, <3>2, <3>3, <2>1
  <2>13. Read'
    BY <1>0, <2>1, <2>12 DEF Read, Given
  <2> QED BY <2>8, <2>9, <2>10, <2>11, <2>13
<1> QED BY <1>1, <1>2

\* NoKernel and the reset: nothing but the place and what is open changes.
LEMMA EndStep ==
  ASSUME IInv, NoKernel \/ waitKeyThenReset
  PROVE  IInv'
<1> USE DEF IInv
<1>1. /\ pc \in {"handles", "message"} /\ pc' \in {"message", "off"}
      /\ message' \in {message, "disk"}
      /\ UNCHANGED <<memory, owned, key, firmware, machine, maps, file, next, content,
                     info, quiet, handover>>
  BY DEF NoKernel, waitKeyThenReset, NothingAllocated, disk
<1> USE <1>1 DEF machine, maps, handover
<1>2. Types'
  BY DEF Types, Labels, Given
<1>3. Placed' /\ Covered' /\ Current' /\ Attempts'
  BY DEF Placed, Covered, Current, Attempts, Reading, Mapping, Leaving, Retrying, Given
<1>4. Spare'
  BY DEF Spare, BufferOf, ReadOf, Given
<1>5. Read'
  BY DEF Read, OwnKernel, WholeKernel, Given
<1> QED BY <1>2, <1>3, <1>4, <1>5

\* MapKernel and MapDescriptors: a table is allocated, and what is mapped is
\* the kernel's pages, then every page of the memory and the frame buffer.
LEMMA MapStep ==
  ASSUME IInv, MapKernel \/ MapDescriptors
  PROVE  IInv'
<1> USE DEF IInv
<1>0. ~exited /\ pc \in {"mapKernel", "mapDescriptors"}
  BY DEF MapKernel, MapDescriptors, Current
<1>1. CASE \E why \in {"gop", "allocate"} : Exit(why)
  BY <1>0, <1>1, GivingUp
<1>2. CASE ~ \E why \in {"gop", "allocate"} : Exit(why)
  <2> DEFINE all == UNION {d.pages : d \in info.map}
  <2>1. /\ Allocate(1, "tables")
        /\ UNCHANGED <<firmware, machine, disk, info, quiet, handover, message>>
        /\ \/ /\ pc = "mapKernel" /\ pc' = "mapSize"
              /\ space' = [space EXCEPT !["kernel"] = owned["kernel"]]
              /\ UNCHANGED identity
           \/ /\ pc = "mapDescriptors" /\ pc' = "params"
              /\ identity' = all \cup FrameBuffer
              /\ UNCHANGED space
    BY <1>2 DEF MapKernel, MapDescriptors
  <2>0. pc = "mapDescriptors" => all = Pages
    BY Zenon DEF Covered
  <2> HIDE DEF all
  <2>2. /\ memory' \in [Pages -> Kinds] /\ key' = key + 1
        /\ owned' \in [Purposes -> SUBSET Pages]
        /\ \A q \in Purposes : q # "tables" => owned'[q] = owned[q]
    BY <2>1, Allocates DEF Purposes
  <2>3. /\ space \in [Regions -> SUBSET Pages] /\ owned["kernel"] \subseteq Pages
        /\ owned'["kernel"] = owned["kernel"]
    BY <2>2 DEF Types, Purposes
  <2> USE <2>1 DEF machine, disk, handover
  <2>4. pc = "mapDescriptors" => identity' = Pages \cup FrameBuffer
    BY <2>0
  <2>5. space' \in [Regions -> SUBSET Pages] /\ identity' \subseteq Pages \cup FrameBuffer
    BY <2>3, <2>4 DEF Types
  <2>6. Types'
    BY <2>2, <2>5 DEF Types, Labels, Mapping
  <2>7. Placed'
    BY <2>3 DEF Placed, Reading, Mapping, Leaving, Retrying, Given, Regions
  <2>8. Covered' /\ Current' /\ Attempts'
    BY <1>0, <2>4 DEF Covered, Current, Attempts, Reading, Mapping, Leaving, Retrying, Given
  <2>9. Spare'
    BY DEF Spare, BufferOf, ReadOf, Given
  <2>10. Read'
    BY <2>3 DEF Read, OwnKernel, WholeKernel, Given
  <2> QED BY <2>6, <2>7, <2>8, <2>9, <2>10
<1> QED BY <1>1, <1>2


\* The kernel's parameters and its stack: allocated and mapped in one step.
LEMMA RegionStep ==
  ASSUME IInv, AllocateParams \/ AllocateStack
  PROVE  IInv'
<1> USE DEF IInv
<1>0. ~exited /\ pc \in {"params", "stack"}
  BY DEF AllocateParams, AllocateStack, AllocateRegion, Current
<1>1. CASE \E why \in {"allocate"} : Exit(why)
  BY <1>0, <1>1, GivingUp
<1>2. CASE ~ \E why \in {"allocate"} : Exit(why)
  <2> DEFINE n == IF pc = "params" THEN 1 ELSE STACK_PAGES
             purpose == IF pc = "params" THEN "params" ELSE "stack"
  <2>1. /\ Allocate(n, purpose) /\ pc' = IF pc = "params" THEN "stack" ELSE "rsdp"
        /\ space' = [space EXCEPT ![purpose] = owned'[purpose]]
        /\ UNCHANGED <<firmware, machine, identity, disk, info, quiet, handover, message>>
    BY <1>0, <1>2 DEF AllocateParams, AllocateStack, AllocateRegion
  <2>2. n \in Nat \ {0} /\ purpose \in Purposes /\ purpose = pc
    BY <1>0, SizesAssumption DEF Purposes
  <2> HIDE DEF n, purpose
  <2>3. /\ memory' \in [Pages -> Kinds] /\ key' = key + 1
        /\ owned' \in [Purposes -> SUBSET Pages]
        /\ owned'[pc] # {}
        /\ \A q \in Purposes : q # pc => owned'[q] = owned[q]
    BY <2>1, <2>2, Allocates
  <2>4. /\ space \in [Regions -> SUBSET Pages] /\ pc \in Regions
        /\ space' \in [Regions -> SUBSET Pages]
        /\ \A r \in Regions : space'[r] = IF r = pc THEN owned'[r] ELSE space[r]
    BY <1>0, <2>1, <2>2, <2>3 DEF Types, Regions, Purposes
  <2>5. owned'["kernel"] = owned["kernel"] /\ (pc = "stack" => owned'["params"] = owned["params"])
    BY <1>0, <2>3 DEF Purposes
  <2> USE <2>1 DEF machine, disk, handover
  <2>6. Types'
    BY <2>3, <2>4 DEF Types, Labels, Leaving
  <2>7. Placed'
    <3>1. "kernel" \in Regions /\ "params" \in Regions /\ "stack" \in Regions
      BY DEF Regions
    <3>2. space'["kernel"] = owned'["kernel"] /\ owned'["kernel"] # {}
      BY <1>0, <2>4, <2>5, <3>1 DEF Placed, Reading, Given
    <3>3. space'["params"] = owned'["params"] /\ owned'["params"] # {}
      BY <1>0, <2>3, <2>4, <2>5, <3>1 DEF Placed
    <3>4. pc' = "rsdp" => space'["stack"] = owned'["stack"] /\ owned'["stack"] # {}
      BY <1>0, <2>3, <2>4, <3>1
    <3> QED BY <1>0, <3>2, <3>3, <3>4 DEF Placed, Leaving, Retrying
  <2>8. Covered' /\ Current' /\ Attempts'
    BY <1>0 DEF Covered, Current, Attempts, Leaving, Retrying
  <2>9. Spare'
    BY <1>0 DEF Spare, BufferOf, ReadOf, Given
  <2>10. Read'
    BY <1>0, <2>5 DEF Read, OwnKernel, WholeKernel, Given
  <2> QED BY <2>6, <2>7, <2>8, <2>9, <2>10
<1> QED BY <1>1, <1>2

\* FindRSDP looks and changes nothing else.
LEMMA RsdpStep ==
  ASSUME IInv, FindRSDP
  PROVE  IInv'
<1> USE DEF IInv
<1>1. /\ pc = "rsdp" /\ table' \in Tables
      /\ \/ pc' = "message" /\ message' = "rsdp"
         \/ pc' = "exitSize" /\ UNCHANGED message
      /\ UNCHANGED <<memory, owned, key, firmware, enabled, cpu, maps, disk, info,
                     quiet, handover>>
  BY DEF FindRSDP, NothingAllocated
<1> USE <1>1 DEF maps, disk, handover
<1>2. Types'
  BY DEF Types, Labels, Leaving, Given
<1>3. Placed' /\ Covered' /\ Current' /\ Attempts'
  BY DEF Placed, Covered, Current, Attempts, Reading, Mapping, Leaving, Retrying, Given
<1>4. Spare'
  BY DEF Spare, BufferOf, ReadOf, Given
<1>5. Read'
  BY DEF Read, OwnKernel, WholeKernel, Given
<1> QED BY <1>2, <1>3, <1>4, <1>5

\* Where the three calls of getMemoryInfo are.
Sizing == {"mapSize", "exitSize", "retrySize"}
Buffering == {"mapBuffer", "exitBuffer", "retryBuffer"}
Fetching == {"mapRead", "exitRead", "retryRead"}

LEMMA CallsOfGetMemoryInfo ==
  /\ DOMAIN SizeOf = Sizing /\ DOMAIN BufferOf = Buffering /\ DOMAIN ReadOf = Fetching
  /\ SizeOf["mapSize"] = "mapBuffer" /\ SizeOf["exitSize"] = "exitBuffer"
  /\ SizeOf["retrySize"] = "retryBuffer"
  /\ BufferOf["mapBuffer"] = "mapRead" /\ BufferOf["exitBuffer"] = "exitRead"
  /\ BufferOf["retryBuffer"] = "retryRead"
  /\ ReadOf["mapRead"] = "mapDescriptors" /\ ReadOf["exitRead"] = "exit"
  /\ ReadOf["retryRead"] = "retry"
BY DEF SizeOf, BufferOf, ReadOf, Sizing, Buffering, Fetching

\* The size is asked for: two descriptors to spare.
LEMMA AskStep ==
  ASSUME IInv, AskSize
  PROVE  IInv'
<1> USE DEF IInv
<1>1. /\ \/ pc = "mapSize" /\ pc' = "mapBuffer"
         \/ pc = "exitSize" /\ pc' = "exitBuffer"
         \/ pc = "retrySize" /\ pc' = "retryBuffer"
      /\ info' = [NoInfo EXCEPT !.size = Cardinality(Descriptors(memory)) + SPARE]
      /\ quiet' = TRUE
      /\ UNCHANGED <<memory, owned, key, firmware, machine, maps, disk, handover, message>>
  BY CallsOfGetMemoryInfo DEF AskSize, NothingAllocated, Sizing
<1>2. Cardinality(Descriptors(memory)) \in Nat
  BY CountRuns DEF Types
<1>3. /\ info' \in [map : Maps, size : Nat, pages : SUBSET Pages, key : Nat]
      /\ info'.size = Cardinality(Descriptors(memory)) + SPARE
  <2> DEFINE c == Cardinality(Descriptors(memory))
  <2> HIDE DEF c
  <2>1. c + SPARE \in Nat /\ info' = [NoInfo EXCEPT !.size = c + SPARE]
    BY <1>1, <1>2 DEF SPARE, c
  <2>2. NoInfo \in [map : Maps, size : Nat, pages : SUBSET Pages, key : Nat]
    BY DEF NoInfo, Maps
  <2> QED BY <2>1, <2>2 DEF c
<1> USE <1>1 DEF machine, maps, disk, handover
<1>4. Types'
  BY <1>3 DEF Types, Labels, Leaving, Retrying, Mapping
<1>5. Placed' /\ Covered' /\ Current'
  BY DEF Placed, Covered, Current, Reading, Mapping, Leaving, Retrying, Given
<1>6. Attempts'
  BY DEF Attempts, Retrying
<1>7. Spare'
  <2>1. message' = "none"
    BY DEF Spare, Given
  <2>2. pc' \notin Fetching
    BY DEF Fetching
  <2> QED BY <1>3, <2>1, <2>2, CallsOfGetMemoryInfo DEF Spare
<1>8. Read'
  BY DEF Read, OwnKernel, WholeKernel, Given
<1> QED BY <1>4, <1>5, <1>6, <1>7, <1>8


\* The buffer is allocated: it is the loader's own allocation that the two
\* descriptors are for.
LEMMA BufferStep ==
  ASSUME IInv, AllocateBuffer
  PROVE  IInv'
<1> USE DEF IInv
<1> DEFINE n == CeilingDiv(info.size, DESCRIPTORS_PER_PAGE)
<1>0. ~exited /\ pc \in Buffering
  BY CallsOfGetMemoryInfo DEF AllocateBuffer, Current, Buffering
<1>1. CASE Exit("allocate")
  BY <1>0, <1>1, GivingUp
<1>2. CASE ~Exit("allocate")
  <2>1. PICK p \in Places(memory, n) :
          /\ memory' = Taken(memory, p .. p + n - 1, "loader") /\ key' = key + 1
          /\ owned' = [owned EXCEPT !["map"] = p .. p + n - 1]
          /\ info' = [info EXCEPT !.pages = p .. p + n - 1]
          /\ pc' = BufferOf[pc]
          /\ UNCHANGED <<firmware, machine, maps, disk, quiet, handover, message>>
    BY <1>2 DEF AllocateBuffer
  <2>2. n \in Nat
    BY RoundsUp, SizesAssumption DEF Types
  <2> HIDE DEF n
  <2>3. /\ memory \in [Pages -> Kinds] /\ owned \in [Purposes -> SUBSET Pages]
        /\ info \in [map : Maps, size : Nat, pages : SUBSET Pages, key : Nat]
    BY DEF Types
  <2>4. /\ p \in Pages /\ \A q \in p .. p + n - 1 : q \in Pages /\ memory[q] = "conventional"
        /\ p .. p + n - 1 \subseteq Pages
    BY <2>3, PlacesAreFree
  <2>5. /\ memory' \in [Pages -> Kinds] /\ "loader" \in Kinds
        /\ owned' \in [Purposes -> SUBSET Pages]
        /\ \A q \in Purposes : q # "map" => owned'[q] = owned[q]
        /\ info' \in [map : Maps, size : Nat, pages : SUBSET Pages, key : Nat]
        /\ info'.size = info.size
    <3>1. memory' \in [Pages -> Kinds] /\ "loader" \in Kinds
      BY <2>1, <2>3, TakenType DEF Kinds
    <3> QED BY <3>1, <2>1, <2>3, <2>4
  <2>6. \/ pc = "mapBuffer" /\ pc' = "mapRead"
        \/ pc = "exitBuffer" /\ pc' = "exitRead"
        \/ pc = "retryBuffer" /\ pc' = "retryRead"
    BY <1>0, <2>1, CallsOfGetMemoryInfo DEF Buffering
  <2>7. Cardinality(Descriptors(memory')) <= Cardinality(Descriptors(memory)) + 2
    BY <2>1, <2>2, <2>3, <2>4, <2>5, TwoMoreRuns
  <2>8. UNCHANGED <<firmware, machine, maps, disk, quiet, handover, message>>
    BY <2>1
  <2> USE <2>6, <2>8 DEF machine, maps, disk, handover
  <2>9. Types'
    BY <2>1, <2>5 DEF Types, Labels, Leaving, Retrying, Mapping
  <2>10. Placed'
    BY <2>5 DEF Placed, Reading, Mapping, Leaving, Retrying, Given, Purposes
  <2>11. Covered' /\ Current' /\ Attempts'
    BY <1>0 DEF Covered, Current, Attempts, Mapping, Leaving, Retrying
  <2>12. Spare'
    <3>1. pc' \notin Buffering /\ pc \in Buffering
      BY DEF Buffering
    <3>2. message' = "none"
      BY DEF Spare, Given
    <3>3. quiet => info.size = Cardinality(Descriptors(memory)) + 2
      BY <3>1, CallsOfGetMemoryInfo DEF Spare, SPARE
    <3>4. quiet' => Cardinality(Descriptors(memory')) <= info'.size
      BY <2>5, <2>7, <3>3
    <3> QED BY <3>1, <3>2, <3>4, CallsOfGetMemoryInfo DEF Spare
  <2>13. Read'
    BY <2>5 DEF Read, OwnKernel, WholeKernel, Given, Purposes
  <2> QED BY <2>9, <2>10, <2>11, <2>12, <2>13
<1> QED BY <1>1, <1>2

\* The map is read with its key, or the buffer is too small for it.
LEMMA ReadMapStep ==
  ASSUME IInv, ReadMap
  PROVE  IInv'
<1> USE DEF IInv
<1> DEFINE map == Descriptors(memory)
<1>0. ~exited /\ pc \in Fetching /\ message = "none"
  BY CallsOfGetMemoryInfo DEF ReadMap, Current, Spare, Given, Fetching
<1>1. UNCHANGED <<memory, owned, key, firmware, machine, maps, disk, quiet, handover>>
  BY DEF ReadMap, NothingAllocated
<1>2. /\ map \in Maps /\ Cardinality(map) \in Nat /\ UNION {d.pages : d \in map} = Pages
      /\ info \in [map : Maps, size : Nat, pages : SUBSET Pages, key : Nat] /\ key \in Nat
  BY DescriptorsType, CountRuns, DescriptorsCover DEF Types
<1> USE <1>1 DEF machine, maps, disk, handover
<1>3. CASE Cardinality(map) <= info.size
  <2>1. /\ info' = [info EXCEPT !.map = map, !.size = Cardinality(map), !.key = key]
        /\ pc' = ReadOf[pc] /\ UNCHANGED message
    BY <1>3 DEF ReadMap
  <2>2. \/ pc = "mapRead" /\ pc' = "mapDescriptors"
        \/ pc = "exitRead" /\ pc' = "exit"
        \/ pc = "retryRead" /\ pc' = "retry"
    BY <1>0, <2>1, CallsOfGetMemoryInfo DEF Fetching
  <2>3. /\ info' \in [map : Maps, size : Nat, pages : SUBSET Pages, key : Nat]
        /\ info'.map = map /\ info'.key = key
    <3> HIDE DEF map
    <3> QED BY <1>2, <2>1
  <2>4. UNION {d.pages : d \in info'.map} = Pages
    BY <1>2, <2>3
  <2>5. message' = "none"
    BY <1>0, <2>1
  <2> USE <2>2, <2>5
  <2>6. Types'
    BY <2>3 DEF Types, Labels, Leaving, Mapping
  <2>7. Placed'
    BY DEF Placed, Reading, Mapping, Leaving, Retrying, Given
  <2>8. Covered'
    BY <2>4 DEF Covered, Leaving, Retrying
  <2>9. Current'
    BY <1>0, <1>2, <2>3 DEF Current
  <2>10. Attempts'
    <3>1. info'.key = key' /\ key' - info'.key = 0 /\ MaxFirmware - firmware' \in Nat
      BY <1>2, <2>3, SizesAssumption DEF Types
    <3>2. pc = "retryRead" => MaxFirmware - firmware >= 1
      BY DEF Attempts, Retrying
    <3> QED BY <3>1, <3>2 DEF Attempts, Retrying
  <2>11. Spare'
    BY DEF Spare, BufferOf, ReadOf
  <2>12. Read'
    BY DEF Read, OwnKernel, WholeKernel, Given
  <2> QED BY <2>6, <2>7, <2>8, <2>9, <2>10, <2>11, <2>12
<1>4. CASE ~(Cardinality(map) <= info.size)
  <2>1. pc' = "message" /\ message' = "mapTooSmall" /\ info' = info
    BY <1>4 DEF ReadMap
  <2>2. ~quiet
    BY <1>0, <1>4, CallsOfGetMemoryInfo DEF Spare
  <2> USE <2>1
  <2>3. Types'
    BY DEF Types, Labels, Given
  <2>4. Placed' /\ Covered' /\ Current' /\ Attempts'
    BY <1>0 DEF Placed, Covered, Current, Attempts, Reading, Mapping, Leaving, Retrying, Given
  <2>5. Spare'
    BY <2>2 DEF Spare, BufferOf, ReadOf, Given
  <2>6. Read'
    BY DEF Read, OwnKernel, WholeKernel, Given
  <2> QED BY <2>3, <2>4, <2>5, <2>6
<1> QED BY <1>3, <1>4

\* The two attempts: accepted with the current key, the first one refused
\* after an allocation of the firmware, the second one after another.
LEMMA LeaveStep ==
  ASSUME IInv, exit_boot_services \/ Retry
  PROVE  IInv'
<1> USE DEF IInv
<1>0. ~exited /\ pc \in {"exit", "retry"} /\ message = "none"
  BY DEF exit_boot_services, Retry, Current, Spare, Given
<1>1. key \in Nat /\ info.key \in Nat /\ firmware \in Nat /\ MaxFirmware \in Nat
  BY SizesAssumption DEF Types
<1>2. info.key <= key /\ (info.key = key => info.map = Descriptors(memory))
  BY <1>0 DEF Current
<1>3. CASE Accepted
  <2>1. /\ exited' = TRUE /\ pc' = "kernel" /\ params' = info.map
        /\ UNCHANGED <<memory, owned, key, firmware, machine, maps, disk, info, quiet, message>>
    BY <1>3 DEF exit_boot_services, Retry, Jump, NothingAllocated
  <2> USE <2>1 DEF machine, maps, disk
  <2>2. Types'
    BY DEF Types, Labels, Leaving
  <2>3. Placed' /\ Covered' /\ Attempts'
    BY <1>0 DEF Placed, Covered, Attempts, Reading, Mapping, Leaving, Retrying, Given
  <2>4. Current'
    BY <1>2, <1>3 DEF Current, Accepted
  <2>5. Spare'
    BY <1>0 DEF Spare, BufferOf, ReadOf
  <2>6. Read'
    BY <1>0 DEF Read, OwnKernel, WholeKernel, Given
  <2> QED BY <2>2, <2>3, <2>4, <2>5, <2>6
<1>6. CASE Exit("free")
  BY <1>0, <1>6, GivingUp
<1>4. CASE ~Accepted /\ pc = "exit" /\ ~Exit("free")
  <2> DEFINE first == Min(info.pages)
             pages == first .. first + CeilingDiv(info.size, DESCRIPTORS_PER_PAGE) - 1
  <2>1. /\ memory' = Taken(memory, pages, "conventional")
        /\ owned' = [owned EXCEPT !["map"] = {}]
        /\ key' = key + 1 /\ pc' = "retrySize"
        /\ UNCHANGED <<firmware, machine, maps, disk, info, quiet, handover, message>>
    BY <1>4 DEF exit_boot_services, Retry, FreeMap
  <2> HIDE DEF pages, first
  <2>2. memory' \in [Pages -> Kinds]
    BY <2>1, TakenType DEF Types, Kinds
  <2>3. /\ owned' \in [Purposes -> SUBSET Pages]
        /\ \A q \in Purposes : q # "map" => owned'[q] = owned[q]
    BY <2>1 DEF Types
  <2>4. MaxFirmware - firmware >= 1
    <3>1. key - info.key >= 1 /\ key - info.key <= MaxFirmware - firmware
      BY <1>1, <1>2, <1>4 DEF Accepted, Attempts
    <3> QED BY <1>1, <3>1
  <2> USE <2>1 DEF machine, maps, disk, handover
  <2>5. Types'
    BY <2>2, <2>3 DEF Types, Labels, Leaving, Retrying
  <2>6. Placed'
    BY <1>4, <2>3 DEF Placed, Reading, Mapping, Leaving, Retrying, Given, Purposes
  <2>7. Covered' /\ Current' /\ Attempts'
    BY <1>0, <1>4, <2>4 DEF Covered, Current, Attempts, Leaving, Retrying
  <2>8. Spare'
    BY <1>0 DEF Spare, BufferOf, ReadOf
  <2>9. Read'
    BY <1>4, <2>3 DEF Read, OwnKernel, WholeKernel, Given, Purposes
  <2> QED BY <2>5, <2>6, <2>7, <2>8, <2>9
<1>5. CASE ~Accepted /\ pc = "retry"
  <2>1. Exit("exitBootServices")
    BY <1>5 DEF exit_boot_services, Retry
  <2>2. key - info.key >= 1 /\ key - info.key + 1 <= MaxFirmware - firmware
    BY <1>1, <1>2, <1>5 DEF Accepted, Attempts
  <2>3. MaxFirmware - firmware >= 2
    BY <1>1, <2>2
  <2> QED BY <1>0, <2>1, <2>3, GivingUp
<1> QED BY <1>0, <1>3, <1>4, <1>5, <1>6

LEMMA Step == IInv /\ [Next]_vars => IInv'
<1> SUFFICES ASSUME IInv, [Next]_vars PROVE IInv'
  OBVIOUS
<1>1. CASE FirmwareAllocates
  BY <1>1, FirmwareStep
<1>2. CASE Loader
  BY <1>2, SetUpStep, FeaturesStep, InfoStep, SearchStep, EndStep, MapStep, RegionStep,
     RsdpStep, AskStep, BufferStep, ReadMapStep, LeaveStep DEF Loader
<1>3. CASE UNCHANGED vars
  <2> USE <1>3 DEF vars, IInv
  <2>1. Types'
    BY DEF Types
  <2>2. Placed' /\ Covered' /\ Current' /\ Attempts'
    BY DEF Placed, Covered, Current, Attempts
  <2>3. Spare'
    BY DEF Spare
  <2>4. Read'
    BY DEF Read, OwnKernel, WholeKernel
  <2> QED BY <2>1, <2>2, <2>3, <2>4
<1> QED BY <1>1, <1>2, <1>3 DEF Next

\* Where efi_main is determines what is mapped, open and known, whatever the
\* firmware does in between.
THEOREM Invariant == Spec => []IInv
BY Start, Step, PTL DEF Spec

\* getRSDP: the tables have revisions 1 and 2 and may come in any order.
LEMMA NewestOf ==
  ASSUME NEW t \in Tables \cup {<< >>}
  PROVE  LET valid == {i \in DOMAIN t : t[i].checksum = 0}
             rsdp == getRSDP(t)
         IN IF valid = {} THEN rsdp = 0
            ELSE rsdp \in valid /\ \A i \in valid : t[rsdp].revision >= t[i].revision
<1> DEFINE Table == [revision : {1, 2}, checksum : Nat]
           valid == {i \in DOMAIN t : t[i].checksum = 0}
           ends == {i \in valid : t[i].revision = 2}
           rsdp == getRSDP(t)
<1>1. t \in Seq(Table)
  <2>1. Tables \subseteq Seq(Table)
    BY DevicesAssumption
  <2> HIDE DEF Table
  <2>2. << >> \in Seq(Table)
    OBVIOUS
  <2> QED BY <2>1, <2>2
<1>2. Len(t) \in Nat /\ DOMAIN t = 1 .. Len(t)
  <2> HIDE DEF Table
  <2> QED BY <1>1
<1>3. \A i \in DOMAIN t : t[i].revision \in {1, 2}
  <2>1. \A i \in DOMAIN t : t[i] \in Table
    <3> HIDE DEF Table
    <3> QED BY <1>1
  <2> QED BY <2>1
<1>4. valid \in SUBSET (1 .. Len(t))
  BY <1>2
<1>5. rsdp = IF ends # {} THEN Min(ends) ELSE Max(valid \cup {0})
  BY DEF getRSDP
<1>6. CASE ends # {}
  <2>1. ends \in SUBSET Nat
    BY <1>4
  <2>2. rsdp \in ends
    BY <1>5, <1>6, <2>1, MinIs
  <2>3. rsdp \in valid /\ t[rsdp].revision = 2
    BY <2>2
  <2>4. \A i \in valid : 2 >= t[i].revision
    BY <1>3
  <2> QED BY <2>3, <2>4
<1>7. CASE ends = {}
  <2>1. Max(valid \cup {0}) \in valid \cup {0} /\ \A y \in valid \cup {0} : y <= Max(valid \cup {0})
    <3>1. valid \cup {0} \in SUBSET (0 .. Len(t))
      BY <1>2, <1>4
    <3> HIDE DEF valid
    <3> QED BY <3>1, <1>2, MaxIs
  <2>2. rsdp \in valid \cup {0} /\ \A y \in valid : y <= rsdp
    BY <1>5, <1>7, <2>1
  <2>3. valid # {} => rsdp \in valid
    <3> SUFFICES ASSUME NEW y \in valid PROVE rsdp \in valid
      OBVIOUS
    <3>1. y \in 1 .. Len(t) /\ y <= rsdp
      BY <1>4, <2>2
    <3>2. rsdp # 0
      BY <3>1, <1>2
    <3> QED BY <2>2, <3>2
  <2>4. \A i \in valid : t[i].revision = 1
    BY <1>3, <1>7
  <2>5. valid = {} => rsdp = 0
    BY <2>2
  <2> HIDE DEF valid, rsdp, ends
  <2>6. valid # {} => rsdp \in valid /\ \A i \in valid : t[rsdp].revision >= t[i].revision
    BY <2>3, <2>4
  <2> QED BY <2>5, <2>6 DEF valid, rsdp
<1> QED BY <1>6, <1>7

\* Past the checks every feature is there and enabled, and past the search there is
\* an RSDP, until the loader gives up.
Prepared ==
  /\ pc \notin {"root", "features"} \cup Given => Required \subseteq cpu /\ enabled = Enabled
  /\ pc \in (Leaving \cup Retrying) \ {"rsdp"} => getRSDP(table) # 0

\* The checks pass when no feature is missing.
LEMMA ChecksPrepare ==
  ASSUME Prepared, CheckFeatures
  PROVE  Prepared'
<1> DEFINE missing == {i \in DOMAIN Checks : Checks[i] \notin cpu}
           passed == IF missing = {} THEN DOMAIN Checks ELSE 1 .. Min(missing) - 1
<1>1. CASE missing # {}
  <2>1. pc' = "message"
    BY <1>1 DEF CheckFeatures
  <2> QED BY <2>1 DEF Prepared, Given, Leaving, Retrying
<1>2. CASE missing = {}
  <2>1. pc' = "gdt" /\ UNCHANGED <<cpu, table>> /\ enabled' = Enabled \cap {Checks[i] : i \in DOMAIN Checks}
    BY <1>2 DEF CheckFeatures
  <2>2. DOMAIN Checks = 1 .. 6 /\ Range(Checks) = {Checks[i] : i \in DOMAIN Checks}
    BY DEF Checks, Range
  <2>3. Enabled \subseteq {Checks[i] : i \in DOMAIN Checks}
    <3>1. Checks[4] = "PGE" /\ Checks[5] = "FPU" /\ Checks[6] = "SSE"
      BY DEF Checks
    <3> QED BY <2>2, <3>1 DEF Enabled
  <2>4. Required \subseteq cpu
    BY <1>2, <2>2 DEF Required
  <2>5. enabled' = Enabled
    BY <2>1, <2>3
  <2> QED BY <2>1, <2>4, <2>5 DEF Prepared, Leaving, Retrying
<1> QED BY <1>1, <1>2

LEMMA StaysPrepared == Types /\ Prepared /\ [Next]_vars => Prepared'
<1> SUFFICES ASSUME Types, Prepared, [Next]_vars PROVE Prepared'
  OBVIOUS
<1> USE DEF Prepared, Leaving, Retrying, Given
<1>1. ASSUME UNCHANGED <<cpu, enabled, table>>, pc' = pc \/ pc' \in {"message", "off"}
      PROVE  Prepared'
  BY <1>1
<1>2. ASSUME NEW why, Exit(why)
      PROVE  Prepared'
  BY <1>1, <1>2 DEF Exit, machine
<1>3. CASE CheckFeatures
  BY <1>3, ChecksPrepare
<1>4. CASE FindRSDP
  <2>1. pc = "rsdp" /\ UNCHANGED <<enabled, cpu>>
        /\ (pc' = "message" \/ (pc' = "exitSize" /\ getRSDP(table') # 0))
    BY <1>4 DEF FindRSDP
  <2> QED BY <2>1
<1>5. CASE initArchitecture \/ bootstrapProcessorWork \/ OpenInfo \/ getKernelInfo \/ StartSearch
  <2>1. CASE \E why : Exit(why)
    BY <1>2, <2>1
  <2>2. CASE ~\E why : Exit(why)
    <3>1. /\ UNCHANGED <<cpu, enabled, table>>
          /\ \/ pc = "root" /\ pc' = "features"
             \/ pc = "gdt" /\ pc' = "openInfo"
             \/ pc = "openInfo" /\ pc' \in {"readInfo", "message"}
             \/ pc = "readInfo" /\ pc' = "search"
             \/ pc = "search" /\ pc' = "handles"
      BY <1>5, <2>2 DEF initArchitecture, bootstrapProcessorWork, OpenInfo, getKernelInfo,
                        StartSearch, machine
    <3> QED BY <3>1
  <2> QED BY <2>1, <2>2
<1>6. CASE readDiskLbasFromCurrentGlobalImage \/ NoKernel \/ waitKeyThenReset
           \/ FirmwareAllocates \/ UNCHANGED vars
  <2>1. CASE \E why : Exit(why)
    BY <1>2, <2>1
  <2>2. CASE ~\E why : Exit(why)
    <3>1. /\ UNCHANGED <<cpu, enabled, table>>
          /\ pc' = pc \/ pc' \in {"message", "off"} \/ (pc = "handles" /\ pc' = "mapKernel")
      BY <1>6, <2>2 DEF readDiskLbasFromCurrentGlobalImage, NoKernel, waitKeyThenReset,
                        FirmwareAllocates, vars, machine
    <3> QED BY <3>1
  <2> QED BY <2>1, <2>2
<1>7. CASE MapKernel \/ MapDescriptors \/ AllocateParams \/ AllocateStack
  <2>1. CASE \E why : Exit(why)
    BY <1>2, <2>1
  <2>2. CASE ~\E why : Exit(why)
    <3>1. /\ UNCHANGED <<cpu, enabled, table>>
          /\ \/ pc = "mapKernel" /\ pc' = "mapSize"
             \/ pc = "mapDescriptors" /\ pc' = "params"
             \/ pc = "params" /\ pc' = "stack"
             \/ pc = "stack" /\ pc' = "rsdp"
      BY <1>7, <2>2 DEF MapKernel, MapDescriptors, AllocateParams, AllocateStack,
                        AllocateRegion, machine
    <3> QED BY <3>1
  <2> QED BY <2>1, <2>2
<1>8. CASE AskSize \/ AllocateBuffer \/ ReadMap
  <2>1. CASE \E why : Exit(why)
    BY <1>2, <2>1
  <2>2. CASE ~\E why : Exit(why)
    <3>1. /\ UNCHANGED <<cpu, enabled, table>>
          /\ \/ pc \in DOMAIN SizeOf /\ pc' = SizeOf[pc]
             \/ pc \in DOMAIN BufferOf /\ pc' = BufferOf[pc]
             \/ pc \in DOMAIN ReadOf /\ pc' \in {ReadOf[pc], "message"}
      BY <1>8, <2>2 DEF AskSize, AllocateBuffer, ReadMap, machine
    <3> QED BY <3>1 DEF SizeOf, BufferOf, ReadOf
  <2> QED BY <2>1, <2>2
<1>9. CASE exit_boot_services \/ Retry
  <2>1. CASE \E why : Exit(why)
    BY <1>2, <2>1
  <2>2. CASE ~\E why : Exit(why)
    <3>1. /\ UNCHANGED <<cpu, enabled, table>>
          /\ pc \in {"exit", "retry"} /\ pc' \in {"kernel", "retrySize"}
      BY <1>9, <2>2 DEF exit_boot_services, Retry, Jump, FreeMap, machine
    <3> QED BY <3>1
  <2> QED BY <2>1, <2>2
<1> HIDE DEF Prepared
<1> QED BY <1>3, <1>4, <1>5, <1>6, <1>7, <1>8, <1>9 DEF Next, Loader

LEMMA AlwaysPrepared == Spec => []Prepared
<1>1. Init => Prepared
  BY DEF Init, Prepared, Given, Leaving, Retrying
<1>2. IInv => Types
  BY DEF IInv
<1> QED BY <1>1, <1>2, Invariant, StaysPrepared, PTL DEF Spec

LEMMA HandOverFollows == IInv /\ Prepared => HandOver
<1> SUFFICES ASSUME IInv, Prepared PROVE HandOver
  OBVIOUS
<1> USE DEF IInv
<1>1. TypeOK
  <2>1. DOMAIN owned = Purposes /\ \A p \in Purposes : owned[p] \subseteq DOMAIN Memory
    BY DEF Types, Pages
  <2>2. UNION {owned[p] : p \in Purposes} \subseteq DOMAIN Memory
    BY <2>1
  <2>3. /\ memory \in [DOMAIN Memory -> Kinds] /\ key \in Nat /\ firmware \in 0 .. MaxFirmware
        /\ identity \subseteq DOMAIN Memory \cup FrameBuffer /\ next \in 1 .. Len(Handles) + 1
    BY DEF Types, Pages
  <2>4. exited \in BOOLEAN /\ quiet \in BOOLEAN /\ enabled \subseteq cpu
    BY DEF Types
  <2> QED BY <2>1, <2>2, <2>3, <2>4, Zenon DEF TypeOK
<1>2. MapIsCurrent
  BY DEF Current, MapIsCurrent
<1>3. EverythingMapped
  <2> SUFFICES ASSUME pc = "kernel"
               PROVE  /\ Needed \cup FrameBuffer \subseteq identity
                      /\ \A r \in DOMAIN space : space[r] # {} /\ space[r] = owned[r]
    BY DEF EverythingMapped
  <2>1. Needed \subseteq Pages
    BY DEF Types, Needed, Purposes
  <2>2. identity = Pages \cup FrameBuffer
    BY DEF Covered, Leaving
  <2>3. DOMAIN space = Regions
    BY DEF Types
  <2>4. \A r \in Regions : space[r] # {} /\ space[r] = owned[r]
    BY DEF Placed, Leaving, Reading, Given, Regions, Retrying
  <2> QED BY <2>1, <2>2, <2>3, <2>4
<1>4. NewestRSDP
  <2> SUFFICES ASSUME pc = "kernel" PROVE NewestRSDP
    BY DEF NewestRSDP
  <2>1. table \in Tables \cup {<< >>}
    BY DEF Types
  <2>2. getRSDP(table) # 0
    BY DEF Prepared, Leaving, Retrying
  <2> QED BY <2>1, <2>2, NewestOf, Zenon DEF NewestRSDP
<1>5. FeaturesPresent
  BY DEF Prepared, FeaturesPresent, Given
<1> QED BY <1>1, <1>2, <1>3, <1>4, <1>5 DEF HandOver

\* What the kernel finds is right, for every memory map and whatever the
\* firmware allocates between the loader's steps: the map it is given is the
\* firmware's, every page the processor needs is in the tables it runs on,
\* its own regions are where it looks for them, the processor has every
\* feature checkFeatures asks for, and there is an RSDP, none newer than it.
THEOREM KernelFindsItsWorld == Spec => []HandOver
BY Invariant, AlwaysPrepared, HandOverFollows, PTL

LEMMA KernelReadFollows == IInv => KernelRead
<1> SUFFICES ASSUME IInv PROVE KernelRead
  OBVIOUS
<1>1. OwnKernel /\ WholeKernel
  BY DEF IInv, Read
<1>2. OpenedIsClosed
  BY DEF IInv, Read, OpenedIsClosed, Given
<1> QED BY <1>1, <1>2 DEF KernelRead

\* For every list of block devices, whatever MediaIds they show, every block size
\* and kernel: what readDiskLbasFromCurrentGlobalImage returns begins like a kernel,
\* was read whole, and is our own disk's, unless a device with the same MediaId has
\* a kernel at the same number; and what was opened on the way is closed.
THEOREM OwnKernelRead == Spec => []KernelRead
BY Invariant, KernelReadFollows, PTL

LEMMA BusyFollows == IInv => StopsOnlyWhenBusy
<1> SUFFICES ASSUME IInv PROVE StopsOnlyWhenBusy
  OBVIOUS
<1>1. SpareSuffices
  BY DEF IInv, Spare, SpareSuffices
<1>2. RetrySuffices
  BY DEF IInv, Attempts, RetrySuffices
<1> QED BY <1>1, <1>2 DEF StopsOnlyWhenBusy

\* Two descriptors to spare and one more attempt are enough against anything
\* but the firmware itself: however the memory is cut up, the loader's own
\* allocation of the buffer never makes the map too large for it, and it takes
\* two allocations of the firmware to have both attempts refused.
THEOREM GivesUpOnlyWhenBusy == Spec => []StopsOnlyWhenBusy
BY Invariant, BusyFollows, PTL


=============================================================================
