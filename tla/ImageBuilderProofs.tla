------------------------- MODULE ImageBuilderProofs -------------------------
(***************************************************************************)
(* The image builder, for every size of block, alignment and file: what a  *)
(* failure leaves on disk, that the layout fits, and that nothing written  *)
(* later reaches the two copies of the partition table.                    *)
(***************************************************************************)
EXTENDS ImageBuilder, TLAPS

\* Euclid's division, as % and \div round.
LEMMA DivisionFacts ==
  ASSUME NEW x \in Nat, NEW a \in Nat \ {0}
  PROVE  /\ x % a \in 0 .. a - 1 /\ x \div a \in Nat
         /\ x = a * (x \div a) + (x % a)
<1>1. x % a \in 0 .. a - 1 /\ x \div a \in Int /\ x = a * (x \div a) + (x % a)
  BY SMT
<1>2. x \div a >= 0
  BY SMT
<1> QED BY <1>1, <1>2

\* A product grows with its factor.
LEMMA ProductsGrow ==
  ASSUME NEW a \in Nat, NEW k \in Nat, NEW m \in Nat, k <= m
  PROVE  a * k \in Nat /\ a * m \in Nat /\ a * k <= a * m
<1>1. PICK d \in Nat : m = k + d
  BY m - k \in Nat, m = k + (m - k)
<1>2. a * m = a * k + a * d /\ a * k \in Nat /\ a * d \in Nat
  BY <1>1, SMT
<1> QED BY <1>1, <1>2

LEMMA MultipleHasNoRemainder ==
  ASSUME NEW a \in Nat \ {0}, NEW k \in Nat
  PROVE  (a * k) % a = 0
<1> DEFINE x == a * k
           q == x \div a
           r == x % a
<1>0. x \in Nat
  BY SMT
<1>1. q \in Nat /\ r \in 0 .. a - 1 /\ x = a * q + r
  BY <1>0, DivisionFacts
<1>2. q <= k
  <2> SUFFICES ASSUME k + 1 <= q PROVE FALSE
    BY <1>1
  <2>1. a * (k + 1) <= a * q /\ a * (k + 1) \in Nat /\ a * q \in Nat
    BY <1>1, ProductsGrow
  <2>2. a * (k + 1) = x + a
    BY SMT
  <2> HIDE DEF x, q, r
  <2> QED BY <1>0, <1>1, <2>1, <2>2
<1>3. k <= q
  <2> SUFFICES ASSUME q + 1 <= k PROVE FALSE
    BY <1>1
  <2>1. a * (q + 1) <= a * k /\ a * (q + 1) \in Nat
    BY <1>1, ProductsGrow
  <2>2. a * (q + 1) = a * q + a /\ a * q \in Nat
    BY <1>1, SMT
  <2>3. a * q + a <= x
    BY <2>1, <2>2
  <2> HIDE DEF x, q, r
  <2> QED BY <1>0, <1>1, <2>2, <2>3
<1>4. q = k
  BY <1>1, <1>2, <1>3
<1>5. x = x + r
  BY <1>1, <1>4
<1> HIDE DEF x, q
<1>6. r = 0
  BY <1>0, <1>1, <1>5
<1> QED BY <1>6 DEF x, r

\* Rounding up goes up, to a multiple.
LEMMA RoundsUp ==
  ASSUME NEW val \in Nat, NEW align \in Nat \ {0}
  PROVE  \E k \in Nat : /\ ALIGN_UP_VALUE(val, align) = align * k
                        /\ align * k \in Nat /\ val <= align * k
                        /\ (align * k) % align = 0
<1> DEFINE x == val + align - 1
           k == x \div align
<1>0. x \in Nat
  OBVIOUS
<1>1. k \in Nat /\ x % align \in 0 .. align - 1 /\ x = align * k + (x % align)
  BY <1>0, DivisionFacts
<1>2. ALIGN_UP_VALUE(val, align) = align * k
  <2>1. ALIGN_UP_VALUE(val, align) = k * align
    BY DEF ALIGN_UP_VALUE
  <2>2. k * align = align * k
    BY <1>1, SMT
  <2> QED BY <2>1, <2>2
<1>3. align * k \in Nat
  BY <1>1, ProductsGrow
<1>4. (align * k) % align = 0
  BY <1>1, MultipleHasNoRemainder
<1>5. val <= align * k
  <2> DEFINE r == x % align
             y == align * k
  <2>1. x = val + align - 1
    OBVIOUS
  <2> HIDE DEF x, k, r, y
  <2>2. r \in 0 .. align - 1 /\ x = y + r
    BY <1>1 DEF r, y
  <2>3. y \in Nat
    BY <1>3 DEF y
  <2>4. val <= y
    BY <2>1, <2>2, <2>3
  <2> QED BY <2>4 DEF y
<1> HIDE DEF k
<1> QED BY <1>1, <1>2, <1>3, <1>4, <1>5

\* As many blocks as CEILING_DIV_VALUE counts are enough for the bytes.
LEMMA EnoughBlocks ==
  ASSUME NEW bytes \in Nat, NEW lba \in Nat \ {0}
  PROVE  /\ CEILING_DIV_VALUE(bytes, lba) \in Nat
         /\ \A k \in Nat : k * lba < bytes => k < CEILING_DIV_VALUE(bytes, lba)
<1> DEFINE x == bytes + lba - 1
           q == x \div lba
<1>0. x \in Nat /\ CEILING_DIV_VALUE(bytes, lba) = q
  BY DEF CEILING_DIV_VALUE
<1>1. q \in Nat /\ x % lba \in 0 .. lba - 1 /\ x = lba * q + (x % lba)
  BY <1>0, DivisionFacts
<1>2. ASSUME NEW k \in Nat, k * lba < bytes
      PROVE  k < q
  <2> SUFFICES ASSUME q <= k PROVE FALSE
    BY <1>1
  <2> DEFINE y == lba * q
             z == lba * k
             r == x % lba
  <2>1. y \in Nat /\ z \in Nat /\ y <= z
    BY <1>1, ProductsGrow
  <2>2. z < bytes
    <3>1. k * lba = lba * k
      BY SMT
    <3> QED BY <1>2, <3>1
  <2>3. r \in 0 .. lba - 1 /\ x = y + r /\ x = bytes + lba - 1
    BY <1>1
  <2> HIDE DEF x, q, y, z, r
  <2> QED BY <1>0, <2>1, <2>2, <2>3
<1> QED BY <1>0, <1>1, <1>2

LEMMA MaxIs ==
  ASSUME NEW x \in Int, NEW y \in Int
  PROVE  Max({x, y}) \in {x, y} /\ Max({x, y}) >= x /\ Max({x, y}) >= y
<1>1. \E m \in {x, y} : \A n \in {x, y} : m >= n
  <2>1. CASE x >= y
    BY <2>1
  <2>2. CASE y >= x
    BY <2>2
  <2> QED BY <2>1, <2>2
<1>2. Max({x, y}) \in {x, y} /\ \A n \in {x, y} : Max({x, y}) >= n
  BY <1>1 DEF Max
<1> QED BY <1>2

-----------------------------------------------------------------------------
(* The layout.                                                             *)

\* What createContiguous..., the partition entries and the parameter block rely on.
LayoutFits(c, kernelSize) ==
  /\ c # NoConf
  /\ c.lba \in LBASizes /\ c.align \in Nat \ {0} /\ c.table \in Nat \ {0}
  /\ c.vol.clusters \in Nat /\ c.vol.clusters >= 3
  /\ c.vol.fatSize \in Nat /\ c.vol.sectors \in Nat
  /\ DEFAULT_RESERVED_SECTORS + FATs * c.vol.fatSize + c.vol.clusters <= c.vol.sectors
  /\ c.efiStart \in Nat /\ 1 + 1 + c.table <= c.efiStart
  /\ c.efiSize \in Nat /\ c.vol.sectors <= c.efiSize
  /\ c.dataSize \in Nat /\ c.dataStart = c.efiStart + c.efiSize
  /\ \A k \in Nat : k * c.lba < kernelSize => k < c.dataSize
  /\ c.total = c.dataStart + c.dataSize + c.table + 1
  /\ c.efiStart % c.align = 0 /\ c.dataStart % c.align = 0

\* A block is not empty, and an entry of the FAT fits in it.
LEMMA BlockFacts ==
  ASSUME NEW lba \in LBASizes
  PROVE  /\ lba \in Nat \ {0} /\ lba \div U32_BYTES \in Nat \ {0}
         /\ GPT_PARTITION_TABLE_SIZE \div lba \in Nat \ {0}
<1>1. lba \in Nat \ {0} /\ U32_BYTES \in Nat \ {0} /\ GPT_PARTITION_TABLE_SIZE \in Nat
      /\ U32_BYTES <= lba /\ lba <= GPT_PARTITION_TABLE_SIZE
  BY BlocksAssumption
<1>2. ASSUME NEW x \in Nat, NEW a \in Nat \ {0}, a <= x
      PROVE  x \div a \in Nat \ {0}
  <2>1. x \div a \in Nat /\ x % a \in 0 .. a - 1 /\ x = a * (x \div a) + (x % a)
    BY DivisionFacts
  <2>2. ASSUME x \div a = 0 PROVE FALSE
    <3>1. a * (x \div a) = 0
      BY <2>2, SMT
    <3>2. x = x % a
      BY <2>1, <3>1
    <3> QED BY <1>2, <2>1, <3>2
  <2> QED BY <2>1, <2>2
<1> QED BY <1>1, <1>2

LEMMA VolumeFits ==
  ASSUME NEW application \in Nat, NEW lba \in LBASizes, NEW align \in Nat \ {0}
  PROVE  LET vol == calculateEFIPartitionSize(application, lba, align) IN
         /\ vol.clusters \in Nat /\ vol.clusters >= 3
         /\ vol.fatSize \in Nat /\ vol.sectors \in Nat
         /\ DEFAULT_RESERVED_SECTORS + FATs * vol.fatSize + vol.clusters <= vol.sectors
<1> DEFINE required == Max({MIN_CLUSTERS_OF_FAT32, application + 1 + 1})
           clusters == ALIGN_UP_VALUE(required, align)
           fatSize == CEILING_DIV_VALUE(clusters, lba \div U32_BYTES)
           front == ALIGN_UP_VALUE(DEFAULT_RESERVED_SECTORS + fatSize * FATs, align)
           rest == front - DEFAULT_RESERVED_SECTORS
<1>1. required \in Nat /\ required >= 3
  <2>1. MIN_CLUSTERS_OF_FAT32 \in Nat /\ MIN_CLUSTERS_OF_FAT32 >= 3
    BY VolumeAssumption
  <2>2. required \in {MIN_CLUSTERS_OF_FAT32, application + 1 + 1}
        /\ required >= MIN_CLUSTERS_OF_FAT32
    <3>1. MIN_CLUSTERS_OF_FAT32 \in Int /\ application + 1 + 1 \in Int
      BY <2>1
    <3> QED BY <3>1, MaxIs
  <2> QED BY <2>1, <2>2
<1>2. clusters \in Nat /\ clusters >= 3
  <2> HIDE DEF required
  <2>1. \E k \in Nat : clusters = align * k /\ align * k \in Nat /\ required <= align * k
    BY <1>1, RoundsUp
  <2> HIDE DEF clusters
  <2>2. clusters \in Nat /\ required <= clusters
    BY <2>1
  <2> QED BY <1>1, <2>2
<1>3. fatSize \in Nat
  <2> HIDE DEF clusters
  <2> QED BY <1>2, BlockFacts, EnoughBlocks
<1>4. DEFAULT_RESERVED_SECTORS \in Nat
  BY VolumeAssumption
<1>5. front \in Nat /\ DEFAULT_RESERVED_SECTORS + fatSize * FATs <= front
  <2> HIDE DEF fatSize
  <2>1. DEFAULT_RESERVED_SECTORS + fatSize * FATs \in Nat
    BY <1>3, <1>4 DEF FATs
  <2> QED BY <2>1, RoundsUp
<1> HIDE DEF clusters, fatSize, front
<1>6. rest \in Nat
  BY <1>3, <1>4, <1>5 DEF FATs
<1>7. rest \div FATs \in Nat /\ FATs * (rest \div FATs) <= rest
  <2> DEFINE half == rest \div 2
  <2>1. half \in Nat /\ rest % 2 \in 0 .. 1 /\ rest = 2 * half + (rest % 2)
    BY <1>6, DivisionFacts
  <2> HIDE DEF half
  <2>2. half \in Nat /\ 2 * half <= rest
    BY <1>6, <2>1
  <2> QED BY <2>2 DEF half, FATs
<1>8. calculateEFIPartitionSize(application, lba, align)
      = [clusters |-> clusters, fatSize |-> rest \div FATs, sectors |-> front + clusters]
  BY DEF calculateEFIPartitionSize, clusters, fatSize, front
<1>9. DEFAULT_RESERVED_SECTORS + FATs * (rest \div FATs) + clusters <= front + clusters
  <2> DEFINE half == FATs * (rest \div FATs)
  <2>1. half \in Nat /\ half <= rest
    BY <1>7 DEF FATs
  <2> HIDE DEF half
  <2>2. DEFAULT_RESERVED_SECTORS + half + clusters <= front + clusters
    BY <1>2, <1>4, <1>5, <2>1
  <2> QED BY <2>2 DEF half
<1> QED BY <1>2, <1>5, <1>7, <1>8, <1>9

LEMMA LayoutHolds ==
  ASSUME NEW efiSize \in Nat, NEW kernelSize \in Nat, NEW alignment \in Nat,
         NEW lba \in LBASizes
  PROVE  LayoutFits(setConfiguration(efiSize, kernelSize, alignment, lba), kernelSize)
<1> DEFINE align == IF alignment > lba THEN alignment \div lba ELSE 1
           table == GPT_PARTITION_TABLE_SIZE \div lba
           application == CEILING_DIV_VALUE(efiSize, lba)
           vol == calculateEFIPartitionSize(application, lba, align)
           start == EfiStart(table, align)
           partition == ALIGN_UP_VALUE(vol.sectors, align)
           dataSize == CEILING_DIV_VALUE(kernelSize, lba)
           c == [lba |-> lba, align |-> align, table |-> table, vol |-> vol,
                 efiStart |-> start, efiSize |-> partition,
                 dataStart |-> start + partition, dataSize |-> dataSize,
                 total |-> start + partition + dataSize + table + 1]
<1>0. setConfiguration(efiSize, kernelSize, alignment, lba) = c
  BY DEF setConfiguration
<1>1. lba \in Nat \ {0} /\ table \in Nat \ {0}
  BY BlockFacts
<1>2. align \in Nat \ {0}
  <2>1. CASE alignment > lba
    <3>1. alignment \div lba \in Nat /\ alignment % lba \in 0 .. lba - 1
          /\ alignment = lba * (alignment \div lba) + (alignment % lba)
      BY <1>1, DivisionFacts
    <3>2. ASSUME alignment \div lba = 0 PROVE FALSE
      <4>1. lba * (alignment \div lba) = 0
        BY <1>1, <3>2, SMT
      <4>2. alignment = alignment % lba
        BY <1>1, <3>1, <4>1
      <4> QED BY <1>1, <2>1, <3>1, <4>2
    <3> QED BY <2>1, <3>1, <3>2
  <2>2. CASE ~(alignment > lba)
    BY <2>2
  <2> QED BY <2>1, <2>2
<1>3. application \in Nat
  BY <1>1, EnoughBlocks
<1> HIDE DEF align, table, application
<1>4. /\ vol.clusters \in Nat /\ vol.clusters >= 3
      /\ vol.fatSize \in Nat /\ vol.sectors \in Nat
      /\ DEFAULT_RESERVED_SECTORS + FATs * vol.fatSize + vol.clusters <= vol.sectors
  BY <1>2, <1>3, VolumeFits
<1> HIDE DEF vol
<1>5. PICK s \in Nat : /\ start = align * s /\ align * s \in Nat
                       /\ 1 + 1 + table <= align * s
                       /\ (align * s) % align = 0
  <2>1. 1 + 1 + table \in Nat
    BY <1>1
  <2> QED BY <1>2, <2>1, RoundsUp DEF EfiStart
<1>6. PICK p \in Nat : /\ partition = align * p /\ align * p \in Nat
                       /\ vol.sectors <= align * p
                       /\ (align * p) % align = 0
  BY <1>2, <1>4, RoundsUp
<1>7. dataSize \in Nat /\ \A k \in Nat : k * lba < kernelSize => k < dataSize
  BY <1>1, EnoughBlocks
<1>8. (start + partition) % align = 0
  <2>1. start + partition = align * (s + p)
    BY <1>2, <1>5, <1>6, SMT
  <2>2. (align * (s + p)) % align = 0
    BY <1>2, MultipleHasNoRemainder
  <2> QED BY <2>1, <2>2
<1>9. c # NoConf
  BY DEF NoConf
<1> HIDE DEF start, partition, dataSize
<1>10. /\ start \in Nat /\ 1 + 1 + table <= start /\ start % align = 0
       /\ partition \in Nat /\ vol.sectors <= partition
  BY <1>5, <1>6
<1>11. LayoutFits(c, kernelSize)
  BY <1>1, <1>2, <1>4, <1>7, <1>8, <1>9, <1>10 DEF LayoutFits
<1> QED BY <1>0, <1>11

-----------------------------------------------------------------------------
(* The invariant.                                                          *)

Before == {"arguments", "openEfi", "openKernel", "configure"}
Unmapped == {"openImage", "truncate", "map"}
Directories == {"EFI", "BOOT", "FLOS"}
Volume == Directories \cup {"readEfi", "kernelInf", "diskInf"}
Rest == {"mirror", "reserved", "readKernel"}
Mapped == {"mbr", "gpt", "fat"} \cup Volume \cup Rest
Stopped == {"done", "assertion", "noSpace"}
Handled == {"handler", "failed", "uncleaned"}
Labels == Before \cup Unmapped \cup Mapped \cup Stopped \cup Handled

Types ==
  /\ pc \in Labels
  /\ size \in [Files -> Nat] /\ length \in [Files -> Nat]
  /\ \A f \in Files : length[f] <= size[f]
  /\ size["efi"] \in EfiSizes /\ size["kernel"] \in KernelSizes
  /\ flags \in [efi : BOOLEAN, kernel : BOOLEAN, phys : Alignments,
                optimal : Alignments, lba : LBASizes]
  /\ found \in {"none", "old", "recent"}
  /\ disk \in {"none", "old", "recent", "ours"}
  /\ dirs \in [Directories -> Nat]

\* The copy of the FAT, which efi.c puts U32_BYTES times as far as meant, ends
\* inside the partitions.  With blocks of 512 bytes and a small kernel it does so
\* for every alignment below 32MiB.
MirrorFits(c) ==
  DEFAULT_RESERVED_SECTORS + (U32_BYTES + 1) * c.vol.fatSize <= c.efiSize + c.dataSize

MirrorInside ==
  \A efiSize \in EfiSizes, kernelSize \in KernelSizes,
     alignment \in (Alignments \ {0}) \cup {MiB}, lba \in LBASizes :
    MirrorFits(setConfiguration(efiSize, kernelSize, alignment, lba))

\* The layout is that of the arguments from the moment it is made.
Layout ==
  /\ pc \in Before \cup Unmapped => image = << >>
  /\ pc \in Before => conf = NoConf
  /\ pc \in Unmapped \cup Mapped \cup Stopped => conf # NoConf
  /\ conf # NoConf => LayoutFits(conf, size["kernel"]) /\ (MirrorInside => MirrorFits(conf))
  /\ conf # NoConf => DOMAIN image \in {{}, 0 .. conf.total - 1}
  /\ pc \in Mapped \cup {"done"} => DOMAIN image = 0 .. conf.total - 1

\* The image of an earlier run is as it was found until openImage truncates it,
\* and nothing removes it but the handler.
Cleanup ==
  /\ pc \in Before \cup {"openImage"} => disk = found
  /\ pc \in {"handler", "uncleaned"} /\ conf = NoConf => disk = found
  /\ pc = "failed" /\ conf = NoConf => disk = found \/ found = "recent"
  /\ pc = "failed" => disk \notin {"ours", "recent"}

\* Entries of the FAT end their chain or lead to a later cluster in use.
Chains ==
  /\ free \in Nat /\ DOMAIN fat = 0 .. free - 1
  /\ \A c \in DOMAIN fat : fat[c] \in {END_OF_CHAIN_MARKER} \cup (c + 1 .. free - 1)

\* Reading does not go on behind the end of a file.
Reading ==
  /\ pos \in Nat
  /\ pc \in Before \cup Unmapped \cup (Mapped \ {"readEfi", "readKernel"}) => pos = 0
  /\ pc = "readEfi" => pos <= length["efi"]
  /\ pc = "readKernel" => pos <= length["kernel"]
  /\ \E f \in Files : pos <= size[f]

\* The clusters taken stay inside the volume, or the program does not go on.
Space ==
  /\ pc \in Volume => free >= 3 /\ free <= conf.vol.clusters
  /\ pc = "EFI" => free = 3
  /\ pc = "BOOT" => free = 4 /\ dirs["EFI"] = 3
  /\ pc = "FLOS" => free = 5 /\ dirs["EFI"] = 3 /\ dirs["BOOT"] = 4
  /\ pc \in {"readEfi", "kernelInf", "diskInf"} => dirs["BOOT"] = 4 /\ dirs["FLOS"] = 5 /\ free >= 6

\* The directories have the entries made so far, so each of them is made once.
Entered ==
  /\ pc \in {"mbr", "gpt", "fat", "EFI"} =>
       \A b \in conf.efiStart .. conf.dataStart - 1 : image[b] = Zero
  /\ pc = "BOOT" => image[getDataCluster(3)] = writeDOTEntries(3, ROOT_CLUSTER)
  /\ pc = "gpt" => image[0] = <<"mbr", 1, conf.total - 1>>
  /\ pc = "FLOS" =>
       image[getDataCluster(3)] =
         <<"dir", Append(<<DirEntry(".", 3, 0), DirEntry("..", ROOT_CLUSTER, 0)>>,
                         DirEntry("BOOT", 4, 0))>>

\* The volume has room for the application: EfiEntry goes on.
Room == CEILING_DIV_VALUE(size["efi"], conf.lba) < conf.vol.clusters - free

\* The MBR and the two copies of the partition table in an image.
TablesIn(im) ==
  /\ im[0] = <<"mbr", 1, conf.total - 1>>
  /\ im[1] = <<"gpt", PrimaryHeader>>
  /\ im[conf.total - 1] = <<"gpt", BackupHeader>>
  /\ \A k \in 0 .. conf.table - 1 :
       /\ im[1 + 1 + k] = <<"table", k, Entries>>
       /\ im[conf.total - 1 - conf.table + k] = <<"table", k, Entries>>

\* What the program is still going to trust: with room for the application, the
\* tables are never written over.
Written == {"fat"} \cup Volume \cup Rest \cup {"done"}
Tables ==
  MirrorInside /\ pc \in Written /\ (pc = "readEfi" => Room) => TablesIn(image)

ParameterBlock ==
  <<"bpb", [hidden |-> conf.efiStart, fatSize |-> conf.vol.fatSize,
            sectors |-> conf.vol.sectors, reserved |-> DEFAULT_RESERVED_SECTORS,
            root |-> ROOT_CLUSTER]>>

Described == pc \in {"readKernel", "done"} => image[conf.efiStart] = ParameterBlock

IInv == /\ Types /\ Layout /\ Cleanup /\ Chains /\ Reading /\ Space
        /\ Entered /\ Tables /\ Described

-----------------------------------------------------------------------------
(* The actions, as the parts of the invariant see them.                    *)

\* createContiguousSpaceForNewEntry takes the clusters from free on, and goes on
\* only while there are enough of them in the volume.
LEMMA TakesClusters ==
  ASSUME Chains, Layout, conf # NoConf, NEW bytes \in Nat, NEW next,
         createContiguousSpaceForNewEntry(bytes, next)
  PROVE  /\ Chains' /\ free' = free + CEILING_DIV_VALUE(bytes, conf.lba)
         /\ pc' \in {next, "noSpace"}
         /\ pc' # "noSpace" =>
              bytes > 0 /\ CEILING_DIV_VALUE(bytes, conf.lba) < conf.vol.clusters - free
<1> DEFINE n == CEILING_DIV_VALUE(bytes, conf.lba)
           end == free + n
<1>1. n \in Nat /\ free \in Nat
  BY BlockFacts, EnoughBlocks DEF Layout, LayoutFits, Chains
<1>2. /\ free' = end
      /\ fat' = [c \in 0 .. end - 1 |-> IF c < free THEN fat[c]
                   ELSE IF c = end - 1 THEN END_OF_CHAIN_MARKER ELSE c + 1]
      /\ pc' = IF bytes > 0 /\ end - free < conf.vol.clusters - free THEN next ELSE "noSpace"
  BY DEF createContiguousSpaceForNewEntry, Goto
<1> HIDE DEF n
<1>3. Chains'
  <2>1. DOMAIN fat' = 0 .. free' - 1 /\ free' \in Nat
    BY <1>1, <1>2
  <2>2. ASSUME NEW c \in DOMAIN fat'
        PROVE  fat'[c] \in {END_OF_CHAIN_MARKER} \cup (c + 1 .. free' - 1)
    <3>1. CASE c < free
      <4>1. c \in DOMAIN fat /\ fat'[c] = fat[c]
        BY <1>1, <1>2, <2>1, <3>1 DEF Chains
      <4> QED BY <1>1, <1>2, <4>1 DEF Chains
    <3>2. CASE ~(c < free)
      <4>1. c \in 0 .. end - 1 /\ end \in Nat /\ free' = end
        BY <1>1, <1>2, <2>1
      <4>2. fat'[c] = IF c = end - 1 THEN END_OF_CHAIN_MARKER ELSE c + 1
        BY <1>2, <3>2, <4>1
      <4> HIDE DEF end
      <4>3. c # end - 1 => c + 1 \in c + 1 .. end - 1
        BY <4>1
      <4> QED BY <4>1, <4>2, <4>3
    <3> QED BY <3>1, <3>2
  <2> QED BY <2>1, <2>2 DEF Chains
<1>4. end - free = n
  BY <1>1
<1> QED BY <1>2, <1>3, <1>4 DEF n

\* One cluster for a directory or an information file.
LEMMA OneCluster ==
  ASSUME Layout, conf # NoConf, NEW bytes \in {1, INF_BYTES}
  PROVE  CEILING_DIV_VALUE(bytes, conf.lba) = 1 /\ bytes \in Nat
<1> DEFINE lba == conf.lba
           x == bytes + lba - 1
<1>1. lba \in Nat \ {0} /\ bytes \in Nat \ {0} /\ bytes <= lba
  <2>1. conf.lba \in LBASizes
    BY DEF Layout, LayoutFits
  <2>2. lba \in Nat \ {0}
    BY <2>1, BlockFacts
  <2>3. INF_BYTES \in Nat \ {0} /\ INF_BYTES <= lba
    BY <2>1, BlocksAssumption
  <2> QED BY <2>2, <2>3
<1>2. CEILING_DIV_VALUE(bytes, conf.lba) = x \div lba
  BY DEF CEILING_DIV_VALUE
<1>3. x = lba * 1 + (bytes - 1)
  BY <1>1
<1>4. (x \div lba) \in Nat /\ x % lba \in 0 .. lba - 1 /\ x = lba * (x \div lba) + (x % lba)
  <2>1. x \in Nat
    BY <1>1
  <2> HIDE DEF x, lba
  <2> QED BY <1>1, <2>1, DivisionFacts
<1> DEFINE q == x \div lba
           r == x % lba
<1>5. q >= 1
  <2> SUFFICES ASSUME q = 0 PROVE FALSE
    BY <1>4
  <2>1. lba * q = 0
    BY <1>1, SMT
  <2>2. x = r
    BY <1>4, <2>1
  <2> QED BY <1>1, <1>3, <1>4, <2>2
<1>6. q < 2
  <2> SUFFICES ASSUME 2 <= q PROVE FALSE
    BY <1>4
  <2> DEFINE y == lba * q
  <2>1. lba * 2 <= y /\ y \in Nat
    BY <1>1, <1>4, ProductsGrow
  <2>2. x = y + r /\ r \in 0 .. lba - 1 /\ x = lba + (bytes - 1)
    BY <1>1, <1>4
  <2> HIDE DEF x, y, r, q, lba
  <2> QED BY <1>1, <2>1, <2>2
<1>7. q = 1
  BY <1>4, <1>5, <1>6
<1> QED BY <1>1, <1>2, <1>7

-----------------------------------------------------------------------------
(* What a step that writes into the mapped image keeps.                    *)

\* Outside the two partitions nothing changes.
Outside(b) == b < conf.efiStart \/ b >= conf.dataStart + conf.dataSize
WritesInside == \A b \in DOMAIN image : Outside(b) => image'[b] = image[b]

LEMMA LayoutNumbers ==
  ASSUME Layout, conf # NoConf
  PROVE  /\ conf.efiStart \in Nat /\ conf.efiSize \in Nat /\ conf.dataStart \in Nat
         /\ conf.dataSize \in Nat /\ conf.table \in Nat \ {0} /\ conf.total \in Nat
         /\ conf.vol.clusters \in Nat /\ conf.vol.clusters >= 3
         /\ conf.vol.fatSize \in Nat /\ conf.vol.sectors \in Nat
         /\ conf.lba \in Nat \ {0}
         /\ 1 + 1 + conf.table <= conf.efiStart
         /\ conf.dataStart = conf.efiStart + conf.efiSize
         /\ conf.total = conf.dataStart + conf.dataSize + conf.table + 1
         /\ DEFAULT_RESERVED_SECTORS \in Nat /\ DEFAULT_RESERVED_SECTORS >= 8
         /\ DEFAULT_RESERVED_SECTORS + FATs * conf.vol.fatSize + conf.vol.clusters
              <= conf.vol.sectors
         /\ conf.vol.sectors <= conf.efiSize
<1>1. LayoutFits(conf, size["kernel"])
  BY DEF Layout
<1>2. /\ conf.efiStart \in Nat /\ conf.efiSize \in Nat /\ conf.dataSize \in Nat
      /\ conf.table \in Nat \ {0}
      /\ conf.dataStart = conf.efiStart + conf.efiSize
      /\ conf.total = conf.dataStart + conf.dataSize + conf.table + 1
  BY <1>1 DEF LayoutFits
<1>3. conf.dataStart \in Nat /\ conf.total \in Nat
  BY <1>2
<1>4. /\ conf.lba \in LBASizes /\ conf.vol.clusters \in Nat /\ conf.vol.clusters >= 3
      /\ conf.vol.fatSize \in Nat /\ conf.vol.sectors \in Nat
      /\ 1 + 1 + conf.table <= conf.efiStart
      /\ DEFAULT_RESERVED_SECTORS + FATs * conf.vol.fatSize + conf.vol.clusters
           <= conf.vol.sectors
      /\ conf.vol.sectors <= conf.efiSize
  BY <1>1 DEF LayoutFits
<1>5. conf.lba \in Nat \ {0}
  BY <1>4, BlockFacts
<1> QED BY <1>2, <1>3, <1>4, <1>5, VolumeAssumption

\* A cluster of the volume lies in the system partition, behind the reserved sectors.
LEMMA ClusterInside ==
  ASSUME Layout, conf # NoConf, NEW c \in Nat, c >= ROOT_CLUSTER
  PROVE  /\ getDataCluster(c) \in Nat
         /\ getDataCluster(c) = getDataCluster(ROOT_CLUSTER) + (c - ROOT_CLUSTER)
         /\ getDataCluster(c) >= conf.efiStart + 8
         /\ c <= conf.vol.clusters + 1 =>
              getDataCluster(c) <= conf.dataStart - 1 /\ ~Outside(getDataCluster(c))
<1> DEFINE s == conf.efiStart
           r == DEFAULT_RESERVED_SECTORS
           f == conf.vol.fatSize
           k == conf.vol.clusters
           d == conf.dataStart
           n == conf.dataSize
           v == conf.vol.sectors
           p == conf.efiSize
<1>1. /\ s \in Nat /\ r \in Nat /\ f \in Nat /\ k \in Nat /\ d \in Nat /\ n \in Nat
      /\ v \in Nat /\ p \in Nat /\ r >= 8 /\ d = s + p /\ v <= p /\ r + 2 * f + k <= v
  BY LayoutNumbers DEF FATs
<1>2. getDataCluster(c) = s + r + f * 2 + c - 2 /\ getDataCluster(ROOT_CLUSTER) = s + r + f * 2 + 2 - 2
  BY DEF getDataCluster, fatStart, FATs, ROOT_CLUSTER
<1> HIDE DEF s, r, f, k, d, n, v, p
<1>3. /\ s + r + f * 2 + c - 2 \in Nat
      /\ s + r + f * 2 + c - 2 = s + r + f * 2 + 2 - 2 + (c - 2)
      /\ s + r + f * 2 + c - 2 >= s + 8
      /\ c <= k + 1 => s + r + f * 2 + c - 2 <= d - 1
  BY <1>1 DEF ROOT_CLUSTER
<1>4. c <= k + 1 => ~Outside(getDataCluster(c))
  <2> DEFINE x == getDataCluster(c)
  <2>1. c <= k + 1 => x \in Nat /\ x >= s + 8 /\ x <= d - 1
    BY <1>2, <1>3
  <2> HIDE DEF x
  <2>2. c <= k + 1 => ~(x < s \/ x >= d + n)
    BY <1>1, <2>1
  <2> QED BY <2>2 DEF x, Outside, s, d, n
<1> QED BY <1>2, <1>3, <1>4 DEF s, r, f, k, d, n, v, p, ROOT_CLUSTER

LEMMA TablesOutside ==
  ASSUME Layout, conf # NoConf
  PROVE  /\ 0 \in 0 .. conf.total - 1 /\ Outside(0)
         /\ 1 \in 0 .. conf.total - 1 /\ Outside(1)
         /\ conf.total - 1 \in 0 .. conf.total - 1 /\ Outside(conf.total - 1)
         /\ \A k \in 0 .. conf.table - 1 :
              /\ 1 + 1 + k \in 0 .. conf.total - 1 /\ Outside(1 + 1 + k)
              /\ conf.total - 1 - conf.table + k \in 0 .. conf.total - 1
              /\ Outside(conf.total - 1 - conf.table + k)
<1> DEFINE s == conf.efiStart
           d == conf.dataStart
           n == conf.dataSize
           t == conf.table
           m == conf.total
<1>1. /\ s \in Nat /\ d \in Nat /\ n \in Nat /\ t \in Nat \ {0} /\ m \in Nat
      /\ s <= d /\ m = d + n + t + 1 /\ 1 + 1 + t <= s
  BY LayoutNumbers
<1> HIDE DEF s, d, n, t, m
<1>2. /\ 0 \in 0 .. m - 1 /\ 0 < s /\ 1 \in 0 .. m - 1 /\ 1 < s /\ m - 1 \in 0 .. m - 1 /\ m - 1 >= d + n
      /\ \A k \in 0 .. t - 1 : /\ 1 + 1 + k \in 0 .. m - 1 /\ 1 + 1 + k < s
                               /\ m - 1 - t + k \in 0 .. m - 1 /\ m - 1 - t + k >= d + n
  BY <1>1
<1> QED BY <1>2 DEF Outside, s, d, n, t, m

LEMMA TablesStay ==
  ASSUME Layout, pc \in Mapped \cup {"done"}, conf' = conf, WritesInside, TablesIn(image)
  PROVE  TablesIn(image)'
<1>1. conf # NoConf /\ DOMAIN image = 0 .. conf.total - 1
  BY DEF Layout, Stopped
<1>2. /\ PrimaryHeader' = PrimaryHeader /\ BackupHeader' = BackupHeader /\ Entries' = Entries
  BY DEF PrimaryHeader, BackupHeader, Entries
<1>3. /\ image'[0] = image[0]
      /\ image'[1] = image[1] /\ image'[conf.total - 1] = image[conf.total - 1]
      /\ \A k \in 0 .. conf.table - 1 :
           /\ image'[1 + 1 + k] = image[1 + 1 + k]
           /\ image'[conf.total - 1 - conf.table + k] = image[conf.total - 1 - conf.table + k]
  BY <1>1, TablesOutside DEF WritesInside
<1> QED BY <1>2, <1>3 DEF TablesIn

\* The types, the layout and the files under a step on the mapped image.
LEMMA MappedStep ==
  ASSUME IInv, pc \in Mapped, pc' \in Mapped \cup Stopped \cup {"handler"},
         UNCHANGED <<files, conf, disk>>, DOMAIN image' = DOMAIN image,
         dirs' \in [Directories -> Nat]
  PROVE  Types' /\ Layout' /\ Cleanup' /\ conf # NoConf /\ DOMAIN image = 0 .. conf.total - 1
<1>1. conf # NoConf /\ DOMAIN image = 0 .. conf.total - 1
  BY DEF IInv, Layout
<1>2. Types'
  BY DEF IInv, Types, files, Labels, Handled
<1>3. Layout'
  <2>1. pc' \notin Before \cup Unmapped
    BY DEF Before, Unmapped, Mapped, Volume, Directories, Rest, Stopped
  <2>2. UNCHANGED <<size, conf>>
    BY DEF files
  <2>3. (LayoutFits(conf, size["kernel"]) /\ (MirrorInside => MirrorFits(conf)))'
    BY <1>1, <2>2 DEF IInv, Layout, LayoutFits, MirrorInside, MirrorFits
  <2> QED BY <1>1, <2>1, <2>2, <2>3 DEF Layout
<1>4. Cleanup'
  BY <1>1 DEF Cleanup, Before, Mapped, Volume, Directories, Rest, Stopped
<1> QED BY <1>1, <1>2, <1>3, <1>4

-----------------------------------------------------------------------------
(* The invariant holds at the start, and up to the mapping of the image.   *)

LEMMA InitInv ==
  Init => IInv
<1> SUFFICES ASSUME Init PROVE IInv
  OBVIOUS
<1>1. /\ pc = "arguments" /\ conf = NoConf /\ image = << >> /\ fat = << >> /\ free = 0
      /\ pos = 0 /\ disk = found /\ found \in {"none", "old", "recent"}
      /\ size \in [efi : EfiSizes, kernel : KernelSizes]
      /\ length \in {size, [size EXCEPT !.efi = @ - 1], [size EXCEPT !.kernel = @ - 1]}
      /\ \A f \in Files : length[f] >= 0
      /\ dirs = [EFI |-> 0, BOOT |-> 0, FLOS |-> 0]
  BY DEF Init
<1>2. Types
  <2>1. size \in [Files -> Nat] /\ size["efi"] \in EfiSizes /\ size["kernel"] \in KernelSizes
    BY <1>1, ArgumentsAssumption DEF Files
  <2>2. length \in [Files -> Nat] /\ \A f \in Files : length[f] <= size[f]
    <3>1. CASE length = size
      BY <2>1, <3>1
    <3>2. CASE length = [size EXCEPT !["efi"] = @ - 1]
      BY <1>1, <2>1, <3>2 DEF Files
    <3>3. CASE length = [size EXCEPT !["kernel"] = @ - 1]
      BY <1>1, <2>1, <3>3 DEF Files
    <3> QED BY <1>1, <3>1, <3>2, <3>3
  <2>3. dirs \in [Directories -> Nat]
    BY <1>1 DEF Directories
  <2>4. pc \in Labels /\ disk \in {"none", "old", "recent", "ours"}
    BY <1>1 DEF Labels, Before
  <2> QED BY <1>1, <2>1, <2>2, <2>3, <2>4 DEF Types, Init
<1>3. Layout /\ Cleanup
  BY <1>1 DEF Layout, Cleanup, Before, Unmapped, Mapped, Volume, Directories, Rest, Stopped
<1>4. Chains
  BY <1>1 DEF Chains
<1>5. Reading
  <2>1. "efi" \in Files /\ size["efi"] \in Nat
    BY <1>2 DEF Types, Files
  <2> QED BY <1>1, <2>1 DEF Reading
<1>6. Space /\ Entered /\ Tables /\ Described
  BY <1>1 DEF Space, Entered, Tables, Described, Volume, Directories, Written, Rest
<1> QED BY <1>2, <1>3, <1>4, <1>5, <1>6 DEF IInv

\* The labels at which the image is not yet in use.
Early == Before \cup Unmapped \cup Handled

LEMMA EarlyStep ==
  ASSUME IInv, pc \in Early, pc' \in Early, UNCHANGED <<files, volume, image, pos, dirs>>,
         Types', Layout', Cleanup', pc \in Handled => pc' \in Handled
  PROVE  IInv'
<1>1. Chains'
  BY DEF IInv, Chains, volume
<1>2. Reading'
  BY DEF IInv, Reading, Early, Handled, Before, Unmapped, Mapped, Volume, Directories, Rest, files
<1>3. Space' /\ Entered' /\ Tables' /\ Described'
  BY DEF Space, Entered, Tables, Described, Early, Handled, Before, Unmapped, Volume, Directories,
         Written, Rest
<1> QED BY <1>1, <1>2, <1>3 DEF IInv

LEMMA ArgumentsStep ==
  ASSUME IInv, ParseArguments \/ OpenEfi \/ OpenKernel
  PROVE  IInv'
<1>1. /\ pc \in {"arguments", "openEfi", "openKernel"}
      /\ pc' \in {"openEfi", "openKernel", "configure", "handler"}
      /\ UNCHANGED <<files, conf, disk, image, volume, pos>>
  BY DEF ParseArguments, OpenEfi, OpenKernel, openFile, Goto
<1>2. UNCHANGED <<flags, size, length, found, fat, free, dirs, conf, disk, image>>
  BY <1>1 DEF files, volume
<1>3. Types'
  BY <1>1, <1>2 DEF IInv, Types, Labels, Handled, Before
<1>4. Layout' /\ Cleanup'
  BY <1>1, <1>2 DEF IInv, Layout, Cleanup, Before, Unmapped, Mapped, Volume, Directories,
                     Rest, Stopped
<1> QED BY <1>1, <1>2, <1>3, <1>4, EarlyStep DEF Early, Before, Handled

LEMMA ConfigureStep ==
  ASSUME IInv, Configure
  PROVE  IInv'
<1> DEFINE asked == Max({flags.phys, flags.optimal})
           alignment == IF asked = 0 THEN MiB ELSE asked
<1>1. /\ pc = "configure" /\ pc' = "openImage"
      /\ conf' = setConfiguration(size.efi, size.kernel, alignment, flags.lba)
      /\ UNCHANGED <<files, disk, image, volume, pos>>
  BY DEF Configure, Goto
<1>2. UNCHANGED <<flags, size, length, found, fat, free, dirs, disk, image>>
  BY <1>1 DEF files, volume
<1>3. Types'
  BY <1>1, <1>2 DEF IInv, Types, Labels, Handled, Unmapped
<1>4. alignment \in (Alignments \ {0}) \cup {MiB} /\ alignment \in Nat
  <2>1. flags.phys \in Alignments /\ flags.optimal \in Alignments
    <3>1. flags \in [efi : BOOLEAN, kernel : BOOLEAN, phys : Alignments,
                      optimal : Alignments, lba : LBASizes]
      BY DEF IInv, Types
    <3> QED BY ONLY <3>1
  <2>a. Alignments \subseteq Nat
    BY ArgumentsAssumption
  <2>2. flags.phys \in Int /\ flags.optimal \in Int
    <3>1. \A x \in Alignments : x \in Int
      BY ONLY <2>a
    <3> QED BY ONLY <2>1, <3>1, Zenon
  <2>3. asked \in Alignments
    BY <2>1, <2>2, MaxIs
  <2> HIDE DEF asked
  <2> QED BY <2>3, ArgumentsAssumption
<1> HIDE DEF alignment
<1>5. /\ size["efi"] \in EfiSizes /\ size["kernel"] \in KernelSizes
      /\ size["efi"] \in Nat /\ size["kernel"] \in Nat /\ flags.lba \in LBASizes
  <2>1. flags \in [efi : BOOLEAN, kernel : BOOLEAN, phys : Alignments,
                    optimal : Alignments, lba : LBASizes]
    BY DEF IInv, Types
  <2>2. flags.lba \in LBASizes
    BY ONLY <2>1
  <2> QED BY <2>2, ArgumentsAssumption DEF IInv, Types
<1>6. LayoutFits(conf', size["kernel"])
  BY <1>1, <1>4, <1>5, LayoutHolds
<1>7. MirrorInside => MirrorFits(conf')
  BY <1>1, <1>4, <1>5 DEF MirrorInside
<1>8. (conf # NoConf)' /\ (LayoutFits(conf, size["kernel"]) /\ (MirrorInside => MirrorFits(conf)))'
  BY <1>2, <1>6, <1>7 DEF LayoutFits, MirrorInside, MirrorFits
<1>9. Layout'
  <2>1. DOMAIN image = {}
    BY <1>1 DEF IInv, Layout, Before
  <2> QED BY <1>1, <1>2, <1>8, <2>1 DEF Layout, Before, Unmapped, Mapped, Volume, Directories,
                                         Rest, Stopped
<1>10. Cleanup'
  BY <1>1, <1>2 DEF IInv, Cleanup, Before, Unmapped, Mapped, Volume, Directories, Rest, Stopped
<1> QED BY <1>1, <1>2, <1>3, <1>9, <1>10, EarlyStep DEF Early, Before, Unmapped, Handled

LEMMA OpenStep ==
  ASSUME IInv, openImage \/ Truncate
  PROVE  IInv'
<1>1. /\ pc \in {"openImage", "truncate"} /\ pc' \in {"truncate", "map", "handler"}
      /\ UNCHANGED <<files, conf, image, volume, pos, dirs>>
      /\ disk' \in {disk, "ours"}
  BY DEF openImage, Truncate, Goto, volume
<1>2. UNCHANGED <<flags, size, length, found, fat, free, dirs, conf, image>>
  BY <1>1 DEF files, volume
<1>3. Types'
  BY <1>1, <1>2 DEF IInv, Types, Labels, Handled, Unmapped
<1>4. Layout' /\ Cleanup'
  BY <1>1, <1>2 DEF IInv, Layout, Cleanup, Before, Unmapped, Mapped, Volume, Directories,
                     Rest, Stopped
<1> QED BY <1>1, <1>2, <1>3, <1>4, EarlyStep DEF Early, Before, Unmapped, Handled

LEMMA HandlerStep ==
  ASSUME IInv, ErrorHandler
  PROVE  IInv'
<1>1. /\ pc = "handler"
      /\ \/ /\ pc' = "failed"
            /\ disk' = IF disk \in {"recent", "ours"} THEN "none" ELSE disk
         \/ pc' = "uncleaned" /\ disk' = disk
      /\ UNCHANGED <<files, conf, image, volume, pos, dirs>>
  BY DEF ErrorHandler, Goto, volume
<1>2. UNCHANGED <<flags, size, length, found, fat, free, dirs, conf, image>>
  BY <1>1 DEF files, volume
<1>3. Types'
  BY <1>1, <1>2 DEF IInv, Types, Labels, Handled
<1>4. Layout'
  BY <1>1, <1>2 DEF IInv, Layout, Before, Unmapped, Mapped, Volume, Directories,
                     Rest, Stopped
<1>5. Cleanup'
  BY <1>1, <1>2 DEF IInv, Types, Cleanup, Before
<1> QED BY <1>1, <1>2, <1>3, <1>4, <1>5, EarlyStep DEF Early, Handled

\* The image is mapped empty.
LEMMA MapStep ==
  ASSUME IInv, MapImage
  PROVE  IInv'
<1>1. /\ pc = "map" /\ UNCHANGED <<files, conf, disk, volume, pos>>
      /\ \/ pc' = "mbr" /\ image' = [b \in 0 .. conf.total - 1 |-> Zero]
         \/ pc' = "handler" /\ image' = image
  BY DEF MapImage, Goto
<1>2. UNCHANGED <<flags, size, length, found, fat, free, dirs, conf, disk>>
  BY <1>1 DEF files, volume
<1>3. Types'
  BY <1>1, <1>2 DEF IInv, Types, Labels, Handled, Mapped
<1>4. conf # NoConf /\ image = << >>
  BY <1>1 DEF IInv, Layout, Unmapped
<1>5. Layout' /\ Cleanup'
  BY <1>1, <1>2, <1>4 DEF IInv, Layout, Cleanup, Before, Unmapped, Mapped, Volume, Directories,
                          Rest, Stopped
<1>6. CASE pc' = "handler"
  BY <1>1, <1>2, <1>3, <1>5, <1>6, EarlyStep DEF Early, Before, Unmapped, Handled
<1>7. CASE pc' = "mbr"
  <2>1. Chains' /\ Reading'
    BY <1>1, <1>2, <1>7 DEF IInv, Chains, Reading, Before, Unmapped, Mapped, Volume, Directories, Rest
  <2>2. Space' /\ Tables' /\ Described'
    BY <1>7 DEF Space, Tables, Described, Volume, Directories, Written, Rest
  <2>3. Entered'
    <3>1. image' = [b \in 0 .. conf.total - 1 |-> Zero] /\ pc' = "mbr"
      BY <1>1, <1>7
    <3>2. \A b \in conf.efiStart .. conf.dataStart - 1 : b \in 0 .. conf.total - 1
      <4>1. /\ conf.efiStart \in Nat /\ conf.dataStart \in Nat /\ conf.total \in Nat
            /\ conf.dataSize \in Nat /\ conf.table \in Nat
            /\ conf.total = conf.dataStart + conf.dataSize + conf.table + 1
        BY <1>4, LayoutNumbers DEF IInv
      <4> QED BY <4>1
    <3> QED BY <1>2, <3>1, <3>2 DEF Entered
  <2> QED BY <1>3, <1>5, <2>1, <2>2, <2>3 DEF IInv
<1> QED BY <1>1, <1>6, <1>7

LEMMA MBRStep ==
  ASSUME IInv, writeMBR
  PROVE  IInv'
<1>1. /\ pc = "mbr" /\ pc' = "gpt" /\ UNCHANGED <<files, conf, disk, volume, pos, dirs>>
      /\ image' = [image EXCEPT ![0] = <<"mbr", 1, conf.total - 1>>]
  BY DEF writeMBR, Goto, volume
<1>2. UNCHANGED <<flags, size, length, found, fat, free, dirs, conf, disk>>
  BY <1>1 DEF files, volume
<1>3. Types' /\ Layout' /\ Cleanup' /\ conf # NoConf /\ DOMAIN image = 0 .. conf.total - 1
  BY <1>1, MappedStep DEF IInv, Types, Mapped
<1>4. Chains' /\ Reading'
  BY <1>1, <1>2 DEF IInv, Chains, Reading, Before, Unmapped, Mapped, Volume, Directories, Rest
<1>5. Space' /\ Tables' /\ Described'
  BY <1>1 DEF Space, Tables, Described, Volume, Directories, Written, Rest
<1>6. Entered'
  <2>1. conf.efiStart \in Nat /\ conf.efiStart > 0
    <3>1. conf.efiStart \in Nat /\ conf.table \in Nat \ {0} /\ 1 + 1 + conf.table <= conf.efiStart
      BY <1>3, LayoutNumbers DEF IInv
    <3> QED BY ONLY <3>1
  <2>2. \A b \in conf.efiStart .. conf.dataStart - 1 : image'[b] = image[b]
    BY <1>1, <2>1
  <2>3. \A b \in conf.efiStart .. conf.dataStart - 1 : image[b] = Zero
    BY <1>1 DEF IInv, Entered
  <2>4. image'[0] = <<"mbr", 1, conf'.total - 1>>
    <3>1. 0 \in DOMAIN image
      BY <1>3, TablesOutside DEF IInv
    <3> QED BY <1>1, <3>1
  <2> QED BY <1>1, <1>2, <2>2, <2>3, <2>4 DEF Entered
<1> QED BY <1>3, <1>4, <1>5, <1>6 DEF IInv

\* The two copies of the table do not meet, and leave the partitions alone.
LEMMA GPTStep ==
  ASSUME IInv, writeGPTs
  PROVE  IInv'
<1> DEFINE Primary == {PrimaryHeader.table + k : k \in 0 .. conf.table - 1}
           Backup == {BackupHeader.table + k : k \in 0 .. conf.table - 1}
<1>1. /\ pc = "gpt" /\ pc' = "fat" /\ UNCHANGED <<files, conf, disk, volume, pos, dirs>>
      /\ image' = [b \in DOMAIN image |->
          CASE b = 1 -> <<"gpt", PrimaryHeader>>
            [] b \in Primary -> <<"table", b - PrimaryHeader.table, Entries>>
            [] b \in Backup -> <<"table", b - BackupHeader.table, Entries>>
            [] b = BackupHeader.my -> <<"gpt", BackupHeader>>
            [] OTHER -> image[b]]
  BY DEF writeGPTs, Goto, volume
<1>2. UNCHANGED <<flags, size, length, found, fat, free, dirs, conf, disk>>
  BY <1>1 DEF files, volume
<1>3. Types' /\ Layout' /\ Cleanup' /\ conf # NoConf /\ DOMAIN image = 0 .. conf.total - 1
  BY <1>1, MappedStep DEF IInv, Types, Mapped
<1>4. Chains' /\ Reading'
  BY <1>1, <1>2 DEF IInv, Chains, Reading, Before, Unmapped, Mapped, Volume, Directories, Rest
<1>5. Space' /\ Described'
  BY <1>1 DEF Space, Described, Volume, Directories, Written, Rest
<1>6. /\ PrimaryHeader.table = 1 + 1
      /\ BackupHeader.table = conf.total - 1 - conf.table
      /\ BackupHeader.my = conf.total - 1
  BY DEF PrimaryHeader, BackupHeader, WithCRC
<1>7. /\ conf.efiStart \in Nat /\ conf.dataStart \in Nat /\ conf.total \in Nat
      /\ conf.dataSize \in Nat /\ conf.table \in Nat \ {0} /\ 1 + 1 + conf.table <= conf.efiStart
      /\ conf.efiStart <= conf.dataStart
      /\ conf.total = conf.dataStart + conf.dataSize + conf.table + 1
  <2>1. /\ conf.efiStart \in Nat /\ conf.dataStart \in Nat /\ conf.total \in Nat
        /\ conf.dataSize \in Nat /\ conf.table \in Nat \ {0}
        /\ 1 + 1 + conf.table <= conf.efiStart
        /\ conf.efiSize \in Nat /\ conf.dataStart = conf.efiStart + conf.efiSize
        /\ conf.total = conf.dataStart + conf.dataSize + conf.table + 1
    BY <1>3, LayoutNumbers DEF IInv
  <2> QED BY ONLY <2>1
<1> DEFINE t == conf.table
           s == conf.efiStart
           d == conf.dataStart
           m == conf.total
<1>8. /\ Primary = 1 + 1 .. 1 + t
      /\ Backup = m - 1 - t .. m - 1 - 1
  <2>1. t \in Nat \ {0} /\ m \in Nat
    BY <1>7
  <2> HIDE DEF t, m
  <2>2. {1 + 1 + k : k \in 0 .. t - 1} = 1 + 1 .. 1 + t
    <3>1. \A x \in 1 + 1 .. 1 + t : x - 2 \in 0 .. t - 1 /\ x = 1 + 1 + (x - 2)
      BY <2>1
    <3> QED BY <2>1, <3>1
  <2>3. {m - 1 - t + k : k \in 0 .. t - 1} = m - 1 - t .. m - 1 - 1
    <3>1. \A x \in m - 1 - t .. m - 1 - 1 :
             x - (m - 1 - t) \in 0 .. t - 1 /\ x = m - 1 - t + (x - (m - 1 - t))
      BY <2>1
    <3>2. \A k \in 0 .. t - 1 : m - 1 - t + k \in m - 1 - t .. m - 1 - 1
      BY <2>1
    <3> QED BY <3>1, <3>2
  <2> QED BY <1>6, <2>2, <2>3 DEF t, m
<1>9. \A b \in 0 .. m - 1 :
        /\ b = 1 => image'[b] = <<"gpt", PrimaryHeader>>
        /\ b \in 1 + 1 .. 1 + t => image'[b] = <<"table", b - (1 + 1), Entries>>
        /\ b \in m - 1 - t .. m - 1 - 1 => image'[b] = <<"table", b - (m - 1 - t), Entries>>
        /\ b = m - 1 => image'[b] = <<"gpt", BackupHeader>>
        /\ b = 0 \/ b \in s .. d - 1 => image'[b] = image[b]
  <2> SUFFICES ASSUME NEW b \in 0 .. m - 1
               PROVE  /\ b = 1 => image'[b] = <<"gpt", PrimaryHeader>>
                      /\ b \in 1 + 1 .. 1 + t => image'[b] = <<"table", b - (1 + 1), Entries>>
                      /\ b \in m - 1 - t .. m - 1 - 1 =>
                           image'[b] = <<"table", b - (m - 1 - t), Entries>>
                      /\ b = m - 1 => image'[b] = <<"gpt", BackupHeader>>
                      /\ b = 0 \/ b \in s .. d - 1 => image'[b] = image[b]
    OBVIOUS
  <2>1. image'[b] = CASE b = 1 -> <<"gpt", PrimaryHeader>>
            [] b \in 1 + 1 .. 1 + t -> <<"table", b - (1 + 1), Entries>>
            [] b \in m - 1 - t .. m - 1 - 1 -> <<"table", b - (m - 1 - t), Entries>>
            [] b = m - 1 -> <<"gpt", BackupHeader>>
            [] OTHER -> image[b]
    BY <1>1, <1>3, <1>6, <1>8
  <2>2. /\ t \in Nat \ {0} /\ s \in Nat /\ d \in Nat /\ 1 + 1 + t <= s /\ s <= d
        /\ m \in Nat /\ d + t + 1 <= m
    BY <1>7
  <2> HIDE DEF t, s, d, m, Primary, Backup
  <2> QED BY <2>1, <2>2
<1>10. TablesIn(image)'
  <2>1. PrimaryHeader' = PrimaryHeader /\ BackupHeader' = BackupHeader /\ Entries' = Entries
    BY <1>2 DEF PrimaryHeader, BackupHeader, Entries
  <2>2. /\ t \in Nat \ {0} /\ m \in Nat /\ t + t + 3 <= m
    BY <1>7
  <2> HIDE DEF t, s, d, m, Primary, Backup
  <2>3. /\ image'[1] = <<"gpt", PrimaryHeader>> /\ image'[m - 1] = <<"gpt", BackupHeader>>
        /\ image'[0] = image[0]
    BY <1>9, <2>2
  <2>5. image[0] = <<"mbr", 1, conf.total - 1>>
    BY <1>1 DEF IInv, Entered
  <2>4. ASSUME NEW k \in 0 .. t - 1
        PROVE  /\ image'[1 + 1 + k] = <<"table", k, Entries>>
               /\ image'[m - 1 - t + k] = <<"table", k, Entries>>
    <3> DEFINE x == 1 + 1 + k
               y == m - 1 - t + k
    <3>1. /\ x \in 0 .. m - 1 /\ x \in 1 + 1 .. 1 + t /\ x - (1 + 1) = k
          /\ y \in 0 .. m - 1 /\ y \in m - 1 - t .. m - 1 - 1 /\ y - (m - 1 - t) = k
      BY <2>2
    <3> HIDE DEF x, y
    <3>2. /\ image'[x] = <<"table", x - (1 + 1), Entries>>
          /\ image'[y] = <<"table", y - (m - 1 - t), Entries>>
      BY <1>9, <3>1
    <3> QED BY <3>1, <3>2 DEF x, y
  <2> QED BY <1>2, <2>1, <2>3, <2>4, <2>5 DEF TablesIn, t, m
<1>11. Entered'
  <2>1. \A b \in s .. d - 1 : b \in 0 .. m - 1
    <3>1. s \in Nat /\ d \in Nat /\ m \in Nat /\ d <= m
      BY <1>7
    <3> HIDE DEF s, d, m
    <3> QED BY <3>1
  <2>2. \A b \in s .. d - 1 : image'[b] = Zero
    BY <1>1, <1>9, <2>1 DEF IInv, Entered
  <2> QED BY <1>1, <1>2, <2>2 DEF Entered
<1> QED BY <1>3, <1>4, <1>5, <1>10, <1>11 DEF IInv, Tables

-----------------------------------------------------------------------------
(* The volume.                                                             *)

LEMMA StartStep ==
  ASSUME IInv, StartFAT
  PROVE  IInv'
<1>1. /\ pc = "fat" /\ pc' = "EFI" /\ UNCHANGED <<files, conf, disk, image, dirs, pos>>
      /\ fat' = [c \in 0 .. 2 |-> END_OF_CHAIN_MARKER] /\ free' = 3
  BY DEF StartFAT, Goto, ROOT_CLUSTER
<1>2. UNCHANGED <<flags, size, length, found, dirs, conf, disk, image>>
  BY <1>1 DEF files
<1>3. Types' /\ Layout' /\ Cleanup' /\ conf # NoConf /\ DOMAIN image = 0 .. conf.total - 1
  BY <1>1, MappedStep DEF IInv, Types, Mapped, Volume, Directories
<1>4. Reading'
  BY <1>1, <1>2 DEF IInv, Reading, Before, Unmapped, Mapped, Volume, Directories, Rest
<1>5. Chains'
  BY <1>1 DEF Chains
<1>6. Space'
  <2>1. conf.vol.clusters >= 3
    BY <1>3, LayoutNumbers DEF IInv
  <2> QED BY <1>1, <1>2, <2>1 DEF Space, Volume, Directories
<1>7. Entered' /\ Described'
  BY <1>1, <1>2 DEF IInv, Entered, Described
<1>8. Tables'
  <2>1. MirrorInside => TablesIn(image)
    BY <1>1 DEF IInv, Tables, Written
  <2>2. TablesIn(image) => TablesIn(image)'
    BY <1>2 DEF TablesIn, PrimaryHeader, BackupHeader, Entries
  <2>3. MirrorInside' = MirrorInside
    BY DEF MirrorInside
  <2> QED BY <2>1, <2>2, <2>3 DEF Tables
<1> QED BY <1>3, <1>4, <1>5, <1>6, <1>7, <1>8 DEF IInv

LEMMA AppendKeeps ==
  ASSUME NEW S, NEW s \in Seq(S), NEW z \in S
  PROVE  /\ Append(s, z) \in Seq(S) /\ Len(Append(s, z)) = Len(s) + 1
         /\ Append(s, z)[Len(s) + 1] = z
         /\ \A i \in 1 .. Len(s) : Append(s, z)[i] = s[i]
  OBVIOUS

\* An entry behind the two every directory starts with.
LEMMA AppendThree ==
  ASSUME NEW x, NEW y, NEW z
  PROVE  Range(Append(<<x, y>>, z)) = {x, y, z}
<1> DEFINE S == {x, y, z}
           s == <<x, y>>
           t == Append(s, z)
<1>1. s \in Seq(S) /\ Len(s) = 2 /\ s[1] = x /\ s[2] = y
  OBVIOUS
<1>2. z \in S
  OBVIOUS
<1> HIDE DEF s, S
<1>3. /\ t \in Seq(S) /\ Len(t) = Len(s) + 1 /\ t[Len(s) + 1] = z
      /\ \A i \in 1 .. Len(s) : t[i] = s[i]
  <2>1. s \in Seq(S)
    BY <1>1
  <2>2. /\ Append(s, z) \in Seq(S) /\ Len(Append(s, z)) = Len(s) + 1
        /\ Append(s, z)[Len(s) + 1] = z
    BY <1>2, <2>1, AppendKeeps
  <2>3. \A i \in 1 .. Len(s) : Append(s, z)[i] = s[i]
    BY <1>2, <2>1, AppendKeeps
  <2> QED BY <2>2, <2>3
<1> HIDE DEF t
<1>4. t[1] = x /\ t[2] = y /\ t[3] = z
  BY <1>1, <1>3
<1>5. DOMAIN t = {1, 2, 3}
  BY <1>1, <1>3
<1>6. Range(t) = {x, y, z}
  BY <1>4, <1>5 DEF Range
<1> QED BY <1>6 DEF t, s

\* A directory is entered once: it is not there when it is made.
LEMMA DirectoryIsNew ==
  ASSUME IInv, NEW parent, NEW name,
         \/ pc = "EFI" /\ name = "EFI" /\ parent = ROOT_CLUSTER
         \/ pc = "BOOT" /\ name = "BOOT" /\ parent = dirs.EFI
         \/ pc = "FLOS" /\ name = "FLOS" /\ parent = dirs.EFI
  PROVE  {e \in Range(EntriesIn(parent)) : e.name = name} = {}
<1> DEFINE own == DirEntry(".", 3, 0)
           up == DirEntry("..", ROOT_CLUSTER, 0)
           boot == DirEntry("BOOT", 4, 0)
<1>1. own.name = "." /\ up.name = ".." /\ boot.name = "BOOT"
  BY DEF DirEntry
<1> HIDE DEF own, up, boot
<1>2. CASE pc = "EFI" /\ parent = ROOT_CLUSTER
  <2>1. getDataCluster(ROOT_CLUSTER) \in conf.efiStart .. conf.dataStart - 1
    <3>1. Layout /\ conf # NoConf
      BY <1>2 DEF IInv, Layout, Mapped, Volume, Directories
    <3>2. ROOT_CLUSTER \in Nat /\ ROOT_CLUSTER >= ROOT_CLUSTER
      BY DEF ROOT_CLUSTER
    <3>3. /\ conf.efiStart \in Nat /\ conf.dataStart \in Nat
          /\ conf.vol.clusters \in Nat /\ conf.vol.clusters >= 3
      BY <3>1, LayoutNumbers
    <3>4. ROOT_CLUSTER <= conf.vol.clusters + 1
      BY <3>3 DEF ROOT_CLUSTER
    <3>5. /\ getDataCluster(ROOT_CLUSTER) \in Nat
          /\ getDataCluster(ROOT_CLUSTER) >= conf.efiStart + 8
          /\ getDataCluster(ROOT_CLUSTER) <= conf.dataStart - 1
      BY <3>1, <3>2, <3>4, ClusterInside
    <3> QED BY <3>3, <3>5
  <2>2. image[getDataCluster(ROOT_CLUSTER)] = Zero
    BY <1>2, <2>1 DEF IInv, Entered
  <2>3. EntriesIn(parent) = << >>
    BY <1>2, <2>2 DEF EntriesIn
  <2> QED BY <2>3 DEF Range
<1>3. CASE pc = "BOOT" /\ parent = dirs.EFI /\ name = "BOOT"
  <2>1. parent = 3 /\ image[getDataCluster(parent)] = <<"dir", <<own, up>> >>
    BY <1>3 DEF IInv, Space, Entered, writeDOTEntries, own, up
  <2>2. EntriesIn(parent) = <<own, up>>
    BY <2>1 DEF EntriesIn, Zero
  <2>3. Range(<<own, up>>) = {own, up}
    BY DEF Range
  <2> QED BY <1>1, <1>3, <2>2, <2>3
<1>4. CASE pc = "FLOS" /\ parent = dirs.EFI /\ name = "FLOS"
  <2>1. parent = 3 /\ image[getDataCluster(parent)] = <<"dir", Append(<<own, up>>, boot)>>
    BY <1>4 DEF IInv, Space, Entered, own, up, boot
  <2>2. EntriesIn(parent) = Append(<<own, up>>, boot)
    BY <2>1 DEF EntriesIn, Zero
  <2>3. Range(Append(<<own, up>>, boot)) = {own, up, boot}
    BY AppendThree
  <2> QED BY <1>1, <1>4, <2>2, <2>3
<1> QED BY <1>2, <1>3, <1>4

\* Two writes at clusters of the volume stay inside it.
LEMMA ClustersWritten ==
  ASSUME Layout, conf # NoConf, NEW c \in Nat, NEW d \in Nat, NEW x, NEW y,
         c >= ROOT_CLUSTER, d >= ROOT_CLUSTER,
         c <= conf.vol.clusters + 1, d <= conf.vol.clusters + 1,
         DOMAIN image = 0 .. conf.total - 1,
         image' = [image EXCEPT ![getDataCluster(c)] = x, ![getDataCluster(d)] = y]
  PROVE  /\ WritesInside /\ DOMAIN image' = DOMAIN image
         /\ image'[getDataCluster(d)] = y
         /\ c # d => image'[getDataCluster(c)] = x
<1> DEFINE i == getDataCluster(c)
           j == getDataCluster(d)
<1>1. /\ i \in Nat /\ i <= conf.dataStart - 1 /\ ~Outside(i)
      /\ j \in Nat /\ j <= conf.dataStart - 1 /\ ~Outside(j)
      /\ i = getDataCluster(ROOT_CLUSTER) + (c - ROOT_CLUSTER)
      /\ j = getDataCluster(ROOT_CLUSTER) + (d - ROOT_CLUSTER)
  BY ClusterInside
<1>2. getDataCluster(ROOT_CLUSTER) \in Nat
  <2>1. ROOT_CLUSTER \in Nat /\ ROOT_CLUSTER >= ROOT_CLUSTER
    BY DEF ROOT_CLUSTER
  <2> QED BY <2>1, ClusterInside
<1>3. /\ conf.dataStart \in Nat /\ conf.dataSize \in Nat /\ conf.table \in Nat
      /\ conf.total = conf.dataStart + conf.dataSize + conf.table + 1
  BY LayoutNumbers
<1> DEFINE r == getDataCluster(ROOT_CLUSTER)
<1>4. c # d => i # j
  <2> HIDE DEF i, j, r
  <2>1. i = r + (c - 2) /\ j = r + (d - 2) /\ r \in Nat
    BY <1>1, <1>2 DEF r, ROOT_CLUSTER
  <2> QED BY <2>1
<1> HIDE DEF i, j
<1>5. i \in DOMAIN image /\ j \in DOMAIN image
  BY <1>1, <1>3
<1>6. image' = [image EXCEPT ![i] = x, ![j] = y]
  BY DEF i, j
<1>7. WritesInside
  BY <1>1, <1>6 DEF WritesInside
<1>8. image'[j] = y /\ (c # d => image'[i] = x) /\ DOMAIN image' = DOMAIN image
  BY <1>4, <1>5, <1>6
<1> QED BY <1>7, <1>8 DEF i, j

\* What making any of the three directories comes to.
LEMMA DirectoryMade ==
  ASSUME IInv, NEW parent, NEW name \in Directories, NEW next \in {"BOOT", "FLOS", "readEfi"},
         \/ pc = "EFI" /\ name = "EFI" /\ parent = ROOT_CLUSTER
         \/ pc = "BOOT" /\ name = "BOOT" /\ parent = dirs.EFI
         \/ pc = "FLOS" /\ name = "FLOS" /\ parent = dirs.EFI,
         createOrGetDirectory(name, parent, next)
  PROVE  /\ Types' /\ Layout' /\ Cleanup' /\ Chains' /\ Reading'
         /\ (MirrorInside => TablesIn(image)')
         /\ UNCHANGED conf /\ conf # NoConf
         /\ dirs' = [dirs EXCEPT ![name] = free] /\ free' = free + 1
         /\ pc' \in {next, "noSpace"}
         /\ pc' # "noSpace" => free' <= conf.vol.clusters
         /\ parent # free
         /\ image'[getDataCluster(free)] = writeDOTEntries(free, parent)
         /\ image'[getDataCluster(parent)] = WithEntry(parent, name, free, 0)
<1>1. /\ createContiguousSpaceForNewEntry(1, next)
      /\ image' = [image EXCEPT
           ![getDataCluster(parent)] = WithEntry(parent, name, free, 0),
           ![getDataCluster(free)] = writeDOTEntries(free, parent)]
      /\ dirs' = [dirs EXCEPT ![name] = free]
      /\ UNCHANGED <<files, conf, disk, pos>>
  BY DirectoryIsNew DEF createOrGetDirectory
<1>2. conf # NoConf /\ DOMAIN image = 0 .. conf.total - 1 /\ Layout /\ Chains
  BY DEF IInv, Layout, Mapped, Volume, Directories
<1>3. /\ free \in Nat /\ free >= 3 /\ free <= conf.vol.clusters /\ conf.vol.clusters \in Nat
      /\ parent \in {2, 3} /\ parent < free
  <2>1. free \in Nat /\ conf.vol.clusters \in Nat
    BY <1>2, LayoutNumbers DEF Chains
  <2>2. free >= 3 /\ free <= conf.vol.clusters
    BY DEF IInv, Space, Volume, Directories
  <2>3. parent \in {2, 3} /\ parent < free
    BY DEF IInv, Space, ROOT_CLUSTER
  <2> QED BY <2>1, <2>2, <2>3
<1>4. /\ WritesInside /\ DOMAIN image' = DOMAIN image /\ parent # free
      /\ image'[getDataCluster(free)] = writeDOTEntries(free, parent)
      /\ image'[getDataCluster(parent)] = WithEntry(parent, name, free, 0)
  <2>1. /\ parent \in Nat /\ parent >= ROOT_CLUSTER /\ free >= ROOT_CLUSTER
        /\ parent <= conf.vol.clusters + 1 /\ free <= conf.vol.clusters + 1 /\ parent # free
    BY <1>3 DEF ROOT_CLUSTER
  <2> DEFINE x == WithEntry(parent, name, free, 0)
             y == writeDOTEntries(free, parent)
  <2>2. image' = [image EXCEPT ![getDataCluster(parent)] = x, ![getDataCluster(free)] = y]
    BY <1>1
  <2> HIDE DEF x, y
  <2>3. /\ WritesInside /\ DOMAIN image' = DOMAIN image
        /\ image'[getDataCluster(free)] = y
        /\ parent # free => image'[getDataCluster(parent)] = x
    BY ONLY <1>2, <1>3, <2>1, <2>2, ClustersWritten
  <2> QED BY <2>1, <2>3 DEF x, y
<1>5. /\ Chains' /\ free' = free + 1 /\ pc' \in {next, "noSpace"}
      /\ pc' # "noSpace" => free' <= conf.vol.clusters
  <2>1. CEILING_DIV_VALUE(1, conf.lba) = 1 /\ 1 \in Nat
    BY <1>2, OneCluster
  <2>2. /\ Chains' /\ free' = free + CEILING_DIV_VALUE(1, conf.lba)
        /\ pc' \in {next, "noSpace"}
        /\ pc' # "noSpace" => CEILING_DIV_VALUE(1, conf.lba) < conf.vol.clusters - free
    BY <1>1, <1>2, <2>1, TakesClusters
  <2> QED BY <1>3, <2>1, <2>2
<1>6. /\ pc \in Mapped /\ pc' \in Mapped \cup Stopped
      /\ pc' \in {"BOOT", "FLOS", "readEfi", "noSpace"}
  BY <1>5 DEF Mapped, Volume, Directories, Stopped
<1>7. dirs' \in [Directories -> Nat]
  BY <1>1, <1>3 DEF IInv, Types
<1>8. Types' /\ Layout' /\ Cleanup'
  BY <1>1, <1>4, <1>6, <1>7, MappedStep
<1>9. Reading'
  <2>1. pos = 0 /\ pos' = 0 /\ UNCHANGED size /\ length' = length
    BY <1>1 DEF IInv, Reading, Mapped, Volume, Directories, files
  <2>2. length["efi"] \in Nat /\ size["efi"] \in Nat /\ "efi" \in Files
    BY DEF IInv, Types, Files
  <2> QED BY <1>6, <2>1, <2>2 DEF Reading
<1>10. MirrorInside => TablesIn(image)'
  <2>1. MirrorInside => TablesIn(image)
    BY DEF IInv, Tables, Written, Volume, Directories
  <2> QED BY <1>1, <1>2, <1>4, <1>6, <2>1, TablesStay
<1> QED BY <1>1, <1>2, <1>4, <1>5, <1>8, <1>9, <1>10

LEMMA MakeStep ==
  ASSUME IInv, MakeEFI \/ MakeBOOT \/ MakeFLOS
  PROVE  IInv'
<1>a. MirrorInside' = MirrorInside /\ ROOT_CLUSTER = 2
  BY DEF MirrorInside, ROOT_CLUSTER
<1>b. free \in Nat /\ dirs \in [Directories -> Nat]
  BY DEF IInv, Chains, Types
<1>c. conf' = conf => \A c : getDataCluster(c)' = getDataCluster(c)
  BY DEF getDataCluster, fatStart
<1>1. CASE MakeEFI
  <2>1. /\ pc = "EFI" /\ createOrGetDirectory("EFI", ROOT_CLUSTER, "BOOT")
        /\ "EFI" \in Directories
    BY <1>1 DEF MakeEFI, createOrGetDirectory, Directories
  <2>2. /\ Types' /\ Layout' /\ Cleanup' /\ Chains' /\ Reading'
        /\ (MirrorInside => TablesIn(image)')
        /\ UNCHANGED conf
        /\ dirs' = [dirs EXCEPT !["EFI"] = free] /\ free' = free + 1
        /\ pc' \in {"BOOT", "noSpace"}
        /\ pc' # "noSpace" => free' <= conf.vol.clusters
        /\ image'[getDataCluster(free)] = writeDOTEntries(free, ROOT_CLUSTER)
    BY <2>1, DirectoryMade
  <2>3. free = 3 /\ free' = 4
    BY <2>1, <2>2 DEF IInv, Space
  <2>4. dirs'["EFI"] = 3
    BY <1>b, <2>1, <2>2, <2>3
  <2>5. Space'
    BY <2>2, <2>3, <2>4 DEF Space, Volume, Directories
  <2>6. Entered'
    BY <1>c, <2>2, <2>3 DEF Entered, writeDOTEntries, DirEntry, ROOT_CLUSTER
  <2>7. Tables' /\ Described'
    BY <1>a, <2>2 DEF Tables, Described, Written, Volume, Directories, Rest
  <2> QED BY <2>2, <2>5, <2>6, <2>7 DEF IInv
<1>2. CASE MakeBOOT
  <2>1. /\ pc = "BOOT" /\ createOrGetDirectory("BOOT", dirs.EFI, "FLOS")
        /\ "BOOT" \in Directories /\ "EFI" \in Directories
    BY <1>2 DEF MakeBOOT, createOrGetDirectory, Directories
  <2>2. /\ Types' /\ Layout' /\ Cleanup' /\ Chains' /\ Reading'
        /\ (MirrorInside => TablesIn(image)')
        /\ UNCHANGED conf
        /\ dirs' = [dirs EXCEPT !["BOOT"] = free] /\ free' = free + 1
        /\ pc' \in {"FLOS", "noSpace"}
        /\ pc' # "noSpace" => free' <= conf.vol.clusters
        /\ image'[getDataCluster(dirs.EFI)] = WithEntry(dirs.EFI, "BOOT", free, 0)
    BY <2>1, DirectoryMade
  <2>3. free = 4 /\ free' = 5 /\ dirs["EFI"] = 3
    BY <2>1, <2>2 DEF IInv, Space
  <2>4. dirs'["EFI"] = 3 /\ dirs'["BOOT"] = 4
    BY <1>b, <2>1, <2>2, <2>3
  <2>5. Space'
    BY <2>2, <2>3, <2>4 DEF Space, Volume, Directories
  <2>6. Entered'
    <3>1. image[getDataCluster(3)] = writeDOTEntries(3, ROOT_CLUSTER)
      BY <2>1 DEF IInv, Entered
    <3>2. EntriesIn(3) = <<DirEntry(".", 3, 0), DirEntry("..", ROOT_CLUSTER, 0)>>
      BY <3>1 DEF EntriesIn, writeDOTEntries, Zero
    <3>3. image'[getDataCluster(3)] =
            <<"dir", Append(<<DirEntry(".", 3, 0), DirEntry("..", ROOT_CLUSTER, 0)>>,
                            DirEntry("BOOT", 4, 0))>>
      BY <2>2, <2>3, <3>2 DEF WithEntry
    <3> QED BY <1>c, <2>2, <3>3 DEF Entered, DirEntry, ROOT_CLUSTER
  <2>7. Tables' /\ Described'
    BY <1>a, <2>2 DEF Tables, Described, Written, Volume, Directories, Rest
  <2> QED BY <2>2, <2>5, <2>6, <2>7 DEF IInv
<1>3. CASE MakeFLOS
  <2>1. /\ pc = "FLOS" /\ createOrGetDirectory("FLOS", dirs.EFI, "readEfi")
        /\ {"BOOT", "EFI", "FLOS"} \subseteq Directories
    BY <1>3 DEF MakeFLOS, createOrGetDirectory, Directories
  <2>2. /\ Types' /\ Layout' /\ Cleanup' /\ Chains' /\ Reading'
        /\ (MirrorInside => TablesIn(image)')
        /\ UNCHANGED conf
        /\ dirs' = [dirs EXCEPT !["FLOS"] = free] /\ free' = free + 1
        /\ pc' \in {"readEfi", "noSpace"}
        /\ pc' # "noSpace" => free' <= conf.vol.clusters
    BY <2>1, DirectoryMade
  <2>3. free = 5 /\ free' = 6 /\ dirs["BOOT"] = 4
    BY <2>1, <2>2 DEF IInv, Space
  <2>4. dirs'["FLOS"] = 5 /\ dirs'["BOOT"] = 4
    BY <1>b, <2>1, <2>2, <2>3
  <2>5. Space'
    BY <2>2, <2>3, <2>4 DEF Space, Volume, Directories
  <2>6. Entered'
    BY <2>2 DEF Entered
  <2>7. Tables' /\ Described'
    BY <1>a, <2>2 DEF Tables, Described, Written, Volume, Directories, Rest
  <2> QED BY <2>2, <2>5, <2>6, <2>7 DEF IInv
<1> QED BY <1>1, <1>2, <1>3

-----------------------------------------------------------------------------
(* The files and the rest of the system partition.                         *)

\* Reading up to a number of blocks of a file touches no block behind them.
LEMMA ReadTouches ==
  ASSUME NEW f, NEW base \in Nat, NEW n \in Nat, NEW blocks \in Nat,
         \A k \in Nat : k * conf.lba < pos + n => k < blocks,
         \A b \in DOMAIN image : b \in Nat, image' = ReadTo(f, base, n)
  PROVE  /\ DOMAIN image' = DOMAIN image
         /\ \A b \in DOMAIN image : b < base \/ b >= base + blocks => image'[b] = image[b]
<1>1. image' = [b \in DOMAIN image |->
        IF b >= base /\ (b - base) * conf.lba < pos + n
        THEN FileBlock(f, b - base, pos + n) ELSE image[b]]
  BY DEF ReadTo
<1>2. ASSUME NEW b \in DOMAIN image, b < base \/ b >= base + blocks
      PROVE  image'[b] = image[b]
  <2>1. ~(b >= base /\ (b - base) * conf.lba < pos + n)
    <3> SUFFICES ASSUME b >= base, (b - base) * conf.lba < pos + n PROVE FALSE
      OBVIOUS
    <3> DEFINE k == b - base
    <3>1. k \in Nat /\ b = base + k
      OBVIOUS
    <3>2. k * conf.lba < pos + n
      OBVIOUS
    <3> HIDE DEF k
    <3>3. k < blocks
      BY <3>1, <3>2
    <3> QED BY <1>2, <3>1, <3>3
  <2> QED BY <1>1, <2>1
<1> QED BY <1>1, <1>2

\* The blocks of a file hold what has been read of it.
LEMMA ReadBlocks ==
  ASSUME NEW read \in Nat, NEW bytes \in Nat, NEW lba \in Nat, NEW blocks \in Nat,
         read <= bytes, \A k \in Nat : k * lba < bytes => k < blocks
  PROVE  \A k \in Nat : k * lba < read => k < blocks
<1> SUFFICES ASSUME NEW k \in Nat, k * lba < read PROVE k < blocks
  OBVIOUS
<1> DEFINE x == k * lba
<1>1. x \in Nat /\ x < read
  BY ProductsGrow
<1>2. x < bytes
  <2> HIDE DEF x
  <2> QED BY <1>1
<1> QED BY <1>2

\* read returns part of what the file still has.
LEMMA PartRead ==
  ASSUME Types, pos \in Nat, NEW f \in Files, pos <= length[f], pos < size[f],
         conf.lba \in Nat, NEW n \in Partial(f)
  PROVE  n \in Nat /\ pos + n \in Nat /\ pos + n <= length[f] /\ pos + n <= size[f]
<1>1. size[f] \in Nat /\ length[f] \in Nat /\ length[f] <= size[f]
  BY DEF Types
<1>2. n \in {1, conf.lba, size[f] - pos, length[f] - pos} /\ n <= length[f] - pos
  BY DEF Partial
<1> QED BY <1>1, <1>2

LEMMA ReadEfiStep ==
  ASSUME IInv, ReadEfi
  PROVE  IInv'
<1>0. /\ pc = "readEfi" /\ pos < size["efi"]
      /\ UNCHANGED <<pc, files, conf, disk, volume>>
  BY DEF ReadEfi, ReadSome
<1>1. PICK n \in Partial("efi") : pos' = pos + n /\ image' = ReadTo("efi", EfiBase, n)
  BY DEF ReadEfi, ReadSome
<1>2. UNCHANGED <<flags, size, length, found, fat, free, dirs, conf, disk>>
  BY <1>0 DEF files, volume
<1>3. conf # NoConf /\ DOMAIN image = 0 .. conf.total - 1 /\ Layout
  BY <1>0 DEF IInv, Layout, Mapped, Volume
<1>4. conf.lba \in Nat \ {0} /\ conf.total \in Nat /\ conf.total >= 1
  <2>1. /\ conf.lba \in Nat \ {0} /\ conf.total \in Nat /\ conf.dataStart \in Nat
        /\ conf.dataSize \in Nat /\ conf.table \in Nat
        /\ conf.total = conf.dataStart + conf.dataSize + conf.table + 1
    BY <1>3, LayoutNumbers
  <2> QED BY ONLY <2>1
<1>5. pos \in Nat /\ "efi" \in Files /\ pos <= length["efi"] /\ size["efi"] \in Nat
  BY <1>0 DEF IInv, Reading, Files, Types
<1>6. n \in Nat /\ pos + n \in Nat /\ pos + n <= length["efi"] /\ pos + n <= size["efi"]
  BY <1>0, <1>4, <1>5, PartRead DEF IInv
<1> DEFINE blocks == CEILING_DIV_VALUE(size["efi"], conf.lba)
<1>7. blocks \in Nat /\ \A k \in Nat : k * conf.lba < size["efi"] => k < blocks
  BY <1>4, <1>5, EnoughBlocks
<1>8. /\ free \in Nat /\ free >= 3 /\ free <= conf.vol.clusters /\ conf.vol.clusters \in Nat
      /\ conf.dataStart \in Nat /\ conf.dataSize \in Nat /\ conf.efiStart \in Nat
  <2>1. free \in Nat /\ free >= 3 /\ free <= conf.vol.clusters
    BY <1>0 DEF IInv, Chains, Space, Volume
  <2>2. conf.vol.clusters \in Nat /\ conf.dataStart \in Nat /\ conf.dataSize \in Nat
        /\ conf.efiStart \in Nat
    BY <1>3, LayoutNumbers
  <2> QED BY <2>1, <2>2
<1>9. EfiBase \in Nat /\ EfiBase >= conf.efiStart + 8
      /\ EfiBase = getDataCluster(ROOT_CLUSTER) + (free - ROOT_CLUSTER)
  BY <1>3, <1>8, ClusterInside DEF EfiBase, ROOT_CLUSTER
<1> HIDE DEF blocks
<1>10. /\ DOMAIN image' = DOMAIN image
       /\ \A b \in DOMAIN image : b < EfiBase \/ b >= EfiBase + blocks => image'[b] = image[b]
  <2>1. \A b \in DOMAIN image : b \in Nat
    BY <1>3, <1>4
  <2>2. \A k \in Nat : k * conf.lba < pos + n => k < blocks
    <3>1. conf.lba \in Nat
      BY <1>4
    <3> QED BY ONLY <1>5, <1>6, <1>7, <3>1, ReadBlocks
  <2> DEFINE base == EfiBase
  <2>3. /\ base \in Nat /\ blocks \in Nat /\ n \in Nat
        /\ image' = ReadTo("efi", base, n)
    BY <1>1, <1>6, <1>7, <1>9
  <2> HIDE DEF base
  <2>4. /\ DOMAIN image' = DOMAIN image
        /\ \A b \in DOMAIN image : b < base \/ b >= base + blocks => image'[b] = image[b]
    BY ONLY <2>1, <2>2, <2>3, ReadTouches
  <2> QED BY <2>4 DEF base
<1>11. Types' /\ Layout' /\ Cleanup'
  BY <1>0, <1>2, <1>10, MappedStep DEF IInv, Types, Mapped, Volume
<1>12. Chains' /\ Space' /\ Described' /\ Entered'
  BY <1>0, <1>2 DEF IInv, Chains, Space, Described, Entered
<1>13. Reading'
  BY <1>0, <1>1, <1>2, <1>5, <1>6 DEF Reading, Before, Unmapped, Mapped, Volume, Directories, Rest
<1>14. ASSUME Room
       PROVE  WritesInside
  <2> DEFINE c == free + blocks
             e == getDataCluster(c)
  <2>1. c \in Nat /\ c >= ROOT_CLUSTER /\ c <= conf.vol.clusters + 1
    <3>1. blocks < conf.vol.clusters - free
      BY <1>14 DEF Room, blocks
    <3> QED BY <1>7, <1>8, <3>1 DEF ROOT_CLUSTER
  <2> HIDE DEF c
  <2>2. e \in Nat /\ e <= conf.dataStart - 1
        /\ e = getDataCluster(ROOT_CLUSTER) + (c - ROOT_CLUSTER)
    BY <1>3, <2>1, ClusterInside
  <2>3. EfiBase + blocks = e
    <3> DEFINE r == getDataCluster(ROOT_CLUSTER)
               x == EfiBase
    <3>1. x = r + (free - 2) /\ e = r + (c - 2) /\ c = free + blocks /\ x \in Nat
      BY <1>9, <2>2 DEF ROOT_CLUSTER, c
    <3>2. r \in Nat
      BY <1>3, ClusterInside DEF ROOT_CLUSTER
    <3> HIDE DEF r, x, e
    <3> QED BY <1>7, <1>8, <2>1, <3>1, <3>2 DEF x
  <2>4. ASSUME NEW b \in DOMAIN image, Outside(b)
        PROVE  b < EfiBase \/ b >= EfiBase + blocks
    <3>1. b < conf.efiStart \/ b >= conf.dataStart + conf.dataSize
      BY <2>4 DEF Outside
    <3>2. b \in Nat
      BY <1>3, <1>4
    <3> HIDE DEF e
    <3> QED BY <1>8, <1>9, <2>2, <2>3, <3>1, <3>2
  <2> QED BY <1>10, <2>4 DEF WritesInside
<1>15. Tables'
  <2>1. Room' = Room /\ MirrorInside' = MirrorInside
    BY <1>2 DEF Room, MirrorInside
  <2>2. MirrorInside /\ Room => TablesIn(image)
    BY <1>0 DEF IInv, Tables, Written, Volume
  <2>3. pc \in Mapped
    BY <1>0 DEF Mapped, Volume
  <2>4. MirrorInside /\ Room => TablesIn(image)'
    BY <1>2, <1>3, <1>14, <2>2, <2>3, TablesStay
  <2> QED BY <1>0, <2>1, <2>4 DEF Tables
<1> QED BY <1>11, <1>12, <1>13, <1>15 DEF IInv

\* One write at a cluster of the volume stays inside it.
LEMMA ClusterWritten ==
  ASSUME Layout, conf # NoConf, NEW c \in Nat, NEW x, c >= ROOT_CLUSTER,
         c <= conf.vol.clusters + 1,
         image' = [image EXCEPT ![getDataCluster(c)] = x]
  PROVE  WritesInside /\ DOMAIN image' = DOMAIN image
<1>1. ~Outside(getDataCluster(c))
  BY ClusterInside
<1> DEFINE i == getDataCluster(c)
<1> HIDE DEF i
<1>2. ~Outside(i) /\ image' = [image EXCEPT ![i] = x]
  BY <1>1 DEF i
<1> QED BY <1>2 DEF WritesInside

LEMMA EfiEntryStep ==
  ASSUME IInv, EfiEntry
  PROVE  IInv'
<1>0. /\ pc = "readEfi" /\ pos = size["efi"] /\ pos' = 0
      /\ UNCHANGED <<files, conf, disk, dirs>>
      /\ image' = [image EXCEPT ![getDataCluster(dirs["BOOT"])] =
                     WithEntry(dirs["BOOT"], "BOOTX64 EFI", free, pos)]
      /\ createContiguousSpaceForNewEntry(pos, "kernelInf")
  BY DEF EfiEntry, createFileEntryAfterWritingData
<1>2. UNCHANGED <<flags, size, length, found, dirs, conf, disk>>
  BY <1>0 DEF files
<1>3. conf # NoConf /\ DOMAIN image = 0 .. conf.total - 1 /\ Layout /\ Chains /\ pos \in Nat
  BY <1>0 DEF IInv, Layout, Mapped, Volume, Reading
<1>4. /\ free \in Nat /\ free >= 6 /\ free <= conf.vol.clusters /\ conf.vol.clusters \in Nat
      /\ dirs["BOOT"] = 4 /\ dirs["FLOS"] = 5
  <2>1. conf.vol.clusters \in Nat
    BY <1>3, LayoutNumbers
  <2> QED BY <1>0, <1>3, <2>1 DEF IInv, Chains, Space, Volume
<1> DEFINE n == CEILING_DIV_VALUE(size["efi"], conf.lba)
<1>5. /\ Chains' /\ free' = free + n /\ pc' \in {"kernelInf", "noSpace"}
      /\ pc' # "noSpace" => n < conf.vol.clusters - free
  BY <1>0, <1>3, TakesClusters
<1>6. n \in Nat
  <2>1. conf.lba \in Nat \ {0} /\ size["efi"] \in Nat
    BY <1>0, <1>3, LayoutNumbers
  <2> QED BY <2>1, EnoughBlocks
<1>7. WritesInside /\ DOMAIN image' = DOMAIN image
  <2> DEFINE x == WithEntry(dirs["BOOT"], "BOOTX64 EFI", free, pos)
  <2>1. image' = [image EXCEPT ![getDataCluster(4)] = x]
    BY <1>0, <1>4
  <2> HIDE DEF x
  <2>2. 4 >= ROOT_CLUSTER /\ 4 <= conf.vol.clusters + 1 /\ 4 \in Nat
    BY <1>4 DEF ROOT_CLUSTER
  <2> QED BY ONLY <1>3, <2>1, <2>2, ClusterWritten
<1>8. Types' /\ Layout' /\ Cleanup'
  BY <1>0, <1>2, <1>5, <1>7, MappedStep DEF IInv, Types, Mapped, Volume, Stopped
<1>9. Reading'
  <2>1. "efi" \in Files /\ size["efi"] \in Nat
    BY DEF IInv, Types, Files
  <2>2. pos' \in Nat /\ pos' <= size'["efi"] /\ pos' = 0
    <3>1. pos' = 0 /\ size' = size
      BY <1>0, <1>2
    <3> QED BY ONLY <2>1, <3>1
  <2> QED BY <1>5, <2>1, <2>2 DEF Reading
<1>10. Space'
  <2> HIDE DEF n
  <2>1. pc' # "noSpace" => free' >= 6 /\ free' <= conf.vol.clusters
    BY <1>4, <1>5, <1>6
  <2>2. pc' # "noSpace" => free' >= 3
    BY <1>4, <1>5, <1>6
  <2> QED BY <1>2, <1>4, <1>5, <2>1, <2>2 DEF Space, Volume, Directories
<1>11. Entered' /\ Described'
  BY <1>5 DEF Entered, Described
<1>12. Tables'
  <2>1. pc' # "noSpace" => Room
    BY <1>5 DEF Room
  <2>2. MirrorInside /\ Room => TablesIn(image)
    BY <1>0 DEF IInv, Tables, Written, Volume
  <2>3. pc \in Mapped
    BY <1>0 DEF Mapped, Volume
  <2>4. MirrorInside /\ Room => TablesIn(image)'
    BY <1>2, <1>3, <1>7, <2>2, <2>3, TablesStay
  <2>5. MirrorInside' = MirrorInside
    BY DEF MirrorInside
  <2> QED BY <1>5, <2>1, <2>4, <2>5 DEF Tables, Written, Volume, Directories, Rest
<1> QED BY <1>5, <1>8, <1>9, <1>10, <1>11, <1>12 DEF IInv

\* KERNEL.INF and DISKDATA.INF.
LEMMA InformationWritten ==
  ASSUME IInv, pc \in {"kernelInf", "diskInf"},
         NEW name, NEW block, NEW next \in {"diskInf", "mirror"},
         CREATE_FAT32_FILE(name, dirs.FLOS, block, next),
         UNCHANGED <<files, conf, disk, dirs, pos>>
  PROVE  IInv'
<1>0. /\ image' = [image EXCEPT ![getDataCluster(free)] = block,
                    ![getDataCluster(dirs["FLOS"])] =
                       WithEntry(dirs["FLOS"], name, free, INF_BYTES)]
      /\ createContiguousSpaceForNewEntry(INF_BYTES, next)
      /\ UNCHANGED <<files, conf, disk, dirs, pos>>
  BY DEF CREATE_FAT32_FILE
<1>2. UNCHANGED <<flags, size, length, found, dirs, conf, disk, pos>>
  BY <1>0 DEF files
<1>3. conf # NoConf /\ DOMAIN image = 0 .. conf.total - 1 /\ Layout /\ Chains
  BY <1>0 DEF IInv, Layout, Mapped, Volume
<1>4. /\ free \in Nat /\ free >= 6 /\ free <= conf.vol.clusters /\ conf.vol.clusters \in Nat
      /\ dirs["BOOT"] = 4 /\ dirs["FLOS"] = 5
  <2>1. conf.vol.clusters \in Nat
    BY <1>3, LayoutNumbers
  <2> QED BY <1>0, <1>3, <2>1 DEF IInv, Chains, Space, Volume
<1>5. /\ Chains' /\ free' = free + 1 /\ pc' \in {"diskInf", "mirror", "noSpace"}
      /\ pc' # "noSpace" => free' <= conf.vol.clusters
  <2>1. CEILING_DIV_VALUE(INF_BYTES, conf.lba) = 1 /\ INF_BYTES \in Nat
    BY <1>3, OneCluster
  <2>2. /\ Chains' /\ free' = free + CEILING_DIV_VALUE(INF_BYTES, conf.lba)
        /\ pc' \in {next, "noSpace"}
        /\ pc' # "noSpace" => CEILING_DIV_VALUE(INF_BYTES, conf.lba) < conf.vol.clusters - free
    BY <1>0, <1>3, <2>1, TakesClusters
  <2> QED BY <1>4, <2>1, <2>2
<1>7. WritesInside /\ DOMAIN image' = DOMAIN image
  <2> DEFINE y == WithEntry(dirs["FLOS"], name, free, INF_BYTES)
  <2>1. image' = [image EXCEPT ![getDataCluster(free)] = block, ![getDataCluster(5)] = y]
    BY <1>0, <1>4
  <2> HIDE DEF y
  <2>2. /\ 5 >= ROOT_CLUSTER /\ 5 <= conf.vol.clusters + 1 /\ 5 \in Nat
        /\ free \in Nat /\ free >= ROOT_CLUSTER /\ free <= conf.vol.clusters + 1
    BY <1>4 DEF ROOT_CLUSTER
  <2> QED BY ONLY <1>3, <2>1, <2>2, ClustersWritten
<1>8. Types' /\ Layout' /\ Cleanup'
  BY <1>0, <1>2, <1>5, <1>7, MappedStep DEF IInv, Types, Mapped, Volume, Rest, Stopped
<1>9. Reading'
  <2>1. "efi" \in Files /\ size["efi"] \in Nat
    BY DEF IInv, Types, Files
  <2>2. pos = 0
    BY <1>0 DEF IInv, Reading, Mapped, Volume
  <2> QED BY <1>2, <1>5, <2>1, <2>2 DEF Reading
<1>10. Space'
  BY <1>2, <1>4, <1>5 DEF Space, Volume, Directories
<1>11. Entered' /\ Described'
  BY <1>5 DEF Entered, Described
<1>12. Tables'
  <2>1. MirrorInside => TablesIn(image)
    BY <1>0 DEF IInv, Tables, Written, Volume
  <2>2. pc \in Mapped
    BY <1>0 DEF Mapped, Volume
  <2>3. MirrorInside => TablesIn(image)'
    BY <1>2, <1>3, <1>7, <2>1, <2>2, TablesStay
  <2>4. MirrorInside' = MirrorInside
    BY DEF MirrorInside
  <2> QED BY <1>5, <2>3, <2>4 DEF Tables
<1> QED BY <1>5, <1>8, <1>9, <1>10, <1>11, <1>12 DEF IInv

LEMMA InformationStep ==
  ASSUME IInv, KernelInf \/ DiskInf
  PROVE  IInv'
<1>1. CASE KernelInf
  <2> DEFINE block == <<"kernel.inf", size.kernel, conf.dataStart>>
  <2>1. /\ pc = "kernelInf" /\ CREATE_FAT32_FILE("KERNEL  INF", dirs.FLOS, block, "diskInf")
        /\ UNCHANGED <<files, conf, disk, dirs, pos>>
    BY <1>1 DEF KernelInf
  <2> HIDE DEF block
  <2> QED BY <2>1, InformationWritten
<1>2. CASE DiskInf
  <2> DEFINE block == <<"diskdata.inf", conf.total * conf.lba, conf.total>>
  <2>1. /\ pc = "diskInf" /\ CREATE_FAT32_FILE("DISKDATAINF", dirs.FLOS, block, "mirror")
        /\ UNCHANGED <<files, conf, disk, dirs, pos>>
    BY <1>2 DEF DiskInf
  <2> HIDE DEF block
  <2> QED BY <2>1, InformationWritten
<1> QED BY <1>1, <1>2

-----------------------------------------------------------------------------
(* The copy of the FAT, the parameter block and the kernel.                *)

\* A step on the mapped image behind the volume: nothing but the image changes.
LEMMA RestStep ==
  ASSUME IInv, pc \in Rest, pc' \in {"reserved", "readKernel", "done"},
         UNCHANGED <<files, conf, disk, fat, free, dirs>>, DOMAIN image' = DOMAIN image,
         MirrorInside => WritesInside, Reading', Described'
  PROVE  IInv'
<1>1. pc \in Mapped /\ pc' \in Mapped \cup Stopped
  BY DEF Mapped, Rest, Stopped
<1>2. Types' /\ Layout' /\ Cleanup' /\ conf # NoConf
  BY <1>1, MappedStep DEF IInv, Types
<1>3. Chains'
  BY DEF IInv, Chains
<1>4. Space' /\ Entered'
  BY DEF Space, Entered, Volume, Directories
<1>5. Tables'
  <2>1. MirrorInside => TablesIn(image)
    BY DEF IInv, Tables, Written, Rest
  <2>2. MirrorInside => TablesIn(image)'
    BY <1>1, <2>1, TablesStay DEF IInv
  <2>3. MirrorInside' = MirrorInside
    BY DEF MirrorInside
  <2> QED BY <2>2, <2>3 DEF Tables
<1> QED BY <1>2, <1>3, <1>4, <1>5 DEF IInv

LEMMA MirrorStep ==
  ASSUME IInv, MirrorFAT
  PROVE  IInv'
<1> DEFINE at == fatStart + conf.vol.fatSize * U32_BYTES
<1>1. /\ pc = "mirror" /\ pc' = "reserved" /\ UNCHANGED <<files, conf, disk, volume, pos>>
      /\ image' = [b \in DOMAIN image |->
          IF b - at \in 0 .. conf.vol.fatSize - 1 THEN FatSector(b - at) ELSE image[b]]
  BY DEF MirrorFAT, Goto
<1>2. UNCHANGED <<flags, size, length, found, fat, free, dirs>>
  BY <1>1 DEF files, volume
<1>3. conf # NoConf /\ DOMAIN image = 0 .. conf.total - 1 /\ Layout
  BY <1>1 DEF IInv, Layout, Mapped, Rest
<1>4. Reading' /\ Described'
  BY <1>1, <1>2 DEF IInv, Reading, Described, Before, Unmapped, Mapped, Volume, Directories, Rest
<1>5. MirrorInside => WritesInside
  <2> SUFFICES ASSUME MirrorInside, NEW b \in DOMAIN image, Outside(b)
               PROVE  image'[b] = image[b]
    BY DEF WritesInside
  <2> DEFINE s == conf.efiStart
             r == DEFAULT_RESERVED_SECTORS
             f == conf.vol.fatSize
             d == conf.dataStart
             n == conf.dataSize
             p == conf.efiSize
             m == conf.total
             x == f * U32_BYTES
  <2>1. /\ s \in Nat /\ r \in Nat /\ f \in Nat /\ d \in Nat /\ n \in Nat /\ p \in Nat
        /\ m \in Nat /\ d = s + p
    BY <1>3, LayoutNumbers
  <2>2. x \in Nat /\ (U32_BYTES + 1) * f = x + f
    <3>1. U32_BYTES \in Nat
      BY BlocksAssumption
    <3> QED BY <2>1, <3>1, SMT
  <2>3. r + (x + f) <= p + n
    <3>1. r + (U32_BYTES + 1) * f <= p + n
      BY <1>3 DEF Layout, MirrorFits
    <3> QED BY <2>2, <3>1
  <2>4. b \in 0 .. m - 1 /\ (b < s \/ b >= d + n)
    BY <1>3 DEF Outside
  <2>5. at = s + r + x
    BY DEF fatStart
  <2> HIDE DEF s, r, f, d, n, p, m, x, at
  <2>6. ~(b - at \in 0 .. f - 1)
    BY <2>1, <2>2, <2>3, <2>4, <2>5
  <2> QED BY <1>1, <2>6 DEF f, at
<1>6. DOMAIN image' = DOMAIN image
  BY <1>1
<1>7. pc \in Rest /\ pc' \in {"reserved", "readKernel", "done"}
  BY <1>1 DEF Rest
<1>8. UNCHANGED <<files, conf, disk, fat, free, dirs>>
  BY <1>1, <1>2
<1> HIDE DEF at
<1> QED BY <1>4, <1>5, <1>6, <1>7, <1>8, RestStep

LEMMA ReservedStep ==
  ASSUME IInv, WriteReserved
  PROVE  IInv'
<1> DEFINE info == <<"fsinfo", conf.vol.clusters - free, free>>
           s == conf.efiStart
<1>1. /\ pc = "reserved" /\ pc' = "readKernel" /\ UNCHANGED <<files, conf, disk, volume, pos>>
      /\ image' = [image EXCEPT ![s] = ParameterBlock, ![s + 1] = info,
                                ![s + 6] = ParameterBlock, ![s + 7] = info]
  BY DEF WriteReserved, Goto, ParameterBlock
<1> HIDE DEF info
<1>2. UNCHANGED <<flags, size, length, found, fat, free, dirs>>
  BY <1>1 DEF files, volume
<1>3. conf # NoConf /\ DOMAIN image = 0 .. conf.total - 1 /\ Layout
  BY <1>1 DEF IInv, Layout, Mapped, Rest
<1>4. /\ s \in Nat /\ conf.total \in Nat /\ conf.dataStart \in Nat /\ conf.dataSize \in Nat
      /\ s + 8 <= conf.dataStart /\ conf.dataStart <= conf.total - 1
  <2> DEFINE r == DEFAULT_RESERVED_SECTORS
             f == conf.vol.fatSize
             k == conf.vol.clusters
             v == conf.vol.sectors
             p == conf.efiSize
             d == conf.dataStart
             n == conf.dataSize
             t == conf.table
             m == conf.total
  <2>1. /\ s \in Nat /\ r \in Nat /\ f \in Nat /\ k \in Nat /\ v \in Nat /\ p \in Nat
        /\ d \in Nat /\ n \in Nat /\ t \in Nat /\ m \in Nat /\ r >= 8
        /\ r + 2 * f + k <= v /\ v <= p /\ d = s + p /\ m = d + n + t + 1
    BY <1>3, LayoutNumbers DEF FATs
  <2> HIDE DEF s, r, f, k, v, p, d, n, t, m
  <2>2. s + 8 <= d /\ d <= m - 1
    BY <2>1
  <2> QED BY <2>1, <2>2 DEF d, m, n
<1>5. WritesInside /\ DOMAIN image' = DOMAIN image
  <2>1. ASSUME NEW b \in DOMAIN image, Outside(b)
        PROVE  b # s /\ b # s + 1 /\ b # s + 6 /\ b # s + 7
    <3> DEFINE d == conf.dataStart
               n == conf.dataSize
               m == conf.total
    <3>1. /\ s \in Nat /\ d \in Nat /\ n \in Nat /\ m \in Nat /\ s + 8 <= d
          /\ b \in 0 .. m - 1 /\ (b < s \/ b >= d + n)
      BY <1>3, <1>4, <2>1 DEF Outside
    <3> HIDE DEF s, d, n, m
    <3> QED BY ONLY <3>1
  <2> HIDE DEF s
  <2> QED BY <1>1, <2>1 DEF WritesInside
<1>6. Described'
  <2>1. s \in DOMAIN image /\ s # s + 1 /\ s # s + 6 /\ s # s + 7
    BY <1>3, <1>4
  <2>2. image'[s] = ParameterBlock
    <3> HIDE DEF s
    <3> QED BY <1>1, <2>1
  <2>3. ParameterBlock' = ParameterBlock /\ conf' = conf
    BY <1>1 DEF ParameterBlock
  <2> QED BY <2>2, <2>3 DEF Described
<1>7. Reading'
  <2>1. pos = 0 /\ pos' = 0 /\ size' = size /\ length' = length
    BY <1>1, <1>2 DEF IInv, Reading, Mapped, Rest
  <2>2. "kernel" \in Files /\ size["kernel"] \in Nat /\ length["kernel"] \in Nat
    BY DEF IInv, Types, Files
  <2> QED BY <1>1, <2>1, <2>2 DEF Reading, Before, Unmapped, Mapped, Volume, Directories, Rest
<1>8. pc \in Rest /\ pc' \in {"reserved", "readKernel", "done"}
  BY <1>1 DEF Rest
<1>9. UNCHANGED <<files, conf, disk, fat, free, dirs>>
  BY <1>1, <1>2
<1> QED BY <1>5, <1>6, <1>7, <1>8, <1>9, RestStep

LEMMA KernelStep ==
  ASSUME IInv, ReadKernel
  PROVE  IInv'
<1>0. /\ pc = "readKernel" /\ pos < size["kernel"]
      /\ UNCHANGED <<pc, files, conf, disk, volume>>
  BY DEF ReadKernel, ReadSome
<1>1. PICK n \in Partial("kernel") :
        pos' = pos + n /\ image' = ReadTo("kernel", conf.dataStart, n)
  BY DEF ReadKernel, ReadSome
<1>2. UNCHANGED <<flags, size, length, found, fat, free, dirs, conf, disk>>
  BY <1>0 DEF files, volume
<1>3. conf # NoConf /\ DOMAIN image = 0 .. conf.total - 1 /\ Layout
  BY <1>0 DEF IInv, Layout, Mapped, Rest
<1>4. /\ conf.lba \in Nat /\ conf.total \in Nat /\ conf.dataStart \in Nat
      /\ conf.dataSize \in Nat /\ conf.efiStart \in Nat /\ conf.efiStart < conf.dataStart
      /\ conf.dataStart <= conf.total - 1
  <2> DEFINE s == conf.efiStart
             r == DEFAULT_RESERVED_SECTORS
             f == conf.vol.fatSize
             k == conf.vol.clusters
             v == conf.vol.sectors
             p == conf.efiSize
             d == conf.dataStart
             n_ == conf.dataSize
             t == conf.table
             m == conf.total
  <2>1. /\ s \in Nat /\ r \in Nat /\ f \in Nat /\ k \in Nat /\ v \in Nat /\ p \in Nat
        /\ d \in Nat /\ n_ \in Nat /\ t \in Nat /\ m \in Nat /\ r >= 8 /\ conf.lba \in Nat
        /\ r + 2 * f + k <= v /\ v <= p /\ d = s + p /\ m = d + n_ + t + 1
    BY <1>3, LayoutNumbers DEF FATs
  <2> HIDE DEF s, r, f, k, v, p, d, n_, t, m
  <2>2. s < d /\ d <= m - 1
    BY <2>1
  <2> QED BY <2>1, <2>2 DEF d, m, n_, s
<1>5. pos \in Nat /\ "kernel" \in Files /\ pos <= length["kernel"] /\ size["kernel"] \in Nat
  BY <1>0 DEF IInv, Reading, Files, Types
<1>6. n \in Nat /\ pos + n \in Nat /\ pos + n <= length["kernel"] /\ pos + n <= size["kernel"]
  BY <1>0, <1>4, <1>5, PartRead DEF IInv
<1>7. \A k \in Nat : k * conf.lba < size["kernel"] => k < conf.dataSize
  BY <1>3 DEF Layout, LayoutFits
<1>8. /\ DOMAIN image' = DOMAIN image
      /\ \A b \in DOMAIN image :
           b < conf.dataStart \/ b >= conf.dataStart + conf.dataSize => image'[b] = image[b]
  <2>1. \A b \in DOMAIN image : b \in Nat
    BY <1>3, <1>4
  <2>2. \A k \in Nat : k * conf.lba < pos + n => k < conf.dataSize
    BY ONLY <1>4, <1>5, <1>6, <1>7, ReadBlocks
  <2> DEFINE base == conf.dataStart
             blocks == conf.dataSize
  <2>3. /\ base \in Nat /\ blocks \in Nat /\ n \in Nat
        /\ image' = ReadTo("kernel", base, n)
        /\ \A k \in Nat : k * conf.lba < pos + n => k < blocks
    BY <1>1, <1>4, <1>6, <2>2
  <2> HIDE DEF base, blocks
  <2>4. /\ DOMAIN image' = DOMAIN image
        /\ \A b \in DOMAIN image : b < base \/ b >= base + blocks => image'[b] = image[b]
    BY ONLY <2>1, <2>3, ReadTouches
  <2> QED BY <2>4 DEF base, blocks
<1>9. WritesInside
  <2>1. ASSUME NEW b \in DOMAIN image, Outside(b)
        PROVE  b < conf.dataStart \/ b >= conf.dataStart + conf.dataSize
    BY <1>3, <1>4, <2>1 DEF Outside
  <2> QED BY <1>8, <2>1 DEF WritesInside
<1>10. Described'
  <2>1. conf.efiStart \in DOMAIN image /\ conf.efiStart < conf.dataStart
    BY <1>3, <1>4
  <2>2. image'[conf.efiStart] = image[conf.efiStart]
    BY <1>8, <2>1
  <2>3. image[conf.efiStart] = ParameterBlock
    BY <1>0 DEF IInv, Described
  <2> QED BY <1>2, <2>2, <2>3 DEF Described, ParameterBlock
<1>11. Reading'
  <2>1. pos' \in Nat /\ pos' <= length'["kernel"] /\ pos' <= size'["kernel"]
    BY <1>1, <1>2, <1>6
  <2> QED BY <1>0, <1>5, <2>1 DEF Reading, Before, Unmapped, Mapped, Volume, Directories, Rest
<1>12. pc \in Rest /\ pc' \in {"reserved", "readKernel", "done"}
  BY <1>0 DEF Rest
<1>13. UNCHANGED <<files, conf, disk, fat, free, dirs>>
  BY <1>0, <1>2
<1> QED BY <1>8, <1>9, <1>10, <1>11, <1>12, <1>13, RestStep

LEMMA WrittenStep ==
  ASSUME IInv, DataWritten
  PROVE  IInv'
<1>1. /\ pc = "readKernel" /\ pc' = "done"
      /\ UNCHANGED <<files, conf, disk, image, volume, pos>>
  BY DEF DataWritten, Goto
<1>2. UNCHANGED <<flags, size, length, found, fat, free, dirs>>
  BY <1>1 DEF files, volume
<1>3. WritesInside /\ DOMAIN image' = DOMAIN image
  BY <1>1 DEF WritesInside
<1>4. Reading'
  BY <1>1, <1>2 DEF IInv, Reading, Before, Unmapped, Mapped, Volume, Directories, Rest
<1>5. Described'
  BY <1>1 DEF IInv, Described, ParameterBlock
<1>6. pc \in Rest /\ pc' \in {"reserved", "readKernel", "done"}
  BY <1>1 DEF Rest
<1>7. UNCHANGED <<files, conf, disk, fat, free, dirs>>
  BY <1>1, <1>2
<1> QED BY <1>3, <1>4, <1>5, <1>6, <1>7, RestStep

LEMMA ErrorStep ==
  ASSUME IInv, ReadError
  PROVE  IInv'
<1>1. /\ pc \in {"readEfi", "readKernel"} /\ pc' \in {"assertion", "handler"}
      /\ UNCHANGED <<files, conf, disk, image, volume, pos>>
  BY DEF ReadError, ReadFails, Goto
<1>2. UNCHANGED <<flags, size, length, found, fat, free, dirs>>
  BY <1>1 DEF files, volume
<1>3. Types' /\ Layout' /\ Cleanup'
  BY <1>1, <1>2, MappedStep DEF IInv, Types, Mapped, Volume, Rest, Stopped
<1>4. Chains' /\ Reading'
  BY <1>1, <1>2 DEF IInv, Chains, Reading, Before, Unmapped, Mapped, Volume, Directories, Rest
<1>5. Space' /\ Entered' /\ Tables' /\ Described'
  BY <1>1 DEF Space, Entered, Tables, Described, Written, Volume, Directories, Rest
<1> QED BY <1>3, <1>4, <1>5 DEF IInv

LEMMA StutterStep ==
  ASSUME IInv, UNCHANGED vars
  PROVE  IInv'
<1>1. UNCHANGED <<pc, flags, size, length, conf, found, disk, image, fat, free, dirs, pos>>
  BY DEF vars
<1>2. Types' /\ Cleanup' /\ Chains' /\ Reading' /\ Space'
  BY <1>1 DEF IInv, Types, Cleanup, Chains, Reading, Space
<1>3. Layout'
  BY <1>1 DEF IInv, Layout, LayoutFits, MirrorFits, MirrorInside
<1>4. Entered' /\ Described'
  BY <1>1 DEF IInv, Entered, Described, getDataCluster, fatStart, ParameterBlock
<1>5. Tables'
  BY <1>1 DEF IInv, Tables, Room, MirrorInside, TablesIn, PrimaryHeader, BackupHeader, Entries
<1> QED BY <1>2, <1>3, <1>4, <1>5 DEF IInv

LEMMA NextInv ==
  IInv /\ [Next]_vars => IInv'
<1> SUFFICES ASSUME IInv, [Next]_vars PROVE IInv'
  OBVIOUS
<1>1. CASE ParseArguments \/ OpenEfi \/ OpenKernel
  BY <1>1, ArgumentsStep
<1>2. CASE Configure
  BY <1>2, ConfigureStep
<1>3. CASE openImage \/ Truncate
  BY <1>3, OpenStep
<1>4. CASE MapImage
  BY <1>4, MapStep
<1>5. CASE writeMBR
  BY <1>5, MBRStep
<1>6. CASE writeGPTs
  BY <1>6, GPTStep
<1>7. CASE StartFAT
  BY <1>7, StartStep
<1>8. CASE MakeEFI \/ MakeBOOT \/ MakeFLOS
  BY <1>8, MakeStep
<1>9. CASE ReadEfi
  BY <1>9, ReadEfiStep
<1>10. CASE EfiEntry
  BY <1>10, EfiEntryStep
<1>11. CASE KernelInf \/ DiskInf
  BY <1>11, InformationStep
<1>12. CASE MirrorFAT
  BY <1>12, MirrorStep
<1>13. CASE WriteReserved
  BY <1>13, ReservedStep
<1>14. CASE ReadKernel
  BY <1>14, KernelStep
<1>15. CASE DataWritten
  BY <1>15, WrittenStep
<1>16. CASE ErrorHandler
  BY <1>16, HandlerStep
<1>17. CASE ReadError
  BY <1>17, ErrorStep
<1>18. CASE UNCHANGED vars
  BY <1>18, StutterStep
<1> QED BY <1>1, <1>2, <1>3, <1>4, <1>5, <1>6, <1>7, <1>8, <1>9, <1>10, <1>11, <1>12,
           <1>13, <1>14, <1>15, <1>16, <1>17, <1>18 DEF Next, Step

-----------------------------------------------------------------------------
(* The theorems.                                                           *)

\* What the program has written is what IInv says, in every state.
THEOREM Invariant == Spec => []IInv
  BY InitInv, NextInv, PTL DEF Spec

\* However the program fails, a half-written image stays behind only if stat or
\* unlink failed in the handler, or an assertion ended the program before it; and
\* an image older than the program, which it had not come to open, is kept (main.c).
THEOREM FailuresCleanUp == Spec => []FailureCleansUp
<1>1. IInv => FailureCleansUp
  <2> SUFFICES ASSUME IInv, pc \in Failures PROVE FailureCleansUp
    BY DEF FailureCleansUp
  <2>1. disk = "ours" => pc # "failed"
    BY DEF IInv, Cleanup
  <2>2. conf = NoConf => pc \in {"failed", "uncleaned"}
    BY DEF IInv, Layout, Stopped, Failures
  <2>3. found = "old" /\ conf = NoConf => disk = "old"
    BY <2>2 DEF IInv, Cleanup
  <2> QED BY <2>1, <2>3 DEF FailureCleansUp, Failures
<1> QED BY <1>1, Invariant, PTL

LEMMA TypesHold ==
  ASSUME IInv
  PROVE  TypeOK
<1>1. pc \in Labels /\ size \in [Files -> Nat] /\ length \in [Files -> Nat]
      /\ found \in {"none", "old", "recent"} /\ disk \in {"none", "old", "recent", "ours"}
  BY DEF IInv, Types
<1>2. pc \in {"arguments", "openEfi", "openKernel", "configure", "openImage",
              "truncate", "map", "mbr", "gpt", "fat", "EFI", "BOOT", "FLOS",
              "readEfi", "kernelInf", "diskInf", "mirror", "reserved", "readKernel",
              "handler", "done"} \cup Failures
  BY <1>1 DEF Labels, Before, Unmapped, Mapped, Volume, Directories, Rest, Stopped, Handled,
              Failures
<1>3. conf # NoConf => DOMAIN image \in {{}, 0 .. conf.total - 1}
  BY DEF IInv, Layout
<1>4. /\ \A c \in DOMAIN fat : fat[c] \in {END_OF_CHAIN_MARKER} \cup (c + 1 .. free - 1)
      /\ free \in Nat
  BY DEF IInv, Chains
<1>5. pos \in Nat /\ \E f \in Files : pos <= size[f]
  BY DEF IInv, Reading
<1> QED BY <1>1, <1>2, <1>3, <1>4, <1>5 DEF TypeOK

\* With the tables as they were written, the two copies agree.
LEMMA CopiesAgree ==
  ASSUME IInv, MirrorInside
  PROVE  GPTCopiesAgree
<1> SUFFICES ASSUME pc = "done" PROVE GPTCopiesAgree
  BY DEF GPTCopiesAgree
<1>1. TablesIn(image)
  BY DEF IInv, Tables, Written
<1>2. conf # NoConf /\ Layout
  BY DEF IInv, Layout, Stopped
<1> DEFINE p == PrimaryHeader
           b == BackupHeader
           m == conf.total
           t == conf.table
<1>3. HeaderAt(1) = p /\ HeaderAt(m - 1) = b
  BY <1>1 DEF TablesIn, HeaderAt
<1>4. /\ p.my = 1 /\ p.alternate = m - 1 /\ p.table = 1 + 1
      /\ b.my = m - 1 /\ b.alternate = 1 /\ b.table = m - 1 - t
      /\ p.first = b.first /\ p.last = b.last
      /\ p.entries = calculateCRC32(Entries) /\ b.entries = calculateCRC32(Entries)
  BY DEF PrimaryHeader, BackupHeader, WithCRC
<1>5. \A h \in {p, b} : h.crc = calculateCRC32([h EXCEPT !.crc = NoCRC])
  <2>1. p.crc = calculateCRC32([p EXCEPT !.crc = NoCRC])
    <3> DEFINE base == [my |-> 1, alternate |-> conf.total - 1, first |-> 1 + 1 + conf.table,
                        last |-> conf.total - 1 - conf.table - 1, table |-> 1 + 1,
                        entries |-> calculateCRC32(Entries), crc |-> NoCRC]
               crc == calculateCRC32(base)
    <3>1. p = [base EXCEPT !.crc = crc]
      BY DEF PrimaryHeader, WithCRC
    <3>2. [[base EXCEPT !.crc = crc] EXCEPT !.crc = NoCRC] = base
      <4>1. /\ DOMAIN base = {"my", "alternate", "first", "last", "table", "entries", "crc"}
            /\ base["crc"] = NoCRC
        OBVIOUS
      <4>2. base = [field \in DOMAIN base |-> base[field]]
        OBVIOUS
      <4> HIDE DEF base, crc
      <4>3. "crc" \in DOMAIN base
        BY <4>1
      <4> QED BY <4>1, <4>2, <4>3
    <3>3. p.crc = crc
      BY <3>1
    <3> HIDE DEF p, base
    <3> QED BY <3>1, <3>2, <3>3
  <2>2. b.crc = calculateCRC32([b EXCEPT !.crc = NoCRC])
    <3> DEFINE base == [p EXCEPT !.my = p.alternate, !.alternate = p.my,
                                 !.table = conf.total - 1 - conf.table, !.crc = NoCRC]
               crc == calculateCRC32(base)
    <3>1. b = [base EXCEPT !.crc = crc]
      BY DEF BackupHeader, WithCRC
    <3>2. "crc" \in DOMAIN p
      BY DEF PrimaryHeader, WithCRC
    <3> HIDE DEF p
    <3>3. [[base EXCEPT !.crc = crc] EXCEPT !.crc = NoCRC] = base
      <4> HIDE DEF crc
      <4> QED BY <3>2
    <3>4. b.crc = crc
      BY <3>1, <3>2
    <3> HIDE DEF b, base
    <3> QED BY <3>1, <3>3, <3>4
  <2> QED BY <2>1, <2>2
<1>6. t \in Nat \ {0}
  BY <1>2, LayoutNumbers
<1>7. /\ image[p.table] = <<"table", 0, Entries>> /\ image[b.table] = <<"table", 0, Entries>>
      /\ \A k \in 0 .. t - 1 : /\ image[p.table + k] = <<"table", k, Entries>>
                               /\ image[b.table + k] = <<"table", k, Entries>>
  <2>1. 0 \in 0 .. t - 1
    BY <1>6
  <2>2. \A k \in 0 .. t - 1 : /\ image[p.table + k] = <<"table", k, Entries>>
                              /\ image[b.table + k] = <<"table", k, Entries>>
    BY <1>1, <1>4 DEF TablesIn
  <2>3. p.table + 0 = p.table /\ b.table + 0 = b.table
    <3>1. m \in Nat
      BY <1>2, LayoutNumbers
    <3> QED BY <1>4, <1>6, <3>1
  <2> HIDE DEF p, b
  <2> QED BY <2>1, <2>2, <2>3
<1>8. PartitionsOf(p) = Entries /\ PartitionsOf(b) = Entries
  BY <1>7 DEF PartitionsOf
<1> HIDE DEF p, b
<1> QED BY <1>3, <1>4, <1>5, <1>7, <1>8 DEF GPTCopiesAgree

LEMMA MBRSound ==
  ASSUME IInv, MirrorInside
  PROVE  MBRCovers
<1> SUFFICES ASSUME pc = "done" PROVE MBRCovers
  BY DEF MBRCovers
<1>1. image[0] = <<"mbr", 1, conf.total - 1>> /\ HeaderAt(1) = PrimaryHeader
  BY DEF IInv, Tables, Written, TablesIn, HeaderAt
<1>2. PrimaryHeader.my = 1 /\ PrimaryHeader.alternate = conf.total - 1
  BY DEF PrimaryHeader, WithCRC
<1>3. conf.total \in Nat
  BY LayoutNumbers DEF IInv, Layout, Stopped
<1>4. 1 + (conf.total - 1) - 1 = conf.total - 1
  BY <1>3
<1> QED BY <1>1, <1>2, <1>4 DEF MBRCovers

LEMMA LayoutSound ==
  ASSUME IInv, MirrorInside
  PROVE  PartitionsFit
<1> SUFFICES ASSUME pc = "done" PROVE PartitionsFit
  BY DEF PartitionsFit
<1>1. TablesIn(image) /\ image[conf.efiStart] = ParameterBlock
  BY DEF IInv, Tables, Written, Described
<1>2. conf # NoConf /\ Layout /\ LayoutFits(conf, size["kernel"])
  BY DEF IInv, Layout, Stopped
<1> DEFINE s == conf.efiStart
           p == conf.efiSize
           d == conf.dataStart
           n == conf.dataSize
           t == conf.table
           m == conf.total
           r == DEFAULT_RESERVED_SECTORS
           f == conf.vol.fatSize
           k == conf.vol.clusters
           v == conf.vol.sectors
<1>3. /\ s \in Nat /\ r \in Nat /\ f \in Nat /\ k \in Nat /\ v \in Nat /\ p \in Nat
      /\ d \in Nat /\ n \in Nat /\ t \in Nat \ {0} /\ m \in Nat /\ 1 + 1 + t <= s
      /\ r + 2 * f + k <= v /\ v <= p /\ d = s + p /\ m = d + n + t + 1
      /\ r >= 8
  BY <1>2, LayoutNumbers DEF FATs
<1>4. HeaderAt(1) = PrimaryHeader
  BY <1>1 DEF TablesIn, HeaderAt
<1>5. /\ PrimaryHeader.table = 1 + 1 /\ PrimaryHeader.first = 1 + 1 + t
      /\ PrimaryHeader.last = m - 1 - t - 1
  BY DEF PrimaryHeader, WithCRC
<1>6. PartitionsOf(HeaderAt(1)) = Entries
  <2>1. 0 \in 0 .. t - 1
    BY <1>3
  <2>2. image[1 + 1 + 0] = <<"table", 0, Entries>>
    BY <1>1, <2>1 DEF TablesIn
  <2> QED BY <1>4, <1>5, <2>2 DEF PartitionsOf
<1>7. Entries[1] = <<s, s + p - 1>> /\ Entries[2] = <<d, d + n - 1>>
  BY DEF Entries, fillPartitionEntry
<1>8. BPB = [hidden |-> s, fatSize |-> f, sectors |-> v, reserved |-> r, root |-> ROOT_CLUSTER]
  BY <1>1, <1>6, <1>7 DEF BPB, ParameterBlock
<1>9. ClusterBlock(k + 1) = s + r + 2 * f + (k + 1) - 2
  BY <1>6, <1>7, <1>8 DEF ClusterBlock, FATs, ROOT_CLUSTER
<1>10. s % conf.align = 0 /\ d % conf.align = 0
  BY <1>2 DEF LayoutFits
<1> HIDE DEF s, p, d, n, t, m, r, f, k, v
<1>11. /\ 1 + 1 + t <= s /\ s + p - 1 < d /\ d + n - 1 <= m - 1 - t - 1
       /\ s + v - 1 <= s + p - 1 /\ s + r + 2 * f + (k + 1) - 2 <= s + p - 1
  BY <1>3
<1>12. LET h == HeaderAt(1)
           efi == PartitionsOf(h)[1]
           data == PartitionsOf(h)[2]
       IN /\ h.first <= efi[1] /\ efi[2] < data[1] /\ data[2] <= h.last
          /\ efi[1] % conf.align = 0 /\ data[1] % conf.align = 0
          /\ efi[1] + BPB.sectors - 1 <= efi[2] /\ BPB.hidden = efi[1]
          /\ ClusterBlock(k + 1) <= efi[2]
  BY <1>4, <1>5, <1>6, <1>7, <1>8, <1>9, <1>10, <1>11
<1> QED BY <1>12 DEF PartitionsFit, k

\* Whatever the sizes, no write of the program reaches the MBR and the tables once
\* they are written, they agree, and they describe partitions that fit:
\* MirrorInside excludes only the alignments with which the copy of the FAT leaves
\* the partitions (mbr.c, gpt.c, configuration.c, efi.c).
THEOREM TablesStaySound ==
  ASSUME MirrorInside
  PROVE  Spec => []TablesSound
<1>1. IInv => TablesSound
  BY TypesHold, CopiesAgree, LayoutSound, MBRSound DEF TablesSound
<1> QED BY <1>1, Invariant, PTL
=============================================================================
