---------------------------- MODULE ImageBuilder ----------------------------
(***************************************************************************)
(* The program that writes the disk image (image-builder): a protective    *)
(* MBR, two copies of the partition table, a FAT32 system partition with   *)
(* the EFI application and two information files, and a data partition     *)
(* with the kernel.  The image is a function from blocks to what a block   *)
(* holds; a block is a tuple whose first element names its kind.  Files    *)
(* are read with partial reads and may have become shorter since fstat;    *)
(* every call to the operating system may fail, those of the error handler *)
(* too.  Alignments are powers of two, as ALIGN_UP_VALUE needs them.       *)
(***************************************************************************)
EXTENDS Integers, Sequences, FiniteSets, FiniteSetsExt, SequencesExt

CONSTANTS
  MIN_CLUSTERS_OF_FAT32, DEFAULT_RESERVED_SECTORS, GPT_PARTITION_TABLE_SIZE,
  U32_BYTES,      \* sizeof(U32), one entry of a FAT
  INF_BYTES,      \* size of an information file, at most a sector
  MiB,            \* the alignment when no flag gives one, in bytes
  LBASizes,       \* values of --lba
  Alignments,     \* values of --phys and --optimal-transfer-length, 0 for none
  EfiSizes, KernelSizes

\* A FAT32 volume has room for its reserved sectors, which hold two copies of
\* the parameter block (65526 clusters and 32 sectors in the code).
ASSUME VolumeAssumption ==
  /\ MIN_CLUSTERS_OF_FAT32 \in Nat /\ MIN_CLUSTERS_OF_FAT32 >= 3
  /\ DEFAULT_RESERVED_SECTORS \in Nat /\ DEFAULT_RESERVED_SECTORS >= 8

\* A block holds an entry of a FAT and an information file, and the partition
\* table is a number of whole blocks: --lba is not checked, and with any other
\* value the number is rounded down and what follows is written over the table's end.
ASSUME BlocksAssumption ==
  /\ U32_BYTES \in Nat \ {0} /\ INF_BYTES \in Nat \ {0}
  /\ GPT_PARTITION_TABLE_SIZE \in Nat
  /\ LBASizes \subseteq Nat
  /\ \A lba \in LBASizes :
       /\ U32_BYTES <= lba /\ INF_BYTES <= lba /\ lba <= GPT_PARTITION_TABLE_SIZE
       /\ GPT_PARTITION_TABLE_SIZE % lba = 0

ASSUME ArgumentsAssumption ==
  /\ MiB \in Nat /\ Alignments \subseteq Nat
  /\ EfiSizes \subseteq Nat /\ KernelSizes \subseteq Nat

VARIABLES
  pc,
  flags,      \* what the arguments gave
  size,       \* sizes of the two files at fstat
  length,     \* and what is there when they are read
  conf,       \* configuration, parameterBlock and the sizes of the FAT
  found,      \* the image of an earlier run: "none", "old", or "recent" when
              \* it was written in the second in which this program started
  disk,       \* the image file now: "none", "old", "recent" or "ours"
  image,      \* block -> content, once it is mapped
  fat,        \* PRIMARY_FAT
  free,       \* CURRENT_FREE_DATA_CLUSTER_INDEX
  dirs,       \* clusters of the directories EFI, BOOT and FLOS
  pos         \* bytes of the current file that were read

vars == <<pc, flags, size, length, conf, found, disk, image, fat, free, dirs, pos>>
files == <<flags, size, length, found>>
volume == <<fat, free, dirs>>

ROOT_CLUSTER == 2
END_OF_CHAIN_MARKER == -1
FATs == 2
Zero == <<"zero">>
NoConf == [total |-> 0]

ALIGN_UP_VALUE(val, align) == ((val + align - 1) \div align) * align
CEILING_DIV_VALUE(val, divisor) == (val + divisor - 1) \div divisor

Files == {"efi", "kernel"}

\* The ends without an image: the handler returned, with its own calls answered
\* ("failed") or not ("uncleaned"), or an assertion ended the program.
Failures == {"failed", "uncleaned", "assertion", "noSpace"}

\* The types of the image and the volume: an entry of the FAT ends its chain or
\* leads to a later cluster in use.
TypeOK ==
  /\ pc \in {"arguments", "openEfi", "openKernel", "configure", "openImage",
             "truncate", "map", "mbr", "gpt", "fat", "EFI", "BOOT", "FLOS",
             "readEfi", "kernelInf", "diskInf", "mirror", "reserved", "readKernel",
             "handler", "done"} \cup Failures
  /\ size \in [Files -> Nat] /\ length \in [Files -> Nat]
  /\ found \in {"none", "old", "recent"}
  /\ disk \in {"none", "old", "recent", "ours"}
  /\ conf # NoConf => DOMAIN image \in {{}, 0 .. conf.total - 1}
  /\ \A c \in DOMAIN fat : fat[c] \in {END_OF_CHAIN_MARKER} \cup (c + 1 .. free - 1)
  /\ free \in Nat /\ pos \in Nat /\ \E f \in Files : pos <= size[f]

Init ==
  /\ pc = "arguments"
  /\ flags \in [efi : BOOLEAN, kernel : BOOLEAN, phys : Alignments,
                optimal : Alignments, lba : LBASizes]
  /\ size \in [efi : EfiSizes, kernel : KernelSizes]
  /\ length \in {size, [size EXCEPT !.efi = @ - 1], [size EXCEPT !.kernel = @ - 1]}
  /\ \A f \in Files : length[f] >= 0
  /\ found \in {"none", "old", "recent"} /\ disk = found
  /\ conf = NoConf /\ image = << >> /\ fat = << >> /\ free = 0
  /\ dirs = [EFI |-> 0, BOOT |-> 0, FLOS |-> 0] /\ pos = 0

-----------------------------------------------------------------------------
(* The arguments, the files and the layout.                                *)

Goto(label) == pc' = label

\* Without both files the usage is printed, and the handler is entered.
ParseArguments ==
  /\ pc = "arguments"
  /\ Goto(IF flags.efi /\ flags.kernel THEN "openEfi" ELSE "handler")
  /\ UNCHANGED <<files, conf, disk, image, volume, pos>>

\* open's failure is -1 and only 0 is tested: it is fstat that refuses it.
openFile(here, next) ==
  /\ pc = here
  /\ Goto(next) \/ Goto("handler")
  /\ UNCHANGED <<files, conf, disk, image, volume, pos>>

\* Sizes of the FAT32 volume, in sectors, which are blocks and clusters too.
calculateEFIPartitionSize(application, lba, align) ==
  LET required == Max({MIN_CLUSTERS_OF_FAT32, application + 1 + 1})
      clusters == ALIGN_UP_VALUE(required, align)
      fatSize == CEILING_DIV_VALUE(clusters, lba \div U32_BYTES)
      front == ALIGN_UP_VALUE(DEFAULT_RESERVED_SECTORS + fatSize * FATs, align)
  IN [clusters |-> clusters,
      fatSize |-> (front - DEFAULT_RESERVED_SECTORS) \div FATs,
      sectors |-> front + clusters]

\* Variant with a defect: the partition starts right behind the table, wherever that is.
EfiStartUnaligned(table, align) == 1 + 1 + table

EfiStart(table, align) == ALIGN_UP_VALUE(1 + 1 + table, align)

setConfiguration(efiSize, kernelSize, alignment, lba) ==
  LET align == IF alignment > lba THEN alignment \div lba ELSE 1
      table == GPT_PARTITION_TABLE_SIZE \div lba
      vol == calculateEFIPartitionSize(CEILING_DIV_VALUE(efiSize, lba), lba, align)
      start == EfiStart(table, align)
      partition == ALIGN_UP_VALUE(vol.sectors, align)
      dataSize == CEILING_DIV_VALUE(kernelSize, lba)
  IN [lba |-> lba, align |-> align, table |-> table, vol |-> vol,
      efiStart |-> start, efiSize |-> partition,
      dataStart |-> start + partition, dataSize |-> dataSize,
      total |-> start + partition + dataSize + table + 1]

Configure ==
  /\ pc = "configure" /\ Goto("openImage")
  /\ LET asked == Max({flags.phys, flags.optimal})
     IN  conf' = setConfiguration(size.efi, size.kernel,
                                  IF asked = 0 THEN MiB ELSE asked, flags.lba)
  /\ UNCHANGED <<files, disk, image, volume, pos>>

-----------------------------------------------------------------------------
(* createUEFIImage: the file, its size and its mapping.                    *)

openImage ==
  /\ pc = "openImage"
  /\ \/ Goto("truncate") /\ disk' = "ours"
     \/ Goto("handler") /\ UNCHANGED disk
  /\ UNCHANGED <<files, conf, image, volume, pos>>

Truncate ==
  /\ pc = "truncate"
  /\ Goto("map") \/ Goto("handler")
  /\ UNCHANGED <<files, conf, disk, image, volume, pos>>

MapImage ==
  /\ pc = "map"
  /\ \/ Goto("mbr") /\ image' = [b \in 0 .. conf.total - 1 |-> Zero]
     \/ Goto("handler") /\ UNCHANGED image
  /\ UNCHANGED <<files, conf, disk, volume, pos>>

\* Variant with a defect: the protective partition is as long as the whole disk.
writeMBRWhole ==
  /\ pc = "mbr" /\ Goto("gpt")
  /\ image' = [image EXCEPT ![0] = <<"mbr", 1, conf.total>>]
  /\ UNCHANGED <<files, conf, disk, volume, pos>>

\* First block and number of blocks.  The number is a U32, which is enough for
\* disks of less than 2^32 blocks; a larger one is given as U32_MAX.
writeMBR ==
  /\ pc = "mbr" /\ Goto("gpt")
  /\ image' = [image EXCEPT ![0] = <<"mbr", 1, conf.total - 1>>]
  /\ UNCHANGED <<files, conf, disk, volume, pos>>

\* The CRC stands for what it is computed over.
calculateCRC32(data) == <<data>>
NoCRC == << >>

fillPartitionEntry(start, length_) == <<start, start + length_ - 1>>

Entries == <<fillPartitionEntry(conf.efiStart, conf.efiSize),
             fillPartitionEntry(conf.dataStart, conf.dataSize)>>

WithCRC(header) ==
  [header EXCEPT !.crc = calculateCRC32(header)]

PrimaryHeader ==
  WithCRC([my |-> 1, alternate |-> conf.total - 1, first |-> 1 + 1 + conf.table,
           last |-> conf.total - 1 - conf.table - 1, table |-> 1 + 1,
           entries |-> calculateCRC32(Entries), crc |-> NoCRC])

\* Variant with a defect: the CRC of the primary header is still in it when the next is computed.
BackupHeaderKeepsCRC ==
  WithCRC([PrimaryHeader EXCEPT !.my = PrimaryHeader.alternate,
                                !.alternate = PrimaryHeader.my,
                                !.table = conf.total - 1 - conf.table])

BackupHeader ==
  WithCRC([PrimaryHeader EXCEPT !.my = PrimaryHeader.alternate,
                                !.alternate = PrimaryHeader.my,
                                !.table = conf.total - 1 - conf.table,
                                !.crc = NoCRC])

writeGPTs ==
  LET Table(header) == {header.table + k : k \in 0 .. conf.table - 1}
  IN /\ pc = "gpt" /\ Goto("fat")
     /\ image' = [b \in DOMAIN image |->
          CASE b = 1 -> <<"gpt", PrimaryHeader>>
            [] b \in Table(PrimaryHeader) -> <<"table", b - PrimaryHeader.table, Entries>>
            [] b \in Table(BackupHeader) -> <<"table", b - BackupHeader.table, Entries>>
            [] b = BackupHeader.my -> <<"gpt", BackupHeader>>
            [] OTHER -> image[b]]
     /\ UNCHANGED <<files, conf, disk, volume, pos>>

-----------------------------------------------------------------------------
(* The FAT32 volume.  Names are those of the source, without the padding.  *)
(* A cluster of a directory is zero or a sequence of entries.  An          *)
(* assertion that fails ends the model: a build without assertions would   *)
(* go on to write past the end of the volume.                              *)

fatStart == conf.efiStart + DEFAULT_RESERVED_SECTORS
getDataCluster(c) == fatStart + conf.vol.fatSize * FATs + c - ROOT_CLUSTER

\* Variant with a defect: a file of n whole clusters ends one cluster later.
createContiguousSpaceForNewEntryBeyond(bytes, next) ==
  LET end == free + bytes \div conf.lba + 1
  IN /\ fat' = [c \in 0 .. end - 1 |-> IF c < free THEN fat[c]
                   ELSE IF c = end - 1 THEN END_OF_CHAIN_MARKER ELSE c + 1]
     /\ free' = end
     /\ Goto(IF bytes > 0 /\ end < conf.vol.clusters THEN next ELSE "noSpace")

createContiguousSpaceForNewEntry(bytes, next) ==
  LET end == free + CEILING_DIV_VALUE(bytes, conf.lba)
  IN /\ fat' = [c \in 0 .. end - 1 |-> IF c < free THEN fat[c]
                   ELSE IF c = end - 1 THEN END_OF_CHAIN_MARKER ELSE c + 1]
     /\ free' = end
     /\ Goto(IF bytes > 0 /\ end - free < conf.vol.clusters - free
             THEN next ELSE "noSpace")

DirEntry(name, cluster, bytes) == [name |-> name, cluster |-> cluster, bytes |-> bytes]

EntriesIn(c) ==
  LET block == image[getDataCluster(c)]
  IN IF block = Zero THEN << >> ELSE block[2]

\* The block of directory c with one more entry.
WithEntry(c, name, cluster, bytes) ==
  <<"dir", Append(EntriesIn(c), DirEntry(name, cluster, bytes))>>

writeDOTEntries(c, parent) ==
  <<"dir", <<DirEntry(".", c, 0), DirEntry("..", parent, 0)>> >>

\* Variant with a defect: the root directory's entry is left free.
StartFATFree ==
  /\ pc = "fat" /\ Goto("EFI")
  /\ fat' = [c \in 0 .. ROOT_CLUSTER |-> IF c = 2 THEN 0 ELSE END_OF_CHAIN_MARKER]
  /\ free' = ROOT_CLUSTER + 1
  /\ UNCHANGED <<files, conf, disk, image, dirs, pos>>

\* The two reserved entries and the root directory.
StartFAT ==
  /\ pc = "fat" /\ Goto("EFI")
  /\ fat' = [c \in 0 .. ROOT_CLUSTER |-> END_OF_CHAIN_MARKER]
  /\ free' = ROOT_CLUSTER + 1
  /\ UNCHANGED <<files, conf, disk, image, dirs, pos>>

createOrGetDirectory(name, parent, next) ==
  LET there == {e \in Range(EntriesIn(parent)) : e.name = name}
  IN /\ pc = name
     /\ IF there # {}
        THEN /\ dirs' = [dirs EXCEPT ![name] = (CHOOSE e \in there : TRUE).cluster]
             /\ Goto(next) /\ UNCHANGED <<image, fat, free>>
        ELSE /\ createContiguousSpaceForNewEntry(1, next)
             /\ image' = [image EXCEPT
                  ![getDataCluster(parent)] = WithEntry(parent, name, free, 0),
                  ![getDataCluster(free)] = writeDOTEntries(free, parent)]
             /\ dirs' = [dirs EXCEPT ![name] = free]
     /\ UNCHANGED <<files, conf, disk, pos>>

\* The entry of a file whose data starts in the next free cluster.
createFileEntryAfterWritingData(name, parent, bytes, next) ==
  /\ image' = [image EXCEPT ![getDataCluster(parent)] = WithEntry(parent, name, free, bytes)]
  /\ createContiguousSpaceForNewEntry(bytes, next)

\* A file of one cluster.
CREATE_FAT32_FILE(name, parent, block, next) ==
  /\ image' = [image EXCEPT
       ![getDataCluster(free)] = block,
       ![getDataCluster(parent)] = WithEntry(parent, name, free, INF_BYTES)]
  /\ createContiguousSpaceForNewEntry(INF_BYTES, next)

-----------------------------------------------------------------------------
(* Reading a file into the image: read returns any part of what is left,   *)
(* an error, or nothing once the end of the file is reached, which leaves  *)
(* the loop where it was.                                                  *)

\* What a block holds of the first `upto` bytes of a file: its first byte, its bytes.
FileBlock(f, k, upto) ==
  <<f, k * conf.lba, Min({conf.lba, upto - k * conf.lba})>>

\* The first n bytes of the file are in the image from block `base` on.
ReadTo(f, base, n) ==
  [b \in DOMAIN image |->
     IF b >= base /\ (b - base) * conf.lba < pos + n
     THEN FileBlock(f, b - base, pos + n) ELSE image[b]]

Partial(f) ==
  {n \in {1, conf.lba, size[f] - pos, length[f] - pos} : n <= length[f] - pos}

\* Variant with a defect: the pointer into the image is not moved on.
ReadSomeStays(f, here, base) ==
  /\ pc = here /\ pos < size[f]
  /\ \E n \in Partial(f) : pos' = pos /\ image' = ReadTo(f, base, n)
  /\ UNCHANGED <<pc, files, conf, disk, volume>>

ReadSome(f, here, base) ==
  /\ pc = here /\ pos < size[f]
  /\ \E n \in Partial(f) : pos' = pos + n /\ image' = ReadTo(f, base, n)
  /\ UNCHANGED <<pc, files, conf, disk, volume>>

\* With assertions ASSERT(false) ends the program before the message.
ReadFails(f, here) ==
  /\ pc = here /\ pos < size[f]
  /\ Goto("assertion") \/ Goto("handler")
  /\ UNCHANGED <<files, conf, disk, image, volume, pos>>

EfiEntry ==
  /\ pc = "readEfi" /\ pos = size.efi
  /\ createFileEntryAfterWritingData("BOOTX64 EFI", dirs.BOOT, pos, "kernelInf")
  /\ pos' = 0
  /\ UNCHANGED <<files, conf, disk, dirs>>

\* Variant with a defect: the kernel is looked for behind the clusters of the volume.
KernelInfVolumeEnd ==
  /\ pc = "kernelInf"
  /\ CREATE_FAT32_FILE("KERNEL  INF", dirs.FLOS,
       <<"kernel.inf", size.kernel, getDataCluster(conf.vol.clusters)>>, "diskInf")
  /\ UNCHANGED <<files, conf, disk, dirs, pos>>

KernelInf ==
  /\ pc = "kernelInf"
  /\ CREATE_FAT32_FILE("KERNEL  INF", dirs.FLOS,
       <<"kernel.inf", size.kernel, conf.dataStart>>, "diskInf")
  /\ UNCHANGED <<files, conf, disk, dirs, pos>>

DiskInf ==
  /\ pc = "diskInf"
  /\ CREATE_FAT32_FILE("DISKDATAINF", dirs.FLOS,
       <<"diskdata.inf", conf.total * conf.lba, conf.total>>, "mirror")
  /\ UNCHANGED <<files, conf, disk, dirs, pos>>

FatSector(k) ==
  LET per == conf.lba \div U32_BYTES
  IN <<"fat", [j \in 0 .. per - 1 |->
        IF k * per + j \in DOMAIN fat THEN fat[k * per + j] ELSE 0]>>

\* mirrorLocation is a U32 *, so adding FAT_SIZE_BYTES moves U32_BYTES as far.
MirrorFAT ==
  LET mirrorLocation == fatStart + conf.vol.fatSize * U32_BYTES
  IN /\ pc = "mirror" /\ Goto("reserved")
     /\ image' = [b \in DOMAIN image |->
          IF b - mirrorLocation \in 0 .. conf.vol.fatSize - 1
          THEN FatSector(b - mirrorLocation) ELSE image[b]]
     /\ UNCHANGED <<files, conf, disk, volume, pos>>

\* The parameter block in sectors 0 and 6, the information in 1 and 7.
WriteReserved ==
  LET block == <<"bpb", [hidden |-> conf.efiStart, fatSize |-> conf.vol.fatSize,
                         sectors |-> conf.vol.sectors,
                         reserved |-> DEFAULT_RESERVED_SECTORS,
                         root |-> ROOT_CLUSTER]>>
      info == <<"fsinfo", conf.vol.clusters - free, free>>
  IN /\ pc = "reserved" /\ Goto("readKernel")
     /\ image' = [image EXCEPT ![conf.efiStart] = block, ![conf.efiStart + 1] = info,
                               ![conf.efiStart + 6] = block, ![conf.efiStart + 7] = info]
     /\ UNCHANGED <<files, conf, disk, volume, pos>>

DataWritten ==
  /\ pc = "readKernel" /\ pos = size.kernel
  /\ Goto("done")
  /\ UNCHANGED <<files, conf, disk, image, volume, pos>>

\* Variant with a defect: an image changed since the program started is left alone.
ErrorHandlerOld ==
  /\ pc = "handler"
  /\ \/ /\ Goto("failed")
        /\ disk' = IF disk = "old" THEN "none" ELSE disk
     \/ disk # "none" /\ Goto("uncleaned") /\ UNCHANGED disk
  /\ UNCHANGED <<files, conf, image, volume, pos>>

\* main's handler: an image not older than the program is removed.  A stat that
\* fails, as it does when there is no image, ends it; what unlink returns is ignored.
ErrorHandler ==
  /\ pc = "handler"
  /\ \/ /\ Goto("failed")
        /\ disk' = IF disk \in {"recent", "ours"} THEN "none" ELSE disk
     \/ disk # "none" /\ Goto("uncleaned") /\ UNCHANGED disk
  /\ UNCHANGED <<files, conf, image, volume, pos>>

OpenEfi == openFile("openEfi", "openKernel")
OpenKernel == openFile("openKernel", "configure")
MakeEFI == createOrGetDirectory("EFI", ROOT_CLUSTER, "BOOT")
MakeBOOT == createOrGetDirectory("BOOT", dirs.EFI, "FLOS")
MakeFLOS == createOrGetDirectory("FLOS", dirs.EFI, "readEfi")
EfiBase == getDataCluster(free)
ReadEfi == ReadSome("efi", "readEfi", EfiBase)
ReadKernel == ReadSome("kernel", "readKernel", conf.dataStart)
ReadError == ReadFails("efi", "readEfi") \/ ReadFails("kernel", "readKernel")

Step ==
  \/ ParseArguments \/ OpenEfi \/ OpenKernel \/ Configure
  \/ openImage \/ Truncate \/ MapImage \/ writeMBR \/ writeGPTs
  \/ StartFAT \/ MakeEFI \/ MakeBOOT \/ MakeFLOS
  \/ ReadEfi \/ EfiEntry \/ KernelInf \/ DiskInf \/ MirrorFAT \/ WriteReserved \/ ReadKernel \/ DataWritten \/ ErrorHandler

Next == Step \/ ReadError

Spec == Init /\ [][Next]_vars

\* The builder is one sequential program that keeps running; a read that
\* returns nothing is a step that changes nothing, and no failure is owed.
FairSpec == Spec /\ WF_vars(Step)

-----------------------------------------------------------------------------
(* What a reader of the image finds, from the image alone.                 *)

HeaderAt(b) == image[b][2]
PartitionsOf(header) == image[header.table][3]
BPB == image[PartitionsOf(HeaderAt(1))[1][1]][2]
ClusterBlock(c) ==
  PartitionsOf(HeaderAt(1))[1][1] + BPB.reserved + FATs * BPB.fatSize + c - ROOT_CLUSTER

\* The n-th cluster of the chain that starts at c, by the primary FAT.
InChain(c, n) ==
  LET nth[i \in 0 .. n] ==
        IF i = 0 THEN c
        ELSE IF nth[i - 1] \in DOMAIN fat THEN fat[nth[i - 1]] ELSE 0
  IN nth[n]

\* The entry at the end of a path of names.
Entry(path) ==
  LET at[i \in 0 .. Len(path)] ==
        IF i = 0 THEN [cluster |-> BPB.root, bytes |-> 0]
        ELSE LET block == image[ClusterBlock(at[i - 1].cluster)]
             IN CHOOSE e \in Range(block[2]) : e.name = path[i]
  IN at[Len(path)]

\* The file at the path has `bytes` bytes, and its i-th cluster is content[i].
Holds(path, bytes, Content(_)) ==
  LET e == Entry(path)
      n == CEILING_DIV_VALUE(bytes, conf.lba)
  IN /\ e.bytes = bytes
     /\ \A i \in 0 .. n - 1 : image[ClusterBlock(InChain(e.cluster, i))] = Content(i)
     /\ InChain(e.cluster, n) = END_OF_CHAIN_MARKER

\* No cluster in use lies where the copy of the FAT is written.
ClearOfMirror == free - ROOT_CLUSTER <= (U32_BYTES - FATs) * conf.vol.fatSize

\* The two copies of the partition table are valid, name each other, lie where
\* they say, and describe the same disk (gpt.c: writeGPTs changes one header in
\* place into the other, and its CRC covers the field the CRC is kept in).
GPTCopiesAgree ==
  pc = "done" =>
    LET p == HeaderAt(1)
        b == HeaderAt(conf.total - 1)
    IN /\ p.my = 1 /\ b.my = conf.total - 1 /\ p.alternate = b.my /\ b.alternate = p.my
       /\ \A h \in {p, b} :
            /\ h.crc = calculateCRC32([h EXCEPT !.crc = NoCRC])
            /\ h.entries = calculateCRC32(PartitionsOf(h))
            /\ \A k \in 0 .. conf.table - 1 : image[h.table + k] = <<"table", k, PartitionsOf(p)>>
       /\ p.first = b.first /\ p.last = b.last

\* The partitions are aligned as asked, do not overlap, lie between the two
\* copies of the table, and the volume fits in its own (configuration.c: sizes
\* are rounded in three places, with three alignments).
PartitionsFit ==
  pc = "done" =>
    LET h == HeaderAt(1)
        efi == PartitionsOf(h)[1]
        data == PartitionsOf(h)[2]
    IN /\ h.first <= efi[1] /\ efi[2] < data[1] /\ data[2] <= h.last
       /\ efi[1] % conf.align = 0 /\ data[1] % conf.align = 0
       /\ efi[1] + BPB.sectors - 1 <= efi[2] /\ BPB.hidden = efi[1]
       /\ ClusterBlock(conf.vol.clusters + 1) <= efi[2]

\* From the partition table, the parameter block, the directories and the FAT a
\* firmware reads the EFI application exactly as it was in its file, as long as
\* the volume is used up to where the copy of the FAT is put (efi.c).
FirmwareFindsLoader ==
  pc = "done" /\ ClearOfMirror =>
    Holds(<<"EFI", "BOOT", "BOOTX64 EFI">>, size.efi,
          LAMBDA i : FileBlock("efi", i, size.efi))

\* The information files give the kernel's size, a block from which the kernel
\* is read exactly as it was in its file, and the size of the disk (efi.c, data.c).
LoaderFindsKernel ==
  pc = "done" /\ ClearOfMirror =>
    LET inf == image[ClusterBlock(Entry(<<"EFI", "FLOS", "KERNEL  INF">>).cluster)]
    IN /\ Holds(<<"EFI", "FLOS", "KERNEL  INF">>, INF_BYTES, LAMBDA i : inf)
       /\ inf[2] = size.kernel
       /\ \A k \in 0 .. CEILING_DIV_VALUE(size.kernel, conf.lba) - 1 :
            image[inf[3] + k] = FileBlock("kernel", k, size.kernel)
       /\ Holds(<<"EFI", "FLOS", "DISKDATAINF">>, INF_BYTES,
                LAMBDA i : <<"diskdata.inf", Cardinality(DOMAIN image) * conf.lba,
                             Cardinality(DOMAIN image)>>)

\* However the program fails, a half-written image stays behind only if stat or
\* unlink failed in the handler, or an assertion ended the program before it; and
\* an image older than the program, which it had not come to open, is kept (main.c).
FailureCleansUp ==
  pc \in Failures =>
    /\ disk = "ours" => pc \in {"uncleaned", "assertion", "noSpace"}
    /\ found = "old" /\ conf = NoConf => disk = "old"

\* The builder comes to an end, unless a file became shorter than fstat said: the
\* loop that reads it then goes round for ever.
BuilderEnds ==
  (length = size) => <>(pc \in {"done"} \cup Failures)

\* The protective partition of the MBR covers the disk from the header of the
\* first copy of the table to that of the second (mbr.c).
MBRCovers ==
  pc = "done" =>
    LET mbr == image[0]
    IN mbr[2] = HeaderAt(1).my /\ mbr[2] + mbr[3] - 1 = HeaderAt(1).alternate

\* The MBR and the two partition tables agree with each other and with the partitions.
TablesSound == TypeOK /\ GPTCopiesAgree /\ PartitionsFit /\ MBRCovers

\* What was written is read back by the firmware and by the loader.
ReadBack == FirmwareFindsLoader /\ LoaderFindsKernel
=============================================================================
