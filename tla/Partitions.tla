----------------------------- MODULE Partitions ------------------------------
(***************************************************************************)
(* Finding the volumes of a disk: the MBR and GPT walk of partition.c, and *)
(* the probes and mounts of fat.c and ntfs.c it calls, over one disk whose *)
(* sectors may say anything and may fail to be read.                       *)
(*                                                                         *)
(* Words wrap at Word (2^32 in the code); sizes are scaled down with the   *)
(* limits they are compared with: a sector has Unit bytes (512), a GPT     *)
(* slot a quarter of that, a directory entry EntrySize.  A checksum is     *)
(* right or wrong.  Labels are left out, and the kernel is the normal one  *)
(* (KV_STORAGE_LAB 0).  What wal_prepare finds is told by the disk; Wal    *)
(* models it.                                                              *)
(***************************************************************************)
EXTENDS Integers, Sequences, FiniteSets

CONSTANTS
    Disks,                        \* what may be in the drive
    Word, Unit, EntrySize,
    MinGpt,                       \* sectors of the smallest GPT disk (68)
    MinClusters, Fat32Clusters,   \* 4085, 65525
    MaxFat, MaxNtfs, MaxVolumes,  \* FAT_MAX_VOLS, NTFS_MAX_VOLS, VFS_MAX_VOLUMES
    MaxLinks,                     \* links of an extended chain followed (16)
    MaxBlocks                     \* blocks of eight sectors in the largest array

VARIABLES
    disk,    \* [total, usb, lab, mbr, ebr, gpt, slots, boot]
    bad,     \* the sectors that failed in the last scan
    scanned, \* whether the table was filled since vfs_init
    vols     \* the volumes of this disk in the table

scanVars == <<disk, bad, scanned, vols>>

\* Sectors: mbr is a sequence of entries [type, start, count] or <<>> without
\* the signature; ebr: sector -> [start, count, next, more]; gpt: sector ->
\* header; slots: sector of a header's entries -> [used, start, end] of each;
\* boot: sector -> boot record.
\* What is read are unsigned words, and a table has the slots it announces.
FatTyped(b) ==
    {b.bps, b.spc, b.reserved, b.nfats, b.root, b.total, b.fatsz} \subseteq Nat
DiskTyped(d) ==
    /\ d.total \in Nat
    /\ DOMAIN d.mbr = 1 .. Len(d.mbr) /\ Len(d.mbr) \in Nat
    /\ \A k \in DOMAIN d.mbr : {d.mbr[k].start, d.mbr[k].count} \subseteq Nat
    /\ \A s \in DOMAIN d.ebr : {d.ebr[s].start, d.ebr[s].count, d.ebr[s].next} \subseteq Nat
    /\ \A s \in DOMAIN d.gpt :
        /\ {d.gpt[s].first, d.gpt[s].last, d.gpt[s].entries, d.gpt[s].count, d.gpt[s].stride} \subseteq Nat
        /\ \A i \in 1 .. d.gpt[s].count :
            {d.slots[d.gpt[s].entries][i].start, d.slots[d.gpt[s].entries][i].end} \subseteq Nat
    /\ \A s \in DOMAIN d.boot :
        /\ d.boot[s].fs = "fat" => FatTyped(d.boot[s])
        /\ d.boot[s].fs = "ntfs" => {d.boot[s].bps, d.boot[s].spc, d.boot[s].total} \subseteq Nat
DisksSound ==
    /\ {Word, Unit} \subseteq Nat \ {0} /\ {EntrySize, MaxLinks, MaxBlocks} \subseteq Nat
    /\ \A d \in Disks : DiskTyped(d)

Wrap(n) == n % Word
NoFs == [ok |-> FALSE]
Boot(lba) == IF lba \in DOMAIN disk.boot /\ lba \notin bad' THEN disk.boot[lba] ELSE [fs |-> "none"]
Readable(first, count) == first + count <= disk.total /\ \A s \in first .. first + count - 1 : s \notin bad'

-----------------------------------------------------------------------------
\* parse_bpb: where the tables, the root and the clusters lie.
FatCovers(b, clusters, fat32) == (b.fatsz * b.bps) \div (IF fat32 THEN 4 ELSE 2) >= clusters + 2
ParseBpb(b) ==
    LET root == (b.root * EntrySize + b.bps - 1) \div b.bps
        first == Wrap(b.reserved + b.nfats * b.fatsz + root)
        clusters == (b.total - first) \div b.spc
        fat32 == clusters >= Fat32Clusters IN
    IF ~( /\ b.bps \in {Unit, 2 * Unit, 4 * Unit, 8 * Unit}
          /\ b.spc > 0 /\ b.reserved > 0 /\ b.nfats \in 1 .. 4 /\ b.total > 0 /\ b.fatsz > 0
          /\ b.fatsz <= (Word - 1 - b.reserved - root) \div b.nfats /\ b.fatsz <= (Word - 1) \div b.bps
          /\ first < b.total ) THEN NoFs
    ELSE IF clusters < MinClusters \/ ~FatCovers(b, clusters, fat32) THEN NoFs
    ELSE IF fat32 /\ ~( /\ b.root = 0 /\ ~b.short
                        /\ b.rootCluster >= 2 /\ b.rootCluster - 2 < clusters
                        /\ b.active < b.nfats /\ b.fsinfo < b.reserved
                        /\ (b.fsinfo > 0 /\ b.backup > 0 => b.backup + b.fsinfo < b.reserved) ) THEN NoFs
    ELSE IF ~fat32 /\ (b.root = 0 \/ ~b.short) THEN NoFs
    ELSE [ok |-> TRUE, kind |-> IF fat32 THEN "fat32" ELSE "fat16", factor |-> b.bps \div Unit,
          total |-> b.total, reserved |-> b.reserved, fatsz |-> b.fatsz, nfats |-> b.nfats, bps |-> b.bps,
          first |-> first, clusters |-> clusters, spc |-> b.spc]

\* The checks fat_probe and fat_mount share: the volume ends before its
\* partition and the disk do.
FatFits(g, lba, count) ==
    /\ lba < disk.total
    /\ g.total <= (disk.total - lba) \div g.factor
    /\ count > 0 => g.total <= count \div g.factor

\* lab_prepare and wal_prepare: a disk with the lab marker, and a log that
\* cannot be trusted, keep the volume out of the namespace.
Withheld(b, g) == (disk.usb /\ disk.lab) \/ (g.kind = "fat32" /\ b.wal = "invalid")

Count(vs, kinds) == Cardinality({i \in DOMAIN vs : vs[i].kind \in kinds})
VfsMount(vs, v) == IF Len(vs) < MaxVolumes THEN Append(vs, v) ELSE vs

FatMount(vs, name, lba, count, b, g) ==
    IF Count(vs, {"fat16", "fat32"}) >= MaxFat \/ Withheld(b, g) THEN vs
    ELSE VfsMount(vs, [name |-> name, lba |-> lba, count |-> count, kind |-> g.kind,
                       extent |-> Wrap(g.total * g.factor), rw |-> FALSE, geo |-> g])

\* parse_boot and partition_fits
ParseBoot(b) ==
    LET cluster == b.bps * b.spc
        record == IF b.cpr > 0 THEN b.cpr * cluster ELSE 2 ^ (-b.cpr) IN
    IF /\ b.bps \in {Unit, 2 * Unit, 4 * Unit, 8 * Unit} /\ b.spc > 0
       /\ b.total > 0 /\ b.high = 0 /\ cluster <= 8 * Unit /\ b.cpr # 0
       /\ record >= b.bps /\ record <= 8 * Unit /\ record % b.bps = 0
    THEN [ok |-> TRUE, kind |-> "ntfs", factor |-> b.bps \div Unit, total |-> b.total] ELSE NoFs
PartitionFits(g, lba, count) ==
    /\ g.total <= (Word - 1) \div g.factor
    /\ count > 0 => g.total * g.factor <= count
    /\ lba <= Word - 1 - (g.total * g.factor - 1)

NtfsMount(vs, name, lba, count, b, g) ==
    IF Count(vs, {"ntfs"}) >= MaxNtfs \/ ~b.mft THEN vs
    ELSE VfsMount(vs, [name |-> name, lba |-> lba, count |-> count, kind |-> "ntfs",
                       extent |-> g.total, rw |-> FALSE, geo |-> g])

\* try_mount: the volumes after it.  fat_probe refuses NTFS and exFAT.
TryMount(vs, name, lba, count) ==
    LET b == Boot(lba)
        g == IF b.fs = "fat" THEN ParseBpb(b) ELSE IF b.fs = "ntfs" THEN ParseBoot(b) ELSE NoFs IN
    IF count = 0 \/ lba >= disk.total THEN vs
    ELSE IF count > disk.total - lba \/ ~g.ok THEN vs
    ELSE IF g.kind = "ntfs" THEN IF PartitionFits(g, lba, count) THEN NtfsMount(vs, name, lba, count, b, g) ELSE vs
    ELSE IF FatFits(g, lba, count) THEN FatMount(vs, name, lba, count, b, g) ELSE vs

-----------------------------------------------------------------------------
\* gpt_table of the header at sector at: checksums first, then every field.
GptSectors(h) == (h.count * h.stride + 3) \div 4
GptTable(at) ==
    LET h == disk.gpt[at] IN
    IF disk.total < MinGpt \/ at \notin DOMAIN disk.gpt \/ at \in bad' THEN FALSE
    ELSE /\ h.crc /\ h.my = at /\ h.other = (IF at = 1 THEN disk.total - 1 ELSE 1)
         /\ h.first >= 2 /\ h.first <= h.last /\ h.last < disk.total - 1
         /\ h.entries >= 2 /\ h.entries < disk.total - 1
         /\ h.count > 0 /\ h.stride > 0
         /\ h.first >= 2 + GptSectors(h) /\ h.last + GptSectors(h) + 2 <= disk.total
         /\ GptSectors(h) <= disk.total - 1 - h.entries
         /\ (IF at = 1 THEN h.entries + GptSectors(h) <= h.first ELSE h.entries > h.last)
         /\ Readable(h.entries, GptSectors(h)) /\ h.arrayCrc

\* The volumes of the first n slots of a header's array.
Slot(h, vs, i) ==
    LET p == disk.slots[h.entries][i] IN
    IF ~p.used \/ p.start < h.first \/ p.start > p.end \/ p.end > h.last THEN vs
    ELSE TryMount(vs, <<"slot", i>>, p.start, p.end - p.start + 1)
SlotVols(h, n) ==
    LET found[i \in 0 .. n] == IF i = 0 THEN <<>> ELSE Slot(h, found[i - 1], i) IN found[n]

\* scan_gpt: the slots in order, eight sectors of them at a time, from the
\* first header that holds; they are read again, and a block may now fail.
ScanGpt(blocks) ==
    LET at == IF GptTable(1) THEN 1 ELSE IF GptTable(disk.total - 1) THEN disk.total - 1 ELSE 0
        h == disk.gpt[at]
        reached == IF 32 * blocks < h.count * h.stride THEN (32 * blocks) \div h.stride ELSE h.count IN
    IF at = 0 THEN <<>> ELSE SlotVols(h, reached)

\* The extended chain from base: each link one partition, relative to the
\* link, and the next link, relative to the base.
Link(base, c) ==
    LET e == disk.ebr[c.next] IN
    IF c.next = 0 \/ c.next \notin DOMAIN disk.ebr \/ c.next \in bad' THEN [c EXCEPT !.next = 0]
    ELSE [seq |-> c.seq + IF e.count > 0 THEN 1 ELSE 0,
          vols |-> IF e.count > 0
                   THEN TryMount(c.vols, <<"part", c.seq + 1>>, Wrap(c.next + e.start), e.count) ELSE c.vols,
          next |-> IF e.more THEN Wrap(base + e.next) ELSE 0]
Links(s, base) ==
    LET chain[k \in 0 .. MaxLinks] ==
            IF k = 0 THEN [seq |-> s.seq, vols |-> s.vols, next |-> base] ELSE Link(base, chain[k - 1]) IN
    chain[MaxLinks]

Protective(p) == p.type = "gpt" /\ p.start = 1 /\ p.count > 0
Raw(vs) == IF vs = <<>> THEN TryMount(vs, <<"whole">>, 0, disk.total) ELSE vs
Primary(s, p) ==
    IF p.count = 0 \/ p.type = "empty" THEN s
    ELSE IF p.type = "extended" THEN LET l == Links(s, p.start) IN [seq |-> l.seq, vols |-> l.vols]
    ELSE [seq |-> s.seq + 1, vols |-> TryMount(s.vols, <<"part", s.seq + 1>>, p.start, p.count)]

PrimaryVols ==
    LET read[k \in 0 .. Len(disk.mbr)] ==
            IF k = 0 THEN [seq |-> 0, vols |-> <<>>] ELSE Primary(read[k - 1], disk.mbr[k]) IN
    read[Len(disk.mbr)].vols

\* Mutant: broken GPT metadata is read as an unpartitioned disk.
ScanDiskRaw(blocks) ==
    IF 0 \in bad' THEN <<>>
    ELSE IF (\E i \in DOMAIN disk.mbr : Protective(disk.mbr[i])) /\ ScanGpt(blocks) # <<>> THEN ScanGpt(blocks)
    ELSE Raw(PrimaryVols)

\* scan_disk: broken GPT metadata is never read as anything else.
ScanDisk(blocks) ==
    IF 0 \in bad' THEN <<>>
    ELSE IF \E i \in DOMAIN disk.mbr : Protective(disk.mbr[i]) THEN ScanGpt(blocks)
    ELSE Raw(PrimaryVols)

VfsInit == scanned /\ scanned' = FALSE /\ bad' = {} /\ vols' = <<>> /\ UNCHANGED disk

\* vfs_autoscan, as far as this disk is concerned.
VfsAutoscan(failing, blocks) ==
    /\ ~scanned /\ scanned' = TRUE
    /\ bad' = failing
    /\ vols' = ScanDisk(blocks)
    /\ UNCHANGED disk

Sectors == {0} \cup DOMAIN disk.gpt \cup DOMAIN disk.boot \cup DOMAIN disk.ebr

ScanInit == disk \in Disks /\ bad = {} /\ scanned = FALSE /\ vols = <<>>
ScanNext ==
    \/ VfsInit
    \/ \E failing \in {{}} \cup {{s} : s \in Sectors}, blocks \in 0 .. MaxBlocks : VfsAutoscan(failing, blocks)
ScanSpec == ScanInit /\ [][ScanNext]_scanVars

-----------------------------------------------------------------------------
\* Whatever the tables and the boot records say, a mounted volume, with every
\* FAT and every cluster its driver will address, lies inside its partition
\* and the disk, and no table address wrapped on the way (partition.c:48,
\* fat.c:1226).
MountsInside ==
    \A i \in DOMAIN vols :
        LET v == vols[i]
            g == v.geo IN
        /\ v.count > 0 /\ v.lba + v.count <= disk.total
        /\ g.total * g.factor <= v.count
        /\ v.kind # "ntfs" =>
            /\ g.reserved + g.nfats * g.fatsz <= g.first
            /\ g.first + g.clusters * g.spc <= g.total
            /\ \A c \in 2 .. g.clusters + 1 :
                (c + 1) * (IF v.kind = "fat32" THEN 4 ELSE 2) <= g.fatsz * g.bps

\* A disk declared GPT is read by its GPT or not at all: every volume is a slot
\* of a table whose header and array check out, lies between the table's
\* bounds, and takes no sector of the metadata (partition.c:184).
GptHonoured ==
    (\E k \in DOMAIN disk.mbr : Protective(disk.mbr[k])) =>
        \A i \in DOMAIN vols : \E at \in DOMAIN disk.gpt :
            LET h == disk.gpt[at]
                v == vols[i] IN
            /\ h.crc /\ h.arrayCrc /\ at \notin bad
            /\ v.name[1] = "slot" /\ disk.slots[h.entries][v.name[2]].start = v.lba
            /\ v.lba > 1 /\ v.lba + v.count < disk.total
            /\ v.lba + v.count <= h.entries \/ v.lba >= h.entries + GptSectors(h)
=============================================================================
