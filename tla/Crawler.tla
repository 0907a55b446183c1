------------------------------ MODULE Crawler ------------------------------
(***************************************************************************)
(* gray-crawler: one sequential pass over a raw disk that writes the index *)
(* as a sequence of documents.  main() probes for a partition table, walks *)
(* its entries and probes each partition for ext4 and then NTFS; what it   *)
(* finds is serialized and the buffers of the entry and of the probe are   *)
(* freed.  Two counters are static in C and survive from one partition to  *)
(* the next: that of mbr_get_next_partition and that of                    *)
(* ext4_next_block_group_descriptor.                                       *)
(*                                                                         *)
(* A document is a record of its type, the partition it was written for    *)
(* and the fields the properties tell apart.  Sizes are scaled down:       *)
(* SECTOR_SIZE is 512 bytes, FilterUnit is 4096 and OffsetSectors sectors  *)
(* are 2^32 bytes.  The walk over the files is in Ext4Tree.                *)
(***************************************************************************)
EXTENDS Integers, Sequences, SequencesExt, FiniteSets

CONSTANTS Disks,            \* disks to crawl
          OffsetSectors,    \* sectors in 2^32 bytes
          SECTOR_SIZE,      \* bytes of a sector
          FilterUnit,       \* sectors to a bit of the filter, for the queuer
          BitsLen,          \* bits of the filter
          TableBlocks,      \* blocks of the inode table of a group
          MaxFaults         \* bound: failing reads and writes

(* A disk is a record: signature (of the MBR), and entries, for each slot  *)
(* of the table its first sector and the file system made there.  A file   *)
(* system is a record of kind ("ext4", "ntfs", "other"), block_size in     *)
(* bytes, first (the first data block, which holds the superblock), size   *)
(* in blocks and groups, for each block group the block of its inode table *)
Slots == 0..3

ASSUME CrawlerAssumption ==
    /\ {OffsetSectors, SECTOR_SIZE, FilterUnit, BitsLen, TableBlocks}
          \subseteq Nat \ {0}
    /\ MaxFaults \in Nat

VARIABLES
    disk,       \* the disk, constant
    pc,         \* the next step of main
    pte_num,    \* static: entries handed out by mbr_get_next_partition
    group,      \* static: i of ext4_next_block_group_descriptor
    pte,        \* ptedata: [pt_num, pt_off], pt_off in sectors
    entry,      \* the copy of the entry: "none", "live" or "freed"
    crawler,    \* the file system probed for
    caches,     \* fs->bcache and fs->icache: "none", "live" or "freed"
    icache,     \* blocks of the inode table in the cache, for each group
    docs,       \* the documents written
    bits,       \* the metadata filter
    misuse,     \* history: partitions whose entry was used when freed
    faults      \* history: reads and writes that failed

vars == <<disk, pc, pte_num, group, pte, entry, crawler, caches, icache,
          docs, bits, misuse, faults>>

Crawlers == <<"ext4", "ntfs">>
Final == {"end", "failed", "aborted", "crashed"}
Garbage == -1

(* The file system found at a sector: that of the partition that begins    *)
(* there, if any.                                                          *)
FsAt(sector) ==
    LET at == {s \in Slots : disk.entries[s].lba = sector}
    IN  IF at = {} THEN [kind |-> "other", block_size |-> 0, first |-> 0,
                         size |-> 0, groups |-> <<>>]
        ELSE disk.entries[CHOOSE s \in at : \A t \in at : s <= t].fs

Fs == FsAt(pte.pt_off)
NumGroups == Len(Fs.groups)
SectorsPerBlock == Fs.block_size \div SECTOR_SIZE
Sector(block) == block * SectorsPerBlock + pte.pt_off

(* bitarray_set_bit(bits, sector / block_size).                            *)
Mark(sectors) == bits \cup ({s \div Fs.block_size : s \in sectors}
                            \cap 0..(BitsLen - 1))
Written(type) == {i \in DOMAIN docs : docs[i].type = type}

----------------------------------------------------------------------------
Init ==
    /\ disk \in Disks
    /\ pc = "probe_pt"
    /\ pte_num = 0
    /\ group = 0
    /\ pte = [pt_num |-> 0, pt_off |-> 0]
    /\ entry = "none"
    /\ crawler = 1
    /\ caches = "none"
    /\ icache = <<>>
    /\ docs = <<>>
    /\ bits = {}
    /\ misuse = {}
    /\ faults = 0

(* A read or a write fails.                                                *)
Fault == faults < MaxFaults /\ faults' = faults + 1

(* main probes for the only type of partition table, the MBR.              *)
mbr_probe ==
    /\ pc = "probe_pt"
    /\ \/ /\ disk.signature
          /\ pc' = "serialize_pt"
          /\ UNCHANGED faults
       \/ /\ ~ disk.signature
          /\ pc' = "failed"
          /\ UNCHANGED faults
       \/ Fault /\ pc' = "failed"
    /\ UNCHANGED <<disk, pte_num, group, pte, entry, crawler, caches, icache,
                   docs, bits, misuse>>

(* The document of the MBR, the number of whose sector is the bit set.     *)
mbr_serialize_pt ==
    /\ pc = "serialize_pt"
    /\ bits' = bits \cup {0}
    /\ \/ /\ docs' = Append(docs, [type |-> "mbr"])
          /\ pc' = "next"
          /\ UNCHANGED faults
       \/ Fault /\ pc' = "failed" /\ UNCHANGED docs
    /\ UNCHANGED <<disk, pte_num, group, pte, entry, crawler, caches, icache,
                   misuse>>

(* The offset of a partition in bytes, an unsigned number of 32 bits.      *)
PtOff(lba) == lba % OffsetSectors

(* mbr_get_next_partition, and main's setup for the partition: an entry at *)
(* offset 0 is passed over.  (Faulty variants: the entry after it is, too; *)
(* the entry is not copied anew.)                                          *)
SkipsSlot ==
    /\ pc = "next"
    /\ pte_num < 4
    /\ pte_num' = pte_num + 2
    /\ pte' = [pt_num |-> pte_num, pt_off |-> PtOff(disk.entries[pte_num].lba)]
    /\ entry' = "live"
    /\ crawler' = 1
    /\ caches' = "none"
    /\ pc' = IF pte'.pt_off > 0 THEN "probe" ELSE "next"
    /\ UNCHANGED <<disk, group, icache, docs, bits, misuse, faults>>
KeepsCopy ==
    /\ pc = "next"
    /\ pte_num < 4
    /\ pte_num' = pte_num + 1
    /\ pte' = [pt_num |-> pte_num, pt_off |-> PtOff(disk.entries[pte_num].lba)]
    /\ entry' = IF entry = "none" THEN "live" ELSE entry
    /\ crawler' = 1
    /\ caches' = "none"
    /\ pc' = IF pte'.pt_off > 0 THEN "probe" ELSE "next"
    /\ UNCHANGED <<disk, group, icache, docs, bits, misuse, faults>>
mbr_get_next_partition ==
    /\ pc = "next"
    /\ pte_num < 4
    /\ pte_num' = pte_num + 1
    /\ pte' = [pt_num |-> pte_num, pt_off |-> PtOff(disk.entries[pte_num].lba)]
    /\ entry' = "live"
    /\ crawler' = 1
    /\ caches' = "none"
    /\ pc' = IF pte'.pt_off > 0 THEN "probe" ELSE "next"
    /\ UNCHANGED <<disk, group, icache, docs, bits, misuse, faults>>

(* The probe of ext4 or NTFS, which allocates fs_info and reads the start  *)
(* of the partition.                                                       *)
Probe ==
    /\ pc = "probe"
    /\ \/ /\ pc' = IF Fs.kind = Crawlers[crawler] THEN "pte" ELSE "cleanup"
          /\ UNCHANGED faults
       \/ Fault /\ pc' = "cleanup"
    /\ UNCHANGED <<disk, pte_num, group, pte, entry, crawler, caches, icache,
                   docs, bits, misuse>>

(* The document of the partition, from the copy of its entry, which may    *)
(* have been freed after the probe before this one; on an error main frees *)
(* it (once more) and returns.                                             *)
mbr_serialize_pte ==
    /\ pc = "pte"
    /\ misuse' = IF entry = "freed" THEN misuse \cup {pte.pt_num} ELSE misuse
    /\ \/ /\ \E lba \in IF entry = "live" THEN {disk.entries[pte.pt_num].lba}
                        ELSE {disk.entries[pte.pt_num].lba, Garbage} :
                docs' = Append(docs, [type |-> "partition",
                                      part |-> pte.pt_num, lba |-> lba])
          /\ pc' = "fs"
          /\ UNCHANGED faults
       \/ /\ Fault
          /\ pc' = "failed" \/ (entry = "freed" /\ pc' = "aborted")
          /\ UNCHANGED docs
    /\ UNCHANGED <<disk, pte_num, group, pte, entry, crawler, caches, icache,
                   bits>>

FsDoc == [type |-> "fs", part |-> pte.pt_num, sector |-> pte.pt_off,
          groups |-> NumGroups]

(* ext4_serialize_fs: the document of the file system; the bit of the      *)
(* block of the superblock.                                                *)
ext4_serialize_fs ==
    /\ pc = "fs"
    /\ Crawlers[crawler] = "ext4"
    /\ docs' = Append(docs, FsDoc)
    /\ bits' = Mark({pte.pt_off})
    /\ pc' = "cache"
    /\ UNCHANGED <<disk, pte_num, group, pte, entry, crawler, caches, icache,
                   misuse, faults>>

(* ext4_cache_bgds and ext4_cache_inodes. The size of a table is cut when  *)
(* it reaches past the end of the partition, and stays cut for the groups  *)
(* after it.                                                               *)
TableSizes ==
    LET cut(start, size) ==
            IF start + size >= Fs.size
            THEN size - ((start + size) - Fs.size) ELSE size
        f[g \in 0..NumGroups] ==
            IF g = 0 THEN TableBlocks ELSE cut(Fs.groups[g], f[g - 1])
    IN  [g \in 1..NumGroups |-> f[g]]

CacheInodes ==
    /\ pc = "cache"
    /\ \/ /\ icache' = TableSizes
          /\ caches' = "live"
          /\ pc' = "bgds"
          /\ UNCHANGED faults
       \/ Fault /\ pc' = "failed" /\ UNCHANGED <<icache, caches>>
    /\ UNCHANGED <<disk, pte_num, group, pte, entry, crawler, docs, bits,
                   misuse>>

TableSectors(start) ==
    LET last == Sector(start + TableBlocks) - 1
    IN  {Sector(start) + k : k \in {j \in 0..(last - 1) :
                                        j % SectorsPerBlock = 0}}

(* The block of the descriptors, rounded on the disk.                      *)
DescriptorSector ==
    (Sector(Fs.first + 1) \div SectorsPerBlock) * SectorsPerBlock

(* One round of ext4_serialize_bgds. The loop takes up where the static    *)
(* counter stands. The bitmaps are the two blocks before the inode table.  *)
(* The document gets an element that was never initialised (v_bgd): with a *)
(* type that is none it is left out, otherwise it may end the process.     *)
ext4_serialize_bgds ==
    /\ pc = "bgds"
    /\ group < NumGroups
    /\ group' = group + 1
    /\ LET start == Fs.groups[group + 1] IN
       \/ /\ docs' = Append(docs, [type |-> "bgd", part |-> pte.pt_num,
                                   group |-> group + 1])
          /\ bits' = Mark({DescriptorSector, Sector(start - 2),
                           Sector(start - 1)} \cup TableSectors(start))
          /\ UNCHANGED pc
       \/ pc' = "crashed" /\ UNCHANGED <<docs, bits>>
    /\ UNCHANGED <<disk, pte_num, pte, entry, crawler, caches, icache,
                   misuse, faults>>

BgdsDone ==
    /\ pc = "bgds"
    /\ group >= NumGroups
    /\ pc' = "tree"
    /\ UNCHANGED <<disk, pte_num, group, pte, entry, crawler, caches, icache,
                   docs, bits, misuse, faults>>

(* ext4_serialize_fs_tree and ext4_serialize_journal, whose results are    *)
(* not looked at: the documents of the files (Ext4Tree).                   *)
SerializeFiles ==
    /\ pc = "tree"
    /\ docs' = Append(docs, [type |-> "file", part |-> pte.pt_num])
    /\ pc' = "cleanup"
    /\ UNCHANGED <<disk, pte_num, group, pte, entry, crawler, caches, icache,
                   bits, misuse, faults>>

(* ntfs_serialize, the same for NTFS: nothing is marked in the filter.     *)
ntfs_serialize ==
    /\ pc = "fs"
    /\ Crawlers[crawler] = "ntfs"
    /\ docs' = docs \o <<FsDoc, [type |-> "file", part |-> pte.pt_num]>>
    /\ pc' = "cleanup"
    /\ UNCHANGED <<disk, pte_num, group, pte, entry, crawler, caches, icache,
                   bits, misuse, faults>>

(* main's end of a round of the loop over the crawlers, found or not: the  *)
(* copy of the entry and the buffers of the probe are freed.  A second     *)
(* free of the entry ends the process, or goes unnoticed.  (Faulty         *)
(* variant: the loop goes on after a file system was found.)               *)
Freed(c) == IF c = "live" THEN "freed" ELSE c
CleanupGoesOn ==
    /\ pc = "cleanup"
    /\ caches' = Freed(caches)
    /\ entry' = "freed"
    /\ misuse' = IF entry = "freed" THEN misuse \cup {pte.pt_num} ELSE misuse
    /\ crawler' = crawler + 1
    /\ \/ pc' = IF crawler = Len(Crawlers) THEN "next" ELSE "pte"
       \/ entry = "freed" /\ pc' = "aborted"
    /\ UNCHANGED <<disk, pte_num, group, pte, icache, docs, bits, faults>>
Found == \E i \in Written("partition") : docs[i].part = pte.pt_num
Cleanup ==
    /\ pc = "cleanup"
    /\ caches' = Freed(caches)
    /\ entry' = "freed"
    /\ misuse' = IF entry = "freed" THEN misuse \cup {pte.pt_num} ELSE misuse
    /\ crawler' = crawler + 1
    /\ \/ pc' = IF Found \/ crawler = Len(Crawlers) THEN "next" ELSE "probe"
       \/ entry = "freed" /\ pc' = "aborted"
    /\ UNCHANGED <<disk, pte_num, group, pte, icache, docs, bits, faults>>

(* The table is exhausted: the filter is written last.                     *)
Finish ==
    /\ pc = "next"
    /\ pte_num >= 4
    /\ docs' = Append(docs, [type |-> "bitarray", bits |-> bits])
    /\ pc' = "end"
    /\ UNCHANGED <<disk, pte_num, group, pte, entry, crawler, caches, icache,
                   bits, misuse, faults>>

Next ==
    \/ mbr_probe \/ mbr_serialize_pt \/ mbr_get_next_partition \/ Probe
    \/ mbr_serialize_pte \/ ext4_serialize_fs \/ CacheInodes
    \/ ext4_serialize_bgds \/ BgdsDone \/ SerializeFiles \/ ntfs_serialize
    \/ Cleanup \/ Finish

(* One sequential process.                                                 *)
Spec == Init /\ [][Next]_vars /\ WF_vars(Next)

----------------------------------------------------------------------------
(* The state has its type.                                                 *)
TypeOK ==
    /\ pc \in Final \cup {"probe_pt", "serialize_pt", "next", "probe", "pte",
                          "fs", "cache", "bgds", "tree", "cleanup"}
    /\ pte_num \in 0..4
    /\ group \in Nat
    /\ pte.pt_num \in Slots /\ pte.pt_off \in 0..(OffsetSectors - 1)
    /\ entry \in {"none", "live", "freed"}
    /\ caches \in {"none", "live", "freed"}
    /\ crawler \in 1..(Len(Crawlers) + 1)
    /\ bits \subseteq 0..(BitsLen - 1)
    /\ misuse \subseteq Slots
    /\ faults \in 0..MaxFaults

(* The documents come in the order the loader relies on: the MBR first;    *)
(* then, for each partition in the order of the table, its entry, its file *)
(* system and what belongs to that; the filter last.                       *)
DocumentOrder ==
    /\ \A i \in DOMAIN docs :
          /\ docs[i].type = "mbr" <=> i = 1
          /\ docs[i].type = "bitarray" => i = Len(docs) /\ pc = "end"
          /\ docs[i].type = "fs" => /\ docs[i - 1].type = "partition"
                                    /\ docs[i - 1].part = docs[i].part
          /\ docs[i].type \in {"bgd", "file"} =>
                /\ docs[i - 1].type \in {"fs", "bgd"}
                /\ docs[i - 1].part = docs[i].part
    /\ pc = "end" => \E i \in DOMAIN docs : docs[i].type = "bitarray"

(* "one per partition expected": no partition is described twice, and an   *)
(* entry of the table is described only if the one before it came first.   *)
OneFsPerPartition ==
    \A type \in {"partition", "fs"} : \A i, j \in Written(type) :
        i < j => docs[i].part < docs[j].part

GroupsWritten(p) ==
    {docs[i].group : i \in {j \in Written("bgd") : docs[j].part = p}}

(* No other file system with block groups was described before document i. *)
FirstWithGroups(i) ==
    \A j \in Written("fs") :
        j < i /\ docs[j].part # docs[i].part => docs[j].groups = 0

(* The documents of an ext4 file system that is complete list every block  *)
(* group, if it is the first of the disk that has any.                     *)
FirstFsHasItsGroups ==
    \A i \in Written("file") : FirstWithGroups(i) =>
        \E j \in Written("fs") :
            /\ docs[j].part = docs[i].part
            /\ GroupsWritten(docs[i].part) = 1..docs[j].groups

(* The copy of the entry of a partition is used after it was freed only if *)
(* the first probe of that partition did not succeed; the document of the  *)
(* entry of an ext4 partition is never read from freed memory.             *)
EntryUsedWhenFreed ==
    /\ \A p \in misuse : \/ FsAt(PtOff(disk.entries[p].lba)).kind # "ext4"
                         \/ faults > 0
    /\ pc = "aborted" => misuse # {}
    /\ \A i \in Written("partition") :
          docs[i].lba = Garbage => docs[i].part \in misuse

(* A partition that begins below 4 GB is described with its own first      *)
(* sector and its own file system.                                         *)
DescribedWhereItBegins ==
    \A i \in Written("fs") :
        LET e == disk.entries[docs[i].part] IN
        e.lba < OffsetSectors =>
            docs[i].sector = e.lba /\ docs[i].groups = Len(e.fs.groups)

(* The queuer will not drop a write to any metadata of the first ext4 file *)
(* system of the disk: the bit that redis_async_write_enqueue looks up,    *)
(* sector / 4096, is set for the block of the superblock, of the           *)
(* descriptors, and of the bitmaps and the whole inode table of every      *)
(* group.  The crawler sets the bits sector / block_size, so this is so    *)
(* when blocks have 4096 bytes; with smaller ones it is not, nor is it for *)
(* the groups of a second file system, which are left out.                 *)
MetadataIsMarked ==
    \A i \in Written("file") :
        LET off == PtOff(disk.entries[docs[i].part].lba)
            fs == FsAt(off)
            ofGroup(start) == {start - 2, start - 1}
                              \cup start..(start + TableBlocks - 1)
            blocks == {fs.first, fs.first + 1}
                      \cup UNION {ofGroup(start) : start \in Range(fs.groups)}
        IN  fs.kind = "ext4" /\ fs.block_size = FilterUnit /\ FirstWithGroups(i) =>
                \A b \in blocks :
                    (b * (fs.block_size \div SECTOR_SIZE) + off) \div FilterUnit
                        \in bits

(* While the files are crawled the caches are allocated, and the inode     *)
(* table of a group is there in full unless it, or one before it, reaches  *)
(* past the end of the partition.                                          *)
TablesAreCached ==
    pc = "tree" =>
        /\ caches = "live"
        /\ \A g \in 1..NumGroups :
              (\A h \in 1..g : Fs.groups[h] + TableBlocks <= Fs.size) =>
                  icache[g] = TableBlocks

(* A disk with nothing but ext4 file systems below 4 GB is crawled to the  *)
(* end, and each of them is described, unless the element that is not      *)
(* initialised ends the process.                                           *)
Healthy ==
    /\ disk.signature
    /\ faults = 0
    /\ \A s \in Slots : LET e == disk.entries[s] IN
          e.lba = 0 \/ (e.lba < OffsetSectors /\ e.fs.kind = "ext4")
Crawled ==
    /\ pc = "end"
    /\ \A s \in Slots : disk.entries[s].lba > 0 =>
          \E i \in Written("fs") : docs[i].part = s
HealthyDisksAreCrawled == <>(Healthy => Crawled \/ pc = "crashed")

=============================================================================
