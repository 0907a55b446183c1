----------------------------- MODULE Ext4Blocks -----------------------------
(***************************************************************************)
(* How the ext4 crawler finds the blocks of one file.  A file is mapped by *)
(* a tree of extents or by the block map of ext2 (direct, indirect, double *)
(* and triple indirect blocks); three functions walk each of the two.      *)
(* ext4_serialize_file_sectors lists the sectors of the file and the       *)
(* blocks of the tree, which the engine is to watch; for a directory,      *)
(* ext4_serialize_tree then reads each block and asks a second function    *)
(* for its sector, under which the entries are recorded.                   *)
(***************************************************************************)
EXTENDS Ext4Map, Sequences, SequencesExt, FiniteSets

CONSTANTS Files,            \* the files crawled, built by Mapped / Extents
          SectorsPerBlock,  \* block_size / SECTOR_SIZE
          PtSector,         \* partition_offset / SECTOR_SIZE
          BlockSize,        \* block_size: sectors to a bit of the filter
          Strays            \* words that may follow a buffer in memory

(* A file is a record: kind ("extents", "map" or "symlink"), dir, n (its   *)
(* size in blocks), root or i_block and disk (how it is mapped), and what  *)
(* the file system means by that: phys[k], the block on disk of block k or *)
(* 0 for a hole; above[k], the blocks of the tree over it; and last, the   *)
(* blocks below the last of several entries of an index node.              *)

VARIABLES
    file,       \* the file: how it is mapped, its size in blocks, its blocks
    stray,      \* the word behind the buffer of a block
    pc,         \* "sectors", "entries", "done"; "exit" when exit() is called,
                \* "lost" when the document is given up, "spin" for ever in a
                \* block of zeros
    count,      \* the block of the file looked at
    sectors,    \* document: the sectors, each under the number of its block
    extents,    \* document: sectors of the blocks of the tree
    bits,       \* the metadata filter
    dentries    \* document: for each block of a directory, the block whose
                \* entries were read and the sector they are recorded under

vars == <<file, stray, pc, count, sectors, extents, bits, dentries>>

NoBlock == 0
Sector(block) == block * SectorsPerBlock + PtSector

----------------------------------------------------------------------------
(* A block of addresses as read from disk; blocks of data hold zeros.      *)
ReadBlock(a) ==
    IF a \in DOMAIN file.disk THEN file.disk[a] ELSE [j \in 0..(A - 1) |-> 0]

(* buf[i] of an array of words; behind its end lies some other word.       *)
Word(buf, i) == IF i < A THEN buf[i] ELSE stray

(* buf[i] of the same block taken for an array of bytes.                   *)
ByteAt(buf, i) ==
    IF i < 4 * A THEN (buf[i \div 4] \div 256 ^ (i % 4)) % 256
                 ELSE stray % 256

Found(block, watch) == [ret |-> 0, block |-> block, watch |-> watch]
Ended(watch) == [ret |-> 1, block |-> NoBlock, watch |-> watch]
Failed(watch) == [ret |-> -1, block |-> NoBlock, watch |-> watch]

(* The four cases of ext4_serialize_file_block_sectors: the block of data, *)
(* or the end of the file, and the blocks recorded as extents on the way.  *)
LookupDirect(k) ==
    LET a == file.i_block[k] IN
    IF a = 0 THEN Ended(<<>>) ELSE Found(a, <<>>)

LookupIndirect(k) ==
    LET b == k - IndirectLow
        root == file.i_block[12]
        a == Word(ReadBlock(root), b)
        watch == IF b = 0 THEN <<root>> ELSE <<>>
    IN  IF root = 0 THEN Ended(<<>>)
        ELSE IF a = 0 THEN Ended(watch) ELSE Found(a, watch)

LookupDouble(k) ==
    LET b == k - DoubleLow
        root == file.i_block[13]
        mid == Word(ReadBlock(root), b \div A)
        a == Word(ReadBlock(mid), b % A)
        watch == IF b \div A = 0 THEN <<root>> ELSE <<>>
        watch2 == IF b % A = 0 THEN Append(watch, mid) ELSE watch
    IN  IF root = 0 \/ mid = 0 THEN Ended(<<>>)
        ELSE IF a = 0 THEN Ended(watch) ELSE Found(a, watch2)

(* The double indirect block is indexed by b \div A, without a modulus.    *)
LookupTriple(k) ==
    LET b == k - TripleLow
        root == file.i_block[14]
        top == Word(ReadBlock(root), b \div (A * A))
        mid == Word(ReadBlock(top), b \div A)
        a == Word(ReadBlock(mid), b % A)
        watch == IF b \div (A * A) = 0 THEN <<root>> ELSE <<>>
        watch2 == IF b \div A = 0 THEN Append(watch, top) ELSE watch
        watch3 == IF b % A = 0 THEN Append(watch2, mid) ELSE watch2
    IN  IF root = 0 \/ top = 0 THEN Ended(<<>>)
        ELSE IF mid = 0 THEN Ended(watch)
        ELSE IF a = 0 THEN Ended(watch2) ELSE Found(a, watch3)

LookupMap(k) ==
    CASE k <= DirectHigh   -> LookupDirect(k)
      [] k \in IndirectLow..IndirectHigh -> LookupIndirect(k)
      [] k \in DoubleLow..DoubleHigh     -> LookupDouble(k)
      [] k \in TripleLow..TripleHigh     -> LookupTriple(k)
      [] OTHER -> Failed(<<>>)

(* ext4_read_file_block: the same walk, which leaves the block of data in  *)
(* the buffer: 0 and that block, or 1 at the end of the file.              *)
ReadFileBlock(k) ==
    LET b == LookupMap(k) IN [ret |-> b.ret, block |-> b.block]

(* ext4_sector_file_block: the walk once more, for the sector, but over a  *)
(* buffer of bytes.                                                        *)
SectorFileBlock(k) ==
    LET Of(a) == IF a = 0 THEN 0 ELSE Sector(a)
        Step(a, i) == IF a = 0 THEN 0 ELSE ByteAt(ReadBlock(a), i)
        b == k - IndirectLow
        c == k - DoubleLow
        d == k - TripleLow
    IN  CASE k <= DirectHigh -> Of(file.i_block[k])
          [] k \in IndirectLow..IndirectHigh -> Of(Step(file.i_block[12], b))
          [] k \in DoubleLow..DoubleHigh ->
                Of(Step(Step(file.i_block[13], c \div A), c % A))
          [] k \in TripleLow..TripleHigh ->
                Of(Step(Step(Step(file.i_block[14], d \div (A * A)),
                             d \div A), d % A))
          [] OTHER -> 0

----------------------------------------------------------------------------
(* The tree of extents.  A node has an address, a depth and entries: on    *)
(* depth 0 extents [block, len, start], above [block, child].              *)
(* The entry to descend to for block k, as a sequence of at most one: the  *)
(* only entry; or the one before the first entry with a larger block.  The *)
(* last of several is never taken.  (An index carries the first block of   *)
(* the node below it, so that only on top, or below single entries, can k  *)
(* precede the first entry.)  (Faulty variant: the comparison is not       *)
(* strict.)                                                                *)
DescendEarly(node, k) ==
    LET e == node.entries
        before(i) == IF i = 1 THEN [block |-> 0, child |-> BootBlock]
                              ELSE e[i - 1]
        hits == {i \in DOMAIN e : k <= e[i].block /\ k >= before(i).block}
    IN  IF Len(e) = 1 THEN <<e[1]>>
        ELSE IF hits = {} THEN <<>>
        ELSE <<before(CHOOSE i \in hits : \A j \in hits : i <= j)>>
Descend(node, k) ==
    LET e == node.entries
        before(i) == IF i = 1 THEN [block |-> 0, child |-> BootBlock]
                              ELSE e[i - 1]
        hits == {i \in DOMAIN e : k < e[i].block /\ k >= before(i).block}
    IN  IF Len(e) = 1 THEN <<e[1]>>
        ELSE IF hits = {} THEN <<>>
        ELSE <<before(CHOOSE i \in hits : \A j \in hits : i <= j)>>

(* The entries descended through on the way to block k; the last child is  *)
(* the node where the walk ends.                                           *)
PathTo(k) ==
    LET at(p) == IF p = <<>> THEN file.root ELSE Last(p).child
        f[d \in 0..file.root.depth] ==
            IF d = 0 THEN <<>>
            ELSE LET p == f[d - 1] IN
                 IF at(p).depth = 0 THEN p ELSE p \o Descend(at(p), k)
    IN  f[file.root.depth]

EndOf(path) == IF path = <<>> THEN file.root ELSE Last(path).child

(* The block of data that extent e has for block k of the file.            *)
InExtent(e, k) == e.start + (k - e.block)

(* The extent that holds block k in the node where the walk ends.          *)
ExtentWalk(k) ==
    LET node == EndOf(PathTo(k))
        hits == {i \in DOMAIN node.entries :
                    /\ node.depth = 0
                    /\ node.entries[i].block <= k
                    /\ k < node.entries[i].block + node.entries[i].len}
    IN  IF hits = {} THEN NoBlock
        ELSE InExtent(node.entries[CHOOSE i \in hits :
                                      \A j \in hits : i <= j], k)

(* ext4_serialize_file_extent_sectors: a block of the tree is recorded     *)
(* when the first block below it is looked for.  (Faulty variant: only in  *)
(* nodes with more than one entry.)                                        *)
WatchOfSeveral(k) ==
    LET p == PathTo(k)
        node(i) == IF i = 1 THEN file.root ELSE p[i - 1].child
        own == SelectSeq([i \in DOMAIN p |-> [i |-> i, e |-> p[i]]],
                         LAMBDA x : /\ x.e.block = k
                                    /\ Len(node(x.i).entries) > 1)
    IN  [i \in DOMAIN own |-> own[i].e.child.addr]
WatchOfWalk(k) ==
    LET own == SelectSeq(PathTo(k), LAMBDA e : e.block = k)
    IN  [i \in DOMAIN own |-> own[i].child.addr]

LookupExtent(k) ==
    IF ExtentWalk(k) = NoBlock THEN Failed(WatchOfWalk(k))
                               ELSE Found(ExtentWalk(k), WatchOfWalk(k))

(* ext4_read_extent_block: block k, or a block of zeros for a hole.        *)
ReadExtentBlock(k) == [ret |-> 0, block |-> ExtentWalk(k)]

(* ext4_sector_extent_block: the sector of block k, or 0.                  *)
SectorExtentBlock(k) ==
    IF ExtentWalk(k) = NoBlock THEN 0 ELSE Sector(ExtentWalk(k))

----------------------------------------------------------------------------
Init ==
    /\ file \in Files
    /\ stray \in Strays
    /\ pc = "sectors"
    /\ count = 0
    /\ sectors = <<>>
    /\ extents = <<>>
    /\ bits = {}
    /\ dentries = <<>>

(* The key of a block in the list: its number, or its offset in sectors    *)
(* with a block map.                                                       *)
KeyOf(k) == IF file.kind = "extents" THEN k ELSE k * SectorsPerBlock

(* One round of the loop of ext4_serialize_file_sectors.  A hole in a tree *)
(* is passed over; in a block map it ends the crawler.                     *)
SerializeBlock ==
    LET r == IF file.kind = "extents" THEN LookupExtent(count)
                                      ELSE LookupMap(count)
    IN  /\ pc = "sectors"
        /\ file.kind # "symlink"
        /\ count < file.n
        /\ extents' = extents \o [i \in DOMAIN r.watch |-> Sector(r.watch[i])]
        /\ bits' = bits \cup {Sector(b) \div BlockSize : b \in Range(r.watch)}
        /\ IF r.ret = 0
           THEN sectors' = Append(sectors,
                                  [key |-> KeyOf(count),
                                   sector |-> Sector(r.block)])
           ELSE UNCHANGED sectors
        /\ IF r.ret > 0 THEN pc' = "exit" /\ UNCHANGED count
                        ELSE count' = count + 1 /\ UNCHANGED pc
        /\ UNCHANGED <<file, stray, dentries>>

(* The end of the loop; a directory goes on with its entries.              *)
FinishSectors ==
    /\ pc = "sectors"
    /\ count = file.n \/ file.kind = "symlink"
    /\ count' = 0
    /\ pc' = IF file.dir THEN "entries" ELSE "done"
    /\ UNCHANGED <<file, stray, sectors, extents, bits, dentries>>

(* One round of the loop of ext4_serialize_tree over the blocks of a       *)
(* directory.  At the end of a block map it returns without writing the    *)
(* document; in a block of zeros, rec_len is 0 and it never advances.      *)
ReadEntries ==
    LET r == IF file.kind = "extents" THEN ReadExtentBlock(count)
                                      ELSE ReadFileBlock(count)
        s == IF file.kind = "extents" THEN SectorExtentBlock(count)
                                      ELSE SectorFileBlock(count)
    IN  /\ pc = "entries"
        /\ count < file.n
        /\ IF r.ret > 0 THEN pc' = "lost" /\ UNCHANGED <<count, dentries>>
           ELSE IF r.ret = 0 /\ r.block = NoBlock
           THEN pc' = "spin" /\ UNCHANGED <<count, dentries>>
           ELSE /\ count' = count + 1
                /\ dentries' = IF r.ret = 0
                               THEN Append(dentries, [block |-> r.block,
                                                      sector |-> s])
                               ELSE dentries
                /\ UNCHANGED pc
        /\ UNCHANGED <<file, stray, sectors, extents, bits>>

(* The end of that loop: the document is written.                          *)
FinishEntries ==
    /\ pc = "entries"
    /\ count = file.n
    /\ pc' = "done"
    /\ UNCHANGED <<file, stray, count, sectors, extents, bits, dentries>>

Next == SerializeBlock \/ FinishSectors \/ ReadEntries \/ FinishEntries

Spec == Init /\ [][Next]_vars

----------------------------------------------------------------------------
BlockOfKey(key) ==
    IF file.kind = "extents" THEN key ELSE key \div SectorsPerBlock
Listed == {BlockOfKey(sectors[i].key) : i \in DOMAIN sectors}
SectorsDone == pc \in {"entries", "done", "lost", "spin"}

(* The blocks the map of the inode finds: up to the point where the index  *)
(* of a double indirect block below the triple one leaves the block.       *)
InReach(k) == file.kind # "map" \/ k < TripleLow + A * A

(* The state has its type.                                                 *)
TypeOK ==
    /\ stray \in Strays
    /\ pc \in {"sectors", "entries", "done", "exit", "lost", "spin"}
    /\ count \in 0..file.n
    /\ \A i \in DOMAIN sectors : /\ BlockOfKey(sectors[i].key) < file.n
                                 /\ sectors[i].sector \in Nat
    /\ \A i \in DOMAIN extents : extents[i] \in Nat
    /\ bits \subseteq Nat
    /\ Len(dentries) <= file.n

(* A sector listed for block k is the one that holds block k, whichever    *)
(* way the file is mapped, and no block is listed twice.                   *)
ListedSectorsHoldTheFile ==
    /\ \A i \in DOMAIN sectors :
          LET k == BlockOfKey(sectors[i].key) IN
          InReach(k) => /\ file.phys[k] # NoBlock
                        /\ sectors[i].sector = Sector(file.phys[k])
    /\ \A i, j \in DOMAIN sectors :
          i < j => sectors[i].key < sectors[j].key

(* A block of the file is missing from the list only where the walk of the *)
(* tree cannot get to it: below the last of several indexes.               *)
MissedOnlyUnderLastIndex ==
    SectorsDone /\ file.kind # "symlink" =>
        \A k \in 0..(file.n - 1) :
            file.phys[k] # NoBlock /\ InReach(k) =>
                k \in Listed \/ k \in file.last

(* The engine learns of every block of the tree above a listed block: it   *)
(* is recorded under "extents" and its bit is set, so that a later write   *)
(* to it is inspected.  (Below a triple indirect block only some are.)     *)
TreeAboveListedIsWatched ==
    SectorsDone =>
        \A k \in Listed : file.kind = "extents" \/ k < TripleLow =>
            \A b \in file.above[k] : /\ Sector(b) \in Range(extents)
                                     /\ Sector(b) \div BlockSize \in bits

(* The two walks made for a block of a directory, one for its bytes and    *)
(* one for its sector, agree, and it is block i of the directory; with a   *)
(* block map this holds for the direct blocks.                             *)
EntriesAreUnderTheirBlock ==
    \A i \in DOMAIN dentries :
        file.kind = "extents" \/ i - 1 <= DirectHigh =>
            /\ dentries[i].block = file.phys[i - 1]
            /\ dentries[i].sector = Sector(dentries[i].block)

(* The crawler gives up on a file, or never returns from it, only at a     *)
(* hole, or at a block the walks cannot find.                              *)
StopsOnlyWhereABlockIsMissing ==
    pc \in {"exit", "lost", "spin"} =>
        \/ file.phys[count] = NoBlock
        \/ count \in file.last
        \/ ~ InReach(count)

(* What the crawler lists is the file: each listed sector holds its block, *)
(* the blocks of a directory are recorded under their sectors, and a block *)
(* is left out, or the crawler stops, only where a walk cannot get to it   *)
(* (ext4_serialize_file_sectors, ext4_sector_file_block).                  *)
ListIsTheFile ==
    /\ TypeOK
    /\ ListedSectorsHoldTheFile
    /\ MissedOnlyUnderLastIndex
    /\ EntriesAreUnderTheirBlock
    /\ StopsOnlyWhereABlockIsMissing

=============================================================================
