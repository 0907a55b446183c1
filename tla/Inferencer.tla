----------------------------- MODULE Inferencer -----------------------------
(***************************************************************************)
(* The inference engine of gray-inferencer (deep_inspection.c).  It takes  *)
(* the writes of a guest one after the other and looks every block up in   *)
(* the sector map that it keeps in Redis.  A block of file data is         *)
(* published, a block of inodes or of an extent tree is compared with what *)
(* is known and changes the map, a block that is not in the map waits in   *)
(* Redis, with a time to live, until metadata tells what it is.            *)
(*                                                                         *)
(* One thread does all of it, by calls that nest (an inode's new extent    *)
(* makes it look at the block that waits, and so on); work is the stack of *)
(* what it has still to do.  Redis forgets waiting blocks on its own.  The *)
(* thread's commands reach Redis in order, so the store is the state after *)
(* all of them; what matters of the pipeline is which replies have not     *)
(* been read, because redis_dequeue and redis_publish take the oldest of   *)
(* them for their own (see KvStore).                                       *)
(*                                                                         *)
(* A sector number stands for a whole block, a content for its bytes, of   *)
(* which the properties tell the kind apart: file data, the inodes of all  *)
(* files, a block of an extent tree.  Of a block that was kept only up to  *)
(* the size of its file, the rest is whatever the stack holds when it is   *)
(* looked at again; good is the number of bytes that are the guest's.      *)
(***************************************************************************)
EXTENDS Integers, Sequences, FiniteSets, Functions

CONSTANTS Files,            \* files of the index
          Sectors,          \* blocks of the disk
          InodeSector,      \* block of the inode table that holds the inodes
          Disk0,            \* contents of the disk that was crawled
          FileSectors0,     \* filesectors of the index
          Writes,           \* writes of the guest: [sector, blocks]
          BlockLen,         \* superblock->block_size
          REDIS_DEFAULT_PIPELINED,
          MaxWrites,        \* bound: writes
          MaxExpiries       \* bound: blocks that Redis forgets

ASSUME InferencerAssumption ==
    /\ InodeSector \in Sectors
    /\ Disk0[InodeSector].kind = "inodes"
    /\ BlockLen \in Nat \ {0}
    /\ REDIS_DEFAULT_PIPELINED \in Nat \ {0}

Nil == [kind |-> "nil"]
Hole == -1

VARIABLES
    pointer,      \* sector:<n>, what a block is
    qsector,      \* qsector:<n>, blocks that wait
    filesectors,  \* filesectors:<f>, the blocks of a file in order
    extents,      \* extents:<f>, blocks of its extent tree
    leafFile,     \* extent:<n> file
    size,         \* file:<f> size
    pending,      \* replies not read: data of a waiting block or Nil
    work,         \* stack of calls
    published,    \* history: data messages
    disk,         \* history: what the guest has written
    split,        \* history: files of which one comparison appended two
                  \*   extents
    stale,        \* history: files touched by a leaf that its file no longer
                  \*   had
    wide,         \* history: blocks written together with others
    shifted,      \* history: blocks for which a dequeue returned another one
    lost,         \* history: blocks that waited and were removed unread or
                  \*   forgotten, or that a file gave up as leaves, and that
                  \*   were not written since
    writes,       \* number of writes
    expiries      \* number of blocks forgotten

store == <<pointer, filesectors, extents, leafFile, size>>
counters == <<writes, expiries>>
ghosts == <<disk, split, stale, wide, shifted, lost>>
vars == <<store, qsector, pending, work, published, ghosts, counters>>

----------------------------------------------------------------------------
(* n pipelined commands that return nothing of interest: at the threshold  *)
(* all of the replies are read.                                            *)
Nones(n) == [i \in 1..n |-> Nil]
Piped(n) ==
    LET over == Len(pending) + n - REDIS_DEFAULT_PIPELINED
    IN  IF over >= 0 THEN Nones(over) ELSE pending \o Nones(n)

(* A synchronous command without a flush: its reply is queued, the oldest  *)
(* one is taken.                                                           *)
Rest(reply) == Tail(Append(pending, reply))

Unknown == [kind |-> "unknown"]
Data(file, start) == [kind |-> "data", file |-> file, start |-> start]
Tree == [kind |-> "extent"]
Inodes == [kind |-> "lfiles"]

(* A block that waits: n bytes in Redis, and the size of the file it was   *)
(* cut to, if it was.                                                      *)
Queued(content, n, good, fsize) ==
    [kind |-> "queued", content |-> content, n |-> n, good |-> good,
     fsize |-> fsize]
Min(a, b) == IF a <= b THEN a ELSE b

(* What the engine does next.                                              *)
LookupOf(first, sector, content, good, fsize) ==
    [op |-> "lookup", first |-> first, sector |-> sector, content |-> content,
     good |-> good, fsize |-> fsize]
Flush == [op |-> "flush"]
InodeOf(file, inode) == [op |-> "inode", file |-> file, inode |-> inode]
ExtentsOf(file, header) ==
    [op |-> "extents", file |-> file, header |-> header]
EntriesOf(file, depth, entries, old, exts, appended) ==
    [op |-> "entries", file |-> file, depth |-> depth, entries |-> entries,
     old |-> old, exts |-> exts, appended |-> appended]
BlocksOf(file, extent, i, old) ==
    [op |-> "blocks", file |-> file, extent |-> extent, i |-> i, old |-> old]
GrownOf(file) == [op |-> "grown", file |-> file]
ReinspectOf(sector, growth) ==
    [op |-> "reinspect", sector |-> sector, growth |-> growth]

Task == Head(work)
Doing(op) == work # <<>> /\ Task.op = op
Then(tasks) == work' = tasks \o Tail(work)

(* The state the index leaves behind (see IndexLoader).                    *)
PointerOf(s) ==
    IF s = InodeSector THEN Inodes
    ELSE IF \E f \in Files : \E i \in DOMAIN FileSectors0[f] :
               FileSectors0[f][i] = s
    THEN LET f == CHOOSE f \in Files : \E i \in DOMAIN FileSectors0[f] :
                      FileSectors0[f][i] = s
             i == CHOOSE i \in DOMAIN FileSectors0[f] : FileSectors0[f][i] = s
         IN  Data(f, (i - 1) * BlockLen)
    ELSE Unknown

InodeIn(content, file) == content.inode[file]

Init ==
    /\ pointer = [s \in Sectors |-> PointerOf(s)]
    /\ qsector = [s \in Sectors |-> Nil]
    /\ filesectors = FileSectors0
    /\ extents = [f \in Files |-> <<>>]
    /\ leafFile = [s \in Sectors |-> Nil]
    /\ size = [f \in Files |-> InodeIn(Disk0[InodeSector], f).size]
    /\ pending = <<>>
    /\ work = <<>>
    /\ published = {}
    /\ disk = Disk0
    /\ split = {}
    /\ stale = {}
    /\ wide = {}
    /\ shifted = {}
    /\ lost = {}
    /\ writes = 0
    /\ expiries = 0

----------------------------------------------------------------------------
(* read_loop hands a write to qemu_deep_inspect: every block in order, and *)
(* a flush at the end.                                                     *)
LeavesIn(inodes, f) ==
    LET header == InodeIn(inodes, f).header IN
    IF header.depth = 0 THEN {} ELSE {x.start : x \in Range(header.entries)}
TakeWrite(w) ==
    LET written == w.sector..(w.sector + Len(w.blocks) - 1)
        given_up == {s \in Sectors : \E f \in Files :
                        /\ s \in LeavesIn(disk[InodeSector], f)
                        /\ s \notin LeavesIn(disk'[InodeSector], f)}
    IN
    /\ work = <<>>
    /\ writes < MaxWrites
    /\ work' = [i \in 1..Len(w.blocks) |->
                   LookupOf(w.sector, w.sector + i - 1, w.blocks[i], BlockLen, 0)]
               \o <<Flush>>
    /\ disk' = [s \in Sectors |-> IF s \in written
                                  THEN w.blocks[s - w.sector + 1] ELSE disk[s]]
    /\ wide' = IF Len(w.blocks) > 1 THEN wide \cup written ELSE wide
    /\ lost' = (lost \ written) \cup given_up
    /\ writes' = writes + 1
    /\ UNCHANGED <<store, qsector, pending, published, split, stale, shifted,
                   expiries>>

(* redis_flush_pipeline at the end of a call.                              *)
FlushPipeline ==
    /\ Doing("flush")
    /\ pending' = <<>>
    /\ Then(<<>>)
    /\ UNCHANGED <<store, qsector, published, ghosts, counters>>

(* A block that is not in the map waits in Redis.                          *)
EnqueueUnknown ==
    /\ Doing("lookup")
    /\ pointer[Task.sector] = Unknown
    /\ qsector' = [qsector EXCEPT ![Task.sector] =
                      Queued(Task.content, BlockLen, Task.good, Task.fsize)]
    /\ pending' = <<Nil>>
    /\ Then(<<>>)
    /\ UNCHANGED <<store, published, ghosts, counters>>

(* __emit_file_bytes.  The last block of a file is cut to the size of the  *)
(* file and kept; a block before it no longer waits.  Both are done under  *)
(* the number of the first block of the write.  The comparison is unsigned *)
(* and false when the block lies behind the end of the file.               *)
(* (Faulty variant: a block that is kept already is not replaced.)         *)
IsLast(room) == 0 <= room /\ room <= BlockLen
QueueAfter(room, end, fsize, old) ==
    IF end < fsize THEN Nil
    ELSE IF IsLast(room)
    THEN Queued(Task.content, room, Min(room, Task.good), fsize)
    ELSE old
EmitFileBytes ==
    /\ Doing("lookup")
    /\ pointer[Task.sector].kind = "data"
    /\ LET p == pointer[Task.sector]
           fsize == size[p.file]
           room == fsize - p.start
           end == p.start + BlockLen
           n == IF IsLast(room) THEN room ELSE BlockLen
       IN  /\ qsector' = [qsector EXCEPT ![Task.first] =
                             QueueAfter(room, end, fsize, @)]
           /\ pending' = IF IsLast(room) \/ end < fsize THEN <<Nil>> ELSE <<>>
           /\ published' = published \cup
                 {[file |-> p.file, start |-> p.start, n |-> n,
                   good |-> Min(n, Task.good), sector |-> Task.sector,
                   grown |-> fsize > Task.fsize,
                   current |-> Task.content = disk[Task.sector],
                   trusted |-> Task.sector \notin wide \cup shifted]}
    /\ Then(<<>>)
    /\ UNCHANGED <<store, ghosts, counters>>

(* __diff_inodes: every file of the block, in the order of the list.       *)
FileOrder == CHOOSE q \in [1..Cardinality(Files) -> Files] :
                 \A i, j \in DOMAIN q : q[i] = q[j] => i = j
DiffInodes ==
    /\ Doing("lookup")
    /\ pointer[Task.sector] = Inodes
    /\ pending' = <<>>
    /\ Then([i \in DOMAIN FileOrder |->
                InodeOf(FileOrder[i], InodeIn(Task.content, FileOrder[i]))])
    /\ UNCHANGED <<store, qsector, published, ghosts, counters>>

(* __diff_extent_tree: the file of a leaf is the one whose tree it was     *)
(* first a part of; nothing tells whether it still is.                     *)
EntriesOn(content) ==
    IF content.kind = "tree" THEN Range(content.header.entries) ELSE {}
Touched(f, entries) ==
    {g \in Files : \/ g = f
                   \/ \E e \in entries : \E i \in 0..(e.len - 1) :
                         e.start + i \in Range(filesectors[g])}
DiffExtentTree ==
    /\ Doing("lookup")
    /\ pointer[Task.sector] = Tree
    /\ pending' = <<>>
    /\ LET f == leafFile[Task.sector].file IN
       /\ Then(<<ExtentsOf(f,
                    IF Task.content.kind = "tree" THEN Task.content.header
                    ELSE [depth |-> 0, entries |-> <<>>])>>)
       /\ stale' = IF Task.sector \in LeavesIn(disk[InodeSector], f) THEN stale
                   ELSE stale \cup Touched(f, EntriesOn(Task.content))
    /\ UNCHANGED <<store, qsector, published, disk, split, wide, shifted, lost,
                   counters>>

(* An inode: its fields are read, compared, published and set. A regular   *)
(* file or directory has its extents compared; when the file has grown,    *)
(* its last block is looked at again.                                      *)
SizeSet(file, new) == [size EXCEPT ![file] = new]
DiffInode ==
    /\ Doing("inode")
    /\ LET f == Task.file
           new == Task.inode
       IN  /\ size' = SizeSet(f, new.size)
           /\ pending' = IF new.size # size[f] THEN <<Nil>> ELSE <<>>
           /\ Then((IF new.regular THEN <<ExtentsOf(f, new.header)>> ELSE <<>>)
                   \o (IF size[f] < new.size THEN <<GrownOf(f)>> ELSE <<>>))
    /\ UNCHANGED <<pointer, filesectors, extents, leafFile, qsector,
                   published, ghosts, counters>>

(* __diff_ext4_extents: what is known of the file, then every entry, then  *)
(* a flush.                                                                *)
DiffExtents ==
    /\ Doing("extents")
    /\ pending' = <<>>
    /\ Then(<<EntriesOf(Task.file, Task.header.depth, Task.header.entries,
                        Len(filesectors[Task.file]), extents[Task.file],
                        FALSE),
              Flush>>)
    /\ UNCHANGED <<store, qsector, published, ghosts, counters>>

NextEntry(appended) ==
    EntriesOf(Task.file, Task.depth, Tail(Task.entries), Task.old, Task.exts,
              appended)

EndEntries ==
    /\ Doing("entries")
    /\ Task.entries = <<>>
    /\ Then(<<>>)
    /\ UNCHANGED <<store, qsector, pending, published, ghosts, counters>>

(* An entry of an index, when the file had no tree: the block is a part of *)
(* it from now on, and is looked at if it waits.                           *)
FirstTreeBlock ==
    /\ Doing("entries")
    /\ Task.entries # <<>>
    /\ Task.depth > 0
    /\ Task.exts = <<>>
    /\ LET s == Head(Task.entries).start IN
       /\ leafFile' = [leafFile EXCEPT ![s] = [file |-> Task.file]]
       /\ extents' = [extents EXCEPT ![Task.file] = Append(@, s)]
       /\ pointer' = [pointer EXCEPT ![s] = Tree]
       /\ pending' = Piped(3)
       /\ Then(<<ReinspectOf(s, FALSE), NextEntry(FALSE)>>)
    /\ UNCHANGED <<filesectors, size, qsector, published, ghosts, counters>>

(* An entry of an index, when the file had a tree.  The LINSERTs name a    *)
(* pivot that is no element of the list, and change nothing.               *)
OtherTreeBlock ==
    /\ Doing("entries")
    /\ Task.entries # <<>>
    /\ Task.depth > 0
    /\ Task.exts # <<>>
    /\ LET s == Head(Task.entries).start
           before == {i \in DOMAIN Task.exts :
                         \A j \in 1..i : Task.exts[j] # s}
           smaller == {i \in before : s < Task.exts[i]}
       IN  pending' = Piped(Cardinality(smaller))
    /\ Then(<<NextEntry(FALSE)>>)
    /\ UNCHANGED <<store, qsector, published, ghosts, counters>>

(* An extent.  When it begins behind the blocks known at the start of the  *)
(* comparison, the blocks between become a hole.  (Faulty variant: one     *)
(* block too many.)                                                        *)
HoleTooLong(block, old) == block - old + 1
HoleLength(block, old) == block - old
BeginExtent ==
    /\ Doing("entries")
    /\ Task.entries # <<>>
    /\ Task.depth = 0
    /\ LET e == Head(Task.entries)
           hole == IF e.block < Task.old THEN 0
                   ELSE HoleLength(e.block, Task.old)
           appends == e.block + e.len > Task.old
       IN  /\ filesectors' = [filesectors EXCEPT ![Task.file] =
                                 @ \o [i \in 1..hole |-> Hole]]
           /\ pending' = Piped(hole)
           /\ split' = IF appends /\ Task.appended THEN split \cup {Task.file}
                       ELSE split
           /\ Then(<<BlocksOf(Task.file, e, 0, Task.old),
                     NextEntry(Task.appended \/ appends)>>)
    /\ UNCHANGED <<pointer, extents, leafFile, size, qsector, published, disk,
                   stale, wide, shifted, lost, counters>>

(* A block of an extent: it replaces a known one or is appended, its       *)
(* pointer is set, and it is looked at if it waits.                        *)
ExtentBlock ==
    /\ Doing("blocks")
    /\ Task.i < Task.extent.len
    /\ LET f == Task.file
           s == Task.extent.start + Task.i
           b == Task.extent.block + Task.i
       IN  /\ filesectors' =
                 [filesectors EXCEPT ![f] =
                     IF b < Task.old THEN [@ EXCEPT ![b + 1] = s]
                     ELSE Append(@, s)]
           /\ pointer' = [pointer EXCEPT ![s] = Data(f, b * BlockLen)]
           /\ pending' = Piped(2)
           /\ Then(<<ReinspectOf(s, FALSE),
                     BlocksOf(f, Task.extent, Task.i + 1, Task.old)>>)
    /\ UNCHANGED <<extents, leafFile, size, qsector, published, ghosts,
                   counters>>

EndExtent ==
    /\ Doing("blocks")
    /\ Task.i = Task.extent.len
    /\ Then(<<>>)
    /\ UNCHANGED <<store, qsector, pending, published, ghosts, counters>>

(* redis_last_file_sector flushes and reads the end of the list; a hole or *)
(* an empty list name no block that waits.  (Faulty variants: no flush; it *)
(* is done again and again.)                                               *)
LastAgain ==
    LET list == filesectors[Task.file] IN
    /\ pending' = <<>>
    /\ Then(IF list # <<>> /\ list[Len(list)] # Hole
            THEN <<ReinspectOf(list[Len(list)], TRUE), Task>> ELSE <<>>)
LastSector ==
    LET list == filesectors[Task.file] IN
    /\ pending' = <<>>
    /\ Then(IF list # <<>> /\ list[Len(list)] # Hole
            THEN <<ReinspectOf(list[Len(list)], TRUE)>> ELSE <<>>)
Grown ==
    /\ Doing("grown")
    /\ LastSector
    /\ UNCHANGED <<store, qsector, published, ghosts, counters>>

(* __reinspect_write: redis_dequeue takes the oldest reply for the block,  *)
(* and removes the block.  An empty reply ends it; otherwise a whole block *)
(* is inspected, of which as many bytes were filled as the reply has.      *)
Reinspect ==
    /\ Doing("reinspect")
    /\ LET s == Task.sector
           own == qsector[s]
           taken == Head(Append(pending, own))
           some == taken # Nil /\ taken.n > 0
           other == pending # <<>>
       IN  /\ qsector' = [qsector EXCEPT ![s] = Nil]
           /\ pending' = Tail(Append(Rest(own), Nil))
           /\ shifted' = IF some /\ other THEN shifted \cup {s} ELSE shifted
           /\ lost' = IF own # Nil /\ other THEN lost \cup {s} ELSE lost
           /\ Then(IF some THEN <<LookupOf(s, s, taken.content, taken.good,
                                           taken.fsize), Flush>>
                   ELSE <<>>)
    /\ UNCHANGED <<store, published, disk, split, stale, wide, counters>>

(* Redis forgets a block that has waited for its time to live.             *)
Expire(s) ==
    /\ qsector[s] # Nil
    /\ expiries < MaxExpiries
    /\ qsector' = [qsector EXCEPT ![s] = Nil]
    /\ lost' = lost \cup {s}
    /\ expiries' = expiries + 1
    /\ UNCHANGED <<store, pending, work, published, disk, split, stale, wide,
                   shifted, writes>>

Engine ==
    \/ FlushPipeline \/ EnqueueUnknown \/ EmitFileBytes \/ DiffInodes
    \/ DiffExtentTree \/ DiffInode \/ DiffExtents \/ EndEntries
    \/ FirstTreeBlock \/ OtherTreeBlock \/ BeginExtent \/ ExtentBlock
    \/ EndExtent \/ Grown \/ Reinspect

Next ==
    \/ \E w \in Writes : TakeWrite(w)
    \/ Engine
    \/ \E s \in Sectors : Expire(s)

(* The thread of the engine runs on.                                       *)
Spec == Init /\ [][Next]_vars /\ WF_vars(Engine)

----------------------------------------------------------------------------
(* The state has its type.                                                 *)
TypeOK ==
    /\ \A s \in Sectors :
          /\ pointer[s].kind \in {"unknown", "data", "extent", "lfiles"}
          /\ pointer[s].kind = "data" => pointer[s].file \in Files
          /\ pointer[s].kind = "extent" => leafFile[s] # Nil
          /\ qsector[s] # Nil => qsector[s].n \in 0..BlockLen
    /\ \A f \in Files : /\ filesectors[f] \in Seq(Sectors \cup {Hole})
                         /\ extents[f] \in Seq(Sectors)
                         /\ size[f] \in Nat
    /\ Len(pending) < REDIS_DEFAULT_PIPELINED
    /\ wide \cup shifted \cup lost \subseteq Sectors

(* When a write has been dealt with, nothing is left in the pipeline: what *)
(* it changed can be seen by gray-fs.                                      *)
IdleIsFlushed == work = <<>> => pending = <<>>

(* The size that gray-fs reports is the one in the inode on the disk, when *)
(* the engine has caught up.                                               *)
SizeIsOnDisk ==
    work = <<>> =>
        \A f \in Files : size[f] = InodeIn(disk[InodeSector], f).size


(* The list of a file has the blocks of an extent at their places, and     *)
(* their keys lead back to the file.                                       *)
Indexed(f, e) ==
    \A i \in 0..(e.len - 1) : LET b == e.block + i IN
        /\ b + 1 \in DOMAIN filesectors[f]
        /\ filesectors[f][b + 1] = e.start + i
        /\ pointer[e.start + i] = Data(f, b * BlockLen)

(* The map of a regular file is the one on the disk, inode and leaves.  It *)
(* is not for the blocks below a leaf that the engine was not told of when *)
(* the file got its first tree, or whose content waited and was removed    *)
(* unread; nor for a file of which one comparison appended two extents, or *)
(* that was changed through a leaf which its file no longer had.           *)
IndexedUnlessSplit ==
    work = <<>> => \A f \in Files \ (split \cup stale) :
        LET inode == InodeIn(disk[InodeSector], f)
            entries == Range(inode.header.entries)
            known == Range(extents[f])
        IN  inode.regular =>
                IF inode.header.depth = 0 THEN \A e \in entries : Indexed(f, e)
                ELSE /\ known # {}
                     /\ \A x \in entries : x.start \in known \ lost =>
                            \A e \in EntriesOn(disk[x.start]) : Indexed(f, e)


(* The engine is done with every write at last: the calls that nest come   *)
(* to an end, for a block that was looked at again no longer waits.        *)
EngineReturns == []<>(work = <<>>)

=============================================================================
