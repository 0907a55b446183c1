------------------------------ MODULE Ext4Tree ------------------------------
(***************************************************************************)
(* The walk of the ext4 crawler over the files of a file system:           *)
(* ext4_serialize_tree from the root inode and then from the inode of the  *)
(* journal.  A file or a symbolic link is written at once; a directory is  *)
(* written after everything below it.  The stack of calls is the variable  *)
(* stack.  Each document says where the inode lies, which is how the       *)
(* engine recognizes a later write to it.                                  *)
(*                                                                         *)
(* Sizes are scaled: a sector has SectorSize bytes.                        *)
(***************************************************************************)
EXTENDS Integers, Sequences, SequencesExt, FiniteSets

CONSTANTS Trees,           \* file systems
          InodesPerGroup, InodeSize,
          SectorSize, SectorsPerBlock,
          Offsets,         \* where the partition may begin, in bytes
          Tables           \* block of the inode table, for each group

(* A file system maps the numbers of the inodes in use to records of mode  *)
(* ("regular", "symlink", "directory", "block", "other") and blocks, for a *)
(* directory the entries [inode, name] in each of its blocks (inode 0: no  *)
(* longer in use).                                                         *)

VARIABLES
    inodes,     \* the file system
    offset,     \* partition_offset
    stack,      \* calls of ext4_serialize_tree, the innermost last
    docs,       \* the documents written
    pc          \* "root", "walk", "journal_walk", "done"

vars == <<inodes, offset, stack, docs, pc>>

RootInode == 2
JournalInode == 8
block_size == SectorSize * SectorsPerBlock
NoPath == <<"(no path)">>

----------------------------------------------------------------------------
(* ext4_read_inode_serialized: the sector of the block of the inode, and   *)
(* its place in the block.  Both are taken of the position on the disk.    *)
InodeByte(n) ==
    Tables[((n - 1) \div InodesPerGroup) + 1] * block_size
    + ((n - 1) % InodesPerGroup) * InodeSize
InodeSector(n) ==
    (((offset + InodeByte(n)) \div SectorSize) \div SectorsPerBlock)
    * SectorsPerBlock
InodeOffset(n) == (offset + InodeByte(n)) % block_size

(* The document of inode n; fields but path, entries and the position of   *)
(* the inode are left out.                                                 *)
Document(n, path, dentries) ==
    [inode |-> n, path |-> path, dentries |-> dentries,
     inode_sector |-> InodeSector(n), inode_offset |-> InodeOffset(n)]

Call(n, path) ==
    [inode |-> n, path |-> path, dentries |-> <<>>,
     rest |-> inodes[n].blocks]

(* A call of ext4_serialize_tree for inode n.  Block devices have the bit  *)
(* of directories in their mode; what is neither a file nor a link nor a   *)
(* directory gets no path.                                                 *)
Enter(n, path, calls) ==
    CASE inodes[n].mode \in {"regular", "symlink"} ->
            /\ docs' = Append(docs, Document(n, path, <<>>))
            /\ stack' = calls
      [] inodes[n].mode \in {"directory", "block"} ->
            /\ stack' = Append(calls, Call(n, path))
            /\ UNCHANGED docs
      [] OTHER ->
            /\ stack' = Append(calls, Call(n, NoPath))
            /\ UNCHANGED docs

Init ==
    /\ inodes \in Trees
    /\ offset \in Offsets
    /\ stack = <<>>
    /\ docs = <<>>
    /\ pc = "root"

(* ext4_serialize_fs_tree, with the mount point "/".                       *)
ext4_serialize_fs_tree ==
    /\ pc = "root"
    /\ Enter(RootInode, <<>>, stack)
    /\ pc' = "walk"
    /\ UNCHANGED <<inodes, offset>>

Top == Last(stack)
WithTop(call) == Append(Front(stack), call)

(* The entry after this one.  (Faulty variant: the next block follows the  *)
(* first entry.)                                                           *)
AdvancedByBlock(call) == [call EXCEPT !.rest = Tail(@)]
Advanced(call) ==
    IF Len(call.rest[1]) = 1 THEN [call EXCEPT !.rest = Tail(@)]
                             ELSE [call EXCEPT !.rest[1] = Tail(@)]

(* One round of the loop over the entries of a block. The entry is         *)
(* recorded; the file it names is crawled unless it is "." or "..".        *)
IsDot(name) == name \in {".", ".."}

Listed(call, e) ==
    [Advanced(call) EXCEPT
        !.dentries = Append(@, [inode |-> e.inode, name |-> e.name])]

NextEntry ==
    /\ stack # <<>>
    /\ Top.rest # <<>>
    /\ LET e == Top.rest[1][1] IN
       \/ /\ e.inode = 0
          /\ stack' = WithTop(Advanced(Top))
          /\ UNCHANGED docs
       \/ /\ e.inode # 0
          /\ IsDot(e.name)
          /\ stack' = WithTop(Listed(Top, e))
          /\ UNCHANGED docs
       \/ /\ e.inode # 0
          /\ ~ IsDot(e.name)
          /\ Enter(e.inode, Append(Top.path, e.name), WithTop(Listed(Top, e)))
    /\ UNCHANGED <<inodes, offset, pc>>

(* The end of a call: the document of the directory is written.            *)
Return ==
    /\ stack # <<>>
    /\ Top.rest = <<>>
    /\ docs' = Append(docs, Document(Top.inode, Top.path, Top.dentries))
    /\ stack' = Front(stack)
    /\ UNCHANGED <<inodes, offset, pc>>

(* ext4_serialize_journal.                                                 *)
ext4_serialize_journal ==
    /\ pc = "walk"
    /\ stack = <<>>
    /\ Enter(JournalInode, <<"journal">>, stack)
    /\ pc' = "journal_walk"
    /\ UNCHANGED <<inodes, offset>>

Finish ==
    /\ pc = "journal_walk"
    /\ stack = <<>>
    /\ pc' = "done"
    /\ UNCHANGED <<inodes, offset, stack, docs>>

Next == \/ ext4_serialize_fs_tree \/ NextEntry \/ Return
        \/ ext4_serialize_journal \/ Finish

(* One sequential process.                                                 *)
Spec == Init /\ [][Next]_vars /\ WF_vars(Next)

----------------------------------------------------------------------------
(* What the file system means: the entries of a directory, and the inode a *)
(* path leads to (0 for none).                                             *)
EntriesOf(n) ==
    UNION {ToSet(inodes[n].blocks[b]) : b \in DOMAIN inodes[n].blocks}
Children(n) == {e \in EntriesOf(n) : e.inode # 0 /\ e.name \notin {".", ".."}}
Lookup(n, name) ==
    LET hits == {e \in Children(n) : e.name = name}
    IN  IF n = 0 \/ hits = {} THEN 0 ELSE (CHOOSE e \in hits : TRUE).inode
Resolve(path) ==
    LET f[i \in 0..Len(path)] ==
            IF i = 0 THEN RootInode
            ELSE IF f[i - 1] = 0 THEN 0 ELSE Lookup(f[i - 1], path[i])
    IN  f[Len(path)]
Names == {e.name : e \in UNION {Children(n) : n \in DOMAIN inodes}}
MaxDepth == Cardinality({n \in DOMAIN inodes : inodes[n].mode = "directory"})
Objects == {p \in UNION {[1..d -> Names] : d \in 0..MaxDepth} :
                Resolve(p) # 0}

(* The documents of the tree, without the last, that of the journal.       *)
TreeDocs ==
    IF pc \in {"journal_walk", "done"} /\ docs # <<>> THEN Front(docs) ELSE docs

(* The state has its type.                                                 *)
TypeOK ==
    /\ offset \in Offsets
    /\ pc \in {"root", "walk", "journal_walk", "done"}
    /\ \A i \in DOMAIN stack :
          /\ stack[i].inode \in DOMAIN inodes
          /\ \A j \in DOMAIN stack[i].dentries :
                stack[i].dentries[j].inode \in DOMAIN inodes
    /\ \A i \in DOMAIN docs : docs[i].inode_sector \in Nat

(* "n is the number of file objects observable": when the tree is done     *)
(* each path of the file system has one document, with the inode it leads  *)
(* to (what has no path is known by its inode alone).                      *)
EveryObjectHasItsDocument ==
    pc \in {"journal_walk", "done"} =>
        /\ Len(TreeDocs) = Cardinality(Objects)
        /\ \A p \in Objects : \E i \in DOMAIN TreeDocs :
              /\ TreeDocs[i].inode = Resolve(p)
              /\ TreeDocs[i].path = IF inodes[Resolve(p)].mode = "other"
                                    THEN NoPath ELSE p

(* A directory is written with all of its entries, and after every         *)
(* document below it.                                                      *)
DirectoriesComeLast ==
    \A i \in DOMAIN docs :
        /\ ToSet(docs[i].dentries) =
              {e \in EntriesOf(docs[i].inode) : e.inode # 0}
        /\ \A j \in DOMAIN docs :
              (/\ docs[i].path # NoPath /\ docs[j].path # NoPath
               /\ i # j /\ j < Len(docs)
               /\ IsStrictPrefix(docs[i].path, docs[j].path)) => j < i

(* The recursion is no deeper than the tree: every call but the innermost  *)
(* is for a directory, and no directory is open twice.                     *)
NoDirectoryIsOpenTwice ==
    \A i, j \in DOMAIN stack :
        i # j => stack[i].inode # stack[j].inode

(* The sector and the offset of a document together are the position of    *)
(* its inode on the disk, wherever the partition begins.                   *)
InodePositionIsExact ==
    \A i \in DOMAIN docs :
        docs[i].inode_sector * SectorSize + docs[i].inode_offset
            = offset + InodeByte(docs[i].inode)

(* The sector recorded for an inode is the first sector of a block of the *)
(* file system ("files: ID matches sector of block of itable"), if the     *)
(* partition begins on a multiple of the block size.                       *)
AlignedInodeSectorStartsABlock ==
    offset % block_size = 0 =>
        \A i \in DOMAIN docs :
            (docs[i].inode_sector * SectorSize - offset) % block_size = 0

(* The walk comes to its end.                                              *)
WalkEnds == <>(pc = "done")

=============================================================================
