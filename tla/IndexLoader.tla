---------------------------- MODULE IndexLoader ----------------------------
(***************************************************************************)
(* qemu_load_index: the engine reads the crawler's index, document after   *)
(* document, and leaves in Redis the sector map and the lists that the     *)
(* rest of the engine (Inferencer) and gray-fs (GrayFs) work with.  The    *)
(* documents carry no reference to the file system they belong to: the     *)
(* loader keeps the counters and the block size of the latest file system  *)
(* in static variables.                                                    *)
(*                                                                         *)
(* A document is its type and a sequence of fields [key, value]; fields    *)
(* that only go into a hash are left out but for block_size.  That of a    *)
(* file has as block_size the one of its own file system, which the loader *)
(* does not see.                                                           *)
(***************************************************************************)
EXTENDS Integers, Sequences

CONSTANTS Indexes,      \* index files, sequences of documents
          Sectors       \* sector numbers that occur in them

Hole == -1
Keys == Sectors \cup {Hole}     \* sector:<n>; a hole is a key as well
MaxFiles == 3                   \* bound: files of an index

VARIABLES
    index,        \* documents not read yet
    doc,          \* the document being loaded
    fields,       \* its fields still to be taken
    block_size,   \* static super, its block size
    fsBlockSize,  \* fs:<id> block_size
    bgd_counter,  \* static
    file_counter, \* static
    pointer,      \* sector:<n>
    files,        \* files:<n>, files of a block of the inode table
    bgds,         \* bgds:<n>, descriptors of a block of the table
    filesectors,  \* filesectors:<f>
    extents,      \* extents:<f>
    fcounter,     \* fcounter
    filter,       \* the metadata filter is stored
    pc,           \* "read", "load" or "done"
    loaded,       \* history: the file documents loaded
    claims        \* history: number of the file that set pointer last, from 1

maps == <<pointer, files, bgds, filesectors, extents>>
statics == <<block_size, bgd_counter, file_counter>>
vars == <<index, doc, fields, statics, fsBlockSize, maps, fcounter, filter,
          pc, loaded, claims>>

Ids == 0..(MaxFiles - 1)
NoPointer == [kind |-> "none", id |-> 0, start |-> 0]
Pointer(kind, id) == [kind |-> kind, id |-> id, start |-> 0]
Data(id, start) == [kind |-> "start", id |-> id, start |-> start]

Init ==
    /\ index \in Indexes
    /\ doc = [type |-> "none"]
    /\ fields = <<>>
    /\ block_size = 0
    /\ fsBlockSize = [i \in 0..3 |-> 0]
    /\ bgd_counter = 0
    /\ file_counter = 0
    /\ pointer = [s \in Keys |-> NoPointer]
    /\ files = [s \in Keys |-> <<>>]
    /\ bgds = [s \in Keys |-> <<>>]
    /\ filesectors = [f \in Ids |-> <<>>]
    /\ extents = [f \in Ids |-> <<>>]
    /\ fcounter = 0
    /\ filter = FALSE
    /\ pc = "read"
    /\ loaded = <<>>
    /\ claims = [s \in Keys |-> 0]

(* bson_readf and the dispatch of qemu_load_document on the type.  The     *)
(* first field of a partition or file system is its number.  A document    *)
(* without a known type is passed over.                                    *)
ReadDocument ==
    /\ pc = "read"
    /\ index # <<>>
    /\ Head(index).type # "cut"
    /\ index' = Tail(index)
    /\ doc' = Head(index)
    /\ LET d == Head(index)
           known == d.type \in {"mbr", "partition", "fs", "bgd", "file",
                                "metadata_filter"}
       IN  /\ fields' = IF known THEN d.fields ELSE <<>>
           /\ file_counter' = file_counter + (IF d.type = "file" THEN 1 ELSE 0)
           /\ bgd_counter' = bgd_counter + (IF d.type = "bgd" THEN 1 ELSE 0)
           /\ loaded' = IF d.type = "file"
                        THEN Append(loaded, d) ELSE loaded
    /\ pc' = "load"
    /\ UNCHANGED <<block_size, fsBlockSize, maps, fcounter, filter, claims>>

Field == Head(fields)
Loading(type, key) ==
    /\ pc = "load"
    /\ fields # <<>>
    /\ doc.type = type
    /\ Field.key = key
Taken == fields' = Tail(fields)
Id == file_counter - 1

(* New pointers, a function of their sectors, and who claims these.        *)
Claimer == IF doc.type = "file" THEN Len(loaded) ELSE 0
SetPointers(new) ==
    /\ pointer' = [s \in Keys |-> IF s \in DOMAIN new THEN new[s] ELSE pointer[s]]
    /\ claims' = [s \in Keys |-> IF s \in DOMAIN new THEN Claimer ELSE claims[s]]

(* __deserialize_mbr, and superblock_sector of __deserialize_fs.           *)
LoadPointer ==
    /\ \/ Loading("mbr", "sector")
       \/ Loading("fs", "superblock_sector")
    /\ SetPointers([s \in {Field.value} |->
                       IF doc.type = "mbr" THEN Pointer("mbr", 0)
                       ELSE Pointer("fs", doc.id)])
    /\ Taken
    /\ UNCHANGED <<index, doc, statics, fsBlockSize, files, bgds, filesectors,
                   extents, fcounter, filter, pc, loaded>>

LoadBlockSize ==
    /\ Loading("fs", "block_size")
    /\ fsBlockSize' = [fsBlockSize EXCEPT ![doc.id] = Field.value]
    /\ Taken
    /\ UNCHANGED <<index, doc, statics, maps, fcounter, filter, pc, loaded,
                   claims>>

(* __deserialize_bgd.                                                      *)
LoadBgd ==
    /\ Loading("bgd", "sector")
    /\ bgds' = [bgds EXCEPT ![Field.value] = Append(@, bgd_counter - 1)]
    /\ SetPointers([s \in {Field.value} |-> Pointer("lbgds", s)])
    /\ Taken
    /\ UNCHANGED <<index, doc, statics, fsBlockSize, files, filesectors,
                   extents, fcounter, filter, pc, loaded>>

(* __deserialize_bitarray.                                                 *)
LoadFilter ==
    /\ Loading("metadata_filter", "bitarray")
    /\ filter' = TRUE
    /\ Taken
    /\ UNCHANGED <<index, doc, statics, fsBlockSize, maps, fcounter, pc,
                   loaded, claims>>

(* __deserialize_file: the block of its inode.                             *)
LoadInodeSector ==
    /\ Loading("file", "inode_sector")
    /\ files' = [files EXCEPT ![Field.value] = Append(@, Id)]
    /\ SetPointers([s \in {Field.value} |-> Pointer("lfiles", s)])
    /\ Taken
    /\ UNCHANGED <<index, doc, statics, fsBlockSize, bgds, filesectors,
                   extents, fcounter, filter, pc, loaded>>

(* Its blocks: block i lies at i times the block size.  A block that is    *)
(* listed twice (a hole) has the pointer of the last place.  (Faulty       *)
(* variant: the counter is advanced before a block is set.)                *)
StartFromOne(i) == i * block_size
StartOf(i) == (i - 1) * block_size
LoadSectors ==
    /\ Loading("file", "sectors")
    /\ LET list == Field.value
           Last(s) == CHOOSE i \in DOMAIN list :
                        /\ list[i] = s
                        /\ \A j \in (i + 1)..Len(list) : list[j] # s
       IN  /\ filesectors' = [filesectors EXCEPT ![Id] = @ \o list]
           /\ SetPointers([s \in {list[i] : i \in DOMAIN list} |->
                              Data(Id, StartOf(Last(s)))])
    /\ Taken
    /\ UNCHANGED <<index, doc, statics, fsBlockSize, files, bgds, extents,
                   fcounter, filter, pc, loaded>>

(* The blocks of its extent tree, and of its entries if it is a directory. *)
LoadExtents ==
    /\ Loading("file", "extents")
    /\ extents' = [extents EXCEPT ![Id] = @ \o Field.value]
    /\ SetPointers([s \in {Field.value[i] : i \in DOMAIN Field.value} |->
                       Pointer("extent", s)])
    /\ Taken
    /\ UNCHANGED <<index, doc, statics, fsBlockSize, files, bgds, filesectors,
                   fcounter, filter, pc, loaded>>

LoadEntries ==
    /\ Loading("file", "files")
    /\ SetPointers([s \in {Field.value[i] : i \in DOMAIN Field.value} |->
                       Pointer("dirdata", s)])
    /\ Taken
    /\ UNCHANGED <<index, doc, statics, fsBlockSize, files, bgds, filesectors,
                   extents, fcounter, filter, pc, loaded>>

(* The end of a document. After a file system, qemu_get_superinfo reads    *)
(* what the documents so far say of it.                                    *)
SuperInfo == IF doc.type = "fs" THEN fsBlockSize[doc.id] ELSE block_size
EndDocument ==
    /\ pc = "load"
    /\ fields = <<>>
    /\ block_size' = SuperInfo
    /\ pc' = "read"
    /\ UNCHANGED <<index, doc, fields, bgd_counter, file_counter, fsBlockSize,
                   maps, fcounter, filter, loaded, claims>>

(* The end of the index, or a document that is cut off: the counter is     *)
(* stored.                                                                 *)
EndOfIndex ==
    /\ pc = "read"
    /\ index # <<>> => Head(index).type = "cut"
    /\ fcounter' = file_counter
    /\ pc' = "done"
    /\ UNCHANGED <<index, doc, fields, statics, fsBlockSize, maps, filter,
                   loaded, claims>>

Next ==
    \/ ReadDocument \/ LoadPointer \/ LoadBlockSize \/ LoadBgd \/ LoadFilter
    \/ LoadInodeSector \/ LoadSectors \/ LoadExtents \/ LoadEntries
    \/ EndDocument \/ EndOfIndex

(* The loader is one thread.                                               *)
Spec == Init /\ [][Next]_vars /\ WF_vars(Next)

----------------------------------------------------------------------------
(* The state has its type.                                                 *)
TypeOK ==
    /\ file_counter \in 0..MaxFiles
    /\ \A s \in Keys : /\ pointer[s].id \in Nat
                       /\ \A i \in DOMAIN files[s] : files[s][i] \in Ids
    /\ \A f \in Ids : filesectors[f] \in Seq(Keys)
    /\ fcounter \in 0..MaxFiles
    /\ pc \in {"read", "load", "done"}

(* Every block of a loaded file leads back to the file and to its place in *)
(* it, at a multiple of the block size of its own file system, unless the  *)
(* block holds entries of a directory or a document after it claims it.    *)
PointsBack(f, i) ==
    LET s == filesectors[f][i] IN
    \/ claims[s] # f + 1
    \/ pointer[s].kind = "dirdata"
    \/ /\ pointer[s].kind = "start"
       /\ pointer[s].id = f
       /\ \E j \in i..Len(filesectors[f]) :
             /\ filesectors[f][j] = s
             /\ pointer[s].start = (j - 1) * loaded[f + 1].block_size
BlocksPointBack ==
    \A f \in Ids : \A i \in DOMAIN filesectors[f] : PointsBack(f, i)

(* The files of a block of the inode table are exactly those loaded with   *)
(* that block, in the order of their documents: __diff_inodes misses none. *)
InodeBlocksListTheirFiles ==
    pc = "done" =>
        \A s \in Sectors :
            LET own(f) == \E i \in DOMAIN loaded[f + 1].fields :
                             /\ loaded[f + 1].fields[i].key = "inode_sector"
                             /\ loaded[f + 1].fields[i].value = s
            IN  /\ {files[s][i] : i \in DOMAIN files[s]} =
                      {f \in 0..(Len(loaded) - 1) : own(f)}
                /\ \A i, j \in DOMAIN files[s] :
                      i < j => files[s][i] < files[s][j]

(* Files created later get numbers that no loaded file has.                *)
CounterIsFresh ==
    pc = "done" => /\ fcounter = Len(loaded)
                   /\ \A f \in Ids : filesectors[f] # <<>> => f < fcounter

(* Every index is loaded to its end, or to where it is cut off.            *)
LoadEnds == <>(pc = "done")

=============================================================================
