--------------------------- MODULE MCGrayCrawler ----------------------------
(***************************************************************************)
(* The parts of gray-crawler that share no state, each explored from all   *)
(* of its initial states while the others rest: main over the partitions   *)
(* of a disk (Crawler), the walk over a tree of files (Ext4Tree), the list *)
(* of the blocks of a file (Ext4Blocks), the metadata filter on its way to *)
(* the queuer (BitArray) and the documents on their way to the loader      *)
(* (Bson; "types" is the same for one element of each type).  part says    *)
(* which one it is.                                                        *)
(***************************************************************************)
EXTENDS MCCrawler, MCExt4Tree, MCExt4Blocks, MCBson

CONSTANTS InodesPerGroup, InodeSize, SectorSize, Offsets,   \* of Ext4Tree
          PtSector, BlockSize, Strays,                      \* of Ext4Blocks
          Sizes, Bits, FallbackSize,                        \* of BitArray
          StartSize, MaxInt, MaxElements                    \* of Bson

VARIABLES
    part,
    inodes, offset, stack, tree_docs, tree_pc,
    map, stray, map_pc, count, sectors, extents, map_bits, dentries,
    asked, array, marked, record, filter,
    bson_pc, buffer, size, grown, todo, given, file, written,
    rbuf, rpos, rsize, rcap, got

treeVars == <<inodes, offset, stack, tree_docs, tree_pc>>
mapVars == <<map, stray, map_pc, count, sectors, extents, map_bits, dentries>>
filterVars == <<asked, array, marked, record, filter>>
bsonVars == <<bson_pc, buffer, size, grown, todo, given, file, written,
              rbuf, rpos, rsize, rcap, got>>
partVars == <<part, vars, treeVars, mapVars, filterVars, bsonVars>>

T == INSTANCE Ext4Tree WITH docs <- tree_docs, pc <- tree_pc,
                            Trees <- MCTrees, Tables <- MCTables,
                            SectorsPerBlock <- 2
B == INSTANCE Ext4Blocks WITH file <- map, pc <- map_pc, bits <- map_bits,
                              Files <- MCFiles, SectorsPerBlock <- 8
F == INSTANCE BitArray WITH bits <- array, file <- record
D == INSTANCE Bson WITH pc <- bson_pc, Elements <- MCElements, MaxDocs <- 2
Types == INSTANCE Bson WITH pc <- bson_pc, Elements <- MCAll, MaxDocs <- 1

(* The parts that rest have a disk without a partition table and one of    *)
(* the trees.                                                              *)
PartInit ==
    /\ part \in {"main", "tree", "map", "filter", "documents", "types"}
    /\ IF part = "main" THEN TRUE ELSE disk = NoTable
    /\ IF part = "tree" THEN TRUE
       ELSE /\ inodes = CHOOSE t \in MCTrees : TRUE
            /\ offset = CHOOSE o \in Offsets : TRUE
    /\ IF part = "map" THEN TRUE
       ELSE /\ map = CHOOSE f \in MCFiles : TRUE
            /\ stray = CHOOSE w \in Strays : TRUE
    /\ Init /\ T!Init /\ B!Init /\ F!Init /\ D!Init

PartNext ==
    \/ /\ part = "main" /\ Next
       /\ UNCHANGED <<treeVars, mapVars, filterVars, bsonVars>>
    \/ /\ part = "tree" /\ T!Next
       /\ UNCHANGED <<vars, mapVars, filterVars, bsonVars>>
    \/ /\ part = "map" /\ B!Next
       /\ UNCHANGED <<vars, treeVars, filterVars, bsonVars>>
    \/ /\ part = "filter" /\ F!Next
       /\ UNCHANGED <<vars, treeVars, mapVars, bsonVars>>
    \/ /\ part = "documents" /\ D!Next
       /\ UNCHANGED <<vars, treeVars, mapVars, filterVars>>
    \/ /\ part = "types" /\ Types!Next
       /\ UNCHANGED <<vars, treeVars, mapVars, filterVars>>

(* The parts are sequential and go on.  Only what a property needs of that *)
(* is assumed: main and the walk over the tree take their steps, and so    *)
(* does the loop of new_size.                                              *)
PartStep == PartNext /\ UNCHANGED part
GoesOn == part \in {"main", "tree"} \/ bson_pc \in {"grow", "grow_final"}
PartSpec ==
    PartInit /\ [][PartStep]_partVars /\ WF_partVars(GoesOn /\ PartStep)

----------------------------------------------------------------------------
(* The properties of the parts, while it is their turn; see their modules. *)

(* The index comes in the order the loader relies on: the table, each      *)
(* partition once with its file system and the groups of the first one,    *)
(* where it begins on the disk, the filter at the end (main).              *)
IndexIsInOrder == part = "main" =>
    /\ TypeOK
    /\ DocumentOrder
    /\ OneFsPerPartition
    /\ FirstFsHasItsGroups
    /\ DescribedWhereItBegins


(* Each path of a tree has one document, a directory after all that is     *)
(* below it and with all its entries, and with the position of its inode;  *)
(* the recursion of ext4_serialize_tree has no directory open twice.       *)
TreeIsDescribed == part = "tree" =>
    /\ T!TypeOK
    /\ T!EveryObjectHasItsDocument
    /\ T!DirectoriesComeLast
    /\ T!NoDirectoryIsOpenTwice
    /\ T!InodePositionIsExact
    /\ T!AlignedInodeSectorStartsABlock

(* What the crawler lists is the file: each listed sector holds its block, *)
(* the blocks of a directory are recorded under their sectors, and a block *)
(* is left out, or the crawler stops, only where a walk cannot get to it   *)
(* (ext4_serialize_file_sectors, ext4_sector_file_block).                  *)
ListIsTheFile == part = "map" => B!ListIsTheFile

(* The engine learns of every block of the tree above a listed block, and  *)
(* the bit of that block is set (the "extents" of a document).             *)
TreeAboveListedIsWatched == part = "map" => B!TreeAboveListedIsWatched

(* The array reports exactly the bits that are marked, the loaded filter   *)
(* agrees with it as far as it was copied, and the filter made when the    *)
(* index has none drops no write (bitarray.c, qemu_load_md_filter).        *)
FilterIsKept == part = "filter" =>
    /\ F!TypeOK
    /\ F!ReportsMarked
    /\ F!LoadedPrefixAgrees
    /\ F!FallbackKeepsAll

(* Encoder and reader stay in their buffers (resize, bson_readf).          *)
BuffersHold == part \in {"documents", "types"} => D!TypeOK /\ D!BuffersHold

(* The elements read are those written, byte by byte, and length and       *)
(* cursor are exact (bson_finalize, bson_deserialize).                     *)
DocumentsAreRead == part \in {"documents", "types"} =>
    D!LengthIsExact /\ D!CursorIsExact /\ D!RoundTrip

(* Each part completes what it has begun: healthy disks are crawled to the *)
(* end, the walk over the tree returns, the loop of new_size ends, and a   *)
(* document that is read to its end has given all of its elements.         *)
PartsComplete ==
    /\ HealthyDisksAreCrawled
    /\ part = "tree" => T!WalkEnds
    /\ D!GrowthEnds
    /\ D!NothingIsLeftOut
=============================================================================
