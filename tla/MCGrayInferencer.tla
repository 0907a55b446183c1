-------------------------- MODULE MCGrayInferencer --------------------------
(***************************************************************************)
(* The parts of gray-inferencer that are explored apart from each other:   *)
(* the engine on a stream of writes (Inferencer), the comparison of super  *)
(* blocks and group descriptors (MetadataDiff), and the loading of the     *)
(* index before the first write (IndexLoader).  part says which one it is; *)
(* the others rest.                                                        *)
(***************************************************************************)
EXTENDS MCInferencer, MCIndexLoader

CONSTANTS FieldLen, SectorsPerBlock, PtSector, MaxDiffs   \* of MetadataDiff

VARIABLES
    part,
    n, stored, block, fs, super, diff_pc, i, len, stray, view, fsView, diffs,
    index, doc, fields, block_size, fsBlockSize, bgd_counter, file_counter,
    load_pointer, files, bgds, load_filesectors, load_extents, fcounter,
    filter, load_pc, loaded, claims

diffVars == <<n, stored, block, fs, super, diff_pc, i, len, stray, view,
              fsView, diffs>>
loadVars == <<index, doc, fields, block_size, fsBlockSize, bgd_counter,
              file_counter, load_pointer, files, bgds, load_filesectors,
              load_extents, fcounter, filter, load_pc, loaded, claims>>
partVars == <<part, vars, diffVars, loadVars>>

(* Lists shorter than, as long as and longer than a field of two bytes.    *)
MCLengths == 0..3
MCFields == {"block_bitmap_sector_start", "inode_table_sector_start"}
MCBlocks == {1, 2}

M == INSTANCE MetadataDiff WITH
        pc <- diff_pc, writes <- diffs, MaxWrites <- MaxDiffs,
        Lengths <- MCLengths, Fields <- MCFields, Blocks <- MCBlocks
L == INSTANCE IndexLoader WITH
        pc <- load_pc, pointer <- load_pointer, extents <- load_extents,
        filesectors <- load_filesectors,
        Indexes <- MCIndexes, Sectors <- MCLoadSectors

PartInit ==
    /\ part \in {"writes", "metadata", "load"}
    /\ IF part = "metadata" THEN TRUE ELSE n = 0 /\ super = 1
    /\ IF part = "load" THEN TRUE ELSE index = CHOOSE x \in MCIndexes : TRUE
    /\ Init /\ M!Init /\ L!Init

(* Each part goes on with what it has begun; the guest need not write.     *)
Going ==
    \/ part = "writes" /\ Engine /\ UNCHANGED <<diffVars, loadVars>>
    \/ part = "metadata" /\ M!Comparison /\ UNCHANGED <<vars, loadVars>>
    \/ part = "load" /\ L!Next /\ UNCHANGED <<vars, diffVars>>

PartNext ==
    \/ part = "writes" /\ Next /\ UNCHANGED <<diffVars, loadVars>>
    \/ part = "metadata" /\ M!Next /\ UNCHANGED <<vars, loadVars>>
    \/ part = "load" /\ L!Next /\ UNCHANGED <<vars, diffVars>>

PartSpec ==
    PartInit /\ [][PartNext /\ UNCHANGED part]_partVars
             /\ WF_partVars(Going /\ UNCHANGED part)

----------------------------------------------------------------------------
(* The properties of the parts; see their modules.                         *)

(* When the engine is done with a write, its map is that of the disk: the  *)
(* pipeline is flushed, sizes are those of the inodes, and lists have      *)
(* every block at its place, with the exceptions that IndexedUnlessSplit   *)
(* names (__diff_inodes, __diff_ext4_extents).                             *)
MapIsCurrent ==
    /\ TypeOK
    /\ IdleIsFlushed
    /\ SizeIsOnDisk
    /\ IndexedUnlessSplit

(* After a comparison Redis, and who applies what is published, has the    *)
(* first groups and the superblock as they are on disk, unless something   *)
(* behind the list was compared, which only happens with lists that are    *)
(* shorter than a field (__diff_bgds, __diff_superblock).                  *)
MetadataIsCurrent == M!MetadataIsCurrent

(* Every block of a loaded file leads back to the file and its place in    *)
(* it, a block of inodes lists its files, and numbers for new files are    *)
(* fresh (__deserialize_file, qemu_load_index).                            *)
MapIsLoaded ==
    /\ L!TypeOK
    /\ L!BlocksPointBack
    /\ L!InodeBlocksListTheirFiles
    /\ L!CounterIsFresh

(* Each part ends what it has begun: calls that nest return, comparisons   *)
(* come to their end or crash, an index is loaded to its end or its cut.   *)
PartsReturn ==
    /\ EngineReturns
    /\ M!ComparisonEnds
    /\ part = "load" => L!LoadEnds
=============================================================================
