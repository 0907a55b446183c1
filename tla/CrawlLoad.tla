----------------------------- MODULE CrawlLoad ------------------------------
(***************************************************************************)
(* A file from the disk to Redis: the crawler lists its sectors (module    *)
(* Ext4Blocks) and, when the document was written, gray-inferencer loads   *)
(* the list.  The list names the block of each sector by a key, and has no *)
(* entry for a hole; __deserialize_file does not look at the keys and      *)
(* counts.                                                                 *)
(***************************************************************************)
EXTENDS Ext4Blocks

VARIABLES
    filesectors,    \* filesectors:<f>
    starts,         \* for each of these, start of sector:<n>
    counter         \* local counter of __deserialize_file

loadVars == <<vars, filesectors, starts, counter>>

LoadInit ==
    /\ Init
    /\ filesectors = <<>>
    /\ starts = <<>>
    /\ counter = 0

Crawl == Next /\ UNCHANGED <<filesectors, starts, counter>>

(* A round of the loop over "sectors".                                     *)
LoadSector ==
    /\ pc = "done"
    /\ Len(filesectors) < Len(sectors)
    /\ filesectors' = Append(filesectors, sectors[Len(filesectors) + 1].sector)
    /\ starts' = Append(starts, counter)
    /\ counter' = counter + BlockSize
    /\ UNCHANGED vars

LoadNext == Crawl \/ LoadSector

LoadSpec == LoadInit /\ [][LoadNext]_loadVars

----------------------------------------------------------------------------
Place(i) == BlockOfKey(sectors[i].key)

(* The start that the engine records with a sector is the byte of the file *)
(* at which its block begins (redis_data_schema.txt, sector:<n>).          *)
StartIsByteOfFile ==
    \A i \in DOMAIN filesectors : starts[i] = Place(i) * BlockSize

=============================================================================
