---------------------------- MODULE MCIndexLoader ----------------------------
(***************************************************************************)
(* Indexes as the crawler writes them (see Crawler): two file systems with *)
(* blocks of different size, each with its documents in order, or the      *)
(* first part of such an index.                                            *)
(***************************************************************************)
EXTENDS Integers, Sequences

MCLoadSectors == 0..7

F(key, value) == [key |-> key, value |-> value]
Doc(type, id, fs) == [type |-> type, id |-> id, fields |-> fs]
Mbr == Doc("mbr", 0, <<F("sector", 0)>>)
Partition(id) == Doc("partition", id, <<>>)
FileSystem(id, n) ==
    Doc("fs", id, <<F("superblock_sector", 1 + 4 * id), F("block_size", n)>>)
Bgd == Doc("bgd", 0, <<F("sector", 2)>>)
Filter == Doc("metadata_filter", 0, <<F("bitarray", 0)>>)
Other == Doc("journal", 0, <<F("x", 0)>>)
Cut == [type |-> "cut"]

(* A file of a file system with blocks of n bytes, with its inode in one   *)
(* block and its data in others; a directory has entries in the first.     *)
FileDoc(n, inode, list, tree, entries) ==
    [type |-> "file", id |-> 0, block_size |-> n,
     fields |-> <<F("inode_sector", inode), F("sectors", list),
                  F("extents", tree), F("files", entries)>>]

Lists == {<<4, -1, -1, 5>>, <<6, 4>>}
FilesOf(n, inode) ==
    {FileDoc(n, inode, list, tree, entries) :
        list \in Lists, tree \in {<<>>, <<7>>}, entries \in {<<>>, <<4>>}}

First(d, e) == <<Mbr, Partition(0), FileSystem(0, 2), Bgd, Bgd, d, e>>
Second(d) == <<Partition(1), FileSystem(1, 4), Other, d, Filter>>

MCIndexes ==
    {First(d, e) \o rest :
        d \in FilesOf(2, 3),
        e \in FilesOf(2, 3) \cup FilesOf(2, 6),
        rest \in {<<Cut>>} \cup {Second(f) : f \in FilesOf(4, 3)}}

=============================================================================
