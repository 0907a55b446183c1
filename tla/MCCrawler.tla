----------------------------- MODULE MCCrawler -----------------------------
(***************************************************************************)
(* Disks for the crawler.  The third slot may begin at 4 GB or above, and  *)
(* then wraps to offset 0 or to the start of the first partition, whose    *)
(* file system is the one that is read there; its own never is.  The       *)
(* third file system has an inode table that reaches past its end, the     *)
(* fourth has small blocks.                                                *)
(***************************************************************************)
EXTENDS Crawler

Ext4(block_size, first, size, groups) ==
    [kind |-> "ext4", block_size |-> block_size, first |-> first,
     size |-> size, groups |-> groups]
Other(kind) == [Ext4(FilterUnit, 0, 8, <<>>) EXCEPT !.kind = kind]
FileSystems ==
    {Ext4(FilterUnit, 0, 8, <<4>>), Ext4(FilterUnit, 0, 16, <<4, 12>>),
     Ext4(FilterUnit, 0, 13, <<12, 4>>), Ext4(SECTOR_SIZE, 1, 8, <<5>>),
     Other("ntfs"), Other("other")}

Lbas == [s \in Slots |-> CASE s = 0 -> {0, 2}
                           [] s = 1 -> {0, 6}
                           [] s = 2 -> {0, OffsetSectors, OffsetSectors + 2}
                           [] OTHER -> {0}]
Unused == [lba |-> 0, fs |-> Other("other")]
FileSystemsOf(s) == IF s = 2 THEN {Other("other")} ELSE FileSystems
Entries(s) == {Unused} \cup {[lba |-> l, fs |-> f] : l \in Lbas[s] \ {0},
                                                     f \in FileSystemsOf(s)}
NoTable == [signature |-> FALSE, entries |-> [s \in Slots |-> Unused]]
MCDisks ==
    {[signature |-> TRUE, entries |-> [s \in Slots |->
        CASE s = 0 -> a [] s = 1 -> b [] s = 2 -> c [] OTHER -> Unused]] :
        a \in Entries(0), b \in Entries(1), c \in Entries(2)}
    \cup {NoTable}

=============================================================================
