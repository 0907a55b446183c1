---------------------------- MODULE MCInferencer ----------------------------
(***************************************************************************)
(* A disk of a block of inodes (0) and seven others, with two files: "a"   *)
(* lies in block 1 and grows, "b" is empty at first.                       *)
(***************************************************************************)
EXTENDS Inferencer

DataBlock(v) == [kind |-> "data", v |-> v]
Extent(block, start, len) == [block |-> block, start |-> start, len |-> len]
Inline(entries) == [depth |-> 0, entries |-> entries]
Index(leaves) ==
    [depth |-> 1, entries |-> [i \in DOMAIN leaves |-> Extent(0, leaves[i], 1)]]
TreeBlock(entries) == [kind |-> "tree", header |-> Inline(entries)]
Inode(n, header) == [size |-> n, regular |-> TRUE, header |-> header]
InodeBlock(a, b) == [kind |-> "inodes", inode |-> [a |-> a, b |-> b]]

A1 == Inode(1, Inline(<<Extent(0, 1, 1)>>))
B0 == Inode(0, Inline(<<>>))

MCFiles == {"a", "b"}
MCSectors == 0..7
MCDisk0 == [s \in MCSectors |-> IF s = 0 THEN InodeBlock(A1, B0)
                                 ELSE DataBlock("old")]
MCFileSectors0 == [a |-> <<1>>, b |-> <<>>]

At(sector, content) == [sector |-> sector, blocks |-> <<content>>]
InodesOf(a, b) == At(0, InodeBlock(a, b))

(* "a" grows within its block and by a second one, behind a hole; "b" gets *)
(* one, two or a tree of blocks, or becomes a link.                        *)
A2 == Inode(2, Inline(<<Extent(0, 1, 1)>>))
A6 == Inode(6, Inline(<<Extent(0, 1, 1), Extent(2, 4, 1)>>))
B3 == Inode(3, Inline(<<Extent(0, 2, 2)>>))
BTree == Inode(4, Index(<<5>>))
BTwoLeaves == Inode(4, Index(<<5, 6>>))
ALink == [A1 EXCEPT !.regular = FALSE, !.size = 2]

MCWrites ==
    {At(1, DataBlock("x")), At(1, DataBlock("y")), At(2, DataBlock("x")),
     At(3, DataBlock("y")), At(4, DataBlock("x")),
     At(5, TreeBlock(<<Extent(0, 2, 1)>>)), At(6, TreeBlock(<<Extent(1, 7, 1)>>)),
     [sector |-> 1, blocks |-> <<DataBlock("x"), DataBlock("y")>>],
     InodesOf(A2, B0), InodesOf(A6, B3), InodesOf(A1, BTree),
     InodesOf(A1, BTwoLeaves), InodesOf(ALink, B0)}

(* "a" gets two extents at once that lie behind what is known of it.       *)
ASplit == Inode(6, Inline(<<Extent(0, 1, 1), Extent(1, 3, 1), Extent(2, 4, 1)>>))
MCSplitWrites == MCWrites \cup {InodesOf(ASplit, B0)}

=============================================================================
