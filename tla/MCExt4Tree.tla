----------------------------- MODULE MCExt4Tree -----------------------------
(***************************************************************************)
(* File systems for the walk: two entries under the root, in one block or  *)
(* in two, with a removed entry; a directory holds "c", which is a file of *)
(* its own or a second link to the other entry, or a directory with "d".   *)
(***************************************************************************)
EXTENDS Integers, Sequences

Dots(self, parent) == <<[inode |-> self, name |-> "."],
                        [inode |-> parent, name |-> ".."]>>
E(n, name) == [inode |-> n, name |-> name]
Object(mode) == [mode |-> mode, blocks |-> <<>>]
Directory(blocks) == [mode |-> "directory", blocks |-> blocks]
Modes == {"regular", "symlink", "directory", "block", "other"}

Root(split) ==
    IF split THEN <<Append(Dots(2, 2), E(3, "a")), <<E(0, "x"), E(4, "b")>>>>
             ELSE <<Dots(2, 2) \o <<E(0, "x"), E(3, "a"), E(4, "b")>>>>

(* The inode c of a directory n whose sibling is m.                        *)
Targets(m) == {5} \cup (IF m = "regular" THEN {4} ELSE {})

Tree(split, mode3, mode4, mode5, target) ==
    [n \in {2, 3, 4, 5, 6, 8} |->
        CASE n = 2 -> Directory(Root(split))
          [] n = 3 -> IF mode3 = "directory"
                      THEN Directory(<<Append(Dots(3, 2), E(target, "c"))>>)
                      ELSE Object(mode3)
          [] n = 4 -> IF mode4 = "directory" THEN Directory(<<Dots(4, 2)>>)
                                             ELSE Object(mode4)
          [] n = 5 -> IF mode5 = "directory"
                      THEN Directory(<<Append(Dots(5, 3), E(6, "d"))>>)
                      ELSE Object(mode5)
          [] OTHER -> Object("regular")]

MCTrees ==
    UNION {{Tree(split, mode3, mode4, mode5, t) :
                mode3 \in Modes, mode5 \in {"regular", "directory"},
                split \in BOOLEAN, t \in Targets(mode4)} : mode4 \in Modes}
MCTables == <<4, 9>>

=============================================================================
