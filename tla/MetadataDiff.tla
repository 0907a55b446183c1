---------------------------- MODULE MetadataDiff ----------------------------
(***************************************************************************)
(* The comparison of a superblock and of a block of group descriptors with *)
(* what Redis knows of them (__diff_superblock, __diff_bgds).  For every   *)
(* field: get the old value, publish the change if there is one, set the   *)
(* new value.  A subscriber that applies the published changes should know *)
(* what Redis knows.                                                       *)
(*                                                                         *)
(* __diff_bgds uses one variable for the number of descriptors and for the *)
(* length of a field: GET_FIELD and SET_FIELD set it to sizeof(field), and *)
(* from the second round on that is the bound of the loop.                 *)
(***************************************************************************)
EXTENDS Integers, Sequences

CONSTANTS Lengths,      \* numbers of descriptors in the block
          FieldLen,     \* sizeof(field)
          Fields,       \* the fields compared
          Blocks,       \* block numbers a field may hold
          SectorsPerBlock, PtSector,
          MaxWrites     \* bound: writes of the guest

Places == 0..(FieldLen + 1)     \* descriptors there is room for in a block

VARIABLES
    n,          \* length of bgds:<n>
    stored,     \* bgd:<g>, the fields as sectors
    block,      \* the block of descriptors last written
    fs,         \* fs:<n>, the fields of the superblock
    super,      \* history: the superblock last written
    pc,         \* "idle", "loop", or "crashed"
    i, len,     \* locals of __diff_bgds
    stray,      \* history: a descriptor behind the list was compared
    view,       \* history: what a subscriber knows of the groups
    fsView,     \* history: what it knows of the superblock
    writes

vars == <<n, stored, block, fs, super, pc, i, len, stray, view, fsView, writes>>

Sector(b) == b * SectorsPerBlock + PtSector
Descriptor(b) == [f \in Fields |-> Sector(b)]

Init ==
    /\ n \in Lengths
    /\ \E b \in Blocks :
          /\ block = [p \in Places |-> b]
          /\ super = b
          /\ stored = [g \in Places |-> Descriptor(b)]
    /\ fs = super
    /\ view = stored
    /\ fsView = fs
    /\ pc = "idle"
    /\ i = 0 /\ len = 0
    /\ stray = FALSE
    /\ writes = 0

(* __diff_superblock.                                                      *)
DiffSuperblock(b) ==
    /\ pc = "idle"
    /\ writes < MaxWrites
    /\ super' = b
    /\ fs' = IF fs # b THEN b ELSE fs
    /\ fsView' = IF fs # b THEN b ELSE fsView
    /\ writes' = writes + 1
    /\ UNCHANGED <<n, stored, block, pc, i, len, stray, view>>

(* __diff_bgds: a block of descriptors, of which place p has changed.      *)
BeginBgds(p, b) ==
    /\ pc = "idle"
    /\ writes < MaxWrites
    /\ block' = [block EXCEPT ![p] = b]
    /\ pc' = "loop"
    /\ i' = 0
    /\ len' = n
    /\ writes' = writes + 1
    /\ UNCHANGED <<n, stored, fs, super, stray, view, fsView>>

(* Group g is compared with the descriptor at place i.                     *)
LenAfter == FieldLen
New == Descriptor(block[i])
Compare(g) ==
    /\ view' = [view EXCEPT ![g] = [f \in Fields |->
                   IF stored[g][f] # New[f] THEN New[f] ELSE @[f]]]
    /\ stored' = [stored EXCEPT ![g] = [f \in Fields |->
                   IF stored[g][f] # New[f] THEN New[f] ELSE @[f]]]
    /\ i' = i + 1
    /\ len' = LenAfter

(* (Faulty variant: the list is taken to begin with element 1.)            *)
GroupNext == i + 1
GroupAt == i
Round ==
    /\ pc = "loop"
    /\ i < len
    /\ i < n
    /\ Compare(GroupAt)
    /\ UNCHANGED <<n, block, fs, super, pc, stray, fsView, writes>>

(* An element behind the end of the list is whatever is there in memory:   *)
(* no string, or one that names some group.                                *)
StrayRound ==
    /\ pc = "loop"
    /\ i < len
    /\ i >= n
    /\ \E g \in Places : Compare(g)
    /\ stray' = TRUE
    /\ UNCHANGED <<n, block, fs, super, pc, fsView, writes>>

Crash ==
    /\ pc = "loop"
    /\ i < len
    /\ i >= n
    /\ pc' = "crashed"
    /\ UNCHANGED <<n, stored, block, fs, super, i, len, stray, view, fsView,
                   writes>>

(* The end of the loop.                                                    *)
EndBgds ==
    /\ pc = "loop"
    /\ i >= len
    /\ pc' = "idle"
    /\ UNCHANGED <<n, stored, block, fs, super, i, len, stray, view, fsView,
                   writes>>

Comparison == Round \/ StrayRound \/ Crash \/ EndBgds

Next ==
    \/ \E b \in Blocks : DiffSuperblock(b)
    \/ \E b \in Blocks, p \in Places : BeginBgds(p, b)
    \/ Comparison

(* The engine goes on with a comparison it has begun.                      *)
Spec == Init /\ [][Next]_vars /\ WF_vars(Comparison)

----------------------------------------------------------------------------
(* The state has its type; the loop never leaves the block of descriptors. *)
TypeOK ==
    /\ n \in Lengths
    /\ stored \in [Places -> [Fields -> {Sector(b) : b \in Blocks}]]
    /\ block \in [Places -> Blocks]
    /\ fs \in Blocks
    /\ pc \in {"idle", "loop", "crashed"}
    /\ i \in Places

(* A subscriber that applied every published change knows what Redis knows *)
(* of the groups and of the superblock.                                    *)
SubscribersKnow == view = stored /\ fsView = fs

(* When a comparison is done, Redis has the descriptors of the first       *)
(* groups, as many as the loop gets to, and the superblock as they are on  *)
(* disk, unless something behind the list was compared.                    *)
FirstGroupsAreCurrent ==
    pc = "idle" /\ ~stray =>
        /\ fs = super
        /\ \A g \in Places : g < n /\ g < FieldLen =>
               stored[g] = Descriptor(block[g])

(* Memory behind the list is read only if the list is not empty and has    *)
(* fewer elements than a field has bytes.                                  *)
StraysOnlyFromShortLists ==
    stray \/ pc = "crashed" => 0 < n /\ n < FieldLen

(* Every comparison comes to its end, or crashes.                          *)
ComparisonEnds == pc = "loop" ~> pc # "loop"

(* After a comparison Redis, and who applies what is published, has the    *)
(* first groups and the superblock as they are on disk, unless something   *)
(* behind the list was compared, which only happens with lists that are    *)
(* shorter than a field (__diff_bgds, __diff_superblock).                  *)
MetadataIsCurrent ==
    /\ TypeOK
    /\ SubscribersKnow
    /\ FirstGroupsAreCurrent
    /\ StraysOnlyFromShortLists

=============================================================================
