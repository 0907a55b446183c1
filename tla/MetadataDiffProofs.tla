------------------------- MODULE MetadataDiffProofs -------------------------
(***************************************************************************)
(* For lists of any length, fields of any size and any number of writes:   *)
(* subscribers know what Redis knows, the groups the loop gets to are      *)
(* those on disk, and memory behind the list is read only if the list is   *)
(* shorter than a field.  The last two are not inductive: they rest on     *)
(* what the length variable holds in which round (LoopBound) and on how    *)
(* far the comparison has come (Compared).                                 *)
(***************************************************************************)
EXTENDS MetadataDiff, TLAPS

(* The first round goes by the length of the list, which is then not       *)
(* empty; all later ones go by the size of a field.                        *)
LoopBound ==
    /\ i > 0 => 0 < n /\ len = LenAfter
    /\ pc = "loop" /\ i = 0 => len = n

(* The groups before place i have been compared with the block written.    *)
Compared ==
    /\ fs = super
    /\ pc = "loop" /\ ~stray =>
          \A g \in Places : g < i /\ g < n => stored[g] = Descriptor(block[g])

IInv ==
    /\ TypeOK
    /\ SubscribersKnow
    /\ StraysOnlyFromShortLists
    /\ LoopBound
    /\ Compared
    /\ FirstGroupsAreCurrent

(* What the constants are: numbers of descriptors and a size.              *)
Sizes == Lengths \subseteq Nat /\ FieldLen \in Nat

(* IInv holds when the engine starts: the index was loaded from the disk.  *)
LEMMA InitIInv == ASSUME Sizes PROVE Init => IInv
BY DEF Sizes, Init, IInv, TypeOK, SubscribersKnow, StraysOnlyFromShortLists,
       LoopBound, Compared, FirstGroupsAreCurrent, Descriptor, Places

(* A comparison of group g sets it, in Redis and for subscribers, to what  *)
(* the descriptor at place i says (the macros GET_FIELD and SET_FIELD).    *)
LEMMA CompareSets ==
    ASSUME NEW g \in Places, TypeOK, SubscribersKnow, Compare(g)
    PROVE  /\ stored' = [stored EXCEPT ![g] = Descriptor(block[i])]
           /\ stored' \in [Places -> [Fields -> {Sector(b) : b \in Blocks}]]
           /\ view' = stored'
<1>1. Descriptor(block[i]) \in [Fields -> {Sector(b) : b \in Blocks}]
  BY DEF TypeOK, Descriptor
<1>2. [f \in Fields |-> IF stored[g][f] # New[f] THEN New[f] ELSE stored[g][f]]
          = Descriptor(block[i])
  BY DEF New, Descriptor
<1>3. stored' = [stored EXCEPT ![g] = Descriptor(block[i])]
  BY <1>2 DEF Compare, TypeOK
<1>4. view' = stored'
  BY DEF Compare, SubscribersKnow, TypeOK
<1> QED
  BY <1>1, <1>3, <1>4 DEF TypeOK

(* Every step keeps IInv.                                                  *)
LEMMA NextIInv == ASSUME Sizes, IInv, [Next]_vars PROVE IInv'
<1> USE DEF Sizes, IInv
<1>1. CASE \E b \in Blocks : DiffSuperblock(b)
  BY <1>1 DEF DiffSuperblock, TypeOK, SubscribersKnow, FirstGroupsAreCurrent,
              StraysOnlyFromShortLists, LoopBound, Compared, LenAfter
<1>2. CASE \E b \in Blocks, p \in Places : BeginBgds(p, b)
  BY <1>2 DEF BeginBgds, TypeOK, SubscribersKnow, FirstGroupsAreCurrent,
              StraysOnlyFromShortLists, LoopBound, Compared, Places, LenAfter
<1>3. CASE Round
  <2>1. i \in Places /\ i \in Nat /\ n \in Nat
    BY DEF TypeOK, Places
  <2>2. /\ stored' = [stored EXCEPT ![i] = Descriptor(block[i])]
        /\ stored' \in [Places -> [Fields -> {Sector(b) : b \in Blocks}]]
        /\ view' = stored'
    BY <1>3, <2>1, CompareSets DEF Round, GroupAt
  <2>3. i' = i + 1 /\ len' = LenAfter /\ pc = "loop" /\ i < n /\ i < len
        /\ UNCHANGED <<n, block, fs, super, pc, stray, fsView, writes>>
    BY <1>3 DEF Round, Compare
  <2>4. i' \in Places
    BY <2>1, <2>3 DEF LoopBound, LenAfter, Places
  <2>5. LoopBound'
    BY <2>1, <2>3 DEF LoopBound, LenAfter
  <2>6. Compared'
    <3> SUFFICES ASSUME ~stray, NEW g \in Places, g < i + 1, g < n
                 PROVE  stored'[g] = Descriptor(block[g])
      BY <2>3 DEF Compared, Descriptor
    <3>1. g \in Nat
      BY DEF Places
    <3>2. CASE g = i
      BY <2>1, <2>2, <3>2 DEF TypeOK
    <3>3. CASE g < i
      BY <2>1, <2>2, <2>3, <3>1, <3>3 DEF Compared, TypeOK
    <3> QED
      BY <2>1, <3>1, <3>2, <3>3
  <2> QED
    BY <2>2, <2>3, <2>4, <2>5, <2>6
       DEF TypeOK, SubscribersKnow, StraysOnlyFromShortLists,
           FirstGroupsAreCurrent
<1>4. CASE StrayRound
  <2>1. PICK g \in Places : Compare(g)
    BY <1>4 DEF StrayRound
  <2>2. /\ stored' \in [Places -> [Fields -> {Sector(b) : b \in Blocks}]]
        /\ view' = stored'
    BY <2>1, CompareSets
  <2>3. i' = i + 1 /\ len' = LenAfter /\ pc = "loop" /\ i >= n /\ i < len /\ stray'
        /\ UNCHANGED <<n, block, fs, super, pc, fsView, writes>>
    BY <1>4, <2>1 DEF StrayRound, Compare
  <2>4. i \in Nat /\ n \in Nat /\ i \in Places
    BY DEF TypeOK, Places
  <2>5. 0 < n /\ n < FieldLen /\ i < FieldLen
    BY <2>3, <2>4 DEF LoopBound, LenAfter
  <2>6. i' \in Places /\ LoopBound'
    BY <2>3, <2>4, <2>5 DEF Places, LoopBound
  <2> QED
    BY <2>2, <2>3, <2>5, <2>6
       DEF TypeOK, SubscribersKnow, StraysOnlyFromShortLists, Compared,
           FirstGroupsAreCurrent
<1>5. CASE Crash
  <2>1. i \in Nat /\ n \in Nat
    BY DEF TypeOK, Places
  <2>2. 0 < n /\ n < FieldLen
    BY <1>5, <2>1 DEF Crash, LoopBound, LenAfter
  <2> QED
    BY <1>5, <2>2 DEF Crash, TypeOK, SubscribersKnow, StraysOnlyFromShortLists,
                      LoopBound, Compared, FirstGroupsAreCurrent, LenAfter
<1>6. CASE EndBgds
  <2>1. i \in Nat /\ n \in Nat
    BY DEF TypeOK, Places
  <2>2. ~stray => \A g \in Places : g < n /\ g < FieldLen =>
                     stored[g] = Descriptor(block[g])
    BY <1>6, <2>1 DEF EndBgds, LoopBound, Compared, LenAfter, Places
  <2> QED
    BY <1>6, <2>2 DEF EndBgds, TypeOK, SubscribersKnow, LoopBound, Compared,
           StraysOnlyFromShortLists, FirstGroupsAreCurrent, LenAfter, Descriptor
<1>7. CASE UNCHANGED vars
  BY <1>7 DEF vars, TypeOK, SubscribersKnow, StraysOnlyFromShortLists,
              LoopBound, Compared, FirstGroupsAreCurrent, LenAfter, Descriptor
<1> QED
  BY <1>1, <1>2, <1>3, <1>4, <1>5, <1>6, <1>7 DEF Next, Comparison

(* For every length of the list and size of a field, a comparison leaves   *)
(* Redis and subscribers with the groups it gets to as they are on disk,   *)
(* and goes past the list only if that is shorter than a field             *)
(* (__diff_superblock, __diff_bgds).                                       *)
THEOREM GroupsCurrent ==
    ASSUME Sizes
    PROVE  Spec => []MetadataIsCurrent
<1>1. Init => IInv
  BY InitIInv
<1>2. IInv /\ [Next]_vars => IInv'
  BY NextIInv
<1>3. IInv => MetadataIsCurrent
  BY DEF IInv, MetadataIsCurrent
<1> QED
  BY <1>1, <1>2, <1>3, PTL DEF Spec
=============================================================================
