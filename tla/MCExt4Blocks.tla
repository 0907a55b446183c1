---------------------------- MODULE MCExt4Blocks ----------------------------
(***************************************************************************)
(* Files for the model of the ext4 crawler: every block map of up to       *)
(* MaxMapped blocks with at most one hole, and every tree of extents of    *)
(* depth 0, 1 or 2 over ExtentBlocks blocks of which any may be holes, the *)
(* extents spread over leaves and index nodes in every way.                *)
(***************************************************************************)
EXTENDS Ext4Map, Sequences, SequencesExt, FiniteSets

CONSTANTS MaxMapped, ExtentBlocks, MapDirs

Base == 300      \* addresses that need more than a byte

(***************************************************************************)
(* Block maps.                                                             *)
(***************************************************************************)
MapFile(n, holes, dir) ==
    LET Top == TripleHigh + 2
        data == [k \in 0..Top |->
                    IF k >= n \/ k \in holes THEN 0 ELSE Base + 100 + k]
        ptr(a, low, span) ==
            IF \E k \in low..(low + span - 1) : data[k] # 0 THEN a ELSE 0
        words(low) == [j \in 0..(A - 1) |-> data[low + j]]
        mids(a, low) ==
            [j \in 0..(A - 1) |-> ptr(a + j, low + j * A, A)]
        tops == [j \in 0..(A - 1) |->
                    ptr(Base + 20 + j, TripleLow + j * A * A, A * A)]
        disk == [a \in {Base + 1, Base + 2, Base + 3}
                       \cup {Base + 10 + j : j \in 0..(A - 1)}
                       \cup {Base + 20 + j : j \in 0..(A - 1)}
                       \cup {Base + 40 + j : j \in 0..(A * A - 1)} |->
                   CASE a = Base + 1 -> words(IndirectLow)
                     [] a = Base + 2 -> mids(Base + 10, DoubleLow)
                     [] a = Base + 3 -> tops
                     [] a \in (Base + 10)..(Base + 19) ->
                           words(DoubleLow + (a - Base - 10) * A)
                     [] a \in (Base + 20)..(Base + 39) ->
                           mids(Base + 40 + (a - Base - 20) * A,
                                TripleLow + (a - Base - 20) * A * A)
                     [] OTHER -> words(TripleLow + (a - Base - 40) * A)]
        above(k) ==
            CASE k <= DirectHigh -> {}
              [] k \in IndirectLow..IndirectHigh -> {Base + 1}
              [] k \in DoubleLow..DoubleHigh ->
                    {Base + 2, Base + 10 + (k - DoubleLow) \div A}
              [] OTHER -> {Base + 3}
    IN  [kind |-> "map", dir |-> dir, n |-> n,
         i_block |-> [k \in 0..14 |->
                        CASE k = 12 -> ptr(Base + 1, IndirectLow, A)
                          [] k = 13 -> ptr(Base + 2, DoubleLow, A * A)
                          [] k = 14 -> ptr(Base + 3, TripleLow, A * A * A)
                          [] OTHER -> data[k]],
         disk |-> disk, phys |-> [k \in 0..n |-> data[k]],
         above |-> [k \in 0..n |-> above(k)], last |-> {}]

MapFiles ==
    {MapFile(n, h, d) : n \in 0..MaxMapped,
                        h \in {{}} \cup {{k} : k \in 0..(MaxMapped - 1)},
                        d \in MapDirs}

(***************************************************************************)
(* Trees of extents.  The extents are the runs of mapped blocks.  leaves   *)
(* and nodes hold the first blocks of the leaves and of the index nodes.   *)
(***************************************************************************)
Starts(mapped) == {k \in mapped : k - 1 \notin mapped}
Sorted(S) == SetToSortSeq(S, <)
GroupOf(firsts, k) ==
    CHOOSE f \in firsts : f <= k /\ \A g \in firsts : g <= k => g <= f

ExtentFile(mapped, leaves, nodes, depth, dir) ==
    LET starts == Starts(mapped)
        startOf(k) == GroupOf(starts, k)
        phys == [k \in 0..ExtentBlocks |->
                   IF k \in mapped THEN Base + 10 * startOf(k) + k - startOf(k)
                                   ELSE 0]
        extent(s) == [block |-> s, start |-> phys[s],
                      len |-> Cardinality({k \in mapped : startOf(k) = s})]
        ofLeaf(f) == {s \in starts : GroupOf(leaves, s) = f}
        leaf(f) == [addr |-> Base + 200 + f, depth |-> 0,
                    entries |-> [i \in 1..Cardinality(ofLeaf(f)) |->
                                    extent(Sorted(ofLeaf(f))[i])]]
        index(fs) == [i \in 1..Cardinality(fs) |->
                        [block |-> Sorted(fs)[i], child |-> leaf(Sorted(fs)[i])]]
        ofNode(f) == {g \in leaves : GroupOf(nodes, g) = f}
        node(f) == [addr |-> Base + 300 + f, depth |-> 1,
                    entries |-> index(ofNode(f))]
        tops == [i \in 1..Cardinality(nodes) |->
                   [block |-> Sorted(nodes)[i], child |-> node(Sorted(nodes)[i])]]
        root == [addr |-> 0, depth |-> depth,
                 entries |-> CASE depth = 0 ->
                                    [i \in 1..Cardinality(starts) |->
                                        extent(Sorted(starts)[i])]
                               [] depth = 1 -> index(leaves)
                               [] OTHER -> tops]
        leafOf(k) == GroupOf(leaves, k)
        nodeOf(k) == GroupOf(nodes, leafOf(k))
        lastOf(fs, f) == Cardinality(fs) > 1 /\ \A g \in fs : g <= f
        above(k) == (IF depth >= 1 THEN {Base + 200 + leafOf(k)} ELSE {})
                    \cup (IF depth = 2 THEN {Base + 300 + nodeOf(k)} ELSE {})
        last == {k \in mapped :
                   \/ depth = 1 /\ lastOf(leaves, leafOf(k))
                   \/ depth = 2 /\ \/ lastOf(nodes, nodeOf(k))
                                   \/ lastOf(ofNode(nodeOf(k)), leafOf(k))}
    IN  [kind |-> "extents", dir |-> dir, n |-> ExtentBlocks, root |-> root,
         phys |-> phys, last |-> last,
         above |-> [k \in 0..ExtentBlocks |->
                      IF k \in mapped THEN above(k) ELSE {}]]

WithFirst(S, cuts) == {CHOOSE x \in S : \A y \in S : x <= y} \cup cuts

ExtentFiles ==
    {ExtentFile(mapped, {}, {}, 0, d) :
        mapped \in SUBSET (0..(ExtentBlocks - 1)), d \in BOOLEAN}
    \cup
    UNION {UNION {
        {ExtentFile(mapped, leaves, WithFirst(leaves, cuts), depth, d) :
            cuts \in SUBSET leaves, depth \in {1, 2}, d \in BOOLEAN}
        : leaves \in {WithFirst(Starts(mapped), c) :
                         c \in SUBSET Starts(mapped)}}
        : mapped \in SUBSET (0..(ExtentBlocks - 1)) \ {{}}}

Symlinks ==
    {[kind |-> "symlink", dir |-> FALSE, n |-> 1, root |-> BootBlock,
      phys |-> [k \in 0..1 |-> 0], last |-> {}, above |-> [k \in 0..1 |-> {}]]}

MCFiles == MapFiles \cup ExtentFiles \cup Symlinks

=============================================================================
