------------------------------ MODULE Ext4Map -------------------------------
(***************************************************************************)
(* The shape of the map of a file, for the crawler (Ext4Blocks) and for    *)
(* the files it is checked with (MCExt4Blocks).                            *)
(***************************************************************************)
EXTENDS Integers

CONSTANT A      \* addresses_in_block

ASSUME AddressesAssumption == A \in Nat \ {0}

(* The block map.  i_block holds 12 addresses of data and one each of an   *)
(* indirect, a double and a triple indirect block.                         *)
DirectHigh == 11
IndirectLow == DirectHigh + 1
IndirectHigh == DirectHigh + A
DoubleLow == IndirectHigh + 1
DoubleHigh == IndirectHigh + A * A
TripleLow == DoubleHigh + 1
TripleHigh == DoubleHigh + A * A * A

(* Block 0 of the partition, read when no index precedes the block looked  *)
(* for, holds zeros, which make an empty node of extents.                  *)
BootBlock == [addr |-> 0, depth |-> 0, entries |-> <<>>]

=============================================================================
