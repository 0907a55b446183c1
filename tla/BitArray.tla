------------------------------ MODULE BitArray ------------------------------
(***************************************************************************)
(* The metadata filter: a bit per 4096 sectors of the disk.  The crawler   *)
(* creates it for the size of the disk image, sets the bits of metadata    *)
(* and saves the array at the end of the index; the async queuer loads it  *)
(* and keeps a write, when it is short of time, only if its bit is set     *)
(* (the filter's answer in AsyncQueuer).                                   *)
(* A byte is the set of its bits that are 1.                               *)
(***************************************************************************)
EXTENDS Integers, FiniteSets, TLC

CONSTANTS Sizes,        \* lengths asked for, in bits
          Bits,         \* bit numbers used
          FallbackSize  \* length of the filter when the index has none

VARIABLES
    asked,      \* crawler: the length passed to bitarray_init, -1 before
    bits,       \* crawler: struct bitarray
    marked,     \* history: bits set and not unset since, below bits.len
    file,       \* the bytes of the filter record of the index, or NoRecord
    filter      \* queuer: struct bitarray

vars == <<asked, bits, marked, file, filter>>

Byte == SUBSET (0..7)
Zero == {}
Ones == 0..7
Unset == [len |-> 0, array |-> <<>>]
NoRecord == [size |-> -1, data |-> <<>>]

(* What malloc may return: bytes of zeros or of ones stand for any content *)
Garbage == {Zero, Ones}

highest_set_bit64[val \in Nat] ==
    IF val < 2 THEN 0 ELSE 1 + highest_set_bit64[val \div 2]

(* The length of an array that is asked for len bits: rounded down to a    *)
(* power of two.                                                           *)
LengthFor(len) == 2 ^ highest_set_bit64[len]

(* Number of bytes allocated for len bits.                                 *)
Allocated(len) == (len + 7) \div 8

(* memset(bits->array, byte, bits->len / 8): the last byte stays as it is  *)
(* when there are fewer than 8 bits.                                       *)
Fill(array, len, byte) ==
    [k \in DOMAIN array |-> IF k < len \div 8 THEN byte ELSE array[k]]

(* bitarray_get_bit                                                        *)
Get(b, bit) == bit < b.len /\ bit % 8 \in b.array[bit \div 8]

Init ==
    /\ asked = -1
    /\ bits = Unset
    /\ marked = {}
    /\ file = NoRecord
    /\ filter = Unset

----------------------------------------------------------------------------
(* The crawler.                                                            *)
bitarray_init(len) ==
    /\ asked = -1
    /\ asked' = len
    /\ \E mem \in [0..(Allocated(LengthFor(len)) - 1) -> Garbage] :
          bits' = [len |-> LengthFor(len),
                   array |-> Fill(mem, LengthFor(len), Zero)]
    /\ UNCHANGED <<marked, file, filter>>

Crawling == asked # -1 /\ file = NoRecord /\ filter = Unset

bitarray_set_bit(bit) ==
    /\ Crawling
    /\ IF bit < bits.len
       THEN /\ bits' = [bits EXCEPT !.array[bit \div 8] = @ \cup {bit % 8}]
            /\ marked' = marked \cup {bit}
       ELSE UNCHANGED <<bits, marked>>
    /\ UNCHANGED <<asked, file, filter>>

bitarray_unset_bit(bit) ==
    /\ Crawling
    /\ IF bit < bits.len
       THEN /\ bits' = [bits EXCEPT !.array[bit \div 8] = @ \ {bit % 8}]
            /\ marked' = marked \ {bit}
       ELSE UNCHANGED <<bits, marked>>
    /\ UNCHANGED <<asked, file, filter>>

bitarray_set_all ==
    /\ Crawling
    /\ bits' = [bits EXCEPT !.array = Fill(@, bits.len, Ones)]
    /\ marked' = 0..(8 * (bits.len \div 8) - 1) \cup marked
    /\ UNCHANGED <<asked, file, filter>>

bitarray_unset_all ==
    /\ Crawling
    /\ bits' = [bits EXCEPT !.array = Fill(@, bits.len, Zero)]
    /\ marked' = marked \ (0..(8 * (bits.len \div 8) - 1))
    /\ UNCHANGED <<asked, file, filter>>

(* bitarray_serialize writes whole bytes, then the crawler ends.           *)
bitarray_serialize ==
    LET n == bits.len \div 8 IN
    /\ Crawling
    /\ file' = [size |-> n, data |-> [k \in 0..(n - 1) |-> bits.array[k]]]
    /\ UNCHANGED <<asked, bits, marked, filter>>

----------------------------------------------------------------------------
(* The queuer.                                                             *)

(* bitarray_init_data: len is the size of the record, a number of bytes,   *)
(* and is taken for a number of bits; len / 8 bytes of it are copied.      *)
(* (Faulty variant: one byte less is copied.)                              *)
InitDataShort(data, len) ==
    {[len |-> LengthFor(len),
      array |-> [k \in DOMAIN mem |-> IF k + 1 < len \div 8 THEN data[k]
                                                            ELSE mem[k]]] :
        mem \in [0..(Allocated(LengthFor(len)) - 1) -> Garbage]}
bitarray_init_data(data, len) ==
    {[len |-> LengthFor(len),
      array |-> [k \in DOMAIN mem |-> IF k < len \div 8 THEN data[k]
                                                        ELSE mem[k]]] :
        mem \in [0..(Allocated(LengthFor(len)) - 1) -> Garbage]}

(* qemu_load_md_filter finds the record ...                                *)
LoadFilter ==
    /\ filter = Unset
    /\ file # NoRecord
    /\ filter' \in bitarray_init_data(file.data, file.size)
    /\ UNCHANGED <<asked, bits, marked, file>>

(* ... or it does not, because the crawler ended before it wrote one, and  *)
(* the queuer makes a filter of ones.                                      *)
FallbackFilter ==
    /\ filter = Unset
    /\ file = NoRecord
    /\ LET len == LengthFor(FallbackSize) IN
       \E mem \in [0..(Allocated(len) - 1) -> Garbage] :
          filter' = [len |-> len,
                     array |-> Fill(Fill(mem, len, Zero), len, Ones)]
    /\ UNCHANGED <<asked, bits, marked, file>>

Next ==
    \/ \E len \in Sizes : bitarray_init(len)
    \/ \E bit \in Bits : bitarray_set_bit(bit) \/ bitarray_unset_bit(bit)
    \/ bitarray_set_all
    \/ bitarray_unset_all
    \/ bitarray_serialize
    \/ LoadFilter
    \/ FallbackFilter

Spec == Init /\ [][Next]_vars

----------------------------------------------------------------------------
(* Types of all variables: an array has a byte for each of its bits, which *)
(* is what the accesses behind bit < len rely on (struct bitarray).        *)
TypeOK ==
    /\ asked \in Sizes \cup {-1}
    /\ \A b \in {bits, filter} \ {Unset} :
          /\ b.len \in Nat
          /\ \A bit \in 0..(b.len - 1) : bit \div 8 \in DOMAIN b.array
          /\ \A k \in DOMAIN b.array : b.array[k] \in Byte
    /\ marked \subseteq Nat

(* Whatever the sequence of calls, an array of at least 8 bits reports     *)
(* exactly the bits that were set and not unset since; smaller arrays keep *)
(* the uninitialised byte of malloc (bitarray_init, bitarray_unset_all).   *)
ReportsMarked ==
    bits.len >= 8 => \A bit \in Bits : Get(bits, bit) <=> bit \in marked

(* What the queuer can rely on: the filter it loads agrees with the one    *)
(* the crawler saved for the first 8 * (size \div 8) bits, where size is   *)
(* the number of bytes of the record; these are an eighth of the bits      *)
(* saved (bitarray_init_data takes bytes for bits).                        *)
LoadedPrefixAgrees ==
    (filter # Unset /\ file # NoRecord /\ bits.len >= 8) =>
        \A bit \in Bits :
            bit < 8 * (file.size \div 8) =>
                (Get(filter, bit) <=> bit \in marked)

(* Without a filter in the index the queuer drops no write of the sectors  *)
(* that its array of ones covers (main of gray-ndb-queuer).                *)
FallbackKeepsAll ==
    (filter # Unset /\ file = NoRecord) =>
        \A bit \in Bits : bit < filter.len => Get(filter, bit)

=============================================================================
