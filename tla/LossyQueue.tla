----------------------------- MODULE LossyQueue -----------------------------
(***************************************************************************)
(* What the path from the disk to the inference engine promises: the       *)
(* writes inspected are writes that were made, each at most once and in    *)
(* the order in which they were made.  Some may be missing.                *)
(***************************************************************************)
EXTENDS Integers, Sequences

VARIABLES offered,    \* number of writes made; they are numbered from 1
          delivered   \* the writes inspected, in order

Init == offered = 0 /\ delivered = <<>>

Offer == offered' = offered + 1 /\ UNCHANGED delivered

Deliver ==
    /\ \E n \in 1 .. offered :
         /\ \A i \in 1 .. Len(delivered) : delivered[i] < n
         /\ delivered' = Append(delivered, n)
    /\ UNCHANGED offered

Next == Offer \/ Deliver

Spec == Init /\ [][Next]_<<offered, delivered>>
=============================================================================
