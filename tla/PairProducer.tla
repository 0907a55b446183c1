---------------------------- MODULE PairProducer ----------------------------
(***************************************************************************)
(* What the consumer of the Redis list "writequeue" needs from whoever     *)
(* pushes on it: writes arrive one after the other, each once and as two    *)
(* list elements, the sector number and then the data of the same write.   *)
(* The async queuer and the NBD server both implement this specification.  *)
(***************************************************************************)
EXTENDS Integers, Sequences

CONSTANT Ids       \* identities of writes

VARIABLE pushed    \* everything pushed so far, oldest first

Init == pushed = <<>>

(* A write not pushed before begins.                                       *)
PushSector ==
    /\ Len(pushed) % 2 = 0
    /\ \E n \in Ids :
         /\ \A i \in 1 .. Len(pushed) : pushed[i].n # n
         /\ pushed' = Append(pushed, [part |-> "sector", n |-> n])

(* The write begun last is completed.                                      *)
PushData ==
    /\ Len(pushed) % 2 = 1
    /\ pushed' = Append(pushed, [part |-> "data", n |-> pushed[Len(pushed)].n])

Next == PushSector \/ PushData

Spec == Init /\ [][Next]_pushed
=============================================================================
