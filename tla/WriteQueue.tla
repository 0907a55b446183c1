----------------------------- MODULE WriteQueue -----------------------------
(***************************************************************************)
(* The Redis list "writequeue" between a producer (the NBD server or the   *)
(* async queuer; see PairProducer) and the inference engine.               *)
(* redis_async_write_dequeue pops two elements and takes them for the      *)
(* sector number and the data of one write; it can tell a sector number    *)
(* from data only by its size of 8 bytes.  Either process can die between  *)
(* its two commands and be started again (demo/init-server.sh kills and    *)
(* restarts both), which leaves half a write in the list.                  *)
(***************************************************************************)
EXTENDS Integers, Sequences, FiniteSets

CONSTANTS MaxWrites,    \* bound: writes made
          MaxCrashes    \* bound: crashes of either process

ASSUME WriteQueueAssumption == MaxWrites \in Nat /\ MaxCrashes \in Nat

VARIABLES
    list,       \* server: the elements of "writequeue", oldest first
    pn,         \* producer: number of the write it pushed last
    ppc,        \* producer: "idle", "half" (data to be pushed), "down"
    cpc,        \* engine: "sector", "data", "inspect", "down"
    sec,        \* engine: the sector number popped (of write sec)
    data,       \* engine: the element popped as its data
    complete,   \* history: writes pushed completely
    inspected,  \* history: writes [sector, data] with at least one sector
    crashes,    \* history: crashes of either process
    exits       \* history: times the engine gave up with exit(1)

vars == <<list, pn, ppc, cpc, sec, data, complete, inspected, crashes, exits>>
engineVars == <<cpc, sec, data, inspected, exits>>

Element == [part : {"sector", "data"}, n : Nat]
NoElement == [part |-> "sector", n |-> 0]

Init ==
    /\ list = <<>>
    /\ pn = 0
    /\ ppc = "idle"
    /\ cpc = "sector"
    /\ sec = 0
    /\ data = NoElement
    /\ complete = {}
    /\ inspected = <<>>
    /\ crashes = 0
    /\ exits = 0

----------------------------------------------------------------------------
(* The producer: LPUSH of the sector number, LPUSH of the data.            *)
PushSector ==
    /\ ppc = "idle"
    /\ pn < MaxWrites
    /\ pn' = pn + 1
    /\ list' = Append(list, [part |-> "sector", n |-> pn + 1])
    /\ ppc' = "half"
    /\ UNCHANGED <<engineVars, complete, crashes>>

PushData ==
    /\ ppc = "half"
    /\ list' = Append(list, [part |-> "data", n |-> pn])
    /\ complete' = complete \cup {pn}
    /\ ppc' = "idle"
    /\ UNCHANGED <<pn, engineVars, crashes>>

ProducerCrash ==
    /\ ppc # "down"
    /\ crashes < MaxCrashes
    /\ crashes' = crashes + 1
    /\ ppc' = "down"
    /\ UNCHANGED <<list, pn, engineVars, complete>>

ProducerRestart ==
    /\ ppc = "down"
    /\ ppc' = "idle"
    /\ UNCHANGED <<list, pn, engineVars, complete, crashes>>

----------------------------------------------------------------------------
(* The engine: redis_async_write_dequeue.                                  *)

(* Has the element the size of a sector number?  Data has the size of at   *)
(* least one sector.  (Faulty variant: any size is taken.)                 *)
AnySize(e) == TRUE
SectorSized(e) == e.part = "sector"

(* reply->element[1]->len / SECTOR_SIZE, as far as zero or not: a sector   *)
(* number taken for data has 8 / 512 = 0 sectors.  (Faulty variants: the   *)
(* size is rounded up; it is divided by the size of a larger block.)       *)
SectorsRoundedUp(e) == 1
SectorsInBlocks(e) == 0
Sectors(e) == IF e.part = "data" THEN 1 ELSE 0

(* The first BRPOP; an element of another size ends the process.           *)
PopSector ==
    LET e == Head(list) IN
    /\ cpc = "sector"
    /\ list # <<>>
    /\ list' = Tail(list)
    /\ \/ /\ SectorSized(e)
          /\ sec' = e.n
          /\ cpc' = "data"
          /\ UNCHANGED exits
       \/ /\ ~SectorSized(e)
          /\ cpc' = "down"
          /\ exits' = exits + 1
          /\ UNCHANGED sec
    /\ UNCHANGED <<pn, ppc, data, complete, inspected, crashes>>

(* The second BRPOP takes what comes.                                      *)
PopData ==
    /\ cpc = "data"
    /\ list # <<>>
    /\ list' = Tail(list)
    /\ data' = Head(list)
    /\ cpc' = "inspect"
    /\ UNCHANGED <<pn, ppc, sec, complete, inspected, crashes, exits>>

(* qemu_deep_inspect loops over the sectors of the write.                  *)
Inspect ==
    /\ cpc = "inspect"
    /\ inspected' = IF Sectors(data) > 0
                    THEN Append(inspected, [sector |-> sec, data |-> data.n])
                    ELSE inspected
    /\ cpc' = "sector"
    /\ UNCHANGED <<list, pn, ppc, sec, data, complete, crashes, exits>>

EngineCrash ==
    /\ cpc # "down"
    /\ crashes < MaxCrashes
    /\ crashes' = crashes + 1
    /\ cpc' = "down"
    /\ UNCHANGED <<list, pn, ppc, sec, data, complete, inspected, exits>>

(* The engine starts with an empty memory.  (Faulty variant: it inspects   *)
(* again what it held.)                                                    *)
EngineRestartRetries ==
    /\ cpc = "down"
    /\ cpc' = "inspect"
    /\ UNCHANGED <<list, pn, ppc, sec, data, complete, inspected, crashes, exits>>

EngineRestart ==
    /\ cpc = "down"
    /\ cpc' = "sector"
    /\ UNCHANGED <<list, pn, ppc, sec, data, complete, inspected, crashes, exits>>

EngineStep == PopSector \/ PopData \/ Inspect

(* The stream may end; the engine then blocks in BRPOP for ever.           *)
Quiet ==
    /\ pn = MaxWrites /\ ppc = "idle" /\ list = <<>> /\ cpc \in {"sector", "data"}
    /\ UNCHANGED vars

Next ==
    \/ PushSector \/ PushData \/ ProducerCrash \/ ProducerRestart
    \/ EngineStep \/ EngineCrash \/ EngineRestart
    \/ Quiet

Spec == Init /\ [][Next]_vars

(* The engine's read_loop never pauses.                                    *)
FairSpec == Spec /\ WF_vars(EngineStep)

----------------------------------------------------------------------------
TypeOK ==
    /\ list \in Seq(Element)
    /\ pn \in Nat
    /\ ppc \in {"idle", "half", "down"}
    /\ cpc \in {"sector", "data", "inspect", "down"}
    /\ sec \in Nat
    /\ data \in Element
    /\ complete \subseteq Nat
    /\ inspected \in Seq([sector : Nat, data : Nat])
    /\ crashes \in Nat
    /\ exits \in Nat

(* The engine never inspects the data of one write at the sector number of *)
(* another, wherever the two processes died: it would attribute file       *)
(* content or metadata to the wrong place on the disk.                     *)
NeverMispaired ==
    \A i \in 1 .. Len(inspected) : inspected[i].sector = inspected[i].data

(* The path is a LossyQueue: no write is inspected twice or out of order.  *)
Path == INSTANCE LossyQueue WITH
            offered   <- pn,
            delivered <- [i \in 1 .. Len(inspected) |-> inspected[i].sector]

ImplementsLossyQueue == Path!Spec

(* A crash costs at most one complete write: the list gets back in step    *)
(* by itself.                                                              *)
InList(n) == \E i \in 1 .. Len(list) : list[i].n = n
Inspected(n) == \E i \in 1 .. Len(inspected) : inspected[i].sector = n
Held(n) == (cpc \in {"data", "inspect"} /\ sec = n) \/ (cpc = "inspect" /\ data.n = n)
Lost == {n \in complete : ~InList(n) /\ ~Inspected(n) /\ ~Held(n)}

CrashLosesOneWrite == Cardinality(Lost) <= crashes

(* The engine gives up because of an element it did not expect at most     *)
(* once for every crash: restarting it is enough.                          *)
OneExitPerCrash == exits <= crashes

(* What a crash between two elements of a write costs: one write, and one  *)
(* restart of the engine (qemu_deep_inspect, print_queue).                 *)
CrashCostsOneWrite == CrashLosesOneWrite /\ OneExitPerCrash

(* A write that is completely in the list while the engine is up is        *)
(* inspected, unless the engine goes down on the way: by a crash, or by    *)
(* exit(1) on an element it did not expect.  This is so whatever crashes   *)
(* of either process came before: an engine that is up again does not get  *)
(* stuck behind the half of a write (print_queue, BRPOP without timeout).  *)
PushedIsInspected ==
    \A n \in 1 .. MaxWrites :
      (cpc # "down" /\ \E i \in 1 .. Len(list) : list[i] = [part |-> "data", n |-> n])
        ~> (Inspected(n) \/ cpc = "down")
=============================================================================
