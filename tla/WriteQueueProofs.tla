-------------------------- MODULE WriteQueueProofs --------------------------
(***************************************************************************)
(* For any number of writes and crashes, the engine never inspects a       *)
(* mispaired write, and the path from the disk to the engine implements    *)
(* LossyQueue.  NeverMispaired is not inductive: it holds because of how   *)
(* the list, the producer's half-done push and the engine's half-done pop  *)
(* fit together, which is what the conjuncts of IInv say.                  *)
(***************************************************************************)
EXTENDS WriteQueue, SequenceLemmas, TLAPS

(* The elements of the list are of writes made, in the order they were     *)
(* made; at most two, neighbours, are of the same write.                   *)
ListOrdered ==
    /\ \A i \in 1 .. Len(list) : list[i].n \in 1 .. pn
    /\ \A i, j \in 1 .. Len(list) : i < j =>
         \/ list[i].n < list[j].n
         \/ /\ list[i].n = list[j].n
            /\ j = i + 1
            /\ list[i].part = "sector"
            /\ list[j].part = "data"

(* Data that is not at the head of the list follows its sector number.     *)
DataFollowsSector ==
    \A i \in 2 .. Len(list) :
      list[i].part = "data" => list[i - 1] = [part |-> "sector", n |-> list[i].n]

(* A push that is half done left its sector number at the end of the list, *)
(* unless the engine has popped the list empty.                            *)
HalfPushed ==
    /\ ppc = "half" => pn \in Nat \ {0}
    /\ ppc = "half" /\ list # <<>> =>
         list[Len(list)] = [part |-> "sector", n |-> pn]

(* An engine that has popped a sector number finds its data, or a sector   *)
(* number of a later write, or is about to.                                *)
HalfPopped ==
    /\ sec \in 0 .. pn
    /\ cpc = "data" =>
         /\ sec \in 1 .. pn
         /\ ppc = "half" /\ list = <<>> => sec = pn
         /\ list # <<>> /\ list[1].part = "data" => list[1].n = sec
         /\ \A i \in 1 .. Len(list) :
              \/ sec < list[i].n
              \/ i = 1 /\ list[1].part = "data"
    /\ cpc = "inspect" =>
         /\ sec \in 1 .. pn
         /\ data.part = "data" => data.n = sec
         /\ ppc = "half" => sec < pn
         /\ \A i \in 1 .. Len(list) : sec < list[i].n

(* Writes are inspected in order, and before everything that is to come.   *)
InspectedInOrder ==
    /\ \A i \in 1 .. Len(inspected) :
         /\ inspected[i].sector \in 1 .. pn
         /\ inspected[i].sector = inspected[i].data
    /\ \A i \in 1 .. Len(inspected), j \in 1 .. Len(list) :
         inspected[i].sector < list[j].n
    /\ ppc = "half" =>
         \A i \in 1 .. Len(inspected) : inspected[i].sector < pn
    /\ cpc \in {"data", "inspect"} =>
         \A i \in 1 .. Len(inspected) : inspected[i].sector < sec

IInv ==
    /\ TypeOK
    /\ ListOrdered
    /\ DataFollowsSector
    /\ HalfPushed
    /\ HalfPopped
    /\ InspectedInOrder

----------------------------------------------------------------------------
(* The initial state satisfies the inductive invariant.                    *)
LEMMA InitIInv == Init => IInv
  BY EmptyFacts DEF Init, IInv, TypeOK, ListOrdered, DataFollowsSector, HalfPushed,
     HalfPopped, InspectedInOrder, NoElement, Element

(* LPUSH of a sector number.                                               *)
LEMMA PushSectorIInv == IInv /\ PushSector => IInv'
  <1> SUFFICES ASSUME IInv, PushSector PROVE IInv'
    OBVIOUS
  <1>1. /\ list \in Seq(Element) /\ pn \in Nat /\ sec \in Nat
        /\ pn' = pn + 1 /\ ppc' = "half" /\ cpc' = cpc /\ sec' = sec
        /\ data' = data /\ inspected' = inspected
    BY DEF IInv, TypeOK, PushSector, engineVars
  <1>2. PICK e \in Element : /\ e = [part |-> "sector", n |-> pn + 1]
                             /\ e.part = "sector" /\ e.n = pn + 1
                             /\ list' = Append(list, e)
    BY <1>1 DEF PushSector, Element
  <1>3. /\ list' \in Seq(Element)
        /\ Len(list) \in Nat
        /\ Len(list') = Len(list) + 1
        /\ list' # <<>>
        /\ \A i \in 1 .. Len(list) : list'[i] = list[i]
        /\ list'[Len(list) + 1] = e
    BY <1>1, <1>2, AppendFacts, LenFacts
  <1>4. TypeOK'
    BY <1>1, <1>3 DEF IInv, TypeOK, PushSector, engineVars
  <1>5. \A i \in 1 .. Len(list) : list[i].n \in 1 .. pn
    BY DEF IInv, ListOrdered
  <1>6. ListOrdered'
    <2>1. \A i \in 1 .. Len(list') : list'[i].n \in 1 .. pn'
      BY <1>1, <1>2, <1>3, <1>5
    <2>2. ASSUME NEW i \in 1 .. Len(list'), NEW j \in 1 .. Len(list'), i < j
          PROVE  \/ list'[i].n < list'[j].n
                 \/ /\ list'[i].n = list'[j].n
                    /\ j = i + 1
                    /\ list'[i].part = "sector"
                    /\ list'[j].part = "data"
      <3>1. i \in 1 .. Len(list) /\ (j \in 1 .. Len(list) \/ j = Len(list) + 1)
        BY <1>3, <2>2
      <3>2. CASE j \in 1 .. Len(list)
        BY <1>3, <2>2, <3>1, <3>2 DEF IInv, ListOrdered
      <3>3. CASE j = Len(list) + 1
        BY <1>1, <1>2, <1>3, <1>5, <3>1, <3>3
      <3> QED
        BY <3>1, <3>2, <3>3
    <2> QED
      BY <2>1, <2>2 DEF ListOrdered
  <1>7. DataFollowsSector'
    BY <1>2, <1>3 DEF IInv, DataFollowsSector
  <1>8. HalfPushed'
    BY <1>1, <1>2, <1>3 DEF HalfPushed
  <1>9. HalfPopped'
    <2>1. sec \in 0 .. pn /\ (cpc \in {"data", "inspect"} => sec \in 1 .. pn)
      BY DEF IInv, HalfPopped
    <2>2. ASSUME cpc = "data", list'[1].part = "data"
          PROVE  list'[1].n = sec
      <3>1. list # <<>> /\ 1 \in 1 .. Len(list)
        BY <1>1, <1>2, <1>3, <2>2, EmptyFacts
      <3> QED
        BY <1>3, <2>2, <3>1 DEF IInv, HalfPopped
    <2>3. ASSUME cpc = "data", NEW i \in 1 .. Len(list')
          PROVE  sec < list'[i].n \/ (i = 1 /\ list'[1].part = "data")
      <3>1. CASE i \in 1 .. Len(list)
        <4>1. 1 \in 1 .. Len(list)
          BY <1>3, <3>1
        <4> QED
          BY <1>3, <2>3, <3>1, <4>1 DEF IInv, HalfPopped
      <3>2. CASE i = Len(list) + 1
        BY <1>1, <1>2, <1>3, <2>1, <2>3, <3>2
      <3> QED
        BY <1>3, <3>1, <3>2
    <2>4. ASSUME cpc = "inspect", NEW i \in 1 .. Len(list')
          PROVE  sec < list'[i].n
      <3>1. CASE i \in 1 .. Len(list)
        BY <1>3, <2>4, <3>1 DEF IInv, HalfPopped
      <3>2. CASE i = Len(list) + 1
        BY <1>1, <1>2, <1>3, <2>1, <2>4, <3>2
      <3> QED
        BY <1>3, <3>1, <3>2
    <2>5. cpc = "inspect" => (data.part = "data" => data.n = sec)
      BY DEF IInv, HalfPopped
    <2> QED
      BY <1>1, <1>3, <2>1, <2>2, <2>3, <2>4, <2>5 DEF HalfPopped
  <1>10. InspectedInOrder'
    <2>1. /\ \A i \in 1 .. Len(inspected) : inspected[i].sector \in 1 .. pn
          /\ \A i \in 1 .. Len(inspected) : inspected[i].sector = inspected[i].data
          /\ cpc \in {"data", "inspect"} =>
               \A i \in 1 .. Len(inspected) : inspected[i].sector < sec
      BY DEF IInv, InspectedInOrder
    <2>2. ASSUME NEW i \in 1 .. Len(inspected), NEW j \in 1 .. Len(list')
          PROVE  inspected[i].sector < list'[j].n
      <3>1. CASE j \in 1 .. Len(list)
        BY <1>3, <3>1 DEF IInv, InspectedInOrder
      <3>2. CASE j = Len(list) + 1
        BY <1>1, <1>2, <1>3, <2>1, <3>2
      <3> QED
        BY <1>3, <3>1, <3>2
    <2> QED
      BY <1>1, <2>1, <2>2 DEF InspectedInOrder
  <1> QED
    BY <1>4, <1>6, <1>7, <1>8, <1>9, <1>10 DEF IInv

(* LPUSH of the data of the write begun.                                   *)
LEMMA PushDataIInv == IInv /\ PushData => IInv'
  <1> SUFFICES ASSUME IInv, PushData PROVE IInv'
    OBVIOUS
  <1>1. /\ list \in Seq(Element) /\ pn \in Nat \ {0} /\ sec \in Nat /\ ppc = "half"
        /\ pn' = pn /\ ppc' = "idle" /\ cpc' = cpc /\ sec' = sec
        /\ data' = data /\ inspected' = inspected
    BY DEF IInv, TypeOK, HalfPushed, PushData, engineVars
  <1>2. PICK e \in Element : /\ e = [part |-> "data", n |-> pn]
                             /\ e.part = "data" /\ e.n = pn
                             /\ list' = Append(list, e)
    BY <1>1 DEF PushData, Element
  <1>3. /\ list' \in Seq(Element)
        /\ Len(list) \in Nat
        /\ Len(list') = Len(list) + 1
        /\ list' # <<>>
        /\ \A i \in 1 .. Len(list) : list'[i] = list[i]
        /\ list'[Len(list) + 1] = e
    BY <1>1, <1>2, AppendFacts, LenFacts
  <1>4. TypeOK'
    BY <1>1, <1>3 DEF IInv, TypeOK, PushData, engineVars
  <1>5. Len(list) # 0 => /\ list[Len(list)] = [part |-> "sector", n |-> pn]
                         /\ list[Len(list)].n = pn
                         /\ list[Len(list)].part = "sector"
    BY <1>1, EmptyFacts DEF IInv, HalfPushed
  <1>6. \A i \in 1 .. Len(list) : /\ list[i].n \in 1 .. pn
                                  /\ i # Len(list) => list[i].n < pn
    <2>1. \A i \in 1 .. Len(list) : list[i].n \in 1 .. pn
      BY DEF IInv, ListOrdered
    <2>2. ASSUME NEW i \in 1 .. Len(list), i # Len(list) PROVE list[i].n < pn
      <3>1. i < Len(list) /\ Len(list) \in 1 .. Len(list)
        BY <1>3, <2>2
      <3> QED
        BY <1>5, <3>1 DEF IInv, ListOrdered
    <2> QED
      BY <2>1, <2>2
  <1>7. ListOrdered'
    <2>1. \A i \in 1 .. Len(list') : list'[i].n \in 1 .. pn'
      BY <1>1, <1>2, <1>3, <1>6
    <2>2. ASSUME NEW i \in 1 .. Len(list'), NEW j \in 1 .. Len(list'), i < j
          PROVE  \/ list'[i].n < list'[j].n
                 \/ /\ list'[i].n = list'[j].n
                    /\ j = i + 1
                    /\ list'[i].part = "sector"
                    /\ list'[j].part = "data"
      <3>1. i \in 1 .. Len(list) /\ (j \in 1 .. Len(list) \/ j = Len(list) + 1)
        BY <1>3, <2>2
      <3>2. CASE j \in 1 .. Len(list)
        BY <1>3, <2>2, <3>1, <3>2 DEF IInv, ListOrdered
      <3>3. CASE j = Len(list) + 1
        BY <1>1, <1>2, <1>3, <1>5, <1>6, <3>1, <3>3
      <3> QED
        BY <3>1, <3>2, <3>3
    <2> QED
      BY <2>1, <2>2 DEF ListOrdered
  <1>8. DataFollowsSector'
    <2> SUFFICES ASSUME NEW i \in 2 .. Len(list'), list'[i].part = "data"
                 PROVE  list'[i - 1] = [part |-> "sector", n |-> list'[i].n]
      BY DEF DataFollowsSector
    <2>1. CASE i \in 2 .. Len(list)
      BY <1>3, <2>1 DEF IInv, DataFollowsSector
    <2>2. CASE i = Len(list) + 1
      BY <1>2, <1>3, <1>5, <2>2
    <2> QED
      BY <1>3, <2>1, <2>2
  <1>9. HalfPushed'
    BY <1>1 DEF HalfPushed
  <1>10. HalfPopped'
    <2>1. /\ sec \in 0 .. pn
          /\ cpc \in {"data", "inspect"} => sec \in 1 .. pn
          /\ cpc = "inspect" => (data.part = "data" => data.n = sec) /\ sec < pn
          /\ cpc = "data" /\ Len(list) = 0 => sec = pn
      BY <1>1, EmptyFacts DEF IInv, HalfPopped
    <2>2. ASSUME cpc = "data", list'[1].part = "data"
          PROVE  list'[1].n = sec
      <3>1. CASE Len(list) = 0
        BY <1>2, <1>3, <2>1, <2>2, <3>1
      <3>2. CASE Len(list) # 0
        <4>1. list # <<>> /\ 1 \in 1 .. Len(list)
          BY <1>1, <1>3, <3>2, EmptyFacts
        <4> QED
          BY <1>3, <2>2, <4>1 DEF IInv, HalfPopped
      <3> QED
        BY <3>1, <3>2
    <2>3. ASSUME cpc = "data", NEW i \in 1 .. Len(list')
          PROVE  sec < list'[i].n \/ (i = 1 /\ list'[1].part = "data")
      <3>1. ASSUME NEW k \in 1 .. Len(list)
            PROVE  sec < list'[k].n \/ (k = 1 /\ list'[1].part = "data")
        <4>1. 1 \in 1 .. Len(list)
          BY <1>3
        <4> QED
          BY <1>3, <2>3, <4>1 DEF IInv, HalfPopped
      <3>2. CASE i = Len(list) + 1 /\ Len(list) = 0
        BY <1>2, <1>3, <3>2
      <3>3. CASE i = Len(list) + 1 /\ Len(list) # 0
        <4>1. Len(list) \in 1 .. Len(list)
          BY <1>3, <3>3
        <4>2. sec < pn
          BY <1>2, <1>3, <1>5, <3>1, <3>3, <4>1
        <4> QED
          BY <1>2, <1>3, <3>3, <4>2
      <3> QED
        BY <1>3, <3>1, <3>2, <3>3
    <2>4. ASSUME cpc = "inspect", NEW i \in 1 .. Len(list')
          PROVE  sec < list'[i].n
      <3>1. CASE i \in 1 .. Len(list)
        BY <1>3, <2>4, <3>1 DEF IInv, HalfPopped
      <3>2. CASE i = Len(list) + 1
        BY <1>1, <1>2, <1>3, <2>1, <2>4, <3>2
      <3> QED
        BY <1>3, <3>1, <3>2
    <2> QED
      BY <1>1, <1>3, <2>1, <2>2, <2>3, <2>4 DEF HalfPopped
  <1>11. InspectedInOrder'
    <2>1. /\ \A i \in 1 .. Len(inspected) : inspected[i].sector \in 1 .. pn
          /\ \A i \in 1 .. Len(inspected) : inspected[i].sector = inspected[i].data
          /\ \A i \in 1 .. Len(inspected) : inspected[i].sector < pn
          /\ cpc \in {"data", "inspect"} =>
               \A i \in 1 .. Len(inspected) : inspected[i].sector < sec
      BY <1>1 DEF IInv, InspectedInOrder
    <2>2. ASSUME NEW i \in 1 .. Len(inspected), NEW j \in 1 .. Len(list')
          PROVE  inspected[i].sector < list'[j].n
      <3>1. CASE j \in 1 .. Len(list)
        BY <1>3, <3>1 DEF IInv, InspectedInOrder
      <3>2. CASE j = Len(list) + 1
        BY <1>1, <1>2, <1>3, <2>1, <3>2
      <3> QED
        BY <1>3, <3>1, <3>2
    <2> QED
      BY <1>1, <2>1, <2>2 DEF InspectedInOrder
  <1> QED
    BY <1>4, <1>7, <1>8, <1>9, <1>10, <1>11 DEF IInv

(* BRPOP keeps what the list satisfies by itself.                          *)
LEMMA PopKeepsList ==
    IInv /\ list # <<>> /\ list' = Tail(list) /\ UNCHANGED <<pn, ppc>>
      => /\ Len(list) \in Nat \ {0}
         /\ Head(list) = list[1]
         /\ Head(list) \in Element
         /\ list' \in Seq(Element)
         /\ Len(list') = Len(list) - 1
         /\ \A i \in 1 .. Len(list') : list'[i] = list[i + 1]
         /\ list' = <<>> => Len(list) = 1
         /\ ListOrdered' /\ DataFollowsSector' /\ HalfPushed'
  <1> SUFFICES ASSUME IInv, list # <<>>, list' = Tail(list), pn' = pn, ppc' = ppc
               PROVE  /\ Len(list) \in Nat \ {0}
                      /\ Head(list) = list[1]
                      /\ Head(list) \in Element
                      /\ list' \in Seq(Element)
                      /\ Len(list') = Len(list) - 1
                      /\ \A i \in 1 .. Len(list') : list'[i] = list[i + 1]
                      /\ list' = <<>> => Len(list) = 1
                      /\ ListOrdered' /\ DataFollowsSector' /\ HalfPushed'
    OBVIOUS
  <1>1. list \in Seq(Element)
    BY DEF IInv, TypeOK
  <1>2. /\ Len(list) \in Nat \ {0}
        /\ Head(list) = list[1]
        /\ Head(list) \in Element
        /\ list' \in Seq(Element)
        /\ Len(list') = Len(list) - 1
        /\ \A i \in 1 .. Len(list') : list'[i] = list[i + 1]
        /\ list' = <<>> => Len(list) = 1
    BY <1>1, TailFacts
  <1>3. \A i \in 1 .. Len(list') : i + 1 \in 2 .. Len(list)
    BY <1>2
  <1>4. ListOrdered'
    <2>1. \A i \in 1 .. Len(list') : list'[i].n \in 1 .. pn'
      BY <1>2, <1>3 DEF IInv, ListOrdered
    <2>2. ASSUME NEW i \in 1 .. Len(list'), NEW j \in 1 .. Len(list'), i < j
          PROVE  \/ list'[i].n < list'[j].n
                 \/ /\ list'[i].n = list'[j].n
                    /\ j = i + 1
                    /\ list'[i].part = "sector"
                    /\ list'[j].part = "data"
      <3>1. i + 1 \in 1 .. Len(list) /\ j + 1 \in 1 .. Len(list) /\ i + 1 < j + 1
        BY <1>2, <2>2
      <3>2. j + 1 = (i + 1) + 1 => j = i + 1
        OBVIOUS
      <3> QED
        BY <1>2, <3>1, <3>2 DEF IInv, ListOrdered
    <2> QED
      BY <2>1, <2>2 DEF ListOrdered
  <1>5. DataFollowsSector'
    <2> SUFFICES ASSUME NEW i \in 2 .. Len(list'), list'[i].part = "data"
                 PROVE  list'[i - 1] = [part |-> "sector", n |-> list'[i].n]
      BY DEF DataFollowsSector
    <2>1. /\ i + 1 \in 2 .. Len(list) /\ (i + 1) - 1 = i
          /\ list'[i] = list[i + 1] /\ list'[i - 1] = list[i]
      BY <1>2
    <2> QED
      BY <2>1 DEF IInv, DataFollowsSector
  <1>6. HalfPushed'
    <2>1. list' # <<>> => list'[Len(list')] = list[Len(list)]
      BY <1>2, EmptyFacts
    <2> QED
      BY <2>1 DEF IInv, HalfPushed
  <1> QED
    BY <1>2, <1>4, <1>5, <1>6

(* The first BRPOP: a sector number is kept, data ends the engine.         *)
LEMMA PopSectorIInv == IInv /\ PopSector => IInv'
  <1> SUFFICES ASSUME IInv, PopSector PROVE IInv'
    OBVIOUS
  <1>1. /\ Len(list) \in Nat \ {0}
        /\ Head(list) = list[1]
        /\ Head(list) \in Element
        /\ list' \in Seq(Element)
        /\ Len(list') = Len(list) - 1
        /\ \A i \in 1 .. Len(list') : list'[i] = list[i + 1]
        /\ list' = <<>> => Len(list) = 1
        /\ ListOrdered' /\ DataFollowsSector' /\ HalfPushed'
    BY PopKeepsList DEF PopSector
  <1>2. /\ pn' = pn /\ ppc' = ppc /\ data' = data /\ inspected' = inspected
        /\ pn \in Nat /\ sec \in Nat
    BY DEF IInv, TypeOK, PopSector
  <1>3. TypeOK'
    BY <1>1 DEF IInv, TypeOK, PopSector, Element
  <1>4. \/ list[1].part = "sector" /\ sec' = list[1].n /\ cpc' = "data"
        \/ cpc' = "down" /\ sec' = sec
    BY <1>1 DEF PopSector, SectorSized
  <1>5. HalfPopped'
    <2>1. CASE list[1].part = "sector" /\ sec' = list[1].n /\ cpc' = "data"
      <3>1. 1 \in 1 .. Len(list) /\ sec' \in 1 .. pn'
        BY <1>1, <1>2, <2>1 DEF IInv, ListOrdered
      <3>2. ppc = "half" /\ list' = <<>> => sec' = pn'
        BY <1>1, <1>2, <2>1 DEF IInv, HalfPushed, PopSector
      <3>3. ASSUME list' # <<>>, list'[1].part = "data" PROVE list'[1].n = sec'
        <4>1. 2 \in 2 .. Len(list) /\ list'[1] = list[2] /\ 2 - 1 = 1
          BY <1>1, <3>3, EmptyFacts
        <4>2. list[2].part = "data"
          BY <3>3, <4>1
        <4>3. list[1] = [part |-> "sector", n |-> list[2].n]
          BY <4>1, <4>2 DEF IInv, DataFollowsSector
        <4> QED
          BY <2>1, <4>1, <4>3
      <3>4. ASSUME NEW i \in 1 .. Len(list')
            PROVE  sec' < list'[i].n \/ (i = 1 /\ list'[1].part = "data")
        <4>1. /\ i + 1 \in 1 .. Len(list) /\ 1 < i + 1 /\ list'[i] = list[i + 1]
              /\ i + 1 = 1 + 1 => i = 1
          BY <1>1
        <4>2. \/ list[1].n < list[i + 1].n
              \/ i + 1 = 1 + 1 /\ list[i + 1].part = "data"
          BY <3>1, <4>1 DEF IInv, ListOrdered
        <4> QED
          BY <2>1, <4>1, <4>2
      <3> QED
        BY <1>2, <2>1, <3>1, <3>2, <3>3, <3>4 DEF HalfPopped
    <2>2. CASE cpc' = "down" /\ sec' = sec
      BY <1>2, <2>2 DEF IInv, HalfPopped
    <2> QED
      BY <1>4, <2>1, <2>2
  <1>6. InspectedInOrder'
    <2>1. \A i \in 1 .. Len(inspected), j \in 1 .. Len(list') :
            inspected[i].sector < list'[j].n
      <3> SUFFICES ASSUME NEW i \in 1 .. Len(inspected), NEW j \in 1 .. Len(list')
                   PROVE  inspected[i].sector < list'[j].n
        OBVIOUS
      <3>1. j + 1 \in 1 .. Len(list) /\ list'[j] = list[j + 1]
        BY <1>1
      <3> QED
        BY <3>1 DEF IInv, InspectedInOrder
    <2>2. 1 \in 1 .. Len(list)
      BY <1>1
    <2> QED
      BY <1>2, <1>4, <2>1, <2>2 DEF IInv, InspectedInOrder
  <1> QED
    BY <1>1, <1>3, <1>5, <1>6 DEF IInv

(* The second BRPOP takes what is there.                                   *)
LEMMA PopDataIInv == IInv /\ PopData => IInv'
  <1> SUFFICES ASSUME IInv, PopData PROVE IInv'
    OBVIOUS
  <1>1. /\ Len(list) \in Nat \ {0}
        /\ Head(list) = list[1]
        /\ Head(list) \in Element
        /\ list' \in Seq(Element)
        /\ Len(list') = Len(list) - 1
        /\ \A i \in 1 .. Len(list') : list'[i] = list[i + 1]
        /\ list' = <<>> => Len(list) = 1
        /\ ListOrdered' /\ DataFollowsSector' /\ HalfPushed'
    BY PopKeepsList DEF PopData
  <1>2. /\ pn' = pn /\ ppc' = ppc /\ sec' = sec /\ inspected' = inspected
        /\ cpc = "data" /\ cpc' = "inspect" /\ data' = list[1]
        /\ pn \in Nat /\ sec \in Nat /\ list # <<>>
    BY <1>1 DEF IInv, TypeOK, PopData
  <1>3. TypeOK'
    BY <1>1 DEF IInv, TypeOK, PopData
  <1>4. /\ sec \in 1 .. pn
        /\ list[1].part = "data" => list[1].n = sec
        /\ \A i \in 1 .. Len(list) : sec < list[i].n \/ (i = 1 /\ list[1].part = "data")
    BY <1>2 DEF IInv, HalfPopped
  <1>5. HalfPopped'
    <2>1. ASSUME NEW i \in 1 .. Len(list') PROVE sec < list'[i].n
      <3>1. i + 1 \in 1 .. Len(list) /\ i + 1 # 1 /\ list'[i] = list[i + 1]
        BY <1>1
      <3> QED
        BY <1>4, <3>1
    <2>2. ASSUME ppc = "half" PROVE sec < pn
      <3>1. /\ Len(list) \in 1 .. Len(list)
            /\ list[Len(list)].part = "sector" /\ list[Len(list)].n = pn
        BY <1>1, <1>2, <2>2 DEF IInv, HalfPushed
      <3> QED
        BY <1>4, <3>1
    <2> QED
      BY <1>2, <1>4, <2>1, <2>2 DEF HalfPopped
  <1>6. InspectedInOrder'
    <2>1. \A i \in 1 .. Len(inspected), j \in 1 .. Len(list') :
            inspected[i].sector < list'[j].n
      <3> SUFFICES ASSUME NEW i \in 1 .. Len(inspected), NEW j \in 1 .. Len(list')
                   PROVE  inspected[i].sector < list'[j].n
        OBVIOUS
      <3>1. j + 1 \in 1 .. Len(list) /\ list'[j] = list[j + 1]
        BY <1>1
      <3> QED
        BY <3>1 DEF IInv, InspectedInOrder
    <2> QED
      BY <1>2, <2>1 DEF IInv, InspectedInOrder
  <1> QED
    BY <1>1, <1>3, <1>5, <1>6 DEF IInv

(* The inspection: the write is recorded if its data is data.              *)
LEMMA InspectIInv == IInv /\ Inspect => IInv'
  <1> SUFFICES ASSUME IInv, Inspect PROVE IInv'
    OBVIOUS
  <1>1. /\ list' = list /\ pn' = pn /\ ppc' = ppc /\ sec' = sec /\ data' = data
        /\ cpc = "inspect" /\ cpc' = "sector"
        /\ pn \in Nat /\ sec \in Nat /\ data.n \in Nat
        /\ inspected \in Seq([sector : Nat, data : Nat])
    BY DEF IInv, TypeOK, Inspect, Element
  <1>2. /\ sec \in 1 .. pn /\ (data.part = "data" => data.n = sec)
        /\ ppc = "half" => sec < pn
        /\ \A i \in 1 .. Len(list) : sec < list[i].n
    BY <1>1 DEF IInv, HalfPopped
  <1>3. ListOrdered' /\ DataFollowsSector' /\ HalfPushed' /\ HalfPopped'
    BY <1>1 DEF IInv, ListOrdered, DataFollowsSector, HalfPushed, HalfPopped
  <1>4. CASE data.part = "data"
    <2>1. PICK e \in [sector : Nat, data : Nat] :
            /\ e.sector = sec /\ e.data = sec
            /\ inspected' = Append(inspected, e)
      <3>1. inspected' = Append(inspected, [sector |-> sec, data |-> sec])
        BY <1>1, <1>2, <1>4 DEF Inspect, Sectors
      <3> QED
        BY <1>1, <3>1
    <2>2. /\ inspected' \in Seq([sector : Nat, data : Nat])
          /\ Len(inspected) \in Nat
          /\ Len(inspected') = Len(inspected) + 1
          /\ \A i \in 1 .. Len(inspected) : inspected'[i] = inspected[i]
          /\ inspected'[Len(inspected) + 1] = e
      BY <1>1, <2>1, AppendFacts, LenFacts
    <2>3. TypeOK'
      BY <1>1, <2>2 DEF IInv, TypeOK, Inspect
    <2>4. \A i \in 1 .. Len(inspected') :
            i \in 1 .. Len(inspected) \/ i = Len(inspected) + 1
      BY <2>2
    <2>5. InspectedInOrder'
      <3>1. \A i \in 1 .. Len(inspected') :
              /\ inspected'[i].sector \in 1 .. pn
              /\ inspected'[i].sector = inspected'[i].data
              /\ ppc = "half" => inspected'[i].sector < pn
        BY <1>2, <2>1, <2>2, <2>4 DEF IInv, InspectedInOrder
      <3>2. \A i \in 1 .. Len(inspected'), j \in 1 .. Len(list) :
              inspected'[i].sector < list[j].n
        BY <1>2, <2>1, <2>2, <2>4 DEF IInv, InspectedInOrder
      <3> QED
        BY <1>1, <3>1, <3>2 DEF InspectedInOrder
    <2> QED
      BY <1>3, <2>3, <2>5 DEF IInv
  <1>5. CASE data.part # "data"
    <2>1. inspected' = inspected
      BY <1>5 DEF Inspect, Sectors
    <2> QED
      BY <1>1, <1>3, <2>1 DEF IInv, TypeOK, Inspect, InspectedInOrder
  <1> QED
    BY <1>4, <1>5

(* A crash or a restart of either process changes only where it is.        *)
LEMMA CrashIInv ==
    IInv /\ (ProducerCrash \/ ProducerRestart \/ EngineCrash \/ EngineRestart) => IInv'
  <1> SUFFICES ASSUME IInv,
                      ProducerCrash \/ ProducerRestart \/ EngineCrash \/ EngineRestart
               PROVE  IInv'
    OBVIOUS
  <1>1. /\ list' = list /\ pn' = pn /\ sec' = sec /\ data' = data /\ inspected' = inspected
        /\ ppc' = ppc \/ ppc' \in {"idle", "down"}
        /\ cpc' = cpc \/ cpc' \in {"sector", "down"}
    BY DEF ProducerCrash, ProducerRestart, EngineCrash, EngineRestart, engineVars
  <1>2. TypeOK'
    <2>1. ASSUME ProducerCrash PROVE TypeOK'
      BY <2>1 DEF IInv, TypeOK, ProducerCrash, engineVars
    <2>2. ASSUME ProducerRestart PROVE TypeOK'
      BY <2>2 DEF IInv, TypeOK, ProducerRestart, engineVars
    <2>3. ASSUME EngineCrash PROVE TypeOK'
      BY <2>3 DEF IInv, TypeOK, EngineCrash
    <2>4. ASSUME EngineRestart PROVE TypeOK'
      BY <2>4 DEF IInv, TypeOK, EngineRestart
    <2> QED
      BY <2>1, <2>2, <2>3, <2>4
  <1>3. ListOrdered' /\ DataFollowsSector' /\ HalfPushed'
    BY <1>1 DEF IInv, ListOrdered, DataFollowsSector, HalfPushed
  <1>4. HalfPopped'
    BY <1>1 DEF IInv, HalfPopped
  <1>5. InspectedInOrder'
    BY <1>1 DEF IInv, InspectedInOrder
  <1> QED
    BY <1>2, <1>3, <1>4, <1>5 DEF IInv

(* Every step of producer, engine and their crashes keeps IInv.            *)
LEMMA NextIInv == IInv /\ [Next]_vars => IInv'
  <1>1. IInv /\ UNCHANGED vars => IInv'
    BY DEF vars, IInv, TypeOK, ListOrdered, DataFollowsSector, HalfPushed,
       HalfPopped, InspectedInOrder
  <1> QED
    BY <1>1, PushSectorIInv, PushDataIInv, PopSectorIInv, PopDataIInv, InspectIInv,
       CrashIInv DEF Next, EngineStep, Quiet

(* IInv holds in every reachable state.                                    *)
THEOREM Invariance == Spec => []IInv
  BY InitIInv, NextIInv, PTL DEF Spec

(* The variables have their types, for any number of writes and crashes.   *)
THEOREM TypeCorrect == Spec => []TypeOK
  <1>1. IInv => TypeOK
    BY DEF IInv
  <1> QED
    BY <1>1, Invariance, PTL

(* However many writes are made and wherever the two processes die, the    *)
(* engine never inspects the data of one write at the sector of another.   *)
THEOREM Pairing == Spec => []NeverMispaired
  <1>1. IInv => NeverMispaired
    BY DEF IInv, InspectedInOrder, NeverMispaired
  <1> QED
    BY <1>1, Invariance, PTL

(* Every step of the path is a step of LossyQueue, or leaves it alone.     *)
LEMMA StepRefines == IInv /\ [Next]_vars => [Path!Next]_<<pn, [i \in 1 .. Len(inspected) |-> inspected[i].sector]>>
  <1> DEFINE delivered == [i \in 1 .. Len(inspected) |-> inspected[i].sector]
  <1> SUFFICES ASSUME IInv, [Next]_vars
               PROVE  Path!Next \/ (pn' = pn /\ delivered' = delivered)
    OBVIOUS
  <1>1. CASE PushSector
    <2>1. pn' = pn + 1 /\ inspected' = inspected
      BY <1>1 DEF PushSector, engineVars
    <2> QED
      BY <2>1 DEF Path!Next, Path!Offer
  <1>2. CASE Inspect
    <2>1. /\ pn' = pn /\ cpc = "inspect"
          /\ sec \in 1 .. pn /\ (data.part = "data" => data.n = sec)
          /\ inspected \in Seq([sector : Nat, data : Nat])
          /\ \A i \in 1 .. Len(inspected) : inspected[i].sector < sec
          /\ sec \in Nat /\ data.n \in Nat /\ pn \in Nat
      BY <1>2 DEF Inspect, IInv, TypeOK, Element, HalfPopped, InspectedInOrder
    <2>2. CASE data.part = "data"
      <3>1. PICK e \in [sector : Nat, data : Nat] :
              e.sector = sec /\ inspected' = Append(inspected, e)
        <4>1. inspected' = Append(inspected, [sector |-> sec, data |-> sec])
          BY <1>2, <2>1, <2>2 DEF Inspect, Sectors
        <4> QED
          BY <2>1, <4>1
      <3>2. /\ Len(inspected) \in Nat
            /\ Len(inspected') = Len(inspected) + 1
            /\ \A i \in 1 .. Len(inspected) : inspected'[i] = inspected[i]
            /\ inspected'[Len(inspected) + 1] = e
        BY <2>1, <3>1, AppendFacts, LenFacts
      <3>3. /\ delivered \in Seq(Nat)
            /\ Len(delivered) = Len(inspected)
            /\ \A i \in 1 .. Len(delivered) : delivered[i] < sec
        <4>1. inspected \in [1 .. Len(inspected) -> [sector : Nat, data : Nat]]
          BY <2>1, LenFacts, Zenon
        <4>2. delivered \in [1 .. Len(inspected) -> Nat]
          BY <4>1
        <4>3. \A i \in 1 .. Len(inspected) : delivered[i] < sec
          BY <2>1
        <4> HIDE DEF delivered
        <4>4. delivered \in Seq(Nat) /\ Len(delivered) = Len(inspected)
          BY <3>2, <4>2, FunctionIsSeq
        <4> QED
          BY <4>3, <4>4
      <3>4. delivered' = Append(delivered, sec)
        <4>1. /\ Append(delivered, sec) \in Seq(Nat)
              /\ Len(Append(delivered, sec)) = Len(inspected) + 1
              /\ \A i \in 1 .. Len(inspected) : Append(delivered, sec)[i] = delivered[i]
              /\ Append(delivered, sec)[Len(inspected) + 1] = sec
          BY <2>1, <3>3, AppendFacts
        <4>2. \A i \in 1 .. Len(inspected') : delivered'[i] = Append(delivered, sec)[i]
          <5>1. \A i \in 1 .. Len(inspected) : delivered'[i] = delivered[i]
            BY <3>2
          <5>2. delivered'[Len(inspected) + 1] = sec
            BY <3>1, <3>2
          <5> QED
            BY <3>2, <4>1, <5>1, <5>2
        <4>3. Append(delivered, sec) \in [1 .. Len(inspected') -> Nat]
          BY <3>2, <4>1, LenFacts, Zenon
        <4>4. delivered' = [i \in 1 .. Len(inspected') |-> delivered'[i]]
          OBVIOUS
        <4> QED
          BY <4>2, <4>3, <4>4, Zenon
      <3> QED
        BY <2>1, <3>3, <3>4, Zenon DEF Path!Next, Path!Deliver
    <2>3. CASE data.part # "data"
      <3>1. inspected' = inspected
        BY <1>2, <2>3 DEF Inspect, Sectors
      <3> QED
        BY <2>1, <3>1
    <2> QED
      BY <2>2, <2>3
  <1>3. CASE ~PushSector /\ ~Inspect
    <2>1. pn' = pn /\ inspected' = inspected
      BY <1>3 DEF Next, EngineStep, PushData, PopSector, PopData, ProducerCrash,
         ProducerRestart, EngineCrash, EngineRestart, Quiet, vars, engineVars
    <2> QED
      BY <2>1
  <1> QED
    BY <1>1, <1>2, <1>3

(* The path implements LossyQueue: for any number of writes and crashes,   *)
(* no write is inspected twice, out of order, or without having been made. *)
THEOREM Refinement == Spec => ImplementsLossyQueue
  <1>1. Init => Path!Init
    BY DEF Init, Path!Init
  <1> QED
    BY <1>1, Invariance, StepRefines, PTL DEF Spec, ImplementsLossyQueue, Path!Spec
=============================================================================
