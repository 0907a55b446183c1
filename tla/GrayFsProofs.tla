---------------------------- MODULE GrayFsProofs ----------------------------
(***************************************************************************)
(* For any file and any changes the engine makes during a call: a read     *)
(* stays in its buffer, and getattr returns fields the file had; if blocks *)
(* are as long as gammarayfs_read takes them to be, a read serves the      *)
(* file.  The argument for reads: as long as bytes are missing, the range  *)
(* holds the blocks of one list the file had during the call, from the     *)
(* block on where the next byte lies (Ahead), and reaches far enough if    *)
(* the list covered the size all the time (Covered).                       *)
(***************************************************************************)
EXTENDS GrayFs, SequenceLemmas, TLAPS

Sectors == Blocks \cup {Hole}
Bytes == Sectors \X Nat
Serving == pc \in {"attr", "range", "block", "disk"}

(* The types TypeOK does not say.                                          *)
Types ==
    /\ version \in Nat /\ field \in Nat /\ shorts \in Nat /\ asked \in Nat
    /\ complete \in Kinds
    /\ op \in {"getattr", "read"}
    /\ size \in Int
    /\ stat \in [FieldNames -> Nat]
    /\ range \in Seq(Sectors)
    /\ buf \in Seq(Bytes)
    /\ seen \in [list : SUBSET Seq(Sectors), fields : [FieldNames -> SUBSET Nat]]

(* How far a call has come, point by point.                                *)
Progress ==
    /\ pc \in {"idle", "attr", "range"} => position = 0
    /\ pc \in {"attr", "range"} => offset = asked /\ size >= 0
    /\ pc \in {"range", "block", "disk"} => op = "read" /\ ~error /\ size >= 0
    /\ pc = "range" => buf = <<>> /\ asked + size <= stat["size"]
    /\ pc \in {"block", "disk"} => position <= size /\ Len(buf) <= size
    /\ pc = "disk" => range # <<>> /\ ToRead > 0 /\ readb <= ToRead
    /\ pc = "disk" /\ shorts = 0 => readb = 0

(* What the engine did during the call is known; the fields read so far    *)
(* were the file's; one that is missing is the end of all that follow.     *)
There(k) == \A j \in 1..k : Fields[j] \in complete
Attributes ==
    /\ Serving => /\ list \in seen.list
                  /\ \A f \in FieldNames : Value(f) \in seen.fields[f]
    /\ pc = "attr" /\ There(at - 1) => len2 = 8
    /\ pc \in {"range", "block", "disk", "done"} => at = Len(Fields) + 1
    /\ pc # "idle" => \A k \in 1..(at - 1) :
          There(k) => stat[Fields[k]] \in seen.fields[Fields[k]]

(* The list covers the size the call has found, if it always covered the   *)
(* size of the moment: it never becomes shorter.                           *)
Covered ==
    Serving /\ ~behind =>
        /\ Len(list) * BlockSize >= fsize
        /\ at > 1 => Len(list) * BlockSize >= stat["size"]

(* The next byte lies in block q of the list l, at offset; the range holds *)
(* the blocks from there on.                                               *)
Ahead(q, l) ==
    /\ asked + position = q * BlockSize + offset
    /\ \A j \in 1..Len(range) : q + j \in DOMAIN l /\ range[j] = l[q + j]
    /\ ~behind => (q + Len(range)) * BlockSize >= asked + size
Reads ==
    /\ shorts = 0 => position <= Len(buf)
    /\ BytesAreInPlace
    /\ ReadIsComplete
    /\ BlockSize = Page /\ pc \in {"block", "disk"} /\ position < size =>
          \E q \in Nat : \E l \in seen.list : Ahead(q, l)

IInv ==
    /\ TypeOK
    /\ Types
    /\ Progress
    /\ BufferIsNotOverrun
    /\ Attributes
    /\ Covered
    /\ Reads

----------------------------------------------------------------------------
(* Quotient and remainder of a natural number.                             *)
LEMMA DivMod ==
    ASSUME NEW x \in Nat, NEW b \in Nat \ {0}
    PROVE  /\ x \div b \in Nat
           /\ x % b \in 0..(b - 1)
           /\ x % b <= x
           /\ x = (x \div b) * b + (x % b)
OBVIOUS

(* They are unique.                                                        *)
LEMMA DivUnique ==
    ASSUME NEW b \in Nat \ {0}, NEW q \in Nat, NEW r \in 0..(b - 1)
    PROVE  (q * b + r) \div b = q /\ (q * b + r) % b = r
OBVIOUS

(* As many blocks as a division that rounds up says hold n bytes.          *)
LEMMA RoundedUp ==
    ASSUME NEW n \in Nat, NEW b \in Nat \ {0}
    PROVE  /\ (n + b - 1) \div b \in Nat
           /\ ((n + b - 1) \div b) * b >= n
<1>1. n + b - 1 \in Nat
  OBVIOUS
<1> QED
  BY <1>1, DivMod

(* If k blocks are enough by the division, they hold n bytes.              *)
LEMMA Enough ==
    ASSUME NEW n \in Nat, NEW b \in Nat \ {0}, NEW k \in Nat,
           (n + b - 1) \div b <= k
    PROVE  k * b >= n
OBVIOUS

(* Sizes and bounds are numbers.                                           *)
LEMMA Numbers ==
    BlockSize \in Nat \ {0} /\ Page \in Nat \ {0} /\ MaxOffset \in Nat /\ MaxSize \in Nat
BY GrayFsAssumption

(* The fields are different, and "size" is the first.                      *)
LEMMA FieldFacts ==
    /\ Fields \in Seq(STRING) /\ Len(Fields) \in Nat \ {0}
    /\ DOMAIN Fields = 1..Len(Fields)
    /\ "size" \in FieldNames
    /\ \A k \in 1..Len(Fields) : Fields[k] \in FieldNames
    /\ \A k, m \in 1..Len(Fields) : Fields[k] = Fields[m] => k = m
    /\ Fields[1] = "size"
<1>1. Fields \in Seq(STRING) /\ Len(Fields) \in Nat \ {0} /\ Fields[1] = "size"
  BY GrayFsAssumption
<1>2. DOMAIN Fields = 1..Len(Fields) /\ 1 \in DOMAIN Fields
  BY <1>1
<1>3. \A i, j \in DOMAIN Fields : Fields[i] = Fields[j] => i = j
  BY GrayFsAssumption
<1> QED
  BY <1>1, <1>2, <1>3 DEF FieldNames

(* What all steps of the engine have in common: the list grows or is as    *)
(* long as before, and the call that is served has a new value to reckon   *)
(* with.                                                                   *)
LEMMA EngineStep ==
    ASSUME TypeOK, Types, EngineNext
    PROVE  /\ list' \in Seq(Sectors)
           /\ Len(list') >= Len(list)
           /\ fsize' \in Nat
           /\ version' \in Nat
           /\ Witness(list', fsize', version')
           /\ UNCHANGED <<complete, pc, call, attr, data>>
<1>1. ASSUME NEW n \in 0..(MaxOffset + MaxSize), EngineSetsSize(n)
      PROVE  fsize' \in Nat /\ UNCHANGED <<list, version>>
             /\ Witness(list, fsize', version)
  BY <1>1, GrayFsAssumption DEF EngineSetsSize
<1>2. ASSUME EngineSetsFields
      PROVE  version' \in Nat /\ UNCHANGED <<list, fsize>>
             /\ Witness(list, fsize, version')
  BY <1>2 DEF EngineSetsFields, Types
<1>3. ASSUME NEW s \in Sectors, EngineAppends(s)
      PROVE  /\ list' \in Seq(Sectors) /\ Len(list') >= Len(list)
             /\ UNCHANGED <<fsize, version>>
             /\ Witness(list', fsize, version)
  BY <1>3 DEF EngineAppends, TypeOK, Sectors
<1>4. ASSUME NEW s \in Blocks, NEW k \in DOMAIN list, EngineReplaces(k, s)
      PROVE  /\ list' \in Seq(Sectors) /\ Len(list') >= Len(list)
             /\ UNCHANGED <<fsize, version>>
             /\ Witness(list', fsize, version)
  BY <1>4 DEF EngineReplaces, TypeOK, Sectors
<1>5. UNCHANGED <<complete, pc, call, attr, data>>
  BY DEF EngineNext, EngineSetsSize, EngineSetsFields, EngineAppends,
         EngineReplaces
<1> QED
  BY <1>1, <1>2, <1>3, <1>4, <1>5
     DEF EngineNext, Sectors, TypeOK, Types, Witness

(* What is served of a block, in bounds.                                   *)
LEMMA ToReadFacts ==
    ASSUME TypeOK, Types, Progress, pc \in {"block", "disk"}
    PROVE  /\ ToRead \in Int
           /\ ToRead <= size - position
           /\ ToRead <= BlockSize - offset
           /\ ToRead = size - position \/ ToRead = BlockSize - offset
           /\ BlockSize - offset > 0
BY GrayFsAssumption DEF TypeOK, Types, Progress, ToRead

(* What a read of n bytes leaves in the buffer: the bytes before position  *)
(* as they were, then the ones read.                                       *)
LEMMA WriteFacts ==
    ASSUME TypeOK, Types, range # <<>>, NEW n \in Nat, NEW from \in Nat
    PROVE  /\ Write(buf, n, from) \in Seq(Bytes)
           /\ Len(Write(buf, n, from)) =
                 IF position + n > Len(buf) THEN position + n ELSE Len(buf)
           /\ \A i \in 1..position :
                 i <= Len(buf) => Write(buf, n, from)[i] = buf[i]
           /\ \A i \in (position + 1)..(position + n) :
                 Write(buf, n, from)[i] = DiskByte(from + i - position - 1)
<1> DEFINE new == Write(buf, n, from)
           max == IF position + n > Len(buf) THEN position + n ELSE Len(buf)
<1>1. position \in Nat /\ Len(buf) \in Nat /\ offset \in Nat /\ max \in Nat
  BY GrayFsAssumption DEF TypeOK, Types
<1>2. \A i \in Nat : DiskByte(i) \in Bytes
  <2>1. Head(range) \in Sectors
    BY DEF Types
  <2>2. Hole \in Sectors
    BY DEF Sectors
  <2> QED
    BY <1>1, <2>1, <2>2 DEF DiskByte, Bytes, Zero
<1>3. DOMAIN buf = 1..Len(buf) /\ \A i \in 1..Len(buf) : buf[i] \in Bytes
  BY DEF Types
<1> DEFINE val(i) ==
      IF i > position /\ i <= position + n THEN DiskByte(from + i - position - 1)
      ELSE IF i \in DOMAIN buf THEN buf[i] ELSE Unset
<1>4. new = [i \in 1..max |-> val(i)]
  BY DEF Write
<1>5. Unset \in Bytes
  BY DEF Unset, Bytes, Sectors
<1>6. ASSUME NEW i \in (position + 1)..(position + n)
      PROVE  /\ i \in 1..max
             /\ new[i] = DiskByte(from + i - position - 1)
             /\ from + i - position - 1 \in Nat
  <2>1. i \in 1..max /\ i > position /\ i <= position + n
    BY <1>1
  <2>2. val(i) = DiskByte(from + i - position - 1)
    BY <2>1
  <2> QED
    BY <1>1, <1>4, <2>1, <2>2
<1>7. \A i \in 1..position : i <= Len(buf) => i \in 1..max /\ new[i] = buf[i]
  BY <1>1, <1>3, <1>4
<1>8. \A i \in 1..max : new[i] \in Bytes
  <2> TAKE i \in 1..max
  <2>1. CASE i > position /\ i <= position + n
    BY <1>1, <1>2, <1>6, <2>1
  <2>2. CASE ~(i > position /\ i <= position + n)
    BY <1>1, <1>3, <1>4, <1>5, <2>2
  <2> QED
    BY <2>1, <2>2
<1>9. new \in Seq(Bytes) /\ Len(new) = max
  <2>1. new \in [1..max -> Bytes]
    BY <1>4, <1>8
  <2> HIDE DEF new, max
  <2> QED
    BY <1>1, <2>1, FunctionIsSeq
<1> QED
  BY <1>6, <1>7, <1>9

(* Types and progress when gray-fs starts.                                 *)
LEMMA InitProgress ==
    Init => TypeOK /\ Types /\ Progress /\ BufferIsNotOverrun
<1> SUFFICES ASSUME Init PROVE TypeOK /\ Types /\ Progress /\ BufferIsNotOverrun
  OBVIOUS
<1>1. TypeOK
  BY GrayFsAssumption, FieldFacts DEF Init, TypeOK, Hole
<1>2. Types
  BY FieldFacts DEF Init, Types
<1> QED
  BY <1>1, <1>2 DEF Init, Progress, BufferIsNotOverrun

(* The engine does not touch what a call has done so far.                  *)
LEMMA EngineProgress ==
    ASSUME TypeOK, Types, Progress, BufferIsNotOverrun, EngineNext
    PROVE  TypeOK' /\ Types' /\ Progress' /\ BufferIsNotOverrun'
<1>1. /\ list' \in Seq(Sectors) /\ fsize' \in Nat /\ version' \in Nat
      /\ Witness(list', fsize', version')
      /\ UNCHANGED <<complete, pc, call, attr, data>>
  BY EngineStep
<1>2. TypeOK'
  BY <1>1 DEF TypeOK, call, attr, data, Sectors
<1>3. seen' \in [list : SUBSET Seq(Sectors), fields : [FieldNames -> SUBSET Nat]]
  BY <1>1 DEF Types, Witness
<1>4. Types'
  BY <1>1, <1>3 DEF Types, call, attr, data
<1>5. Progress' /\ BufferIsNotOverrun'
  BY <1>1 DEF Progress, BufferIsNotOverrun, ToRead, call, attr, data
<1> QED
  BY <1>2, <1>4, <1>5

(* Every step of gray-fs and of FUSE keeps types and progress.             *)
LEMMA FsProgress ==
    ASSUME TypeOK, Types, Progress, BufferIsNotOverrun,
           \/ FsNext
           \/ Answered
           \/ \E o \in {"getattr", "read"}, off \in 0..MaxOffset, n \in 1..MaxSize :
                 Call(o, off, n)
    PROVE  TypeOK' /\ Types' /\ Progress' /\ BufferIsNotOverrun'
<1> USE Numbers
<1>1. ASSUME NEW o \in {"getattr", "read"}, NEW off \in 0..MaxOffset,
             NEW n \in 1..MaxSize, Call(o, off, n)
      PROVE  TypeOK' /\ Types' /\ Progress' /\ BufferIsNotOverrun'
  <2>1. seen' \in [list : SUBSET Seq(Sectors), fields : [FieldNames -> SUBSET Nat]]
    BY <1>1 DEF Call, Value, TypeOK, Types, Sectors
  <2>2. TypeOK'
    BY <1>1, FieldFacts DEF Call, TypeOK, file, data
  <2>3. Types'
    BY <1>1, <2>1 DEF Call, Types, file, data
  <2> QED
    BY <1>1, <2>2, <2>3 DEF Call, Progress, BufferIsNotOverrun, file, data
<1>2. CASE GetField
  <2>1. field' \in Nat /\ stat' \in [FieldNames -> Nat]
    BY <1>2, FieldFacts DEF GetField, Value, TypeOK, Types
  <2>2. TypeOK'
    BY <1>2, FieldFacts DEF GetField, TypeOK, file, call, data
  <2>3. Types'
    BY <1>2, <2>1 DEF GetField, Types, file, call, data
  <2> QED
    BY <1>2, <2>2, <2>3 DEF GetField, Progress, BufferIsNotOverrun, ToRead, file, call, data
<1>3. CASE EndAttr
  <2>1. stat["size"] \in Nat
    BY FieldFacts DEF Types
  <2>2. TypeOK' /\ Types'
    <3>1. size' \in Int
      BY <1>3, <2>1 DEF EndAttr, SizeCut, TypeOK, Types
    <3>2. pc' \in {"done", "range"}
      BY <1>3 DEF EndAttr
    <3>3. TypeOK'
      BY <1>3, <3>2 DEF EndAttr, TypeOK, file, attr
    <3>4. Types'
      BY <1>3, <3>1 DEF EndAttr, Types, file, attr
    <3> QED
      BY <3>3, <3>4
  <2>3. /\ error' = (op = "read" /\ offset > stat["size"])
        /\ pc' = IF op = "getattr" \/ error' THEN "done" ELSE "range"
        /\ size' = SizeCut
        /\ position' = 0 /\ buf' = <<>>
        /\ UNCHANGED <<op, offset, asked, stat>>
        /\ pc = "attr"
    BY <1>3 DEF EndAttr, attr
  <2>4. pc' \in {"done", "range"} /\ (pc' = "range" => ~error' /\ op # "getattr")
    BY <2>3
  <2>5. ~error' => ~(op = "read" /\ offset > stat["size"])
    BY <2>3, Zenon
  <2>6. offset = asked /\ size >= 0 /\ offset \in Nat /\ size \in Int /\ op \in {"getattr", "read"}
    BY <2>3 DEF Progress, TypeOK, Types
  <2>7. offset <= stat["size"] => SizeCut <= stat["size"] - offset
    BY <2>1, <2>6 DEF SizeCut
  <2>8. offset <= stat["size"] => SizeCut >= 0
    BY <2>1, <2>6 DEF SizeCut
  <2>9. op = "read" /\ ~error' => SizeCut >= 0 /\ asked + SizeCut <= stat["size"]
    <3> SUFFICES ASSUME op = "read", ~error'
                 PROVE  SizeCut >= 0 /\ asked + SizeCut <= stat["size"]
      OBVIOUS
    <3>1. offset <= stat["size"]
      BY <2>1, <2>5, <2>6
    <3>2. SizeCut \in Int
      BY <2>1, <2>6 DEF SizeCut
    <3> QED
      BY <2>1, <2>6, <2>7, <2>8, <3>1, <3>2
  <2>10. BufferIsNotOverrun'
    BY <2>3, <2>4, <2>9 DEF BufferIsNotOverrun
  <2>11. Progress'
    BY <2>3, <2>4, <2>6, <2>9 DEF Progress
  <2> QED
    BY <2>2, <2>10, <2>11
<1>4. CASE ReadRange
  <2>1. range' \in Seq(Sectors)
    <3> DEFINE start == offset \div Page
               last == IF RangeEnd(start) < Len(list) THEN RangeEnd(start) + 1
                       ELSE Len(list)
    <3>1. start \in Nat
      <4>1. offset \in Nat /\ Page \in Nat \ {0}
        BY DEF TypeOK
      <4> QED
        BY <4>1, DivMod, Zenon
    <3>2. RangeEnd(start) \in Nat
      <4>1. size \in Nat /\ Page \in Nat \ {0}
        BY <1>4 DEF ReadRange, Progress, Types
      <4>2. (size + Page - 1) \div Page \in Nat
        BY <4>1, RoundedUp
      <4> QED
        BY <3>1, <4>2 DEF RangeEnd
    <3>3. last \in Int /\ last <= Len(list)
      BY <3>2 DEF TypeOK
    <3>4. \A i \in (start + 1)..last : list[i] \in Sectors
      BY <3>1, <3>3 DEF TypeOK, Sectors
    <3>5. range' = SubSeq(list, start + 1, last)
      BY <1>4 DEF ReadRange
    <3> HIDE DEF start, last
    <3> QED
      BY <3>1, <3>3, <3>4, <3>5, SubSeqFacts
  <2>2. offset' \in 0..MaxOffset /\ offset' < BlockSize
    <3>1. offset \in Nat /\ BlockSize \in Nat \ {0} /\ offset <= MaxOffset
      BY DEF TypeOK
    <3>2. /\ offset % BlockSize \in 0..(BlockSize - 1)
          /\ offset % BlockSize <= offset
      BY <3>1, DivMod, Zenon
    <3> QED
      BY <1>4, <3>1, <3>2 DEF ReadRange, InBlock
  <2>3. TypeOK'
    BY <1>4, <2>2 DEF ReadRange, TypeOK, file, attr
  <2>4. Types'
    BY <1>4, <2>1 DEF ReadRange, Types, file, attr
  <2> QED
    BY <1>4, <2>3, <2>4 DEF ReadRange, Progress, BufferIsNotOverrun, Types, file, attr
<1>5. CASE BeginBlock
  <2>1. TypeOK'
    BY <1>5 DEF BeginBlock, TypeOK, file, call, attr
  <2>2. Types'
    BY <1>5 DEF BeginBlock, Types, file, call, attr
  <2> QED
    BY <1>5, <2>1, <2>2 DEF BeginBlock, Progress, BufferIsNotOverrun, ToRead,
                      TypeOK, Types, file, call, attr
<1>6. CASE ReadBlock
  <2>1. /\ ToRead \in Int /\ ToRead <= size - position
        /\ ToRead > 0 /\ readb \in Nat /\ readb <= ToRead
        /\ position \in Nat /\ range # <<>>
    BY <1>6, ToReadFacts DEF ReadBlock, Progress, TypeOK
  <2>2. /\ buf' \in Seq(Bytes)
        /\ Len(buf') <= size
    <3>1. ToRead - readb \in Nat /\ buf' = Write(buf, ToRead - readb, readb)
      BY <1>6, <2>1 DEF ReadBlock
    <3>2. Len(buf) <= size /\ Len(buf) \in Nat /\ size \in Int
      BY <1>6 DEF ReadBlock, Progress, Types
    <3>3. /\ buf' \in Seq(Bytes)
          /\ Len(buf') = IF position + (ToRead - readb) > Len(buf)
                         THEN position + (ToRead - readb) ELSE Len(buf)
      BY <2>1, <3>1, WriteFacts, Zenon
    <3> QED
      BY <2>1, <3>2, <3>3
  <2>3. range' \in Seq(Sectors)
    BY <1>6, <2>1 DEF ReadBlock, Types
  <2>4. TypeOK'
    BY <1>6, <2>1 DEF ReadBlock, TypeOK, file, attr
  <2>5. Types'
    BY <1>6, <2>2, <2>3 DEF ReadBlock, Types, file, attr
  <2> QED
    BY <1>6, <2>1, <2>2, <2>4, <2>5
       DEF ReadBlock, Progress, BufferIsNotOverrun, Types, file, attr
<1>7. CASE ReadShort
  <2>1. /\ ToRead \in Int /\ ToRead <= size - position
        /\ ToRead <= BlockSize - offset
        /\ ToRead > 0 /\ readb \in Nat /\ readb <= ToRead
        /\ position \in Nat /\ range # <<>> /\ offset \in Nat
    BY <1>7, ToReadFacts DEF ReadShort, Progress, TypeOK
  <2>2. /\ buf' \in Seq(Bytes)
        /\ Len(buf') <= size
    <3>1. buf' = Write(buf, 1, readb) /\ 1 \in Nat
      BY <1>7 DEF ReadShort
    <3>2. Len(buf) <= size /\ Len(buf) \in Nat /\ size \in Int
      BY <1>7 DEF ReadShort, Progress, Types
    <3>3. /\ buf' \in Seq(Bytes)
          /\ Len(buf') = IF position + 1 > Len(buf) THEN position + 1 ELSE Len(buf)
      BY <2>1, <3>1, WriteFacts, Zenon
    <3> QED
      BY <2>1, <3>2, <3>3
  <2>3. TypeOK'
    BY <1>7, <2>1 DEF ReadShort, TypeOK, file, call, attr
  <2>4. Types'
    BY <1>7, <2>2 DEF ReadShort, Types, file, call, attr
  <2>5. ToRead' = ToRead
    BY <1>7 DEF ReadShort, ToRead, call
  <2> QED
    BY <1>7, <2>1, <2>2, <2>3, <2>4, <2>5
       DEF ReadShort, Progress, BufferIsNotOverrun, Types, file, call, attr
<1>8. CASE ReadFails
  <2>1. TypeOK'
    BY <1>8 DEF ReadFails, TypeOK, file, attr
  <2>2. Types'
    BY <1>8 DEF ReadFails, Types, file, attr
  <2> QED
    BY <1>8, <2>1, <2>2 DEF ReadFails, Progress, BufferIsNotOverrun, file, attr
<1>9. CASE Return
  <2>1. TypeOK'
    BY <1>9 DEF Return, TypeOK, file, call, attr, data
  <2>2. Types'
    BY <1>9 DEF Return, Types, file, call, attr, data
  <2> QED
    BY <1>9, <2>1, <2>2 DEF Return, Progress, BufferIsNotOverrun, file, call, attr, data
<1>10. CASE Answered
  <2>1. TypeOK'
    BY <1>10, FieldFacts DEF Answered, TypeOK, file
  <2>2. Types'
    BY <1>10 DEF Answered, Types, file
  <2> QED
    BY <1>10, <2>1, <2>2 DEF Answered, Progress, BufferIsNotOverrun
<1> QED
  BY <1>1, <1>2, <1>3, <1>4, <1>5, <1>6, <1>7, <1>8, <1>9, <1>10 DEF FsNext

(* The fields when gray-fs starts: there is no call.                       *)
LEMMA InitAttributes == Init => Attributes /\ Covered
BY DEF Init, Attributes, Covered, Serving

(* What the engine did is added to what the call may have seen.            *)
LEMMA EngineAttributes ==
    ASSUME TypeOK, Types, Attributes, EngineNext
    PROVE  Attributes'
<1>1. /\ Witness(list', fsize', version')
      /\ UNCHANGED <<complete, pc, call, attr, data>>
  BY EngineStep
<1>2. ASSUME Serving
      PROVE  /\ list' \in seen'.list
             /\ \A f \in FieldNames : /\ Value(f)' \in seen'.fields[f]
                                      /\ seen.fields[f] \subseteq seen'.fields[f]
  BY <1>1, <1>2 DEF Serving, Witness, Types, Value
<1>3. ~Serving => seen' = seen
  BY <1>1 DEF Serving, Witness, TypeOK
<1>4. Serving' <=> Serving
  BY <1>1 DEF Serving
<1>5. \A k \in 1..(at - 1) : Fields[k] \in FieldNames
  BY FieldFacts DEF TypeOK
<1> QED
  BY <1>1, <1>2, <1>3, <1>4, <1>5 DEF Attributes, There, attr

(* A field that is there is taken from the file; the others stay.          *)
LEMMA GetFieldAttributes ==
    ASSUME TypeOK, Types, Attributes, GetField
    PROVE  Attributes'
<1> DEFINE f == Fields[at]
<1>1. /\ at \in 1..Len(Fields) /\ pc = "attr" /\ f \in FieldNames
      /\ at' = at + 1
      /\ UNCHANGED <<file, pc, seen>>
  BY FieldFacts DEF GetField, TypeOK
<1>2. ASSUME There(at)
      PROVE  len2' = 8 /\ stat' = [stat EXCEPT ![f] = Value(f)]
  <2>1. There(at - 1) /\ f \in complete
    BY <1>1, <1>2 DEF There
  <2>2. len2 = 8
    BY <1>1, <2>1 DEF Attributes
  <2> QED
    BY <2>1, <2>2 DEF GetField
<1>3. \A k \in 1..(at - 1) : stat'[Fields[k]] = stat[Fields[k]]
  <2> TAKE k \in 1..(at - 1)
  <2>1. Fields[k] # f /\ Fields[k] \in FieldNames
    BY <1>1, FieldFacts
  <2> QED
    BY <2>1 DEF GetField, Types
<1>4. Value(f) \in seen.fields[f]
  BY <1>1 DEF Attributes, Serving
<1>5. ASSUME NEW k \in 1..at, There(k)
      PROVE  stat'[Fields[k]] \in seen.fields[Fields[k]]
  <2>1. CASE k = at
    BY <1>1, <1>2, <1>4, <1>5, <2>1 DEF Types
  <2>2. CASE k < at
    BY <1>1, <1>3, <1>5, <2>2 DEF Attributes
  <2> QED
    BY <1>1, <2>1, <2>2
<1>6. There(at) => len2' = 8
  BY <1>2
<1>7. \A g \in FieldNames : Value(g)' = Value(g)
  BY <1>1 DEF Value, file
<1>8. \A k : There(k)' <=> There(k)
  BY <1>1 DEF There, file
<1> HIDE DEF f
<1> QED
  BY <1>1, <1>5, <1>6, <1>7, <1>8 DEF Attributes, Serving, file

(* Every other step of gray-fs and of FUSE keeps what was found of the     *)
(* fields.                                                                 *)
LEMMA FsAttributes ==
    ASSUME TypeOK, Types, Attributes,
           \/ FsNext
           \/ Answered
           \/ \E o \in {"getattr", "read"}, off \in 0..MaxOffset, n \in 1..MaxSize :
                 Call(o, off, n)
    PROVE  Attributes'
<1>1. ASSUME NEW o, NEW off, NEW n, Call(o, off, n) PROVE Attributes'
  <2>1. /\ pc' = "attr" /\ at' = 1 /\ len2' = 8
        /\ seen' = [list |-> {list}, fields |-> [f \in FieldNames |-> {Value(f)}]]
        /\ UNCHANGED file
    BY <1>1 DEF Call
  <2> QED
    BY <2>1 DEF Attributes, Serving, Value, file
<1>2. CASE GetField
  BY <1>2, GetFieldAttributes
<1>3. CASE EndAttr
  <2>1. /\ pc = "attr" /\ pc' \in {"done", "range"} /\ at = Len(Fields) + 1
        /\ UNCHANGED <<file, attr, seen>>
    BY <1>3, FieldFacts DEF EndAttr, TypeOK
  <2> QED
    BY <2>1 DEF Attributes, Serving, There, Value, file, attr
<1>4. CASE ReadRange \/ BeginBlock \/ ReadBlock \/ ReadShort \/ ReadFails \/ Return
  <2>1. /\ pc \in {"range", "block", "disk"} /\ pc' \in {"block", "disk", "done"}
        /\ UNCHANGED <<file, attr, seen>>
    BY <1>4 DEF ReadRange, BeginBlock, ReadBlock, ReadShort, ReadFails, Return
  <2> QED
    BY <2>1 DEF Attributes, Serving, There, Value, file, attr
<1>5. CASE Answered
  BY <1>5 DEF Answered, Attributes, Serving
<1> QED
  BY <1>1, <1>2, <1>3, <1>4, <1>5 DEF FsNext

(* More blocks hold no less.                                               *)
LEMMA MoreBlocks ==
    ASSUME NEW b \in Nat, NEW j \in Nat, NEW k \in Nat, j <= k
    PROVE  j * b <= k * b
OBVIOUS

(* Blocks before, blocks behind and one more.                              *)
LEMMA BlocksAdd ==
    ASSUME NEW b \in Nat, NEW j \in Nat, NEW k \in Nat
    PROVE  (j + k + 1) * b = j * b + k * b + b
OBVIOUS

(* A list that covers a size has blocks for it.                            *)
LEMMA CoversFacts ==
    ASSUME NEW l, Len(l) \in Nat, NEW n \in Nat, Covers(l, n)
    PROVE  Len(l) * BlockSize >= n
BY Numbers, Enough DEF Covers, BlockCount

(* The list covers what it covered, whatever the engine does.              *)
LEMMA EngineCovered ==
    ASSUME TypeOK, Types, Covered, EngineNext
    PROVE  Covered'
<1>1. /\ list' \in Seq(Sectors) /\ Len(list') >= Len(list) /\ fsize' \in Nat
      /\ Witness(list', fsize', version')
      /\ UNCHANGED <<complete, pc, call, attr, data>>
  BY EngineStep
<1>2. Len(list) \in Nat /\ Len(list') \in Nat /\ stat["size"] \in Nat
  BY <1>1, FieldFacts DEF TypeOK, Types
<1>3. ~behind' => ~behind /\ Covers(list', fsize')
  BY <1>1, Zenon DEF Witness
<1>4. ~behind' => Len(list') * BlockSize >= fsize'
  BY <1>1, <1>2, <1>3, CoversFacts
<1>5. Len(list) * BlockSize <= Len(list') * BlockSize
  BY <1>1, <1>2, MoreBlocks, Numbers
<1>6. Len(list) * BlockSize \in Int /\ Len(list') * BlockSize \in Int
  BY <1>2, Numbers
<1>7. UNCHANGED <<at, stat, pc>>
  BY <1>1 DEF attr
<1> QED
  BY <1>2, <1>3, <1>4, <1>5, <1>6, <1>7 DEF Covered, Serving

(* The size that getattr finds is one the list covers.                     *)
LEMMA FsCovered ==
    ASSUME TypeOK, Types, Attributes, Covered,
           \/ FsNext
           \/ Answered
           \/ \E o \in {"getattr", "read"}, off \in 0..MaxOffset, n \in 1..MaxSize :
                 Call(o, off, n)
    PROVE  Covered'
<1>1. ASSUME NEW o, NEW off, NEW n, Call(o, off, n) PROVE Covered'
  <2>1. Len(list) \in Nat /\ fsize \in Nat
    BY DEF TypeOK
  <2>2. at' = 1 /\ behind' = ~Covers(list, fsize) /\ UNCHANGED <<list, fsize>>
    BY <1>1 DEF Call, file
  <2>3. ~behind' => Len(list') * BlockSize >= fsize'
    BY <2>1, <2>2, CoversFacts, Zenon
  <2> QED
    BY <2>2, <2>3 DEF Covered
<1>2. CASE GetField
  <2>1. /\ at \in 1..Len(Fields) /\ pc = "attr" /\ at' = at + 1
        /\ UNCHANGED <<file, pc, behind>>
        /\ stat \in [FieldNames -> Nat]
    BY <1>2, FieldFacts DEF GetField, TypeOK, Types
  <2>2. CASE at = 1
    <3>1. There(at - 1) /\ "size" \in complete
      BY <2>2, GrayFsAssumption DEF There, Types
    <3>2. len2 = 8 /\ Fields[at] = "size"
      BY <2>1, <2>2, <3>1, FieldFacts DEF Attributes
    <3>3. stat'["size"] = fsize
      BY <1>2, <2>1, <3>1, <3>2, FieldFacts DEF GetField, Value
    <3> QED
      BY <2>1, <3>3 DEF Covered, Serving, file
  <2>3. CASE at # 1
    <3>1. Fields[at] # "size"
      BY <2>1, <2>3, FieldFacts
    <3>2. stat'["size"] = stat["size"]
      BY <1>2, <2>1, <3>1, FieldFacts DEF GetField
    <3> QED
      BY <2>1, <2>3, <3>2 DEF Covered, Serving, file
  <2> QED
    BY <2>2, <2>3
<1>3. CASE EndAttr \/ ReadRange \/ BeginBlock \/ ReadBlock \/ ReadShort \/ ReadFails
           \/ Return
  <2>1. Serving /\ UNCHANGED <<file, attr, behind>>
    BY <1>3 DEF EndAttr, ReadRange, BeginBlock, ReadBlock, ReadShort, ReadFails,
                Return, Serving
  <2> QED
    BY <2>1 DEF Covered, file, attr
<1>4. CASE Answered
  BY <1>4, Zenon DEF Answered, Covered, Serving
<1> QED
  BY <1>1, <1>2, <1>3, <1>4 DEF FsNext

(* When gray-fs starts nothing has been read.                              *)
LEMMA InitReads == Init => Reads
BY DEF Init, Reads, BytesAreInPlace, ReadIsComplete

(* The lists a call has seen stay seen, and a list once behind stays so.   *)
LEMMA EngineReads ==
    ASSUME TypeOK, Types, Reads, EngineNext
    PROVE  Reads'
<1>1. /\ Witness(list', fsize', version')
      /\ UNCHANGED <<complete, pc, call, attr, data>>
  BY EngineStep
<1>2. seen.list \subseteq seen'.list
  BY <1>1 DEF Witness, Types
<1>3. ~behind' => ~behind
  BY <1>1, Zenon DEF Witness
<1>4. \A i \in 1..position : InPlace(i) => InPlace(i)'
  BY <1>1, <1>2 DEF InPlace, call, data
<1>5. \A q, l : Ahead(q, l) => Ahead(q, l)'
  BY <1>1, <1>3 DEF Ahead, call, data
<1> QED
  BY <1>1, <1>2, <1>3, <1>4, <1>5
     DEF Reads, BytesAreInPlace, ReadIsComplete, call, data

(* The range that is read begins with the block of the first byte, and     *)
(* reaches past the last one if the list does.                             *)
LEMMA ReadRangeReads ==
    ASSUME TypeOK, Types, Progress, Attributes, Covered, Reads, ReadRange
    PROVE  Reads'
<1> DEFINE start == offset \div BlockSize
           last == IF start + ((size + BlockSize - 1) \div BlockSize) < Len(list)
                   THEN start + ((size + BlockSize - 1) \div BlockSize) + 1
                   ELSE Len(list)
<1>1. /\ pc = "range" /\ pc' = "block" /\ position = 0 /\ buf = <<>>
      /\ offset = asked /\ size \in Nat /\ asked + size <= stat["size"]
      /\ offset' = offset % BlockSize
      /\ UNCHANGED <<asked, size, position, buf, shorts, seen, behind>>
  BY DEF ReadRange, Progress, Types, InBlock
<1>2. offset \in Nat /\ BlockSize \in Nat \ {0} /\ Len(list) \in Nat
      /\ stat["size"] \in Nat
  BY Numbers, FieldFacts DEF TypeOK, Types
<1>3. /\ start \in Nat
      /\ offset' \in 0..(BlockSize - 1)
      /\ asked + position = start * BlockSize + offset'
  <2>1. /\ offset \div BlockSize \in Nat
        /\ offset % BlockSize \in 0..(BlockSize - 1)
        /\ offset = (offset \div BlockSize) * BlockSize + (offset % BlockSize)
    BY <1>2, DivMod, Zenon
  <2> QED
    BY <1>1, <1>2, <2>1
<1>4. /\ (size + BlockSize - 1) \div BlockSize \in Nat
      /\ ((size + BlockSize - 1) \div BlockSize) * BlockSize >= size
  BY <1>1, <1>2, RoundedUp
<1>5. last \in Nat /\ last <= Len(list)
  BY <1>2, <1>3, <1>4
<1>6. ASSUME BlockSize = Page, position < size
      PROVE  \E q \in Nat : \E l \in seen'.list : Ahead(q, l)'
  <2>1. range' = SubSeq(list, start + 1, last)
    BY <1>6 DEF ReadRange, RangeEnd
  <2>2. \A i \in (start + 1)..last : list[i] \in Sectors
    BY <1>2, <1>3, <1>5 DEF TypeOK, Sectors
  <2>3. /\ Len(range') = IF start + 1 <= last THEN last - start ELSE 0
        /\ \A j \in 1..(last - start) : range'[j] = list[start + j]
    <3> HIDE DEF start, last
    <3>1. start + 1 \in Int /\ last \in Int
      BY <1>3, <1>5
    <3>2. /\ Len(range') = IF start + 1 <= last THEN last - (start + 1) + 1 ELSE 0
          /\ \A j \in 1..(last - (start + 1) + 1) :
                range'[j] = list[(start + 1) + j - 1]
      BY <2>1, <2>2, <3>1, SubSeqFacts
    <3>3. last - (start + 1) + 1 = last - start
          /\ \A j \in Nat : (start + 1) + j - 1 = start + j
      BY <1>3, <1>5
    <3> QED
      BY <3>2, <3>3
  <2>4. ASSUME NEW j \in 1..Len(range')
        PROVE  start + j \in DOMAIN list /\ range'[j] = list[start + j]
    BY <1>3, <1>5, <2>3 DEF TypeOK
  <2>5. ASSUME ~behind
        PROVE  (start + Len(range')) * BlockSize >= asked + size
    <3> DEFINE blocks == (size + BlockSize - 1) \div BlockSize
    <3>1. /\ start + Len(range') \in Nat
          /\ last <= start + Len(range')
      BY <1>3, <1>5, <2>3
    <3>2. last * BlockSize <= (start + Len(range')) * BlockSize
      BY <1>2, <1>5, <3>1, MoreBlocks
    <3>3. CASE last = Len(list)
      <4>1. Len(list) * BlockSize >= stat["size"]
        BY <1>1, <2>5, FieldFacts DEF Covered, Attributes, Serving
      <4>2. /\ last * BlockSize \in Int
            /\ (start + Len(range')) * BlockSize \in Int
            /\ asked + size \in Int
        BY <1>1, <1>2, <1>5, <3>1
      <4> HIDE DEF start, last
      <4> QED
        BY <1>1, <1>2, <3>2, <3>3, <4>1, <4>2
    <3>4. CASE last = start + blocks + 1
      <4>1. (start + blocks + 1) * BlockSize =
               start * BlockSize + blocks * BlockSize + BlockSize
        BY <1>2, <1>3, <1>4, BlocksAdd, Zenon
      <4> QED
        BY <1>1, <1>2, <1>3, <1>4, <3>1, <3>2, <3>4, <4>1
    <3> QED
      BY <3>3, <3>4
  <2>6. PICK q \in Nat : q = start
    BY <1>3
  <2>7. PICK l \in seen'.list : l = list
    BY <1>1 DEF Attributes, Serving
  <2> HIDE DEF start, last
  <2>8. Ahead(q, l)'
    BY <1>1, <1>3, <2>4, <2>5, <2>6, <2>7 DEF Ahead
  <2> QED
    BY <2>8
<1> QED
  BY <1>1, <1>6 DEF Reads, BytesAreInPlace, ReadIsComplete

(* A block that is read whole puts the bytes of the file behind the ones   *)
(* that are there, and the next block is that of the next byte.            *)
LEMMA ReadBlockReads ==
    ASSUME TypeOK, Types, Progress, Reads, ReadBlock
    PROVE  Reads'
<1>1. /\ pc = "disk" /\ pc' = "block" /\ position < size /\ ToRead > 0
      /\ range # <<>> /\ range' = Tail(range)
      /\ position' = position + ToRead /\ offset' = 0
      /\ buf' = Write(buf, ToRead - readb, readb)
      /\ UNCHANGED <<asked, size, shorts, seen, behind>>
  <2>1. ToRead <= size - position /\ ToRead \in Int
    BY ToReadFacts DEF ReadBlock
  <2> QED
    BY <2>1 DEF ReadBlock, Progress, TypeOK, Types
<1>2. /\ ToRead \in Int /\ ToRead <= size - position
      /\ ToRead <= BlockSize - offset
      /\ ToRead = size - position \/ ToRead = BlockSize - offset
  BY <1>1, ToReadFacts
<1>3. /\ offset \in Nat /\ offset < BlockSize /\ position \in Nat /\ size \in Int
      /\ asked \in Nat /\ BlockSize \in Nat \ {0}
  BY <1>1, Numbers DEF TypeOK, Types
<1>4. ASSUME shorts = 0
      PROVE  /\ position' <= Len(buf')
             /\ \A i \in 1..position : buf'[i] = buf[i]
             /\ \A i \in (position + 1)..position' :
                   buf'[i] = DiskByte(i - position - 1)
  <2>1. readb = 0 /\ position <= Len(buf) /\ Len(buf) \in Nat
    BY <1>1, <1>4 DEF Progress, Reads, Types
  <2>2. buf' = Write(buf, ToRead, 0) /\ ToRead \in Nat
    BY <1>1, <1>2, <2>1
  <2>3. /\ Len(buf') = IF position + ToRead > Len(buf) THEN position + ToRead
                       ELSE Len(buf)
        /\ \A i \in 1..position : i <= Len(buf) => buf'[i] = buf[i]
        /\ \A i \in (position + 1)..(position + ToRead) :
              buf'[i] = DiskByte(0 + i - position - 1)
    BY <1>1, <2>2, WriteFacts
  <2> QED
    BY <1>1, <1>2, <1>3, <2>1, <2>3
<1>5. ASSUME BlockSize = Page, shorts = 0, NEW i \in 1..position'
      PROVE  InPlace(i)'
  <2>1. CASE i <= position
    <3>1. i \in 1..position /\ InPlace(i)
      BY <1>3, <1>5, <2>1 DEF Reads, BytesAreInPlace
    <3> QED
      BY <1>1, <1>4, <1>5, <3>1, Zenon DEF InPlace
  <2>2. CASE i > position
    <3>1. PICK q \in Nat : \E l \in seen.list : Ahead(q, l)
      BY <1>1, <1>5 DEF Reads
    <3>2. PICK l \in seen.list : Ahead(q, l)
      BY <3>1
    <3> DEFINE r == offset + (i - position - 1)
    <3>3. r \in 0..(BlockSize - 1) /\ asked + i - 1 = q * BlockSize + r
      BY <1>1, <1>2, <1>3, <2>2, <3>2 DEF Ahead
    <3>4. (asked + i - 1) \div BlockSize = q /\ (asked + i - 1) % BlockSize = r
      <4> HIDE DEF r
      <4>1. (q * BlockSize + r) \div BlockSize = q /\ (q * BlockSize + r) % BlockSize = r
        BY <1>3, <3>3, DivUnique
      <4> QED
        BY <3>3, <4>1
    <3>5. q + 1 \in DOMAIN l /\ Head(range) = l[q + 1]
      BY <1>1, <3>2, TailFacts DEF Ahead, Types
    <3>6. buf'[i] = IF l[q + 1] = Hole THEN Zero ELSE <<l[q + 1], r>>
      <4>1. buf'[i] = DiskByte(i - position - 1)
        BY <1>1, <1>2, <1>3, <1>4, <1>5, <2>2
      <4> QED
        BY <3>5, <4>1 DEF DiskByte
    <3> HIDE DEF r
    <3> QED
      BY <1>1, <3>2, <3>4, <3>5, <3>6, Zenon DEF InPlace
  <2> QED
    BY <1>1, <1>2, <1>3, <2>1, <2>2
<1>6. ASSUME BlockSize = Page, position' < size
      PROVE  \E q \in Nat : \E l \in seen'.list : Ahead(q, l)'
  <2>1. PICK q \in Nat : \E l \in seen.list : Ahead(q, l)
    BY <1>1, <1>6 DEF Reads
  <2>2. PICK l \in seen.list : Ahead(q, l)
    BY <2>1
  <2>3. asked + position' = (q + 1) * BlockSize + offset'
    BY <1>1, <1>2, <1>3, <1>6, <2>2 DEF Ahead
  <2>4. /\ Len(range) \in Nat \ {0}
        /\ Len(range') = Len(range) - 1
        /\ \A j \in 1..Len(range') : range'[j] = range[j + 1]
    BY <1>1, TailFacts DEF Types
  <2>5. \A j \in 1..Len(range') : (q + 1) + j \in DOMAIN l /\ range'[j] = l[(q + 1) + j]
    <3> TAKE j \in 1..Len(range')
    <3>1. j + 1 \in 1..Len(range) /\ q + (j + 1) = (q + 1) + j
      BY <2>4
    <3> QED
      BY <2>2, <2>4, <3>1 DEF Ahead
  <2>6. (q + 1) + Len(range') = q + Len(range)
    BY <2>4
  <2>7. Ahead(q + 1, l)'
    BY <1>1, <2>2, <2>3, <2>5, <2>6 DEF Ahead
  <2>8. q + 1 \in Nat /\ l \in seen'.list
    BY <1>1
  <2> QED
    BY <2>7, <2>8
<1> QED
  BY <1>1, <1>4, <1>5, <1>6 DEF Reads, BytesAreInPlace, ReadIsComplete

(* Every step of gray-fs and of FUSE keeps what is known of the reads.     *)
LEMMA FsReads ==
    ASSUME TypeOK, Types, Progress, Attributes, Covered, Reads,
           \/ FsNext
           \/ Answered
           \/ \E o \in {"getattr", "read"}, off \in 0..MaxOffset, n \in 1..MaxSize :
                 Call(o, off, n)
    PROVE  Reads'
<1>1. ASSUME NEW o, NEW off, NEW n, Call(o, off, n) PROVE Reads'
  <2>1. position' = 0 /\ buf' = buf /\ pc' = "attr"
    BY <1>1 DEF Call, Progress, data
  <2> QED
    BY <2>1 DEF Reads, BytesAreInPlace, ReadIsComplete, Types
<1>2. CASE GetField
  <2>1. pc' = "attr" /\ UNCHANGED <<call, data, seen>>
    BY <1>2 DEF GetField
  <2> QED
    BY <2>1 DEF Reads, BytesAreInPlace, ReadIsComplete, InPlace, call, data
<1>3. CASE EndAttr
  <2>1. /\ position' = 0 /\ buf' = <<>> /\ pc' \in {"done", "range"}
        /\ pc' = "done" => op' = "getattr" \/ error'
    BY <1>3 DEF EndAttr
  <2> QED
    BY <2>1 DEF Reads, BytesAreInPlace, ReadIsComplete
<1>4. CASE ReadRange
  BY <1>4, ReadRangeReads
<1>5. CASE BeginBlock
  <2>1. /\ pc = "block" /\ pc' = "disk"
        /\ UNCHANGED <<call, range, position, buf, shorts, seen, behind>>
    BY <1>5 DEF BeginBlock
  <2> QED
    BY <2>1 DEF Reads, BytesAreInPlace, ReadIsComplete, InPlace, Ahead, call
<1>6. CASE ReadBlock
  BY <1>6, ReadBlockReads
<1>7. CASE ReadShort
  <2>1. /\ pc = "disk" /\ shorts' # 0
        /\ UNCHANGED <<call, pc, range, position, seen, behind>>
    BY <1>7 DEF ReadShort, Types
  <2> QED
    BY <2>1, Zenon DEF Reads, BytesAreInPlace, ReadIsComplete, Ahead, call
<1>8. CASE ReadFails
  <2>1. pc' = "done" /\ error' /\ shorts' # 0
    BY <1>8 DEF ReadFails, Types
  <2> QED
    BY <2>1 DEF Reads, BytesAreInPlace, ReadIsComplete
<1>9. CASE Return
  <2>1. /\ pc = "block" /\ pc' = "done" /\ (range = <<>> \/ ToRead <= 0)
        /\ UNCHANGED <<call, data, seen, behind>>
    BY <1>9 DEF Return
  <2>2. ASSUME BlockSize = Page, ~behind
        PROVE  position = size
    <3>1. /\ position <= size /\ position \in Nat /\ size \in Int
          /\ offset \in Nat /\ asked \in Nat /\ BlockSize \in Nat \ {0}
      BY <2>1, Numbers DEF Progress, TypeOK, Types
    <3>2. ASSUME position < size PROVE FALSE
      <4>1. ToRead > 0
        BY <2>1, <3>1, <3>2, ToReadFacts
      <4>2. range = <<>> /\ Len(range) = 0
        BY <2>1, <4>1, ToReadFacts
      <4>3. PICK q \in Nat : \E l \in seen.list : Ahead(q, l)
        BY <2>1, <2>2, <3>2 DEF Reads
      <4>4. /\ asked + position = q * BlockSize + offset
            /\ (q + 0) * BlockSize >= asked + size
        BY <2>2, <4>2, <4>3 DEF Ahead
      <4> QED
        BY <3>1, <3>2, <4>4
    <3> QED
      BY <3>1, <3>2
  <2> QED
    BY <2>1, <2>2
       DEF Reads, BytesAreInPlace, ReadIsComplete, InPlace, call, data
<1>10. CASE Answered
  <2>1. position' = 0 /\ buf' = <<>> /\ pc' = "idle"
    BY <1>10 DEF Answered
  <2> QED
    BY <2>1 DEF Reads, BytesAreInPlace, ReadIsComplete
<1> QED
  BY <1>1, <1>2, <1>3, <1>4, <1>5, <1>6, <1>7, <1>8, <1>9, <1>10 DEF FsNext

----------------------------------------------------------------------------
(* IInv holds when gray-fs starts.                                         *)
LEMMA InitIInv == Init => IInv
BY InitProgress, InitAttributes, InitReads DEF IInv

(* Every step keeps IInv.                                                  *)
LEMMA NextIInv == ASSUME IInv, [Next]_vars PROVE IInv'
<1>1. CASE EngineNext
  BY <1>1, EngineProgress, EngineAttributes, EngineCovered, EngineReads DEF IInv
<1>2. CASE \/ FsNext
           \/ Answered
           \/ \E o \in {"getattr", "read"}, off \in 0..MaxOffset, n \in 1..MaxSize :
                 Call(o, off, n)
  BY <1>2, FsProgress, FsAttributes, FsCovered, FsReads DEF IInv
<1>3. CASE UNCHANGED vars
  <2>1. /\ UNCHANGED <<fsize, version, complete, list, changes, pc>>
        /\ UNCHANGED <<op, offset, asked, size, error, at, field, len2, stat>>
        /\ UNCHANGED <<range, position, readb, buf, shorts, seen, behind>>
    BY <1>3 DEF vars, file, call, attr, data
  <2>2. TypeOK' /\ Types' /\ Progress' /\ BufferIsNotOverrun'
    BY <2>1 DEF IInv, TypeOK, Types, Progress, BufferIsNotOverrun, ToRead
  <2>3. Attributes' /\ Covered'
    BY <2>1 DEF IInv, Attributes, Covered, Serving, There, Value
  <2>4. Reads'
    BY <2>1 DEF IInv, Reads, BytesAreInPlace, ReadIsComplete, InPlace, Ahead
  <2> QED
    BY <2>2, <2>3, <2>4 DEF IInv
<1> QED
  BY <1>1, <1>2, <1>3 DEF Next

(* Whatever the size of blocks and the changes of the engine, a read       *)
(* writes no more than FUSE asked for (gammarayfs_read).                   *)
THEOREM BufferKept == Spec => []BufferIsNotOverrun
<1>1. IInv => BufferIsNotOverrun
  BY DEF IInv
<1> QED
  BY InitIInv, NextIInv, <1>1, PTL DEF Spec

(* When a block is as long as the page that gammarayfs_read computes with, *)
(* and whatever the engine changes meanwhile, a read serves each byte from *)
(* its place in the file, as long as no read of the disk was short; and    *)
(* all that was asked for, if the list covered the size all the time.      *)
THEOREM ReadsServe == ASSUME BlockSize = Page PROVE Spec => []ReadServesTheFile
<1>1. IInv => ReadServesTheFile
  BY DEF IInv, Reads, ReadServesTheFile
<1> QED
  BY InitIInv, NextIInv, <1>1, PTL DEF Spec

(* Each field that getattr returns, up to the first one that is missing,   *)
(* is one the file had during the call (gammarayfs_getattr).               *)
THEOREM FieldsOwn == Spec => []FieldsAreTheirOwn
<1>1. IInv => FieldsAreTheirOwn
  BY FieldFacts DEF IInv, Attributes, There, FieldsAreTheirOwn
<1> QED
  BY InitIInv, NextIInv, <1>1, PTL DEF Spec
=============================================================================
