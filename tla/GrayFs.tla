------------------------------- MODULE GrayFs -------------------------------
(***************************************************************************)
(* gray-fs: a FUSE file system that serves the files of the guest from     *)
(* what the engine keeps in Redis and from the disk image.  The engine     *)
(* goes on meanwhile: when a file grows it sets the size first and appends *)
(* to the list of blocks later (__diff_inodes), and it replaces blocks.    *)
(* Every field and every list that gray-fs reads is a command of its own,  *)
(* so that the engine may change the file between any two of them.         *)
(*                                                                         *)
(* One file; a byte of the disk is named by its block and its place in it. *)
(***************************************************************************)
EXTENDS Integers, Sequences

CONSTANTS BlockSize,    \* block_size, read when gray-fs starts
          Page,         \* the 4096 of gammarayfs_read
          Blocks,       \* blocks of the disk, as sector numbers
          Missing,      \* blocks of these that lie behind its end
          Size0, List0, \* the file at first
          Fields,       \* the fields of getattr in order, size first
          Kinds,        \* the fields a file of a kind has
          MaxOffset, MaxSize,   \* bounds: what is asked for
          MaxChanges,   \* bound: changes of the engine
          MaxShort      \* bound: reads of the disk that fail or return less

ASSUME GrayFsAssumption ==
    /\ BlockSize \in Nat \ {0}
    /\ Page \in Nat \ {0}
    /\ Size0 \in Nat
    /\ List0 \in Seq(Blocks \cup {-1})
    /\ Missing \subseteq Blocks
    /\ MaxOffset \in Nat /\ MaxSize \in Nat
    /\ Fields \in Seq(STRING) /\ Fields # <<>> /\ Fields[1] = "size"
    /\ \A i, j \in DOMAIN Fields : Fields[i] = Fields[j] => i = j
    /\ \A k \in Kinds : "size" \in k

Hole == -1
Zero == <<Hole, 0>>
Unset == <<Hole, 1>>     \* what FUSE left in the buffer

VARIABLES
    fsize,      \* file:<f> size
    version,    \* file:<f>, the other fields
    complete,   \* the fields the file has
    list,       \* filesectors:<f>
    pc,         \* "idle", "attr", "range", "block", "disk", "done"
    op,         \* what is served: "getattr" or "read"
    offset,     \* offset of the read, then within the block
    asked,      \* history: the offset asked for
    size,       \* bytes to read
    at,         \* next field of getattr
    field,      \* local field
    len2,       \* local len2: room for a field, 0 after a missing one
    stat,       \* stbuf
    range,      \* blocks left of the list read
    position,   \* bytes served
    readb,      \* bytes read of the block
    buf,        \* the buffer
    seen,       \* history: values fields and list had during the call
    behind,     \* history: the list did not cover the size
    shorts,     \* reads of the disk that failed or returned less
    error,      \* -EINVAL is returned
    changes     \* changes of the engine

file == <<fsize, version, complete, list, changes>>
call == <<op, offset, asked, size, error>>
attr == <<at, field, len2, stat>>
data == <<range, position, readb, buf, shorts>>
vars == <<file, pc, call, attr, data, seen, behind>>

FieldNames == {Fields[i] : i \in DOMAIN Fields}
BlockCount(n) == (n + BlockSize - 1) \div BlockSize
Covers(l, n) == Len(l) >= BlockCount(n)
Value(f) == IF f = "size" THEN fsize ELSE version

Init ==
    /\ fsize = Size0 /\ version = 100 /\ list = List0
    /\ complete \in Kinds
    /\ changes = 0
    /\ pc = "idle" /\ op = "getattr"
    /\ offset = 0 /\ asked = 0 /\ size = 0
    /\ at = 1 /\ field = 0 /\ len2 = 0
    /\ stat = [f \in FieldNames |-> 0]
    /\ range = <<>> /\ position = 0 /\ readb = 0 /\ buf = <<>>
    /\ shorts = 0 /\ error = FALSE
    /\ seen = [list |-> {}, fields |-> [f \in FieldNames |-> {}]]
    /\ behind = FALSE

----------------------------------------------------------------------------
(* The engine, whose changes are seen by the call that is being served.    *)
Witness(l, n, v) ==
    /\ seen' = IF pc \in {"idle", "done"} THEN seen
               ELSE [list |-> seen.list \cup {l},
                     fields |-> [f \in FieldNames |->
                        seen.fields[f] \cup {IF f = "size" THEN n ELSE v}]]
    /\ behind' = (behind \/ ~Covers(l, n))

EngineSetsSize(n) ==
    /\ changes < MaxChanges
    /\ fsize' = n
    /\ Witness(list, n, version)
    /\ changes' = changes + 1
    /\ UNCHANGED <<version, complete, list, pc, call, attr, data>>

EngineSetsFields ==
    /\ changes < MaxChanges
    /\ version' = version + 1
    /\ Witness(list, fsize, version')
    /\ changes' = changes + 1
    /\ UNCHANGED <<fsize, complete, list, pc, call, attr, data>>

EngineAppends(s) ==
    /\ changes < MaxChanges
    /\ list' = Append(list, s)
    /\ Witness(list', fsize, version)
    /\ changes' = changes + 1
    /\ UNCHANGED <<fsize, version, complete, pc, call, attr, data>>

EngineReplaces(i, s) ==
    /\ changes < MaxChanges
    /\ list' = [list EXCEPT ![i] = s]
    /\ Witness(list', fsize, version)
    /\ changes' = changes + 1
    /\ UNCHANGED <<fsize, version, complete, pc, call, attr, data>>

----------------------------------------------------------------------------
(* FUSE calls gammarayfs_getattr or gammarayfs_read, which calls it first. *)
Call(o, off, n) ==
    /\ pc = "idle"
    /\ pc' = "attr"
    /\ op' = o
    /\ offset' = off /\ asked' = off
    /\ size' = n
    /\ error' = FALSE
    /\ at' = 1
    /\ len2' = 8
    /\ field' = 0
    /\ stat' = [f \in FieldNames |-> 0]
    /\ seen' = [list |-> {list},
                fields |-> [f \in FieldNames |-> {Value(f)}]]
    /\ behind' = ~Covers(list, fsize)
    /\ UNCHANGED <<file, data>>

(* redis_hash_field_get: a field that is not there leaves field as it was  *)
(* and sets len2 to 0, for which every later field is too long.  (Faulty   *)
(* variant: one command early.)                                            *)
GetFieldStale ==
    /\ pc = "attr"
    /\ at <= Len(Fields)
    /\ field' = Value(Fields[at])
    /\ stat' = [stat EXCEPT ![Fields[at]] = field]
    /\ at' = at + 1
    /\ UNCHANGED <<file, pc, call, len2, data, seen, behind>>
GetField ==
    /\ pc = "attr"
    /\ at <= Len(Fields)
    /\ LET f == Fields[at]
           there == f \in complete /\ len2 > 0
       IN  /\ field' = IF there THEN Value(f) ELSE field
           /\ len2' = IF there THEN 8 ELSE 0
           /\ stat' = [stat EXCEPT ![f] = field']
    /\ at' = at + 1
    /\ UNCHANGED <<file, pc, call, data, seen, behind>>

(* The end of getattr; a read behind the end of the file fails, one across *)
(* it is cut.                                                              *)
SizeCut == IF offset + size > stat["size"] THEN stat["size"] - offset ELSE size
EndAttr ==
    /\ pc = "attr"
    /\ at > Len(Fields)
    /\ error' = (op = "read" /\ offset > stat["size"])
    /\ pc' = IF op = "getattr" \/ error' THEN "done" ELSE "range"
    /\ size' = SizeCut
    /\ position' = 0 /\ buf' = <<>> /\ readb' = 0 /\ range' = <<>>
    /\ UNCHANGED <<file, op, offset, asked, attr, shorts, seen, behind>>

(* LRANGE, whose last index is inclusive: the indices count pages, the     *)
(* list has one entry for each block.                                      *)
RangeEnd(start) == start + ((size + Page - 1) \div Page)
InBlock == offset % BlockSize
ReadRange ==
    /\ pc = "range"
    /\ LET start == offset \div Page
           end == RangeEnd(start)
       IN  range' = SubSeq(list, start + 1, IF end < Len(list) THEN end + 1
                                            ELSE Len(list))
    /\ offset' = InBlock
    /\ pc' = "block"
    /\ UNCHANGED <<file, op, asked, size, error, attr, position, readb, buf, shorts,
                   seen, behind>>

(* How much of the next block is served.                                   *)
ToRead == IF BlockSize - offset > size - position THEN size - position
          ELSE BlockSize - offset

BeginBlock ==
    /\ pc = "block"
    /\ range # <<>>
    /\ ToRead > 0
    /\ readb' = 0
    /\ pc' = "disk"
    /\ UNCHANGED <<file, call, attr, range, position, buf, shorts, seen, behind>>

(* A byte of the block at the head of the range.  (Faulty variant: lseek   *)
(* to the start of the block.)                                             *)
DiskByteOfBlock(i) == IF Head(range) = Hole THEN Zero ELSE <<Head(range), i>>
DiskByte(i) == IF Head(range) = Hole THEN Zero ELSE <<Head(range), offset + i>>
Write(b, n, from) ==
    [i \in 1..(IF position + n > Len(b) THEN position + n ELSE Len(b)) |->
        IF i > position /\ i <= position + n THEN DiskByte(from + i - position - 1)
        ELSE IF i \in DOMAIN b THEN b[i] ELSE Unset]

(* The block is read, or cleared if it is a hole.  (Faulty variant: a hole *)
(* is waited for like a block.)                                            *)
ReadBlockOnly ==
    /\ pc = "disk"
    /\ Head(range) \notin Missing \cup {Hole}
    /\ buf' = Write(buf, ToRead - readb, readb)
    /\ position' = position + ToRead
    /\ readb' = 0
    /\ offset' = 0
    /\ range' = Tail(range)
    /\ pc' = "block"
    /\ UNCHANGED <<file, op, asked, size, error, attr, shorts, seen, behind>>
ReadBlock ==
    /\ pc = "disk"
    /\ Head(range) \notin Missing
    /\ buf' = Write(buf, ToRead - readb, readb)
    /\ position' = position + ToRead
    /\ readb' = 0
    /\ offset' = 0
    /\ range' = Tail(range)
    /\ pc' = "block"
    /\ UNCHANGED <<file, op, asked, size, error, attr, shorts, seen, behind>>

(* A read that returns less: the next one goes on in the disk, but to the  *)
(* same place of the buffer.                                               *)
ReadShort ==
    /\ pc = "disk"
    /\ Head(range) \notin Missing \cup {Hole}
    /\ shorts < MaxShort
    /\ ToRead - readb > 1
    /\ buf' = Write(buf, 1, readb)
    /\ readb' = readb + 1
    /\ shorts' = shorts + 1
    /\ UNCHANGED <<file, pc, call, attr, range, position, seen, behind>>

ReadFails ==
    /\ pc = "disk"
    /\ Head(range) # Hole
    /\ shorts < MaxShort
    /\ error' = TRUE
    /\ shorts' = shorts + 1
    /\ pc' = "done"
    /\ UNCHANGED <<file, op, offset, asked, size, attr, range, position, readb,
                   buf, seen, behind>>

Return ==
    /\ pc = "block"
    /\ range = <<>> \/ ToRead <= 0
    /\ pc' = "done"
    /\ UNCHANGED <<file, call, attr, data, seen, behind>>

(* FUSE takes the answer.                                                  *)
Answered ==
    /\ pc = "done"
    /\ pc' = "idle"
    /\ size' = 0 /\ offset' = 0 /\ asked' = 0 /\ error' = FALSE
    /\ at' = 1 /\ field' = 0 /\ len2' = 0
    /\ stat' = [f \in FieldNames |-> 0]
    /\ range' = <<>> /\ position' = 0 /\ readb' = 0 /\ buf' = <<>>
    /\ seen' = [list |-> {}, fields |-> [f \in FieldNames |-> {}]]
    /\ behind' = FALSE
    /\ UNCHANGED <<file, op, shorts>>

EngineNext ==
    \/ \E n \in 0..(MaxOffset + MaxSize) : EngineSetsSize(n)
    \/ EngineSetsFields
    \/ \E s \in Blocks \cup {Hole} : EngineAppends(s)
    \/ \E s \in Blocks : \E i \in DOMAIN list : EngineReplaces(i, s)
FsNext ==
    \/ GetField \/ EndAttr \/ ReadRange \/ BeginBlock \/ ReadBlock
    \/ ReadShort \/ ReadFails \/ Return
Next ==
    \/ EngineNext
    \/ \E o \in {"getattr", "read"}, off \in 0..MaxOffset, n \in 1..MaxSize :
          Call(o, off, n)
    \/ FsNext
    \/ Answered

(* gray-fs runs on once it was called; the engine need not do anything.    *)
Spec == Init /\ [][Next]_vars /\ WF_vars(FsNext)

----------------------------------------------------------------------------
(* The state has its type.                                                 *)
TypeOK ==
    /\ fsize \in Nat /\ position \in Nat /\ readb \in 0..BlockSize
    /\ offset \in 0..MaxOffset
    /\ pc \in {"block", "disk"} => offset < BlockSize
    /\ pc \in {"idle", "attr", "range", "block", "disk", "done"}
    /\ list \in Seq(Blocks \cup {Hole})
    /\ at \in 1..(Len(Fields) + 1)

(* No more is written to the buffer than FUSE asked for, whatever the      *)
(* engine does to size and list meanwhile.                                 *)
BufferIsNotOverrun ==
    pc \in {"block", "disk", "done"} /\ op = "read" /\ ~error =>
        position <= size /\ Len(buf) <= size

(* Byte i of what is served is the byte of the file at that offset in a    *)
(* list the file had during the call, unless a read of the disk was short  *)
(* or a block is not as long as gammarayfs_read takes it to be.            *)
InPlace(i) ==
    LET x == asked + i - 1
        b == (x \div BlockSize) + 1
    IN  \E l \in seen.list :
            /\ b \in DOMAIN l
            /\ buf[i] = IF l[b] = Hole THEN Zero ELSE <<l[b], x % BlockSize>>
BytesAreInPlace == BlockSize = Page /\ shorts = 0 => \A i \in 1..position : InPlace(i)

(* A read serves all of the file that was asked for, up to the size it     *)
(* found, if the list covered the size all the time and a block is as long *)
(* as gammarayfs_read takes it to be when it computes the range.           *)
ReadIsComplete ==
    BlockSize = Page /\ pc = "done" /\ op = "read" /\ ~error /\ ~behind => position = size

(* Every field of getattr, up to the first one the file does not have, is  *)
(* one the file had during the call; fields of different age may come      *)
(* together.                                                               *)
FieldsAreTheirOwn ==
    pc = "done" =>
        \A i \in DOMAIN Fields :
            (\A j \in 1..i : Fields[j] \in complete) =>
                stat[Fields[i]] \in seen.fields[Fields[i]]

(* Every call is answered, unless a block lies behind the end of the disk, *)
(* from which nothing is ever read.                                        *)
CallsReturn == pc = "attr" ~> (pc = "done" \/ (pc = "disk" /\ Head(range) \in Missing))

(* A read writes no more than there is room for.  If a block is as long as *)
(* the 4096 bytes gammarayfs_read computes with, it serves the file: every *)
(* byte is at its place in a list the file had meanwhile, if no read of    *)
(* the disk was short, and it is all that was asked for, if the list       *)
(* covered the size all the time.                                          *)
ReadServesTheFile ==
    /\ TypeOK
    /\ BufferIsNotOverrun
    /\ BytesAreInPlace
    /\ ReadIsComplete

=============================================================================
