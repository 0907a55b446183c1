-------------------------------- MODULE Bson --------------------------------
(***************************************************************************)
(* The BSON encoder and decoder through which the crawler hands its index  *)
(* to the engine.  The writer serializes elements into a buffer that grows *)
(* by doubling (new_size), finalizes the document in place and appends it  *)
(* to a file; it uses the buffer again for the next one (bson_reset).  The *)
(* reader reads one document after the other into a buffer of its own      *)
(* (bson_readf), takes elements from it with a cursor (bson_deserialize)   *)
(* and may go on to the next document before it has seen them all.         *)
(*                                                                         *)
(* Bytes are numbers below 256.  Sizes are signed and wrap beyond MaxInt   *)
(* (2^31 - 1 in C).                                                        *)
(***************************************************************************)
EXTENDS Integers, Sequences

CONSTANTS Elements,     \* elements the writer may serialize
          StartSize,    \* START_SIZE, the first size of the buffer
          MaxInt,       \* largest int32_t
          MaxElements,  \* bound: elements of a document
          MaxDocs       \* bound: documents

(* The types and the byte that stands for each.                           *)
TypeCode == [double |-> 1, string |-> 2, document |-> 3, array |-> 4,
             binary |-> 5, undefined |-> 6, objectid |-> 7, boolean |-> 8,
             utc_datetime |-> 9, null |-> 10, regex |-> 11, dbpointer |-> 12,
             js |-> 13, symbol |-> 14, js_code |-> 15, int32 |-> 16,
             timestamp |-> 17, int64 |-> 18, min |-> 255, max |-> 127]
TypeNames == DOMAIN TypeCode

(* An element is a record: type, key (bytes), data (bytes), data2 (bytes,  *)
(* of the types with two values), subtype.                                 *)

VARIABLES
    pc,         \* writer "open", "grow", "final", "failed"; reader "read",
                \* "decode", "end"
    buffer,     \* bytes written so far; position is their number
    size,       \* bson_info->size: what is allocated
    grown,      \* local old_size of new_size
    todo,       \* pieces of the element still to be written
    given,      \* history: elements of the document being written
    file,       \* documents written, as bytes
    written,    \* history: the elements of each of them that is complete
    rbuf,       \* reader: the rest of the document, without its length
    rpos,       \* reader: position
    rsize,      \* reader: bson_info->size, bytes left
    rcap,       \* reader: bytes allocated
    got         \* history: the elements taken from the current document

writerVars == <<buffer, size, grown, todo, given>>
fileVars == <<file, written>>
readerVars == <<rbuf, rpos, rsize, rcap, got>>
vars == <<pc, writerVars, fileVars, readerVars>>

(* Two's complement.                                                       *)
Wrap(n) == IF n > MaxInt THEN n - 2 * (MaxInt + 1)
           ELSE IF n < -MaxInt - 1 THEN n + 2 * (MaxInt + 1) ELSE n

Int32(n) == [i \in 1..4 |-> (n \div 256 ^ (i - 1)) % 256]

----------------------------------------------------------------------------
(* The encoder.  A string is its length with the zero that ends it, its    *)
(* bytes and the zero; a binary its length, its subtype and its bytes.     *)
CString(s) == Append(s, 0)
String(s) == Int32(Len(s) + 1) \o s \o <<0>>
Binary(s, subtype) == Int32(Len(s)) \o <<subtype>> \o s

(* The pieces serialize_element writes after type and key, each checked    *)
(* for size on its own.  A regular expression is written as two strings.   *)
FixedTypes == {"double", "int32", "int64", "objectid", "boolean",
               "utc_datetime", "timestamp"}
EmptyTypes == {"undefined", "null", "min", "max"}
Payload(e) ==
    CASE e.type \in FixedTypes \cup {"document", "array"} -> <<e.data>>
      [] e.type \in EmptyTypes -> <<>>
      [] e.type \in {"string", "js", "symbol"} -> <<String(e.data)>>
      [] e.type = "binary" -> <<Binary(e.data, e.subtype)>>
      [] e.type = "regex" -> <<String(e.data), String(e.data2)>>
      [] e.type \in {"dbpointer", "js_code"} -> <<String(e.data), e.data2>>

Init ==
    /\ pc = "open"
    /\ buffer = <<>>
    /\ size = StartSize
    /\ grown = 0
    /\ todo = <<>>
    /\ given = <<>>
    /\ file = <<>>
    /\ written = <<>>
    /\ rbuf = <<>>
    /\ rpos = 0
    /\ rsize = 0
    /\ rcap = 0
    /\ got = <<>>

(* bson_serialize of an element.                                           *)
serialize_element(e) ==
    /\ pc = "open"
    /\ todo = <<>>
    /\ Len(given) < MaxElements
    /\ Len(file) < MaxDocs
    /\ todo' = <<<<TypeCode[e.type]>>, CString(e.key)>> \o Payload(e)
    /\ given' = Append(given, e)
    /\ UNCHANGED <<pc, buffer, size, grown, fileVars, readerVars>>

(* The size a check asks for: the next piece, or what bson_finalize adds.  *)
Needed == Len(buffer) + IF todo = <<>> THEN 5 ELSE Len(Head(todo))

(* check_size fails: resize enters the loop of new_size.                   *)
BeginGrow ==
    /\ \/ pc = "open" /\ todo # <<>>
       \/ pc = "final"
    /\ Needed > size
    /\ grown' = size
    /\ pc' = IF pc = "open" THEN "grow" ELSE "grow_final"
    /\ UNCHANGED <<buffer, size, todo, given, fileVars, readerVars>>

(* One round of new_size.                                                  *)
Doubled == Wrap(2 * grown)
GrowStep ==
    /\ pc \in {"grow", "grow_final"}
    /\ grown < Needed
    /\ grown' = Doubled
    /\ UNCHANGED <<pc, buffer, size, todo, given, fileVars, readerVars>>

(* The new buffer.                                                         *)
EndGrow ==
    /\ pc \in {"grow", "grow_final"}
    /\ grown >= Needed
    /\ size' = grown
    /\ pc' = IF pc = "grow" THEN "open" ELSE "final"
    /\ UNCHANGED <<buffer, grown, todo, given, fileVars, readerVars>>

(* The next piece is copied into the buffer.  (Faulty variant: the check   *)
(* forgets the last byte.)                                                 *)
WriteUnchecked ==
    /\ pc = "open"
    /\ todo # <<>>
    /\ Needed <= size + 1
    /\ buffer' = buffer \o Head(todo)
    /\ todo' = Tail(todo)
    /\ UNCHANGED <<pc, size, grown, given, fileVars, readerVars>>
WritePiece ==
    /\ pc = "open"
    /\ todo # <<>>
    /\ Needed <= size
    /\ buffer' = buffer \o Head(todo)
    /\ todo' = Tail(todo)
    /\ UNCHANGED <<pc, size, grown, given, fileVars, readerVars>>

(* bson_finalize.                                                          *)
BeginFinalize ==
    /\ pc = "open"
    /\ todo = <<>>
    /\ Len(file) < MaxDocs
    /\ pc' = "final"
    /\ UNCHANGED <<writerVars, fileVars, readerVars>>

(* The length goes in front; bson_writef writes the document, bson_reset   *)
(* makes the buffer empty.                                                 *)
Finalized == Int32(Len(buffer) + 5) \o buffer \o <<0>>
bson_finalize ==
    /\ pc = "final"
    /\ Needed <= size
    /\ file' = Append(file, Finalized)
    /\ written' = Append(written, given)
    /\ buffer' = <<>>
    /\ given' = <<>>
    /\ pc' = "open"
    /\ UNCHANGED <<size, grown, todo, readerVars>>

(* fwrite fails after some bytes of the document: bson_writef frees the    *)
(* buffer.  The disk is full, and nothing more is written; what a caller   *)
(* that does not look at the result does to the freed buffer is not        *)
(* followed.  (A short count without an error, after which the loop would  *)
(* go on at the wrong byte, is not something fwrite returns.)              *)
Cuts(n) == {0, 3, 4, n - 1}
WriteFails ==
    /\ pc = "final"
    /\ Needed <= size
    /\ \E k \in Cuts(Len(Finalized)) :
          file' = Append(file, SubSeq(Finalized, 1, k))
    /\ buffer' = <<>>
    /\ given' = <<>>
    /\ pc' = "failed"
    /\ UNCHANGED <<size, grown, todo, written, readerVars>>

(* The writer closes the file; the reader starts with bson_init.           *)
StartReading ==
    /\ pc \in {"open", "failed"}
    /\ todo = <<>>
    /\ given = <<>>
    /\ pc' = "read"
    /\ rcap' = StartSize
    /\ rsize' = StartSize
    /\ UNCHANGED <<writerVars, fileVars, rbuf, rpos, got>>

----------------------------------------------------------------------------
(* The decoder.  Byte i of the buffer; what lies behind its end reads as   *)
(* some byte, here 0, and is left out of a value.                          *)
ByteOf(i) == IF i < Len(rbuf) THEN rbuf[i + 1] ELSE 0
IntAt(i) == ByteOf(i) + 256 * ByteOf(i + 1) + 65536 * ByteOf(i + 2)
Slice(i, n) == SubSeq(rbuf, i + 1, IF i + n <= Len(rbuf) THEN i + n
                                                         ELSE Len(rbuf))
StrLen(i) == CHOOSE n \in 0..Len(rbuf) :
                /\ ByteOf(i + n) = 0
                /\ \A m \in 0..(n - 1) : ByteOf(i + m) # 0

(* deserialize_cstring, deserialize_string, deserialize_document at i:     *)
(* what they return and how far they move the cursor.                      *)
CStringAt(i) == [data |-> Slice(i, StrLen(i)), n |-> StrLen(i) + 1]
StringAt(i) == [data |-> Slice(i + 4, IntAt(i) - 1), n |-> 4 + IntAt(i)]
DocumentAt(i) == [data |-> Slice(i, IntAt(i)), n |-> IntAt(i)]
FixedAt(i, n) == [data |-> Slice(i, n), n |-> n]
FixedSize == [double |-> 8, int32 |-> 4, int64 |-> 8, objectid |-> 12,
              boolean |-> 1, utc_datetime |-> 8, timestamp |-> 8]

(* The value of an element of the given type at i: one or two values.      *)
ValueAt(type, i) ==
    CASE type \in FixedTypes -> <<FixedAt(i, FixedSize[type])>>
      [] type \in EmptyTypes -> <<>>
      [] type \in {"string", "js", "symbol"} -> <<StringAt(i)>>
      [] type \in {"document", "array"} -> <<DocumentAt(i)>>
      [] type = "binary" ->
            <<[data |-> Slice(i + 5, IntAt(i)), n |-> 5 + IntAt(i)]>>
      [] type = "regex" -> <<CStringAt(i), CStringAt(i + CStringAt(i).n)>>
      [] type = "dbpointer" -> <<StringAt(i), FixedAt(i + StringAt(i).n, 12)>>
      [] type = "js_code" ->
            LET s == StringAt(i + 4) IN
            <<[data |-> s.data, n |-> 4 + s.n], DocumentAt(i + 4 + s.n)>>

Consumed(values) ==
    (IF Len(values) >= 1 THEN values[1].n ELSE 0)
    + (IF Len(values) = 2 THEN values[2].n ELSE 0)

(* bson_readf: the buffer is allocated anew when the new document is       *)
(* larger than what is left of the old one.  (Faulty variant: what fread   *)
(* returns is not looked at.)                                              *)
HasLength(bytes) == Len(bytes) >= 4
LengthOf(bytes) == bytes[1] + 256 * bytes[2]
Whole(bytes) == HasLength(bytes) /\ LengthOf(bytes) = Len(bytes)
Capacity(n) == IF rsize < n THEN n ELSE rcap
ReadWithoutTest ==
    /\ pc = "read"
    /\ file # <<>>
    /\ HasLength(Head(file))
    /\ LET n == LengthOf(Head(file)) - 4 IN
       /\ rcap' = Capacity(n)
       /\ rsize' = n
       /\ rbuf' = SubSeq(Head(file), 5, Len(Head(file)))
       /\ rpos' = 0
    /\ file' = Tail(file)
    /\ got' = <<>>
    /\ pc' = "decode"
    /\ UNCHANGED <<writerVars, written>>
bson_readf ==
    /\ pc = "read"
    /\ file # <<>>
    /\ Whole(Head(file))
    /\ LET n == LengthOf(Head(file)) - 4 IN
       /\ rcap' = Capacity(n)
       /\ rsize' = n
       /\ rbuf' = SubSeq(Head(file), 5, Len(Head(file)))
       /\ rpos' = 0
    /\ file' = Tail(file)
    /\ got' = <<>>
    /\ pc' = "decode"
    /\ UNCHANGED <<writerVars, written>>

(* bson_readf of a document that was cut: 0 if not even its length is      *)
(* there, otherwise -1 with the buffer allocated and filled in part.  The  *)
(* loops of the readers end with either.                                   *)
ReadTruncated ==
    /\ pc = "read"
    /\ file # <<>>
    /\ ~ Whole(Head(file))
    /\ IF HasLength(Head(file))
       THEN /\ rcap' = Capacity(LengthOf(Head(file)) - 4)
            /\ rbuf' = SubSeq(Head(file), 5, Len(Head(file)))
       ELSE UNCHANGED <<rcap, rbuf>>
    /\ file' = Tail(file)
    /\ pc' = "end"
    /\ UNCHANGED <<writerVars, written, rpos, rsize, got>>

(* A nested document is copied into a buffer of its own, its length with   *)
(* it, and opened by bson_make_readable.                                   *)
bson_make_readable ==
    /\ pc = "read"
    /\ file # <<>>
    /\ Whole(Head(file))
    /\ rbuf' = Head(file)
    /\ rcap' = Len(Head(file))
    /\ rsize' = Len(Head(file)) - 4
    /\ rpos' = 4
    /\ file' = Tail(file)
    /\ got' = <<>>
    /\ pc' = "decode"
    /\ UNCHANGED <<writerVars, written>>

(* bson_deserialize of an element.                                         *)
TypeAt(i) == CHOOSE t \in TypeNames : TypeCode[t] = ByteOf(i)
DeserializeAt(at) ==
    LET type == TypeAt(rpos)
        key == CStringAt(rpos + 1)
        values == ValueAt(type, at)
        n == at - rpos + Consumed(values)
    IN  /\ got' = Append(got, [type |-> type, key |-> key.data,
                               values |-> [j \in DOMAIN values |->
                                               values[j].data]])
        /\ rpos' = rpos + n
        /\ rsize' = rsize - n
Deserialize ==
    /\ pc = "decode"
    /\ rsize > 1
    /\ ByteOf(rpos) \in {TypeCode[t] : t \in TypeNames}
    /\ DeserializeAt(rpos + 1 + CStringAt(rpos + 1).n)
    /\ UNCHANGED <<pc, writerVars, fileVars, rbuf, rcap>>

(* bson_deserialize at a byte that is no type: -1, after the key.  Most    *)
(* callers go on, for -1 is not 0.                                         *)
DeserializeError ==
    /\ pc = "decode"
    /\ rsize > 1
    /\ ByteOf(rpos) \notin {TypeCode[t] : t \in TypeNames}
    /\ LET n == 1 + CStringAt(rpos + 1).n IN
       /\ rpos' = rpos + n
       /\ rsize' = rsize - n
    /\ got' = Append(got, [type |-> "none", key |-> <<>>, values |-> <<>>])
    /\ UNCHANGED <<pc, writerVars, fileVars, rbuf, rcap>>

(* bson_deserialize at the end of the document, or the caller has enough.  *)
EndOfDocument ==
    /\ pc = "decode"
    /\ rsize <= 1
    /\ rpos' = IF rsize = 1 THEN rpos + 1 ELSE rpos
    /\ rsize' = IF rsize = 1 THEN 0 ELSE rsize
    /\ pc' = "read"
    /\ written' = Tail(written)
    /\ UNCHANGED <<writerVars, file, rbuf, rcap, got>>

LeaveDocument ==
    /\ pc = "decode"
    /\ got # <<>>
    /\ pc' = "read"
    /\ written' = Tail(written)
    /\ UNCHANGED <<writerVars, file, readerVars>>

EndOfFile ==
    /\ pc = "read"
    /\ file = <<>>
    /\ pc' = "end"
    /\ UNCHANGED <<writerVars, fileVars, readerVars>>

WriterNext ==
    \/ \E e \in Elements : serialize_element(e)
    \/ BeginGrow \/ GrowStep \/ EndGrow \/ WritePiece \/ BeginFinalize
    \/ bson_finalize \/ WriteFails \/ StartReading
ReaderNext ==
    \/ bson_readf \/ bson_make_readable \/ ReadTruncated \/ Deserialize
    \/ DeserializeError \/ EndOfDocument \/ LeaveDocument \/ EndOfFile
Next == WriterNext \/ ReaderNext

(* Both programs are sequential; the writer at last closes the file.       *)
Spec == Init /\ [][Next]_vars /\ WF_vars(Next)

----------------------------------------------------------------------------
(* The state has its type.                                                 *)
TypeOK ==
    /\ pc \in {"open", "grow", "final", "grow_final", "failed", "read",
               "decode", "end"}
    /\ size \in StartSize..MaxInt
    /\ grown \in (-MaxInt - 1)..MaxInt
    /\ Len(given) <= MaxElements
    /\ Len(file) <= MaxDocs
    /\ rpos \in Nat /\ rsize \in Int /\ rcap \in Nat

(* The encoder never writes behind its buffer: what it has written fits,   *)
(* and so does the reader's document in the buffer it was read into, even  *)
(* when the document before it was larger or was left half way.            *)
BuffersHold ==
    /\ Len(buffer) <= size
    /\ pc = "decode" => Len(rbuf) <= rcap

(* The length in front of a document is the number of its bytes, unless    *)
(* the document was cut; only complete ones are handed to the caller.      *)
LengthIsExact ==
    LET unread == Len(written) - IF pc = "decode" THEN 1 ELSE 0 IN
    /\ unread >= 0
    /\ \A i \in DOMAIN file : i <= unread <=> Whole(file[i])

(* The types that the decoder reads in the form the encoder writes.        *)
AgreedTypes == TypeNames \ {"regex", "js_code"}
Plain(elements) == \A i \in DOMAIN elements : elements[i].type \in AgreedTypes

(* While a document is read, the cursor and the bytes left add up to the   *)
(* document, whatever is misread; and the last byte is the zero that       *)
(* bson_deserialize asserts.  Only a document with a type that is misread  *)
(* takes the cursor past the end.                                          *)
CursorIsExact ==
    pc = "decode" => /\ rpos + rsize = Len(rbuf)
                     /\ Plain(Head(written)) => rsize >= 0
                     /\ rsize = 1 => ByteOf(rpos) = 0

ValuesOf(e) ==
    CASE e.type \in EmptyTypes -> <<>>
      [] e.type \in {"regex", "dbpointer", "js_code"} -> <<e.data, e.data2>>
      [] OTHER -> <<e.data>>

Agree(got_, elements) ==
    /\ Len(got_) <= Len(elements)
    /\ \A i \in DOMAIN got_ :
          LET e == elements[i] IN
          got_[i] = [type |-> e.type, key |-> e.key, values |-> ValuesOf(e)]

(* The elements taken from a document are those it was made of, in order:  *)
(* type, key and every byte of the values.                                 *)
RoundTrip ==
    pc = "decode" /\ Plain(Head(written)) => Agree(got, Head(written))

(* A document that is read to the end has given all of its elements.       *)
NothingIsLeftOut ==
    [][EndOfDocument /\ Plain(Head(written))
         => Len(got) = Len(Head(written))]_vars

(* new_size comes to an end, if the size asked for is no more than half of *)
(* what an int32_t can count.                                              *)
GrowthEnds ==
    [](pc \in {"grow", "grow_final"} /\ Needed <= (MaxInt + 1) \div 2
         => <>(pc \in {"open", "final"}))

=============================================================================
