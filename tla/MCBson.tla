------------------------------- MODULE MCBson -------------------------------
(***************************************************************************)
(* Elements for the encoder: in MCElements those the crawler uses and a    *)
(* regular expression, which the decoder reads in another form than it is  *)
(* written in; in MCAll one of each type the two agree on.                 *)
(***************************************************************************)
EXTENDS Integers, Sequences

K == <<107>>
Element(type, data, data2) ==
    [type |-> type, key |-> K, data |-> data, data2 |-> data2, subtype |-> 0]
Zeros(n) == [i \in 1..n |-> 0]
Letters(n) == [i \in 1..n |-> 96 + i]
EmptyDoc == <<5, 0, 0, 0, 0>>

Regex == Element("regex", <<97>>, <<98>>)
Null == Element("null", <<>>, <<>>)

MCElements ==
    {Element("int32", <<1, 0, 0, 9>>, <<>>),
     Element("string", Letters(10), <<>>),
     Element("binary", <<0, 7, 0>>, <<>>),
     Element("array", EmptyDoc, <<>>),
     Regex}

MCAll ==
    {Element("double", <<1, 2, 3, 4, 5, 6, 7, 8>>, <<>>),
     Element("int32", <<1, 0, 0, 9>>, <<>>),
     Element("int64", Zeros(8), <<>>),
     Element("boolean", <<0>>, <<>>),
     Element("string", <<>>, <<>>),
     Element("string", <<97, 98>>, <<>>),
     Element("binary", <<>>, <<>>),
     Element("document", <<8, 0, 0, 0, 10, 107, 0, 0>>, <<>>),
     Element("array", EmptyDoc, <<>>),
     Element("objectid", Zeros(12), <<>>),
     Element("utc_datetime", Zeros(8), <<>>),
     Element("timestamp", Zeros(8), <<>>),
     Element("undefined", <<>>, <<>>),
     Element("dbpointer", <<97>>, Zeros(12)),
     Element("js", <<97, 98, 99>>, <<>>),
     Element("symbol", <<97>>, <<>>),
     Element("min", <<>>, <<>>),
     Element("max", <<>>, <<>>),
     Null}

=============================================================================
