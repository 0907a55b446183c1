-------------------------- MODULE SequenceLemmas --------------------------
(***************************************************************************)
(* Facts about the sequences that model Redis lists and hiredis buffers,   *)
(* in the element-by-element form the proofs of the components use.        *)
(***************************************************************************)
EXTENDS Integers, Sequences, TLAPS

(* The last index of a sequence that grew by one, or an earlier one.       *)
LEMMA SplitLast ==
    ASSUME NEW n \in Nat, NEW i \in 1 .. n + 1
    PROVE  i \in 1 .. n \/ i = n + 1
  OBVIOUS

(* The length of a sequence, and its elements as a function.               *)
LEMMA LenFacts ==
    ASSUME NEW S, NEW s \in Seq(S)
    PROVE  Len(s) \in Nat /\ s \in [1 .. Len(s) -> S]
  OBVIOUS

(* Its elements are of its type.                                           *)
LEMMA ElementFacts ==
    ASSUME NEW S, NEW s \in Seq(S), NEW i \in 1 .. Len(s)
    PROVE  s[i] \in S
  OBVIOUS

(* Only the empty sequence has no elements.                                *)
LEMMA EmptyFacts ==
    ASSUME NEW S
    PROVE  /\ <<>> \in Seq(S) /\ Len(<<>>) = 0
           /\ \A s \in Seq(S) : s # <<>> => Len(s) \in Nat \ {0}
  OBVIOUS

(* Sequences with the same elements are equal.                             *)
LEMMA SeqExtensional ==
    ASSUME NEW S, NEW s \in Seq(S), NEW t \in Seq(S), Len(s) = Len(t),
           \A i \in 1 .. Len(s) : s[i] = t[i]
    PROVE  s = t
  OBVIOUS

(* The elements of a concatenation, by their index.                        *)
LEMMA ConcatIndex ==
    ASSUME NEW S, NEW s \in Seq(S), NEW t \in Seq(S)
    PROVE  /\ s \o t \in Seq(S) /\ Len(s \o t) = Len(s) + Len(t)
           /\ \A i \in 1 .. Len(s) + Len(t) :
                (s \o t)[i] = IF i <= Len(s) THEN s[i] ELSE t[i - Len(s)]
  OBVIOUS

(* The empty sequence adds nothing.                                        *)
LEMMA ConcatEmpty ==
    ASSUME NEW S, NEW s \in Seq(S)
    PROVE  s \o <<>> = s /\ <<>> \o s = s
  OBVIOUS

(* Buffers in a row may be joined in any order.                            *)
LEMMA ConcatAssoc ==
    ASSUME NEW S, NEW s \in Seq(S), NEW t \in Seq(S), NEW u \in Seq(S)
    PROVE  (s \o t) \o u = s \o (t \o u)
  OBVIOUS

(* A part of a sequence.                                                   *)
LEMMA SubSeqFacts ==
    ASSUME NEW S, NEW s, NEW m \in Int, NEW n \in Int, \A i \in m .. n : s[i] \in S
    PROVE  /\ SubSeq(s, m, n) \in Seq(S)
           /\ Len(SubSeq(s, m, n)) = IF m <= n THEN n - m + 1 ELSE 0
           /\ \A i \in 1 .. n - m + 1 : SubSeq(s, m, n)[i] = s[m + i - 1]
  OBVIOUS

(* What Append does to a sequence, element by element.                     *)
LEMMA AppendFacts ==
    ASSUME NEW S, NEW s \in Seq(S), NEW e \in S
    PROVE  /\ Append(s, e) \in Seq(S)
           /\ Len(Append(s, e)) = Len(s) + 1
           /\ Append(s, e) # <<>>
           /\ \A i \in 1 .. Len(s) : Append(s, e)[i] = s[i]
           /\ Append(s, e)[Len(s) + 1] = e
  OBVIOUS

(* What Tail does to a sequence that is not empty.                         *)
LEMMA TailFacts ==
    ASSUME NEW S, NEW s \in Seq(S), s # <<>>
    PROVE  /\ Len(s) \in Nat \ {0}
           /\ Head(s) \in S
           /\ Head(s) = s[1]
           /\ Tail(s) \in Seq(S)
           /\ Len(Tail(s)) = Len(s) - 1
           /\ \A i \in 1 .. Len(Tail(s)) : Tail(s)[i] = s[i + 1]
           /\ Tail(s) = <<>> => Len(s) = 1
  <1>1. Len(s) \in Nat \ {0}
    BY EmptyFacts, LenFacts
  <1>2. /\ Head(s) \in S
        /\ Head(s) = s[1]
        /\ Tail(s) \in Seq(S)
        /\ Len(Tail(s)) = Len(s) - 1
        /\ \A i \in 1 .. Len(Tail(s)) : Tail(s)[i] = s[i + 1]
    BY <1>1
  <1> QED
    BY <1>1, <1>2, EmptyFacts

(* A function over 1 .. n is a sequence of length n.                       *)
LEMMA FunctionIsSeq ==
    ASSUME NEW n \in Nat, NEW S, NEW f \in [1 .. n -> S]
    PROVE  f \in Seq(S) /\ Len(f) = n
  <1>1. f \in Seq(S)
    OBVIOUS
  <1>2. Len(f) \in Nat /\ 1 .. Len(f) = 1 .. n
    BY <1>1, LenFacts
  <1> QED
    BY <1>1, <1>2

(* Two buffers in a row, as one sequence of pending elements.              *)
LEMMA ConcatFacts ==
    ASSUME NEW S, NEW s \in Seq(S), NEW t \in Seq(S)
    PROVE  /\ s \o t \in Seq(S)
           /\ Len(s \o t) = Len(s) + Len(t)
           /\ s \o <<>> = s
           /\ <<>> \o t = t
           /\ s \o t = <<>> => s = <<>> /\ t = <<>>
           /\ s # <<>> => s \o t # <<>> /\ Head(s \o t) = Head(s)
           /\ s # <<>> => Tail(s) \o t = Tail(s \o t)
           /\ \A e \in S : s \o Append(t, e) = Append(s \o t, e)
  <1>1. /\ s \o t \in Seq(S)
        /\ Len(s \o t) = Len(s) + Len(t)
        /\ Len(s) \in Nat /\ Len(t) \in Nat
        /\ \A i \in 1 .. Len(s) + Len(t) :
              (s \o t)[i] = IF i <= Len(s) THEN s[i] ELSE t[i - Len(s)]
    BY ConcatIndex, LenFacts
  <1>2. s \o <<>> = s /\ <<>> \o t = t
    BY ConcatEmpty
  <1>3. s \o t = <<>> => s = <<>> /\ t = <<>>
    BY <1>1, EmptyFacts
  <1>4. ASSUME s # <<>>
        PROVE  /\ s \o t # <<>> /\ Head(s \o t) = Head(s)
               /\ Tail(s) \o t = Tail(s \o t)
    <2>1. /\ Len(s) \in Nat \ {0} /\ Head(s) = s[1]
          /\ Tail(s) \in Seq(S) /\ Len(Tail(s)) = Len(s) - 1
          /\ \A i \in 1 .. Len(Tail(s)) : Tail(s)[i] = s[i + 1]
      BY <1>4, TailFacts
    <2>2. s \o t # <<>>
      BY <1>3, <1>4
    <2>3. /\ Head(s \o t) = (s \o t)[1]
          /\ Tail(s \o t) \in Seq(S)
          /\ Len(Tail(s \o t)) = Len(s) + Len(t) - 1
          /\ \A i \in 1 .. Len(Tail(s \o t)) : Tail(s \o t)[i] = (s \o t)[i + 1]
      BY <1>1, <2>2, TailFacts
    <2>4. Head(s \o t) = Head(s)
      BY <1>1, <2>1, <2>3
    <2>5. /\ Tail(s) \o t \in Seq(S)
          /\ Len(Tail(s) \o t) = Len(s) - 1 + Len(t)
          /\ \A i \in 1 .. (Len(s) - 1) + Len(t) :
                (Tail(s) \o t)[i] = IF i <= Len(s) - 1 THEN Tail(s)[i]
                                                     ELSE t[i - (Len(s) - 1)]
      BY <2>1, ConcatIndex
    <2>6. ASSUME NEW i \in 1 .. Len(Tail(s) \o t)
          PROVE  (Tail(s) \o t)[i] = Tail(s \o t)[i]
      <3>1. CASE i <= Len(s) - 1
        BY <1>1, <2>1, <2>3, <2>5, <3>1
      <3>2. CASE i > Len(s) - 1
        <4>1. i - (Len(s) - 1) = (i + 1) - Len(s) /\ i + 1 \in 1 .. Len(s) + Len(t)
          BY <1>1, <2>1, <2>5
        <4> QED
          BY <1>1, <2>1, <2>3, <2>5, <3>2, <4>1
      <3> QED
        BY <2>1, <3>1, <3>2
    <2>7. Len(Tail(s) \o t) = Len(Tail(s \o t))
      BY <1>1, <2>1, <2>3, <2>5
    <2> QED
      BY <2>2, <2>3, <2>4, <2>5, <2>6, <2>7, SeqExtensional
  <1>5. ASSUME NEW e \in S PROVE s \o Append(t, e) = Append(s \o t, e)
    <2>1. <<e>> \in Seq(S)
      OBVIOUS
    <2>2. Append(t, e) = t \o <<e>> /\ Append(s \o t, e) = (s \o t) \o <<e>>
      BY <1>1
    <2> QED
      BY <2>1, <2>2, ConcatAssoc
  <1> QED
    BY <1>1, <1>2, <1>3, <1>4, <1>5

(* What is left of a buffer when its first k elements are drained.         *)
LEMMA DrainFacts ==
    ASSUME NEW S, NEW s \in Seq(S), NEW k \in Nat, k <= Len(s)
    PROVE  /\ SubSeq(s, k + 1, Len(s)) \in Seq(S)
           /\ Len(SubSeq(s, k + 1, Len(s))) = Len(s) - k
           /\ Len(s) \in Nat
           /\ \A i \in 1 .. Len(s) - k : SubSeq(s, k + 1, Len(s))[i] = s[i + k]
  <1>1. Len(s) \in Nat
    BY LenFacts
  <1> DEFINE d == SubSeq(s, k + 1, Len(s))
  <1>2. /\ d \in Seq(S)
        /\ Len(d) = IF k + 1 <= Len(s) THEN Len(s) - (k + 1) + 1 ELSE 0
        /\ \A i \in 1 .. Len(s) - (k + 1) + 1 : d[i] = s[(k + 1) + i - 1]
    BY <1>1, SubSeqFacts
  <1> HIDE DEF d
  <1>3. Len(d) = Len(s) - k
    BY <1>1, <1>2
  <1>4. \A i \in 1 .. Len(s) - k : d[i] = s[i + k]
    <2> SUFFICES ASSUME NEW i \in 1 .. Len(s) - k PROVE d[i] = s[i + k]
      OBVIOUS
    <2>1. i \in 1 .. Len(s) - (k + 1) + 1 /\ (k + 1) + i - 1 = i + k
      BY <1>1
    <2> QED
      BY <1>2, <2>1
  <1> QED
    BY <1>1, <1>2, <1>3, <1>4 DEF d

(* Moving the first element of one buffer to the end of another.           *)
LEMMA MoveHead ==
    ASSUME NEW S, NEW q \in Seq(S), NEW w \in Seq(S), w # <<>>
    PROVE  Append(q, Head(w)) \o Tail(w) = q \o w
  <1>1. /\ Head(w) \in S /\ Head(w) = w[1] /\ Tail(w) \in Seq(S)
        /\ Len(Tail(w)) = Len(w) - 1 /\ Len(w) \in Nat \ {0}
        /\ \A i \in 1 .. Len(Tail(w)) : Tail(w)[i] = w[i + 1]
    BY TailFacts
  <1>2. /\ Append(q, Head(w)) \in Seq(S) /\ Len(Append(q, Head(w))) = Len(q) + 1
        /\ Len(q) \in Nat
        /\ \A i \in 1 .. Len(q) : Append(q, Head(w))[i] = q[i]
        /\ Append(q, Head(w))[Len(q) + 1] = w[1]
    BY <1>1, AppendFacts, LenFacts
  <1> DEFINE l == Append(q, Head(w)) \o Tail(w)
             r == q \o w
  <1>3. /\ l \in Seq(S) /\ Len(l) = Len(q) + Len(w)
        /\ \A i \in 1 .. Len(q) + Len(w) :
             l[i] = IF i <= Len(q) + 1 THEN Append(q, Head(w))[i] ELSE Tail(w)[i - (Len(q) + 1)]
    <2>1. Len(Append(q, Head(w))) + Len(Tail(w)) = Len(q) + Len(w)
      BY <1>1, <1>2
    <2> QED
      BY <1>1, <1>2, <2>1, ConcatIndex
  <1>4. /\ r \in Seq(S) /\ Len(r) = Len(q) + Len(w)
        /\ \A i \in 1 .. Len(q) + Len(w) :
             r[i] = IF i <= Len(q) THEN q[i] ELSE w[i - Len(q)]
    BY ConcatIndex
  <1> HIDE DEF l, r
  <1>5. ASSUME NEW i \in 1 .. Len(q) + Len(w) PROVE l[i] = r[i]
    <2>0. i \in Nat /\ i >= 1 /\ i <= Len(q) + Len(w)
      BY <1>1, <1>2
    <2>l. l[i] = IF i <= Len(q) + 1 THEN Append(q, Head(w))[i] ELSE Tail(w)[i - (Len(q) + 1)]
      BY <1>3
    <2>r. r[i] = IF i <= Len(q) THEN q[i] ELSE w[i - Len(q)]
      BY <1>4
    <2>1. CASE i <= Len(q)
      <3>1. i \in 1 .. Len(q) /\ i <= Len(q) + 1
        BY <2>0, <2>1, <1>2
      <3> QED
        BY <2>1, <2>l, <2>r, <3>1, <1>2
    <2>2. CASE i = Len(q) + 1
      <3>1. i <= Len(q) + 1 /\ ~(i <= Len(q)) /\ i - Len(q) = 1
        BY <2>2, <1>2
      <3> QED
        BY <2>2, <2>l, <2>r, <3>1, <1>2
    <2>3. CASE i > Len(q) + 1
      <3>1. /\ i - (Len(q) + 1) \in 1 .. Len(Tail(w))
            /\ (i - (Len(q) + 1)) + 1 = i - Len(q)
            /\ ~(i <= Len(q) + 1) /\ ~(i <= Len(q))
        BY <2>0, <2>3, <1>1, <1>2
      <3>2. Tail(w)[i - (Len(q) + 1)] = w[(i - (Len(q) + 1)) + 1]
        BY <3>1, <1>1
      <3> QED
        BY <2>l, <2>r, <3>1, <3>2
    <2> QED
      BY <2>0, <2>1, <2>2, <2>3, <1>2
  <1>6. l = r
    BY <1>3, <1>4, <1>5, SeqExtensional
  <1> QED
    BY <1>6 DEF l, r
=============================================================================
