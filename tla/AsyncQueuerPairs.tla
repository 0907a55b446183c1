-------------------------- MODULE AsyncQueuerPairs --------------------------
(***************************************************************************)
(* What the async queuer pushes on "writequeue", for any number of flush   *)
(* threads, any thresholds and any stream: the accepted writes in stream   *)
(* order, each as its sector number followed by its data (PushedInPairs),  *)
(* and so that the queuer implements PairProducer, as long as              *)
(* redis_shutdown and the periodic flusher do not meet in the connection.  *)
(*                                                                         *)
(* The argument: elements only move from outbuf to wire to queue, in       *)
(* order, so that their concatenation changes only where AppendPair adds   *)
(* two (ElementInv); the number of the write being appended is above all   *)
(* accepted ones (OrderInv), so that the pairs are of different writes.    *)
(* The one step that sends elements twice is one of two threads in the     *)
(* connection, which collided records (CollideInv).                        *)
(***************************************************************************)
EXTENDS AsyncQueuerProofs

(* Everything pushed or on its way, oldest first.                          *)
Pushed == queue \o wire \o outbuf

(* Where redis_async_write_enqueue holds a write it has not appended yet.  *)
BeforeAppend == {"tryconn", "lockconn", "trycmd", "lockcmd", "append"}

(* The numbers of the accepted writes increase and stay below the write in *)
(* progress.                                                               *)
OrderInv ==
    /\ nread <= MaxWrites
    /\ \A i \in 1 .. Len(accepted) : accepted[i] \in 1 .. nread
    /\ \A i, j \in 1 .. Len(accepted) : i < j => accepted[i] < accepted[j]
    /\ mpc \in BeforeAppend =>
         /\ cur.n = nread /\ nread > 0
         /\ \A i \in 1 .. Len(accepted) : accepted[i] < nread

(* The elements pushed, two for each accepted write.                       *)
ElementInv ==
    collided = TRUE \/
    /\ Len(Pushed) = 2 * Len(accepted)
    /\ \A i \in 1 .. Len(accepted) :
         /\ Pushed[2 * i - 1] = [part |-> "sector", n |-> accepted[i]]
         /\ Pushed[2 * i] = [part |-> "data", n |-> accepted[i]]

(* Every number is even or odd.                                            *)
LEMMA Halves == ASSUME NEW n \in Nat PROVE \E k \in Nat : n = 2 * k \/ n = 2 * k + 1
  <1>1. n \div 2 \in Nat /\ (n = 2 * (n \div 2) \/ n = 2 * (n \div 2) + 1)
    OBVIOUS
  <1> QED
    BY <1>1

(* Steps that do not read or accept a write keep the order.                *)
LEMMA NextOrder == ASSUME LInv, OrderInv, [Next]_vars PROVE OrderInv'
  <1>0. /\ nread \in Nat /\ MaxWrites \in Nat /\ accepted \in Seq(Nat)
        /\ mpc \in MainPCs /\ cur \in Write
    BY QueuerAssumption DEF LInv, TypeOK
  <1> DEFINE Same == /\ nread' = nread /\ accepted' = accepted
                     /\ mpc' \in BeforeAppend => mpc \in BeforeAppend /\ cur' = cur
  <1>a. Same => OrderInv'
    BY DEF OrderInv
  <1> USE DEF BeforeAppend, mainVars, locals, flushVars, lockVars, connVars, histVars
  <1>1. ASSUME NEW sector \in Sectors, ReadWrite(sector) PROVE OrderInv'
    <2>1. /\ nread' = nread + 1 /\ nread + 1 <= MaxWrites /\ accepted' = accepted
          /\ cur'.n = nread + 1
      BY <1>1, <1>0 DEF ReadWrite
    <2> QED
      BY <1>0, <2>1 DEF OrderInv
  <1>2. ASSUME ReadEnds PROVE Same
    BY <1>2 DEF ReadEnds
  <1>3. ASSUME TryConnLock PROVE Same
    BY <1>3 DEF TryConnLock, DropWrite
  <1>4. ASSUME LockConn PROVE Same
    BY <1>4 DEF LockConn
  <1>5. ASSUME TryCmdLock PROVE Same
    BY <1>5 DEF TryCmdLock, DropWrite
  <1>6. ASSUME LockCmd PROVE Same
    BY <1>6 DEF LockCmd
  <1>7. ASSUME AppendPair PROVE OrderInv'
    <2>1. /\ nread' = nread /\ accepted' = Append(accepted, cur.n)
          /\ mpc' = "count" /\ mpc = "append"
      BY <1>7 DEF AppendPair
    <2>2. /\ cur.n = nread /\ nread > 0 /\ nread <= MaxWrites
          /\ \A i \in 1 .. Len(accepted) : accepted[i] < nread /\ accepted[i] \in 1 .. nread
          /\ \A i, j \in 1 .. Len(accepted) : i < j => accepted[i] < accepted[j]
      BY <2>1 DEF OrderInv
    <2>3. /\ accepted' \in Seq(Nat) /\ Len(accepted') = Len(accepted) + 1
          /\ \A i \in 1 .. Len(accepted) : accepted'[i] = accepted[i]
          /\ accepted'[Len(accepted) + 1] = nread
      BY <1>0, <2>1, <2>2, AppendFacts
    <2>4. Len(accepted) \in Nat
      BY <1>0, LenFacts
    <2>5. \A i \in 1 .. Len(accepted') : i \in 1 .. Len(accepted) \/ i = Len(accepted) + 1
      BY <2>3, <2>4, SplitLast
    <2>6. \A i \in 1 .. Len(accepted') : accepted'[i] \in 1 .. nread
      <3> SUFFICES ASSUME NEW i \in 1 .. Len(accepted') PROVE accepted'[i] \in 1 .. nread
        OBVIOUS
      <3>1. CASE i \in 1 .. Len(accepted)
        BY <3>1, <2>2, <2>3
      <3>2. CASE i = Len(accepted) + 1
        BY <3>2, <1>0, <2>2, <2>3
      <3> QED
        BY <3>1, <3>2, <2>5
    <2>7. \A i, j \in 1 .. Len(accepted') : i < j => accepted'[i] < accepted'[j]
      <3> SUFFICES ASSUME NEW i \in 1 .. Len(accepted'), NEW j \in 1 .. Len(accepted'), i < j
                   PROVE  accepted'[i] < accepted'[j]
        OBVIOUS
      <3>1. i \in 1 .. Len(accepted)
        BY <2>3, <2>4
      <3>2. CASE j \in 1 .. Len(accepted)
        BY <3>1, <3>2, <2>2, <2>3
      <3>3. CASE j = Len(accepted) + 1
        BY <3>1, <3>3, <2>2, <2>3
      <3> QED
        BY <3>2, <3>3, <2>5
    <2> QED
      BY <2>1, <2>2, <2>6, <2>7 DEF OrderInv
  <1>8. ASSUME CountPair PROVE Same
    BY <1>8 DEF CountPair
  <1>9. ASSUME MainSemPost PROVE Same
    BY <1>9 DEF MainSemPost
  <1>10. ASSUME NEW t \in FlushThreads, CreateFlushThread(t) PROVE Same
    BY <1>10 DEF CreateFlushThread
  <1>11. ASSUME ShutdownGetValue PROVE Same
    BY <1>11 DEF ShutdownGetValue
  <1>12. ASSUME ShutdownTest PROVE Same
    BY <1>12 DEF ShutdownTest
  <1>13. ASSUME ShutdownFlushTest PROVE Same
    BY <1>13 DEF ShutdownFlushTest
  <1>14. ASSUME ShutdownSend PROVE Same
    BY <1>14 DEF ShutdownSend
  <1>15. ASSUME ShutdownFetch PROVE Same
    BY <1>15 DEF ShutdownFetch
  <1>16. ASSUME ShutdownLoad PROVE Same
    BY <1>16 DEF ShutdownLoad
  <1>17. ASSUME ShutdownStore PROVE Same
    BY <1>17 DEF ShutdownStore
  <1>18. ASSUME ProcessExit PROVE Same
    BY <1>18 DEF ProcessExit
  <1>19. ASSUME PeriodicCheck PROVE Same
    BY <1>19 DEF PeriodicCheck
  <1>20. ASSUME PeriodicLockCmd PROVE Same
    BY <1>20 DEF PeriodicLockCmd
  <1>21. ASSUME PeriodicTake PROVE Same
    BY <1>21 DEF PeriodicTake
  <1>22. ASSUME PeriodicZero PROVE Same
    BY <1>22 DEF PeriodicZero
  <1>23. ASSUME PeriodicSemPost PROVE Same
    BY <1>23 DEF PeriodicSemPost
  <1>24. ASSUME NEW f \in Flushers, LockFlush(f) PROVE Same
    BY <1>24 DEF LockFlush
  <1>25. ASSUME NEW f \in Flushers, EnterConnection(f) PROVE Same
    BY <1>25 DEF EnterConnection
  <1>26. ASSUME NEW f \in Flushers, Send(f) PROVE Same
    BY <1>26 DEF Send
  <1>27. ASSUME NEW f \in Flushers, Fetch(f) PROVE Same
    BY <1>27 DEF Fetch
  <1>28. ASSUME NEW f \in Flushers, LoopDone(f) PROVE Same
    BY <1>28 DEF LoopDone
  <1>29. ASSUME NEW f \in Flushers, SemWait(f) PROVE Same
    BY <1>29 DEF SemWait
  <1>30. ASSUME NEW f \in Flushers, UnlockFlush(f) PROVE Same
    BY <1>30 DEF UnlockFlush
  <1>31. ASSUME SendTwice PROVE Same
    BY <1>31 DEF SendTwice, Collision
  <1>32. ASSUME OverwriteReply PROVE Same
    BY <1>32 DEF OverwriteReply, Collision
  <1>33. ASSUME CorruptHeap PROVE Same
    BY <1>33 DEF CorruptHeap, Collision
  <1>34. ASSUME RedisExecute PROVE Same
    BY <1>34 DEF RedisExecute
  <1>35. ASSUME UNCHANGED vars PROVE Same
    BY <1>35 DEF vars
  <1> HIDE DEF Same
  <1> QED
    BY <1>a, <1>1, <1>2, <1>3, <1>4, <1>5, <1>6, <1>7, <1>8, <1>9, <1>10, <1>11,
       <1>12, <1>13, <1>14, <1>15, <1>16, <1>17, <1>18, <1>19, <1>20, <1>21, <1>22,
       <1>23, <1>24, <1>25, <1>26, <1>27, <1>28, <1>29, <1>30, <1>31, <1>32, <1>33,
       <1>34, <1>35
       DEF Next, EnqueueStep, ShutdownStep, PeriodicStep, FlushStep,
           CollisionStep, Exited, Hung

(* Sending and executing move elements along without changing the whole.   *)
LEMMA PushedMoves ==
    ASSUME NEW q \in Seq(Element), NEW w \in Seq(Element), NEW b \in Seq(Element)
    PROVE  /\ q \o (w \o b) \o <<>> = q \o w \o b
           /\ w # <<>> => Append(q, Head(w)) \o Tail(w) \o b = q \o w \o b
           /\ q \o w \o b \in Seq(Element)
           /\ Len(q \o w \o b) = Len(q) + Len(w) + Len(b)
           /\ \A i \in 1 .. Len(q) : (q \o w \o b)[i] = q[i]
           /\ w # <<>> => (q \o w \o b)[Len(q) + 1] = Head(w)
  <1>1. /\ w \o b \in Seq(Element) /\ q \o (w \o b) \in Seq(Element)
        /\ (q \o w) \o b = q \o (w \o b)
        /\ Len(q \o (w \o b)) = Len(q) + Len(w) + Len(b)
        /\ Len(q) \in Nat /\ Len(w) \in Nat /\ Len(b) \in Nat
        /\ Len(w \o b) = Len(w) + Len(b)
    BY ConcatFacts, ConcatAssoc, LenFacts
  <1>2. q \o (w \o b) \o <<>> = q \o (w \o b)
    BY <1>1, ConcatEmpty
  <1>3. ASSUME w # <<>> PROVE Append(q, Head(w)) \o Tail(w) = q \o w
    <2>1. /\ Head(w) \in Element /\ Head(w) = w[1] /\ Tail(w) \in Seq(Element)
          /\ Len(Tail(w)) = Len(w) - 1 /\ Len(w) \in Nat \ {0}
          /\ \A i \in 1 .. Len(Tail(w)) : Tail(w)[i] = w[i + 1]
      BY <1>3, TailFacts
    <2>2. /\ Append(q, Head(w)) \in Seq(Element) /\ Len(Append(q, Head(w))) = Len(q) + 1
          /\ \A i \in 1 .. Len(q) : Append(q, Head(w))[i] = q[i]
          /\ Append(q, Head(w))[Len(q) + 1] = w[1]
      BY <2>1, AppendFacts
    <2> DEFINE l == Append(q, Head(w)) \o Tail(w)
               r == q \o w
    <2>3. /\ l \in Seq(Element) /\ Len(l) = Len(q) + Len(w)
          /\ \A i \in 1 .. Len(q) + Len(w) :
               l[i] = IF i <= Len(q) + 1 THEN Append(q, Head(w))[i] ELSE Tail(w)[i - (Len(q) + 1)]
      <3>1. Len(Append(q, Head(w))) + Len(Tail(w)) = Len(q) + Len(w)
        BY <1>1, <2>1, <2>2
      <3> QED
        BY <2>1, <2>2, <3>1, ConcatIndex
    <2>4. /\ r \in Seq(Element) /\ Len(r) = Len(q) + Len(w)
          /\ \A i \in 1 .. Len(q) + Len(w) :
               r[i] = IF i <= Len(q) THEN q[i] ELSE w[i - Len(q)]
      BY ConcatIndex
    <2> HIDE DEF l, r
    <2>5. \A i \in 1 .. Len(q) + Len(w) : l[i] = r[i]
      <3> SUFFICES ASSUME NEW i \in 1 .. Len(q) + Len(w) PROVE l[i] = r[i]
        OBVIOUS
      <3>0. i \in Nat /\ i >= 1 /\ i <= Len(q) + Len(w)
        BY <1>1
      <3>l. l[i] = IF i <= Len(q) + 1 THEN Append(q, Head(w))[i] ELSE Tail(w)[i - (Len(q) + 1)]
        BY <2>3
      <3>r. r[i] = IF i <= Len(q) THEN q[i] ELSE w[i - Len(q)]
        BY <2>4
      <3>1. CASE i <= Len(q)
        <4>1. Append(q, Head(w))[i] = q[i]
          <5>1. i \in 1 .. Len(q)
            BY <3>0, <3>1, <1>1
          <5> QED
            BY <5>1, <2>2
        <4>2. i <= Len(q) + 1
          BY <3>0, <3>1, <1>1
        <4> QED
          BY <3>1, <3>l, <3>r, <4>1, <4>2
      <3>2. CASE i = Len(q) + 1
        <4>1. i <= Len(q) + 1 /\ ~(i <= Len(q)) /\ i - Len(q) = 1
          BY <3>2, <1>1
        <4> QED
          BY <3>2, <3>l, <3>r, <4>1, <2>2
      <3>3. CASE i > Len(q) + 1
        <4>1. /\ i - (Len(q) + 1) \in 1 .. Len(Tail(w))
              /\ (i - (Len(q) + 1)) + 1 = i - Len(q)
              /\ ~(i <= Len(q) + 1) /\ ~(i <= Len(q))
          BY <3>0, <3>3, <2>1, <1>1
        <4>2. Tail(w)[i - (Len(q) + 1)] = w[(i - (Len(q) + 1)) + 1]
          BY <4>1, <2>1
        <4> QED
          BY <3>l, <3>r, <4>1, <4>2
      <3>4. i <= Len(q) \/ i = Len(q) + 1 \/ i > Len(q) + 1
        BY <3>0, <1>1
      <3> QED
        BY <3>1, <3>2, <3>3, <3>4
    <2> QED
      <3>1. l = r
        BY <2>3, <2>4, <2>5, SeqExtensional
      <3> QED
        BY <3>1, Zenon DEF l, r
  <1>4. \A i \in 1 .. Len(q) : (q \o (w \o b))[i] = q[i]
    BY <1>1, ConcatIndex
  <1>5. ASSUME w # <<>> PROVE (q \o (w \o b))[Len(q) + 1] = Head(w)
    <2>1. Len(w) \in Nat \ {0} /\ Head(w) = w[1]
      BY <1>5, TailFacts
    <2>2. (w \o b)[1] = w[1]
      BY <1>1, <2>1, ConcatIndex
    <2>3. (q \o (w \o b))[Len(q) + 1] = (w \o b)[(Len(q) + 1) - Len(q)]
      BY <1>1, <2>1, ConcatIndex
    <2> QED
      BY <1>1, <2>1, <2>2, <2>3
  <1> QED
    BY <1>1, <1>2, <1>3, <1>4, <1>5, Zenon

(* The elements stay where they are; an accepted write adds two.           *)
LEMMA NextElement == ASSUME LInv, OrderInv, ElementInv, [Next]_vars PROVE ElementInv'
  <1>0. /\ queue \in Seq(Element) /\ wire \in Seq(Element) /\ outbuf \in Seq(Element)
        /\ accepted \in Seq(Nat) /\ cur \in Write
    BY DEF LInv, TypeOK
  <1> DEFINE Same == /\ accepted' = accepted /\ Pushed' = Pushed
                     /\ collided = TRUE => collided' = TRUE
  <1>a. Same => ElementInv'
    BY DEF ElementInv
  <1> USE DEF Pushed, mainVars, locals, flushVars, lockVars, connVars, histVars
  <1>1. ASSUME NEW sector \in Sectors, ReadWrite(sector) PROVE Same
    BY <1>1 DEF ReadWrite
  <1>2. ASSUME ReadEnds PROVE Same
    BY <1>2 DEF ReadEnds
  <1>3. ASSUME TryConnLock PROVE Same
    BY <1>3 DEF TryConnLock, DropWrite
  <1>4. ASSUME LockConn PROVE Same
    BY <1>4 DEF LockConn
  <1>5. ASSUME TryCmdLock PROVE Same
    BY <1>5 DEF TryCmdLock, DropWrite
  <1>6. ASSUME LockCmd PROVE Same
    BY <1>6 DEF LockCmd
  <1>7. ASSUME AppendPair PROVE ElementInv'
    <2> DEFINE n == cur.n
               p == Pair(n)
    <2>0. CASE collided = TRUE
      BY <1>7, <2>0 DEF AppendPair, ElementInv
    <2>1. /\ accepted' = Append(accepted, n) /\ outbuf' = outbuf \o p
          /\ queue' = queue /\ wire' = wire
      BY <1>7 DEF AppendPair
    <2>2. /\ n \in Nat /\ p \in Seq(Element) /\ Len(p) = 2
          /\ p[1] = [part |-> "sector", n |-> n] /\ p[2] = [part |-> "data", n |-> n]
      BY <1>0 DEF Pair, Element, Write
    <2> HIDE DEF n, p
    <2>3. Pushed \in Seq(Element) /\ Len(Pushed) \in Nat
      BY <1>0, PushedMoves, LenFacts
    <2>4. Pushed' = Pushed \o p
      <3> DEFINE qw == queue \o wire
      <3>1. qw \in Seq(Element)
        BY <1>0, ConcatFacts
      <3>2. Pushed = qw \o outbuf /\ Pushed' = qw \o (outbuf \o p)
        BY <2>1 DEF Pushed
      <3> HIDE DEF qw
      <3>3. (qw \o outbuf) \o p = qw \o (outbuf \o p)
        <4>1. qw \in Seq(Element) /\ outbuf \in Seq(Element) /\ p \in Seq(Element)
          BY <1>0, <2>2, <3>1
        <4> HIDE DEF Pushed
        <4>2. \A s, t, u \in Seq(Element) : (s \o t) \o u = s \o (t \o u)
          BY ConcatAssoc
        <4> QED
          BY <4>1, <4>2
      <3> QED
        BY <3>2, <3>3
    <2>5. /\ accepted' \in Seq(Nat) /\ Len(accepted') = Len(accepted) + 1
          /\ \A i \in 1 .. Len(accepted) : accepted'[i] = accepted[i]
          /\ accepted'[Len(accepted) + 1] = n
          /\ Len(accepted) \in Nat
      BY <1>0, <2>1, <2>2, AppendFacts, LenFacts
    <2>6. /\ Len(Pushed') = Len(Pushed) + 2
          /\ \A i \in 1 .. Len(Pushed) : Pushed'[i] = Pushed[i]
          /\ Pushed'[Len(Pushed) + 1] = p[1] /\ Pushed'[Len(Pushed) + 2] = p[2]
      <3> HIDE DEF Pushed
      <3>1. /\ Len(Pushed \o p) = Len(Pushed) + 2
            /\ \A i \in 1 .. Len(Pushed) + 2 : (Pushed \o p)[i] =
                 IF i <= Len(Pushed) THEN Pushed[i] ELSE p[i - Len(Pushed)]
        <4>1. /\ Len(Pushed \o p) = Len(Pushed) + Len(p)
              /\ \A i \in 1 .. Len(Pushed) + Len(p) : (Pushed \o p)[i] =
                   IF i <= Len(Pushed) THEN Pushed[i] ELSE p[i - Len(Pushed)]
          BY <2>2, <2>3, ConcatIndex, Zenon
        <4>2. Len(Pushed) + Len(p) = Len(Pushed) + 2
          BY <2>2
        <4> QED
          BY <4>1, <4>2
      <3>2. (Len(Pushed) + 1) - Len(Pushed) = 1 /\ (Len(Pushed) + 2) - Len(Pushed) = 2
        BY <2>3
      <3> QED
        BY <2>3, <2>4, <3>1, <3>2
    <2> HIDE DEF Pushed
    <2> SUFFICES ASSUME ~(collided = TRUE) PROVE ElementInv'
      BY <2>0
    <2>7. Len(Pushed) = 2 * Len(accepted)
      BY DEF ElementInv
    <2>8. ASSUME NEW i \in 1 .. Len(accepted')
          PROVE  /\ Pushed'[2 * i - 1] = [part |-> "sector", n |-> accepted'[i]]
                 /\ Pushed'[2 * i] = [part |-> "data", n |-> accepted'[i]]
      <3>1. CASE i \in 1 .. Len(accepted)
        <4>1. 2 * i - 1 \in 1 .. Len(Pushed) /\ 2 * i \in 1 .. Len(Pushed)
          BY <3>1, <2>5, <2>7
        <4>2. /\ Pushed[2 * i - 1] = [part |-> "sector", n |-> accepted[i]]
              /\ Pushed[2 * i] = [part |-> "data", n |-> accepted[i]]
          BY <3>1 DEF ElementInv
        <4>3. /\ Pushed'[2 * i - 1] = Pushed[2 * i - 1] /\ Pushed'[2 * i] = Pushed[2 * i]
              /\ accepted'[i] = accepted[i]
          BY <3>1, <4>1, <2>5, <2>6, Zenon
        <4> QED
          BY <4>2, <4>3
      <3>2. CASE i = Len(accepted) + 1
        <4>1. 2 * i - 1 = Len(Pushed) + 1 /\ 2 * i = Len(Pushed) + 2
          BY <3>2, <2>5, <2>7
        <4>2. Pushed'[2 * i - 1] = p[1] /\ Pushed'[2 * i] = p[2] /\ accepted'[i] = n
          BY <3>2, <4>1, <2>5, <2>6, Zenon
        <4> QED
          BY <4>2, <2>2
      <3> QED
        BY <3>1, <3>2, <2>5
    <2>9. Len(Pushed') = 2 * Len(accepted')
      BY <2>5, <2>6, <2>7
    <2> QED
      BY <2>8, <2>9 DEF ElementInv
  <1>8. ASSUME CountPair PROVE Same
    BY <1>8 DEF CountPair
  <1>9. ASSUME MainSemPost PROVE Same
    BY <1>9 DEF MainSemPost
  <1>10. ASSUME NEW t \in FlushThreads, CreateFlushThread(t) PROVE Same
    BY <1>10 DEF CreateFlushThread
  <1>11. ASSUME ShutdownGetValue PROVE Same
    BY <1>11 DEF ShutdownGetValue
  <1>12. ASSUME ShutdownTest PROVE Same
    BY <1>12 DEF ShutdownTest
  <1>13. ASSUME ShutdownFlushTest PROVE Same
    <2>1. accepted' = accepted /\ Pushed' = Pushed
      BY <1>13 DEF ShutdownFlushTest
    <2>2. collided = TRUE => collided' = TRUE
      BY <1>13, Zenon DEF ShutdownFlushTest
    <2> QED
      BY <2>1, <2>2
  <1>14. ASSUME ShutdownSend PROVE Same
    <2>1. /\ accepted' = accepted /\ queue' = queue /\ wire' = wire \o outbuf /\ outbuf' = <<>>
          /\ collided' = collided
      BY <1>14 DEF ShutdownSend
    <2> QED
      BY <1>0, <2>1, PushedMoves
  <1>15. ASSUME ShutdownFetch PROVE Same
    BY <1>15 DEF ShutdownFetch
  <1>16. ASSUME ShutdownLoad PROVE Same
    BY <1>16 DEF ShutdownLoad
  <1>17. ASSUME ShutdownStore PROVE Same
    BY <1>17 DEF ShutdownStore
  <1>18. ASSUME ProcessExit PROVE Same
    BY <1>18 DEF ProcessExit
  <1>19. ASSUME PeriodicCheck PROVE Same
    BY <1>19 DEF PeriodicCheck
  <1>20. ASSUME PeriodicLockCmd PROVE Same
    BY <1>20 DEF PeriodicLockCmd
  <1>21. ASSUME PeriodicTake PROVE Same
    BY <1>21 DEF PeriodicTake
  <1>22. ASSUME PeriodicZero PROVE Same
    BY <1>22 DEF PeriodicZero
  <1>23. ASSUME PeriodicSemPost PROVE Same
    BY <1>23 DEF PeriodicSemPost
  <1>24. ASSUME NEW f \in Flushers, LockFlush(f) PROVE Same
    BY <1>24 DEF LockFlush
  <1>25. ASSUME NEW f \in Flushers, EnterConnection(f) PROVE Same
    <2>1. accepted' = accepted /\ Pushed' = Pushed
      BY <1>25 DEF EnterConnection
    <2>2. collided = TRUE => collided' = TRUE
      BY <1>25, Zenon DEF EnterConnection
    <2> QED
      BY <2>1, <2>2
  <1>26. ASSUME NEW f \in Flushers, Send(f) PROVE Same
    <2>1. /\ accepted' = accepted /\ queue' = queue /\ wire' = wire \o outbuf /\ outbuf' = <<>>
          /\ collided' = collided
      BY <1>26 DEF Send
    <2> QED
      BY <1>0, <2>1, PushedMoves
  <1>27. ASSUME NEW f \in Flushers, Fetch(f) PROVE Same
    BY <1>27 DEF Fetch
  <1>28. ASSUME NEW f \in Flushers, LoopDone(f) PROVE Same
    BY <1>28 DEF LoopDone
  <1>29. ASSUME NEW f \in Flushers, SemWait(f) PROVE Same
    BY <1>29 DEF SemWait
  <1>30. ASSUME NEW f \in Flushers, UnlockFlush(f) PROVE Same
    BY <1>30 DEF UnlockFlush
  <1>31. ASSUME SendTwice PROVE ElementInv'
    <2>1. collided = TRUE /\ collided' = collided
      BY <1>31 DEF SendTwice, Collision, LInv, CollideInv
    <2> QED
      BY <2>1 DEF ElementInv
  <1>32. ASSUME OverwriteReply PROVE Same
    BY <1>32 DEF OverwriteReply, Collision
  <1>33. ASSUME CorruptHeap PROVE Same
    BY <1>33 DEF CorruptHeap, Collision
  <1>34. ASSUME RedisExecute PROVE Same
    <2>1. /\ accepted' = accepted /\ wire # <<>> /\ wire' = Tail(wire)
          /\ queue' = Append(queue, Head(wire)) /\ outbuf' = outbuf
          /\ collided' = collided
      BY <1>34 DEF RedisExecute
    <2> QED
      BY <1>0, <2>1, PushedMoves
  <1>35. ASSUME UNCHANGED vars PROVE Same
    BY <1>35 DEF vars
  <1> HIDE DEF Same, Pushed
  <1> QED
    BY <1>a, <1>1, <1>2, <1>3, <1>4, <1>5, <1>6, <1>7, <1>8, <1>9, <1>10, <1>11,
       <1>12, <1>13, <1>14, <1>15, <1>16, <1>17, <1>18, <1>19, <1>20, <1>21, <1>22,
       <1>23, <1>24, <1>25, <1>26, <1>27, <1>28, <1>29, <1>30, <1>31, <1>32, <1>33,
       <1>34, <1>35
       DEF Next, EnqueueStep, ShutdownStep, PeriodicStep, FlushStep,
           CollisionStep, Exited, Hung

(* The inductive invariant.                                                *)
PInv == LInv /\ OrderInv /\ ElementInv

(* The invariant about the elements.                                       *)
THEOREM PairInvariance == Spec => []PInv
  <1>1. Init => OrderInv /\ ElementInv
    <2> SUFFICES ASSUME Init PROVE OrderInv /\ ElementInv
      OBVIOUS
    <2>1. accepted = <<>> /\ nread = 0 /\ mpc = "read" /\ Len(accepted) = 0
      BY DEF Init
    <2>2. Pushed = <<>> /\ Len(Pushed) = 0
      BY DEF Init, Pushed
    <2> QED
      BY <2>1, <2>2, QueuerAssumption DEF OrderInv, ElementInv, BeforeAppend
  <1>2. LInv /\ OrderInv /\ [Next]_vars => OrderInv'
    BY NextOrder
  <1>3. LInv /\ OrderInv /\ ElementInv /\ [Next]_vars => ElementInv'
    BY NextElement
  <1> QED
    BY <1>1, <1>2, <1>3, LockInvariance, PTL DEF Spec, PInv

(* What is pushed or on its way is the sequence of accepted writes, each   *)
(* as its sector number and its data, whatever the flushers do, unless     *)
(* redis_shutdown and the periodic flusher met in the connection.          *)
THEOREM PairsPushed == Spec => []PushedInPairs
  <1>1. PInv => PushedInPairs
    <2>0. CASE collided = TRUE
      BY <2>0 DEF PushedInPairs
    <2> SUFFICES ASSUME PInv, ~(collided = TRUE) PROVE PushedInPairs
      BY <2>0
    <2>1. /\ Pushed \in Seq(Element) /\ accepted \in Seq(Nat) /\ Len(accepted) \in Nat
      BY PushedMoves, LenFacts DEF PInv, LInv, TypeOK, Pushed
    <2>2. Len(Pushed) = 2 * Len(accepted)
      BY DEF PInv, ElementInv
    <2>3. ASSUME NEW i \in 1 .. Len(accepted)
          PROVE  SubSeq(Pushed, 2 * i - 1, 2 * i) =
                   <<[part |-> "sector", n |-> accepted[i]], [part |-> "data", n |-> accepted[i]]>>
      <3> DEFINE a == [part |-> "sector", n |-> accepted[i]]
                 b == [part |-> "data", n |-> accepted[i]]
                 m == 2 * i - 1
      <3>1. Pushed[m] = a /\ Pushed[m + 1] = b
        <4>1. m + 1 = 2 * i
          OBVIOUS
        <4> QED
          BY <4>1 DEF PInv, ElementInv
      <3>2. /\ m \in 1 .. Len(Pushed) /\ m + 1 \in 1 .. Len(Pushed) /\ m + 1 = 2 * i
            /\ m + 1 \in m .. Len(Pushed) /\ m \in Int
        BY <2>1, <2>2
      <3> HIDE DEF a, b, m
      <3>3. a \in Element /\ b \in Element
        BY <2>1 DEF a, b, Element
      <3>4. /\ SubSeq(Pushed, m, m + 1) \in Seq(Element)
            /\ Len(SubSeq(Pushed, m, m + 1)) = 2
            /\ SubSeq(Pushed, m, m + 1)[1] = a /\ SubSeq(Pushed, m, m + 1)[2] = b
        <4>1. \A x \in m .. m + 1 : Pushed[x] \in Element
          <5> SUFFICES ASSUME NEW x \in m .. m + 1 PROVE Pushed[x] \in Element
            OBVIOUS
          <5>1. x = m \/ x = m + 1
            BY <3>2
          <5> QED
            BY <5>1, <3>1, <3>3
        <4>2. /\ SubSeq(Pushed, m, m + 1) \in Seq(Element)
              /\ Len(SubSeq(Pushed, m, m + 1)) = IF m <= m + 1 THEN (m + 1) - m + 1 ELSE 0
              /\ \A x \in 1 .. (m + 1) - m + 1 : SubSeq(Pushed, m, m + 1)[x] = Pushed[m + x - 1]
          BY <3>2, <4>1, SubSeqFacts
        <4>3. /\ m <= m + 1 /\ (m + 1) - m + 1 = 2 /\ 1 \in 1 .. 2 /\ 2 \in 1 .. 2
              /\ m + 1 - 1 = m /\ m + 2 - 1 = m + 1
          BY <3>2
        <4> QED
          BY <3>1, <4>2, <4>3
      <3>5. SubSeq(Pushed, m, m + 1) = <<a, b>>
        <4> DEFINE t == SubSeq(Pushed, m, m + 1)
        <4>1. t \in Seq(Element) /\ Len(t) = 2 /\ t[1] = a /\ t[2] = b
          BY <3>4
        <4>2. /\ <<a, b>> \in Seq(Element) /\ Len(<<a, b>>) = 2
              /\ <<a, b>>[1] = a /\ <<a, b>>[2] = b
          BY <3>3
        <4> HIDE DEF t
        <4>3. \A x \in 1 .. 2 : t[x] = <<a, b>>[x]
          <5>1. \A x \in 1 .. 2 : x = 1 \/ x = 2
            OBVIOUS
          <5> QED
            BY <4>1, <4>2, <5>1
        <4>4. t = <<a, b>>
          BY <4>1, <4>2, <4>3, SeqExtensional
        <4> QED
          BY <4>4 DEF t
      <3> QED
        BY <3>2, <3>5 DEF a, b
    <2>4. \A i, j \in 1 .. Len(accepted) : i < j => accepted[i] < accepted[j]
      BY DEF PInv, OrderInv
    <2> QED
      BY <2>2, <2>3, <2>4 DEF PushedInPairs, Pushed
  <1> QED
    BY <1>1, PairInvariance, PTL

(* RedisExecute pushes the sector number of a new write after an even      *)
(* number of elements, and the data of the last one after an odd number.   *)
LEMMA ExecutePushes == ASSUME PInv, ~(collided = TRUE), RedisExecute PROVE Producer!Next
  <1> DEFINE m == Len(queue)
  <1>1. /\ queue \in Seq(Element) /\ wire \in Seq(Element) /\ outbuf \in Seq(Element)
        /\ accepted \in Seq(Nat) /\ Len(accepted) \in Nat /\ m \in Nat
        /\ nread \in Nat /\ MaxWrites \in Nat
    BY LenFacts, QueuerAssumption DEF PInv, LInv, TypeOK
  <1>2. wire # <<>> /\ queue' = Append(queue, Head(wire))
    BY DEF RedisExecute
  <1>3. /\ Len(Pushed) = 2 * Len(accepted) /\ m + 1 <= Len(Pushed)
        /\ \A i \in 1 .. m : queue[i] = Pushed[i]
        /\ Pushed[m + 1] = Head(wire)
    <2>1. Len(wire) \in Nat \ {0} /\ Len(outbuf) \in Nat
      BY <1>1, <1>2, TailFacts, LenFacts
    <2>2. /\ Len(Pushed) = m + Len(wire) + Len(outbuf)
          /\ \A i \in 1 .. m : queue[i] = Pushed[i]
          /\ Pushed[m + 1] = Head(wire)
      BY <1>1, <1>2, PushedMoves DEF Pushed
    <2> QED
      BY <1>1, <2>1, <2>2 DEF PInv, ElementInv
  <1>4. \A i \in 1 .. Len(accepted) :
          /\ Pushed[2 * i - 1] = [part |-> "sector", n |-> accepted[i]]
          /\ Pushed[2 * i] = [part |-> "data", n |-> accepted[i]]
          /\ accepted[i] \in 1 .. MaxWrites
    BY <1>1 DEF PInv, ElementInv, OrderInv
  <1> HIDE DEF m
  <1>5. PICK k \in Nat : m = 2 * k \/ m = 2 * k + 1
    BY <1>1, Halves, Zenon
  <1>6. k + 1 \in 1 .. Len(accepted)
    BY <1>1, <1>3, <1>5
  <1>7. CASE m = 2 * k
    <2> DEFINE w == accepted[k + 1]
    <2>1. 2 * (k + 1) - 1 = m + 1
      BY <1>7
    <2>2. Head(wire) = [part |-> "sector", n |-> w] /\ w \in 1 .. MaxWrites
      BY <1>3, <1>4, <1>6, <2>1, Zenon
    <2>3. ASSUME NEW i \in 1 .. m PROVE queue[i].n # w
      <3>1. PICK j \in 1 .. k : i = 2 * j - 1 \/ i = 2 * j
        <4>1. PICK h \in Nat : i = 2 * h \/ i = 2 * h + 1
          BY Halves
        <4>2. CASE i = 2 * h
          <5>1. h \in 1 .. k
            BY <1>7, <4>2
          <5> QED
            BY <4>2, <5>1
        <4>3. CASE i = 2 * h + 1
          <5>1. h + 1 \in 1 .. k /\ i = 2 * (h + 1) - 1
            BY <1>7, <4>3
          <5> QED
            BY <5>1
        <4> QED
          BY <4>1, <4>2, <4>3
      <3>2. j \in 1 .. Len(accepted) /\ j < k + 1
        BY <1>1, <1>6
      <3>3. queue[i].n = accepted[j]
        <4>1. queue[i] = Pushed[i]
          BY <1>3
        <4>2. /\ Pushed[2 * j - 1].n = accepted[j] /\ Pushed[2 * j].n = accepted[j]
          <5>1. /\ Pushed[2 * j - 1] = [part |-> "sector", n |-> accepted[j]]
                /\ Pushed[2 * j] = [part |-> "data", n |-> accepted[j]]
            BY <1>4, <3>2, Zenon
          <5> QED
            BY <5>1
        <4> QED
          BY <3>1, <4>1, <4>2
      <3>4. accepted[j] < w /\ accepted[j] \in Nat /\ w \in Nat
        <4>1. accepted[j] \in Nat /\ w \in Nat
          <5>1. accepted[j] \in 1 .. MaxWrites
            BY <1>4, <3>2, Zenon
          <5>2. w \in 1 .. MaxWrites
            BY <2>2
          <5> HIDE DEF w
          <5> QED
            BY <1>1, <5>1, <5>2
        <4>2. \A x, y \in 1 .. Len(accepted) : x < y => accepted[x] < accepted[y]
          BY DEF PInv, OrderInv
        <4> QED
          BY <4>1, <4>2, <1>6, <3>2
      <3> QED
        BY <3>3, <3>4
    <2>4. m % 2 = 0
      BY <1>7
    <2> HIDE DEF w
    <2>5. Producer!PushSector
      BY <1>2, <2>2, <2>3, <2>4 DEF Producer!PushSector, m
    <2> QED
      BY <2>5 DEF Producer!Next
  <1>8. CASE m = 2 * k + 1
    <2>1. 2 * (k + 1) = m + 1 /\ 2 * (k + 1) - 1 = m /\ m \in 1 .. m
      BY <1>8
    <2>2. /\ Head(wire) = [part |-> "data", n |-> accepted[k + 1]]
          /\ queue[m] = [part |-> "sector", n |-> accepted[k + 1]]
      BY <1>3, <1>4, <1>6, <2>1, Zenon
    <2>3. Head(wire) = [part |-> "data", n |-> queue[m].n]
      BY <2>2
    <2>4. m % 2 = 1
      BY <1>8
    <2>5. Producer!PushData
      BY <1>2, <2>3, <2>4 DEF Producer!PushData, m
    <2> QED
      BY <2>5 DEF Producer!Next
  <1> QED
    BY <1>5, <1>7, <1>8

(* Every step pushes as a PairProducer does, or pushes nothing, or follows *)
(* a meeting of two threads in the connection.                             *)
LEMMA StepPushes == ASSUME PInv, [Next]_vars PROVE [Producer!Next \/ collided]_queue
  <1> DEFINE Same == queue' = queue
  <1>a. Same => [Producer!Next \/ collided]_queue
    OBVIOUS
  <1> USE DEF mainVars, locals, flushVars, lockVars, connVars, histVars
  <1>1. ASSUME NEW sector \in Sectors, ReadWrite(sector) PROVE Same
    BY <1>1 DEF ReadWrite
  <1>2. ASSUME ReadEnds PROVE Same
    BY <1>2 DEF ReadEnds
  <1>3. ASSUME TryConnLock PROVE Same
    BY <1>3 DEF TryConnLock, DropWrite
  <1>4. ASSUME LockConn PROVE Same
    BY <1>4 DEF LockConn
  <1>5. ASSUME TryCmdLock PROVE Same
    BY <1>5 DEF TryCmdLock, DropWrite
  <1>6. ASSUME LockCmd PROVE Same
    BY <1>6 DEF LockCmd
  <1>7. ASSUME AppendPair PROVE Same
    BY <1>7 DEF AppendPair
  <1>8. ASSUME CountPair PROVE Same
    BY <1>8 DEF CountPair
  <1>9. ASSUME MainSemPost PROVE Same
    BY <1>9 DEF MainSemPost
  <1>10. ASSUME NEW t \in FlushThreads, CreateFlushThread(t) PROVE Same
    BY <1>10 DEF CreateFlushThread
  <1>11. ASSUME ShutdownGetValue PROVE Same
    BY <1>11 DEF ShutdownGetValue
  <1>12. ASSUME ShutdownTest PROVE Same
    BY <1>12 DEF ShutdownTest
  <1>13. ASSUME ShutdownFlushTest PROVE Same
    BY <1>13 DEF ShutdownFlushTest
  <1>14. ASSUME ShutdownSend PROVE Same
    BY <1>14 DEF ShutdownSend
  <1>15. ASSUME ShutdownFetch PROVE Same
    BY <1>15 DEF ShutdownFetch
  <1>16. ASSUME ShutdownLoad PROVE Same
    BY <1>16 DEF ShutdownLoad
  <1>17. ASSUME ShutdownStore PROVE Same
    BY <1>17 DEF ShutdownStore
  <1>18. ASSUME ProcessExit PROVE Same
    BY <1>18 DEF ProcessExit
  <1>19. ASSUME PeriodicCheck PROVE Same
    BY <1>19 DEF PeriodicCheck
  <1>20. ASSUME PeriodicLockCmd PROVE Same
    BY <1>20 DEF PeriodicLockCmd
  <1>21. ASSUME PeriodicTake PROVE Same
    BY <1>21 DEF PeriodicTake
  <1>22. ASSUME PeriodicZero PROVE Same
    BY <1>22 DEF PeriodicZero
  <1>23. ASSUME PeriodicSemPost PROVE Same
    BY <1>23 DEF PeriodicSemPost
  <1>24. ASSUME NEW f \in Flushers, LockFlush(f) PROVE Same
    BY <1>24 DEF LockFlush
  <1>25. ASSUME NEW f \in Flushers, EnterConnection(f) PROVE Same
    BY <1>25 DEF EnterConnection
  <1>26. ASSUME NEW f \in Flushers, Send(f) PROVE Same
    BY <1>26 DEF Send
  <1>27. ASSUME NEW f \in Flushers, Fetch(f) PROVE Same
    BY <1>27 DEF Fetch
  <1>28. ASSUME NEW f \in Flushers, LoopDone(f) PROVE Same
    BY <1>28 DEF LoopDone
  <1>29. ASSUME NEW f \in Flushers, SemWait(f) PROVE Same
    BY <1>29 DEF SemWait
  <1>30. ASSUME NEW f \in Flushers, UnlockFlush(f) PROVE Same
    BY <1>30 DEF UnlockFlush
  <1>31. ASSUME SendTwice PROVE Same
    BY <1>31 DEF SendTwice, Collision
  <1>32. ASSUME OverwriteReply PROVE Same
    BY <1>32 DEF OverwriteReply, Collision
  <1>33. ASSUME CorruptHeap PROVE Same
    BY <1>33 DEF CorruptHeap, Collision
  <1>34. ASSUME RedisExecute PROVE [Producer!Next \/ collided]_queue
    <2>1. CASE collided = TRUE
      BY <2>1, Zenon
    <2> QED
      BY <1>34, <2>1, ExecutePushes, Zenon
  <1>35. ASSUME UNCHANGED vars PROVE Same
    BY <1>35 DEF vars
  <1> HIDE DEF Same
  <1> QED
    BY <1>a, <1>1, <1>2, <1>3, <1>4, <1>5, <1>6, <1>7, <1>8, <1>9, <1>10, <1>11,
       <1>12, <1>13, <1>14, <1>15, <1>16, <1>17, <1>18, <1>19, <1>20, <1>21, <1>22,
       <1>23, <1>24, <1>25, <1>26, <1>27, <1>28, <1>29, <1>30, <1>31, <1>32, <1>33,
       <1>34, <1>35
       DEF Next, EnqueueStep, ShutdownStep, PeriodicStep, FlushStep,
           CollisionStep, Exited, Hung

(* The async queuer implements PairProducer: seen from the Redis list      *)
(* there are only whole writes, in stream order, for any number of         *)
(* threads, any thresholds and any stream, as long as redis_shutdown does  *)
(* not meet the periodic flusher in the connection.                        *)
THEOREM ImplementsPairProducer == Spec => ProducesPairs
  <1>1. Init => Producer!Init
    BY DEF Init, Producer!Init
  <1>2. PInv /\ [Next]_vars => [Producer!Next \/ collided]_queue
    BY StepPushes
  <1> QED
    BY <1>1, <1>2, PairInvariance, PTL DEF Spec, ProducesPairs
=============================================================================
