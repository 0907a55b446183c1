--------------------------- MODULE KvStoreProofs ---------------------------
(***************************************************************************)
(* The safety invariants of KvStore, for any keys and values, any pipeline *)
(* threshold and any number of commands.                                   *)
(*                                                                         *)
(* None of them is inductive.  What carries them is that the commands      *)
(* whose replies have not been fetched are consecutively numbered: first   *)
(* the replies, then what is on the wire, then the output buffer (Tagged), *)
(* and that the pending commands account for the difference between the    *)
(* server's store and what the calls made so far should leave (Effect).    *)
(***************************************************************************)
EXTENDS KvStore, SequenceLemmas, TLAPS

(* Commands the server has not executed.                                   *)
Pending == wire \o outbuf

(* Replies the calling thread still has to fetch.                          *)
Owed == outstanding + (IF pc = "await" THEN 1 ELSE 0)

(* Replies and pending commands are the last ones issued, in order.        *)
Tagged ==
    /\ \A i \in 1 .. Len(replies) : replies[i].id = (issued - Owed) + i
    /\ conn = "up" => \A i \in 1 .. Len(Pending) :
         Pending[i].id = (issued - Owed) + Len(replies) + i

Sets(c, k) == c.op = "set" /\ c.key = k

(* The last pending command that sets a key sets it to what the calls made *)
(* so far should leave there; a key no pending command sets holds it.      *)
Effect ==
    conn = "up" => \A k \in Keys :
      \/ /\ store[k] = view[k]
         /\ \A i \in 1 .. Len(Pending) : ~Sets(Pending[i], k)
      \/ \E i \in 1 .. Len(Pending) :
           /\ Sets(Pending[i], k)
           /\ Pending[i].val = view[k]
           /\ \A j \in 1 .. Len(Pending) : i < j => ~Sets(Pending[j], k)

(* A broken connection carries nothing to the server, and no more replies  *)
(* than are owed.                                                          *)
LostEmpty == conn = "lost" => wire = <<>> /\ Len(replies) <= Owed

ConnInv == Balanced /\ Tagged /\ Effect /\ LostEmpty

FlushFirst == {"read", "check", "reset"}

(* The synchronous call in progress: it knows its command, and one that    *)
(* flushes first has nothing outstanding unless the connection is dead.    *)
CallInv ==
    /\ pc = "flush" => call.op \in FlushFirst \cup {"none", "close"}
    /\ pc = "await" =>
         /\ call.op \notin {"none", "close"}
         /\ call.id = issued
         /\ call.lag = outstanding
         /\ call.op \in FlushFirst /\ (conn = "up" \/ replies # <<>>) => outstanding = 0

(* The read in progress: its command, and then its reply, carry the value  *)
(* it has to return.                                                       *)
ReadInv ==
    pc = "await" /\ call.op = "read" =>
      /\ call.expect = view[call.key]
      /\ conn = "up" /\ Pending # <<>> =>
           Pending[1].op = "get" /\ Pending[1].key = call.key
      /\ replies # <<>> =>
           (IF replies[1].string THEN replies[1].val ELSE Nil) = call.expect

(* The counter stays below the threshold; only the pipelined call that     *)
(* reaches it flushes with the threshold outstanding.                      *)
BoundInv ==
    /\ pc \in {"idle", "await"} => outstanding < REDIS_DEFAULT_PIPELINED
    /\ pc = "flush" /\ call.op # "none" => outstanding < REDIS_DEFAULT_PIPELINED
    /\ pc = "flush" => outstanding <= REDIS_DEFAULT_PIPELINED
    /\ pc = "closed" /\ conn = "up" => outstanding = 0

ResultInv == FlushedCallGetsOwnReply /\ UnflushedReplyLag

IInv == TypeOK /\ ConnInv /\ CallInv /\ ReadInv /\ BoundInv /\ ResultInv

----------------------------------------------------------------------------
(* The types, in the form in which the proofs use them.                    *)
LEMMA ConnTypes ==
    ASSUME TypeOK
    PROVE  /\ wire \in Seq(Command) /\ outbuf \in Seq(Command)
           /\ replies \in Seq(Reply) /\ Pending \in Seq(Command)
           /\ Len(wire) \in Nat /\ Len(outbuf) \in Nat
           /\ Len(replies) \in Nat /\ Len(Pending) = Len(wire) + Len(outbuf)
           /\ Owed \in Nat /\ issued \in Nat /\ outstanding \in Nat
           /\ store \in [Keys -> Values \cup {Nil}]
           /\ view \in [Keys -> Values \cup {Nil}]
           /\ conn \in {"up", "lost"}
  BY ConcatFacts, LenFacts DEF TypeOK, Pending, Owed

(* redisAppendCommand puts one more pending command at the end.            *)
LEMMA AppendPending ==
    ASSUME TypeOK,
           NEW op \in {"set", "get", "publish"}, NEW k \in Keys,
           NEW v \in Values \cup {Nil},
           AppendCommand(op, k, v), UNCHANGED wire
    PROVE  \E c \in Command :
             /\ c.op = op /\ c.key = k /\ c.val = v /\ c.id = issued + 1
             /\ outbuf' \in Seq(Command)
             /\ Pending' = Append(Pending, c)
             /\ Len(Pending') = Len(Pending) + 1
             /\ Len(outbuf') = Len(outbuf) + 1
             /\ \A i \in 1 .. Len(Pending) : Pending'[i] = Pending[i]
             /\ Pending'[Len(Pending) + 1] = c
             /\ issued' = issued + 1
             /\ view' \in [Keys -> Values \cup {Nil}]
             /\ \A j \in Keys : view'[j] = IF op = "set" /\ j = k THEN v ELSE view[j]
  <1> DEFINE c == [op |-> op, key |-> k, val |-> v, id |-> issued + 1]
  <1>1. c \in Command
    BY ConnTypes DEF Command
  <1>2. c.op = op /\ c.key = k /\ c.val = v /\ c.id = issued + 1
    OBVIOUS
  <1>3. outbuf' = Append(outbuf, c) /\ issued' = issued + 1 /\ wire' = wire
    BY DEF AppendCommand
  <1>4. /\ view' \in [Keys -> Values \cup {Nil}]
        /\ \A j \in Keys : view'[j] = IF op = "set" /\ j = k THEN v ELSE view[j]
    BY ConnTypes DEF AppendCommand
  <1> HIDE DEF c
  <1>5. Pending' = Append(Pending, c)
    BY <1>1, <1>3, ConnTypes, ConcatFacts DEF Pending
  <1>6. /\ Len(Pending') = Len(Pending) + 1
        /\ \A i \in 1 .. Len(Pending) : Pending'[i] = Pending[i]
        /\ Pending'[Len(Pending) + 1] = c
    BY <1>1, <1>5, ConnTypes, AppendFacts
  <1>7. outbuf' \in Seq(Command) /\ Len(outbuf') = Len(outbuf) + 1
    BY <1>1, <1>3, ConnTypes, AppendFacts
  <1> QED
    BY <1>1, <1>2, <1>3, <1>4, <1>5, <1>6, <1>7

(* A pending command more leaves every key with its due value to come.     *)
LEMMA AppendEffect ==
    ASSUME TypeOK, Effect,
           NEW op \in {"set", "get", "publish"}, NEW k \in Keys,
           NEW v \in Values \cup {Nil},
           AppendCommand(op, k, v), UNCHANGED <<store, wire, conn>>
    PROVE  Effect'
  <1>1. PICK c \in Command :
             /\ c.op = op /\ c.key = k /\ c.val = v
             /\ Len(Pending') = Len(Pending) + 1
             /\ \A i \in 1 .. Len(Pending) : Pending'[i] = Pending[i]
             /\ Pending'[Len(Pending) + 1] = c
             /\ \A j \in Keys : view'[j] = IF op = "set" /\ j = k THEN v ELSE view[j]
    BY AppendPending
  <1>2. Len(Pending) \in Nat
    BY ConnTypes
  <1> SUFFICES ASSUME conn = "up", NEW j \in Keys
               PROVE  \/ /\ store'[j] = view'[j]
                         /\ \A i \in 1 .. Len(Pending') : ~Sets(Pending'[i], j)
                      \/ \E i \in 1 .. Len(Pending') :
                           /\ Sets(Pending'[i], j)
                           /\ Pending'[i].val = view'[j]
                           /\ \A m \in 1 .. Len(Pending') : i < m => ~Sets(Pending'[m], j)
    BY DEF Effect
  <1>3. CASE op = "set" /\ j = k
    <2>1. Len(Pending) + 1 \in 1 .. Len(Pending')
      BY <1>1, <1>2
    <2>2. Sets(Pending'[Len(Pending) + 1], j) /\ Pending'[Len(Pending) + 1].val = view'[j]
      BY <1>1, <1>3 DEF Sets
    <2>3. \A m \in 1 .. Len(Pending') : ~(Len(Pending) + 1 < m)
      BY <1>1, <1>2
    <2> QED
      BY <2>1, <2>2, <2>3
  <1>4. CASE ~(op = "set" /\ j = k)
    <2>1. ~Sets(Pending'[Len(Pending) + 1], j) /\ view'[j] = view[j]
      BY <1>1, <1>4 DEF Sets
    <2>2. CASE store[j] = view[j] /\ \A i \in 1 .. Len(Pending) : ~Sets(Pending[i], j)
      <3>1. \A i \in 1 .. Len(Pending') : ~Sets(Pending'[i], j)
        BY <1>1, <1>2, <2>1, <2>2
      <3> QED
        BY <2>1, <2>2, <3>1
    <2>3. CASE \E i \in 1 .. Len(Pending) :
                 /\ Sets(Pending[i], j)
                 /\ Pending[i].val = view[j]
                 /\ \A m \in 1 .. Len(Pending) : i < m => ~Sets(Pending[m], j)
      <3>1. PICK i \in 1 .. Len(Pending) :
                 /\ Sets(Pending[i], j)
                 /\ Pending[i].val = view[j]
                 /\ \A m \in 1 .. Len(Pending) : i < m => ~Sets(Pending[m], j)
        BY <2>3
      <3>2. i \in 1 .. Len(Pending')
        BY <1>1, <1>2
      <3>3. \A m \in 1 .. Len(Pending') : i < m => ~Sets(Pending'[m], j)
        BY <1>1, <1>2, <2>1, <3>1
      <3>4. Sets(Pending'[i], j) /\ Pending'[i].val = view'[j]
        BY <1>1, <2>1, <3>1
      <3> QED
        BY <3>2, <3>3, <3>4
    <2> QED
      BY <2>2, <2>3 DEF Effect
  <1> QED
    BY <1>3, <1>4

(* A call issues a command and owes one more reply.                        *)
LEMMA AppendConn ==
    ASSUME TypeOK, ConnInv,
           NEW op \in {"set", "get", "publish"}, NEW k \in Keys,
           NEW v \in Values \cup {Nil},
           AppendCommand(op, k, v), UNCHANGED <<store, wire, replies, conn>>,
           Owed' = Owed + 1
    PROVE  ConnInv'
  <1>1. PICK c \in Command :
             /\ c.id = issued + 1
             /\ Len(Pending') = Len(Pending) + 1
             /\ Len(outbuf') = Len(outbuf) + 1
             /\ \A i \in 1 .. Len(Pending) : Pending'[i] = Pending[i]
             /\ Pending'[Len(Pending) + 1] = c
             /\ issued' = issued + 1
    BY AppendPending
  <1>2. /\ Len(wire) \in Nat /\ Len(outbuf) \in Nat /\ Len(replies) \in Nat
        /\ Owed \in Nat /\ issued \in Nat /\ Len(Pending) = Len(wire) + Len(outbuf)
    BY ConnTypes
  <1>3. conn = "up" => Len(replies) + Len(wire) + Len(outbuf) = Owed
    BY DEF ConnInv, Balanced, Owed
  <1>4. Balanced'
    BY <1>1, <1>2, <1>3 DEF Balanced, Owed
  <1>5. Tagged'
    <2>1. issued' - Owed' = issued - Owed
      BY <1>1, <1>2
    <2>2. \A i \in 1 .. Len(Pending') : i \in 1 .. Len(Pending) \/ i = Len(Pending) + 1
      <3>1. Len(Pending') = Len(Pending) + 1 /\ Len(Pending) \in Nat
        BY <1>1, <1>2
      <3> QED
        BY <3>1, SplitLast
    <2>3. conn = "up" => issued + 1 = (issued - Owed) + Len(replies) + (Len(Pending) + 1)
      BY <1>2, <1>3
    <2>4. conn = "up" => \A i \in 1 .. Len(Pending') :
            Pending'[i].id = (issued - Owed) + Len(replies) + i
      BY <1>1, <2>2, <2>3 DEF ConnInv, Tagged
    <2>5. \A i \in 1 .. Len(replies) : replies[i].id = (issued - Owed) + i
      BY DEF ConnInv, Tagged
    <2> QED
      BY <2>1, <2>4, <2>5 DEF Tagged
  <1>6. Effect'
    BY AppendEffect DEF ConnInv
  <1>7. LostEmpty'
    BY <1>2 DEF ConnInv, LostEmpty
  <1> QED
    BY <1>4, <1>5, <1>6, <1>7 DEF ConnInv

(* The oldest reply is fetched and owed no more.                           *)
LEMMA FetchConn ==
    ASSUME TypeOK, ConnInv, replies # <<>>, replies' = Tail(replies),
           UNCHANGED <<store, wire, outbuf, conn, issued, view>>,
           Owed' = Owed - 1
    PROVE  ConnInv'
  <1>1. /\ Len(replies) \in Nat \ {0}
        /\ Len(replies') = Len(replies) - 1
        /\ \A i \in 1 .. Len(replies') : replies'[i] = replies[i + 1]
    BY ConnTypes, TailFacts
  <1>2. /\ Len(wire) \in Nat /\ Len(outbuf) \in Nat /\ Len(Pending) \in Nat
        /\ Owed \in Nat /\ issued \in Nat /\ Pending' = Pending
    BY ConnTypes DEF Pending
  <1>3. Balanced'
    BY <1>1, <1>2 DEF ConnInv, Balanced, Owed
  <1>4. Tagged'
    <2>1. ASSUME NEW i \in 1 .. Len(replies')
          PROVE  replies'[i].id = (issued' - Owed') + i
      <3>1. i + 1 \in 1 .. Len(replies)
        BY <1>1
      <3>2. replies[i + 1].id = (issued - Owed) + (i + 1)
        BY <3>1 DEF ConnInv, Tagged
      <3> QED
        BY <1>1, <1>2, <3>2
    <2>2. \A i \in 1 .. Len(Pending) :
            (issued' - Owed') + Len(replies') + i = (issued - Owed) + Len(replies) + i
      BY <1>1, <1>2
    <2> QED
      BY <1>2, <2>1, <2>2 DEF ConnInv, Tagged
  <1>5. Effect' /\ LostEmpty'
    BY <1>1, <1>2 DEF ConnInv, Effect, LostEmpty
  <1> QED
    BY <1>3, <1>4, <1>5 DEF ConnInv

(* A reply is fetched and the call issues its second command.              *)
LEMMA FetchAppendConn ==
    ASSUME TypeOK, ConnInv, replies # <<>>, replies' = Tail(replies),
           NEW op \in {"set", "get", "publish"}, NEW k \in Keys,
           NEW v \in Values \cup {Nil},
           AppendCommand(op, k, v), UNCHANGED <<store, wire, conn>>,
           Owed' = Owed
    PROVE  ConnInv'
  <1>1. PICK c \in Command :
             /\ c.id = issued + 1
             /\ Len(Pending') = Len(Pending) + 1
             /\ Len(outbuf') = Len(outbuf) + 1
             /\ \A i \in 1 .. Len(Pending) : Pending'[i] = Pending[i]
             /\ Pending'[Len(Pending) + 1] = c
             /\ issued' = issued + 1
    BY AppendPending
  <1>2. /\ Len(wire) \in Nat /\ Len(outbuf) \in Nat
        /\ Owed \in Nat /\ issued \in Nat /\ Len(Pending) = Len(wire) + Len(outbuf)
    BY ConnTypes
  <1>3. /\ Len(replies) \in Nat \ {0}
        /\ Len(replies') = Len(replies) - 1
        /\ \A i \in 1 .. Len(replies') : replies'[i] = replies[i + 1]
    BY ConnTypes, TailFacts
  <1>4. conn = "up" => Len(replies) + Len(wire) + Len(outbuf) = Owed
    BY DEF ConnInv, Balanced, Owed
  <1>5. Balanced'
    BY <1>1, <1>2, <1>3, <1>4 DEF Balanced, Owed
  <1>6. Tagged'
    <2>1. ASSUME NEW i \in 1 .. Len(replies')
          PROVE  replies'[i].id = (issued' - Owed') + i
      <3>1. i + 1 \in 1 .. Len(replies)
        BY <1>3
      <3>2. replies[i + 1].id = (issued - Owed) + (i + 1)
        BY <3>1 DEF ConnInv, Tagged
      <3> QED
        BY <1>1, <1>2, <1>3, <3>2
    <2>2. ASSUME conn = "up", NEW i \in 1 .. Len(Pending')
          PROVE  Pending'[i].id = (issued' - Owed') + Len(replies') + i
      <3>1. CASE i \in 1 .. Len(Pending)
        <4>1. Pending[i].id = (issued - Owed) + Len(replies) + i
          BY <2>2, <3>1 DEF ConnInv, Tagged
        <4> QED
          BY <1>1, <1>2, <1>3, <3>1, <4>1
      <3>2. CASE i = Len(Pending) + 1
        BY <1>1, <1>2, <1>3, <1>4, <2>2, <3>2
      <3>3. i \in 1 .. Len(Pending) \/ i = Len(Pending) + 1
        <4>1. Len(Pending') = Len(Pending) + 1 /\ Len(Pending) \in Nat
          BY <1>1, <1>2
        <4> QED
          BY <4>1, SplitLast
      <3> QED
        BY <3>1, <3>2, <3>3
    <2> QED
      BY <2>1, <2>2 DEF Tagged
  <1>7. Effect'
    BY AppendEffect DEF ConnInv
  <1>8. LostEmpty'
    BY <1>2, <1>3 DEF ConnInv, LostEmpty
  <1> QED
    BY <1>5, <1>6, <1>7, <1>8 DEF ConnInv

(* Nothing happens on the connection.                                      *)
LEMMA SameConn ==
    ASSUME TypeOK, ConnInv,
           UNCHANGED <<store, wire, outbuf, replies, conn, issued, view>>, Owed' = Owed
    PROVE  ConnInv'
  <1>1. Pending' = Pending
    BY DEF Pending
  <1> QED
    BY <1>1 DEF ConnInv, Balanced, Tagged, Effect, LostEmpty, Owed

(* On a dead connection with no reply left nothing more is promised.       *)
LEMMA DeadConn ==
    ASSUME ConnInv, conn = "lost", replies = <<>>,
           UNCHANGED <<wire, replies, conn>>, Owed' \in Nat
    PROVE  ConnInv'
  <1>1. Len(replies') = 0
    BY EmptyFacts
  <1> QED
    BY <1>1 DEF ConnInv, Balanced, Tagged, Effect, LostEmpty

(* The output buffer is sent.                                              *)
LEMMA SendConn ==
    ASSUME TypeOK, ConnInv, SendBuffer
    PROVE  ConnInv' /\ Pending' = Pending
  <1>1. /\ wire' = wire \o outbuf /\ outbuf' = <<>> /\ conn = "up"
        /\ UNCHANGED <<store, replies, outstanding, conn, pc, issued, view>>
    BY DEF SendBuffer, ghostVars
  <1>2. /\ wire \in Seq(Command) /\ outbuf \in Seq(Command)
        /\ Len(wire) \in Nat /\ Len(outbuf) \in Nat
    BY ConnTypes
  <1>3. wire' \in Seq(Command) /\ Len(wire') = Len(wire) + Len(outbuf)
    BY <1>1, <1>2, ConcatFacts
  <1>4. Pending' = Pending
    BY <1>1, <1>2, <1>3, ConcatFacts DEF Pending
  <1>5. Len(outbuf') = 0
    BY <1>1, EmptyFacts
  <1>6. Owed' = Owed
    BY <1>1 DEF Owed
  <1>7. Balanced'
    BY <1>1, <1>2, <1>3, <1>5 DEF ConnInv, Balanced
  <1> QED
    BY <1>1, <1>4, <1>6, <1>7 DEF ConnInv, Tagged, Effect, LostEmpty

(* What the server does with the next pending command.                     *)
LEMMA ExecuteFacts ==
    ASSUME TypeOK, ConnInv, RedisExecute
    PROVE  /\ conn = "up" /\ Pending # <<>>
           /\ Len(Pending) \in Nat \ {0}
           /\ Pending[1] \in Command
           /\ wire' \in Seq(Command)
           /\ Len(wire') = Len(wire) - 1
           /\ Len(Pending') = Len(Pending) - 1
           /\ \A i \in 1 .. Len(Pending') : Pending'[i] = Pending[i + 1]
           /\ store' \in [Keys -> Values \cup {Nil}]
           /\ \A k \in Keys : store'[k] = IF Sets(Pending[1], k) THEN Pending[1].val
                                                                 ELSE store[k]
           /\ \E r \in Reply :
                /\ r.id = Pending[1].id
                /\ Pending[1].op = "get" =>
                     (IF r.string THEN r.val ELSE Nil) = store[Pending[1].key]
                /\ replies' = Append(replies, r)
  <1>1. wire # <<>> /\ wire' = Tail(wire) /\ outbuf' = outbuf
    BY DEF RedisExecute
  <1>2. /\ wire \in Seq(Command) /\ outbuf \in Seq(Command) /\ Pending \in Seq(Command)
        /\ store \in [Keys -> Values \cup {Nil}] /\ conn \in {"up", "lost"}
    BY ConnTypes
  <1>3. conn = "up"
    BY <1>1, <1>2 DEF ConnInv, LostEmpty
  <1>4. Pending # <<>> /\ Head(Pending) = Head(wire) /\ Pending' = Tail(Pending)
    BY <1>1, <1>2, ConcatFacts DEF Pending
  <1>5. /\ Len(Pending) \in Nat \ {0}
        /\ Head(wire) = Pending[1] /\ Pending[1] \in Command
        /\ Len(Pending') = Len(Pending) - 1
        /\ \A i \in 1 .. Len(Pending') : Pending'[i] = Pending[i + 1]
    BY <1>2, <1>4, TailFacts
  <1>6. wire' \in Seq(Command) /\ Len(wire') = Len(wire) - 1
    BY <1>1, <1>2, TailFacts
  <1> DEFINE c == Head(wire)
             r == [id |-> c.id,
                   string |-> c.op = "get" /\ store[c.key] # Nil,
                   val |-> IF c.op = "get" THEN store[c.key] ELSE Nil]
  <1>7. /\ c.op \in {"set", "get", "publish"} /\ c.key \in Keys
        /\ c.val \in Values \cup {Nil} /\ c.id \in Nat
    BY <1>5 DEF Command
  <1>8. /\ store' \in [Keys -> Values \cup {Nil}]
        /\ \A k \in Keys : store'[k] = IF Sets(c, k) THEN c.val ELSE store[k]
    BY <1>2, <1>7 DEF RedisExecute, Sets
  <1>9. /\ r \in Reply /\ r.id = c.id
        /\ c.op = "get" => (IF r.string THEN r.val ELSE Nil) = store[c.key]
    BY <1>2, <1>7, Zenon DEF Reply
  <1>10. replies' = Append(replies, r)
    BY DEF RedisExecute
  <1> QED
    BY <1>3, <1>4, <1>5, <1>6, <1>8, <1>9, <1>10

(* The server executes the oldest pending command; its reply follows the   *)
(* replies that were there.                                                *)
LEMMA ExecuteConn ==
    ASSUME TypeOK, ConnInv, RedisExecute
    PROVE  ConnInv'
  <1>1. /\ conn = "up"
        /\ Len(Pending) \in Nat \ {0}
        /\ Len(wire') = Len(wire) - 1
        /\ Len(Pending') = Len(Pending) - 1
        /\ \A i \in 1 .. Len(Pending') : Pending'[i] = Pending[i + 1]
        /\ \A k \in Keys : store'[k] = IF Sets(Pending[1], k) THEN Pending[1].val
                                                              ELSE store[k]
    BY ExecuteFacts
  <1>2. PICK r \in Reply : r.id = Pending[1].id /\ replies' = Append(replies, r)
    BY ExecuteFacts
  <1>3. /\ Len(wire) \in Nat /\ Len(outbuf) \in Nat /\ Len(replies) \in Nat
        /\ Owed \in Nat /\ issued \in Nat /\ outstanding \in Nat
    BY ConnTypes
  <1>4. /\ Len(replies') = Len(replies) + 1
        /\ \A i \in 1 .. Len(replies) : replies'[i] = replies[i]
        /\ replies'[Len(replies) + 1] = r
    BY <1>2, ConnTypes, AppendFacts
  <1>5. UNCHANGED <<outbuf, outstanding, conn, pc, issued, view>> /\ Owed' = Owed
    BY DEF RedisExecute, ghostVars, Owed
  <1>6. Balanced'
    <2>1. Len(replies) + Len(wire) + Len(outbuf) = Owed
      BY <1>1 DEF ConnInv, Balanced, Owed
    <2>2. Len(replies') + Len(wire') + Len(outbuf') = Owed'
      <3>1. Len(outbuf') = Len(outbuf)
        BY <1>5
      <3>2. Len(replies') + Len(wire') + Len(outbuf') = Len(replies) + Len(wire) + Len(outbuf)
        BY <1>1, <1>3, <1>4, <3>1
      <3> QED
        BY <1>5, <2>1, <3>2
    <2> QED
      BY <2>2 DEF Balanced, Owed
  <1>7. Tagged'
    <2>1. \A i \in 1 .. Len(Pending) : Pending[i].id = (issued - Owed) + Len(replies) + i
      BY <1>1 DEF ConnInv, Tagged
    <2>2. r.id = (issued - Owed) + (Len(replies) + 1)
      BY <1>1, <1>2, <1>3, <2>1
    <2>3. \A i \in 1 .. Len(replies') : i \in 1 .. Len(replies) \/ i = Len(replies) + 1
      BY <1>3, <1>4
    <2>4. \A i \in 1 .. Len(replies') : replies'[i].id = (issued - Owed) + i
      BY <1>4, <2>2, <2>3 DEF ConnInv, Tagged
    <2>5. ASSUME NEW i \in 1 .. Len(Pending')
          PROVE  Pending'[i].id = (issued - Owed) + Len(replies') + i
      <3>1. i + 1 \in 1 .. Len(Pending)
        BY <1>1
      <3>2. (issued - Owed) + Len(replies) + (i + 1) = (issued - Owed) + Len(replies') + i
        BY <1>3, <1>4
      <3> QED
        BY <1>1, <2>1, <3>1, <3>2
    <2> QED
      BY <1>5, <2>4, <2>5 DEF Tagged
  <1>8. Effect'
    <2> SUFFICES ASSUME NEW k \in Keys
                 PROVE  \/ /\ store'[k] = view[k]
                           /\ \A i \in 1 .. Len(Pending') : ~Sets(Pending'[i], k)
                        \/ \E i \in 1 .. Len(Pending') :
                             /\ Sets(Pending'[i], k)
                             /\ Pending'[i].val = view[k]
                             /\ \A j \in 1 .. Len(Pending') : i < j => ~Sets(Pending'[j], k)
      BY <1>5 DEF Effect
    <2>1. \A i \in 1 .. Len(Pending') : i + 1 \in 1 .. Len(Pending) /\ 1 < i + 1
      BY <1>1
    <2>2. 1 \in 1 .. Len(Pending)
      BY <1>1
    <2>3. CASE store[k] = view[k] /\ \A i \in 1 .. Len(Pending) : ~Sets(Pending[i], k)
      BY <1>1, <2>1, <2>2, <2>3
    <2>4. CASE \E i \in 1 .. Len(Pending) :
                 /\ Sets(Pending[i], k)
                 /\ Pending[i].val = view[k]
                 /\ \A j \in 1 .. Len(Pending) : i < j => ~Sets(Pending[j], k)
      <3>1. PICK i \in 1 .. Len(Pending) :
                 /\ Sets(Pending[i], k)
                 /\ Pending[i].val = view[k]
                 /\ \A j \in 1 .. Len(Pending) : i < j => ~Sets(Pending[j], k)
        BY <2>4
      <3>2. CASE i = 1
        <4>1. \A j \in 1 .. Len(Pending') : ~Sets(Pending'[j], k)
          BY <1>1, <2>1, <3>1, <3>2
        <4>2. store'[k] = view[k]
          BY <1>1, <3>1, <3>2
        <4> QED
          BY <4>1, <4>2
      <3>3. CASE i # 1
        <4>1. PICK m \in 1 .. Len(Pending') : m + 1 = i
          <5>1. i - 1 \in 1 .. Len(Pending') /\ (i - 1) + 1 = i
            BY <1>1, <3>3
          <5> QED
            BY <5>1
        <4>2. Sets(Pending'[m], k) /\ Pending'[m].val = view[k]
          BY <1>1, <3>1, <4>1, Zenon
        <4>3. ASSUME NEW j \in 1 .. Len(Pending'), m < j PROVE ~Sets(Pending'[j], k)
          <5>1. i < j + 1
            BY <4>1, <4>3
          <5> QED
            BY <1>1, <2>1, <3>1, <5>1
        <4> QED
          BY <4>2, <4>3
      <3> QED
        BY <3>2, <3>3
    <2> QED
      BY <1>1, <2>3, <2>4 DEF ConnInv, Effect
  <1>9. LostEmpty'
    BY <1>1, <1>5 DEF LostEmpty
  <1> QED
    BY <1>6, <1>7, <1>8, <1>9 DEF ConnInv

(* A broken connection keeps the oldest of the replies.                    *)
LEMMA BreakConn ==
    ASSUME TypeOK, ConnInv, ConnectionLost
    PROVE  /\ ConnInv' /\ replies' \in Seq(Reply)
           /\ replies' # <<>> => replies # <<>> /\ replies'[1] = replies[1]
  <1>1. /\ conn' = "lost" /\ wire' = <<>>
        /\ UNCHANGED <<outstanding, pc, issued>>
    BY DEF ConnectionLost, ghostVars
  <1>2. PICK n \in 0 .. Len(replies) : replies' = SubSeq(replies, 1, n)
    BY DEF ConnectionLost
  <1>3. replies \in Seq(Reply) /\ Len(replies) \in Nat
    BY ConnTypes
  <1>4. /\ replies' \in Seq(Reply) /\ Len(replies') = n
        /\ \A i \in 1 .. n : replies'[i] = replies[i]
    BY <1>2, <1>3, SubSeqFacts
  <1>5. \A i \in 1 .. n : i \in 1 .. Len(replies)
    BY <1>3
  <1>6. Owed' = Owed
    BY <1>1 DEF Owed
  <1>7. ConnInv'
    <2>1. Len(replies') <= Owed'
      BY <1>3, <1>4, <1>6, ConnTypes DEF ConnInv, Balanced, LostEmpty, Owed
    <2> QED
      BY <1>1, <1>4, <1>5, <1>6, <2>1 DEF ConnInv, Balanced, Tagged, Effect, LostEmpty
  <1>8. replies' # <<>> => replies # <<>> /\ replies'[1] = replies[1]
    BY <1>3, <1>4, EmptyFacts
  <1> QED
    BY <1>4, <1>7, <1>8

----------------------------------------------------------------------------
(* The call record of a thread that is in no synchronous operation.        *)
LEMMA NoCallFacts == NoCall \in Call /\ NoCall.op = "none" /\ NoCall.key \in Keys
  <1>1. (CHOOSE k \in Keys : TRUE) \in Keys
    BY KvAssumption
  <1> QED
    BY <1>1 DEF NoCall, Call, CallOps

(* What issuing the command of a synchronous call does to the caller.      *)
LEMMA IssueFacts ==
    ASSUME TypeOK, NEW c \in Call, NEW op \in {"set", "get", "publish"},
           IssueCall(c, op)
    PROVE  /\ AppendCommand(op, c.key, c.val)
           /\ c.key \in Keys /\ c.val \in Values \cup {Nil}
           /\ pc' = "await"
           /\ call' \in Call
           /\ call'.op = c.op /\ call'.key = c.key
           /\ call'.id = issued + 1 /\ call'.lag = outstanding
           /\ call'.expect = view[c.key]
  <1>1. /\ issued + 1 \in Nat /\ outstanding \in Nat
        /\ view \in [Keys -> Values \cup {Nil}]
    BY DEF TypeOK
  <1>2. /\ c.op \in CallOps /\ c.key \in Keys /\ c.val \in Values \cup {Nil}
        /\ c.id \in Nat /\ c.lag \in Nat /\ c.expect \in Values \cup {Nil}
        /\ c = [op |-> c.op, key |-> c.key, val |-> c.val, id |-> c.id,
                lag |-> c.lag, expect |-> c.expect]
    BY DEF Call
  <1>3. call' = [op |-> c.op, key |-> c.key, val |-> c.val, id |-> issued + 1,
                 lag |-> outstanding, expect |-> view[c.key]]
    BY <1>2, Zenon DEF IssueCall
  <1>4. view[c.key] \in Values \cup {Nil}
    BY <1>1, <1>2
  <1>5. call' \in Call
    BY <1>1, <1>2, <1>3, <1>4 DEF Call
  <1> QED
    BY <1>2, <1>3, <1>5 DEF IssueCall

(* A synchronous call issues its command: what it knows of itself, and, if *)
(* it is a read, what it will return.                                      *)
LEMMA IssueKeeps ==
    ASSUME IInv, NEW c \in Call, NEW op \in {"set", "get", "publish"},
           IssueCall(c, op), UNCHANGED <<store, wire, conn, outstanding>>,
           ConnInv', ResultInv', replies' \in Seq(Reply), result' \in Result,
           c.op \notin {"none", "close"},
           outstanding < REDIS_DEFAULT_PIPELINED,
           c.op \in FlushFirst /\ (conn = "up" \/ replies' # <<>>) => outstanding = 0,
           c.op = "read" => /\ op = "get" /\ replies' = <<>>
                            /\ conn = "up" => Len(Pending) = 0
    PROVE  IInv'
  <1>1. /\ AppendCommand(op, c.key, c.val)
        /\ c.key \in Keys /\ c.val \in Values \cup {Nil}
        /\ pc' = "await"
        /\ call' \in Call
        /\ call'.op = c.op /\ call'.key = c.key
        /\ call'.id = issued + 1 /\ call'.lag = outstanding
        /\ call'.expect = view[c.key]
    BY IssueFacts DEF IInv
  <1>2. PICK e \in Command :
             /\ e.op = op /\ e.key = c.key
             /\ outbuf' \in Seq(Command)
             /\ Pending'[Len(Pending) + 1] = e
             /\ issued' = issued + 1
             /\ view' \in [Keys -> Values \cup {Nil}]
             /\ \A j \in Keys :
                   view'[j] = IF op = "set" /\ j = c.key THEN c.val ELSE view[j]
    BY <1>1, AppendPending DEF IInv
  <1>3. TypeOK'
    BY <1>1, <1>2 DEF IInv, TypeOK
  <1>4. CallInv'
    BY <1>1, <1>2 DEF CallInv
  <1>5. ReadInv'
    <2> SUFFICES ASSUME call'.op = "read"
                 PROVE  /\ call'.expect = view'[call'.key]
                        /\ conn' = "up" /\ Pending' # <<>> =>
                             Pending'[1].op = "get" /\ Pending'[1].key = call'.key
                        /\ replies' = <<>>
      BY DEF ReadInv
    <2>1. op = "get" /\ replies' = <<>> /\ (conn = "up" => Len(Pending) = 0)
      BY <1>1
    <2>2. call'.expect = view'[call'.key]
      BY <1>1, <1>2, <2>1
    <2>3. conn = "up" => Pending'[1] = e
      BY <1>2, <2>1
    <2> QED
      BY <1>1, <1>2, <2>1, <2>2, <2>3
  <1>6. BoundInv'
    BY <1>1 DEF BoundInv
  <1> QED
    BY <1>3, <1>4, <1>5, <1>6 DEF IInv

(* What the caller of redis_flush_pipeline finds when it returns.          *)
LEMMA Flushed ==
    ASSUME IInv, pc = "flush", outstanding = 0
    PROVE  /\ replies = <<>>
           /\ conn = "up" => Len(Pending) = 0
  <1>1. /\ Len(replies) \in Nat /\ Len(wire) \in Nat /\ Len(outbuf) \in Nat
        /\ Len(Pending) = Len(wire) + Len(outbuf) /\ conn \in {"up", "lost"}
        /\ replies \in Seq(Reply)
    BY ConnTypes DEF IInv
  <1>2. Owed = 0
    BY DEF Owed
  <1>3. conn = "up" => Len(replies) + Len(wire) + Len(outbuf) = 0
    BY DEF IInv, ConnInv, Balanced
  <1>4. conn = "lost" => Len(replies) <= 0
    BY <1>2 DEF IInv, ConnInv, LostEmpty
  <1>5. Len(replies) = 0
    BY <1>1, <1>3, <1>4
  <1>6. conn = "up" => Len(Pending) = 0
    BY <1>1, <1>3
  <1> QED
    BY <1>1, <1>5, <1>6, EmptyFacts

----------------------------------------------------------------------------
(* One lemma per group of actions.                                         *)

(* The first state.                                                        *)
LEMMA InitIInv == Init => IInv
  <1> SUFFICES ASSUME Init PROVE IInv
    OBVIOUS
  <1> USE DEF Init
  <1>1. TypeOK
    <2>1. NoResult \in Result
      BY DEF NoResult, Result, CallOps
    <2> QED
      BY <2>1, NoCallFacts, EmptyFacts DEF TypeOK
  <1>2. Len(wire) = 0 /\ Len(outbuf) = 0 /\ Len(replies) = 0 /\ Len(Pending) = 0
    BY EmptyFacts, ConcatEmpty DEF Pending
  <1>3. ConnInv
    BY <1>2 DEF ConnInv, Balanced, Tagged, Effect, LostEmpty
  <1>4. CallInv /\ ReadInv /\ BoundInv /\ ResultInv
    BY KvAssumption DEF CallInv, ReadInv, BoundInv, ResultInv,
       FlushedCallGetsOwnReply, UnflushedReplyLag, NoResult
  <1> QED
    BY <1>1, <1>3, <1>4 DEF IInv

(* A pipelined operation.                                                  *)
LEMMA PipelinedIInv ==
    ASSUME IInv, NEW k \in Keys, NEW v \in Values \cup {Nil}, PipelinedCall(k, v)
    PROVE  IInv'
  <1>1. /\ AppendCommand("set", k, v)
        /\ UNCHANGED <<store, wire, replies, conn, result>>
        /\ pc = "idle" /\ outstanding' = outstanding + 1
        /\ pc' = (IF outstanding + 1 >= REDIS_DEFAULT_PIPELINED THEN "flush" ELSE "idle")
        /\ call' = NoCall
    BY DEF PipelinedCall, CountCommand, FlushDue
  <1>2. outstanding \in Nat /\ outstanding < REDIS_DEFAULT_PIPELINED
    BY <1>1 DEF IInv, TypeOK, BoundInv
  <1>3. Owed' = Owed + 1
    BY <1>1, <1>2 DEF Owed
  <1>4. ConnInv'
    BY <1>1, <1>3, AppendConn DEF IInv
  <1>5. TypeOK'
    <2>1. /\ outbuf' \in Seq(Command) /\ issued' = issued + 1
          /\ view' \in [Keys -> Values \cup {Nil}]
      BY <1>1, AppendPending DEF IInv
    <2> QED
      BY <1>1, <1>2, <2>1, NoCallFacts DEF IInv, TypeOK
  <1>6. CallInv' /\ ReadInv'
    BY <1>1, NoCallFacts DEF CallInv, ReadInv
  <1>7. BoundInv'
    BY <1>1, <1>2, NoCallFacts, KvAssumption DEF BoundInv
  <1>8. ResultInv'
    BY <1>1 DEF IInv, ResultInv, FlushedCallGetsOwnReply, UnflushedReplyLag
  <1> QED
    BY <1>4, <1>5, <1>6, <1>7, <1>8 DEF IInv

(* An operation that begins with a flush, redis_shutdown included.         *)
LEMMA BeginFlushIInv ==
    ASSUME IInv, pc = "idle", pc' = "flush",
           call' \in Call, call'.op \in FlushFirst \cup {"close"},
           UNCHANGED <<store, wire, outbuf, replies, outstanding, conn, ghostVars>>
    PROVE  IInv'
  <1>1. Owed' = Owed
    BY DEF Owed
  <1>2. ConnInv'
    BY <1>1, SameConn DEF IInv, ghostVars
  <1>3. TypeOK'
    BY DEF IInv, TypeOK, ghostVars
  <1>4. outstanding \in Nat /\ outstanding < REDIS_DEFAULT_PIPELINED
    BY DEF IInv, TypeOK, BoundInv
  <1>5. CallInv' /\ ReadInv' /\ BoundInv'
    BY <1>4, KvAssumption DEF CallInv, ReadInv, BoundInv
  <1>6. ResultInv'
    BY DEF IInv, ResultInv, FlushedCallGetsOwnReply, UnflushedReplyLag, ghostVars
  <1> QED
    BY <1>2, <1>3, <1>5, <1>6 DEF IInv

(* A call that flushes first begins: only pc and call change.              *)
LEMMA FlushingIInv ==
    ASSUME IInv, NEW op \in FlushFirst, NEW k \in Keys, NEW v \in Values \cup {Nil},
           FlushingCall(op, k, v)
    PROVE  IInv'
  <1>1. call' \in Call /\ call'.op = op
    BY NoCallFacts, Zenon DEF FlushingCall, Call, CallOps, FlushFirst
  <1> QED
    BY <1>1, BeginFlushIInv DEF FlushingCall

(* redis_shutdown begins its flush.                                        *)
LEMMA ShutdownIInv == ASSUME IInv, redis_shutdown PROVE IInv'
  <1>1. call' \in Call /\ call'.op = "close"
    BY NoCallFacts DEF redis_shutdown, Call, CallOps
  <1> QED
    BY <1>1, BeginFlushIInv DEF redis_shutdown

(* redis_publish and redis_dequeue issue their command at once.            *)
LEMMA UnflushedIInv ==
    ASSUME IInv, pc = "idle",
           NEW c \in Call, c.op \in {"publish", "dequeue"},
           NEW op \in {"set", "get", "publish"},
           IssueCall(c, op), UNCHANGED <<store, wire, replies, outstanding, conn, result>>
    PROVE  IInv'
  <1>1. outstanding \in Nat /\ outstanding < REDIS_DEFAULT_PIPELINED
    BY DEF IInv, TypeOK, BoundInv
  <1>2. /\ AppendCommand(op, c.key, c.val)
        /\ c.key \in Keys /\ c.val \in Values \cup {Nil} /\ pc' = "await"
    BY IssueFacts DEF IInv
  <1>3. Owed' = Owed + 1
    BY <1>1, <1>2 DEF Owed
  <1>4. ConnInv'
    BY <1>2, <1>3, AppendConn DEF IInv
  <1>5. /\ ResultInv' /\ replies' \in Seq(Reply) /\ result' \in Result
    BY DEF IInv, TypeOK, ResultInv, FlushedCallGetsOwnReply, UnflushedReplyLag
  <1> QED
    BY <1>1, <1>4, <1>5, IssueKeeps DEF FlushFirst

(* redis_publish issues its command.                                       *)
LEMMA PublishIInv ==
    ASSUME IInv, NEW k \in Keys, NEW v \in Values, redis_publish(k, v)
    PROVE  IInv'
  <1> DEFINE c == [NoCall EXCEPT !.op = "publish", !.key = k, !.val = v]
  <1>1. c \in Call /\ c.op = "publish"
    BY NoCallFacts, Zenon DEF Call, CallOps
  <1> QED
    BY <1>1, UnflushedIInv, Zenon DEF redis_publish

(* redis_dequeue issues its GET.                                           *)
LEMMA DequeueIInv == ASSUME IInv, NEW k \in Keys, redis_dequeue(k) PROVE IInv'
  <1> DEFINE c == [NoCall EXCEPT !.op = "dequeue", !.key = k]
  <1>1. c \in Call /\ c.op = "dequeue"
    BY NoCallFacts, Zenon DEF Call, CallOps
  <1> QED
    BY <1>1, UnflushedIInv, Zenon DEF redis_dequeue

(* redisGetReply sends the output buffer.                                  *)
LEMMA SendIInv == ASSUME IInv, SendBuffer PROVE IInv'
  <1>1. ConnInv' /\ Pending' = Pending
    BY SendConn DEF IInv
  <1>2. /\ wire' = wire \o outbuf /\ outbuf' = <<>>
        /\ UNCHANGED <<store, replies, outstanding, conn, pc, call, issued, view, result>>
    BY DEF SendBuffer, ghostVars
  <1>3. wire' \in Seq(Command) /\ outbuf' \in Seq(Command)
    BY <1>2, ConnTypes, ConcatFacts, EmptyFacts DEF IInv
  <1>4. TypeOK'
    BY <1>2, <1>3 DEF IInv, TypeOK
  <1>5. CallInv' /\ ReadInv' /\ BoundInv' /\ ResultInv'
    BY <1>1, <1>2 DEF IInv, CallInv, ReadInv, BoundInv, ResultInv,
       FlushedCallGetsOwnReply, UnflushedReplyLag
  <1> QED
    BY <1>1, <1>4, <1>5 DEF IInv

(* redis_flush_pipeline fetches a reply and counts it off.                 *)
LEMMA FlushOneIInv == ASSUME IInv, FlushOne PROVE IInv'
  <1>1. /\ pc = "flush" /\ outstanding > 0 /\ replies # <<>>
        /\ replies' = Tail(replies) /\ outstanding' = outstanding - 1
        /\ UNCHANGED <<store, wire, outbuf, conn, pc, call, issued, view, result>>
    BY DEF FlushOne, FlushLoop, ghostVars
  <1>2. outstanding \in Nat /\ outstanding' \in Nat
    BY <1>1 DEF IInv, TypeOK
  <1>3. Owed' = Owed - 1
    BY <1>1, <1>2 DEF Owed
  <1>4. ConnInv'
    BY <1>1, <1>3, FetchConn DEF IInv
  <1>5. replies' \in Seq(Reply)
    BY <1>1, ConnTypes, TailFacts DEF IInv
  <1>6. TypeOK'
    BY <1>1, <1>2, <1>5 DEF IInv, TypeOK
  <1>7. CallInv' /\ ReadInv' /\ ResultInv'
    BY <1>1 DEF IInv, CallInv, ReadInv, ResultInv, FlushedCallGetsOwnReply,
       UnflushedReplyLag
  <1>8. BoundInv'
    BY <1>1, <1>2, KvAssumption DEF IInv, BoundInv
  <1> QED
    BY <1>4, <1>6, <1>7, <1>8 DEF IInv

(* After a flush, successful or on a dead connection, the caller goes on.  *)
LEMMA AfterFlushIInv ==
    ASSUME IInv, pc = "flush", AfterFlush,
           UNCHANGED <<store, wire, replies, outstanding, conn, result>>,
           \/ outstanding = 0
           \/ conn = "lost" /\ replies = <<>> /\ call.op # "none"
    PROVE  IInv'
  <1>1. outstanding \in Nat /\ outstanding < REDIS_DEFAULT_PIPELINED
    BY KvAssumption DEF IInv, TypeOK, BoundInv
  <1>2. replies = <<>> /\ (conn = "up" => outstanding = 0 /\ Len(Pending) = 0)
    BY Flushed
  <1>3. ResultInv' /\ replies' \in Seq(Reply) /\ result' \in Result /\ call \in Call
    BY DEF IInv, TypeOK, ResultInv, FlushedCallGetsOwnReply, UnflushedReplyLag
  <1>4. CASE call.op \in {"none", "close"}
    <2>1. /\ pc' = "idle" \/ (pc' = "closed" /\ call.op = "close")
          /\ UNCHANGED <<outbuf, call, issued, view>>
      BY <1>4 DEF AfterFlush
    <2>2. Owed' = Owed
      BY <2>1 DEF Owed
    <2>3. ConnInv'
      BY <2>1, <2>2, SameConn DEF IInv
    <2>4. TypeOK'
      BY <2>1 DEF IInv, TypeOK
    <2>5. CallInv' /\ ReadInv' /\ BoundInv'
      BY <1>1, <1>2, <2>1 DEF CallInv, ReadInv, BoundInv
    <2> QED
      BY <1>3, <2>3, <2>4, <2>5 DEF IInv
  <1>5. CASE call.op \in FlushFirst
    <2>1. PICK op \in {"set", "get"} :
            IssueCall(call, op) /\ (call.op = "read" => op = "get")
      BY <1>5 DEF AfterFlush, FlushFirst
    <2>2. /\ AppendCommand(op, call.key, call.val)
          /\ call.key \in Keys /\ call.val \in Values \cup {Nil} /\ pc' = "await"
      BY <1>3, <2>1, IssueFacts DEF IInv
    <2>3. Owed' = Owed + 1
      BY <1>1, <2>2 DEF Owed
    <2>4. ConnInv'
      BY <2>2, <2>3, AppendConn DEF IInv
    <2> QED
      BY <1>1, <1>2, <1>3, <1>5, <2>1, <2>4, IssueKeeps DEF FlushFirst
  <1> QED
    BY <1>4, <1>5 DEF IInv, CallInv

(* redis_flush_pipeline returns: nothing is outstanding.                   *)
LEMMA FlushDoneIInv == ASSUME IInv, FlushDone PROVE IInv'
  <1>1. outstanding = 0
    BY DEF IInv, TypeOK, FlushDone, FlushLoop
  <1> QED
    BY <1>1, AfterFlushIInv DEF FlushDone

(* The process dies on a dead connection.                                  *)
LEMMA DiesIInv ==
    ASSUME IInv, conn = "lost", replies = <<>>, pc' = "dead",
           UNCHANGED <<store, wire, outbuf, replies, outstanding, conn, call,
                       issued, view, result>>
    PROVE  IInv'
  <1>1. TypeOK'
    BY DEF IInv, TypeOK
  <1>2. Owed' \in Nat
    BY <1>1 DEF TypeOK, Owed
  <1>3. ConnInv'
    BY <1>2, DeadConn DEF IInv
  <1>4. CallInv' /\ ReadInv' /\ BoundInv' /\ ResultInv'
    BY DEF IInv, CallInv, ReadInv, BoundInv, ResultInv, FlushedCallGetsOwnReply,
       UnflushedReplyLag
  <1> QED
    BY <1>1, <1>3, <1>4 DEF IInv

(* redis_flush_pipeline fails on a lost connection.                        *)
LEMMA FlushFailsIInv == ASSUME IInv, FlushFails PROVE IInv'
  <1>1. /\ pc = "flush" /\ outstanding > 0 /\ conn = "lost" /\ replies = <<>>
        /\ UNCHANGED <<store, wire, replies, conn, result>>
    BY DEF FlushFails, FlushLoop
  <1>2. CASE pc' = "dead" /\ UNCHANGED <<outstanding, outbuf, call, issued, view>>
    BY <1>1, <1>2, DiesIInv
  <1>3. CASE call.op # "none" /\ AfterFlush /\ UNCHANGED outstanding
    BY <1>1, <1>3, AfterFlushIInv
  <1>4. CASE outstanding' = outstanding - 1 /\ UNCHANGED <<pc, outbuf, call, issued, view>>
    <2>1. outstanding \in Nat /\ outstanding' \in Nat
      BY <1>1, <1>4 DEF IInv, TypeOK
    <2>2. Owed' \in Nat
      BY <1>1, <1>4, <2>1 DEF Owed
    <2>3. ConnInv'
      BY <1>1, <2>2, DeadConn DEF IInv
    <2>4. TypeOK'
      BY <1>1, <1>4, <2>1 DEF IInv, TypeOK
    <2>5. CallInv' /\ ReadInv' /\ ResultInv'
      BY <1>1, <1>4 DEF IInv, CallInv, ReadInv, ResultInv, FlushedCallGetsOwnReply,
         UnflushedReplyLag
    <2>6. BoundInv'
      BY <1>1, <1>4, <2>1, KvAssumption DEF IInv, BoundInv
    <2> QED
      BY <2>3, <2>4, <2>5, <2>6 DEF IInv
  <1> QED
    BY <1>2, <1>3, <1>4 DEF FlushFails

(* redisCommand returns NULL on a dead connection.                         *)
LEMMA AwaitFailsIInv == ASSUME IInv, AwaitFails PROVE IInv'
  <1>1. /\ pc = "await" /\ conn = "lost" /\ replies = <<>>
        /\ UNCHANGED <<store, wire, replies, outstanding, conn, result>>
    BY DEF AwaitFails
  <1>2. outstanding \in Nat /\ outstanding < REDIS_DEFAULT_PIPELINED /\ call \in Call
    BY <1>1 DEF IInv, TypeOK, BoundInv
  <1>3. ResultInv' /\ replies' \in Seq(Reply) /\ result' \in Result
    BY <1>1 DEF IInv, TypeOK, ResultInv, FlushedCallGetsOwnReply, UnflushedReplyLag
  <1>4. CASE pc' = "dead" /\ UNCHANGED <<outbuf, call, issued, view>>
    BY <1>1, <1>4, DiesIInv
  <1>5. CASE pc' = "idle" /\ call' = NoCall /\ UNCHANGED <<outbuf, issued, view>>
    <2>1. TypeOK'
      BY <1>1, <1>5, NoCallFacts DEF IInv, TypeOK
    <2>2. Owed' \in Nat
      BY <1>1, <1>2, <1>5 DEF Owed
    <2>3. ConnInv'
      BY <1>1, <2>2, DeadConn DEF IInv
    <2>4. CallInv' /\ ReadInv' /\ BoundInv'
      BY <1>1, <1>2, <1>5 DEF CallInv, ReadInv, BoundInv
    <2> QED
      BY <1>3, <2>1, <2>3, <2>4 DEF IInv
  <1>6. CASE call.op = "reset" /\ IssueCall([call EXCEPT !.op = "check"], "set")
    <2> DEFINE c == [call EXCEPT !.op = "check"]
    <2>1. c \in Call /\ c.op = "check"
      BY <1>2 DEF Call, CallOps
    <2>2. pc' = "await"
      BY <1>6 DEF IssueCall
    <2>3. Owed' \in Nat
      BY <1>1, <1>2, <2>2 DEF Owed
    <2>4. ConnInv'
      BY <1>1, <2>3, DeadConn DEF IInv
    <2> HIDE DEF c
    <2>5. IssueCall(c, "set")
      BY <1>6 DEF c
    <2> QED
      BY <1>1, <1>2, <1>3, <2>1, <2>4, <2>5, IssueKeeps
  <1> QED
    BY <1>4, <1>5, <1>6 DEF AwaitFails, AfterReply

(* The reply that redisCommand returns.                                    *)
LEMMA FetchedReply ==
    ASSUME IInv, FetchReply
    PROVE  /\ Head(replies) = replies[1] /\ replies[1] \in Reply
           /\ replies[1].id = issued - outstanding
           /\ replies' \in Seq(Reply)
           /\ result' \in Result /\ ResultInv'
           /\ call.op \in FlushFirst => outstanding = 0 /\ replies' = <<>>
  <1>1. /\ pc = "await" /\ replies # <<>> /\ replies' = Tail(replies)
        /\ issued \in Nat /\ outstanding \in Nat /\ call \in Call
    BY DEF FetchReply, IInv, TypeOK
  <1>2. /\ Head(replies) = replies[1] /\ replies[1] \in Reply
        /\ Len(replies) \in Nat \ {0}
        /\ replies' \in Seq(Reply) /\ Len(replies') = Len(replies) - 1
    BY <1>1, ConnTypes, TailFacts DEF IInv
  <1>3. Owed = outstanding + 1
    BY <1>1 DEF Owed
  <1>4. replies[1].id = (issued - Owed) + 1
    BY <1>2 DEF IInv, ConnInv, Tagged
  <1>5. replies[1].id = issued - outstanding
    BY <1>1, <1>3, <1>4
  <1>6. /\ call.op \notin {"none", "close"}
        /\ call.id = issued /\ call.lag = outstanding
        /\ call.op \in FlushFirst => outstanding = 0
    BY <1>1 DEF IInv, CallInv
  <1>7. call.op \in FlushFirst => replies' = <<>>
    <2>1. Len(replies) <= Owed
      BY <1>2, ConnTypes DEF IInv, ConnInv, Balanced, LostEmpty, Owed
    <2> QED
      BY <1>2, <1>3, <1>6, <2>1, EmptyFacts
  <1> DEFINE value == IF replies[1].string THEN replies[1].val ELSE Nil
  <1>8. result' = [op |-> call.op, own |-> call.id, id |-> replies[1].id,
                   lag |-> call.lag, val |-> value, expect |-> call.expect]
    BY <1>2 DEF FetchReply
  <1>9. call.op = "read" => value = call.expect
    BY <1>1 DEF IInv, ReadInv
  <1>10. value \in Values \cup {Nil}
    BY <1>2 DEF Reply
  <1> HIDE DEF value
  <1>11. result' \in Result
    BY <1>1, <1>2, <1>8, <1>10 DEF Result, Call, Reply
  <1>12. /\ result'.op = call.op /\ result'.own = issued
         /\ result'.id = issued - outstanding /\ result'.lag = outstanding
         /\ result'.val = value /\ result'.expect = call.expect
    BY <1>5, <1>6, <1>8
  <1>13. ResultInv'
    BY <1>1, <1>6, <1>9, <1>12 DEF ResultInv, FlushedCallGetsOwnReply,
       UnflushedReplyLag, FlushFirst
  <1> QED
    BY <1>2, <1>5, <1>6, <1>7, <1>11, <1>13

(* A synchronous call takes its reply and returns, or issues its second    *)
(* command.                                                                *)
LEMMA FetchReplyIInv == ASSUME IInv, FetchReply PROVE IInv'
  <1>1. /\ pc = "await" /\ replies # <<>> /\ replies' = Tail(replies)
        /\ UNCHANGED <<store, wire, outstanding, conn>>
    BY DEF FetchReply
  <1>2. outstanding \in Nat /\ outstanding < REDIS_DEFAULT_PIPELINED /\ call \in Call
    BY <1>1 DEF IInv, TypeOK, BoundInv
  <1>3. /\ replies' \in Seq(Reply) /\ result' \in Result /\ ResultInv'
        /\ call.op \in FlushFirst => outstanding = 0
    BY FetchedReply
  <1>4. CASE pc' = "idle" /\ call' = NoCall /\ UNCHANGED <<outbuf, issued, view>>
    <2>1. TypeOK'
      BY <1>1, <1>3, <1>4, NoCallFacts DEF IInv, TypeOK
    <2>2. Owed' = Owed - 1
      BY <1>1, <1>2, <1>4 DEF Owed
    <2>3. ConnInv'
      BY <1>1, <1>4, <2>2, FetchConn DEF IInv
    <2>4. CallInv' /\ ReadInv' /\ BoundInv'
      BY <1>1, <1>2, <1>4 DEF CallInv, ReadInv, BoundInv
    <2> QED
      BY <1>3, <2>1, <2>3, <2>4 DEF IInv
  <1>5. ASSUME NEW c \in Call, IssueCall(c, "set"),
               \/ c.op = "dequeueDel"
               \/ c.op = "check" /\ call.op = "reset"
        PROVE  IInv'
    <2>1. /\ AppendCommand("set", c.key, c.val)
          /\ c.key \in Keys /\ c.val \in Values \cup {Nil} /\ pc' = "await"
      BY <1>5, IssueFacts DEF IInv
    <2>2. Owed' = Owed
      BY <1>1, <2>1 DEF Owed
    <2>3. ConnInv'
      BY <1>1, <2>1, <2>2, FetchAppendConn DEF IInv
    <2>4. /\ c.op \notin {"none", "close", "read"}
          /\ c.op \in FlushFirst => outstanding = 0
      BY <1>3, <1>5 DEF FlushFirst
    <2> QED
      BY <1>1, <1>2, <1>3, <1>5, <2>3, <2>4, IssueKeeps
  <1>6. CASE call.op = "dequeue" /\
             IssueCall([call EXCEPT !.op = "dequeueDel", !.val = Nil], "set")
    <2> DEFINE c == [call EXCEPT !.op = "dequeueDel", !.val = Nil]
    <2>1. c \in Call /\ c.op = "dequeueDel"
      BY <1>2, Zenon DEF Call, CallOps
    <2> QED
      BY <1>5, <1>6, <2>1, Zenon
  <1>7. CASE call.op = "reset" /\ IssueCall([call EXCEPT !.op = "check"], "set")
    <2> DEFINE c == [call EXCEPT !.op = "check"]
    <2>1. c \in Call /\ c.op = "check"
      BY <1>2 DEF Call, CallOps
    <2> QED
      BY <1>5, <1>7, <2>1, Zenon
  <1> QED
    BY <1>4, <1>6, <1>7 DEF FetchReply, AfterReply

(* The server executes a command.                                          *)
LEMMA ExecuteIInv == ASSUME IInv, RedisExecute PROVE IInv'
  <1>1. ConnInv'
    BY ExecuteConn DEF IInv
  <1>2. UNCHANGED <<outbuf, outstanding, conn, pc, call, issued, view, result>>
    BY DEF RedisExecute, ghostVars
  <1>3. /\ conn = "up" /\ Pending # <<>> /\ Len(Pending) \in Nat \ {0}
        /\ wire' \in Seq(Command)
        /\ Len(Pending') = Len(Pending) - 1
        /\ store' \in [Keys -> Values \cup {Nil}]
    BY ExecuteFacts DEF IInv
  <1>4. PICK r \in Reply :
          /\ Pending[1].op = "get" =>
               (IF r.string THEN r.val ELSE Nil) = store[Pending[1].key]
          /\ replies' = Append(replies, r)
    BY ExecuteFacts DEF IInv
  <1>5. /\ replies' \in Seq(Reply) /\ Len(replies) \in Nat
        /\ replies'[Len(replies) + 1] = r
    BY <1>4, ConnTypes, AppendFacts DEF IInv
  <1>6. TypeOK'
    BY <1>2, <1>3, <1>5 DEF IInv, TypeOK
  <1>7. CallInv'
    BY <1>2, <1>3 DEF IInv, CallInv
  <1>8. ReadInv'
    <2> SUFFICES ASSUME pc = "await", call.op = "read"
                 PROVE  /\ call.expect = view[call.key]
                        /\ Pending' = <<>>
                        /\ (IF replies'[1].string THEN replies'[1].val ELSE Nil) = call.expect
      BY <1>2 DEF ReadInv
    <2>1. outstanding = 0
      BY <1>3 DEF IInv, CallInv, FlushFirst
    <2>2. Len(replies) + Len(Pending) = 1
      BY <1>3, <2>1, ConnTypes DEF IInv, ConnInv, Balanced
    <2>3. Len(replies) = 0 /\ Len(Pending) = 1
      BY <1>3, <1>5, <2>2
    <2>4. /\ call.expect = view[call.key]
          /\ Pending[1].op = "get" /\ Pending[1].key = call.key
      BY <1>3 DEF IInv, ReadInv
    <2>5. call.key \in Keys
      BY DEF IInv, TypeOK, Call
    <2>6. store[call.key] = view[call.key]
      <3>1. \A i \in 1 .. Len(Pending) : i = 1
        BY <2>3
      <3>2. ~\E i \in 1 .. Len(Pending) : Sets(Pending[i], call.key)
        BY <2>4, <3>1 DEF Sets
      <3> QED
        BY <1>3, <2>5, <3>2 DEF IInv, ConnInv, Effect
    <2>7. replies'[1] = r
      BY <1>5, <2>3
    <2>8. Pending' = <<>>
      <3>1. TypeOK' => Pending' \in Seq(Command)
        <4>1. wire' \in Seq(Command) /\ outbuf' \in Seq(Command)
          BY <1>6 DEF TypeOK
        <4> QED
          BY <4>1, ConcatFacts DEF Pending
      <3> QED
        BY <1>3, <1>6, <2>3, <3>1, EmptyFacts
    <2> QED
      BY <1>4, <2>4, <2>6, <2>7, <2>8
  <1>9. BoundInv' /\ ResultInv'
    BY <1>2 DEF IInv, BoundInv, ResultInv, FlushedCallGetsOwnReply, UnflushedReplyLag
  <1> QED
    BY <1>1, <1>6, <1>7, <1>8, <1>9 DEF IInv

(* The connection breaks.                                                  *)
LEMMA BreakIInv == ASSUME IInv, ConnectionLost PROVE IInv'
  <1>1. /\ ConnInv' /\ replies' \in Seq(Reply)
        /\ replies' # <<>> => replies # <<>> /\ replies'[1] = replies[1]
    BY BreakConn DEF IInv
  <1>2. /\ conn' = "lost" /\ wire' = <<>> /\ pc \notin {"closed", "dead"}
        /\ UNCHANGED <<store, outbuf, outstanding, pc, call, issued, view, result>>
    BY DEF ConnectionLost, ghostVars
  <1>3. TypeOK'
    BY <1>1, <1>2, EmptyFacts DEF IInv, TypeOK
  <1>4. CallInv'
    BY <1>1, <1>2 DEF IInv, CallInv
  <1>5. ReadInv'
    BY <1>1, <1>2 DEF IInv, ReadInv
  <1>6. BoundInv' /\ ResultInv'
    BY <1>2 DEF IInv, BoundInv, ResultInv, FlushedCallGetsOwnReply, UnflushedReplyLag
  <1> QED
    BY <1>1, <1>3, <1>4, <1>5, <1>6 DEF IInv

(* Every step of the caller, the server and the connection keeps IInv.     *)
LEMMA NextIInv == IInv /\ [Next]_vars => IInv'
  <1> SUFFICES ASSUME IInv, [Next]_vars PROVE IInv'
    OBVIOUS
  <1>1. CASE UNCHANGED vars
    <2>1. Owed' = Owed /\ Pending' = Pending
      BY <1>1 DEF vars, Owed, Pending
    <2>2. ConnInv'
      BY <1>1, SameConn, <2>1 DEF vars, IInv
    <2> QED
      BY <1>1, <2>1, <2>2 DEF vars, IInv, TypeOK, CallInv, ReadInv, BoundInv,
         ResultInv, FlushedCallGetsOwnReply, UnflushedReplyLag
  <1>2. ASSUME NEW k \in Keys, NEW v \in Values \cup {Nil}, PipelinedCall(k, v)
        PROVE  IInv'
    BY <1>2, PipelinedIInv
  <1>3. ASSUME NEW k \in Keys, NEW v \in Values,
               FlushingCall("check", k, v) \/ redis_publish(k, v)
        PROVE  IInv'
    BY <1>3, FlushingIInv, PublishIInv DEF FlushFirst
  <1>4. ASSUME NEW k \in Keys, NEW op \in {"read", "reset"}, FlushingCall(op, k, Nil)
        PROVE  IInv'
    BY <1>4, FlushingIInv DEF FlushFirst
  <1>5. ASSUME NEW k \in Keys, redis_dequeue(k) PROVE IInv'
    BY <1>5, DequeueIInv
  <1>6. ASSUME redis_shutdown PROVE IInv'
    BY <1>6, ShutdownIInv
  <1>7. ASSUME ClientStep PROVE IInv'
    BY <1>7, SendIInv, FlushOneIInv, FlushDoneIInv, FetchReplyIInv, FlushFailsIInv,
       AwaitFailsIInv DEF ClientStep
  <1>8. ASSUME RedisExecute \/ ConnectionLost PROVE IInv'
    BY <1>8, ExecuteIInv, BreakIInv
  <1> QED
    BY <1>1, <1>2, <1>3, <1>4, <1>5, <1>6, <1>7, <1>8 DEF Next, Finished

----------------------------------------------------------------------------
(* IInv holds in every reachable state.                                    *)
THEOREM Invariance == Spec => []IInv
  BY InitIInv, NextIInv, PTL DEF Spec

(* The variables have their types; outstanding_pipelined_cmds, which is    *)
(* unsigned, never goes below zero.                                        *)
THEOREM TypeCorrect == Spec => []TypeOK
  <1>1. IInv => TypeOK
    BY DEF IInv
  <1> QED
    BY <1>1, Invariance, PTL

(* The counter of a handle always equals the number of replies to come.    *)
THEOREM CounterBalanced == Spec => []Balanced
  <1>1. IInv => Balanced
    BY DEF IInv, ConnInv
  <1> QED
    BY <1>1, Invariance, PTL

(* An operation that flushes first gets the reply to its own command, and  *)
(* a read returns what all the calls before it left in the key, whatever   *)
(* the threshold and the calls that came before.                           *)
THEOREM OwnReply == Spec => []FlushedCallGetsOwnReply
  <1>1. IInv => FlushedCallGetsOwnReply
    BY DEF IInv, ResultInv
  <1> QED
    BY <1>1, Invariance, PTL

(* redis_publish and redis_dequeue get the reply to the command that lies  *)
(* exactly as far back as commands were outstanding.                       *)
THEOREM ReplyLag == Spec => []UnflushedReplyLag
  <1>1. IInv => UnflushedReplyLag
    BY DEF IInv, ResultInv
  <1> QED
    BY <1>1, Invariance, PTL

(* The pipeline never holds more than its threshold.                       *)
THEOREM Bounded == Spec => []PipelineBounded
  <1>1. IInv => PipelineBounded
    BY DEF IInv, BoundInv, PipelineBounded
  <1> QED
    BY <1>1, Invariance, PTL

(* With nothing outstanding between calls, and after redis_shutdown, the   *)
(* server's store is what all the calls made, in call order, leave.        *)
THEOREM Visible == Spec => []FlushMakesVisible
  <1>1. IInv => FlushMakesVisible
    <2> SUFFICES ASSUME IInv, conn = "up",
                        pc = "closed" \/ (pc = "idle" /\ outstanding = 0)
                 PROVE  store = view
      BY DEF FlushMakesVisible
    <2>1. outstanding = 0 /\ pc # "await"
      BY DEF IInv, BoundInv
    <2>2. /\ Len(replies) \in Nat /\ Len(wire) \in Nat /\ Len(outbuf) \in Nat
          /\ Len(Pending) = Len(wire) + Len(outbuf)
          /\ store \in [Keys -> Values \cup {Nil}]
          /\ view \in [Keys -> Values \cup {Nil}]
      BY ConnTypes DEF IInv
    <2>3. Len(replies) + Len(wire) + Len(outbuf) = 0
      BY <2>1 DEF IInv, ConnInv, Balanced
    <2>4. Len(Pending) = 0
      BY <2>2, <2>3
    <2>5. \A k \in Keys : store[k] = view[k]
      <3>1. 1 .. Len(Pending) = {}
        BY <2>4
      <3> QED
        BY <3>1, Zenon DEF IInv, ConnInv, Effect
    <2> QED
      BY <2>2, <2>5
  <1> QED
    BY <1>1, Invariance, PTL
=============================================================================
