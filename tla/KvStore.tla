------------------------------ MODULE KvStore ------------------------------
(***************************************************************************)
(* The Redis client of the inference engine and of gray-fs: struct         *)
(* kv_store of redis_queue.c used by one thread (redis_init with           *)
(* background_flush = false).  A handle owns one blocking hiredis          *)
(* connection.  "Pipelined" operations only append a command to the        *)
(* connection's output buffer and count it in outstanding_pipelined_cmds;  *)
(* redis_flush_pipeline fetches one reply for every counted command;       *)
(* synchronous operations append a command and fetch ONE reply.            *)
(*                                                                         *)
(* hiredis and the Redis server are external: redisGetReply returns the    *)
(* oldest reply not fetched yet, sending the output buffer first when it   *)
(* has to wait for the socket.                                             *)
(***************************************************************************)
EXTENDS Integers, Sequences

CONSTANTS Keys,                     \* Redis keys
          Values,                   \* values that can be stored
          Nil,                      \* no value: the empty reply, the absent key
          REDIS_DEFAULT_PIPELINED,  \* threshold at which a pipelined call flushes
          MaxIssued                 \* bound: commands issued in a behaviour

ASSUME KvAssumption ==
    /\ Keys # {}
    /\ Nil \notin Values
    /\ REDIS_DEFAULT_PIPELINED \in Nat \ {0}
    /\ MaxIssued \in Nat

VARIABLES
    store,        \* server: key -> value
    wire,         \* commands sent, not executed by the server yet
    outbuf,       \* hiredis output buffer: commands appended, not sent
    replies,      \* replies the server produced, not fetched yet
    outstanding,  \* handle->outstanding_pipelined_cmds
    conn,         \* "up" | "lost"
    pc,           \* where the calling thread is
    call,         \* the synchronous operation in progress
    issued,       \* history: number of commands issued; tags the commands
    view,         \* history: the store after all issued commands, in call order
    result        \* history: what the latest completed synchronous call returned

ghostVars == <<issued, view, result>>
vars == <<store, wire, outbuf, replies, outstanding, conn, pc, call,
          issued, view, result>>

(* A command either stores a value (SET, SETEX, LSET, RPUSH, DEL: Nil) or  *)
(* reads the key.  A publication neither reads nor changes a key.          *)
Command == [op : {"set", "get", "publish"}, key : Keys,
            val : Values \cup {Nil}, id : Nat]

(* Only a string reply carries data to the caller; status and integer      *)
(* replies are the other kinds.                                            *)
Reply == [id : Nat, string : BOOLEAN, val : Values \cup {Nil}]

(* The synchronous operations, by how they use the connection:             *)
(*  "read"    flush, command, use reply->...   (redis_sector_lookup, ...)   *)
(*  "check"   flush, command, only check it    (redis_set_add, ...)        *)
(*  "publish" command, only check it           (redis_publish)             *)
(*  "reset"   flush, then two commands that are both only checked: the     *)
(*            second one is a "check"          (redis_set_reset)           *)
(*  "dequeue" GET, use reply->..., then "dequeueDel", the DEL of it        *)
(*  "none"    no synchronous operation: a flush of the pipeline            *)
(*  "close"   the flush of redis_shutdown                                  *)
CallOps == {"none", "close", "read", "check", "reset", "publish",
            "dequeue", "dequeueDel"}

Call == [op : CallOps, key : Keys, val : Values \cup {Nil}, id : Nat,
         lag : Nat, expect : Values \cup {Nil}]

NoCall == [op |-> "none", key |-> CHOOSE k \in Keys : TRUE, val |-> Nil,
           id |-> 0, lag |-> 0, expect |-> Nil]

Result == [op : CallOps, own : Nat, id : Nat, lag : Nat,
           val : Values \cup {Nil}, expect : Values \cup {Nil}]

NoResult == [op |-> "none", own |-> 0, id |-> 0, lag |-> 0,
             val |-> Nil, expect |-> Nil]

----------------------------------------------------------------------------
(* redis_init: a connected handle with nothing outstanding.                *)
Init ==
    /\ store = [k \in Keys |-> Nil]
    /\ wire = <<>>
    /\ outbuf = <<>>
    /\ replies = <<>>
    /\ outstanding = 0
    /\ conn = "up"
    /\ pc = "idle"
    /\ call = NoCall
    /\ issued = 0
    /\ view = [k \in Keys |-> Nil]
    /\ result = NoResult

(* redisAppendCommand: buffer the command, nothing is sent.                *)
AppendCommand(op, k, v) ==
    /\ outbuf' = Append(outbuf, [op |-> op, key |-> k, val |-> v, id |-> issued + 1])
    /\ issued' = issued + 1
    /\ view' = IF op = "set" THEN [view EXCEPT ![k] = v] ELSE view

(* Is the pipeline full?                                                   *)
FlushDue(n) == n >= REDIS_DEFAULT_PIPELINED

(* outstanding_pipelined_cmds++.  (Faulty variant: forgotten.)             *)
CountForgotten(n) == n
CountCommand(n) == n + 1

(* The pipelined operations: redis_enqueue_pipelined and its siblings.     *)
(* The call that reaches the threshold flushes before it returns.          *)
PipelinedCall(k, v) ==
    /\ pc = "idle"
    /\ issued < MaxIssued
    /\ AppendCommand("set", k, v)
    /\ outstanding' = CountCommand(outstanding)
    /\ pc' = IF FlushDue(outstanding') THEN "flush" ELSE "idle"
    /\ call' = NoCall
    /\ UNCHANGED <<store, wire, replies, conn, result>>

(* The operations that flush the pipeline first.                           *)
FlushingCall(op, k, v) ==
    /\ pc = "idle"
    /\ issued + 1 < MaxIssued
    /\ pc' = "flush"
    /\ call' = [NoCall EXCEPT !.op = op, !.key = k, !.val = v]
    /\ UNCHANGED <<store, wire, outbuf, replies, outstanding, conn, ghostVars>>

(* redisCommand: append the command and wait for the next reply.  The call *)
(* remembers its own tag and what its key holds in call order.             *)
IssueCall(c, op) ==
    /\ AppendCommand(op, c.key, c.val)
    /\ pc' = "await"
    /\ call' = [c EXCEPT !.id = issued + 1, !.lag = outstanding,
                         !.expect = view[c.key]]

(* redis_publish and redis_dequeue issue their command without a flush.    *)
redis_publish(k, v) ==
    /\ pc = "idle"
    /\ issued < MaxIssued
    /\ IssueCall([NoCall EXCEPT !.op = "publish", !.key = k, !.val = v], "publish")
    /\ UNCHANGED <<store, wire, replies, outstanding, conn, result>>

redis_dequeue(k) ==
    /\ pc = "idle"
    /\ issued + 1 < MaxIssued
    /\ IssueCall([NoCall EXCEPT !.op = "dequeue", !.key = k], "get")
    /\ UNCHANGED <<store, wire, replies, outstanding, conn, result>>

(* redis_shutdown: no flush thread exists on this handle, so the semaphore *)
(* is 0 and the flush starts at once.                                      *)
redis_shutdown ==
    /\ pc = "idle"
    /\ pc' = "flush"
    /\ call' = [NoCall EXCEPT !.op = "close"]
    /\ UNCHANGED <<store, wire, outbuf, replies, outstanding, conn, ghostVars>>

----------------------------------------------------------------------------
(* The loop condition of redis_flush_pipeline.  (Faulty variants: it stops *)
(* one reply early, it asks for one reply too many.)                       *)
FlushLoopShort == outstanding > 1
FlushLoopLong == outstanding >= 0
FlushLoop == outstanding > 0

(* redisGetReply, waiting: send the whole output buffer.                   *)
SendBuffer ==
    /\ \/ pc = "flush" /\ FlushLoop
       \/ pc = "await"
    /\ conn = "up"
    /\ outbuf # <<>>
    /\ wire' = wire \o outbuf
    /\ outbuf' = <<>>
    /\ UNCHANGED <<store, replies, outstanding, conn, pc, call, ghostVars>>

(* One iteration of redis_flush_pipeline: fetch a reply, count it off.     *)
FlushOne ==
    /\ pc = "flush"
    /\ FlushLoop
    /\ replies # <<>>
    /\ replies' = Tail(replies)
    /\ outstanding' = outstanding - 1
    /\ UNCHANGED <<store, wire, outbuf, conn, pc, call, ghostVars>>

(* What the caller of redis_flush_pipeline does next.                      *)
AfterFlush ==
    \/ /\ call.op = "none"
       /\ pc' = "idle"
       /\ UNCHANGED <<outbuf, call, issued, view>>
    \/ /\ call.op = "close"
       /\ pc' = "closed"
       /\ UNCHANGED <<outbuf, call, issued, view>>
    \/ call.op = "read" /\ IssueCall(call, "get")
    \/ call.op \in {"check", "reset"} /\ IssueCall(call, "set")

(* redis_flush_pipeline returns EXIT_SUCCESS.                              *)
FlushDone ==
    /\ pc = "flush"
    /\ ~FlushLoop
    /\ AfterFlush
    /\ UNCHANGED <<store, wire, replies, outstanding, conn, result>>

(* The operation returns, or goes on with its second command: the DEL of   *)
(* redis_dequeue, the second reset of redis_set_reset.                     *)
AfterReply ==
    \/ /\ call.op = "dequeue"
       /\ IssueCall([call EXCEPT !.op = "dequeueDel", !.val = Nil], "set")
    \/ /\ call.op = "reset"
       /\ IssueCall([call EXCEPT !.op = "check"], "set")
    \/ /\ call.op \notin {"dequeue", "reset"}
       /\ pc' = "idle"
       /\ call' = NoCall
       /\ UNCHANGED <<outbuf, issued, view>>

(* redisCommand returns the oldest reply not fetched yet; callers take     *)
(* data only from a string reply.                                          *)
FetchReply ==
    LET r == Head(replies) IN
    /\ pc = "await"
    /\ replies # <<>>
    /\ replies' = Tail(replies)
    /\ result' = [op |-> call.op, own |-> call.id, id |-> r.id, lag |-> call.lag,
                  val |-> IF r.string THEN r.val ELSE Nil, expect |-> call.expect]
    /\ AfterReply
    /\ UNCHANGED <<store, wire, outstanding, conn>>

(* The Redis server executes the next command it received.                 *)
RedisExecute ==
    LET c == Head(wire) IN
    /\ wire # <<>>
    /\ wire' = Tail(wire)
    /\ store' = IF c.op = "set" THEN [store EXCEPT ![c.key] = c.val] ELSE store
    /\ replies' = Append(replies,
                     [id |-> c.id,
                      string |-> c.op = "get" /\ store[c.key] # Nil,
                      val |-> IF c.op = "get" THEN store[c.key] ELSE Nil])
    /\ UNCHANGED <<outbuf, outstanding, conn, pc, call, ghostVars>>

----------------------------------------------------------------------------
(* The connection breaks: what was on its way to the server is lost, and   *)
(* some of the replies that were on their way back.                        *)
ConnectionLost ==
    /\ conn = "up"
    /\ pc \notin {"closed", "dead"}
    /\ conn' = "lost"
    /\ wire' = <<>>
    /\ \E n \in 0 .. Len(replies) : replies' = SubSeq(replies, 1, n)
    /\ UNCHANGED <<store, outbuf, outstanding, pc, call, ghostVars>>

(* redisGetReply fails and leaves "reply" unset: check_redis_return reads  *)
(* an indeterminate pointer, which may be the reply that was freed before. *)
(* Either freeing it ends the process; or it goes by unnoticed, and the    *)
(* command counts as answered; or the pointer happens to be NULL and the   *)
(* flush returns EXIT_FAILURE: then a pipelined call asserts, the others   *)
(* ignore the failure and go on.                                           *)
FlushFails ==
    /\ pc = "flush"
    /\ FlushLoop
    /\ conn = "lost"
    /\ replies = <<>>
    /\ \/ /\ pc' = "dead"
          /\ UNCHANGED <<outstanding, outbuf, call, issued, view>>
       \/ /\ outstanding' = outstanding - 1
          /\ UNCHANGED <<pc, outbuf, call, issued, view>>
       \/ /\ call.op # "none"
          /\ AfterFlush
          /\ UNCHANGED outstanding
    /\ UNCHANGED <<store, wire, replies, conn, result>>

(* redisCommand returns NULL: an operation that only checks the reply      *)
(* returns EXIT_FAILURE, one that uses reply->type dereferences NULL.      *)
AwaitFails ==
    /\ pc = "await"
    /\ conn = "lost"
    /\ replies = <<>>
    /\ \/ call.op \in {"check", "reset", "publish", "dequeueDel"} /\ AfterReply
       \/ /\ call.op \in {"read", "dequeue"}
          /\ pc' = "dead"
          /\ UNCHANGED <<outbuf, call, issued, view>>
    /\ UNCHANGED <<store, wire, replies, outstanding, conn, result>>

Finished == pc \in {"closed", "dead"} /\ UNCHANGED vars

ClientStep == SendBuffer \/ FlushOne \/ FlushDone \/ FetchReply \/ FlushFails \/ AwaitFails

Next ==
    \/ \E k \in Keys :
          \/ \E v \in Values \cup {Nil} : PipelinedCall(k, v)
          \/ \E v \in Values : FlushingCall("check", k, v) \/ redis_publish(k, v)
          \/ \E op \in {"read", "reset"} : FlushingCall(op, k, Nil)
          \/ redis_dequeue(k)
    \/ redis_shutdown
    \/ ClientStep
    \/ RedisExecute
    \/ ConnectionLost
    \/ Finished

Spec == Init /\ [][Next]_vars

(* A call that has started runs on, and the server answers what it got.    *)
FairSpec == Spec /\ WF_vars(ClientStep) /\ WF_vars(RedisExecute)

----------------------------------------------------------------------------
TypeOK ==
    /\ store \in [Keys -> Values \cup {Nil}]
    /\ wire \in Seq(Command)
    /\ outbuf \in Seq(Command)
    /\ replies \in Seq(Reply)
    /\ outstanding \in Nat
    /\ conn \in {"up", "lost"}
    /\ pc \in {"idle", "flush", "await", "closed", "dead"}
    /\ call \in Call
    /\ issued \in Nat
    /\ view \in [Keys -> Values \cup {Nil}]
    /\ result \in Result

(* The counter outstanding_pipelined_cmds equals the number of commands    *)
(* whose reply has not been fetched, but for the one command of a          *)
(* synchronous call in progress, while the connection is up.  If it were   *)
(* larger, redis_flush_pipeline would block for ever in redisGetReply; if  *)
(* smaller, every later synchronous call would get somebody else's reply.  *)
Balanced ==
    conn = "up" =>
      Len(replies) + Len(wire) + Len(outbuf) =
        outstanding + (IF pc = "await" THEN 1 ELSE 0)

(* A synchronous operation that flushes first (redis_hash_field_get,       *)
(* redis_sector_lookup, ...) gets the reply to its own command, and reads  *)
(* what all earlier calls, pipelined ones included, left in its key, also  *)
(* when redis_publish and redis_dequeue, which do not flush, came before.  *)
FlushedCallGetsOwnReply ==
    result.op \in {"read", "check", "reset"} =>
      /\ result.id = result.own
      /\ result.op = "read" => result.val = result.expect

(* What redis_publish and redis_dequeue get instead: without a flush the   *)
(* reply they fetch belongs to the command issued exactly as many commands *)
(* earlier as were outstanding when they were called.                      *)
UnflushedReplyLag ==
    result.op \in {"publish", "dequeue", "dequeueDel"} =>
      result.id = result.own - result.lag

(* Between calls fewer than REDIS_DEFAULT_PIPELINED commands are           *)
(* outstanding: the pipeline's memory is bounded by the threshold.         *)
PipelineBounded ==
    /\ pc \in {"idle", "await"} => outstanding < REDIS_DEFAULT_PIPELINED
    /\ pc = "flush" => outstanding <= REDIS_DEFAULT_PIPELINED

(* When nothing is outstanding between two calls, and when redis_shutdown  *)
(* has closed the handle, the server holds the effect of every call made,  *)
(* in call order: other processes (gray-fs) may rely on it.                *)
FlushMakesVisible ==
    /\ conn = "up"
    /\ pc = "closed" \/ (pc = "idle" /\ outstanding = 0)
    => store = view

(* redis_dequeue returns the write queued under its sector.                *)
DequeueReturnsQueuedWrite ==
    result.op = "dequeue" => result.val = result.expect

(* No call blocks for ever in redisGetReply: every call returns or the     *)
(* process ends.                                                           *)
EveryCallReturns == (pc \in {"flush", "await"}) ~> (pc \in {"idle", "closed", "dead"})
=============================================================================
