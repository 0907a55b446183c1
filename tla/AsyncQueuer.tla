---------------------------- MODULE AsyncQueuer ----------------------------
(***************************************************************************)
(* The async queuer process: gray-ndb-queuer.c reads disk writes from the  *)
(* QEMU stream and hands them to redis_async_write_enqueue, which pushes   *)
(* each as two list elements (sector number, data) on the Redis list       *)
(* "writequeue".  Pushes are only appended to the hiredis output buffer;   *)
(* they are sent, and their replies fetched, by                            *)
(*   - a flush thread that the enqueue starts when enough is outstanding,  *)
(*   - the periodic flusher that redis_init started,                       *)
(*   - redis_shutdown, when the stream ends (on_exit handler).             *)
(* conn_lock guards the connection, cmd_lock the counter of outstanding    *)
(* commands, flush_lock serialises the flushers; the semaphore             *)
(* thread_counter counts the jobs in progress.                             *)
(*                                                                         *)
(* A write that would have to wait for a lock is dropped, unless the       *)
(* filter of metadata sectors has its bit set (see BitArray for how it is  *)
(* loaded, and Crawler for how it is made).                                *)
(*                                                                         *)
(* redis_shutdown takes no lock for its flush.  The periodic flusher may   *)
(* still be running: the two may then change the counter at the same time  *)
(* and use the connection at the same time.  Both are modelled, the latter *)
(* by what two unsynchronised users of a hiredis context can bring about.  *)
(***************************************************************************)
EXTENDS Integers, Sequences, FiniteSets, FiniteSetsExt

CONSTANTS Main,                     \* the thread that runs read_loop
          Periodic,                 \* the thread of redis_periodic_flusher
          FlushThreads,             \* threads created by the enqueue
          NoThread,                 \* owner of a free mutex
          REDIS_DEFAULT_PIPELINED,  \* commands outstanding that start a flush
          REDIS_DEFAULT_BYTES,      \* bytes outstanding that start a flush
          MaxCount,                 \* the largest value of the counter
          Sectors,                  \* sector numbers of the writes
          Filter,                   \* bits set in the filter that was loaded
          MaxWrites                 \* bound: writes in the stream

ASSUME QueuerAssumption ==
    /\ Main # Periodic
    /\ {Main, Periodic, NoThread} \cap FlushThreads = {}
    /\ NoThread \notin {Main, Periodic}
    /\ IsFiniteSet(FlushThreads)
    /\ REDIS_DEFAULT_PIPELINED \in Nat \ {0}
    /\ REDIS_DEFAULT_BYTES \in Nat
    /\ MaxCount \in Nat
    /\ REDIS_DEFAULT_PIPELINED + 1 <= MaxCount
    /\ Sectors \subseteq Nat /\ 0 \in Sectors
    /\ MaxWrites \in Nat

Flushers == FlushThreads \cup {Periodic}
Threads == Flushers \cup {Main}

VARIABLES
    mpc,         \* main thread: where it is
    cur,         \* main thread: the write read from the stream
    mjob,        \* main thread: cmds_to_process of the job being started
    semSeen,     \* main thread: the semaphore value redis_shutdown read
    loaded,      \* main thread: the counter as loaded to be decremented
    fpc,         \* flushers: where each is
    job,         \* flushers: job->cmds_to_process
    connLock, cmdLock, flushLock,   \* owners of the mutexes
    sem,         \* thread_counter
    outstanding, \* handle->outstanding_pipelined_cmds
    bytes,       \* handle->outstanding_bytes
    shutdown,    \* handle->shutdown
    handle,      \* "live" | "freed" | "gone" (the process crashed)
    outbuf,      \* connection: commands appended, not sent
    wire,        \* connection: commands sent, not executed
    replies,     \* connection: number of replies not fetched
    queue,       \* server: everything pushed on "writequeue", oldest first
    nread,       \* history: number of writes read from the stream
    accepted,    \* history: writes enqueued, in order
    raced,       \* history: redis_shutdown and the periodic flusher have
                 \*   changed the counter at the same time
    collided     \* history: they were in the connection at the same time

locals    == <<cur, mjob, semSeen, loaded>>
mainVars  == <<mpc, locals>>
flushVars == <<fpc, job>>
lockVars  == <<connLock, cmdLock, flushLock>>
connVars  == <<outbuf, wire, replies, queue>>
histVars  == <<nread, accepted, raced, collided>>
vars == <<mainVars, flushVars, lockVars, sem, outstanding, bytes, shutdown,
          handle, connVars, histVars>>

Write == [n : Nat, sector : Sectors]
Element == [part : {"sector", "data"}, n : Nat]

MainPCs == {"read", "tryconn", "lockconn", "trycmd", "lockcmd", "append",
            "count", "post", "create", "sdget", "sdtest", "sdflush",
            "sdreply", "sdload", "sdstore", "freed", "exited"}
FlusherPCs == {"none", "check", "lockcmd", "take", "zero", "post", "lockflush",
               "loop", "getreply", "semwait", "unlockflush", "done"}

(* redis_shutdown has found the counter above 0 and not yet decremented it *)
(* for the reply it fetches.                                               *)
Decrementing == mpc \in {"sdreply", "sdload", "sdstore"}

----------------------------------------------------------------------------
(* redis_init(db, true): outstanding_bytes is not initialised, so it holds *)
(* anything: below the limit, or above it.                                 *)
Init ==
    /\ mpc = "read"
    /\ cur = [n |-> 1, sector |-> 0]
    /\ mjob = 0
    /\ semSeen = 0
    /\ loaded = 0
    /\ fpc = [f \in Flushers |-> IF f = Periodic THEN "check" ELSE "none"]
    /\ job = [f \in Flushers |-> 0]
    /\ connLock = NoThread /\ cmdLock = NoThread /\ flushLock = NoThread
    /\ sem = 0
    /\ outstanding = 0
    /\ bytes \in {0, REDIS_DEFAULT_BYTES}
    /\ shutdown = FALSE
    /\ handle = "live"
    /\ outbuf = <<>> /\ wire = <<>> /\ replies = 0 /\ queue = <<>>
    /\ nread = 0 /\ accepted = <<>>
    /\ raced = FALSE /\ collided = FALSE

----------------------------------------------------------------------------
(* The main thread: read_loop and redis_async_write_enqueue.               *)

(* read_loop reads a header and its data.                                  *)
ReadWrite(sector) ==
    /\ mpc = "read"
    /\ nread < MaxWrites
    /\ nread' = nread + 1
    /\ cur' = [n |-> nread + 1, sector |-> sector]
    /\ mpc' = "tryconn"
    /\ UNCHANGED <<mjob, semSeen, loaded, flushVars, lockVars, sem, outstanding,
                   bytes, shutdown, handle, connVars, accepted, raced, collided>>

(* EXIT_FAILURE of the enqueue: read_loop drops the write and goes on.     *)
DropWrite == mpc' = "read"

(* bitarray_get_bit(bits, sector / 4096): the write may not be dropped.    *)
(* (Faulty variant: the filter is ignored.)                                *)
MustQueueIgnored == FALSE
MustQueue == cur.sector \div 4096 \in Filter

(* pthread_mutex_trylock(conn_lock).                                       *)
TryConnLock ==
    /\ mpc = "tryconn"
    /\ \/ /\ connLock = NoThread
          /\ connLock' = Main
          /\ mpc' = "trycmd"
       \/ /\ connLock # NoThread
          /\ ~MustQueue
          /\ DropWrite
          /\ UNCHANGED connLock
       \/ /\ connLock # NoThread
          /\ MustQueue
          /\ mpc' = "lockconn"
          /\ UNCHANGED connLock
    /\ UNCHANGED <<locals, flushVars, cmdLock, flushLock, sem,
                   outstanding, bytes, shutdown, handle, connVars, histVars>>

(* pthread_mutex_lock(conn_lock) for a metadata write.                     *)
LockConn ==
    /\ mpc = "lockconn"
    /\ connLock = NoThread
    /\ connLock' = Main
    /\ mpc' = "trycmd"
    /\ UNCHANGED <<locals, flushVars, cmdLock, flushLock, sem,
                   outstanding, bytes, shutdown, handle, connVars, histVars>>

(* pthread_mutex_trylock(cmd_lock), giving conn_lock back when it drops.   *)
TryCmdLock ==
    /\ mpc = "trycmd"
    /\ \/ /\ cmdLock = NoThread
          /\ cmdLock' = Main
          /\ mpc' = "append"
          /\ UNCHANGED connLock
       \/ /\ cmdLock # NoThread
          /\ ~MustQueue
          /\ DropWrite
          /\ connLock' = NoThread
          /\ UNCHANGED cmdLock
       \/ /\ cmdLock # NoThread
          /\ MustQueue
          /\ mpc' = "lockcmd"
          /\ UNCHANGED <<connLock, cmdLock>>
    /\ UNCHANGED <<locals, flushVars, flushLock, sem,
                   outstanding, bytes, shutdown, handle, connVars, histVars>>

LockCmd ==
    /\ mpc = "lockcmd"
    /\ cmdLock = NoThread
    /\ cmdLock' = Main
    /\ mpc' = "append"
    /\ UNCHANGED <<locals, flushVars, connLock, flushLock, sem,
                   outstanding, bytes, shutdown, handle, connVars, histVars>>

(* The two redisAppendCommand calls and the release of conn_lock.          *)
(* (Faulty variant: the two pushes are swapped.)                           *)
PairSwapped(n) == <<[part |-> "data", n |-> n], [part |-> "sector", n |-> n]>>
Pair(n) == <<[part |-> "sector", n |-> n], [part |-> "data", n |-> n]>>

AppendPair ==
    /\ mpc = "append"
    /\ outbuf' = outbuf \o Pair(cur.n)
    /\ connLock' = NoThread
    /\ accepted' = Append(accepted, cur.n)
    /\ mpc' = "count"
    /\ UNCHANGED <<locals, flushVars, cmdLock, flushLock, sem,
                   outstanding, bytes, shutdown, handle, wire, replies, queue,
                   nread, raced, collided>>

(* Count the two commands; when enough is outstanding, a job takes them    *)
(* over.  Then cmd_lock is released.                                       *)
CountPair ==
    LET due == \/ outstanding + 2 >= REDIS_DEFAULT_PIPELINED
               \/ bytes + 1 > REDIS_DEFAULT_BYTES
    IN
    /\ mpc = "count"
    /\ bytes' = bytes + 1
    /\ mjob' = IF due THEN outstanding + 2 ELSE mjob
    /\ outstanding' = IF due THEN 0 ELSE outstanding + 2
    /\ mpc' = IF due THEN "post" ELSE "read"
    /\ cmdLock' = NoThread
    /\ UNCHANGED <<cur, semSeen, loaded, flushVars, connLock, flushLock, sem, shutdown,
                   handle, connVars, histVars>>

(* sem_post(thread_counter).                                               *)
MainSemPost ==
    /\ mpc = "post"
    /\ sem' = sem + 1
    /\ mpc' = "create"
    /\ UNCHANGED <<locals, flushVars, lockVars, outstanding, bytes,
                   shutdown, handle, connVars, histVars>>

(* pthread_create(redis_flush_thread_pipeline, job), then the byte count   *)
(* starts again.                                                           *)
CreateFlushThread(t) ==
    /\ mpc = "create"
    /\ fpc[t] = "none"
    /\ fpc' = [fpc EXCEPT ![t] = "lockflush"]
    /\ job' = [job EXCEPT ![t] = mjob]
    /\ mjob' = 0
    /\ bytes' = 0
    /\ mpc' = "read"
    /\ UNCHANGED <<cur, semSeen, loaded, lockVars, sem, outstanding, shutdown, handle,
                   connVars, histVars>>

----------------------------------------------------------------------------
(* The main thread: redis_shutdown, run by exit().                         *)

(* The stream ends (or fails): main returns; redis_shutdown first raises   *)
(* the flag.                                                               *)
ReadEnds ==
    /\ mpc = "read"
    /\ shutdown' = TRUE
    /\ mpc' = "sdget"
    /\ UNCHANGED <<locals, flushVars, lockVars, sem, outstanding,
                   bytes, handle, connVars, histVars>>

ShutdownGetValue ==
    /\ mpc = "sdget"
    /\ semSeen' = sem
    /\ mpc' = "sdtest"
    /\ UNCHANGED <<cur, mjob, loaded, flushVars, lockVars, sem, outstanding, bytes,
                   shutdown, handle, connVars, histVars>>

(* The loop tests the value it read before it slept.                       *)
(* (Faulty variants: it does not wait; it does not read the value again.)  *)
ShutdownTestSkipped ==
    /\ mpc = "sdtest"
    /\ mpc' = "sdflush"
    /\ UNCHANGED <<locals, flushVars, lockVars, sem, outstanding,
                   bytes, shutdown, handle, connVars, histVars>>

ShutdownTestStale ==
    /\ mpc = "sdtest"
    /\ mpc' = IF semSeen # 0 THEN "sdtest" ELSE "sdflush"
    /\ UNCHANGED <<locals, flushVars, lockVars, sem, outstanding,
                   bytes, shutdown, handle, connVars, histVars>>

ShutdownTest ==
    /\ mpc = "sdtest"
    /\ mpc' = IF semSeen # 0 THEN "sdget" ELSE "sdflush"
    /\ UNCHANGED <<locals, flushVars, lockVars, sem, outstanding,
                   bytes, shutdown, handle, connVars, histVars>>

(* redis_flush_pipeline, which takes no lock: the test of its loop.  At 0  *)
(* follow redisFree, destruction of the mutexes and the semaphore and      *)
(* free(handle).                                                           *)
ShutdownFlushTest ==
    /\ mpc = "sdflush"
    /\ \/ /\ outstanding # 0
          /\ mpc' = "sdreply"
          /\ raced' = (raced \/ fpc[Periodic] = "zero")
          /\ collided' = (collided \/ fpc[Periodic] = "getreply")
          /\ UNCHANGED handle
       \/ /\ outstanding = 0
          /\ mpc' = "freed"
          /\ handle' = "freed"
          /\ UNCHANGED <<raced, collided>>
    /\ UNCHANGED <<locals, flushVars, lockVars, sem,
                   outstanding, bytes, shutdown, connVars, nread, accepted>>

(* Its redisGetReply sends the output buffer and waits for a reply.        *)
ShutdownSend ==
    /\ mpc = "sdreply"
    /\ outbuf # <<>>
    /\ wire' = wire \o outbuf
    /\ outbuf' = <<>>
    /\ UNCHANGED <<mainVars, flushVars, lockVars, sem, outstanding, bytes,
                   shutdown, handle, replies, queue, histVars>>

ShutdownFetch ==
    /\ mpc = "sdreply"
    /\ replies > 0
    /\ replies' = replies - 1
    /\ mpc' = "sdload"
    /\ UNCHANGED <<locals, flushVars, lockVars, sem,
                   outstanding, bytes, shutdown, handle, outbuf, wire, queue,
                   histVars>>

(* outstanding_pipelined_cmds--, a load and a store of an unsigned number. *)
ShutdownLoad ==
    /\ mpc = "sdload"
    /\ loaded' = outstanding
    /\ mpc' = "sdstore"
    /\ UNCHANGED <<cur, mjob, semSeen, flushVars, lockVars, sem, outstanding,
                   bytes, shutdown, handle, connVars, histVars>>

Decremented(n) == IF n = 0 THEN MaxCount ELSE n - 1

ShutdownStore ==
    /\ mpc = "sdstore"
    /\ outstanding' = Decremented(loaded)
    /\ loaded' = 0
    /\ mpc' = "sdflush"
    /\ UNCHANGED <<cur, mjob, semSeen, flushVars, lockVars, sem, bytes, shutdown,
                   handle, connVars, histVars>>

(* exit() ends the process, and every thread with it.                      *)
ProcessExit ==
    /\ mpc = "freed"
    /\ mpc' = "exited"
    /\ UNCHANGED <<locals, flushVars, lockVars, sem, outstanding,
                   bytes, shutdown, handle, connVars, histVars>>

----------------------------------------------------------------------------
(* The periodic flusher.  A thread that outlives the handle works on freed *)
(* memory: what it does then is undefined and not followed any further.    *)

(* while (!shutdown) sleep ...                                             *)
(* (Faulty variant: the test is the wrong way round.)                      *)
PeriodicCheckInverted ==
    /\ handle = "live"
    /\ fpc[Periodic] = "check"
    /\ fpc' = [fpc EXCEPT ![Periodic] = IF shutdown THEN "lockcmd" ELSE "done"]
    /\ UNCHANGED <<mainVars, job, lockVars, sem, outstanding, bytes, shutdown,
                   handle, connVars, histVars>>

PeriodicCheck ==
    /\ handle = "live"
    /\ fpc[Periodic] = "check"
    /\ fpc' = [fpc EXCEPT ![Periodic] = IF shutdown THEN "done" ELSE "lockcmd"]
    /\ UNCHANGED <<mainVars, job, lockVars, sem, outstanding, bytes, shutdown,
                   handle, connVars, histVars>>

PeriodicLockCmd ==
    /\ handle = "live"
    /\ fpc[Periodic] = "lockcmd"
    /\ cmdLock = NoThread
    /\ cmdLock' = Periodic
    /\ fpc' = [fpc EXCEPT ![Periodic] = "take"]
    /\ UNCHANGED <<mainVars, job, connLock, flushLock, sem, outstanding, bytes,
                   shutdown, handle, connVars, histVars>>

(* Take over what is outstanding: read the counter, set it to 0.  cmd_lock *)
(* keeps redis_async_write_enqueue away, but not redis_shutdown.           *)
PeriodicTake ==
    /\ handle = "live"
    /\ fpc[Periodic] = "take"
    /\ job' = [job EXCEPT ![Periodic] = outstanding]
    /\ fpc' = [fpc EXCEPT ![Periodic] = "zero"]
    /\ raced' = (raced \/ Decrementing)
    /\ UNCHANGED <<mainVars, lockVars, sem, outstanding, bytes, shutdown, handle,
                   connVars, nread, accepted, collided>>

(* (Faulty variant: the counter is not reset, so that the same commands    *)
(* are counted twice.)                                                     *)
PeriodicZeroForgotten ==
    /\ handle = "live"
    /\ fpc[Periodic] = "zero"
    /\ cmdLock' = NoThread
    /\ fpc' = [fpc EXCEPT ![Periodic] = "post"]
    /\ UNCHANGED <<mainVars, job, connLock, flushLock, sem, outstanding, bytes,
                   shutdown, handle, connVars, histVars>>

PeriodicZero ==
    /\ handle = "live"
    /\ fpc[Periodic] = "zero"
    /\ outstanding' = 0
    /\ cmdLock' = NoThread
    /\ fpc' = [fpc EXCEPT ![Periodic] = "post"]
    /\ UNCHANGED <<mainVars, job, connLock, flushLock, sem, bytes, shutdown,
                   handle, connVars, histVars>>

PeriodicSemPost ==
    /\ handle = "live"
    /\ fpc[Periodic] = "post"
    /\ sem' = sem + 1
    /\ fpc' = [fpc EXCEPT ![Periodic] = "lockflush"]
    /\ UNCHANGED <<mainVars, job, lockVars, outstanding, bytes, shutdown, handle,
                   connVars, histVars>>

----------------------------------------------------------------------------
(* redis_flush_thread_pipeline, run by the flush threads and the periodic  *)
(* flusher alike.                                                          *)

LockFlush(f) ==
    /\ handle = "live"
    /\ fpc[f] = "lockflush"
    /\ flushLock = NoThread
    /\ flushLock' = f
    /\ fpc' = [fpc EXCEPT ![f] = "loop"]
    /\ UNCHANGED <<mainVars, job, connLock, cmdLock, sem, outstanding, bytes,
                   shutdown, handle, connVars, histVars>>

(* while (job->cmds_to_process) lock conn_lock.  (Faulty variant: the      *)
(* connection is used without the lock.)                                   *)
EnterConnectionUnlocked(f) ==
    /\ handle = "live"
    /\ fpc[f] = "loop"
    /\ job[f] > 0
    /\ fpc' = [fpc EXCEPT ![f] = "getreply"]
    /\ collided' = (collided \/ mpc = "sdreply")
    /\ UNCHANGED <<mainVars, job, lockVars, sem, outstanding, bytes,
                   shutdown, handle, connVars, nread, accepted, raced>>

EnterConnection(f) ==
    /\ handle = "live"
    /\ fpc[f] = "loop"
    /\ job[f] > 0
    /\ connLock = NoThread
    /\ connLock' = f
    /\ fpc' = [fpc EXCEPT ![f] = "getreply"]
    /\ collided' = (collided \/ mpc = "sdreply")
    /\ UNCHANGED <<mainVars, job, cmdLock, flushLock, sem, outstanding, bytes,
                   shutdown, handle, connVars, nread, accepted, raced>>

(* redisGetReply sends the output buffer before it waits.                  *)
Send(f) ==
    /\ handle = "live"
    /\ fpc[f] = "getreply"
    /\ outbuf # <<>>
    /\ wire' = wire \o outbuf
    /\ outbuf' = <<>>
    /\ UNCHANGED <<mainVars, flushVars, lockVars, sem, outstanding, bytes,
                   shutdown, handle, replies, queue, histVars>>

(* redisGetReply returns a reply; conn_lock is released, the job shrinks.  *)
Fetch(f) ==
    /\ handle = "live"
    /\ fpc[f] = "getreply"
    /\ replies > 0
    /\ replies' = replies - 1
    /\ job' = [job EXCEPT ![f] = job[f] - 1]
    /\ connLock' = NoThread
    /\ fpc' = [fpc EXCEPT ![f] = "loop"]
    /\ UNCHANGED <<mainVars, cmdLock, flushLock, sem, outstanding, bytes,
                   shutdown, handle, outbuf, wire, queue, histVars>>

LoopDone(f) ==
    /\ handle = "live"
    /\ fpc[f] = "loop"
    /\ job[f] = 0
    /\ fpc' = [fpc EXCEPT ![f] = "semwait"]
    /\ UNCHANGED <<mainVars, job, lockVars, sem, outstanding, bytes, shutdown,
                   handle, connVars, histVars>>

SemWait(f) ==
    /\ handle = "live"
    /\ fpc[f] = "semwait"
    /\ sem > 0
    /\ sem' = sem - 1
    /\ fpc' = [fpc EXCEPT ![f] = "unlockflush"]
    /\ UNCHANGED <<mainVars, job, lockVars, outstanding, bytes, shutdown, handle,
                   connVars, histVars>>

(* Release flush_lock; a flush thread ends, the periodic flusher loops.    *)
UnlockFlush(f) ==
    /\ handle = "live"
    /\ fpc[f] = "unlockflush"
    /\ flushLock' = NoThread
    /\ fpc' = [fpc EXCEPT ![f] = IF f = Periodic THEN "check" ELSE "done"]
    /\ UNCHANGED <<mainVars, job, connLock, cmdLock, sem, outstanding, bytes,
                   shutdown, handle, connVars, histVars>>

(* The Redis server executes the next command it received.                 *)
RedisExecute ==
    /\ wire # <<>>
    /\ wire' = Tail(wire)
    /\ queue' = Append(queue, Head(wire))
    /\ replies' = replies + 1
    /\ UNCHANGED <<mainVars, flushVars, lockVars, sem, outstanding, bytes,
                   shutdown, handle, outbuf, histVars>>

----------------------------------------------------------------------------
(* hiredis, used by redis_shutdown and the periodic flusher at once: what  *)
(* it does is undefined.  Both may send the output buffer before either    *)
(* has emptied it, one may overwrite a reply that the other is reading,    *)
(* and a buffer freed twice ends the process.                              *)
Collision == mpc = "sdreply" /\ fpc[Periodic] = "getreply" /\ handle = "live"

SendTwice ==
    /\ Collision
    /\ outbuf # <<>>
    /\ wire' = wire \o outbuf \o outbuf
    /\ outbuf' = <<>>
    /\ UNCHANGED <<mainVars, flushVars, lockVars, sem, outstanding, bytes,
                   shutdown, handle, replies, queue, histVars>>

OverwriteReply ==
    /\ Collision
    /\ replies > 0
    /\ replies' = replies - 1
    /\ UNCHANGED <<mainVars, flushVars, lockVars, sem, outstanding, bytes,
                   shutdown, handle, outbuf, wire, queue, histVars>>

CorruptHeap ==
    /\ Collision
    /\ mpc' = "exited"
    /\ handle' = "gone"
    /\ UNCHANGED <<locals, flushVars, lockVars, sem, outstanding, bytes,
                   shutdown, connVars, histVars>>

----------------------------------------------------------------------------
EnqueueStep ==
    \/ TryConnLock \/ LockConn \/ TryCmdLock \/ LockCmd
    \/ AppendPair \/ CountPair \/ MainSemPost
    \/ \E t \in FlushThreads : CreateFlushThread(t)

ShutdownStep ==
    \/ ShutdownGetValue \/ ShutdownTest \/ ShutdownFlushTest \/ ShutdownSend
    \/ ShutdownFetch \/ ShutdownLoad \/ ShutdownStore \/ ProcessExit

PeriodicStep ==
    \/ PeriodicCheck \/ PeriodicLockCmd \/ PeriodicTake \/ PeriodicZero
    \/ PeriodicSemPost

CollisionStep == SendTwice \/ OverwriteReply \/ CorruptHeap

FlushStep(f) ==
    \/ LockFlush(f) \/ EnterConnection(f) \/ Send(f) \/ Fetch(f)
    \/ LoopDone(f) \/ SemWait(f) \/ UnlockFlush(f)

Exited == mpc = "exited" /\ UNCHANGED vars

(* After a race redis_shutdown may wait for ever for a reply.              *)
Hung == mpc = "sdreply" /\ (raced \/ collided) /\ UNCHANGED vars

Next ==
    \/ \E sector \in Sectors : ReadWrite(sector)
    \/ ReadEnds
    \/ EnqueueStep
    \/ ShutdownStep
    \/ PeriodicStep
    \/ \E f \in Flushers : FlushStep(f)
    \/ CollisionStep
    \/ RedisExecute
    \/ Exited \/ Hung

Spec == Init /\ [][Next]_vars

(* Every thread that can run does, and the server answers; nothing obliges *)
(* the stream to deliver another write or to end.  A thread that waits for *)
(* flush_lock or cmd_lock gets it in the end: whoever could take it again  *)
(* and again is the periodic flusher, which sleeps five seconds with both  *)
(* of them free.                                                           *)
FairSpec ==
    /\ Spec
    /\ WF_vars(EnqueueStep) /\ SF_vars(LockCmd)
    /\ WF_vars(ShutdownStep)
    /\ WF_vars(PeriodicStep)
    /\ \A f \in Flushers : WF_vars(FlushStep(f)) /\ SF_vars(LockFlush(f))
    /\ WF_vars(RedisExecute)

----------------------------------------------------------------------------
TypeOK ==
    /\ mpc \in MainPCs
    /\ cur \in Write
    /\ mjob \in Nat
    /\ semSeen \in Nat
    /\ loaded \in 0 .. MaxCount
    /\ fpc \in [Flushers -> FlusherPCs]
    /\ job \in [Flushers -> Nat]
    /\ connLock \in Threads \cup {NoThread}
    /\ cmdLock \in Threads \cup {NoThread}
    /\ flushLock \in Flushers \cup {NoThread}
    /\ sem \in Nat
    /\ outstanding \in 0 .. MaxCount
    /\ bytes \in Nat
    /\ shutdown \in BOOLEAN
    /\ handle \in {"live", "freed", "gone"}
    /\ outbuf \in Seq(Element)
    /\ wire \in Seq(Element)
    /\ replies \in Nat
    /\ queue \in Seq(Element)
    /\ nread \in Nat
    /\ accepted \in Seq(Nat)
    /\ raced \in BOOLEAN
    /\ collided \in BOOLEAN

(* No two threads are inside the hiredis context, which is not thread      *)
(* safe, but redis_shutdown in its flush, which takes no lock, and the     *)
(* periodic flusher: never one of the flush threads, and never while       *)
(* writes are enqueued.                                                    *)
InConnection ==
    {f \in Flushers : fpc[f] = "getreply"} \cup
    (IF mpc \in {"append", "sdreply"} THEN {Main} ELSE {})

ConnectionExclusive ==
    \A s, t \in InConnection :
        s # t => {s, t} = {Main, Periodic} /\ mpc = "sdreply"

(* The replies that will come, and those that somebody will wait for: by   *)
(* the counter, or by one job.  What the periodic flusher has read is in   *)
(* the counter until it sets that to 0, and a reply that redis_shutdown    *)
(* has fetched is in the counter until it has decremented that.            *)
Pending == Len(outbuf) + Len(wire) + replies

RepliesOwed ==
    outstanding + mjob
      + MapThenSumSet(LAMBDA f : IF fpc[f] = "zero" THEN 0 ELSE job[f], Flushers)
      - (IF mpc \in {"sdload", "sdstore"} THEN 1 ELSE 0)

(* Every command appended is counted exactly once (by the main thread      *)
(* between append and count not yet), unless redis_shutdown and the        *)
(* periodic flusher changed the counter at once: then some are counted     *)
(* twice, but still none is forgotten.                                     *)
EveryCommandCounted ==
    LET owed == RepliesOwed + (IF mpc = "count" THEN 2 ELSE 0) IN
    ~collided => /\ Pending <= owed
                 /\ ~raced => Pending = owed

(* Nobody waits in redisGetReply for a reply that will never come:         *)
(* metadata writes, which wait for conn_lock, would hang with it.          *)
NoReaderStarves == ~raced /\ ~collided /\ InConnection \ {Main} # {} => Pending > 0

(* What reaches "writequeue", with what is on its way there, is the        *)
(* sequence of accepted writes in stream order, each as its sector number  *)
(* followed by its data: the consumer pairs the elements by position.      *)
PushedInPairs ==
    LET pushed == queue \o wire \o outbuf IN
    ~collided =>
    /\ Len(pushed) = 2 * Len(accepted)
    /\ \A i \in 1 .. Len(accepted) :
         SubSeq(pushed, 2 * i - 1, 2 * i) =
           <<[part |-> "sector", n |-> accepted[i]],
             [part |-> "data", n |-> accepted[i]]>>
    /\ \A i, j \in 1 .. Len(accepted) : i < j => accepted[i] < accepted[j]

(* Seen from the Redis list, the queuer is a PairProducer: what happens in *)
(* redis_async_write_enqueue, in the flushers and on the connection shows  *)
(* there only as pushes of whole writes in stream order, as long as        *)
(* redis_shutdown and the periodic flusher do not meet in the connection.  *)
Producer == INSTANCE PairProducer WITH pushed <- queue, Ids <- 1 .. MaxWrites

ProducesPairs == Producer!Init /\ [][Producer!Next \/ collided]_queue

(* thread_counter is the number of jobs posted and not finished, so that   *)
(* redis_shutdown's wait means something, and sem_wait, which is called    *)
(* with flush_lock held, never blocks.                                     *)
AtWork == {f \in Flushers : fpc[f] \in {"lockflush", "loop", "getreply", "semwait"}}

SemaphoreCountsJobs == sem = Cardinality(AtWork) + (IF mpc = "create" THEN 1 ELSE 0)

(* The counts the threads go by are right: those of the replies that a     *)
(* thread may wait for, and thread_counter of the flushers at work         *)
(* (redis_async_write_enqueue, redis_periodic_flusher,                     *)
(* redis_flush_thread_pipeline, redis_flush_pipeline).                     *)
JobsAreCounted == EveryCommandCounted /\ NoReaderStarves /\ SemaphoreCountsJobs

(* What shutdown may lose is bounded, whatever it met: when the handle is  *)
(* freed, every accepted element has been pushed by the server except at   *)
(* most as many as a job of the periodic flusher has still to do.          *)
Unpushed ==
    {e \in [part : {"sector", "data"}, n : {accepted[i] : i \in DOMAIN accepted}] :
        \A i \in DOMAIN queue : queue[i] # e}

ShutdownLosesOnlyPeriodicJob ==
    handle = "freed" => Cardinality(Unpushed) <= job[Periodic]

(* redis_shutdown waits for all threads before it frees the handle.        *)
ShutdownWaitsForThreads ==
    handle = "freed" => \A f \in Flushers : fpc[f] \in {"none", "done"}

(* The process ends once the stream has ended: redis_shutdown waits for    *)
(* every thread at work and for every reply it counts, and all of them     *)
(* come, unless the periodic flusher interferes with its flush.            *)
ShutdownEnds == shutdown ~> (mpc = "exited" \/ raced \/ collided)

(* A write whose bit is set in the filter is enqueued at last, whoever     *)
(* holds conn_lock and cmd_lock: it is neither dropped, nor does its wait  *)
(* for one with the other in hand block the flusher that it waits for.     *)
MetadataIsAccepted ==
    (mpc = "tryconn" /\ cur.sector \div 4096 \in Filter) ~> mpc = "count"

(* Every accepted write is pushed on "writequeue", even when no other      *)
(* write ever follows, unless the process is shut down.                    *)
AcceptedIsPushed ==
    \A n \in 1 .. MaxWrites :
        (\E i \in DOMAIN accepted : accepted[i] = n)
          ~> (shutdown \/ \E i \in DOMAIN queue : queue[i] = [part |-> "data", n |-> n])
=============================================================================
