-------------------------- MODULE AsyncQueuerProofs --------------------------
(***************************************************************************)
(* The async queuer with any number of flush threads, any thresholds and   *)
(* any stream: who may meet whom in the hiredis connection, and the        *)
(* semaphore.                                                              *)
(*                                                                         *)
(* Among the threads that take conn_lock mutual exclusion is inductive     *)
(* once it is known which program points hold which mutex (LockInv).       *)
(* redis_shutdown takes none: that it meets no flush thread follows from   *)
(* the semaphore, which was 0 when it was read last, so that no flush      *)
(* thread had anything left to do (QuietInv).  The semaphore follows from  *)
(* the types and the cardinality of the set of threads at work.            *)
(***************************************************************************)
EXTENDS AsyncQueuer, SequenceLemmas, FiniteSetTheorems, TLAPS

(* Where each mutex is held.                                               *)
LockInv ==
    /\ connLock = Main <=> mpc \in {"trycmd", "lockcmd", "append"}
    /\ \A f \in Flushers : connLock = f <=> fpc[f] = "getreply"
    /\ cmdLock = Main <=> mpc \in {"append", "count"}
    /\ cmdLock = Periodic <=> fpc[Periodic] \in {"take", "zero"}
    /\ \A f \in Flushers :
         flushLock = f <=> fpc[f] \in {"loop", "getreply", "semwait", "unlockflush"}

(* A flusher waits for a reply only while its job is not done.             *)
JobInv == \A f \in Flushers : fpc[f] = "getreply" => job[f] > 0

(* Where a flush thread is when it has not begun, or no longer works.      *)
AtRest == {"none", "unlockflush", "done"}
ThreadPCs == AtRest \cup {"lockflush", "loop", "getreply", "semwait"}
ThreadInv == \A t \in FlushThreads : fpc[t] \in ThreadPCs

(* redis_shutdown and the periodic flusher in the connection at once: this *)
(* is what collided records.                                               *)
CollideInv == mpc = "sdreply" /\ fpc[Periodic] = "getreply" => collided = TRUE

LInv == TypeOK /\ LockInv /\ JobInv /\ ThreadInv /\ CollideInv

(* redis_shutdown past its wait: the flush threads rest.                   *)
Flushing == {"sdflush", "sdreply", "sdload", "sdstore", "freed", "exited"}
QuietInv ==
    mpc \in Flushing \/ (mpc = "sdtest" /\ semSeen = 0) =>
        \A t \in FlushThreads : fpc[t] \in AtRest

----------------------------------------------------------------------------
(* The threads are different from each other and from NoThread.            *)
LEMMA Distinct ==
    /\ Main \notin Flushers /\ NoThread \notin Threads
    /\ Main # NoThread /\ Periodic # NoThread /\ Main # Periodic
    /\ Periodic \in Flushers /\ FlushThreads \subseteq Flushers
    /\ Periodic \notin FlushThreads
    /\ Flushers \subseteq Threads /\ Main \in Threads
  BY QueuerAssumption DEF Flushers, Threads

(* redis_init.                                                             *)
LEMMA InitLInv == Init => LInv
  <1> SUFFICES ASSUME Init PROVE LInv
    OBVIOUS
  <1>1. TypeOK
    <2>1. /\ fpc \in [Flushers -> FlusherPCs] /\ job \in [Flushers -> Nat]
          /\ cur \in Write /\ mpc \in MainPCs
      BY QueuerAssumption DEF Init, FlusherPCs, MainPCs, Write
    <2>2. bytes \in Nat /\ loaded \in 0 .. MaxCount /\ outstanding \in 0 .. MaxCount
      BY QueuerAssumption DEF Init
    <2> QED
      BY <2>1, <2>2, EmptyFacts, Zenon DEF Init, TypeOK
  <1>2. LockInv /\ JobInv /\ ThreadInv /\ CollideInv
    BY Distinct DEF Init, LockInv, JobInv, ThreadInv, ThreadPCs, AtRest, CollideInv,
       Flushers
  <1> QED
    BY <1>1, <1>2 DEF LInv

(* Every step keeps the types.                                             *)
LEMMA NextTypeOK == ASSUME LInv, [Next]_vars PROVE TypeOK'
  <1> USE Distinct, QueuerAssumption
      DEF LInv, TypeOK, MainPCs, FlusherPCs, Write,
          mainVars, locals, flushVars, lockVars, connVars, histVars
  <1>1. ASSUME NEW sector \in Sectors, ReadWrite(sector) PROVE TypeOK'
    BY <1>1 DEF ReadWrite
  <1>2. ASSUME ReadEnds PROVE TypeOK'
    BY <1>2 DEF ReadEnds
  <1>3. ASSUME TryConnLock PROVE TypeOK'
    BY <1>3 DEF TryConnLock, DropWrite
  <1>4. ASSUME LockConn PROVE TypeOK'
    BY <1>4 DEF LockConn
  <1>5. ASSUME TryCmdLock PROVE TypeOK'
    BY <1>5 DEF TryCmdLock, DropWrite
  <1>6. ASSUME LockCmd PROVE TypeOK'
    BY <1>6 DEF LockCmd
  <1>7. ASSUME AppendPair PROVE TypeOK'
    <2>1. Pair(cur.n) \in Seq(Element)
      BY DEF Pair, Element
    <2>2. outbuf \o Pair(cur.n) \in Seq(Element)
      BY <2>1, ConcatFacts
    <2> QED
      BY <1>7, <2>2 DEF AppendPair
  <1>8. ASSUME CountPair PROVE TypeOK'
    BY <1>8 DEF CountPair
  <1>9. ASSUME MainSemPost PROVE TypeOK'
    BY <1>9 DEF MainSemPost
  <1>10. ASSUME NEW t \in FlushThreads, CreateFlushThread(t) PROVE TypeOK'
    BY <1>10 DEF CreateFlushThread
  <1>11. ASSUME ShutdownGetValue PROVE TypeOK'
    BY <1>11 DEF ShutdownGetValue
  <1>12. ASSUME ShutdownTest PROVE TypeOK'
    BY <1>12 DEF ShutdownTest
  <1>13. ASSUME ShutdownFlushTest PROVE TypeOK'
    BY <1>13 DEF ShutdownFlushTest
  <1>14. ASSUME ShutdownSend PROVE TypeOK'
    BY <1>14 DEF ShutdownSend
  <1>15. ASSUME ShutdownFetch PROVE TypeOK'
    BY <1>15 DEF ShutdownFetch
  <1>16. ASSUME ShutdownLoad PROVE TypeOK'
    BY <1>16 DEF ShutdownLoad
  <1>17. ASSUME ShutdownStore PROVE TypeOK'
    BY <1>17 DEF ShutdownStore, Decremented
  <1>18. ASSUME ProcessExit PROVE TypeOK'
    BY <1>18 DEF ProcessExit
  <1>19. ASSUME PeriodicCheck PROVE TypeOK'
    BY <1>19 DEF PeriodicCheck
  <1>20. ASSUME PeriodicLockCmd PROVE TypeOK'
    BY <1>20 DEF PeriodicLockCmd
  <1>21. ASSUME PeriodicTake PROVE TypeOK'
    BY <1>21 DEF PeriodicTake
  <1>22. ASSUME PeriodicZero PROVE TypeOK'
    BY <1>22 DEF PeriodicZero
  <1>23. ASSUME PeriodicSemPost PROVE TypeOK'
    BY <1>23 DEF PeriodicSemPost
  <1>24. ASSUME NEW f \in Flushers, LockFlush(f) PROVE TypeOK'
    BY <1>24 DEF LockFlush
  <1>25. ASSUME NEW f \in Flushers, EnterConnection(f) PROVE TypeOK'
    BY <1>25 DEF EnterConnection
  <1>26. ASSUME NEW f \in Flushers, Send(f) PROVE TypeOK'
    BY <1>26 DEF Send
  <1>27. ASSUME NEW f \in Flushers, Fetch(f) PROVE TypeOK'
    BY <1>27 DEF Fetch, JobInv
  <1>28. ASSUME NEW f \in Flushers, LoopDone(f) PROVE TypeOK'
    BY <1>28 DEF LoopDone
  <1>29. ASSUME NEW f \in Flushers, SemWait(f) PROVE TypeOK'
    BY <1>29 DEF SemWait
  <1>30. ASSUME NEW f \in Flushers, UnlockFlush(f) PROVE TypeOK'
    BY <1>30 DEF UnlockFlush
  <1>31. ASSUME SendTwice PROVE TypeOK'
    <2>1. wire \o outbuf \in Seq(Element) /\ (wire \o outbuf) \o outbuf \in Seq(Element)
      BY ConcatFacts
    <2> QED
      BY <1>31, <2>1 DEF SendTwice
  <1>32. ASSUME OverwriteReply PROVE TypeOK'
    BY <1>32 DEF OverwriteReply, Collision
  <1>33. ASSUME CorruptHeap PROVE TypeOK'
    BY <1>33 DEF CorruptHeap, Collision
  <1>34. ASSUME RedisExecute PROVE TypeOK'
    <2>1. Head(wire) \in Element /\ Tail(wire) \in Seq(Element)
      BY <1>34, TailFacts DEF RedisExecute
    <2>2. Append(queue, Head(wire)) \in Seq(Element)
      BY <2>1, AppendFacts
    <2> QED
      BY <1>34, <2>1, <2>2 DEF RedisExecute
  <1>35. ASSUME UNCHANGED vars PROVE TypeOK'
    BY <1>35 DEF vars
  <1> HIDE DEF LInv, TypeOK
  <1> QED
    BY <1>1, <1>2, <1>3, <1>4, <1>5, <1>6, <1>7, <1>8, <1>9, <1>10, <1>11, <1>12,
       <1>13, <1>14, <1>15, <1>16, <1>17, <1>18, <1>19, <1>20, <1>21, <1>22, <1>23,
       <1>24, <1>25, <1>26, <1>27, <1>28, <1>29, <1>30, <1>31, <1>32, <1>33, <1>34,
       <1>35
       DEF Next, EnqueueStep, ShutdownStep, PeriodicStep, FlushStep,
           CollisionStep, Exited, Hung

(* Every step takes and releases the mutexes where LockInv says.           *)
LEMMA NextLockInv == ASSUME LInv, [Next]_vars PROVE LockInv'
  <1> USE Distinct DEF LInv, TypeOK, LockInv,
      mainVars, locals, flushVars, lockVars, connVars, histVars
  <1>1. ASSUME NEW sector \in Sectors, ReadWrite(sector) PROVE LockInv'
    BY <1>1 DEF ReadWrite
  <1>2. ASSUME ReadEnds PROVE LockInv'
    BY <1>2 DEF ReadEnds
  <1>3. ASSUME TryConnLock PROVE LockInv'
    BY <1>3 DEF TryConnLock, DropWrite
  <1>4. ASSUME LockConn PROVE LockInv'
    BY <1>4 DEF LockConn
  <1>5. ASSUME TryCmdLock PROVE LockInv'
    BY <1>5 DEF TryCmdLock, DropWrite
  <1>6. ASSUME LockCmd PROVE LockInv'
    BY <1>6 DEF LockCmd
  <1>7. ASSUME AppendPair PROVE LockInv'
    BY <1>7 DEF AppendPair
  <1>8. ASSUME CountPair PROVE LockInv'
    BY <1>8 DEF CountPair
  <1>9. ASSUME MainSemPost PROVE LockInv'
    BY <1>9 DEF MainSemPost
  <1>10. ASSUME NEW t \in FlushThreads, CreateFlushThread(t) PROVE LockInv'
    BY <1>10 DEF CreateFlushThread
  <1>11. ASSUME ShutdownGetValue PROVE LockInv'
    BY <1>11 DEF ShutdownGetValue
  <1>12. ASSUME ShutdownTest PROVE LockInv'
    BY <1>12 DEF ShutdownTest
  <1>13. ASSUME ShutdownFlushTest PROVE LockInv'
    BY <1>13 DEF ShutdownFlushTest
  <1>14. ASSUME ShutdownSend PROVE LockInv'
    BY <1>14 DEF ShutdownSend
  <1>15. ASSUME ShutdownFetch PROVE LockInv'
    BY <1>15 DEF ShutdownFetch
  <1>16. ASSUME ShutdownLoad PROVE LockInv'
    BY <1>16 DEF ShutdownLoad
  <1>17. ASSUME ShutdownStore PROVE LockInv'
    BY <1>17 DEF ShutdownStore
  <1>18. ASSUME ProcessExit PROVE LockInv'
    BY <1>18 DEF ProcessExit
  <1>19. ASSUME PeriodicCheck PROVE LockInv'
    BY <1>19 DEF PeriodicCheck
  <1>20. ASSUME PeriodicLockCmd PROVE LockInv'
    BY <1>20 DEF PeriodicLockCmd
  <1>21. ASSUME PeriodicTake PROVE LockInv'
    BY <1>21 DEF PeriodicTake
  <1>22. ASSUME PeriodicZero PROVE LockInv'
    BY <1>22 DEF PeriodicZero
  <1>23. ASSUME PeriodicSemPost PROVE LockInv'
    BY <1>23 DEF PeriodicSemPost
  <1>24. ASSUME NEW f \in Flushers, LockFlush(f) PROVE LockInv'
    BY <1>24 DEF LockFlush
  <1>25. ASSUME NEW f \in Flushers, EnterConnection(f) PROVE LockInv'
    BY <1>25 DEF EnterConnection
  <1>26. ASSUME NEW f \in Flushers, Send(f) PROVE LockInv'
    BY <1>26 DEF Send
  <1>27. ASSUME NEW f \in Flushers, Fetch(f) PROVE LockInv'
    BY <1>27 DEF Fetch
  <1>28. ASSUME NEW f \in Flushers, LoopDone(f) PROVE LockInv'
    BY <1>28 DEF LoopDone
  <1>29. ASSUME NEW f \in Flushers, SemWait(f) PROVE LockInv'
    BY <1>29 DEF SemWait
  <1>30. ASSUME NEW f \in Flushers, UnlockFlush(f) PROVE LockInv'
    BY <1>30 DEF UnlockFlush
  <1>31. ASSUME SendTwice PROVE LockInv'
    BY <1>31 DEF SendTwice, Collision
  <1>32. ASSUME OverwriteReply PROVE LockInv'
    BY <1>32 DEF OverwriteReply, Collision
  <1>33. ASSUME CorruptHeap PROVE LockInv'
    BY <1>33 DEF CorruptHeap, Collision
  <1>34. ASSUME RedisExecute PROVE LockInv'
    BY <1>34 DEF RedisExecute
  <1>35. ASSUME UNCHANGED vars PROVE LockInv'
    BY <1>35 DEF vars
  <1> QED
    BY Zenon, <1>1, <1>2, <1>3, <1>4, <1>5, <1>6, <1>7, <1>8, <1>9, <1>10, <1>11,
       <1>12, <1>13, <1>14, <1>15, <1>16, <1>17, <1>18, <1>19, <1>20, <1>21, <1>22,
       <1>23, <1>24, <1>25, <1>26, <1>27, <1>28, <1>29, <1>30, <1>31, <1>32, <1>33,
       <1>34, <1>35
       DEF Next, EnqueueStep, ShutdownStep, PeriodicStep, FlushStep,
           CollisionStep, Exited, Hung

(* Every step leaves jobs positive where a reply is awaited, and the flush *)
(* threads where they may be.                                              *)
LEMMA NextThreads == ASSUME LInv, [Next]_vars PROVE JobInv' /\ ThreadInv'
  <1> USE Distinct DEF LInv, TypeOK, JobInv, ThreadInv, ThreadPCs, AtRest,
      mainVars, locals, flushVars, lockVars, connVars, histVars
  <1>1. ASSUME NEW sector \in Sectors, ReadWrite(sector) PROVE JobInv' /\ ThreadInv'
    BY <1>1 DEF ReadWrite
  <1>2. ASSUME ReadEnds PROVE JobInv' /\ ThreadInv'
    BY <1>2 DEF ReadEnds
  <1>3. ASSUME TryConnLock PROVE JobInv' /\ ThreadInv'
    BY <1>3 DEF TryConnLock, DropWrite
  <1>4. ASSUME LockConn PROVE JobInv' /\ ThreadInv'
    BY <1>4 DEF LockConn
  <1>5. ASSUME TryCmdLock PROVE JobInv' /\ ThreadInv'
    BY <1>5 DEF TryCmdLock, DropWrite
  <1>6. ASSUME LockCmd PROVE JobInv' /\ ThreadInv'
    BY <1>6 DEF LockCmd
  <1>7. ASSUME AppendPair PROVE JobInv' /\ ThreadInv'
    BY <1>7 DEF AppendPair
  <1>8. ASSUME CountPair PROVE JobInv' /\ ThreadInv'
    BY <1>8 DEF CountPair
  <1>9. ASSUME MainSemPost PROVE JobInv' /\ ThreadInv'
    BY <1>9 DEF MainSemPost
  <1>10. ASSUME NEW t \in FlushThreads, CreateFlushThread(t) PROVE JobInv' /\ ThreadInv'
    BY <1>10 DEF CreateFlushThread
  <1>11. ASSUME ShutdownGetValue PROVE JobInv' /\ ThreadInv'
    BY <1>11 DEF ShutdownGetValue
  <1>12. ASSUME ShutdownTest PROVE JobInv' /\ ThreadInv'
    BY <1>12 DEF ShutdownTest
  <1>13. ASSUME ShutdownFlushTest PROVE JobInv' /\ ThreadInv'
    BY <1>13 DEF ShutdownFlushTest
  <1>14. ASSUME ShutdownSend PROVE JobInv' /\ ThreadInv'
    BY <1>14 DEF ShutdownSend
  <1>15. ASSUME ShutdownFetch PROVE JobInv' /\ ThreadInv'
    BY <1>15 DEF ShutdownFetch
  <1>16. ASSUME ShutdownLoad PROVE JobInv' /\ ThreadInv'
    BY <1>16 DEF ShutdownLoad
  <1>17. ASSUME ShutdownStore PROVE JobInv' /\ ThreadInv'
    BY <1>17 DEF ShutdownStore
  <1>18. ASSUME ProcessExit PROVE JobInv' /\ ThreadInv'
    BY <1>18 DEF ProcessExit
  <1>19. ASSUME PeriodicCheck PROVE JobInv' /\ ThreadInv'
    BY <1>19 DEF PeriodicCheck
  <1>20. ASSUME PeriodicLockCmd PROVE JobInv' /\ ThreadInv'
    BY <1>20 DEF PeriodicLockCmd
  <1>21. ASSUME PeriodicTake PROVE JobInv' /\ ThreadInv'
    BY <1>21 DEF PeriodicTake
  <1>22. ASSUME PeriodicZero PROVE JobInv' /\ ThreadInv'
    BY <1>22 DEF PeriodicZero
  <1>23. ASSUME PeriodicSemPost PROVE JobInv' /\ ThreadInv'
    BY <1>23 DEF PeriodicSemPost
  <1>24. ASSUME NEW f \in Flushers, LockFlush(f) PROVE JobInv' /\ ThreadInv'
    BY <1>24 DEF LockFlush
  <1>25. ASSUME NEW f \in Flushers, EnterConnection(f) PROVE JobInv' /\ ThreadInv'
    BY <1>25 DEF EnterConnection
  <1>26. ASSUME NEW f \in Flushers, Send(f) PROVE JobInv' /\ ThreadInv'
    BY <1>26 DEF Send
  <1>27. ASSUME NEW f \in Flushers, Fetch(f) PROVE JobInv' /\ ThreadInv'
    BY <1>27 DEF Fetch
  <1>28. ASSUME NEW f \in Flushers, LoopDone(f) PROVE JobInv' /\ ThreadInv'
    BY <1>28 DEF LoopDone
  <1>29. ASSUME NEW f \in Flushers, SemWait(f) PROVE JobInv' /\ ThreadInv'
    BY <1>29 DEF SemWait
  <1>30. ASSUME NEW f \in Flushers, UnlockFlush(f) PROVE JobInv' /\ ThreadInv'
    BY <1>30 DEF UnlockFlush
  <1>31. ASSUME SendTwice PROVE JobInv' /\ ThreadInv'
    BY <1>31 DEF SendTwice, Collision
  <1>32. ASSUME OverwriteReply PROVE JobInv' /\ ThreadInv'
    BY <1>32 DEF OverwriteReply, Collision
  <1>33. ASSUME CorruptHeap PROVE JobInv' /\ ThreadInv'
    BY <1>33 DEF CorruptHeap, Collision
  <1>34. ASSUME RedisExecute PROVE JobInv' /\ ThreadInv'
    BY <1>34 DEF RedisExecute
  <1>35. ASSUME UNCHANGED vars PROVE JobInv' /\ ThreadInv'
    BY <1>35 DEF vars
  <1> QED
    BY Zenon, <1>1, <1>2, <1>3, <1>4, <1>5, <1>6, <1>7, <1>8, <1>9, <1>10, <1>11,
       <1>12, <1>13, <1>14, <1>15, <1>16, <1>17, <1>18, <1>19, <1>20, <1>21, <1>22,
       <1>23, <1>24, <1>25, <1>26, <1>27, <1>28, <1>29, <1>30, <1>31, <1>32, <1>33,
       <1>34, <1>35
       DEF Next, EnqueueStep, ShutdownStep, PeriodicStep, FlushStep,
           CollisionStep, Exited, Hung

(* Whichever of redis_shutdown and the periodic flusher comes second into  *)
(* the connection, it is recorded.                                         *)
LEMMA NextCollide == ASSUME LInv, [Next]_vars PROVE CollideInv'
  <1> DEFINE Same == /\ mpc' = "sdreply" => mpc = "sdreply"
                     /\ fpc'[Periodic] = "getreply" => fpc[Periodic] = "getreply"
                     /\ collided' = collided
  <1>0. Same => CollideInv'
    BY DEF LInv, CollideInv
  <1>a. fpc \in [Flushers -> FlusherPCs] /\ collided \in BOOLEAN
    BY DEF LInv, TypeOK
  <1> USE Distinct DEF mainVars, locals, flushVars, lockVars, connVars, histVars
  <1>1. ASSUME NEW sector \in Sectors, ReadWrite(sector) PROVE Same
    BY <1>1, <1>a DEF ReadWrite
  <1>2. ASSUME ReadEnds PROVE Same
    BY <1>2, <1>a DEF ReadEnds
  <1>3. ASSUME TryConnLock PROVE Same
    BY <1>3, <1>a DEF TryConnLock, DropWrite
  <1>4. ASSUME LockConn PROVE Same
    BY <1>4, <1>a DEF LockConn
  <1>5. ASSUME TryCmdLock PROVE Same
    BY <1>5, <1>a DEF TryCmdLock, DropWrite
  <1>6. ASSUME LockCmd PROVE Same
    BY <1>6, <1>a DEF LockCmd
  <1>7. ASSUME AppendPair PROVE Same
    BY <1>7, <1>a DEF AppendPair
  <1>8. ASSUME CountPair PROVE Same
    BY <1>8, <1>a DEF CountPair
  <1>9. ASSUME MainSemPost PROVE Same
    BY <1>9, <1>a DEF MainSemPost
  <1>10. ASSUME NEW t \in FlushThreads, CreateFlushThread(t) PROVE Same
    BY <1>10, <1>a DEF CreateFlushThread
  <1>11. ASSUME ShutdownGetValue PROVE Same
    BY <1>11, <1>a DEF ShutdownGetValue
  <1>12. ASSUME ShutdownTest PROVE Same
    BY <1>12, <1>a DEF ShutdownTest
  <1>13. ASSUME ShutdownFlushTest PROVE CollideInv'
    <2>1. CASE outstanding # 0
      <3>1. fpc[Periodic] = "getreply" => collided' = TRUE
        BY <1>13, <2>1, Zenon DEF ShutdownFlushTest
      <3>2. fpc' = fpc
        BY <1>13 DEF ShutdownFlushTest
      <3> QED
        BY <3>1, <3>2 DEF CollideInv
    <2>2. CASE outstanding = 0
      BY <1>13, <2>2 DEF ShutdownFlushTest, CollideInv
    <2> QED
      BY <2>1, <2>2
  <1>14. ASSUME ShutdownSend PROVE Same
    BY <1>14, <1>a DEF ShutdownSend
  <1>15. ASSUME ShutdownFetch PROVE Same
    BY <1>15, <1>a DEF ShutdownFetch
  <1>16. ASSUME ShutdownLoad PROVE Same
    BY <1>16, <1>a DEF ShutdownLoad
  <1>17. ASSUME ShutdownStore PROVE Same
    BY <1>17, <1>a DEF ShutdownStore
  <1>18. ASSUME ProcessExit PROVE Same
    BY <1>18, <1>a DEF ProcessExit
  <1>19. ASSUME PeriodicCheck PROVE Same
    BY <1>19, <1>a DEF PeriodicCheck
  <1>20. ASSUME PeriodicLockCmd PROVE Same
    BY <1>20, <1>a DEF PeriodicLockCmd
  <1>21. ASSUME PeriodicTake PROVE Same
    BY <1>21, <1>a DEF PeriodicTake
  <1>22. ASSUME PeriodicZero PROVE Same
    BY <1>22, <1>a DEF PeriodicZero
  <1>23. ASSUME PeriodicSemPost PROVE Same
    BY <1>23, <1>a DEF PeriodicSemPost
  <1>24. ASSUME NEW f \in Flushers, LockFlush(f) PROVE Same
    BY <1>24, <1>a DEF LockFlush
  <1>25. ASSUME NEW f \in Flushers, EnterConnection(f) PROVE CollideInv'
    <2>1. mpc' = mpc
      BY <1>25 DEF EnterConnection
    <2>2. mpc = "sdreply" => collided' = TRUE
      BY <1>25, Zenon DEF EnterConnection
    <2> QED
      BY <2>1, <2>2 DEF CollideInv
  <1>26. ASSUME NEW f \in Flushers, Send(f) PROVE Same
    BY <1>26, <1>a DEF Send
  <1>27. ASSUME NEW f \in Flushers, Fetch(f) PROVE Same
    BY <1>27, <1>a DEF Fetch
  <1>28. ASSUME NEW f \in Flushers, LoopDone(f) PROVE Same
    BY <1>28, <1>a DEF LoopDone
  <1>29. ASSUME NEW f \in Flushers, SemWait(f) PROVE Same
    BY <1>29, <1>a DEF SemWait
  <1>30. ASSUME NEW f \in Flushers, UnlockFlush(f) PROVE Same
    BY <1>30, <1>a DEF UnlockFlush
  <1>31. ASSUME SendTwice PROVE Same
    BY <1>31, <1>a DEF SendTwice, Collision
  <1>32. ASSUME OverwriteReply PROVE Same
    BY <1>32, <1>a DEF OverwriteReply, Collision
  <1>33. ASSUME CorruptHeap PROVE Same
    BY <1>33, <1>a DEF CorruptHeap, Collision
  <1>34. ASSUME RedisExecute PROVE Same
    BY <1>34, <1>a DEF RedisExecute
  <1>35. ASSUME UNCHANGED vars PROVE Same
    BY <1>35, <1>a DEF vars
  <1> HIDE DEF Same
  <1> QED
    BY <1>0, <1>1, <1>2, <1>3, <1>4, <1>5, <1>6, <1>7, <1>8, <1>9, <1>10, <1>11,
       <1>12, <1>13, <1>14, <1>15, <1>16, <1>17, <1>18, <1>19, <1>20, <1>21, <1>22,
       <1>23, <1>24, <1>25, <1>26, <1>27, <1>28, <1>29, <1>30, <1>31, <1>32, <1>33,
       <1>34, <1>35
       DEF Next, EnqueueStep, ShutdownStep, PeriodicStep, FlushStep,
           CollisionStep, Exited, Hung

(* LInv holds in every reachable state.                                    *)
THEOREM LockInvariance == Spec => []LInv
  <1>1. LInv /\ [Next]_vars => LInv'
    BY NextTypeOK, NextLockInv, NextThreads, NextCollide DEF LInv
  <1> QED
    BY <1>1, InitLInv, PTL DEF Spec

----------------------------------------------------------------------------
(* The set of threads at work is finite.                                   *)
LEMMA AtWorkFinite == IsFiniteSet(AtWork) /\ Cardinality(AtWork) \in Nat
  <1>1. IsFiniteSet(Flushers)
    BY QueuerAssumption, FS_AddElement DEF Flushers
  <1>2. IsFiniteSet(AtWork)
    BY <1>1, FS_Subset DEF AtWork
  <1> QED
    BY <1>2, FS_CardinalityType

(* Every post of the semaphore is for one thread more at work, every wait  *)
(* for one less.                                                           *)
LEMMA NextSem == ASSUME LInv, SemaphoreCountsJobs, [Next]_vars PROVE SemaphoreCountsJobs'
  <1> DEFINE Same == /\ AtWork' = AtWork /\ sem' = sem
                     /\ mpc' = "create" <=> mpc = "create"
  <1>0. Same => SemaphoreCountsJobs'
    BY DEF SemaphoreCountsJobs
  <1>a. /\ IsFiniteSet(AtWork) /\ Cardinality(AtWork) \in Nat /\ sem \in Nat
        /\ fpc \in [Flushers -> FlusherPCs]
    BY AtWorkFinite DEF LInv, TypeOK
  <1> USE Distinct DEF AtWork, mainVars, locals, flushVars, lockVars, connVars, histVars
  <1>1. ASSUME NEW sector \in Sectors, ReadWrite(sector) PROVE Same
    BY <1>1, <1>a DEF ReadWrite
  <1>2. ASSUME ReadEnds PROVE Same
    BY <1>2, <1>a DEF ReadEnds
  <1>3. ASSUME TryConnLock PROVE Same
    BY <1>3, <1>a DEF TryConnLock, DropWrite
  <1>4. ASSUME LockConn PROVE Same
    BY <1>4, <1>a DEF LockConn
  <1>5. ASSUME TryCmdLock PROVE Same
    BY <1>5, <1>a DEF TryCmdLock, DropWrite
  <1>6. ASSUME LockCmd PROVE Same
    BY <1>6, <1>a DEF LockCmd
  <1>7. ASSUME AppendPair PROVE Same
    BY <1>7, <1>a DEF AppendPair
  <1>8. ASSUME CountPair PROVE Same
    BY <1>8, <1>a DEF CountPair
  <1>9. ASSUME MainSemPost PROVE SemaphoreCountsJobs'
    <2>1. AtWork' = AtWork /\ sem' = sem + 1 /\ mpc = "post" /\ mpc' = "create"
      BY <1>9 DEF MainSemPost
    <2> HIDE DEF AtWork
    <2> QED
      BY <1>a, <2>1 DEF SemaphoreCountsJobs
  <1>10. ASSUME NEW t \in FlushThreads, CreateFlushThread(t) PROVE SemaphoreCountsJobs'
    <2>1. /\ AtWork' = AtWork \cup {t} /\ t \notin AtWork
          /\ sem' = sem /\ mpc = "create" /\ mpc' = "read"
      BY <1>10, <1>a DEF CreateFlushThread
    <2> HIDE DEF AtWork
    <2>2. Cardinality(AtWork') = Cardinality(AtWork) + 1
      BY <1>a, <2>1, FS_AddElement, Zenon
    <2> QED
      BY <1>a, <2>1, <2>2 DEF SemaphoreCountsJobs
  <1>11. ASSUME ShutdownGetValue PROVE Same
    BY <1>11, <1>a DEF ShutdownGetValue
  <1>12. ASSUME ShutdownTest PROVE Same
    BY <1>12, <1>a DEF ShutdownTest
  <1>13. ASSUME ShutdownFlushTest PROVE Same
    BY <1>13, <1>a DEF ShutdownFlushTest
  <1>14. ASSUME ShutdownSend PROVE Same
    BY <1>14, <1>a DEF ShutdownSend
  <1>15. ASSUME ShutdownFetch PROVE Same
    BY <1>15, <1>a DEF ShutdownFetch
  <1>16. ASSUME ShutdownLoad PROVE Same
    BY <1>16, <1>a DEF ShutdownLoad
  <1>17. ASSUME ShutdownStore PROVE Same
    BY <1>17, <1>a DEF ShutdownStore
  <1>18. ASSUME ProcessExit PROVE Same
    BY <1>18, <1>a DEF ProcessExit
  <1>19. ASSUME PeriodicCheck PROVE Same
    BY <1>19, <1>a DEF PeriodicCheck
  <1>20. ASSUME PeriodicLockCmd PROVE Same
    BY <1>20, <1>a DEF PeriodicLockCmd
  <1>21. ASSUME PeriodicTake PROVE Same
    BY <1>21, <1>a DEF PeriodicTake
  <1>22. ASSUME PeriodicZero PROVE Same
    BY <1>22, <1>a DEF PeriodicZero
  <1>23. ASSUME PeriodicSemPost PROVE SemaphoreCountsJobs'
    <2>1. /\ AtWork' = AtWork \cup {Periodic} /\ Periodic \notin AtWork
          /\ sem' = sem + 1 /\ mpc' = mpc
      BY <1>23, <1>a DEF PeriodicSemPost
    <2> HIDE DEF AtWork
    <2>2. Cardinality(AtWork') = Cardinality(AtWork) + 1
      BY <1>a, <2>1, FS_AddElement, Zenon
    <2> QED
      BY <1>a, <2>1, <2>2 DEF SemaphoreCountsJobs
  <1>24. ASSUME NEW f \in Flushers, LockFlush(f) PROVE Same
    BY <1>24, <1>a DEF LockFlush
  <1>25. ASSUME NEW f \in Flushers, EnterConnection(f) PROVE Same
    BY <1>25, <1>a DEF EnterConnection
  <1>26. ASSUME NEW f \in Flushers, Send(f) PROVE Same
    BY <1>26, <1>a DEF Send
  <1>27. ASSUME NEW f \in Flushers, Fetch(f) PROVE Same
    BY <1>27, <1>a DEF Fetch
  <1>28. ASSUME NEW f \in Flushers, LoopDone(f) PROVE Same
    BY <1>28, <1>a DEF LoopDone
  <1>29. ASSUME NEW f \in Flushers, SemWait(f) PROVE SemaphoreCountsJobs'
    <2>1. /\ AtWork' = AtWork \ {f} /\ f \in AtWork
          /\ sem' = sem - 1 /\ mpc' = mpc
      BY <1>29, <1>a DEF SemWait
    <2> HIDE DEF AtWork
    <2>2. Cardinality(AtWork') = Cardinality(AtWork) - 1
      BY <1>a, <2>1, FS_RemoveElement, Zenon
    <2> QED
      BY <1>a, <2>1, <2>2 DEF SemaphoreCountsJobs
  <1>30. ASSUME NEW f \in Flushers, UnlockFlush(f) PROVE Same
    BY <1>30, <1>a DEF UnlockFlush
  <1>31. ASSUME SendTwice PROVE Same
    BY <1>31, <1>a DEF SendTwice, Collision
  <1>32. ASSUME OverwriteReply PROVE Same
    BY <1>32, <1>a DEF OverwriteReply, Collision
  <1>33. ASSUME CorruptHeap PROVE Same
    BY <1>33, <1>a DEF CorruptHeap, Collision
  <1>34. ASSUME RedisExecute PROVE Same
    BY <1>34, <1>a DEF RedisExecute
  <1>35. ASSUME UNCHANGED vars PROVE Same
    BY <1>35, <1>a DEF vars
  <1> HIDE DEF AtWork, Same
  <1> QED
    BY <1>0, <1>1, <1>2, <1>3, <1>4, <1>5, <1>6, <1>7, <1>8, <1>9, <1>10, <1>11,
       <1>12, <1>13, <1>14, <1>15, <1>16, <1>17, <1>18, <1>19, <1>20, <1>21, <1>22,
       <1>23, <1>24, <1>25, <1>26, <1>27, <1>28, <1>29, <1>30, <1>31, <1>32, <1>33,
       <1>34, <1>35
       DEF Next, EnqueueStep, ShutdownStep, PeriodicStep, FlushStep,
           CollisionStep, Exited, Hung

(* thread_counter counts the jobs in progress, with any number of threads: *)
(* sem_wait, called with flush_lock held, never blocks.                    *)
THEOREM SemaphoreCorrect == Spec => []SemaphoreCountsJobs
  <1>1. Init => SemaphoreCountsJobs
    <2> SUFFICES ASSUME Init PROVE SemaphoreCountsJobs
      OBVIOUS
    <2>1. AtWork = {}
      BY DEF Init, AtWork
    <2> QED
      BY <2>1, FS_EmptySet DEF Init, SemaphoreCountsJobs
  <1>2. LInv /\ SemaphoreCountsJobs /\ [Next]_vars => SemaphoreCountsJobs'
    BY NextSem
  <1> QED
    BY <1>1, <1>2, LockInvariance, PTL DEF Spec

----------------------------------------------------------------------------
(* A flush thread that rests is not woken again; redis_shutdown goes on    *)
(* only when all rest.                                                     *)
LEMMA NextQuiet == ASSUME LInv, SemaphoreCountsJobs, QuietInv, [Next]_vars PROVE QuietInv'
  <1> DEFINE Past == mpc \in Flushing \/ (mpc = "sdtest" /\ semSeen = 0)
             Rest == \A t \in FlushThreads : fpc[t] \in AtRest
             Same == (Past' => Past) /\ (Rest => Rest')
  <1>0. Same => QuietInv'
    BY DEF QuietInv
  <1>a. fpc \in [Flushers -> FlusherPCs]
    BY DEF LInv, TypeOK
  <1> USE Distinct DEF Flushing, AtRest,
      mainVars, locals, flushVars, lockVars, connVars, histVars
  <1>1. ASSUME NEW sector \in Sectors, ReadWrite(sector) PROVE Same
    BY <1>1, <1>a DEF ReadWrite
  <1>2. ASSUME ReadEnds PROVE Same
    BY <1>2, <1>a DEF ReadEnds
  <1>3. ASSUME TryConnLock PROVE Same
    BY <1>3, <1>a DEF TryConnLock, DropWrite
  <1>4. ASSUME LockConn PROVE Same
    BY <1>4, <1>a DEF LockConn
  <1>5. ASSUME TryCmdLock PROVE Same
    BY <1>5, <1>a DEF TryCmdLock, DropWrite
  <1>6. ASSUME LockCmd PROVE Same
    BY <1>6, <1>a DEF LockCmd
  <1>7. ASSUME AppendPair PROVE Same
    BY <1>7, <1>a DEF AppendPair
  <1>8. ASSUME CountPair PROVE Same
    BY <1>8, <1>a DEF CountPair
  <1>9. ASSUME MainSemPost PROVE Same
    BY <1>9, <1>a DEF MainSemPost
  <1>10. ASSUME NEW t \in FlushThreads, CreateFlushThread(t) PROVE QuietInv'
    <2>1. mpc' = "read"
      BY <1>10 DEF CreateFlushThread
    <2> QED
      BY <2>1 DEF QuietInv
  <1>11. ASSUME ShutdownGetValue PROVE QuietInv'
    <2>1. mpc = "sdget" /\ mpc' = "sdtest" /\ semSeen' = sem /\ fpc' = fpc
      BY <1>11 DEF ShutdownGetValue
    <2>2. ASSUME sem = 0 PROVE Rest
      <3>1. IsFiniteSet(AtWork) /\ Cardinality(AtWork) = 0
        BY <2>1, <2>2, AtWorkFinite DEF SemaphoreCountsJobs
      <3>2. AtWork = {}
        BY <3>1, FS_EmptySet
      <3> QED
        BY <1>a, <3>2 DEF AtWork, LInv, ThreadInv, ThreadPCs
    <2> QED
      BY <2>1, <2>2 DEF QuietInv
  <1>12. ASSUME ShutdownTest PROVE Same
    BY <1>12, <1>a DEF ShutdownTest
  <1>13. ASSUME ShutdownFlushTest PROVE Same
    BY <1>13, <1>a DEF ShutdownFlushTest
  <1>14. ASSUME ShutdownSend PROVE Same
    BY <1>14, <1>a DEF ShutdownSend
  <1>15. ASSUME ShutdownFetch PROVE Same
    BY <1>15, <1>a DEF ShutdownFetch
  <1>16. ASSUME ShutdownLoad PROVE Same
    BY <1>16, <1>a DEF ShutdownLoad
  <1>17. ASSUME ShutdownStore PROVE Same
    BY <1>17, <1>a DEF ShutdownStore
  <1>18. ASSUME ProcessExit PROVE Same
    BY <1>18, <1>a DEF ProcessExit
  <1>19. ASSUME PeriodicCheck PROVE Same
    BY <1>19, <1>a DEF PeriodicCheck
  <1>20. ASSUME PeriodicLockCmd PROVE Same
    BY <1>20, <1>a DEF PeriodicLockCmd
  <1>21. ASSUME PeriodicTake PROVE Same
    BY <1>21, <1>a DEF PeriodicTake
  <1>22. ASSUME PeriodicZero PROVE Same
    BY <1>22, <1>a DEF PeriodicZero
  <1>23. ASSUME PeriodicSemPost PROVE Same
    BY <1>23, <1>a DEF PeriodicSemPost
  <1>24. ASSUME NEW f \in Flushers, LockFlush(f) PROVE Same
    BY <1>24, <1>a DEF LockFlush
  <1>25. ASSUME NEW f \in Flushers, EnterConnection(f) PROVE Same
    BY <1>25, <1>a DEF EnterConnection
  <1>26. ASSUME NEW f \in Flushers, Send(f) PROVE Same
    BY <1>26, <1>a DEF Send
  <1>27. ASSUME NEW f \in Flushers, Fetch(f) PROVE Same
    BY <1>27, <1>a DEF Fetch
  <1>28. ASSUME NEW f \in Flushers, LoopDone(f) PROVE Same
    BY <1>28, <1>a DEF LoopDone
  <1>29. ASSUME NEW f \in Flushers, SemWait(f) PROVE Same
    BY <1>29, <1>a DEF SemWait
  <1>30. ASSUME NEW f \in Flushers, UnlockFlush(f) PROVE Same
    BY <1>30, <1>a DEF UnlockFlush
  <1>31. ASSUME SendTwice PROVE Same
    BY <1>31, <1>a DEF SendTwice, Collision
  <1>32. ASSUME OverwriteReply PROVE Same
    BY <1>32, <1>a DEF OverwriteReply, Collision
  <1>33. ASSUME CorruptHeap PROVE Same
    BY <1>33, <1>a DEF CorruptHeap, Collision
  <1>34. ASSUME RedisExecute PROVE Same
    BY <1>34, <1>a DEF RedisExecute
  <1>35. ASSUME UNCHANGED vars PROVE Same
    BY <1>35, <1>a DEF vars
  <1> HIDE DEF Same
  <1> QED
    BY <1>0, <1>1, <1>2, <1>3, <1>4, <1>5, <1>6, <1>7, <1>8, <1>9, <1>10, <1>11,
       <1>12, <1>13, <1>14, <1>15, <1>16, <1>17, <1>18, <1>19, <1>20, <1>21, <1>22,
       <1>23, <1>24, <1>25, <1>26, <1>27, <1>28, <1>29, <1>30, <1>31, <1>32, <1>33,
       <1>34, <1>35
       DEF Next, EnqueueStep, ShutdownStep, PeriodicStep, FlushStep,
           CollisionStep, Exited, Hung

(* At most one thread at a time, of however many, is inside the hiredis    *)
(* connection, with one exception: redis_shutdown, which flushes without   *)
(* conn_lock, and the periodic flusher, for which it does not wait.        *)
THEOREM MutualExclusion == Spec => []ConnectionExclusive
  <1>1. LInv /\ QuietInv => ConnectionExclusive
    <2> SUFFICES ASSUME LInv, QuietInv, NEW s \in InConnection, NEW t \in InConnection, s # t
                 PROVE  {s, t} = {Main, Periodic} /\ mpc = "sdreply"
      BY DEF ConnectionExclusive
    <2>1. \A x \in InConnection :
            \/ x = Main /\ mpc \in {"append", "sdreply"}
            \/ x \in Flushers /\ fpc[x] = "getreply" /\ connLock = x
      BY DEF InConnection, LInv, LockInv
    <2>2. mpc = "append" => connLock = Main
      BY DEF LInv, LockInv
    <2>3. mpc = "sdreply" => \A x \in Flushers : fpc[x] = "getreply" => x = Periodic
      BY DEF QuietInv, Flushing, AtRest, Flushers
    <2> QED
      BY <2>1, <2>2, <2>3, Distinct
  <1>2. Init => QuietInv
    BY DEF Init, QuietInv, Flushing
  <1>3. LInv /\ SemaphoreCountsJobs /\ QuietInv /\ [Next]_vars => QuietInv'
    BY NextQuiet
  <1> QED
    BY <1>1, <1>2, <1>3, LockInvariance, SemaphoreCorrect, PTL DEF Spec
=============================================================================
