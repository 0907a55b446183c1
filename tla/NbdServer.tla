----------------------------- MODULE NbdServer -----------------------------
(***************************************************************************)
(* The NBD server of nbd.c as nbd-queuer-test runs it (nbd_init_both): one *)
(* libevent thread serves block requests from a disk image and mirrors     *)
(* every write to the Redis list "writequeue" over an asynchronous hiredis *)
(* connection.  A callback runs to its end before the next one; what runs  *)
(* concurrently is the clients, the kernel and the Redis server.           *)
(*                                                                         *)
(* Input is a sequence of units: the client flags, an option header, the   *)
(* export name, a request header, the data of a write.  A request names    *)
(* one block of the image and carries a number n, its NBD handle, that     *)
(* also stands for the data it writes.                                     *)
(***************************************************************************)
EXTENDS Integers, Sequences, SequencesExt

CONSTANTS Clients,       \* connections
          NoClient,      \* no callback is running
          Blocks,        \* blocks of the export
          PastEnd,       \* its last block, if the image file ends before it
          OldHandshake,  \* nbd_init_both's "old" argument
          MaxRequests,   \* bound: requests sent by all clients
          Bounds         \* the bounds of a behaviour are one of these: the
                         \*   clients that connect, the requests they send,
                         \*   times the Redis connection breaks

ASSUME NbdAssumption ==
    /\ NoClient \notin Clients
    /\ PastEnd \subseteq Blocks
    /\ \A a, b \in PastEnd : a = b
    /\ OldHandshake \in BOOLEAN
    /\ MaxRequests \in Nat
    /\ Bounds \subseteq [clients : SUBSET Clients, requests : 0..MaxRequests,
                         breaks : Nat]

VARIABLES
    state,      \* client->state, or none (not connected), freed, leaked
    peer,       \* what the client at the other end sends next
    inbuf,      \* input evbuffer, units
    ready,      \* new input arrived since the read callback last ran
    out,        \* history: responses [n, ok, stray] written to each client;
                \*   stray: an error with a block of data behind it
    sent,       \* history: requests that want a response, in order
    running,    \* the client whose read callback is running
    file,       \* disk image: number of the write in each block, 0: zeros,
                \* EndOfFile: the image ends before the block
    untracked,  \* history: blocks changed without a successful write
    done,       \* history: successful writes [n, block], in order
    redis,      \* handle->redis_c: "up", "broken" (not noticed yet), "null"
    rbuf,       \* commands buffered in the async context
    rwire,      \* commands sent, not executed
    rpend,      \* callbacks pending in the async context
    rreplies,   \* replies sent by the server, not processed
    queue,      \* server: everything pushed on "writequeue"
    breaks,     \* times the connection broke
    nreq,       \* requests sent so far
    proc,       \* "running" | "aborted" (assert) | "exited" (SIGINT)
    bound       \* the bounds of this behaviour

netVars   == <<state, peer, inbuf, ready, out, sent, nreq>>
diskVars  == <<file, untracked, done>>
redisVars == <<redis, rbuf, rwire, rpend, rreplies, queue, breaks>>
vars == <<netVars, running, diskVars, redisVars, proc, bound>>

ClientStates == {"none", "NBD_HANDSHAKE_SENT", "NBD_ZERO_RECEIVED",
                 "NBD_DATA_PUSHING", "NBD_DISCONNECTED", "freed", "leaked"}
Answered == {"NBD_CMD_READ", "NBD_CMD_WRITE", "NBD_CMD_FLUSH", "NBD_CMD_TRIM"}
Commands == Answered \cup {"NBD_CMD_DISC", "unknown"}
Alive(c) == state[c] \in ClientStates \ {"none", "freed", "leaked"}

Flags(zero)       == [unit |-> "flags", zero |-> zero]
Option(opt)       == [unit |-> "option", opt |-> opt]
Name(match)       == [unit |-> "name", match |-> match]
Req(cmd, n, b)    == [unit |-> "req", cmd |-> cmd, n |-> n, block |-> b]
Data(n)           == [unit |-> "data", n |-> n]
OptionTypes == {"NBD_OPT_EXPORT_NAME", "wrong_length", "NBD_OPT_ABORT", "NBD_OPT_LIST"}

EndOfFile == -1
Initially(b) == IF b \in PastEnd THEN EndOfFile ELSE 0

Select == [part |-> "select", n |-> 0]
Pair(n) == <<[part |-> "sector", n |-> n], [part |-> "data", n |-> n]>>

----------------------------------------------------------------------------
(* nbd_init_both: connected to Redis, "select" issued, no client yet.      *)
Init ==
    /\ state = [c \in Clients |-> "none"]
    /\ peer = [c \in Clients |-> "connect"]
    /\ inbuf = [c \in Clients |-> <<>>]
    /\ ready = [c \in Clients |-> FALSE]
    /\ out = [c \in Clients |-> <<>>]
    /\ sent = [c \in Clients |-> <<>>]
    /\ running = NoClient
    /\ file = [b \in Blocks |-> Initially(b)]
    /\ untracked = {}
    /\ done = <<>>
    /\ redis = "up" /\ rbuf = <<Select>> /\ rwire = <<>>
    /\ rpend = 1 /\ rreplies = 0 /\ queue = <<>> /\ breaks = 0
    /\ nreq = 0
    /\ proc = "running"
    /\ bound \in Bounds

Idle == proc = "running" /\ running = NoClient

----------------------------------------------------------------------------
(* The clients.                                                            *)

(* nbd_old_conn or nbd_new_conn accepts the connection.                    *)
Connect(c) ==
    /\ Idle
    /\ c \in bound.clients
    /\ peer[c] = "connect"
    /\ state' = [state EXCEPT ![c] = IF OldHandshake THEN "NBD_DATA_PUSHING"
                                                     ELSE "NBD_HANDSHAKE_SENT"]
    /\ peer' = [peer EXCEPT ![c] = IF OldHandshake THEN "request" ELSE "flags"]
    /\ UNCHANGED <<inbuf, ready, out, sent, nreq, running, diskVars, redisVars, proc>>

(* A unit arrives in the input buffer.                                     *)
Arrive(c, unit, next) ==
    /\ inbuf' = [inbuf EXCEPT ![c] = Append(@, unit)]
    /\ ready' = [ready EXCEPT ![c] = TRUE]
    /\ peer' = [peer EXCEPT ![c] = next]

SendHandshake(c) ==
    /\ proc = "running"
    /\ Alive(c)
    /\ \/ /\ peer[c] = "flags"
          /\ \E zero \in BOOLEAN : Arrive(c, Flags(zero), "option")
       \/ /\ peer[c] = "option"
          /\ \E opt \in OptionTypes :
               Arrive(c, Option(opt), IF opt = "NBD_OPT_EXPORT_NAME" THEN "name" ELSE "quiet")
       \/ /\ peer[c] = "name"
          /\ \E match \in BOOLEAN : Arrive(c, Name(match), "request")
    /\ UNCHANGED <<state, out, sent, nreq, running, diskVars, redisVars, proc>>

(* A client sends nothing after NBD_CMD_DISC.                              *)
SendRequest(c, cmd, b) ==
    /\ proc = "running"
    /\ Alive(c)
    /\ peer[c] = "request"
    /\ nreq < bound.requests
    /\ nreq' = nreq + 1
    /\ Arrive(c, Req(cmd, nreq + 1, b),
              CASE cmd = "NBD_CMD_WRITE" -> "data"
                [] cmd = "NBD_CMD_DISC"  -> "quiet"
                [] OTHER                 -> "request")
    /\ sent' = IF cmd \in Answered THEN [sent EXCEPT ![c] = Append(@, nreq + 1)]
                                   ELSE sent
    /\ UNCHANGED <<state, out, running, diskVars, redisVars, proc>>

SendData(c) ==
    /\ proc = "running"
    /\ Alive(c)
    /\ peer[c] = "data"
    /\ Arrive(c, Data(Last(sent[c])), "request")
    /\ UNCHANGED <<state, out, sent, nreq, running, diskVars, redisVars, proc>>

(* nbd_ev_handler: end of file frees the client (after its input was read  *)
(* and the read callback ran); a socket error leaves it allocated for ever. *)
CloseEvent(c) ==
    /\ Idle
    /\ Alive(c)
    /\ \/ ~ready[c] /\ state' = [state EXCEPT ![c] = "freed"]
       \/ state' = [state EXCEPT ![c] = "leaked"]
    /\ peer' = [peer EXCEPT ![c] = "quiet"]
    /\ UNCHANGED <<inbuf, ready, out, sent, nreq, running, diskVars, redisVars, proc>>

----------------------------------------------------------------------------
(* nbd_client_handler: one iteration of its loop per step.                 *)

ReadCallback(c) ==
    /\ Idle
    /\ Alive(c)
    /\ ready[c]
    /\ running' = c
    /\ ready' = [ready EXCEPT ![c] = FALSE]
    /\ UNCHANGED <<state, peer, inbuf, out, sent, nreq, diskVars, redisVars, proc>>

InLoop(c, st) ==
    /\ proc = "running"
    /\ running = c
    /\ state[c] = st
    /\ inbuf[c] # <<>>

First(c) == Head(inbuf[c])
Drain(c, k) == inbuf' = [inbuf EXCEPT ![c] = SubSeq(@, k + 1, Len(@))]
SetState(c, st) == state' = [state EXCEPT ![c] = st]
Write(c, ok, stray) ==
    out' = [out EXCEPT ![c] = Append(@, [n |-> First(c).n, ok |-> ok, stray |-> stray])]
Respond(c, ok) == Write(c, ok, FALSE)

(* Less than a request header and its data is in the buffer.               *)
(* (Faulty variant: the comparison is not strict.)                         *)
DataMissingLoose(c) == Len(inbuf[c]) <= 2
DataMissing(c) == Len(inbuf[c]) < 2

(* The loop ends: no input is left, or a handler asked to wait for more.   *)
HandlerReturns(c) ==
    /\ proc = "running"
    /\ running = c
    /\ \/ inbuf[c] = <<>>
       \/ /\ InLoop(c, "NBD_ZERO_RECEIVED")        \* the name has not arrived
          /\ First(c) = Option("NBD_OPT_EXPORT_NAME")
          /\ Len(inbuf[c]) < 2
       \/ /\ InLoop(c, "NBD_DATA_PUSHING")
          /\ \/ First(c).unit # "req"              \* no request: wrong magic
             \/ /\ First(c).cmd = "NBD_CMD_WRITE"  \* the data has not arrived
                /\ DataMissing(c)
    /\ running' = NoClient
    /\ UNCHANGED <<netVars, diskVars, redisVars, proc>>

(* __check_zero_handshake                                                  *)
CheckZeroHandshake(c) ==
    /\ InLoop(c, "NBD_HANDSHAKE_SENT")
    /\ \/ /\ First(c) = Flags(TRUE)
          /\ Drain(c, 1)
          /\ SetState(c, "NBD_ZERO_RECEIVED")
       \/ /\ First(c) # Flags(TRUE)
          /\ SetState(c, "NBD_DISCONNECTED")
          /\ UNCHANGED inbuf
    /\ UNCHANGED <<peer, ready, out, sent, nreq, running, diskVars, redisVars, proc>>

(* __check_opt_header.  An unsupported option is answered but stays in the *)
(* buffer: the loop answers it again, for ever (OptionSpins).              *)
CheckOptHeader(c) ==
    /\ InLoop(c, "NBD_ZERO_RECEIVED")
    /\ \/ /\ First(c) = Option("NBD_OPT_EXPORT_NAME")
          /\ Len(inbuf[c]) >= 2
          /\ IF inbuf[c][2] = Name(TRUE)
             THEN Drain(c, 2) /\ SetState(c, "NBD_DATA_PUSHING")
             ELSE Drain(c, 1) /\ SetState(c, "NBD_DISCONNECTED")
       \/ /\ First(c) \notin {Option("NBD_OPT_EXPORT_NAME"), Option("NBD_OPT_LIST")}
          /\ SetState(c, "NBD_DISCONNECTED")
          /\ UNCHANGED inbuf
    /\ UNCHANGED <<peer, ready, out, sent, nreq, running, diskVars, redisVars, proc>>

OptionSpins(c) == InLoop(c, "NBD_ZERO_RECEIVED") /\ First(c) = Option("NBD_OPT_LIST")

(* The NBD_DISCONNECTED case of the loop.                                  *)
FreeDisconnected(c) ==
    /\ InLoop(c, "NBD_DISCONNECTED")
    /\ SetState(c, "freed")
    /\ running' = NoClient
    /\ UNCHANGED <<peer, inbuf, ready, out, sent, nreq, diskVars, redisVars, proc>>

InRequest(c, cmd) ==
    /\ InLoop(c, "NBD_DATA_PUSHING")
    /\ First(c).unit = "req"
    /\ First(c).cmd = cmd

(* __handle_read at the end of the image: read returns 0, the length left  *)
(* stays what it is, and the loop goes on for ever.                        *)
ReadSpins(c) == InRequest(c, "NBD_CMD_READ") /\ file[First(c).block] = EndOfFile

(* The one thread of the server never gets out of the callback.            *)
Spinning(c) == OptionSpins(c) \/ ReadSpins(c)

(* __handle_read: the block is read, or lseek or read fails.  The response *)
(* is followed by as many bytes as were asked for in either case, which    *)
(* the protocol has after a success only.                                  *)
(* NBD_CMD_FLUSH: fsync succeeds or fails.  (Faulty variant: a failure is  *)
(* not reported.)                                                          *)
HandleReadOrFlushSilent(c) ==
    /\ InRequest(c, "NBD_CMD_READ") \/ InRequest(c, "NBD_CMD_FLUSH")
    /\ (~ReadSpins(c) /\ Respond(c, TRUE)) \/ UNCHANGED out
    /\ Drain(c, 1)
    /\ UNCHANGED <<state, peer, ready, sent, nreq, running, diskVars, redisVars, proc>>

HandleReadOrFlush(c) ==
    /\ InRequest(c, "NBD_CMD_READ") \/ InRequest(c, "NBD_CMD_FLUSH")
    /\ \/ ~ReadSpins(c) /\ Respond(c, TRUE)
       \/ Write(c, FALSE, First(c).cmd = "NBD_CMD_READ")
    /\ Drain(c, 1)
    /\ UNCHANGED <<state, peer, ready, sent, nreq, running, diskVars, redisVars, proc>>

(* NBD_CMD_TRIM: fallocate punches a hole, or fails; Redis is not told.    *)
HandleTrim(c) ==
    /\ InRequest(c, "NBD_CMD_TRIM")
    /\ \/ /\ Respond(c, TRUE)
          /\ file' = [file EXCEPT ![First(c).block] = IF @ = EndOfFile THEN @ ELSE 0]
          /\ untracked' = untracked \cup {First(c).block}
       \/ Respond(c, FALSE) /\ UNCHANGED <<file, untracked>>
    /\ Drain(c, 1)
    /\ UNCHANGED <<state, peer, ready, sent, nreq, running, done, redisVars, proc>>

(* Two redisAsyncCommand calls.  (Faulty variant: the data before the      *)
(* sector number.)                                                         *)
MirrorSwapped(n) == <<Pair(n)[2], Pair(n)[1]>>
Mirror(n) == Pair(n)

(* What a write consumes.                                                  *)
DrainWrite(c) == Drain(c, 2)

(* The write loop passes the full length again after a short write: what   *)
(* follows the block in the image is overwritten with whatever follows the *)
(* data in memory.                                                         *)
Overrun(b) == {{}} \cup {{x} : x \in Blocks \ {b}}

(* __handle_write with all its data in the buffer: write the image, then   *)
(* push the sector number and the data, then respond.                      *)
HandleWrite(c) ==
    LET n == First(c).n
        b == First(c).block
    IN
    /\ InRequest(c, "NBD_CMD_WRITE")
    /\ ~DataMissing(c)
    /\ redis # "null"
    /\ \E over \in Overrun(b) :
         /\ file' = [x \in Blocks |-> IF x \in over \cup {b} THEN n ELSE file[x]]
         /\ untracked' = (untracked \ {b}) \cup over
    /\ done' = Append(done, [n |-> n, block |-> b])
    /\ rbuf' = rbuf \o Mirror(n)
    /\ rpend' = rpend + 2
    /\ DrainWrite(c)
    /\ Respond(c, TRUE)
    /\ UNCHANGED <<state, peer, ready, sent, nreq, running, redis, rwire, rreplies,
                   queue, breaks, proc>>

(* lseek or write fails, perhaps after part of the data was written: the   *)
(* errno goes to the client, nothing goes to Redis.  (Faulty variant: the  *)
(* failed write is mirrored all the same.)                                 *)
HandleWriteFailsMirrored(c) ==
    /\ InRequest(c, "NBD_CMD_WRITE")
    /\ ~DataMissing(c)
    /\ redis # "null"
    /\ done' = Append(done, [n |-> First(c).n, block |-> First(c).block])
    /\ rbuf' = rbuf \o Mirror(First(c).n)
    /\ rpend' = rpend + 2
    /\ DrainWrite(c)
    /\ Respond(c, FALSE)
    /\ UNCHANGED <<state, peer, ready, sent, nreq, running, file, untracked, redis,
                   rwire, rreplies, queue, breaks, proc>>

HandleWriteFails(c) ==
    LET b == First(c).block IN
    /\ InRequest(c, "NBD_CMD_WRITE")
    /\ ~DataMissing(c)
    /\ redis # "null"
    /\ \/ UNCHANGED <<file, untracked>>
       \/ /\ file' = [file EXCEPT ![b] = First(c).n]
          /\ untracked' = untracked \cup {b}
    /\ DrainWrite(c)
    /\ Respond(c, FALSE)
    /\ UNCHANGED <<state, peer, ready, sent, nreq, running, done, redisVars, proc>>

(* assert(redis_c != NULL)                                                 *)
HandleWriteAborts(c) ==
    /\ InRequest(c, "NBD_CMD_WRITE")
    /\ ~DataMissing(c)
    /\ redis = "null"
    /\ proc' = "aborted"
    /\ UNCHANGED <<netVars, running, diskVars, redisVars>>

(* NBD_CMD_DISC frees the client and goes on with the loop.                *)
HandleDisc(c) ==
    /\ InRequest(c, "NBD_CMD_DISC")
    /\ Drain(c, 1)
    /\ SetState(c, "freed")
    /\ UNCHANGED <<peer, ready, out, sent, nreq, running, diskVars, redisVars, proc>>

(* An unknown command frees the client and leaves the loop.                *)
HandleUnknown(c) ==
    /\ InRequest(c, "unknown")
    /\ Drain(c, 1)
    /\ SetState(c, "freed")
    /\ running' = NoClient
    /\ UNCHANGED <<peer, ready, out, sent, nreq, diskVars, redisVars, proc>>

HandlerStep(c) ==
    \/ HandlerReturns(c) \/ CheckZeroHandshake(c) \/ CheckOptHeader(c)
    \/ FreeDisconnected(c) \/ HandleReadOrFlush(c) \/ HandleTrim(c)
    \/ HandleWrite(c) \/ HandleWriteFails(c) \/ HandleWriteAborts(c)
    \/ HandleDisc(c) \/ HandleUnknown(c)

----------------------------------------------------------------------------
(* The asynchronous Redis connection.                                      *)

(* The event loop writes the context's buffer to the socket.               *)
RedisWritable ==
    /\ Idle
    /\ redis = "up"
    /\ rbuf # <<>>
    /\ rwire' = rwire \o rbuf
    /\ rbuf' = <<>>
    /\ UNCHANGED <<netVars, running, diskVars, redis, rpend, rreplies, queue, breaks, proc>>

(* The server executes a command; "select" pushes nothing.                 *)
RedisExecute ==
    /\ redis = "up"
    /\ rwire # <<>>
    /\ rwire' = Tail(rwire)
    /\ queue' = IF Head(rwire) = Select THEN queue ELSE Append(queue, Head(rwire))
    /\ rreplies' = rreplies + 1
    /\ UNCHANGED <<netVars, running, diskVars, redis, rbuf, rpend, breaks, proc>>

(* redis_async_callback with a reply.                                      *)
RedisReply ==
    /\ Idle
    /\ rreplies > 0
    /\ rreplies' = rreplies - 1
    /\ rpend' = rpend - 1
    /\ UNCHANGED <<netVars, running, diskVars, redis, rbuf, rwire, queue, breaks, proc>>

(* The connection breaks; what was on its way is lost.                     *)
RedisBreaks ==
    /\ redis = "up"
    /\ breaks < bound.breaks
    /\ redis' = "broken"
    /\ rwire' = <<>>
    /\ breaks' = breaks + 1
    /\ UNCHANGED <<netVars, running, diskVars, rbuf, rpend, rreplies, queue, proc>>

(* hiredis notices: it calls every pending callback with a NULL reply,     *)
(* which asserts; redis_disconnect_callback reconnects after an end of     *)
(* file and asserts after any other error.                                 *)
Reconnect ==
    \/ redis' = "up" /\ rbuf' = <<Select>> /\ rpend' = 1
    \/ redis' = "null" /\ rbuf' = <<>> /\ rpend' = 0

RedisDisconnectTolerant ==
    /\ Idle
    /\ redis = "broken"
    /\ rreplies = 0
    /\ Reconnect
    /\ UNCHANGED <<netVars, running, diskVars, rwire, rreplies, queue, breaks, proc>>

RedisDisconnect ==
    /\ Idle
    /\ redis = "broken"
    /\ \/ /\ rreplies = 0
          /\ rpend = 0
          /\ Reconnect
          /\ UNCHANGED proc
       \/ /\ proc' = "aborted"
          /\ UNCHANGED <<redis, rbuf, rpend>>
    /\ UNCHANGED <<netVars, running, diskVars, rwire, rreplies, queue, breaks>>

(* nbd_signal_handler: the event loop exits.                               *)
Signal ==
    /\ Idle
    /\ proc' = "exited"
    /\ UNCHANGED <<netVars, running, diskVars, redisVars>>

Ended == proc # "running" /\ UNCHANGED vars

----------------------------------------------------------------------------
Step ==
    \/ \E c \in Clients :
         \/ Connect(c) \/ SendHandshake(c) \/ SendData(c) \/ CloseEvent(c)
         \/ \E cmd \in Commands, b \in Blocks : SendRequest(c, cmd, b)
         \/ ReadCallback(c)
         \/ HandlerStep(c)
    \/ RedisWritable \/ RedisExecute \/ RedisReply \/ RedisBreaks \/ RedisDisconnect
    \/ Signal

Next ==
    \/ Step /\ UNCHANGED bound
    \/ \E c \in Clients : Spinning(c) /\ UNCHANGED vars
    \/ Ended

Spec == Init /\ [][Next]_vars

(* The event loop keeps serving; a callback that has begun runs on.        *)
FairSpec ==
    /\ Spec
    /\ \A c \in Clients :
        /\ WF_vars(ReadCallback(c) /\ UNCHANGED bound)
        /\ WF_vars(HandlerStep(c) /\ UNCHANGED bound)

----------------------------------------------------------------------------
TypeOK ==
    /\ state \in [Clients -> ClientStates]
    /\ \A c \in Clients : \A i \in 1 .. Len(out[c]) : 
          out[c][i] \in [n : Nat, ok : BOOLEAN, stray : BOOLEAN]
    /\ ready \in [Clients -> BOOLEAN]
    /\ running \in Clients \cup {NoClient}
    /\ file \in [Blocks -> Nat \cup {EndOfFile}]
    /\ untracked \subseteq Blocks
    /\ done \in Seq([n : Nat, block : Blocks])
    /\ redis \in {"up", "broken", "null"}
    /\ rbuf \in Seq([part : {"select", "sector", "data"}, n : Nat])
    /\ rwire \in Seq([part : {"select", "sector", "data"}, n : Nat])
    /\ queue \in Seq([part : {"sector", "data"}, n : Nat])
    /\ rpend \in Nat /\ rreplies \in Nat /\ breaks \in Nat /\ nreq \in Nat
    /\ proc \in {"running", "aborted", "exited"}

(* A client never waits for an answer that will not come and never gets    *)
(* one twice: what was answered, followed by the requests still in the     *)
(* buffer, is what the client sent, in order, and the data of a write is   *)
(* consumed with it.  (This counts responses; the block that follows the   *)
(* error of a failed read, stray, is for the client to make sense of.)     *)
AnsweredOnceInOrder ==
    \A c \in Clients :
      state[c] = "NBD_DATA_PUSHING" =>
        LET waiting == SelectSeq(inbuf[c], LAMBDA u : u.unit = "req" /\ u.cmd \in Answered)
        IN  [i \in 1 .. Len(out[c]) |-> out[c][i].n]
              \o [i \in 1 .. Len(waiting) |-> waiting[i].n] = sent[c]

(* A request at the head of the buffer, never stray data of a write that   *)
(* was answered: the stream stays in step with the handler.                *)
StreamInStep ==
    \A c \in Clients :
      (state[c] = "NBD_DATA_PUSHING" /\ inbuf[c] # <<>>) => First(c).unit = "req"

(* The loop of nbd_client_handler never looks at the state of a client     *)
(* that was freed: after NBD_CMD_DISC it goes round once more, but a       *)
(* client that keeps to the protocol has then sent nothing else.           *)
NoUseAfterFree ==
    \A c \in Clients : (running = c /\ state[c] = "freed") => inbuf[c] = <<>>

(* Server and client stay in step over a connection, up to its end.        *)
RequestsInStep == AnsweredOnceInOrder /\ StreamInStep /\ NoUseAfterFree

(* Replaying the writes in the order in which they were pushed gives the   *)
(* disk image, block by block, except where the image was changed by a     *)
(* trim, a failed write or an overrun, of which Redis is not told:         *)
(* clients' writes reach the image and the mirror in the same order.       *)
LastWrite(b) ==
    LET w == SelectSeq(done, LAMBDA d : d.block = b)
    IN  IF w = <<>> THEN Initially(b) ELSE Last(w).n

ImageEqualsMirror == \A b \in Blocks \ untracked : file[b] = LastWrite(b)

(* While the connection is up, the successful writes are exactly what was  *)
(* pushed or is on its way, each as sector number then data; at no time    *)
(* does the list hold anything else, and a server that lost a push with a  *)
(* broken connection does not push on: it has reconnected only when        *)
(* nothing was pending.                                                    *)
Pushes == SelectSeq(queue \o rwire \o rbuf, LAMBDA e : e # Select)
DonePairs == FoldLeft(LAMBDA acc, d : acc \o Pair(d.n), <<>>, done)

MirroredInOrder ==
    /\ redis = "up" => Pushes = DonePairs
    /\ IsPrefix(queue, DonePairs)

(* A write that was answered with success is in Redis or on its way there. *)
AnsweredWriteIsStored ==
    \A i \in 1 .. Len(done) : \E j \in 1 .. Len(Pushes) :
        Pushes[j] = [part |-> "data", n |-> done[i].n]

(* Seen from the Redis list, the server is a PairProducer.                 *)
Producer == INSTANCE PairProducer WITH pushed <- queue, Ids <- 1 .. MaxRequests

ProducesPairs == Producer!Spec

(* Every request that arrived completely is answered, unless its client    *)
(* goes away, the process ends, or the loop hangs on an unsupported option *)
(* or a read past the end of the image, of this or another client.         *)
Complete(c, n) ==
    \E i \in 1 .. Len(inbuf[c]) :
      /\ inbuf[c][i].unit = "req"
      /\ inbuf[c][i].cmd \in Answered
      /\ inbuf[c][i].n = n
      /\ inbuf[c][i].cmd = "NBD_CMD_WRITE" => i < Len(inbuf[c])

EveryRequestAnswered ==
    \A c \in Clients, n \in 1 .. MaxRequests :
      (state[c] = "NBD_DATA_PUSHING" /\ Complete(c, n)) ~>
        \/ \E i \in 1 .. Len(out[c]) : out[c][i].n = n
        \/ ~Alive(c)
        \/ proc # "running"
        \/ \E d \in Clients : Spinning(d)
=============================================================================
