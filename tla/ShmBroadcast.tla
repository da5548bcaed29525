---------------------------- MODULE ShmBroadcast ----------------------------
(***************************************************************************)
(* MessageQueue over ShmRingBuffer                                         *)
(* (distributed/device_communicators/shm_broadcast.py): the ring of chunks *)
(* in shared memory that carries every call of the executor to its         *)
(* workers, and every answer back.  One writer and several readers poll    *)
(* the flags of a chunk without a lock; every load or store of a flag or   *)
(* of a part of a chunk is a step of its own.  Messages too large for a    *)
(* chunk go through a socket.  Idle readers sleep until a notification.    *)
(***************************************************************************)
EXTENDS Integers, Sequences, FiniteSets

CONSTANTS
  NumReaders,           \* n_reader
  MaxChunks,            \* max_chunks
  MaxMessages,          \* bound: messages written in any environment
  Environments          \* the ways the queue may be used: [messages, overflowing, timeouts,
                        \* crash, shutdown], see below

ASSUME BroadcastAssumption ==
  /\ NumReaders \in Nat \ {0} /\ MaxChunks \in Nat \ {0} /\ MaxMessages \in Nat
  /\ Environments \subseteq [messages : 0 .. MaxMessages,
                             overflowing : SUBSET (1 .. MaxMessages),
                             timeouts : {"never", "fatal", "retried"},
                             crash : BOOLEAN, shutdown : BOOLEAN]

Readers == 1 .. NumReaders
Chunks  == 0 .. MaxChunks - 1

VARIABLES
  env,                  \* how this queue is used
  written,              \* [Chunks -> BOOLEAN]: metadata byte 0
  read,                 \* [Chunks -> [Readers -> BOOLEAN]]: the other bytes
  chunk,                \* [Chunks -> [overflow, body]]: the data
  wpc, widx,            \* writer: program counter, current_idx
  next,                 \* writer: number of flags visited by the loop it is in
  read_count,           \* writer: read flags found set
  sent,                 \* messages published
  rpc, ridx,            \* readers: program counter, current_idx
  read_flag,            \* readers: the value check() loaded
  head,                 \* readers: the overflow byte
  socket,               \* [Readers -> Seq(Nat)]: local_socket
  notified,             \* a notification waits in local_notify_socket
  shutting_down, cancelled,
  received              \* what dequeue returned so far

ring       == <<written, read, chunk>>
writerVars == <<wpc, widx, next, read_count, sent>>
readerVars == <<rpc, ridx, read_flag, head, received>>
vars == <<env, ring, writerVars, readerVars, socket, notified, shutting_down, cancelled>>

Overflowing == env.overflowing           \* messages that do not fit into a chunk
Timeouts    == env.timeouts # "never"    \* dequeue is called with a timeout, and the caller
Retried     == env.timeouts = "retried"  \* goes on after a TimeoutError (utility calls) or
                                         \* ends (the future of a step)
Crash       == env.crash                 \* the writer's process may die
Shutdown    == env.shutdown              \* the queues may be shut down

Init ==
  /\ env \in Environments
  /\ written = [c \in Chunks |-> FALSE]
  /\ read = [c \in Chunks |-> [r \in Readers |-> FALSE]]
  /\ chunk = [c \in Chunks |-> [overflow |-> FALSE, body |-> 0]]
  /\ wpc = "out" /\ widx = 0 /\ next = 1 /\ read_count = 0 /\ sent = 0
  /\ rpc = [r \in Readers |-> "read_flag"]
  /\ ridx = [r \in Readers |-> 0]
  /\ read_flag = [r \in Readers |-> FALSE]
  /\ head = [r \in Readers |-> FALSE]
  /\ received = [r \in Readers |-> << >>]
  /\ socket = [r \in Readers |-> << >>]
  /\ notified = [r \in Readers |-> FALSE]
  /\ shutting_down = [r \in Readers |-> FALSE]
  /\ cancelled = [r \in Readers |-> FALSE]
-----------------------------------------------------------------------------
(* enqueue and acquire_write, for message sent + 1.                        *)

Overflows == sent + 1 \in Overflowing

Enqueue ==
  /\ wpc = "out" /\ sent < env.messages
  /\ wpc' = "count" /\ next' = 1 /\ read_count' = 0
  /\ UNCHANGED <<env, ring, widx, sent, readerVars, socket, notified, shutting_down, cancelled>>

\* check(): sum(metadata_buffer[1:]), one byte after the other ...
CountFlag ==
  /\ wpc = "count"
  /\ read_count' = read_count + (IF read[widx][next] THEN 1 ELSE 0)
  /\ next' = next + 1
  /\ wpc' = IF next = NumReaders THEN "written_flag" ELSE "count"
  /\ UNCHANGED <<env, ring, widx, sent, readerVars, socket, notified, shutting_down, cancelled>>

\* Mutant of MustWait: one reader is enough.
MustWaitForOne == written[widx] /\ read_count = 0

\* Mutant of MustWait: a chunk that was never written is waited for too.
MustWaitForFresh == read_count # NumReaders

MustWait == written[widx] /\ read_count # NumReaders

\* ... then the written flag.  An unread chunk is checked again.
CheckWritten ==
  /\ wpc = "written_flag"
  /\ wpc' = IF MustWait THEN "count" ELSE "claim"
  /\ next' = 1 /\ read_count' = 0
  /\ UNCHANGED <<env, ring, widx, sent, readerVars, socket, notified, shutting_down, cancelled>>

Claim ==
  /\ wpc = "claim"
  /\ written' = [written EXCEPT ![widx] = FALSE]
  /\ wpc' = "head"
  /\ UNCHANGED <<env, read, chunk, widx, next, read_count, sent, readerVars, socket,
                 notified, shutting_down, cancelled>>

WriteHead ==
  /\ wpc = "head"
  /\ chunk' = [chunk EXCEPT ![widx].overflow = Overflows]
  /\ wpc' = IF Overflows THEN "reset" ELSE "body"
  /\ UNCHANGED <<env, written, read, widx, next, read_count, sent, readerVars, socket,
                 notified, shutting_down, cancelled>>

WriteBody ==
  /\ wpc = "body"
  /\ chunk' = [chunk EXCEPT ![widx].body = sent + 1]
  /\ wpc' = "reset"
  /\ UNCHANGED <<env, written, read, widx, next, read_count, sent, readerVars, socket,
                 notified, shutting_down, cancelled>>

ResetFlag ==
  /\ wpc = "reset"
  /\ read' = [read EXCEPT ![widx][next] = FALSE]
  /\ next' = next + 1
  /\ wpc' = IF next = NumReaders THEN "publish" ELSE "reset"
  /\ UNCHANGED <<env, written, chunk, widx, read_count, sent, readerVars, socket,
                 notified, shutting_down, cancelled>>

Following(c) == (c + 1) % MaxChunks

Publish ==
  /\ wpc = "publish"
  /\ written' = [written EXCEPT ![widx] = TRUE]
  /\ widx' = Following(widx)
  /\ sent' = sent + 1
  /\ wpc' = IF Overflows THEN "send" ELSE "notify"
  /\ UNCHANGED <<env, read, chunk, next, read_count, readerVars, socket, notified,
                 shutting_down, cancelled>>

\* local_socket.send_multipart of a message that did not fit.
SendOverflow ==
  /\ wpc = "send"
  /\ socket' = [r \in Readers |-> Append(socket[r], sent)]
  /\ wpc' = "notify"
  /\ UNCHANGED <<env, ring, widx, next, read_count, sent, readerVars, notified,
                 shutting_down, cancelled>>

\* Mutant of Notify: nobody is told.
NotifyNobody ==
  /\ wpc = "notify"
  /\ wpc' = "out"
  /\ UNCHANGED <<env, ring, widx, next, read_count, sent, readerVars, socket, notified,
                 shutting_down, cancelled>>

\* SpinCondition.notify.  The socket keeps the last notification only (CONFLATE),
\* and one is dropped only behind another that is still to be delivered (SNDHWM).
Notify ==
  /\ wpc = "notify"
  /\ notified' = [r \in Readers |-> TRUE]
  /\ wpc' = "out"
  /\ UNCHANGED <<env, ring, widx, next, read_count, sent, readerVars, socket,
                 shutting_down, cancelled>>

WriterStep ==
  \/ CountFlag \/ CheckWritten \/ Claim \/ WriteHead \/ WriteBody
  \/ ResetFlag \/ Publish \/ SendOverflow \/ Notify

WriterDies ==
  /\ Crash /\ wpc # "dead"
  /\ wpc' = "dead"
  /\ UNCHANGED <<env, ring, widx, next, read_count, sent, readerVars, socket, notified,
                 shutting_down, cancelled>>
-----------------------------------------------------------------------------
(* dequeue and acquire_read of reader r.                                   *)

Goto(r, from, to) == rpc[r] = from /\ rpc' = [rpc EXCEPT ![r] = to]

LoadReadFlag(r) ==
  /\ Goto(r, "read_flag", "written_flag")
  /\ read_flag' = [read_flag EXCEPT ![r] = read[ridx[r]][r]]
  /\ UNCHANGED <<env, ring, writerVars, ridx, head, received, socket, notified,
                 shutting_down, cancelled>>

\* Mutant of CanRead: the reader's own flag is not looked at.
CanReadWritten(r) == written[ridx[r]]

CanRead(r) == written[ridx[r]] /\ ~ read_flag[r]

\* check() decides: read the chunk, or wait, spinning or idle.
LoadWrittenFlag(r) ==
  /\ \/ CanRead(r) /\ Goto(r, "written_flag", "head")
     \/ ~ CanRead(r) /\ (Goto(r, "written_flag", "spin") \/ Goto(r, "written_flag", "poll"))
  /\ UNCHANGED <<env, ring, writerVars, ridx, read_flag, head, received, socket, notified,
                 shutting_down, cancelled>>

\* SpinCondition.wait returns: at once, on a notification (which it consumes),
\* on a cancellation (which stays), or when it times out.
Wait(r) ==
  /\ \/ rpc[r] = "spin" /\ UNCHANGED notified
     \/ rpc[r] = "poll" /\ (cancelled[r] \/ Timeouts) /\ UNCHANGED notified
     \/ /\ rpc[r] = "poll" /\ ~ cancelled[r] /\ notified[r]
        /\ notified' = [notified EXCEPT ![r] = FALSE]
  /\ rpc' = [rpc EXCEPT ![r] = IF shutting_down[r] THEN "raised" ELSE "read_flag"]
  /\ UNCHANGED <<env, ring, writerVars, ridx, read_flag, head, received, socket,
                 shutting_down, cancelled>>

ReadHead(r) ==
  /\ Goto(r, "head", IF chunk[ridx[r]].overflow THEN "mark" ELSE "body")
  /\ head' = [head EXCEPT ![r] = chunk[ridx[r]].overflow]
  /\ UNCHANGED <<env, ring, writerVars, ridx, read_flag, received, socket, notified,
                 shutting_down, cancelled>>

ReadBody(r) ==
  /\ Goto(r, "body", "mark")
  /\ received' = [received EXCEPT ![r] = Append(@, chunk[ridx[r]].body)]
  /\ UNCHANGED <<env, ring, writerVars, ridx, read_flag, head, socket, notified,
                 shutting_down, cancelled>>

MarkRead(r) ==
  /\ Goto(r, "mark", IF head[r] THEN "recv" ELSE "use")
  /\ read' = [read EXCEPT ![ridx[r]][r] = TRUE]
  /\ ridx' = [ridx EXCEPT ![r] = Following(@)]
  /\ UNCHANGED <<env, written, chunk, writerVars, read_flag, head, received, socket,
                 notified, shutting_down, cancelled>>

RecvOverflow(r) ==
  /\ Goto(r, "recv", "use")
  /\ socket[r] # << >>
  /\ received' = [received EXCEPT ![r] = Append(@, Head(socket[r]))]
  /\ socket' = [socket EXCEPT ![r] = Tail(@)]
  /\ UNCHANGED <<env, ring, writerVars, ridx, read_flag, head, notified, shutting_down,
                 cancelled>>

\* MessageQueue.recv raises TimeoutError; the chunk is marked as read already.
RecvTimeout(r) ==
  /\ Timeouts
  /\ Goto(r, "recv", IF Retried THEN "read_flag" ELSE "raised")
  /\ UNCHANGED <<env, ring, writerVars, ridx, read_flag, head, received, socket, notified,
                 shutting_down, cancelled>>

\* The caller is through with the message and calls dequeue again.
CallDequeue(r) ==
  /\ Goto(r, "use", "read_flag")
  /\ UNCHANGED <<env, ring, writerVars, ridx, read_flag, head, received, socket, notified,
                 shutting_down, cancelled>>

ReaderStep(r) ==
  \/ LoadReadFlag(r) \/ LoadWrittenFlag(r) \/ Wait(r)
  \/ ReadHead(r) \/ ReadBody(r) \/ MarkRead(r) \/ RecvOverflow(r) \/ RecvTimeout(r)
  \/ CallDequeue(r)
-----------------------------------------------------------------------------
(* shutdown(), called by another thread of the reader's process: when the  *)
(* writer's process has died, or when it closes the queues itself.         *)

shutdown(r) ==
  /\ Shutdown \/ wpc = "dead"
  /\ ~ shutting_down[r]
  /\ shutting_down' = [shutting_down EXCEPT ![r] = TRUE]
  /\ UNCHANGED <<env, ring, writerVars, readerVars, socket, notified, cancelled>>

\* Mutant of cancel: the message goes to nobody.
CancelUnheard(r) ==
  /\ shutting_down[r] /\ ~ cancelled[r] /\ FALSE
  /\ UNCHANGED vars

cancel(r) ==
  /\ shutting_down[r] /\ ~ cancelled[r]
  /\ cancelled' = [cancelled EXCEPT ![r] = TRUE]
  /\ UNCHANGED <<env, ring, writerVars, readerVars, socket, notified, shutting_down>>

Next ==
  \/ Enqueue \/ WriterStep \/ WriterDies
  \/ \E r \in Readers : ReaderStep(r) \/ shutdown(r) \/ cancel(r)

(***************************************************************************)
(* A process that is in enqueue or dequeue keeps running, and the death    *)
(* pipe wakes the thread that shuts a reader's queue down.                 *)
(***************************************************************************)
Spec ==
  /\ Init /\ [][Next]_vars
  /\ WF_vars(WriterStep)
  /\ \A r \in Readers : /\ WF_vars(ReaderStep(r))
                       /\ WF_vars(wpc = "dead" /\ shutdown(r))
                       /\ WF_vars(cancel(r))
-----------------------------------------------------------------------------
TypeOK ==
  /\ written \in [Chunks -> BOOLEAN]
  /\ read \in [Chunks -> [Readers -> BOOLEAN]]
  /\ chunk \in [Chunks -> [overflow : BOOLEAN, body : 0 .. MaxMessages]]
  /\ wpc \in {"out", "count", "written_flag", "claim", "head", "body", "reset",
              "publish", "send", "notify", "dead"}
  /\ widx \in Chunks /\ next \in 1 .. NumReaders + 1 /\ read_count \in 0 .. NumReaders
  /\ sent \in 0 .. MaxMessages
  /\ rpc \in [Readers -> {"read_flag", "written_flag", "spin", "poll", "head", "body",
                         "mark", "recv", "use", "raised"}]
  /\ ridx \in [Readers -> Chunks] /\ read_flag \in [Readers -> BOOLEAN]
  /\ head \in [Readers -> BOOLEAN]
  /\ received \in [Readers -> Seq(0 .. MaxMessages)]
  /\ socket \in [Readers -> Seq(1 .. MaxMessages)]
  /\ notified \in [Readers -> BOOLEAN]
  /\ shutting_down \in [Readers -> BOOLEAN] /\ cancelled \in [Readers -> BOOLEAN]

(***************************************************************************)
(* ReadersAndWriterApart: nobody reads a chunk while it is written.  Both  *)
(* sides decide from flags loaded one after the other while the other side *)
(* changes them; the order of the loads and stores is all that protects    *)
(* the data.                                                               *)
(***************************************************************************)
ReadersAndWriterApart ==
  /\ TypeOK
  /\ wpc \in {"head", "body", "reset", "publish"} =>
       \A r \in Readers : rpc[r] \in {"head", "body", "mark"} => ridx[r] # widx

(***************************************************************************)
(* BroadcastSpec: whatever the interleaving of loads and stores, every     *)
(* reader gets every message, once, whole and in order, and the writer is  *)
(* never more than the ring ahead.                                         *)
(***************************************************************************)
Queue == INSTANCE Broadcast

BroadcastSpec == Queue!Spec

(***************************************************************************)
(* MessagesArrive: every message published reaches every reader that stays *)
(* in the queue, although idle readers look at the ring only when a        *)
(* notification arrives and notifications are conflated.                   *)
(***************************************************************************)
MessagesArrive ==
  \A n \in 1 .. MaxMessages :
    sent >= n ~> \A r \in Readers : Len(received[r]) >= n \/ rpc[r] = "raised"

(***************************************************************************)
(* WriterProceeds: a writer that waits for a chunk gets it, unless a       *)
(* reader has left the queue.                                              *)
(***************************************************************************)
WriterProceeds ==
  wpc = "count" ~> wpc \in {"out", "dead"} \/ \E r \in Readers : rpc[r] = "raised"

(***************************************************************************)
(* ReadersStop: a reader whose queue is shut down leaves dequeue.          *)
(* SpinCondition: "a separate thread in the reader's process must be able  *)
(* to wake the reader so that it can exit".                                *)
(***************************************************************************)
ReadersStop == \A r \in Readers : shutting_down[r] ~> rpc[r] = "raised"
=============================================================================
