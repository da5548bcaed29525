------------------------- MODULE ShmBroadcastProofs -------------------------
(***************************************************************************)
(* Proofs about ShmBroadcast, for every number of readers, every size of   *)
(* the ring and every set of environments: the flags keep the readers and  *)
(* the writer of a chunk apart, and the ring implements Broadcast.         *)
(***************************************************************************)
EXTENDS ShmBroadcast, SequenceTheorems, TLAPS

Writing == {"head", "body", "reset", "publish"}       \* the writer owns chunk widx
Reading == {"head", "body", "mark"}                   \* a reader owns chunk ridx

(***************************************************************************)
(* What the writer's loops know: how far they are, and that a count that   *)
(* missed nothing has seen only flags that are set (readers never clear    *)
(* one).                                                                   *)
(***************************************************************************)
CountInv ==
  /\ wpc \in {"count", "reset"} => next <= NumReaders
  /\ wpc \in {"claim", "head", "body"} => next = 1
  /\ wpc = "count" => /\ read_count <= next - 1
                      /\ read_count = next - 1 => \A r \in 1 .. next - 1 : read[widx][r]
  /\ wpc = "written_flag" /\ read_count = NumReaders => \A r \in Readers : read[widx][r]
  /\ wpc = "claim" /\ written[widx] => \A r \in Readers : read[widx][r]
  /\ wpc \in Writing => ~ written[widx]

(***************************************************************************)
(* What a reader knows: it stays with a chunk that is published and that   *)
(* it has not marked, and a flag it loaded as clear is still clear.        *)
(***************************************************************************)
ReaderInv ==
  \A r \in Readers :
    /\ rpc[r] \in Reading => written[ridx[r]] /\ ~ read[ridx[r]][r]
    /\ rpc[r] = "written_flag" /\ ~ read_flag[r] => ~ read[ridx[r]][r]

\* The message the writer is at is one its environment has.
SentInv ==
  /\ env \in Environments
  /\ wpc \in {"count", "written_flag", "claim"} \cup Writing => sent < env.messages
  /\ wpc = "send" => sent >= 1

FlagInv == TypeOK /\ CountInv /\ ReaderInv /\ SentInv
-----------------------------------------------------------------------------
\* Environments are records of the declared fields.
LEMMA EnvironmentType ==
  ASSUME env \in Environments
  PROVE  /\ env.messages \in 0 .. MaxMessages
         /\ env.overflowing \subseteq 1 .. MaxMessages
BY BroadcastAssumption

\* The chunk after a chunk of the ring is a chunk of the ring.
LEMMA FollowingType ==
  ASSUME NEW c \in Chunks
  PROVE  Following(c) \in Chunks
BY BroadcastAssumption DEF Following, Chunks

\* Writing one field of one chunk keeps the type of the ring's data.
LEMMA ChunkUpdateType ==
  ASSUME NEW data \in [Chunks -> [overflow : BOOLEAN, body : 0 .. MaxMessages]],
         NEW c \in Chunks, NEW o \in BOOLEAN, NEW b \in 0 .. MaxMessages
  PROVE  /\ [data EXCEPT ![c].overflow = o]
              \in [Chunks -> [overflow : BOOLEAN, body : 0 .. MaxMessages]]
         /\ [data EXCEPT ![c].body = b]
              \in [Chunks -> [overflow : BOOLEAN, body : 0 .. MaxMessages]]
<1>1. /\ [data[c] EXCEPT !.overflow = o] \in [overflow : BOOLEAN, body : 0 .. MaxMessages]
      /\ [data[c] EXCEPT !.body = b] \in [overflow : BOOLEAN, body : 0 .. MaxMessages]
  OBVIOUS
<1> QED
  BY <1>1

\* The flags, counters and program counters start consistent.
LEMMA FlagInvInit == Init => FlagInv
BY BroadcastAssumption DEF Init, FlagInv, TypeOK, CountInv, ReaderInv, SentInv, Chunks, Readers,
   Writing, Reading

\* The types of the flags and of the counters over them, as the steps use them.
LEMMA FlagTypes ==
  ASSUME FlagInv
  PROVE  /\ written \in [Chunks -> BOOLEAN] /\ read \in [Chunks -> [1 .. NumReaders -> BOOLEAN]]
         /\ widx \in Chunks /\ NumReaders \in Nat \ {0} /\ next \in 1 .. NumReaders + 1
         /\ read_count \in 0 .. NumReaders /\ ridx \in [Readers -> Chunks]
         /\ rpc \in [Readers -> {"read_flag", "written_flag", "spin", "poll", "head", "body",
                                 "mark", "recv", "use", "raised"}]
         /\ read_flag \in [Readers -> BOOLEAN]
         /\ sent \in 0 .. MaxMessages /\ MaxMessages \in Nat
         /\ env.messages \in 0 .. MaxMessages
BY BroadcastAssumption, EnvironmentType DEF FlagInv, TypeOK, SentInv, Readers

\* A type of the ring or of the writer's variables is kept by every step of the writer.
LEMMA TypeWriter ==
  ASSUME FlagInv, Enqueue \/ WriterStep \/ WriterDies
  PROVE  TypeOK'
<1> USE FlagTypes DEF FlagInv, TypeOK, ring, readerVars
<1>1. CASE Enqueue
  BY <1>1, BroadcastAssumption DEF Enqueue
<1>2. CASE CountFlag
  <2>1. next' \in 1 .. NumReaders + 1 /\ read_count' \in 0 .. NumReaders
    BY <1>2 DEF CountFlag, CountInv
  <2> QED
    BY <1>2, <2>1 DEF CountFlag
<1>3. CASE CheckWritten
  BY <1>3, BroadcastAssumption DEF CheckWritten
<1>4. CASE Claim
  BY <1>4 DEF Claim
<1>5. CASE WriteHead
  <2>1. Overflows \in BOOLEAN
    BY DEF Overflows
  <2>2. chunk' \in [Chunks -> [overflow : BOOLEAN, body : 0 .. MaxMessages]]
    BY <1>5, <2>1, ChunkUpdateType, BroadcastAssumption DEF WriteHead
  <2> QED
    BY <1>5, <2>2 DEF WriteHead
<1>6. CASE WriteBody
  <2>1. sent + 1 \in 0 .. MaxMessages
    BY <1>6 DEF WriteBody, SentInv, Writing
  <2>2. chunk' \in [Chunks -> [overflow : BOOLEAN, body : 0 .. MaxMessages]]
    BY <1>6, <2>1, ChunkUpdateType DEF WriteBody
  <2> QED
    BY <1>6, <2>2 DEF WriteBody
<1>7. CASE ResetFlag
  <2>1. next \in Readers /\ next' \in 1 .. NumReaders + 1
    BY <1>7 DEF ResetFlag, CountInv, Readers
  <2>2. read' \in [Chunks -> [Readers -> BOOLEAN]]
    BY <1>7, <2>1 DEF ResetFlag
  <2> QED
    BY <1>7, <2>1, <2>2 DEF ResetFlag
<1>8. CASE Publish
  <2>1. sent' \in 0 .. MaxMessages
    BY <1>8 DEF Publish, SentInv, Writing
  <2>2. widx' \in Chunks
    BY <1>8, FollowingType DEF Publish
  <2> QED
    BY <1>8, <2>1, <2>2 DEF Publish
<1>9. CASE SendOverflow
  <2>1. sent \in 1 .. MaxMessages
    BY <1>9 DEF SendOverflow, SentInv
  <2>2. socket' \in [Readers -> Seq(1 .. MaxMessages)]
    BY <1>9, <2>1, AppendProperties DEF SendOverflow
  <2> QED
    BY <1>9, <2>2 DEF SendOverflow
<1>10. CASE Notify
  BY <1>10 DEF Notify
<1>11. CASE WriterDies
  BY <1>11 DEF WriterDies
<1> QED
  BY <1>1, <1>2, <1>3, <1>4, <1>5, <1>6, <1>7, <1>8, <1>9, <1>10, <1>11 DEF WriterStep

\* What the writer's loops know is kept by every step of the writer.
LEMMA CountWriter ==
  ASSUME FlagInv, Enqueue \/ WriterStep \/ WriterDies
  PROVE  CountInv'
<1>1. CountInv
  BY DEF FlagInv
<1> USE FlagTypes DEF ring
<1>2. CASE Enqueue \/ SendOverflow \/ Notify \/ WriterDies
  BY <1>2 DEF Enqueue, SendOverflow, Notify, WriterDies, CountInv, Writing
<1>3. CASE CountFlag
  <2>1. /\ UNCHANGED <<read, written, widx>> /\ next \in 1 .. NumReaders /\ next' = next + 1
        /\ read_count' = read_count + (IF read[widx][next] THEN 1 ELSE 0)
        /\ wpc = "count" /\ wpc' = IF next = NumReaders THEN "written_flag" ELSE "count"
    BY <1>1, <1>3 DEF CountFlag, CountInv
  <2>2. /\ read_count' <= next' - 1
        /\ read_count' = next' - 1 => read[widx][next] /\ read_count = next - 1
    BY <1>1, <2>1 DEF CountInv
  <2>3. read_count' = next' - 1 => \A r \in 1 .. next' - 1 : read[widx][r]
    BY <1>1, <2>1, <2>2 DEF CountInv
  <2> QED
    BY <2>1, <2>2, <2>3 DEF CountInv, Writing, Readers
<1>4. CASE CheckWritten
  BY <1>1, <1>4 DEF CheckWritten, MustWait, CountInv, Writing
<1>5. CASE Claim
  BY <1>1, <1>5 DEF Claim, CountInv, Writing
<1>6. CASE WriteHead \/ WriteBody
  BY <1>1, <1>6 DEF WriteHead, WriteBody, CountInv, Writing
<1>7. CASE ResetFlag
  BY <1>1, <1>7 DEF ResetFlag, CountInv, Writing
<1>8. CASE Publish
  BY <1>1, <1>8 DEF Publish, CountInv, Writing
<1> QED
  BY <1>2, <1>3, <1>4, <1>5, <1>6, <1>7, <1>8 DEF WriterStep

\* The writer takes no chunk from a reader that is in it, and sets no read flag.
LEMMA ReadersUnharmed ==
  ASSUME FlagInv, Enqueue \/ WriterStep \/ WriterDies
  PROVE  ReaderInv'
<1>1. CountInv /\ ReaderInv
  BY DEF FlagInv
<1>2. UNCHANGED <<rpc, ridx, read_flag>>
  BY DEF Enqueue, WriterStep, WriterDies, CountFlag, CheckWritten, Claim, WriteHead, WriteBody,
         ResetFlag, Publish, SendOverflow, Notify, readerVars
<1>3. \A c \in Chunks, r \in Readers : read'[c][r] => read[c][r]
  <2>1. CASE ResetFlag
    BY <2>1, FlagTypes DEF ResetFlag, Readers
  <2>2. CASE ~ ResetFlag
    BY <2>2 DEF Enqueue, WriterStep, WriterDies, CountFlag, CheckWritten, Claim, WriteHead,
                WriteBody, Publish, SendOverflow, Notify, ring
  <2> QED
    BY <2>1, <2>2
<1>4. ASSUME NEW r \in Readers, rpc[r] \in Reading
      PROVE  written'[ridx[r]]
  <2>1. written[ridx[r]] /\ ~ read[ridx[r]][r]
    BY <1>1, <1>4 DEF ReaderInv
  <2>2. CASE Claim
    <3>1. ridx[r] # widx
      BY <1>1, <2>1, <2>2 DEF CountInv, Claim
    <3> QED
      BY <2>1, <2>2, <3>1, FlagTypes DEF Claim
  <2>3. CASE Publish
    BY <2>1, <2>3, FlagTypes DEF Publish
  <2>4. CASE ~ Claim /\ ~ Publish
    BY <2>1, <2>4 DEF Enqueue, WriterStep, WriterDies, CountFlag, CheckWritten, WriteHead,
                      WriteBody, ResetFlag, SendOverflow, Notify, ring
  <2> QED
    BY <2>2, <2>3, <2>4
<1> QED
  BY <1>1, <1>2, <1>3, <1>4, FlagTypes DEF ReaderInv

\* The writer's place in the sequence of messages is kept by every step of the writer.
LEMMA SentWriter ==
  ASSUME FlagInv, Enqueue \/ WriterStep \/ WriterDies
  PROVE  SentInv'
<1>1. SentInv
  BY DEF FlagInv
<1> QED
  BY <1>1, FlagTypes DEF SentInv, Writing, Enqueue, WriterStep, WriterDies, CountFlag,
     CheckWritten, Claim, WriteHead, WriteBody, ResetFlag, Publish, SendOverflow, Notify

\* The types are kept by every step of a reader.
LEMMA TypeReader ==
  ASSUME FlagInv, NEW r \in Readers, ReaderStep(r) \/ shutdown(r) \/ cancel(r)
  PROVE  TypeOK'
<1> USE DEF FlagInv, TypeOK, ring, writerVars, readerVars, Goto
<1>1. CASE LoadReadFlag(r)
  BY <1>1 DEF LoadReadFlag
<1>2. CASE LoadWrittenFlag(r)
  BY <1>2 DEF LoadWrittenFlag
<1>3. CASE Wait(r)
  BY <1>3 DEF Wait
<1>4. CASE ReadHead(r)
  BY <1>4 DEF ReadHead
<1>5. CASE ReadBody(r)
  <2>1. received' \in [Readers -> Seq(0 .. MaxMessages)]
    BY <1>5, AppendProperties DEF ReadBody
  <2> QED
    BY <1>5, <2>1 DEF ReadBody
<1>6. CASE MarkRead(r)
  BY <1>6, FollowingType DEF MarkRead
<1>7. CASE RecvOverflow(r)
  <2>1. socket[r] \in Seq(1 .. MaxMessages) /\ socket[r] # << >>
    BY <1>7 DEF RecvOverflow
  <2>2. Head(socket[r]) \in 1 .. MaxMessages /\ Tail(socket[r]) \in Seq(1 .. MaxMessages)
    BY <2>1, HeadTailProperties
  <2>3. Append(received[r], Head(socket[r])) \in Seq(0 .. MaxMessages)
    <3>1. received[r] \in Seq(0 .. MaxMessages) /\ Head(socket[r]) \in 0 .. MaxMessages
      BY <2>2
    <3> QED
      BY <3>1, AppendProperties
  <2> QED
    BY <1>7, <2>2, <2>3 DEF RecvOverflow
<1>8. CASE RecvTimeout(r)
  BY <1>8 DEF RecvTimeout
<1>9. CASE CallDequeue(r)
  BY <1>9 DEF CallDequeue
<1>10. CASE shutdown(r)
  BY <1>10 DEF shutdown
<1>11. CASE cancel(r)
  BY <1>11 DEF cancel
<1> QED
  BY <1>1, <1>2, <1>3, <1>4, <1>5, <1>6, <1>7, <1>8, <1>9, <1>10, <1>11 DEF ReaderStep

\* A reader's step leaves the writer alone: it only ever sets a read flag.
LEMMA WriterUnharmed ==
  ASSUME FlagInv, NEW r \in Readers, ReaderStep(r) \/ shutdown(r) \/ cancel(r)
  PROVE  CountInv' /\ SentInv'
<1>1. CountInv /\ SentInv
  BY DEF FlagInv
<1>2. UNCHANGED <<env, written, wpc, widx, next, read_count, sent>>
  BY DEF ReaderStep, LoadReadFlag, LoadWrittenFlag, Wait, ReadHead, ReadBody, MarkRead,
         RecvOverflow, RecvTimeout, CallDequeue, shutdown, cancel, ring, writerVars
<1>3. \A c \in Chunks, s \in 1 .. NumReaders : read[c][s] => read'[c][s]
  <2>1. CASE MarkRead(r)
    BY <2>1, FlagTypes DEF MarkRead, Readers
  <2>2. CASE ~ MarkRead(r)
    BY <2>2 DEF ReaderStep, LoadReadFlag, LoadWrittenFlag, Wait, ReadHead, ReadBody,
                RecvOverflow, RecvTimeout, CallDequeue, shutdown, cancel, ring
  <2> QED
    BY <2>1, <2>2
<1>4. SentInv'
  BY <1>1, <1>2 DEF SentInv
<1>5. \A s \in 1 .. NumReaders : read[widx][s] => read'[widx][s]
  BY <1>3, FlagTypes
<1>6. next <= NumReaders => \A s \in 1 .. next - 1 : s \in 1 .. NumReaders
  BY FlagTypes
<1>7. CountInv'
  BY <1>1, <1>2, <1>5, <1>6 DEF CountInv, Readers
<1> QED
  BY <1>4, <1>7

\* A reader enters a chunk only when it is published and unmarked, and marks only its own.
LEMMA ReaderReader ==
  ASSUME FlagInv, NEW r \in Readers, ReaderStep(r) \/ shutdown(r) \/ cancel(r)
  PROVE  ReaderInv'
<1> DEFINE Knows(s) ==
      /\ rpc[s] \in Reading => written[ridx[s]] /\ ~ read[ridx[s]][s]
      /\ rpc[s] = "written_flag" /\ ~ read_flag[s] => ~ read[ridx[s]][s]
<1>1. \A s \in Readers : Knows(s)
  BY DEF FlagInv, ReaderInv
<1>2. UNCHANGED written
  BY DEF ReaderStep, LoadReadFlag, LoadWrittenFlag, Wait, ReadHead, ReadBody, MarkRead,
         RecvOverflow, RecvTimeout, CallDequeue, shutdown, cancel, ring
<1>3. ASSUME NEW s \in Readers, s # r
      PROVE  Knows(s)'
  <2>1. rpc'[s] = rpc[s] /\ ridx'[s] = ridx[s] /\ read_flag'[s] = read_flag[s]
    BY <1>3, FlagTypes DEF ReaderStep, LoadReadFlag, LoadWrittenFlag, Wait, ReadHead, ReadBody,
       MarkRead, RecvOverflow, RecvTimeout, CallDequeue, shutdown, cancel, Goto, readerVars
  <2>2. \A c \in Chunks : read'[c][s] <=> read[c][s]
    <3>1. CASE MarkRead(r)
      BY <1>3, <3>1, FlagTypes DEF MarkRead, Readers
    <3>2. CASE ~ MarkRead(r)
      BY <3>2 DEF ReaderStep, LoadReadFlag, LoadWrittenFlag, Wait, ReadHead, ReadBody,
                  RecvOverflow, RecvTimeout, CallDequeue, shutdown, cancel, ring
    <3> QED
      BY <3>1, <3>2
  <2>3. read'[ridx[s]][s] <=> read[ridx[s]][s]
    BY <2>2, FlagTypes
  <2> QED
    BY <1>1, <1>2, <2>1, <2>3
<1>4. Knows(r)'
  <2>1. CASE LoadReadFlag(r)
    BY <2>1, FlagTypes DEF LoadReadFlag, Goto, ring, Reading
  <2>2. CASE LoadWrittenFlag(r)
    BY <1>1, <2>2, FlagTypes DEF LoadWrittenFlag, CanRead, Goto, ring, Reading
  <2>3. CASE ReadHead(r) \/ ReadBody(r)
    BY <1>1, <2>3, FlagTypes DEF ReadHead, ReadBody, Goto, ring, Reading
  <2>4. CASE shutdown(r) \/ cancel(r)
    BY <1>1, <2>4 DEF shutdown, cancel, ring, readerVars
  <2>5. CASE Wait(r) \/ MarkRead(r) \/ RecvOverflow(r) \/ RecvTimeout(r) \/ CallDequeue(r)
    <3>1. rpc'[r] \in {"read_flag", "raised", "recv", "use"}
      BY <2>5, FlagTypes DEF Wait, MarkRead, RecvOverflow, RecvTimeout, CallDequeue, Goto
    <3> QED
      BY <3>1 DEF Reading
  <2> QED
    BY <2>1, <2>2, <2>3, <2>4, <2>5 DEF ReaderStep
<1> QED
  BY <1>3, <1>4 DEF ReaderInv

\* Every step keeps FlagInv, whatever the environment.
LEMMA FlagInvStep ==
  ASSUME FlagInv, [Next]_vars
  PROVE  FlagInv'
<1>1. CASE UNCHANGED vars
  BY <1>1 DEF vars, ring, writerVars, readerVars, FlagInv, TypeOK, CountInv, ReaderInv, SentInv
<1> QED
  BY <1>1, TypeWriter, CountWriter, ReadersUnharmed, SentWriter, TypeReader, WriterUnharmed,
     ReaderReader DEF Next, FlagInv

(***************************************************************************)
(* AlwaysApart: no reader is in a chunk that the writer is writing, in     *)
(* whatever order the loads and stores of acquire_write and acquire_read   *)
(* happen, with any number of readers and chunks, in every environment     *)
(* (crashes, shutdowns, timeouts and retries included).                    *)
(***************************************************************************)
THEOREM AlwaysApart == Spec => []ReadersAndWriterApart
<1>1. FlagInv /\ [Next]_vars => FlagInv'
  BY FlagInvStep
<1>2. FlagInv => ReadersAndWriterApart
  BY DEF FlagInv, CountInv, ReaderInv, ReadersAndWriterApart, Writing, Reading
<1> QED
  BY FlagInvInit, <1>1, <1>2, PTL DEF Spec
-----------------------------------------------------------------------------
(***************************************************************************)
(* The refinement.  marks[r] is the number of chunks reader r has marked   *)
(* as read: the program keeps it only modulo the size of the ring, so the  *)
(* invariant says that there is such a number for every reader.  It is not *)
(* what the reader received when a caller goes on after the TimeoutError   *)
(* of an overflowing message, which is then lost.                          *)
(***************************************************************************)
NoRetriedOverflow ==
  \A e \in Environments : e.timeouts = "retried" => e.overflowing = {}

Slot(k) == (k - 1) % MaxChunks           \* the chunk of message k

\* Message k is in its chunk, whole, and marked by the readers that are past it.
Holds(marks, k) ==
  /\ written[Slot(k)]
  /\ chunk[Slot(k)].overflow <=> k \in Overflowing
  /\ k \notin Overflowing => chunk[Slot(k)].body = k
  /\ \A r \in Readers : read[Slot(k)][r] <=> marks[r] >= k

\* The ring holds the last MaxChunks messages, or all but the oldest of them
\* once every reader has it and the writer has claimed its chunk.
RingInv(marks) ==
  /\ widx = Slot(sent + 1)
  /\ \A c \in Chunks : c >= sent => ~ written[c]
  /\ \A k \in 1 .. sent : sent + 1 < k + MaxChunks => Holds(marks, k)
  /\ \A k \in 1 .. sent : sent + 1 = k + MaxChunks =>
       IF written[widx] THEN Holds(marks, k) ELSE \A r \in Readers : marks[r] >= k

\* What the writer has done to the chunk it owns.
WritingInv ==
  /\ wpc \in {"body", "reset", "publish"} => (chunk[widx].overflow <=> Overflows)
  /\ wpc = "body" => ~ Overflows
  /\ wpc \in {"reset", "publish"} /\ ~ Overflows => chunk[widx].body = sent + 1
  /\ wpc = "reset" => \A r \in 1 .. next - 1 : ~ read[widx][r]
  /\ wpc = "publish" => \A r \in Readers : ~ read[widx][r]

\* Where reader r is, and how much of it its caller has.
PlaceInv(marks, r) ==
  /\ ridx[r] = Slot(marks[r] + 1)
  /\ marks[r] <= sent /\ sent <= marks[r] + MaxChunks
  /\ rpc[r] \in Reading => marks[r] < sent
  /\ rpc[r] = "body" => ~ head[r] /\ marks[r] + 1 \notin Overflowing
  /\ rpc[r] = "mark" => (head[r] <=> marks[r] + 1 \in Overflowing)
  /\ rpc[r] = "recv" => marks[r] \in Overflowing
  /\ \/ Len(received[r]) = marks[r] /\ rpc[r] # "recv" /\ (rpc[r] = "mark" => head[r])
     \/ Len(received[r]) = marks[r] + 1 /\ rpc[r] = "mark" /\ ~ head[r]
     \/ Len(received[r]) + 1 = marks[r] /\ rpc[r] \in {"recv", "raised"}

\* The socket of reader r holds the overflowing messages it has not received, in order.
SocketInv(r) ==
  /\ \A i, j \in 1 .. Len(socket[r]) : i < j => socket[r][i] < socket[r][j]
  /\ \A i \in 1 .. Len(socket[r]) :
       /\ socket[r][i] \in Overflowing
       /\ Len(received[r]) < socket[r][i] /\ socket[r][i] <= sent
       /\ wpc = "send" => socket[r][i] # sent
  /\ \A k \in Overflowing :
       /\ Len(received[r]) < k /\ k <= sent
       /\ k = sent => wpc \notin {"send", "dead"}
       => \E i \in 1 .. Len(socket[r]) : socket[r][i] = k
  /\ wpc = "send" => sent \in Overflowing /\ Len(received[r]) < sent

PositionInv(marks) ==
  /\ RingInv(marks) /\ WritingInv
  /\ \A r \in Readers : PlaceInv(marks, r) /\ SocketInv(r)
-----------------------------------------------------------------------------
\* Division with remainder by the size of the ring.
LEMMA Remainder ==
  ASSUME NEW a \in Nat
  PROVE  /\ a % MaxChunks \in 0 .. MaxChunks - 1
         /\ a \div MaxChunks \in Nat
         /\ a = MaxChunks * (a \div MaxChunks) + (a % MaxChunks)
BY BroadcastAssumption

\* Quotient and remainder are unique.
LEMMA RemainderUnique ==
  ASSUME NEW p \in Nat, NEW q \in Nat, NEW x \in 0 .. MaxChunks - 1, NEW y \in 0 .. MaxChunks - 1,
         MaxChunks * p + x = MaxChunks * q + y
  PROVE  p = q /\ x = y
<1> USE BroadcastAssumption
<1>1. CASE p < q
  <2>1. PICK d \in Nat : q = p + 1 + d
    BY <1>1
  <2>2. MaxChunks * q = MaxChunks * p + MaxChunks + MaxChunks * d /\ MaxChunks * d \in Nat
    BY <2>1
  <2> QED
    BY <2>2
<1>2. CASE q < p
  <2>1. PICK d \in Nat : p = q + 1 + d
    BY <1>2
  <2>2. MaxChunks * p = MaxChunks * q + MaxChunks + MaxChunks * d /\ MaxChunks * d \in Nat
    BY <2>1
  <2> QED
    BY <2>2
<1>3. CASE p = q
  BY <1>3
<1> QED
  BY <1>1, <1>2, <1>3

\* The ring: consecutive messages are in consecutive chunks, MaxChunks messages
\* in a row are in different ones, and the next message takes the oldest one's.
LEMMA SlotFacts ==
  ASSUME NEW k \in Nat \ {0}
  PROVE  /\ Slot(k) \in Chunks
         /\ Following(Slot(k)) = Slot(k + 1)
         /\ Slot(k + MaxChunks) = Slot(k)
         /\ k <= MaxChunks => Slot(k) = k - 1
         /\ \A j \in Nat \ {0} : j < k /\ k < j + MaxChunks => Slot(j) # Slot(k)
<1> USE BroadcastAssumption
<1> DEFINE a == k - 1
           q == a \div MaxChunks
           x == a % MaxChunks
<1>1. a \in Nat /\ q \in Nat /\ x \in 0 .. MaxChunks - 1 /\ a = MaxChunks * q + x /\ Slot(k) = x
  BY Remainder DEF Slot
<1>2. \A b, p \in Nat, y \in 0 .. MaxChunks - 1 : b = MaxChunks * p + y => b % MaxChunks = y
  BY Remainder, RemainderUnique
<1> HIDE DEF a, q, x
<1>3. Slot(k) \in Chunks
  BY <1>1 DEF Chunks
<1>4. Following(Slot(k)) = Slot(k + 1)
  <2>1. k + 1 - 1 = a + 1
    BY DEF a
  <2>2. CASE x + 1 < MaxChunks
    <3>1. a + 1 = MaxChunks * q + (x + 1) /\ x + 1 = MaxChunks * 0 + (x + 1)
      BY <1>1
    <3>2. (a + 1) % MaxChunks = x + 1 /\ (x + 1) % MaxChunks = x + 1
      BY <1>1, <1>2, <2>2, <3>1
    <3> QED
      BY <1>1, <2>1, <3>2 DEF Following, Slot
  <2>3. CASE x + 1 = MaxChunks
    <3>1. a + 1 = MaxChunks * (q + 1) + 0 /\ x + 1 = MaxChunks * 1 + 0
      BY <1>1, <2>3
    <3>2. (a + 1) % MaxChunks = 0 /\ (x + 1) % MaxChunks = 0
      BY <1>1, <1>2, <2>3, <3>1
    <3> QED
      BY <1>1, <2>1, <3>2 DEF Following, Slot
  <2> QED
    BY <1>1, <2>2, <2>3
<1>5. Slot(k + MaxChunks) = Slot(k)
  <2> DEFINE b == k + MaxChunks - 1
             p == q + 1
  <2>1. b \in Nat /\ p \in Nat /\ b = MaxChunks * p + x
    BY <1>1 DEF a
  <2>2. Slot(k + MaxChunks) = b % MaxChunks
    BY DEF Slot
  <2> HIDE DEF b, p
  <2> QED
    BY <1>1, <1>2, <2>1, <2>2
<1>6. k <= MaxChunks => Slot(k) = k - 1
  <2>1. k - 1 = MaxChunks * 0 + (k - 1)
    OBVIOUS
  <2> QED
    BY <1>2, <2>1 DEF Slot
<1>7. ASSUME NEW j \in Nat \ {0}, j < k, k < j + MaxChunks, Slot(j) = Slot(k)
      PROVE  FALSE
  <2> DEFINE p == (j - 1) \div MaxChunks
  <2>1. p \in Nat /\ j - 1 = MaxChunks * p + x
    BY <1>1, <1>7, Remainder DEF Slot
  <2> HIDE DEF p
  <2>2. q > p
    <3>1. ASSUME q <= p
          PROVE  FALSE
      <4>1. PICK d \in Nat : p = q + d
        BY <1>1, <2>1, <3>1
      <4>2. MaxChunks * p = MaxChunks * q + MaxChunks * d /\ MaxChunks * d \in Nat
        BY <1>1, <4>1
      <4> QED
        BY <1>1, <1>7, <2>1, <4>2 DEF a
    <3> QED
      BY <1>1, <2>1, <3>1
  <2>3. PICK d \in Nat : q = p + 1 + d
    BY <1>1, <2>1, <2>2
  <2>4. MaxChunks * q = MaxChunks * p + MaxChunks + MaxChunks * d /\ MaxChunks * d \in Nat
    BY <1>1, <2>1, <2>3
  <2> QED
    BY <1>1, <1>7, <2>1, <2>4 DEF a
<1> QED
  BY <1>3, <1>4, <1>5, <1>6, <1>7
-----------------------------------------------------------------------------
\* A chunk that nobody touches still holds its message.
LEMMA HoldsUnchanged ==
  ASSUME NEW marks, NEW k, Holds(marks, k), UNCHANGED env,
         written'[Slot(k)] = written[Slot(k)], chunk'[Slot(k)] = chunk[Slot(k)],
         read'[Slot(k)] = read[Slot(k)]
  PROVE  Holds(marks, k)'
BY DEF Holds, Overflowing, Slot

\* A reader in a chunk is at a message that the chunk holds.
LEMMA ReadingHolds ==
  ASSUME FlagInv, NEW marks \in [Readers -> Nat], PositionInv(marks),
         NEW r \in Readers, rpc[r] \in Reading
  PROVE  Holds(marks, marks[r] + 1)
<1>1. /\ marks[r] + 1 \in 1 .. sent /\ sent + 1 <= marks[r] + 1 + MaxChunks
      /\ ridx[r] = Slot(marks[r] + 1) /\ written[ridx[r]] /\ sent \in Nat /\ widx = Slot(sent + 1)
  <2>1. sent \in Nat /\ written[ridx[r]]
    BY BroadcastAssumption DEF FlagInv, TypeOK, ReaderInv
  <2>2. PlaceInv(marks, r) /\ RingInv(marks)
    BY DEF PositionInv
  <2> QED
    BY <2>1, <2>2, BroadcastAssumption DEF PlaceInv, RingInv
<1>2. CASE sent + 1 < marks[r] + 1 + MaxChunks
  BY <1>1, <1>2 DEF PositionInv, RingInv
<1>3. CASE sent + 1 = marks[r] + 1 + MaxChunks
  <2>1. ridx[r] = widx
    BY <1>1, <1>3, SlotFacts
  <2> QED
    BY <1>1, <1>3, <2>1 DEF PositionInv, RingInv
<1> QED
  BY <1>1, <1>2, <1>3, BroadcastAssumption

\* Of the messages in the ring only the oldest can be in the writer's chunk.
LEMMA WindowSlots ==
  ASSUME FlagInv, NEW marks, RingInv(marks), NEW k \in 1 .. sent
  PROVE  /\ Slot(k) \in Chunks
         /\ sent + 1 < k + MaxChunks => Slot(k) # widx
         /\ sent + 1 = k + MaxChunks => Slot(k) = widx
<1>1. sent \in Nat /\ widx = Slot(sent + 1) /\ MaxChunks \in Nat
  BY BroadcastAssumption DEF FlagInv, TypeOK, RingInv
<1>2. k \in Nat \ {0} /\ sent + 1 \in Nat \ {0} /\ k < sent + 1
  BY <1>1
<1> QED
  BY <1>1, <1>2, SlotFacts

\* Nobody has received more than was sent.
LEMMA ReceivedBound ==
  ASSUME FlagInv, NEW marks \in [Readers -> Nat], PositionInv(marks), NEW r \in Readers
  PROVE  /\ Len(received[r]) \in Nat /\ Len(received[r]) <= sent
         /\ marks[r] <= Len(received[r]) + 1
<1>1. Len(received[r]) \in Nat /\ sent \in Nat /\ marks[r] \in Nat
  BY BroadcastAssumption DEF FlagInv, TypeOK
<1>2. PlaceInv(marks, r)
  BY DEF PositionInv
<1> QED
  BY <1>1, <1>2 DEF PlaceInv, Reading

\* At first the ring is empty and every reader is at its start.
LEMMA PositionInit ==
  ASSUME Init
  PROVE  PositionInv([r \in Readers |-> 0])
<1>1. Slot(1) = 0
  BY SlotFacts, BroadcastAssumption
<1> DEFINE marks == [r \in Readers |-> 0]
<1>2. sent = 0 /\ widx = 0 /\ wpc = "out" /\ written = [c \in Chunks |-> FALSE]
  BY DEF Init
<1>3. RingInv(marks)
  BY <1>1, <1>2, BroadcastAssumption DEF RingInv
<1>4. WritingInv
  BY <1>2 DEF WritingInv
<1>5. ASSUME NEW r \in Readers
      PROVE  PlaceInv(marks, r) /\ SocketInv(r)
  <2>1. /\ rpc[r] = "read_flag" /\ ridx[r] = 0 /\ received[r] = << >> /\ socket[r] = << >>
        /\ marks[r] = 0
    BY DEF Init
  <2>2. Len(received[r]) = 0 /\ Len(socket[r]) = 0
    BY <2>1
  <2>3. PlaceInv(marks, r)
    BY <1>1, <1>2, <2>1, <2>2, BroadcastAssumption DEF PlaceInv, Reading
  <2>4. SocketInv(r)
    <3>1. \A k \in Overflowing : ~ (Len(received[r]) < k /\ k <= sent)
      BY <1>2, <2>2, EnvironmentType, BroadcastAssumption DEF Init, Overflowing
    <3> QED
      BY <1>2, <2>2, <3>1 DEF SocketInv
  <2> QED
    BY <2>3, <2>4
<1> QED
  BY <1>3, <1>4, <1>5 DEF PositionInv

\* Every step of the writer keeps the positions.
LEMMA PositionWriter ==
  ASSUME FlagInv, NEW marks \in [Readers -> Nat], PositionInv(marks),
         Enqueue \/ WriterStep \/ WriterDies
  PROVE  PositionInv(marks)'
<1> USE DEF PositionInv, ring, readerVars
<1>1. CASE Enqueue \/ CountFlag \/ CheckWritten \/ Notify \/ WriterDies
  <2>1. RingInv(marks)'
    BY <1>1 DEF Enqueue, CountFlag, CheckWritten, Notify, WriterDies, RingInv, Holds, Overflowing
  <2>2. WritingInv'
    BY <1>1 DEF Enqueue, CountFlag, CheckWritten, Notify, WriterDies, WritingInv
  <2>3. ASSUME NEW r \in Readers
        PROVE  PlaceInv(marks, r)' /\ SocketInv(r)'
    <3>1. /\ UNCHANGED <<env, sent, readerVars, socket>>
          /\ wpc' \notin {"send"} /\ (wpc' # "dead" => wpc \notin {"send", "dead"})
      BY <1>1 DEF Enqueue, CountFlag, CheckWritten, Notify, WriterDies
    <3>2. PlaceInv(marks, r)'
      BY <3>1 DEF PlaceInv, Overflowing
    <3>3. SocketInv(r)'
      BY <3>1 DEF SocketInv, Overflowing
    <3> QED
      BY <3>2, <3>3
  <2> QED
    BY <2>1, <2>2, <2>3
\* The chunk may be claimed: every reader has marked the message in it.
<1>2. CASE Claim
  <2>1. ASSUME NEW k \in 1 .. sent, sent + 1 = k + MaxChunks
        PROVE  \A r \in Readers : marks[r] >= k
    <3>1. widx = Slot(k)
      BY <2>1, WindowSlots
    <3>2. CASE written[widx]
      BY <1>2, <2>1, <3>1, <3>2 DEF FlagInv, CountInv, RingInv, Holds, Claim
    <3>3. CASE ~ written[widx]
      BY <2>1, <3>3 DEF RingInv
    <3> QED
      BY <3>2, <3>3
  <2>2. ASSUME NEW k \in 1 .. sent, sent + 1 < k + MaxChunks
        PROVE  Holds(marks, k)'
    <3>1. Slot(k) # widx /\ Slot(k) \in Chunks
      BY <2>2, WindowSlots
    <3>2. Holds(marks, k)
      BY <2>2 DEF RingInv
    <3> QED
      BY <1>2, <3>1, <3>2, HoldsUnchanged DEF Claim, FlagInv, TypeOK
  <2>3. RingInv(marks)'
    BY <1>2, <2>1, <2>2 DEF Claim, RingInv, FlagInv, TypeOK, Slot
  <2>4. WritingInv'
    BY <1>2 DEF Claim, WritingInv
  <2>5. ASSUME NEW r \in Readers
        PROVE  PlaceInv(marks, r)' /\ SocketInv(r)'
    BY <1>2 DEF Claim, PlaceInv, SocketInv, Overflowing
  <2> QED
    BY <2>3, <2>4, <2>5
<1>3. CASE WriteHead \/ WriteBody \/ ResetFlag
  <2>1. /\ UNCHANGED <<env, written, widx, sent, readerVars, socket>>
        /\ wpc \in Writing /\ ~ written[widx] /\ wpc' \notin {"send", "dead"}
        /\ \A c \in Chunks \ {widx} : chunk'[c] = chunk[c] /\ read'[c] = read[c]
    BY <1>3 DEF WriteHead, WriteBody, ResetFlag, FlagInv, TypeOK, CountInv, Writing
  <2>2. ASSUME NEW k \in 1 .. sent, sent + 1 < k + MaxChunks
        PROVE  Holds(marks, k)'
    <3>1. Slot(k) # widx /\ Slot(k) \in Chunks
      BY <2>2, WindowSlots
    <3>2. Holds(marks, k)
      BY <2>2 DEF RingInv
    <3> QED
      BY <2>1, <3>1, <3>2, HoldsUnchanged
  <2>3. RingInv(marks)'
    BY <2>1, <2>2 DEF RingInv, Slot
  <2>4. WritingInv'
    <3>1. /\ widx \in Chunks /\ chunk \in [Chunks -> [overflow : BOOLEAN, body : 0 .. MaxMessages]]
          /\ read \in [Chunks -> [Readers -> BOOLEAN]] /\ next \in Readers /\ NumReaders \in Nat
          /\ wpc \in {"head", "body"} => next = 1
      BY <1>3, BroadcastAssumption
         DEF FlagInv, TypeOK, CountInv, WriteHead, WriteBody, ResetFlag, Readers
    <3>2. CASE WriteHead
      <4>1. /\ chunk'[widx].overflow = Overflows /\ (Overflows' <=> Overflows) /\ widx' = widx
            /\ wpc' = IF Overflows THEN "reset" ELSE "body"
            /\ next' = 1
        BY <3>1, <3>2 DEF WriteHead, Overflows, Overflowing
      <4>2. 1 .. next' - 1 = {}
        BY <4>1
      <4>3. CASE Overflows
        BY <4>1, <4>2, <4>3 DEF WritingInv
      <4>4. CASE ~ Overflows
        BY <4>1, <4>4 DEF WritingInv
      <4> QED
        BY <4>3, <4>4
    <3>3. CASE WriteBody
      BY <3>1, <3>3 DEF WriteBody, WritingInv, Overflows, Overflowing
    <3>4. CASE ResetFlag
      BY <3>1, <3>4 DEF ResetFlag, WritingInv, Overflows, Overflowing, Readers
    <3> QED
      BY <1>3, <3>2, <3>3, <3>4
  <2>5. ASSUME NEW r \in Readers
        PROVE  PlaceInv(marks, r)' /\ SocketInv(r)'
    BY <2>1 DEF PlaceInv, SocketInv, Overflowing, Writing
  <2> QED
    BY <2>3, <2>4, <2>5
\* The chunk is published as the newest message; the next chunk is the oldest one's.
<1>4. CASE Publish
  <2>1. /\ sent \in Nat /\ sent' = sent + 1 /\ widx \in Chunks /\ widx = Slot(sent + 1)
        /\ widx' = Slot(sent + 2) /\ ~ written[widx] /\ Slot(sent + 1) \in Chunks
        /\ MaxChunks \in Nat \ {0} /\ marks \in [Readers -> Nat]
    <3>1. /\ sent \in Nat /\ sent' = sent + 1 /\ widx \in Chunks /\ widx = Slot(sent + 1)
          /\ widx' = Following(widx) /\ ~ written[widx]
      BY <1>4, BroadcastAssumption DEF Publish, RingInv, FlagInv, TypeOK, CountInv, Writing
    <3>2. sent + 1 \in Nat \ {0} /\ sent + 1 + 1 = sent + 2
      BY <3>1
    <3> QED
      BY <3>1, <3>2, SlotFacts, BroadcastAssumption
  <2>2. \A r \in Readers : marks[r] <= sent /\ sent + 1 <= marks[r] + MaxChunks
    <3>1. \A r \in Readers : marks[r] <= sent
      BY DEF PlaceInv
    <3>2. CASE sent + 1 <= MaxChunks
      BY <2>1, <3>1, <3>2
    <3>3. CASE sent + 1 > MaxChunks
      <4>1. sent + 1 - MaxChunks \in 1 .. sent
        BY <2>1, <3>3
      <4> QED
        BY <2>1, <3>1, <4>1 DEF RingInv
    <3> QED
      BY <2>1, <3>2, <3>3
  <2>3. ASSUME NEW k \in Nat, k = sent + 1
        PROVE  Holds(marks, k)'
    <3>1. /\ written'[widx] /\ (chunk[widx].overflow <=> sent + 1 \in Overflowing)
          /\ sent + 1 \notin Overflowing => chunk[widx].body = sent + 1
          /\ \A r \in Readers : ~ read[widx][r]
      BY <1>4 DEF Publish, WritingInv, Overflows, FlagInv, TypeOK
    <3>2. ASSUME NEW r \in Readers
          PROVE  ~ (marks[r] >= sent + 1)
      BY <2>1, <2>2
    <3> QED
      BY <1>4, <2>1, <2>3, <3>1, <3>2 DEF Publish, Holds, Overflowing, Slot
  <2>4. ASSUME NEW k \in 1 .. sent, sent + 1 < k + MaxChunks
        PROVE  Holds(marks, k)'
    <3>1. Slot(k) # widx /\ Slot(k) \in Chunks
      BY <2>4, WindowSlots
    <3>2. Holds(marks, k)
      BY <2>4 DEF RingInv
    <3> QED
      BY <1>4, <3>1, <3>2, HoldsUnchanged DEF Publish, FlagInv, TypeOK
  <2>5. RingInv(marks)'
    <3>1. widx' = Slot(sent + 1)'
      BY <2>1 DEF Slot
    <3>2. ASSUME NEW c \in Chunks, c >= sent + 1
          PROVE  ~ written'[c]
      <4>1. c \in 0 .. MaxChunks - 1
        BY DEF Chunks
      <4>2. sent + 1 <= MaxChunks /\ c # sent
        BY <2>1, <3>2, <4>1
      <4>3. widx = sent
        BY <2>1, <4>2, SlotFacts
      <4>4. ~ written[c]
        BY <2>1, <3>2, <4>1 DEF RingInv
      <4> QED
        BY <1>4, <4>2, <4>3, <4>4 DEF Publish, FlagInv, TypeOK
    <3>3. ASSUME NEW k \in 1 .. sent + 1, sent + 2 <= k + MaxChunks
          PROVE  Holds(marks, k)'
      <4>1. CASE k = sent + 1
        BY <2>1, <2>3, <4>1
      <4>2. CASE k # sent + 1
        BY <2>1, <2>4, <3>3, <4>2
      <4> QED
        BY <4>1, <4>2
    <3>4. ASSUME NEW k \in 1 .. sent + 1, sent + 2 = k + MaxChunks
          PROVE  written'[widx']
      <4>1. widx' = Slot(k)
        BY <2>1, <3>4, SlotFacts
      <4> QED
        <5>1. Holds(marks, k)'
          BY <2>1, <3>3, <3>4
        <5> QED
          BY <4>1, <5>1 DEF Holds, Slot
    <3> QED
      BY <2>1, <3>1, <3>2, <3>3, <3>4 DEF RingInv
  <2>6. WritingInv'
    BY <1>4 DEF Publish, WritingInv
  <2>7. ASSUME NEW r \in Readers
        PROVE  PlaceInv(marks, r)'
    <3>1. PlaceInv(marks, r) /\ marks[r] \in Nat
      BY <2>1
    <3>2. marks[r] <= sent' /\ sent' <= marks[r] + MaxChunks /\ (marks[r] < sent => marks[r] < sent')
      BY <2>1, <2>2
    <3> QED
      BY <1>4, <3>1, <3>2 DEF Publish, PlaceInv, Overflowing, Slot
  <2>8. ASSUME NEW r \in Readers
        PROVE  SocketInv(r)'
    <3>1. Len(received[r]) \in Nat /\ Len(received[r]) <= sent
      BY <2>1, <2>2, ReceivedBound
    <3>2. /\ UNCHANGED <<socket, received, env>> /\ wpc = "publish"
          /\ wpc' = IF sent + 1 \in Overflowing THEN "send" ELSE "notify"
      BY <1>4 DEF Publish, Overflows
    <3>3. \A i \in 1 .. Len(socket[r]) : socket[r][i] <= sent /\ socket[r][i] \in Nat
      <4>1. socket[r] \in Seq(1 .. MaxMessages) /\ SocketInv(r)
        BY DEF FlagInv, TypeOK
      <4>2. \A i \in 1 .. Len(socket[r]) : socket[r][i] \in 1 .. MaxMessages
        BY <4>1, ElementOfSeq
      <4> QED
        BY <4>1, <4>2 DEF SocketInv
    <3>4. \A k \in Overflowing : k \in Nat
      BY EnvironmentType DEF FlagInv, SentInv, Overflowing
    <3>5. SocketInv(r)
      OBVIOUS
    <3>6. \A i \in 1 .. Len(socket[r]) : socket[r][i] <= sent' /\ socket[r][i] # sent'
      BY <2>1, <3>3
    <3>7. ASSUME NEW k \in Overflowing, k <= sent', k = sent' => wpc' \notin {"send", "dead"}
          PROVE  k <= sent /\ (k = sent => wpc \notin {"send", "dead"})
      BY <2>1, <3>2, <3>4, <3>7
    <3> QED
      BY <2>1, <3>1, <3>2, <3>5, <3>6, <3>7 DEF SocketInv, Overflowing
  <2> QED
    BY <2>5, <2>6, <2>7, <2>8
\* The message that did not fit goes to every socket, behind the earlier ones.
<1>5. CASE SendOverflow
  <2>1. /\ UNCHANGED <<env, ring, widx, next, read_count, sent, readerVars>>
        /\ wpc = "send" /\ wpc' = "notify" /\ sent \in 1 .. MaxMessages
    BY <1>5 DEF SendOverflow, FlagInv, TypeOK, SentInv
  <2>2. RingInv(marks)'
    BY <2>1 DEF RingInv, Holds, Overflowing
  <2>3. WritingInv'
    BY <2>1 DEF WritingInv
  <2>4. ASSUME NEW r \in Readers
        PROVE  PlaceInv(marks, r)'
    BY <2>1 DEF PlaceInv, Overflowing
  <2>5. ASSUME NEW r \in Readers
        PROVE  SocketInv(r)'
    <3> DEFINE q == socket[r]
    <3>1. socket'[r] = Append(q, sent) /\ q \in Seq(1 .. MaxMessages)
      BY <1>5 DEF SendOverflow, FlagInv, TypeOK
    <3>2. /\ Len(socket'[r]) = Len(q) + 1 /\ Len(q) \in Nat
          /\ \A i \in 1 .. Len(q) : socket'[r][i] = q[i] /\ q[i] \in Nat
          /\ socket'[r][Len(q) + 1] = sent
      <4> HIDE DEF q
      <4>1. \A i \in 1 .. Len(q) : q[i] \in 1 .. MaxMessages
        BY <3>1, ElementOfSeq
      <4> QED
        BY <2>1, <3>1, <4>1, AppendProperties
    <3>3. \A i \in 1 .. Len(socket'[r]) : i \in 1 .. Len(q) \/ i = Len(q) + 1
      BY <3>2
    <3>4. \A i \in 1 .. Len(q) : q[i] < sent
      BY <2>1, <3>2 DEF SocketInv
    <3>5. \A i, j \in 1 .. Len(socket'[r]) : i < j => socket'[r][i] < socket'[r][j]
      BY <3>2, <3>3, <3>4 DEF SocketInv
    <3>6. \A i \in 1 .. Len(socket'[r]) :
            /\ socket'[r][i] \in Overflowing
            /\ Len(received[r]) < socket'[r][i] /\ socket'[r][i] <= sent
      <4>1. SocketInv(r)
        OBVIOUS
      <4>2. ASSUME NEW i \in 1 .. Len(q)
            PROVE  q[i] \in Overflowing /\ Len(received[r]) < q[i] /\ q[i] <= sent
        BY <4>1 DEF SocketInv
      <4>3. sent \in Overflowing /\ Len(received[r]) < sent /\ sent <= sent
        BY <2>1, <4>1 DEF SocketInv
      <4> QED
        BY <3>2, <3>3, <4>2, <4>3
    <3>7. ASSUME NEW k \in Overflowing, Len(received[r]) < k, k <= sent
          PROVE  \E i \in 1 .. Len(socket'[r]) : socket'[r][i] = k
      <4>1. CASE k = sent
        BY <3>2, <4>1
      <4>2. CASE k # sent
        <5>1. PICK i \in 1 .. Len(q) : q[i] = k
          BY <3>7, <4>2 DEF SocketInv
        <5> QED
          BY <3>2, <5>1
      <4> QED
        BY <4>1, <4>2
    <3> QED
      BY <2>1, <3>5, <3>6, <3>7 DEF SocketInv, Overflowing
  <2> QED
    BY <2>2, <2>3, <2>4, <2>5
<1> QED
  BY <1>1, <1>2, <1>3, <1>4, <1>5 DEF WriterStep

\* A reader that finds its chunk published and unmarked is behind the writer.
LEMMA BehindWriter ==
  ASSUME FlagInv, NEW marks \in [Readers -> Nat], PositionInv(marks),
         NEW r \in Readers, rpc[r] = "written_flag", CanRead(r)
  PROVE  marks[r] < sent
<1> SUFFICES ASSUME marks[r] >= sent
             PROVE  FALSE
  BY BroadcastAssumption DEF FlagInv, TypeOK
<1>1. /\ sent \in Nat /\ marks[r] = sent /\ widx = Slot(sent + 1) /\ ridx[r] = widx
      /\ MaxChunks \in Nat \ {0}
  <2>1. sent \in Nat /\ marks[r] \in Nat /\ PlaceInv(marks, r)
    BY BroadcastAssumption DEF FlagInv, TypeOK, PositionInv
  <2>2. marks[r] = sent
    BY <2>1 DEF PlaceInv
  <2> QED
    BY <2>1, <2>2, BroadcastAssumption DEF PlaceInv, PositionInv, RingInv
<1>2. written[widx] /\ ~ read[widx][r]
  BY <1>1 DEF CanRead, FlagInv, ReaderInv
<1>3. CASE sent < MaxChunks
  <2>1. widx = sent /\ sent \in Chunks
    BY <1>1, <1>3, SlotFacts DEF Chunks
  <2> QED
    BY <1>1, <1>2, <2>1 DEF PositionInv, RingInv
<1>4. CASE sent >= MaxChunks
  <2>1. sent + 1 - MaxChunks \in 1 .. sent
    BY <1>1, <1>4
  <2>2. Holds(marks, sent + 1 - MaxChunks) /\ Slot(sent + 1 - MaxChunks) = widx
    BY <1>1, <1>2, <2>1, WindowSlots DEF PositionInv, RingInv
  <2> QED
    BY <1>1, <1>2, <2>2 DEF Holds
<1> QED
  BY <1>1, <1>3, <1>4

\* A reader that waits for the socket finds the message it is at there, or nothing.
LEMMA OldestIsNext ==
  ASSUME FlagInv, NEW marks \in [Readers -> Nat], PositionInv(marks),
         NEW r \in Readers, rpc[r] = "recv", socket[r] # << >>
  PROVE  Head(socket[r]) = Len(received[r]) + 1
<1> DEFINE q == socket[r]
           n == Len(received[r]) + 1
<1>1. /\ sent \in Nat /\ n \in Nat /\ q \in Seq(1 .. MaxMessages) /\ SocketInv(r)
      /\ n = marks[r] /\ n \in Overflowing /\ n <= sent
  <2>1. PlaceInv(marks, r) /\ SocketInv(r) /\ marks[r] \in Nat
    BY DEF PositionInv
  <2>2. sent \in Nat /\ n \in Nat /\ q \in Seq(1 .. MaxMessages)
    BY BroadcastAssumption DEF FlagInv, TypeOK
  <2> QED
    BY <2>1, <2>2 DEF PlaceInv
<1>2. Len(q) \in Nat \ {0} /\ Head(q) = q[1] /\ 1 \in 1 .. Len(q)
  BY <1>1, EmptySeq
<1>3. q[1] \in 1 .. MaxMessages /\ n <= q[1] /\ q[1] <= sent
  <2>1. q[1] \in 1 .. MaxMessages
    BY <1>1, <1>2, ElementOfSeq
  <2> QED
    BY <1>1, <1>2, <2>1 DEF SocketInv
<1>4. q[1] <= n
  <2>1. CASE n = sent
    BY <1>3, <2>1
  <2>2. CASE n # sent
    <3>1. \A k \in Overflowing :
            Len(received[r]) < k /\ k <= sent /\ k # sent => \E i \in 1 .. Len(q) : q[i] = k
      BY <1>1 DEF SocketInv
    <3>2. Len(received[r]) < n
      BY <1>1
    <3>3. PICK i \in 1 .. Len(q) : q[i] = n
      <4> HIDE DEF q, n
      <4> QED
        BY <1>1, <2>2, <3>1, <3>2
    <3> QED
      BY <1>1, <1>2, <1>3, <3>3 DEF SocketInv
  <2> QED
    BY <2>1, <2>2
<1> QED
  BY <1>1, <1>2, <1>3, <1>4

\* Every step of a reader but MarkRead keeps the positions.
LEMMA PositionReader ==
  ASSUME FlagInv, NoRetriedOverflow, NEW marks \in [Readers -> Nat], PositionInv(marks),
         NEW r \in Readers,
         \/ LoadReadFlag(r) \/ LoadWrittenFlag(r) \/ Wait(r) \/ ReadHead(r) \/ ReadBody(r)
         \/ RecvOverflow(r) \/ RecvTimeout(r) \/ CallDequeue(r) \/ shutdown(r) \/ cancel(r)
  PROVE  PositionInv(marks)'
<1> DEFINE Quiet(s) == /\ rpc'[s] = rpc[s] /\ head'[s] = head[s] /\ received'[s] = received[s]
                       /\ socket'[s] = socket[s]
<1>1. /\ UNCHANGED <<env, ring, writerVars, ridx>>
      /\ \A s \in Readers \ {r} : Quiet(s)
  BY DEF ring, writerVars, readerVars, LoadReadFlag, LoadWrittenFlag, Wait, ReadHead, ReadBody,
         RecvOverflow, RecvTimeout, CallDequeue, shutdown, cancel, Goto, FlagInv, TypeOK
<1>2. RingInv(marks)' /\ WritingInv'
  BY <1>1 DEF PositionInv, RingInv, WritingInv, Holds, Overflowing, Overflows, Slot, ring, writerVars
<1>3. ASSUME NEW s \in Readers, Quiet(s)
      PROVE  PlaceInv(marks, s)' /\ SocketInv(s)'
  <2>1. PlaceInv(marks, s) /\ SocketInv(s) /\ UNCHANGED <<env, ridx, sent, wpc>>
    BY <1>1 DEF PositionInv, writerVars
  <2>2. PlaceInv(marks, s)'
    BY <1>3, <2>1 DEF PlaceInv, Overflowing, Slot
  <2>3. SocketInv(s)'
    BY <1>3, <2>1 DEF SocketInv, Overflowing
  <2> QED
    BY <2>2, <2>3
<1>4. /\ sent \in Nat /\ marks[r] \in Nat /\ Len(received[r]) \in Nat /\ PlaceInv(marks, r)
      /\ SocketInv(r)
  BY BroadcastAssumption DEF FlagInv, TypeOK, PositionInv
<1>5. PlaceInv(marks, r)' /\ SocketInv(r)'
  <2> USE DEF writerVars
  <2>1. CASE LoadReadFlag(r) \/ Wait(r) \/ CallDequeue(r) \/ shutdown(r) \/ cancel(r)
    <3>1. /\ UNCHANGED <<head, received, socket>>
          /\ \/ rpc'[r] = rpc[r]
             \/ /\ rpc[r] \notin {"mark", "recv", "raised"}
                /\ rpc'[r] \in {"written_flag", "read_flag", "raised"}
      BY <2>1 DEF LoadReadFlag, Wait, CallDequeue, shutdown, cancel, Goto, readerVars, FlagInv,
                  TypeOK
    <3>2. SocketInv(r)'
      BY <1>1, <1>4, <3>1 DEF SocketInv, Overflowing
    <3>3. PlaceInv(marks, r)'
      BY <1>1, <1>4, <3>1 DEF PlaceInv, Overflowing, Slot, Reading
    <3> QED
      BY <3>2, <3>3
  <2>2. CASE LoadWrittenFlag(r)
    <3>1. CASE CanRead(r)
      <4>1. marks[r] < sent
        BY <2>2, <3>1, BehindWriter DEF LoadWrittenFlag, Goto
      <4> QED
        BY <1>1, <1>4, <2>2, <3>1, <4>1 DEF LoadWrittenFlag, Goto, PlaceInv, SocketInv,
           Overflowing, Slot, FlagInv, TypeOK, Reading
    <3>2. CASE ~ CanRead(r)
      BY <1>1, <1>4, <2>2, <3>2 DEF LoadWrittenFlag, Goto, PlaceInv, SocketInv,
         Overflowing, Slot, FlagInv, TypeOK, Reading
    <3> QED
      BY <3>1, <3>2
  <2>3. CASE ReadHead(r)
    <3>1. /\ ridx[r] = Slot(marks[r] + 1)
          /\ chunk[ridx[r]].overflow <=> marks[r] + 1 \in Overflowing
      BY <1>4, <2>3, ReadingHolds DEF ReadHead, Goto, Reading, PlaceInv, Holds
    <3>2. SocketInv(r)'
      BY <1>1, <1>4, <2>3 DEF ReadHead, SocketInv, Overflowing
    <3>3. PlaceInv(marks, r)'
      BY <1>1, <1>4, <2>3, <3>1 DEF ReadHead, Goto, PlaceInv, Overflowing, Slot, FlagInv, TypeOK,
         Reading
    <3> QED
      BY <3>2, <3>3
  \* The body is message marks[r] + 1, which is not one of the socket's.
  <2>4. CASE ReadBody(r)
    <3>1. /\ Len(received[r]) = marks[r] /\ marks[r] + 1 \notin Overflowing /\ marks[r] < sent
          /\ rpc[r] = "body"
      BY <1>4, <2>4 DEF ReadBody, Goto, PlaceInv, Reading
    <3>2. /\ UNCHANGED <<head, socket>> /\ rpc'[r] = "mark" /\ received[r] \in Seq(0 .. MaxMessages)
          /\ received'[r] = Append(received[r], chunk[ridx[r]].body)
      BY <2>4 DEF ReadBody, Goto, FlagInv, TypeOK
    <3>3. Len(received'[r]) = marks[r] + 1
      BY <3>1, <3>2
    <3>4. SocketInv(r)'
      <4>1. \A k \in Overflowing : k \in Nat
        BY EnvironmentType DEF FlagInv, SentInv, Overflowing
      <4>2. \A k \in Overflowing : Len(received[r]) < k <=> Len(received'[r]) < k
        BY <1>4, <3>1, <3>3, <4>1
      <4>3. wpc = "send" => Len(received'[r]) < sent
        BY <1>4, <3>1, <3>3, <4>2 DEF SocketInv
      <4> QED
        BY <1>1, <1>4, <3>2, <4>2, <4>3 DEF SocketInv, Overflowing
    <3>5. PlaceInv(marks, r)'
      BY <1>1, <1>4, <3>1, <3>2, <3>3 DEF PlaceInv, Overflowing, Slot, Reading
    <3> QED
      BY <3>4, <3>5
  \* A message is only given up by a caller that leaves the queue.
  <2>5. CASE RecvTimeout(r)
    <3>1. rpc[r] = "recv" /\ marks[r] \in Overflowing
      BY <1>4, <2>5 DEF RecvTimeout, Goto, PlaceInv
    <3>2. ~ Retried
      BY <3>1 DEF Retried, Overflowing, NoRetriedOverflow, FlagInv, SentInv
    <3>3. UNCHANGED <<head, received, socket>> /\ rpc'[r] = "raised"
      BY <2>5, <3>2 DEF RecvTimeout, Goto, FlagInv, TypeOK
    <3>4. SocketInv(r)'
      BY <1>1, <1>4, <3>3 DEF SocketInv, Overflowing
    <3>5. PlaceInv(marks, r)'
      BY <1>1, <1>4, <3>1, <3>3 DEF PlaceInv, Overflowing, Slot, Reading
    <3> QED
      BY <3>4, <3>5
  <2>6. CASE RecvOverflow(r)
    <3> DEFINE q == socket[r]
    <3>1. /\ UNCHANGED head /\ rpc[r] = "recv" /\ rpc'[r] = "use"
          /\ q \in Seq(1 .. MaxMessages) /\ q # << >> /\ socket'[r] = Tail(q)
          /\ received[r] \in Seq(0 .. MaxMessages) /\ received'[r] = Append(received[r], Head(q))
      BY <2>6 DEF RecvOverflow, Goto, FlagInv, TypeOK
    <3>2. Head(q) = Len(received[r]) + 1
      BY <1>4, <3>1, OldestIsNext
    <3>3. Len(received'[r]) = marks[r] /\ Len(received[r]) + 1 = marks[r]
      BY <1>4, <3>1 DEF PlaceInv
    <3>4. SocketInv(r)'
      <4> HIDE DEF q
      <4>1. /\ Len(q) \in Nat \ {0} /\ Len(Tail(q)) = Len(q) - 1 /\ q[1] = marks[r]
            /\ \A i \in 1 .. Len(Tail(q)) : Tail(q)[i] = q[i + 1] /\ i + 1 \in 1 .. Len(q)
            /\ \A i \in 1 .. Len(q) : q[i] \in 1 .. MaxMessages
        <5>1. /\ Len(q) \in Nat \ {0} /\ Len(Tail(q)) = Len(q) - 1
              /\ \A i \in 1 .. Len(Tail(q)) : Tail(q)[i] = q[i + 1]
          BY <3>1, HeadTailProperties, EmptySeq
        <5>2. \A i \in 1 .. Len(q) : q[i] \in 1 .. MaxMessages
          BY <3>1, ElementOfSeq
        <5>3. q[1] = marks[r]
          BY <3>1, <3>2, <3>3
        <5> QED
          BY <5>1, <5>2, <5>3
      <4>2. \A k \in Overflowing : k \in Nat
        BY EnvironmentType DEF FlagInv, SentInv, Overflowing
      <4>3. \A i, j \in 1 .. Len(Tail(q)) : i < j => Tail(q)[i] < Tail(q)[j]
        BY <1>4, <4>1 DEF SocketInv, q
      <4>4. \A i \in 1 .. Len(Tail(q)) :
              /\ Tail(q)[i] \in Overflowing
              /\ marks[r] < Tail(q)[i] /\ Tail(q)[i] <= sent
              /\ wpc = "send" => Tail(q)[i] # sent
        BY <1>4, <4>1 DEF SocketInv, q
      <4>5. ASSUME NEW k \in Overflowing, marks[r] < k, k <= sent, k = sent => wpc \notin {"send", "dead"}
            PROVE  \E i \in 1 .. Len(Tail(q)) : Tail(q)[i] = k
        <5>1. PICK i \in 1 .. Len(q) : q[i] = k
          BY <1>4, <3>3, <4>2, <4>5 DEF SocketInv, q
        <5>2. i # 1 /\ i - 1 \in 1 .. Len(Tail(q)) /\ i - 1 + 1 = i
          BY <1>4, <4>1, <4>2, <4>5, <5>1
        <5> QED
          BY <4>1, <5>1, <5>2
      <4>6. wpc = "send" => sent \in Overflowing /\ marks[r] < sent
        BY <1>4, <3>3, <4>1 DEF SocketInv, q
      <4> QED
        BY <1>1, <3>1, <3>3, <4>3, <4>4, <4>5, <4>6 DEF SocketInv, Overflowing
    <3>5. PlaceInv(marks, r)'
      BY <1>1, <1>4, <3>1, <3>3 DEF PlaceInv, Overflowing, Slot, Reading
    <3> QED
      BY <3>4, <3>5
  <2> QED
    BY <2>1, <2>2, <2>3, <2>4, <2>5, <2>6
<1> QED
  BY <1>1, <1>2, <1>3, <1>5 DEF PositionInv

\* MarkRead moves its reader by one message.
LEMMA PositionMark ==
  ASSUME FlagInv, NEW marks \in [Readers -> Nat], PositionInv(marks),
         NEW r \in Readers, MarkRead(r), NEW after, after = [marks EXCEPT ![r] = @ + 1]
  PROVE  after \in [Readers -> Nat] /\ PositionInv(after)'
<1> DEFINE n == marks[r] + 1
<1>1. /\ UNCHANGED <<env, written, chunk, writerVars, head, received, socket>>
      /\ rpc[r] = "mark" /\ rpc' = [rpc EXCEPT ![r] = IF head[r] THEN "recv" ELSE "use"]
      /\ read' = [read EXCEPT ![ridx[r]][r] = TRUE]
      /\ ridx' = [ridx EXCEPT ![r] = Following(ridx[r])]
  BY DEF MarkRead, Goto
<1>2. /\ sent \in Nat /\ n \in Nat \ {0} /\ n <= sent /\ sent + 1 <= n + MaxChunks
      /\ ridx[r] = Slot(n) /\ MaxChunks \in Nat \ {0} /\ PlaceInv(marks, r) /\ marks[r] \in Nat
  <2>1. PlaceInv(marks, r) /\ marks[r] \in Nat /\ sent \in Nat
    BY BroadcastAssumption DEF FlagInv, TypeOK, PositionInv
  <2> QED
    BY <1>1, <2>1, BroadcastAssumption DEF PlaceInv, Reading
<1>3. after \in [Readers -> Nat] /\ after[r] = n /\ \A s \in Readers \ {r} : after[s] = marks[s]
  BY <1>2
<1> HIDE DEF n
<1>4. ASSUME NEW k \in 1 .. sent, sent + 1 <= k + MaxChunks, Holds(marks, k)
      PROVE  Holds(after, k)'
  <2>1. Slot(k) \in Chunks /\ (k # n => Slot(k) # Slot(n))
    BY <1>2, <1>4, SlotFacts
  <2>2. ASSUME NEW s \in Readers
        PROVE  read'[Slot(k)][s] <=> after[s] >= k
    <3>1. read[Slot(k)][s] <=> marks[s] >= k
      BY <1>4 DEF Holds
    <3>2. CASE s # r
      BY <1>1, <1>3, <2>1, <3>1, <3>2 DEF FlagInv, TypeOK
    <3>3. CASE s = r /\ k = n
      BY <1>1, <1>2, <1>3, <2>1, <3>3 DEF FlagInv, TypeOK
    <3>4. CASE s = r /\ k # n
      <4>1. read'[Slot(k)][s] <=> read[Slot(k)][s]
        BY <1>1, <1>2, <2>1, <3>4 DEF FlagInv, TypeOK
      <4>2. after[s] >= k <=> marks[s] >= k
        BY <1>2, <1>3, <3>4 DEF n
      <4> QED
        BY <3>1, <4>1, <4>2
    <3> QED
      BY <3>2, <3>3, <3>4
  <2> QED
    BY <1>1, <1>4, <2>2 DEF Holds, Overflowing, Slot
<1>5. RingInv(after)'
  <2>1. \A s \in Readers : after[s] >= marks[s]
    BY <1>2, <1>3 DEF n
  <2>2. RingInv(marks)
    BY DEF PositionInv
  <2>3. ASSUME NEW k \in 1 .. sent, sent + 1 = k + MaxChunks, ~ written[widx]
        PROVE  \A s \in Readers : after[s] >= k
    BY <1>2, <1>3, <2>1, <2>2, <2>3 DEF RingInv
  <2>4. UNCHANGED <<widx, sent, written>>
    BY <1>1 DEF writerVars
  <2>5. ASSUME NEW k \in 1 .. sent, sent + 1 < k + MaxChunks
        PROVE  Holds(after, k)'
    <3>1. Holds(marks, k) /\ sent + 1 <= k + MaxChunks
      BY <1>2, <2>2, <2>5 DEF RingInv
    <3> QED
      BY <1>4, <3>1
  <2>6. ASSUME NEW k \in 1 .. sent, sent + 1 = k + MaxChunks, written[widx]
        PROVE  Holds(after, k)'
    <3>1. Holds(marks, k) /\ sent + 1 <= k + MaxChunks
      BY <1>2, <2>2, <2>6 DEF RingInv
    <3> QED
      BY <1>4, <3>1
  <2> QED
    BY <2>2, <2>3, <2>4, <2>5, <2>6 DEF RingInv, Slot
<1>6. WritingInv'
  <2>1. wpc \in Writing => ridx[r] # widx
    BY <1>1 DEF FlagInv, CountInv, ReaderInv, Reading
  <2>2. wpc \in Writing => read'[widx] = read[widx]
    BY <1>1, <2>1 DEF FlagInv, TypeOK
  <2> QED
    BY <1>1, <2>2 DEF PositionInv, WritingInv, Writing, writerVars, Overflows, Overflowing
<1>7. ASSUME NEW s \in Readers
      PROVE  PlaceInv(after, s)'
  <2>1. CASE s = r
    <3>1. ridx'[r] = Slot(n + 1)
      BY <1>1, <1>2, SlotFacts DEF FlagInv, TypeOK
    <3>2. /\ rpc'[r] = IF head[r] THEN "recv" ELSE "use"
          /\ head[r] <=> n \in Overflowing
          /\ IF head[r] THEN Len(received[r]) + 1 = n ELSE Len(received[r]) = n
      BY <1>1, <1>2 DEF FlagInv, TypeOK, PlaceInv, n
    <3>3. UNCHANGED <<env, sent, received, head>> /\ n <= sent /\ sent <= n + MaxChunks
      BY <1>1, <1>2 DEF writerVars
    <3>4. CASE head[r]
      BY <1>3, <2>1, <3>1, <3>2, <3>3, <3>4 DEF PlaceInv, Overflowing, Slot, Reading
    <3>5. CASE ~ head[r]
      BY <1>3, <2>1, <3>1, <3>2, <3>3, <3>5 DEF PlaceInv, Overflowing, Slot, Reading
    <3> QED
      BY <3>4, <3>5
  <2>2. CASE s # r
    <3>1. PlaceInv(marks, s)
      BY DEF PositionInv
    <3> QED
      BY <1>1, <1>3, <2>2, <3>1 DEF PlaceInv, Overflowing, Slot, writerVars, FlagInv, TypeOK
  <2> QED
    BY <2>1, <2>2
<1>8. ASSUME NEW s \in Readers
      PROVE  SocketInv(s)'
  BY <1>1 DEF PositionInv, SocketInv, Overflowing, writerVars
<1> QED
  BY <1>3, <1>5, <1>6, <1>7, <1>8 DEF PositionInv
-----------------------------------------------------------------------------
Implements == FlagInv /\ \E marks \in [Readers -> Nat] : PositionInv(marks)

\* There is a position for every reader after every step.
LEMMA PositionStep ==
  ASSUME NoRetriedOverflow, Implements, [Next]_vars
  PROVE  Implements'
<1>1. FlagInv'
  BY FlagInvStep DEF Implements
<1>2. PICK marks \in [Readers -> Nat] : PositionInv(marks)
  BY DEF Implements
<1>3. CASE \E r \in Readers : MarkRead(r)
  <2>1. PICK r \in Readers : MarkRead(r)
    BY <1>3
  <2>2. PICK after : after = [marks EXCEPT ![r] = @ + 1]
    OBVIOUS
  <2>3. after \in [Readers -> Nat] /\ PositionInv(after)'
    BY <1>2, <2>1, <2>2, PositionMark DEF Implements
  <2> QED
    BY <1>1, <2>3 DEF Implements
<1>4. CASE ~ \E r \in Readers : MarkRead(r)
  <2>1. CASE UNCHANGED vars
    <3>1. PositionInv(marks)'
      BY <1>2, <2>1 DEF vars, ring, writerVars, readerVars, PositionInv, RingInv, WritingInv, Holds,
         PlaceInv, SocketInv, Overflowing, Overflows, Slot
    <3> QED
      BY <1>1, <3>1 DEF Implements
  <2>2. CASE Next
    <3>1. PositionInv(marks)'
      BY <1>2, <1>4, <2>2, PositionWriter, PositionReader DEF Next, ReaderStep, Implements
    <3> QED
      BY <1>1, <3>1 DEF Implements
  <2> QED
    BY <2>1, <2>2
<1> QED
  BY <1>3, <1>4

\* Every step is a step of Broadcast: Publish sends, the copy of a body or the
\* receipt from the socket receives, and all the others stutter.
LEMMA RefinementStep ==
  ASSUME Implements, [Next]_vars
  PROVE  [Queue!Next]_<<sent, received>>
<1> USE DEF Implements
<1>1. PICK marks \in [Readers -> Nat] : PositionInv(marks)
  OBVIOUS
<1>2. CASE Publish
  <2>1. ASSUME NEW r \in Readers
        PROVE  sent <= Len(received[r]) + MaxChunks
    <3>1. sent \in Nat /\ marks[r] \in Nat /\ MaxChunks \in Nat \ {0} /\ PlaceInv(marks, r)
      BY <1>1, BroadcastAssumption DEF FlagInv, TypeOK, PositionInv
    <3>2. Len(received[r]) \in Nat /\ marks[r] <= Len(received[r]) + 1
      BY <1>1, ReceivedBound
    <3>3. ~ written[widx]
      BY <1>2 DEF Publish, FlagInv, CountInv, Writing
    <3>4. CASE sent < MaxChunks
      BY <3>1, <3>2, <3>4
    <3>5. CASE sent >= MaxChunks
      <4>1. sent + 1 - MaxChunks \in 1 .. sent
        BY <3>1, <3>5
      <4>2. marks[r] >= sent + 1 - MaxChunks
        BY <1>1, <3>1, <3>3, <4>1 DEF PositionInv, RingInv
      <4> QED
        BY <3>1, <3>2, <4>2
    <3> QED
      BY <3>1, <3>4, <3>5
  <2> QED
    BY <1>2, <2>1 DEF Publish, readerVars, Queue!Next, Queue!Send
<1>3. ASSUME NEW r \in Readers, ReadBody(r)
      PROVE  Queue!Receive(r)
  <2>1. /\ PlaceInv(marks, r) /\ Holds(marks, marks[r] + 1)
        /\ rpc[r] = "body" /\ sent \in Nat /\ marks[r] \in Nat
    <3>1. rpc[r] = "body" /\ rpc[r] \in Reading /\ sent \in Nat /\ marks[r] \in Nat
      BY <1>3, BroadcastAssumption DEF ReadBody, Goto, Reading, FlagInv, TypeOK
    <3>2. Holds(marks, marks[r] + 1)
      BY <1>1, <3>1, ReadingHolds
    <3> QED
      BY <1>1, <3>1, <3>2 DEF PositionInv
  <2>2. /\ Len(received[r]) = marks[r] /\ marks[r] < sent
        /\ chunk[ridx[r]].body = marks[r] + 1
    BY <2>1 DEF PlaceInv, Holds, Reading
  <2> QED
    BY <1>3, <2>1, <2>2 DEF ReadBody, writerVars, Queue!Receive, FlagInv, TypeOK
<1>4. ASSUME NEW r \in Readers, RecvOverflow(r)
      PROVE  Queue!Receive(r)
  <2>1. /\ PlaceInv(marks, r) /\ rpc[r] = "recv" /\ sent \in Nat /\ marks[r] \in Nat
        /\ Len(received[r]) \in Nat
    BY <1>1, <1>4, BroadcastAssumption DEF RecvOverflow, Goto, PositionInv, FlagInv, TypeOK
  <2>2. Head(socket[r]) = Len(received[r]) + 1
    BY <1>1, <1>4, OldestIsNext DEF RecvOverflow, Goto
  <2>3. Len(received[r]) < sent
    BY <2>1 DEF PlaceInv
  <2> QED
    BY <1>4, <2>2, <2>3 DEF RecvOverflow, writerVars, Queue!Receive, FlagInv, TypeOK
<1>5. CASE /\ ~ Publish
           /\ ~ \E r \in Readers : ReadBody(r) \/ RecvOverflow(r)
  BY <1>5 DEF Next, WriterStep, ReaderStep, vars, writerVars, readerVars,
     Enqueue, CountFlag, CheckWritten, Claim, WriteHead, WriteBody, ResetFlag, SendOverflow,
     Notify, WriterDies, LoadReadFlag, LoadWrittenFlag, Wait, ReadHead, MarkRead, RecvTimeout,
     CallDequeue, shutdown, cancel
<1> QED
  BY <1>2, <1>3, <1>4, <1>5 DEF Queue!Next

(***************************************************************************)
(* RingImplementsBroadcast: the flags of the ring implement the reliable   *)
(* broadcast that the executor relies on, with any number of readers and   *)
(* chunks, crashes, shutdowns and timeouts included, when no caller goes   *)
(* on after the timeout of a message that went through the socket.         *)
(***************************************************************************)
THEOREM RingImplementsBroadcast == NoRetriedOverflow => (Spec => BroadcastSpec)
<1> SUFFICES ASSUME NoRetriedOverflow
             PROVE  Spec => BroadcastSpec
  OBVIOUS
<1>1. Init => Implements
  <2> SUFFICES ASSUME Init
               PROVE  Implements
    OBVIOUS
  <2>1. [r \in Readers |-> 0] \in [Readers -> Nat]
    OBVIOUS
  <2> QED
    BY <2>1, FlagInvInit, PositionInit DEF Implements
<1>2. Init => Queue!Init
  BY DEF Init, Queue!Init
<1>3. Implements /\ [Next]_vars => Implements'
  BY PositionStep
<1>4. Implements /\ [Next]_vars => [Queue!Next]_<<sent, received>>
  BY RefinementStep
<1> QED
  BY <1>1, <1>2, <1>3, <1>4, PTL DEF Spec, BroadcastSpec, Queue!Spec
=============================================================================
