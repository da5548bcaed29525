---------------------- MODULE MultiprocExecutorProofs ----------------------
(***************************************************************************)
(* Proofs about MultiprocExecutor, for every number of workers, every      *)
(* depth of the batch queue and every set of environments: each call gets  *)
(* its own answers, all of them, and a step never uses another's output.   *)
(***************************************************************************)
EXTENDS MultiprocExecutor, SequenceTheorems, TLAPS

\* Queues are closed only by an executor that has failed or an engine that has died.
FailureInv ==
  /\ shutting_down => is_failed \/ epc = "dead"
  /\ closed => shutting_down /\ \A w \in Ranks : ~ alive[w]

\* The calls made, and where the engine core's thread is with the last of them.
CallInv ==
  /\ Len(calls) <= MaxCalls
  /\ \A c \in Calls : /\ c > Len(calls) => future[c] = "none"
                      /\ c < Len(calls) => future[c] # "none"
                      /\ c = Len(calls) /\ epc \notin {"enqueued", "dead"} => future[c] # "none"
                      /\ future[c] = "none" => answers[c] = << >>
  /\ epc = "enqueued" => Len(calls) >= 1 /\ future[Len(calls)] = "none"
  /\ current # 0 => epc = "wait"
  /\ \A i \in 1 .. Len(batch_queue) : batch_queue[i] <= Len(calls)
  /\ epc = "wait" => /\ waited \in 1 .. Len(calls)
                     /\ kind_of(waited) = "utility" \/ batch_queue # << >>

\* The futures that wait, oldest first, behind the one that is being drained.
QueuedInv ==
  /\ \A i, j \in 1 .. Len(futures_queue) : i < j => futures_queue[i] < futures_queue[j]
  /\ \A i \in 1 .. Len(futures_queue) :
       future[futures_queue[i]] = "pending" /\ current < futures_queue[i]
  /\ current # 0 => future[current] = "pending"
  /\ \A c \in Calls : future[c] = "pending" =>
       c = current \/ \E i \in 1 .. Len(futures_queue) : futures_queue[i] = c

\* Which queues a call reads: that of the output rank, all of them in order, or, if
\* shutdown has emptied the list, none.  Then it is the last call.
TargetInv ==
  \A c \in Calls : future[c] # "none" =>
    /\ \/ targets[c] = IF UniqueReply(kind_of(c)) THEN <<output_rank>> ELSE AllRanks
       \/ targets[c] = << >> /\ closed /\ c = Len(calls) /\ ~ UniqueReply(kind_of(c))
    /\ Len(answers[c]) <= Len(targets[c])
    /\ future[c] = "done" => Len(answers[c]) = Len(targets[c])

\* An answer is read from the i-th queue when its worker has taken the call.
ReadInv ==
  \A c \in Calls :
    /\ \A i \in 1 .. Len(answers[c]) : GivenUpBefore(c) \/ taken[i] >= c
    /\ future[c] = "exception" =>
         GivenUp(c) \/ GivenUpBefore(c) \/ closed \/ taken[output_rank] >= c

\* Worker w's answer to call c has not been read.
Unread(w, c) == future[c] \in {"none", "pending"} /\ w > Len(answers[c])

\* An answer of worker w to call c may be in its queues: it is still to be read, or the
\* call is over without having read it.
MayBeQueued(w, c) ==
  \/ Unread(w, c)
  \/ GivenUp(c)
  \/ GivenUpBefore(c)
  \/ future[c] = "exception" /\ closed /\ response_mqs[w] = << >>
  \/ future[c] = "done" /\ targets[c] = << >>

Increasing(q) == \A i, j \in 1 .. Len(q) : i < j => q[i].call < q[j].call

Has(q, c) == \E i \in 1 .. Len(q) : q[i].call = c

\* An answer of worker w to call c is on its way.
InQueues(w, c) == Has(response_mqs[w], c) \/ Has(async_output_queue[w], c)

\* The answers of worker w are on their way in the order of their calls.
OrderInv(w) ==
  /\ taken[w] <= Len(calls)
  /\ Increasing(response_mqs[w]) /\ Increasing(async_output_queue[w])
  /\ \A c, d \in Calls : Has(response_mqs[w], c) /\ Has(async_output_queue[w], d) => c < d

\* They answer calls that w has taken, and none that is still to be read is missing.
AnswerInv(w) ==
  /\ OrderInv(w)
  /\ \A c \in Calls : InQueues(w, c) => c <= taken[w] /\ Answers(w, c) /\ MayBeQueued(w, c)
  /\ \A c \in Calls : c <= taken[w] /\ Answers(w, c) /\ Unread(w, c) => InQueues(w, c)

ExecutorInv ==
  /\ TypeOK /\ FailureInv /\ CallInv /\ QueuedInv /\ TargetInv /\ ReadInv
  /\ AnswersMatchCalls
  /\ \A w \in Ranks : AnswerInv(w)
-----------------------------------------------------------------------------
\* The steps that move no call and no answer.
Quiet ==
  /\ UNCHANGED <<env, calls, taken, async_output_queue, response_mqs, future, targets, answers,
                 futures_queue, current>>
  /\ closed => closed'

\* Every step is quiet, or one of those that move a call or an answer.
LEMMA StepCases ==
  ASSUME [Next]_vars
  PROVE  \/ Quiet
         \/ \E kind \in Kinds : epc # "dead" /\ Enqueue(kind)
         \/ MakeFuture \/ Drain \/ GetResponse \/ GetResponseRaises
         \/ \E w \in Ranks : Work(w) \/ EnqueueOutput(w)
<1> USE DEF Quiet, workerVars, futureVars, failureVars
<1>1. CASE UNCHANGED vars
  BY <1>1 DEF vars
<1>2. CASE ExecuteModel \/ SampleTokens \/ Utility
  BY <1>2 DEF ExecuteModel, SampleTokens, Utility, Raise, Kinds
<1>3. CASE RegisterCheck \/ RegisterStore \/ MakeFutureRaises \/ WaitForStep \/ Return
           \/ HandleExecutorFailed
  BY <1>3 DEF RegisterCheck, RegisterStore, MakeFutureRaises, WaitForStep, Wait, Return,
     HandleExecutorFailed
<1>4. CASE \E w \in Ranks : WorkerDies(w) \/ WorkerExits(w)
  BY <1>4 DEF WorkerDies, WorkerExits
<1>5. CASE MonitorWorkers \/ EngineShutdown \/ CloseQueues \/ CallBack
  BY <1>5 DEF MonitorWorkers, EngineShutdown, CloseQueues, CallBack
<1> QED
  BY <1>1, <1>2, <1>3, <1>4, <1>5 DEF Next, EngineStep

\* The types of what the invariant talks about.
LEMMA ExecutorTypes ==
  ASSUME TypeOK, CallInv
  PROVE  /\ NumWorkers \in Nat \ {0} /\ MaxCalls \in Nat /\ output_rank \in Ranks
         /\ calls \in Seq(Kinds) /\ Len(calls) \in 0 .. MaxCalls
         /\ \A c \in Calls : /\ c \in Nat /\ c >= 1 /\ targets[c] \in Seq(Ranks)
                             /\ answers[c] \in Seq(Response) /\ Len(answers[c]) \in Nat
         /\ \A w \in Ranks : /\ w \in Nat /\ w >= 1 /\ w <= NumWorkers /\ taken[w] \in 0 .. MaxCalls
                             /\ response_mqs[w] \in Seq(Response)
                             /\ async_output_queue[w] \in Seq(Response)
         /\ current \in 0 .. MaxCalls /\ waited \in 0 .. MaxCalls
         /\ current # 0 => current \in Calls
         /\ futures_queue \in Seq(Calls) /\ batch_queue \in Seq(Calls)
<1>1. NumWorkers \in Nat \ {0} /\ MaxCalls \in Nat /\ output_rank \in Ranks
  BY ExecutorAssumption DEF Ranks, output_rank
<1>2. calls \in Seq(Kinds) /\ Len(calls) \in 0 .. MaxCalls
  BY <1>1 DEF TypeOK, CallInv
<1>3. ASSUME NEW c \in Calls
      PROVE  /\ c \in Nat /\ c >= 1 /\ targets[c] \in Seq(Ranks)
             /\ answers[c] \in Seq(Response) /\ Len(answers[c]) \in Nat
  <2>1. c \in Nat /\ c >= 1
    BY <1>1 DEF Calls
  <2>2. targets[c] \in Seq(Ranks) /\ answers[c] \in Seq(Response)
    BY DEF TypeOK
  <2> QED
    BY <2>1, <2>2, LenProperties
<1>4. ASSUME NEW w \in Ranks
      PROVE  /\ w \in Nat /\ w >= 1 /\ w <= NumWorkers /\ taken[w] \in 0 .. MaxCalls
             /\ response_mqs[w] \in Seq(Response) /\ async_output_queue[w] \in Seq(Response)
  BY <1>1 DEF TypeOK, Ranks
<1>5. /\ current \in 0 .. MaxCalls /\ waited \in 0 .. MaxCalls
      /\ futures_queue \in Seq(Calls) /\ batch_queue \in Seq(Calls)
  BY DEF TypeOK
<1>6. current # 0 => current \in Calls
  BY <1>1, <1>5 DEF Calls
<1> QED
  BY <1>1, <1>2, <1>3, <1>4, <1>5, <1>6

\* The answers a queue holds are answers to calls.
LEMMA ResponseTypes ==
  ASSUME NEW q \in Seq(Response), NEW i \in 1 .. Len(q)
  PROVE  q[i] \in Response /\ q[i].call \in Calls
<1>1. q[i] \in Response
  BY ElementOfSeq
<1> QED
  BY <1>1 DEF Response

\* Initially there is no call.
LEMMA ExecutorInit == Init => ExecutorInv
<1> SUFFICES ASSUME Init
             PROVE  ExecutorInv
  OBVIOUS
<1>1. TypeOK
  <2>1. << >> \in Seq(Kinds) /\ << >> \in Seq(Calls) /\ << >> \in Seq(Response) /\ << >> \in Seq(Ranks)
    BY EmptySeq
  <2>2. env.registered \in BOOLEAN
    BY ExecutorAssumption DEF Init
  <2>3. 0 \in 0 .. MaxCalls
    BY ExecutorAssumption
  <2>4. /\ calls \in Seq(Kinds) /\ futures_queue \in Seq(Calls) /\ batch_queue \in Seq(Calls)
        /\ async_output_queue \in [Ranks -> Seq(Response)]
        /\ response_mqs \in [Ranks -> Seq(Response)]
        /\ targets \in [Calls -> Seq(Ranks)] /\ answers \in [Calls -> Seq(Response)]
    BY <2>1 DEF Init
  <2>5. /\ env \in Environments /\ taken \in [Ranks -> 0 .. MaxCalls] /\ alive \in [Ranks -> BOOLEAN]
        /\ failed \subseteq Ranks \X Calls /\ waited \in 0 .. MaxCalls /\ current \in 0 .. MaxCalls
        /\ future \in [Calls -> {"none", "pending", "done", "exception"}]
    BY <2>3 DEF Init
  <2>6. /\ epc \in {"register", "store", "idle", "sample", "enqueued", "wait", "dead"}
        /\ is_failed \in BOOLEAN /\ shutting_down \in BOOLEAN /\ closed \in BOOLEAN
        /\ failure_callback \in BOOLEAN /\ executor_failed \in BOOLEAN
        /\ monitor \in {"watch", "shutdown", "ended"}
    BY <2>2 DEF Init
  <2> QED
    BY <2>4, <2>5, <2>6 DEF TypeOK
<1>2. FailureInv
  BY DEF Init, FailureInv
<1>3. CallInv
  BY ExecutorAssumption DEF Init, CallInv, Calls
<1>4. QueuedInv
  BY DEF Init, QueuedInv
<1>5. TargetInv
  BY DEF Init, TargetInv
<1>6. ReadInv
  BY DEF Init, ReadInv
<1>7. AnswersMatchCalls
  BY DEF Init, AnswersMatchCalls
<1>8. ASSUME NEW w \in Ranks
      PROVE  AnswerInv(w)
  <2>1. taken[w] = 0 /\ Len(calls) = 0 /\ Len(response_mqs[w]) = 0 /\ Len(async_output_queue[w]) = 0
    BY DEF Init
  <2> QED
    BY <2>1, ExecutorAssumption DEF AnswerInv, OrderInv, InQueues, Increasing, Has, Calls
<1> QED
  BY <1>1, <1>2, <1>3, <1>4, <1>5, <1>6, <1>7, <1>8 DEF ExecutorInv

\* The types of the failure flags, of the engine core's thread, of the futures and of the
\* workers' queues.
FlagTypes ==
  /\ env \in Environments /\ alive \in [Ranks -> BOOLEAN]
  /\ is_failed \in BOOLEAN /\ shutting_down \in BOOLEAN /\ closed \in BOOLEAN
  /\ failure_callback \in BOOLEAN /\ executor_failed \in BOOLEAN
  /\ monitor \in {"watch", "shutdown", "ended"}

ThreadTypes ==
  /\ epc \in {"register", "store", "idle", "sample", "enqueued", "wait", "dead"}
  /\ batch_queue \in Seq(Calls) /\ waited \in 0 .. MaxCalls

FutureTypes ==
  /\ calls \in Seq(Kinds)
  /\ future \in [Calls -> {"none", "pending", "done", "exception"}]
  /\ targets \in [Calls -> Seq(Ranks)] /\ answers \in [Calls -> Seq(Response)]
  /\ futures_queue \in Seq(Calls) /\ current \in 0 .. MaxCalls

WorkerTypes ==
  /\ taken \in [Ranks -> 0 .. MaxCalls] /\ failed \subseteq Ranks \X Calls
  /\ async_output_queue \in [Ranks -> Seq(Response)]
  /\ response_mqs \in [Ranks -> Seq(Response)]

\* Together they are TypeOK.
LEMMA TypeParts == TypeOK <=> FlagTypes /\ ThreadTypes /\ FutureTypes /\ WorkerTypes
  BY DEF TypeOK, FlagTypes, ThreadTypes, FutureTypes, WorkerTypes

\* Every step keeps the types of the flags.
LEMMA FlagTypesStep ==
  ASSUME FlagTypes, [Next]_vars
  PROVE  FlagTypes'
<1> USE DEF workerVars, futureVars, failureVars
<1>1. CASE UNCHANGED <<env, alive, failureVars>>
  BY <1>1 DEF FlagTypes
<1>2. CASE RegisterCheck \/ RegisterStore
  BY <1>2 DEF RegisterCheck, RegisterStore, FlagTypes
<1>3. CASE \E w \in Ranks : WorkerDies(w) \/ WorkerExits(w)
  <2>1. PICK w \in Ranks : alive' = [alive EXCEPT ![w] = FALSE]
    BY <1>3 DEF WorkerDies, WorkerExits
  <2>2. alive' \in [Ranks -> BOOLEAN]
    BY <2>1 DEF FlagTypes
  <2>3. UNCHANGED <<env, failureVars>>
    BY <1>3 DEF WorkerDies, WorkerExits
  <2> QED
    BY <2>2, <2>3 DEF FlagTypes
<1>4. CASE MonitorWorkers
  BY <1>4 DEF MonitorWorkers, FlagTypes
<1>5. CASE EngineShutdown
  BY <1>5 DEF EngineShutdown, FlagTypes
<1>6. CASE CloseQueues
  BY <1>6 DEF CloseQueues, FlagTypes
<1>7. CASE CallBack
  BY <1>7 DEF CallBack, FlagTypes
<1>8. CASE UNCHANGED vars
  BY <1>1, <1>8 DEF vars
<1>9. CASE ExecuteModel \/ SampleTokens \/ Utility
  BY <1>1, <1>9 DEF ExecuteModel, SampleTokens, Utility, Enqueue, Raise
<1>10. CASE MakeFuture \/ MakeFutureRaises \/ WaitForStep \/ Drain \/ Return \/ HandleExecutorFailed
  BY <1>1, <1>10 DEF MakeFuture, MakeFutureRaises, WaitForStep, Drain, Return, HandleExecutorFailed
<1>11. CASE GetResponse \/ GetResponseRaises
  BY <1>1, <1>11 DEF GetResponse, GetResponseRaises
<1>12. CASE \E w \in Ranks : Work(w) \/ EnqueueOutput(w)
  BY <1>1, <1>12 DEF Work, EnqueueOutput
<1> QED
  BY <1>2, <1>3, <1>4, <1>5, <1>6, <1>7, <1>8, <1>9, <1>10, <1>11, <1>12 DEF Next, EngineStep

\* The queues that MakeFuture builds are queues of calls.
LEMMA MakeFutureQueues ==
  ASSUME TypeOK, CallInv, epc = "enqueued"
  PROVE  /\ call \in Calls /\ kind_of(call) \in Kinds
         /\ Append(futures_queue, call) \in Seq(Calls) /\ Append(batch_queue, call) \in Seq(Calls)
         /\ Head(Append(batch_queue, call)) \in Calls
<1>1. call \in Calls /\ kind_of(call) \in Kinds
  <2>1. calls \in Seq(Kinds) /\ Len(calls) \in 0 .. MaxCalls /\ MaxCalls \in Nat
    BY ExecutorTypes
  <2>2. Len(calls) >= 1
    BY DEF CallInv
  <2>3. calls[Len(calls)] \in Kinds
    BY <2>1, <2>2, ElementOfSeq
  <2> QED
    BY <2>1, <2>2, <2>3 DEF call, kind_of, Calls
<1>2. batch_queue \in Seq(Calls) /\ futures_queue \in Seq(Calls)
  BY ExecutorTypes
<1>3. Append(futures_queue, call) \in Seq(Calls) /\ Append(batch_queue, call) \in Seq(Calls)
  BY <1>1, <1>2, AppendProperties
<1>4. Append(batch_queue, call) # << >>
  BY <1>1, <1>2, AppendProperties
<1>5. Head(Append(batch_queue, call)) \in Calls
  BY <1>3, <1>4, HeadTailProperties
<1> QED
  BY <1>1, <1>3, <1>5

\* Calls are numbers up to MaxCalls.
LEMMA CallsBounded == (\A c \in Calls : c \in 0 .. MaxCalls) /\ 0 \in 0 .. MaxCalls
  BY ExecutorAssumption DEF Calls

\* Every step keeps the types of the engine core's thread.
LEMMA ThreadTypesStep ==
  ASSUME TypeOK, CallInv, [Next]_vars
  PROVE  ThreadTypes'
<1> USE DEF workerVars, futureVars
<1>0. ThreadTypes
  BY TypeParts
<1>1. CASE UNCHANGED <<epc, batch_queue, waited>>
  BY <1>0, <1>1 DEF ThreadTypes
<1>2. CASE RegisterCheck \/ RegisterStore \/ MakeFutureRaises \/ HandleExecutorFailed
  BY <1>0, <1>2 DEF RegisterCheck, RegisterStore, MakeFutureRaises, HandleExecutorFailed, ThreadTypes
<1>3. CASE ExecuteModel \/ SampleTokens \/ Utility
  <2>1. epc' \in {"enqueued", "idle", "dead"} /\ UNCHANGED <<batch_queue, waited>>
    BY <1>3 DEF ExecuteModel, SampleTokens, Utility, Enqueue, Raise, AfterRaise
  <2> QED
    BY <1>0, <2>1 DEF ThreadTypes
<1>4. CASE MakeFuture
  <2>1. /\ call \in Calls /\ kind_of(call) \in Kinds
        /\ Append(batch_queue, call) \in Seq(Calls) /\ Head(Append(batch_queue, call)) \in Calls
    BY <1>4, MakeFutureQueues DEF MakeFuture
  <2>2. /\ epc' \in {"sample", "wait", "idle"}
        /\ batch_queue' \in {batch_queue, Append(batch_queue, call)}
        /\ waited' \in {waited, call, Head(Append(batch_queue, call))}
    BY <1>4, <2>1 DEF MakeFuture, Wait, Kinds
  <2>3. batch_queue' \in Seq(Calls)
    BY <1>0, <2>1, <2>2 DEF ThreadTypes
  <2>4. waited' \in 0 .. MaxCalls
    BY <1>0, <2>1, <2>2, CallsBounded DEF ThreadTypes
  <2> QED
    BY <2>2, <2>3, <2>4 DEF ThreadTypes
<1>5. CASE WaitForStep
  <2>1. batch_queue # << >> /\ batch_queue \in Seq(Calls)
    BY <1>0, <1>5 DEF WaitForStep, ThreadTypes
  <2>2. Head(batch_queue) \in Calls
    BY <2>1, HeadTailProperties
  <2>3. waited' \in 0 .. MaxCalls
    BY <1>5, <2>2, CallsBounded DEF WaitForStep, Wait
  <2> QED
    BY <1>0, <1>5, <2>3 DEF WaitForStep, Wait, ThreadTypes
<1>6. CASE Return
  <2>1. epc' \in {"idle", "dead"} /\ waited' = 0
    BY <1>6 DEF Return, Outcome, AfterRaise
  <2>2. batch_queue' \in Seq(Calls)
    <3>1. kind_of(waited) # "utility" => batch_queue # << >>
      BY <1>6 DEF Return, CallInv
    <3>2. batch_queue \in Seq(Calls)
      BY <1>0 DEF ThreadTypes
    <3>3. batch_queue # << >> => Tail(batch_queue) \in Seq(Calls)
      BY <3>2, HeadTailProperties
    <3> QED
      BY <1>6, <3>1, <3>2, <3>3 DEF Return
  <2> QED
    BY <2>1, <2>2, CallsBounded DEF ThreadTypes
<1>7. CASE UNCHANGED vars \/ Drain \/ GetResponse \/ GetResponseRaises
  BY <1>1, <1>7 DEF vars, Drain, GetResponse, GetResponseRaises
<1>8. CASE \E w \in Ranks : Work(w) \/ EnqueueOutput(w) \/ WorkerDies(w) \/ WorkerExits(w)
  BY <1>1, <1>8 DEF Work, EnqueueOutput, WorkerDies, WorkerExits
<1>9. CASE MonitorWorkers \/ EngineShutdown \/ CloseQueues \/ CallBack
  BY <1>1, <1>9 DEF MonitorWorkers, EngineShutdown, CloseQueues, CallBack
<1> QED
  BY <1>2, <1>3, <1>4, <1>5, <1>6, <1>7, <1>8, <1>9 DEF Next, EngineStep

\* The future that is drained is pending, and the next queue it reads is that of a worker
\* that answers its call: the queue of worker n when n - 1 answers have been read.
LEMMA ReadFacts ==
  ASSUME TypeOK, CallInv, QueuedInv, TargetInv, current # 0
  PROVE  /\ current \in Calls /\ future[current] = "pending" /\ current <= Len(calls)
         /\ Len(answers[current]) <= Len(targets[current]) /\ Len(targets[current]) \in Nat
         /\ Len(answers[current]) < Len(targets[current]) =>
              \E n \in Ranks : /\ n = Len(answers[current]) + 1
                               /\ targets[current][n] = n /\ Queue = response_mqs[n]
                               /\ Answers(n, current) /\ Unread(n, current)
<1>1. current \in Calls /\ future[current] = "pending"
  BY ExecutorTypes DEF QueuedInv
<1>2. current <= Len(calls)
  <2>1. current \in Nat /\ Len(calls) \in Nat
    BY <1>1, ExecutorTypes
  <2>2. ~ (current > Len(calls))
    BY <1>1 DEF CallInv
  <2> QED
    BY <2>1, <2>2
<1>3. Len(answers[current]) \in Nat /\ Len(targets[current]) \in Nat
  BY <1>1, ExecutorTypes, LenProperties
<1>4. /\ Len(answers[current]) <= Len(targets[current])
      /\ \/ targets[current] = IF UniqueReply(kind_of(current)) THEN <<output_rank>> ELSE AllRanks
         \/ targets[current] = << >>
  BY <1>1 DEF TargetInv
<1>5. ASSUME Len(answers[current]) < Len(targets[current])
      PROVE  \E n \in Ranks : /\ n = Len(answers[current]) + 1
                              /\ targets[current][n] = n /\ Queue = response_mqs[n]
                              /\ Answers(n, current) /\ Unread(n, current)
  <2> DEFINE n == Len(answers[current]) + 1
  <2>1. NumWorkers \in Nat \ {0}
    BY ExecutorTypes
  <2>2. n \in 1 .. Len(targets[current]) /\ n > Len(answers[current])
    BY <1>3, <1>5
  <2>3. targets[current] # << >>
    BY <1>3, <1>5
  <2>4. CASE UniqueReply(kind_of(current))
    <3>1. targets[current] = <<1>>
      BY <1>4, <2>3, <2>4 DEF output_rank
    <3>2. n = 1
      BY <2>2, <3>1
    <3>3. targets[current][n] = n
      BY <3>1, <3>2
    <3>4. n \in Ranks /\ Answers(n, current)
      BY <2>1, <3>2 DEF Ranks, Answers, output_rank
    <3> QED
      BY <1>1, <2>2, <3>3, <3>4 DEF Unread, Queue
  <2>5. CASE ~ UniqueReply(kind_of(current))
    <3>1. targets[current] = [i \in Ranks |-> i]
      BY <1>4, <2>3, <2>5 DEF AllRanks
    <3>2. Len(targets[current]) = NumWorkers
      BY <1>3, <2>1, <3>1 DEF Ranks
    <3>3. n \in Ranks
      BY <2>1, <2>2, <3>2 DEF Ranks
    <3>4. targets[current][n] = n
      BY <3>1, <3>3
    <3>5. Answers(n, current)
      BY <2>5 DEF Answers
    <3> QED
      BY <1>1, <2>2, <3>3, <3>4, <3>5 DEF Unread, Queue
  <2> QED
    BY <2>4, <2>5
<1> QED
  BY <1>1, <1>2, <1>3, <1>4, <1>5

\* What GetResponse does with the answer it reads.
LEMMA ReadCases ==
  ASSUME TypeOK, CallInv, QueuedInv, TargetInv, GetResponse
  PROVE  \/ /\ Len(answers[current]) = Len(targets[current])
            /\ Resolve("done") /\ UNCHANGED <<answers, response_mqs>>
         \/ \E n \in Ranks :
              /\ n = Len(answers[current]) + 1 /\ n <= Len(targets[current])
              /\ Answers(n, current) /\ Unread(n, current)
              /\ response_mqs[n] # << >>
              /\ response_mqs' = [response_mqs EXCEPT ![n] = Tail(@)]
              /\ \/ /\ Head(response_mqs[n]).status = "FAILURE"
                    /\ Resolve("exception") /\ UNCHANGED answers
                 \/ /\ Head(response_mqs[n]).status # "FAILURE"
                    /\ answers' = [answers EXCEPT ![current] = Append(@, Head(response_mqs[n]))]
                    /\ UNCHANGED <<future, current>>
<1>0. current # 0
  BY DEF GetResponse
<1>1. Len(answers[current]) <= Len(targets[current]) /\ Len(targets[current]) \in Nat
  BY <1>0, ReadFacts
<1>2. CASE Len(answers[current]) = Len(targets[current])
  BY <1>2 DEF GetResponse
<1>3. CASE Len(answers[current]) # Len(targets[current])
  <2>0. Len(answers[current]) \in Nat
    BY <1>0, ReadFacts, ExecutorTypes
  <2>1. Len(answers[current]) < Len(targets[current])
    BY <1>1, <1>3, <2>0
  <2>2. PICK n \in Ranks : /\ n = Len(answers[current]) + 1
                           /\ targets[current][n] = n /\ Queue = response_mqs[n]
                           /\ Answers(n, current) /\ Unread(n, current)
    BY <1>0, <2>1, ReadFacts
  <2>3. n <= Len(targets[current])
    BY <1>1, <2>0, <2>1, <2>2
  <2>4. /\ response_mqs[n] # << >>
        /\ response_mqs' = [response_mqs EXCEPT ![n] = Tail(@)]
        /\ IF Head(response_mqs[n]).status = "FAILURE"
           THEN Resolve("exception") /\ UNCHANGED answers
           ELSE /\ answers' = [answers EXCEPT ![current] = Append(@, Head(response_mqs[n]))]
                /\ UNCHANGED <<future, current>>
    BY <1>3, <2>2 DEF GetResponse
  <2> QED
    BY <2>2, <2>3, <2>4
<1> QED
  BY <1>2, <1>3

\* Every step keeps the types of the futures.
LEMMA FutureTypesStep ==
  ASSUME TypeOK, CallInv, QueuedInv, TargetInv, [Next]_vars
  PROVE  FutureTypes'
<1>0. FutureTypes /\ WorkerTypes
  BY TypeParts
<1>1. CASE Quiet
  BY <1>0, <1>1 DEF Quiet, FutureTypes
<1>2. ASSUME NEW kind \in Kinds, Enqueue(kind)
      PROVE  FutureTypes'
  <2>1. calls \in Seq(Kinds)
    BY <1>0 DEF FutureTypes
  <2>2. Append(calls, kind) \in Seq(Kinds)
    BY <2>1, AppendProperties
  <2> QED
    BY <1>0, <1>2, <2>2 DEF Enqueue, FutureTypes, futureVars
<1>3. CASE MakeFuture
  <2>1. call \in Calls /\ Append(futures_queue, call) \in Seq(Calls)
    BY <1>3, MakeFutureQueues DEF MakeFuture
  <2>2. AllRanks \in Seq(Ranks)
    <3>1. AllRanks \in [1 .. NumWorkers -> Ranks] /\ NumWorkers \in Nat
      BY ExecutorAssumption DEF AllRanks, Ranks
    <3> QED
      BY <3>1, SeqDef
  <2>3. <<output_rank>> \in Seq(Ranks) /\ << >> \in Seq(Ranks)
    <3>1. output_rank \in Ranks
      BY ExecutorTypes
    <3> QED
      BY <3>1, EmptySeq
  <2>4. targets' \in [Calls -> Seq(Ranks)]
    BY <1>0, <1>3, <2>1, <2>2, <2>3 DEF MakeFuture, FutureTypes
  <2>5. future' \in [Calls -> {"none", "pending", "done", "exception"}]
    BY <1>0, <1>3, <2>1 DEF MakeFuture, FutureTypes
  <2>6. futures_queue' \in Seq(Calls) /\ UNCHANGED <<calls, answers, current>>
    BY <1>3, <2>1 DEF MakeFuture, FutureWrapper
  <2> QED
    BY <1>0, <2>4, <2>5, <2>6 DEF FutureTypes
<1>4. CASE Drain
  <2>1. futures_queue # << >> /\ futures_queue \in Seq(Calls)
    <3>1. waited \in Calls /\ waited # 0
      <4>1. waited \in 1 .. Len(calls) /\ Len(calls) \in 0 .. MaxCalls /\ MaxCalls \in Nat
        BY <1>4, ExecutorTypes DEF Drain, CallInv
      <4> QED
        BY <4>1 DEF Calls
    <3>2. \E i \in 1 .. Len(futures_queue) : futures_queue[i] = waited
      BY <1>4, <3>1 DEF Drain, QueuedInv
    <3> QED
      BY <1>0, <3>2 DEF FutureTypes
  <2>2. Head(futures_queue) \in Calls /\ Tail(futures_queue) \in Seq(Calls)
    BY <2>1, HeadTailProperties
  <2>3. current' \in 0 .. MaxCalls
    BY <1>4, <2>2, CallsBounded DEF Drain
  <2> QED
    BY <1>0, <1>4, <2>2, <2>3 DEF Drain, FutureTypes
<1>5. ASSUME NEW outcome \in {"done", "exception"}, current \in Calls, Resolve(outcome)
      PROVE  /\ future' \in [Calls -> {"none", "pending", "done", "exception"}]
             /\ current' \in 0 .. MaxCalls
  BY <1>0, <1>5, CallsBounded DEF Resolve, FutureTypes
<1>6. CASE GetResponse
  <2>0. current \in Calls /\ UNCHANGED <<calls, targets, futures_queue>>
    BY <1>6, ReadFacts DEF GetResponse
  <2>1. CASE UNCHANGED answers /\ (Resolve("done") \/ Resolve("exception"))
    BY <1>0, <1>5, <2>0, <2>1 DEF FutureTypes
  <2>2. CASE \E n \in Ranks :
              /\ response_mqs[n] # << >>
              /\ answers' = [answers EXCEPT ![current] = Append(@, Head(response_mqs[n]))]
              /\ UNCHANGED <<future, current>>
    <3>1. PICK n \in Ranks :
              /\ response_mqs[n] # << >>
              /\ answers' = [answers EXCEPT ![current] = Append(@, Head(response_mqs[n]))]
              /\ UNCHANGED <<future, current>>
      BY <2>2
    <3>2. response_mqs[n] \in Seq(Response) /\ answers[current] \in Seq(Response)
      BY <1>0, <2>0 DEF FutureTypes, WorkerTypes
    <3>3. Head(response_mqs[n]) \in Response
      BY <3>1, <3>2, HeadTailProperties
    <3>4. Append(answers[current], Head(response_mqs[n])) \in Seq(Response)
      BY <3>2, <3>3, AppendProperties
    <3>5. answers' \in [Calls -> Seq(Response)]
      BY <1>0, <3>1, <3>4 DEF FutureTypes
    <3> QED
      BY <1>0, <2>0, <3>1, <3>5 DEF FutureTypes
  <2> QED
    BY <1>6, <2>1, <2>2, ReadCases
<1>7. CASE GetResponseRaises
  <2>1. current \in Calls /\ UNCHANGED <<calls, targets, answers, futures_queue>>
    BY <1>7, ReadFacts DEF GetResponseRaises
  <2>2. Resolve("exception")
    BY <1>7 DEF GetResponseRaises
  <2> QED
    BY <1>0, <1>5, <2>1, <2>2 DEF FutureTypes
<1>8. CASE \E w \in Ranks : Work(w) \/ EnqueueOutput(w)
  BY <1>0, <1>8 DEF Work, EnqueueOutput, futureVars, FutureTypes
<1> QED
  BY <1>1, <1>2, <1>3, <1>4, <1>6, <1>7, <1>8, StepCases

\* Every step keeps the types of the workers' queues.
LEMMA WorkerTypesStep ==
  ASSUME TypeOK, CallInv, QueuedInv, TargetInv, [Next]_vars
  PROVE  WorkerTypes'
<1> USE DEF workerVars
<1>0. WorkerTypes
  BY TypeParts
<1>1. CASE UNCHANGED <<taken, failed, async_output_queue, response_mqs>>
  BY <1>0, <1>1 DEF WorkerTypes
<1>2. CASE GetResponse
  <2>1. UNCHANGED <<taken, failed, async_output_queue>>
    BY <1>2 DEF GetResponse
  <2>2. CASE \E n \in Ranks : /\ response_mqs[n] # << >>
                              /\ response_mqs' = [response_mqs EXCEPT ![n] = Tail(@)]
    <3>1. PICK n \in Ranks : /\ response_mqs[n] # << >>
                             /\ response_mqs' = [response_mqs EXCEPT ![n] = Tail(@)]
      BY <2>2
    <3>2. response_mqs[n] \in Seq(Response)
      BY <1>0 DEF WorkerTypes
    <3>3. Tail(response_mqs[n]) \in Seq(Response)
      BY <3>1, <3>2, HeadTailProperties
    <3>4. response_mqs' \in [Ranks -> Seq(Response)]
      BY <1>0, <3>1, <3>3 DEF WorkerTypes
    <3> QED
      BY <1>0, <2>1, <3>4 DEF WorkerTypes
  <2> QED
    BY <1>1, <1>2, <2>1, <2>2, ReadCases
<1>3. ASSUME NEW w \in Ranks, Work(w)
      PROVE  WorkerTypes'
  <2>1. NextCall(w) \in Calls /\ taken[w] + 1 \in 0 .. MaxCalls
    <3>1. taken[w] \in 0 .. MaxCalls /\ Len(calls) \in 0 .. MaxCalls /\ MaxCalls \in Nat
      BY ExecutorTypes
    <3>2. taken[w] < Len(calls)
      BY <1>3 DEF Work
    <3> QED
      BY <3>1, <3>2 DEF NextCall, Calls
  <2>2. PICK status \in Statuses(w, NextCall(w)) :
          /\ failed' = failed \cup (IF status = "FAILURE" THEN {<<w, NextCall(w)>>} ELSE {})
          /\ async_output_queue' =
               IF Answers(w, NextCall(w))
               THEN [async_output_queue EXCEPT ![w] =
                      Append(@, [call |-> NextCall(w), status |-> status])]
               ELSE async_output_queue
    BY <1>3 DEF Work
  <2>3. [call |-> NextCall(w), status |-> status] \in Response
    BY <2>1, <2>2 DEF Response, Statuses, Succeeds
  <2>4. async_output_queue[w] \in Seq(Response)
    BY <1>0 DEF WorkerTypes
  <2>5. Append(async_output_queue[w], [call |-> NextCall(w), status |-> status]) \in Seq(Response)
    BY <2>3, <2>4, AppendProperties
  <2>6. async_output_queue' \in [Ranks -> Seq(Response)]
    BY <1>0, <2>2, <2>5 DEF WorkerTypes
  <2>7. failed' \subseteq Ranks \X Calls
    BY <1>0, <2>1, <2>2 DEF WorkerTypes
  <2>8. taken' \in [Ranks -> 0 .. MaxCalls] /\ UNCHANGED response_mqs
    BY <1>0, <1>3, <2>1 DEF Work, WorkerTypes
  <2> QED
    BY <1>0, <2>6, <2>7, <2>8 DEF WorkerTypes
<1>4. ASSUME NEW w \in Ranks, EnqueueOutput(w)
      PROVE  WorkerTypes'
  <2>1. /\ async_output_queue[w] # << >> /\ async_output_queue[w] \in Seq(Response)
        /\ response_mqs[w] \in Seq(Response)
    BY <1>0, <1>4 DEF EnqueueOutput, WorkerTypes
  <2>2. Head(async_output_queue[w]) \in Response /\ Tail(async_output_queue[w]) \in Seq(Response)
    BY <2>1, HeadTailProperties
  <2>3. Append(response_mqs[w], Head(async_output_queue[w])) \in Seq(Response)
    BY <2>1, <2>2, AppendProperties
  <2>4. /\ response_mqs' \in [Ranks -> Seq(Response)]
        /\ async_output_queue' \in [Ranks -> Seq(Response)]
    BY <1>0, <1>4, <2>2, <2>3 DEF EnqueueOutput, WorkerTypes
  <2> QED
    BY <1>0, <1>4, <2>4 DEF EnqueueOutput, WorkerTypes
<1>5. CASE UNCHANGED vars \/ ExecuteModel \/ SampleTokens \/ Utility \/ MakeFuture
  BY <1>1, <1>5 DEF vars, ExecuteModel, SampleTokens, Utility, Enqueue, Raise, MakeFuture
<1>6. CASE RegisterCheck \/ RegisterStore \/ MakeFutureRaises \/ WaitForStep \/ Drain
           \/ GetResponseRaises \/ Return \/ HandleExecutorFailed
  BY <1>1, <1>6 DEF RegisterCheck, RegisterStore, MakeFutureRaises, WaitForStep, Drain,
     GetResponseRaises, Return, HandleExecutorFailed
<1>7. CASE \E w \in Ranks : WorkerDies(w) \/ WorkerExits(w)
  BY <1>1, <1>7 DEF WorkerDies, WorkerExits
<1>8. CASE MonitorWorkers \/ EngineShutdown \/ CloseQueues \/ CallBack
  BY <1>1, <1>8 DEF MonitorWorkers, EngineShutdown, CloseQueues, CallBack
<1> QED
  BY <1>2, <1>3, <1>4, <1>5, <1>6, <1>7, <1>8 DEF Next, EngineStep

\* Every step keeps the types.
LEMMA TypeStep ==
  ASSUME TypeOK, CallInv, QueuedInv, TargetInv, [Next]_vars
  PROVE  TypeOK'
<1>1. FlagTypes
  BY TypeParts
<1>2. FlagTypes' /\ ThreadTypes' /\ FutureTypes' /\ WorkerTypes'
  BY <1>1, FlagTypesStep, ThreadTypesStep, FutureTypesStep, WorkerTypesStep
<1> QED
  BY <1>2 DEF TypeOK, FlagTypes, ThreadTypes, FutureTypes, WorkerTypes
-----------------------------------------------------------------------------
\* Queues are closed only after a failure, when every worker is gone.
LEMMA FailureStep ==
  ASSUME TypeOK, FailureInv, CallInv, [Next]_vars
  PROVE  FailureInv'
<1> USE DEF workerVars, futureVars, failureVars
<1>0. alive \in [Ranks -> BOOLEAN] /\ shutting_down \in BOOLEAN
  BY DEF TypeOK
<1>1. CASE UNCHANGED <<alive, is_failed, shutting_down, closed>> /\ (epc = "dead" => epc' = "dead")
  BY <1>1 DEF FailureInv
<1>2. CASE UNCHANGED vars \/ RegisterCheck \/ RegisterStore \/ MakeFutureRaises \/ WaitForStep
           \/ Drain \/ Return \/ HandleExecutorFailed
  BY <1>1, <1>2 DEF vars, RegisterCheck, RegisterStore, MakeFutureRaises, WaitForStep, Wait,
     Drain, Return, HandleExecutorFailed
<1>3. CASE ExecuteModel \/ SampleTokens \/ Utility
  BY <1>1, <1>3 DEF ExecuteModel, SampleTokens, Utility, Enqueue, Raise
<1>4. CASE MakeFuture
  BY <1>1, <1>4 DEF MakeFuture
<1>5. CASE GetResponse \/ GetResponseRaises
  BY <1>1, <1>5 DEF GetResponse, GetResponseRaises
<1>6. CASE \E w \in Ranks : Work(w) \/ EnqueueOutput(w)
  BY <1>1, <1>6 DEF Work, EnqueueOutput
<1>7. CASE \E w \in Ranks : WorkerDies(w) \/ WorkerExits(w)
  <2>1. PICK w \in Ranks : alive' = [alive EXCEPT ![w] = FALSE]
    BY <1>7 DEF WorkerDies, WorkerExits
  <2>2. UNCHANGED <<epc, failureVars>>
    BY <1>7 DEF WorkerDies, WorkerExits
  <2>3. \A v \in Ranks : ~ alive[v] => ~ alive'[v]
    BY <1>0, <2>1
  <2> QED
    BY <2>2, <2>3 DEF FailureInv
<1>8. CASE MonitorWorkers
  BY <1>8 DEF MonitorWorkers, FailureInv
<1>9. CASE EngineShutdown \/ CloseQueues \/ CallBack
  BY <1>9 DEF EngineShutdown, CloseQueues, CallBack, FailureInv
<1> QED
  BY <1>2, <1>3, <1>4, <1>5, <1>6, <1>7, <1>8, <1>9 DEF Next, EngineStep

\* Every step keeps the calls and the engine core's thread in step.
LEMMA CallStep ==
  ASSUME TypeOK, CallInv, QueuedInv, TargetInv, [Next]_vars
  PROVE  CallInv'
<1> USE DEF workerVars, futureVars
<1>0. /\ Len(calls) \in Nat /\ MaxCalls \in Nat /\ Len(calls) <= MaxCalls /\ Calls = 1 .. MaxCalls
      /\ batch_queue \in Seq(Calls) /\ Len(batch_queue) \in Nat
      /\ future \in [Calls -> {"none", "pending", "done", "exception"}]
      /\ answers \in [Calls -> Seq(Response)] /\ calls \in Seq(Kinds)
  <2>1. /\ batch_queue \in Seq(Calls) /\ answers \in [Calls -> Seq(Response)] /\ calls \in Seq(Kinds)
        /\ future \in [Calls -> {"none", "pending", "done", "exception"}]
    BY DEF TypeOK
  <2>2. Len(calls) \in Nat /\ MaxCalls \in Nat /\ Len(calls) <= MaxCalls
    BY ExecutorTypes
  <2>3. Len(batch_queue) \in Nat
    BY <2>1, LenProperties
  <2>4. Calls = 1 .. MaxCalls
    BY DEF Calls
  <2> QED
    BY <2>1, <2>2, <2>3, <2>4
<1>1. CASE UNCHANGED <<calls, future, answers, current, epc, waited, batch_queue>>
  BY <1>1 DEF CallInv, kind_of
<1>2. CASE /\ UNCHANGED <<calls, future, answers, current, batch_queue>>
           /\ epc # "enqueued" /\ epc # "wait" /\ epc # "dead" /\ epc' \in {"idle", "store", "dead"}
  BY <1>2 DEF CallInv
<1>3. CASE ExecuteModel \/ SampleTokens \/ Utility
  <2>1. ASSUME NEW kind \in Kinds, Enqueue(kind), epc \in {"idle", "sample"}
        PROVE  CallInv'
    <3>1. calls' = Append(calls, kind) /\ Len(calls) < MaxCalls /\ epc' = "enqueued"
      BY <2>1 DEF Enqueue
    <3>2. Len(calls)' = Len(calls) + 1
      BY <1>0, <3>1, AppendProperties
    <3>3. UNCHANGED <<future, answers, current, waited, batch_queue>>
      BY <2>1 DEF Enqueue
    <3>4. current = 0
      BY <2>1 DEF CallInv
    <3>5. ASSUME NEW c \in Calls
          PROVE  /\ c > Len(calls)' => future'[c] = "none"
                 /\ c < Len(calls)' => future'[c] # "none"
                 /\ future'[c] = "none" => answers'[c] = << >>
      <4>1. c \in Nat
        BY <1>0
      <4>2. /\ c > Len(calls) => future[c] = "none"
            /\ c < Len(calls) => future[c] # "none"
            /\ c = Len(calls) => future[c] # "none"
            /\ future[c] = "none" => answers[c] = << >>
        BY <2>1 DEF CallInv
      <4> QED
        BY <1>0, <3>2, <3>3, <4>1, <4>2
    <3>6. Len(calls)' \in Calls /\ Len(calls)' > Len(calls)
      BY <1>0, <3>1, <3>2
    <3>7. Len(calls)' >= 1 /\ Len(calls)' <= MaxCalls
      BY <1>0, <3>1, <3>2
    <3>8. future'[Len(calls)'] = "none"
      BY <3>3, <3>6 DEF CallInv
    <3>9. \A i \in 1 .. Len(batch_queue') : batch_queue'[i] <= Len(calls)'
      <4>1. ASSUME NEW i \in 1 .. Len(batch_queue)
            PROVE  batch_queue[i] <= Len(calls)'
        <5>1. batch_queue[i] \in Calls /\ batch_queue[i] <= Len(calls)
          BY <1>0, ElementOfSeq DEF CallInv
        <5> QED
          BY <1>0, <3>2, <5>1
      <4> QED
        BY <3>3, <4>1
    <3> QED
      BY <3>1, <3>3, <3>4, <3>5, <3>7, <3>8, <3>9 DEF CallInv
  <2>2. ASSUME NEW kind \in Kinds, Raise(kind), epc \in {"idle", "sample"}
        PROVE  CallInv'
    BY <1>2, <2>2 DEF Raise, AfterRaise
  <2> QED
    BY <1>3, <2>1, <2>2 DEF ExecuteModel, SampleTokens, Utility, Kinds
<1>4. CASE RegisterCheck \/ RegisterStore \/ HandleExecutorFailed
  BY <1>2, <1>4 DEF RegisterCheck, RegisterStore, HandleExecutorFailed
<1>5. CASE MakeFutureRaises
  BY <1>5 DEF MakeFutureRaises, CallInv
<1>6. CASE MakeFuture
  <2>0. epc = "enqueued" /\ current = 0
    BY <1>6 DEF MakeFuture, CallInv
  <2>1. /\ call \in Calls /\ kind_of(call) \in Kinds
        /\ Append(batch_queue, call) \in Seq(Calls) /\ call = Len(calls)
    BY <2>0, MakeFutureQueues DEF call
  <2>2. /\ future' = [future EXCEPT ![call] = "pending"]
        /\ UNCHANGED <<calls, answers, current>>
    BY <1>6 DEF MakeFuture
  <2>3. ASSUME NEW c \in Calls
        PROVE  /\ c > Len(calls) => future'[c] = "none"
               /\ c < Len(calls) => future'[c] # "none"
               /\ c = Len(calls) => future'[c] # "none"
               /\ future'[c] = "none" => answers[c] = << >>
    <3>1. c \in Nat /\ call \in Nat
      BY <1>0, <2>1
    <3>2. CASE c = call
      BY <1>0, <2>1, <2>2, <3>1, <3>2
    <3>3. CASE c # call
      BY <1>0, <2>1, <2>2, <3>3 DEF CallInv
    <3> QED
      BY <3>2, <3>3
  <2>4. \A i \in 1 .. Len(batch_queue) : batch_queue[i] <= Len(calls)
    BY DEF CallInv
  <2>5. /\ Append(batch_queue, call) # << >>
        /\ Len(Append(batch_queue, call)) = Len(batch_queue) + 1
        /\ \A i \in 1 .. Len(batch_queue) : Append(batch_queue, call)[i] = batch_queue[i]
        /\ Append(batch_queue, call)[Len(batch_queue) + 1] = call
    <3>1. batch_queue \in Seq(Calls) /\ call \in Calls
      BY <1>0, <2>1
    <3> QED
      BY <3>1, AppendProperties
  <2>6. ASSUME NEW i \in 1 .. Len(Append(batch_queue, call))
        PROVE  Append(batch_queue, call)[i] <= Len(calls)
    <3>1. i \in 1 .. Len(batch_queue) \/ i = Len(batch_queue) + 1
      <4>1. Len(batch_queue) \in Nat
        BY <1>0
      <4> QED
        BY <2>5, <4>1
    <3>2. call <= Len(calls)
      BY <1>0, <2>1
    <3> QED
      BY <2>4, <2>5, <3>1, <3>2
  <2>7. Head(Append(batch_queue, call)) \in 1 .. Len(calls)
    <3>1. Head(Append(batch_queue, call)) = Append(batch_queue, call)[1]
      BY <2>1, <2>5, HeadTailProperties
    <3>2. Len(Append(batch_queue, call)) = Len(batch_queue) + 1
      BY <1>0, <2>1, AppendProperties
    <3>3. 1 \in 1 .. Len(Append(batch_queue, call))
      BY <1>0, <3>2
    <3>4. Append(batch_queue, call)[1] \in Calls
      BY <2>1, <3>3, ElementOfSeq
    <3> QED
      BY <1>0, <2>6, <3>1, <3>3, <3>4
  <2>8. /\ epc' \in {"sample", "wait", "idle"}
        /\ batch_queue' \in {batch_queue, Append(batch_queue, call)}
        /\ epc' = "wait" => \/ waited' = call /\ kind_of(call) = "utility"
                            \/ /\ waited' = Head(Append(batch_queue, call))
                               /\ batch_queue' = Append(batch_queue, call)
    BY <1>6, <2>1 DEF MakeFuture, Wait, Kinds
  <2>9. epc' = "wait" => /\ waited' \in 1 .. Len(calls)
                         /\ calls[waited'] = "utility" \/ batch_queue' # << >>
    <3>1. call \in 1 .. Len(calls)
      BY <1>0, <2>1
    <3>2. kind_of(call) = calls[call]
      BY DEF kind_of
    <3> QED
      BY <2>5, <2>7, <2>8, <3>1, <3>2
  <2>10. \A i \in 1 .. Len(batch_queue') : batch_queue'[i] <= Len(calls)
    BY <2>4, <2>6, <2>8
  <2> QED
    BY <1>0, <2>0, <2>2, <2>3, <2>8, <2>9, <2>10 DEF CallInv, kind_of
<1>7. CASE WaitForStep
  <2>1. batch_queue # << >> /\ epc = "idle" /\ waited' = Head(batch_queue) /\ epc' = "wait"
        /\ UNCHANGED <<calls, future, answers, current, batch_queue>>
    BY <1>7 DEF WaitForStep, Wait
  <2>2. Head(batch_queue) = batch_queue[1] /\ 1 \in 1 .. Len(batch_queue)
    BY <1>0, <2>1, HeadTailProperties, EmptySeq
  <2>3. batch_queue[1] \in Calls
    BY <1>0, <2>2, ElementOfSeq
  <2>4. waited' \in 1 .. Len(calls)
    BY <1>0, <2>1, <2>2, <2>3 DEF CallInv
  <2> QED
    BY <2>1, <2>4 DEF CallInv, kind_of
<1>8. CASE Drain
  <2>1. epc = "wait" /\ UNCHANGED <<calls, future, answers, epc, waited, batch_queue>>
    BY <1>8 DEF Drain
  <2> QED
    BY <2>1 DEF CallInv, kind_of
<1>9. ASSUME NEW outcome \in {"done", "exception"}, Resolve(outcome), epc = "wait", current # 0,
             UNCHANGED <<calls, answers, epc, waited, batch_queue>>
      PROVE  CallInv'
  <2>1. /\ current \in Calls /\ current <= Len(calls) /\ future[current] = "pending"
    BY <1>9, ReadFacts
  <2>2. future' = [future EXCEPT ![current] = outcome] /\ current' = 0
    BY <1>9 DEF Resolve
  <2>3. \A c \in Calls : (future'[c] = "none") <=> (future[c] = "none")
    BY <1>0, <2>1, <2>2
  <2> QED
    BY <1>9, <2>2, <2>3 DEF CallInv, kind_of
<1>10. CASE GetResponse
  <2>1. epc = "wait" /\ current # 0 /\ UNCHANGED <<calls, epc, waited, batch_queue>>
    BY <1>10 DEF GetResponse
  <2>2. CASE UNCHANGED answers /\ (Resolve("done") \/ Resolve("exception"))
    BY <1>9, <2>1, <2>2
  <2>3. CASE \E n \in Ranks :
              /\ answers' = [answers EXCEPT ![current] = Append(@, Head(response_mqs[n]))]
              /\ UNCHANGED <<future, current>>
    <3>1. future[current] = "pending"
      BY <2>1, ReadFacts
    <3>2. \A c \in Calls : future[c] = "none" => answers'[c] = answers[c]
      BY <1>0, <2>3, <3>1
    <3>3. UNCHANGED <<future, current>>
      BY <2>3
    <3> QED
      BY <2>1, <3>2, <3>3 DEF CallInv, kind_of
  <2> QED
    BY <1>10, <2>2, <2>3, ReadCases
<1>11. CASE GetResponseRaises
  BY <1>9, <1>11 DEF GetResponseRaises
<1>12. CASE Return
  <2>1. /\ epc = "wait" /\ current = 0 /\ epc' \in {"idle", "dead"}
        /\ UNCHANGED <<calls, future, answers, current>>
    BY <1>12 DEF Return, Outcome, AfterRaise
  <2>2. \A i \in 1 .. Len(batch_queue') : batch_queue'[i] <= Len(calls)
    <3>1. CASE batch_queue' = batch_queue
      BY <3>1 DEF CallInv
    <3>2. CASE batch_queue' # batch_queue
      <4>1. batch_queue # << >> /\ batch_queue' = Tail(batch_queue)
        BY <1>12, <3>2 DEF Return, CallInv
      <4>2. /\ Len(Tail(batch_queue)) = Len(batch_queue) - 1
            /\ \A i \in 1 .. Len(Tail(batch_queue)) : Tail(batch_queue)[i] = batch_queue[i + 1]
        BY <1>0, <4>1, HeadTailProperties
      <4>3. \A i \in 1 .. Len(batch_queue) : batch_queue[i] <= Len(calls)
        BY DEF CallInv
      <4> QED
        BY <1>0, <4>1, <4>2, <4>3
    <3> QED
      BY <3>1, <3>2
  <2> QED
    BY <2>1, <2>2 DEF CallInv
<1>13. CASE UNCHANGED vars
  BY <1>1, <1>13 DEF vars
<1>14. CASE \E w \in Ranks : Work(w) \/ EnqueueOutput(w) \/ WorkerDies(w) \/ WorkerExits(w)
  BY <1>1, <1>14 DEF Work, EnqueueOutput, WorkerDies, WorkerExits
<1>15. CASE MonitorWorkers \/ EngineShutdown \/ CloseQueues \/ CallBack
  BY <1>1, <1>15 DEF MonitorWorkers, EngineShutdown, CloseQueues, CallBack
<1> QED
  BY <1>3, <1>4, <1>5, <1>6, <1>7, <1>8, <1>10, <1>11, <1>12, <1>13, <1>14, <1>15
     DEF Next, EngineStep

\* Every step keeps the pending futures queued, in the order of their calls.
LEMMA QueuedStep ==
  ASSUME TypeOK, CallInv, QueuedInv, TargetInv, [Next]_vars
  PROVE  QueuedInv'
<1>0. /\ futures_queue \in Seq(Calls) /\ Len(futures_queue) \in Nat
      /\ future \in [Calls -> {"none", "pending", "done", "exception"}]
      /\ \A i \in 1 .. Len(futures_queue) : futures_queue[i] \in Calls
  <2>1. futures_queue \in Seq(Calls)
    BY DEF TypeOK
  <2>2. \A i \in 1 .. Len(futures_queue) : futures_queue[i] \in Calls
    BY <2>1, ElementOfSeq
  <2> QED
    BY <2>1, <2>2, LenProperties DEF TypeOK
<1>1. CASE UNCHANGED <<future, futures_queue, current>>
  BY <1>1 DEF QueuedInv
<1>2. CASE MakeFuture
  <2>1. current = 0 /\ current' = 0 /\ call \in Calls /\ call = Len(calls) /\ future[call] = "none"
    BY <1>2, MakeFutureQueues DEF MakeFuture, CallInv, call
  <2>2. future' = [future EXCEPT ![call] = "pending"] /\ futures_queue' = Append(futures_queue, call)
    BY <1>2 DEF MakeFuture, FutureWrapper
  <2>3. /\ Len(futures_queue') = Len(futures_queue) + 1
        /\ \A i \in 1 .. Len(futures_queue) : futures_queue'[i] = futures_queue[i]
        /\ futures_queue'[Len(futures_queue) + 1] = call
    BY <1>0, <2>1, <2>2, AppendProperties
  <2>4. ASSUME NEW i \in 1 .. Len(futures_queue)
        PROVE  /\ futures_queue[i] \in Nat /\ futures_queue[i] < call
               /\ future'[futures_queue[i]] = "pending" /\ 0 < futures_queue[i]
    <3>1. futures_queue[i] \in Calls /\ future[futures_queue[i]] = "pending"
      BY <1>0 DEF QueuedInv
    <3>2. futures_queue[i] # call
      BY <2>1, <3>1
    <3>3. ~ (futures_queue[i] > Len(calls))
      BY <3>1 DEF CallInv
    <3>4. futures_queue[i] \in Nat /\ futures_queue[i] >= 1 /\ call \in Nat
      BY <2>1, <3>1, ExecutorTypes
    <3>5. future'[futures_queue[i]] = "pending"
      BY <1>0, <2>2, <3>1, <3>2
    <3> QED
      BY <2>1, <3>2, <3>3, <3>4, <3>5
  <2>5. call \in Nat /\ 0 < call /\ future'[call] = "pending"
    BY <1>0, <2>1, <2>2, ExecutorTypes
  <2>6. \A i \in 1 .. Len(futures_queue') : i \in 1 .. Len(futures_queue) \/ i = Len(futures_queue) + 1
    BY <1>0, <2>3
  <2>7. \A i, j \in 1 .. Len(futures_queue') : i < j => futures_queue'[i] < futures_queue'[j]
    <3> SUFFICES ASSUME NEW i \in 1 .. Len(futures_queue'), NEW j \in 1 .. Len(futures_queue'), i < j
                 PROVE  futures_queue'[i] < futures_queue'[j]
      OBVIOUS
    <3>1. i \in 1 .. Len(futures_queue)
      BY <1>0, <2>3
    <3>2. CASE j \in 1 .. Len(futures_queue)
      BY <2>3, <3>1, <3>2 DEF QueuedInv
    <3>3. CASE j = Len(futures_queue) + 1
      BY <2>3, <2>4, <3>1, <3>3
    <3> QED
      BY <2>6, <3>2, <3>3
  <2>8. \A i \in 1 .. Len(futures_queue') :
          future'[futures_queue'[i]] = "pending" /\ current' < futures_queue'[i]
    BY <2>1, <2>3, <2>4, <2>5, <2>6
  <2>9. ASSUME NEW c \in Calls, future'[c] = "pending"
        PROVE  \E i \in 1 .. Len(futures_queue') : futures_queue'[i] = c
    <3>1. CASE c = call
      BY <1>0, <2>3, <3>1
    <3>2. CASE c # call
      <4>1. future[c] = "pending" /\ c # 0
        BY <1>0, <2>2, <2>9, <3>2, ExecutorTypes
      <4>2. PICK i \in 1 .. Len(futures_queue) : futures_queue[i] = c
        BY <2>1, <4>1 DEF QueuedInv
      <4>3. i \in 1 .. Len(futures_queue')
        BY <1>0, <2>3
      <4> QED
        BY <2>3, <4>2, <4>3
    <3> QED
      BY <3>1, <3>2
  <2> QED
    BY <2>1, <2>7, <2>8, <2>9 DEF QueuedInv
<1>3. CASE Drain
  <2>1. /\ current = 0 /\ current' = Head(futures_queue) /\ futures_queue' = Tail(futures_queue)
        /\ UNCHANGED future
    BY <1>3 DEF Drain
  <2>2. futures_queue # << >>
    <3>1. waited \in Calls /\ waited # 0
      <4>1. waited \in 1 .. Len(calls) /\ Len(calls) \in 0 .. MaxCalls /\ MaxCalls \in Nat
        BY <1>3, ExecutorTypes DEF Drain, CallInv
      <4> QED
        BY <4>1 DEF Calls
    <3>2. \E i \in 1 .. Len(futures_queue) : futures_queue[i] = waited
      BY <1>3, <3>1 DEF Drain, QueuedInv
    <3> QED
      BY <1>0, <3>2
  <2>3. /\ Head(futures_queue) = futures_queue[1] /\ 1 \in 1 .. Len(futures_queue)
        /\ Len(Tail(futures_queue)) = Len(futures_queue) - 1
        /\ \A i \in 1 .. Len(Tail(futures_queue)) : Tail(futures_queue)[i] = futures_queue[i + 1]
    BY <1>0, <2>2, HeadTailProperties, EmptySeq
  <2>4. ASSUME NEW i \in 1 .. Len(futures_queue')
        PROVE  /\ i + 1 \in 1 .. Len(futures_queue) /\ 1 < i + 1
               /\ futures_queue'[i] = futures_queue[i + 1]
    BY <1>0, <2>1, <2>3
  <2>5. \A i, j \in 1 .. Len(futures_queue') : i < j => futures_queue'[i] < futures_queue'[j]
    <3> SUFFICES ASSUME NEW i \in 1 .. Len(futures_queue'), NEW j \in 1 .. Len(futures_queue'), i < j
                 PROVE  futures_queue'[i] < futures_queue'[j]
      OBVIOUS
    <3>1. i + 1 < j + 1
      OBVIOUS
    <3>2. futures_queue[i + 1] < futures_queue[j + 1]
      BY <2>4, <3>1 DEF QueuedInv
    <3> QED
      BY <2>4, <3>2
  <2>6. \A i \in 1 .. Len(futures_queue') :
          future'[futures_queue'[i]] = "pending" /\ current' < futures_queue'[i]
    BY <2>1, <2>3, <2>4 DEF QueuedInv
  <2>7. future'[current'] = "pending"
    BY <2>1, <2>3 DEF QueuedInv
  <2>8. ASSUME NEW c \in Calls, future'[c] = "pending"
        PROVE  c = current' \/ \E i \in 1 .. Len(futures_queue') : futures_queue'[i] = c
    <3>1. c # 0
      BY ExecutorTypes
    <3>2. PICK i \in 1 .. Len(futures_queue) : futures_queue[i] = c
      BY <2>1, <2>8, <3>1 DEF QueuedInv
    <3>3. CASE i = 1
      BY <2>1, <2>3, <3>2, <3>3
    <3>4. CASE i # 1
      <4>1. i - 1 \in 1 .. Len(futures_queue') /\ (i - 1) + 1 = i
        BY <1>0, <2>1, <2>3, <3>4
      <4> QED
        BY <2>4, <3>2, <4>1
    <3> QED
      BY <3>3, <3>4
  <2> QED
    BY <2>5, <2>6, <2>7, <2>8 DEF QueuedInv
<1>4. ASSUME NEW outcome \in {"done", "exception"}, Resolve(outcome), current # 0,
             UNCHANGED futures_queue
      PROVE  QueuedInv'
  <2>1. current \in Calls /\ future' = [future EXCEPT ![current] = outcome] /\ current' = 0
    BY <1>4, ReadFacts DEF Resolve
  <2>2. ASSUME NEW i \in 1 .. Len(futures_queue)
        PROVE  future'[futures_queue[i]] = "pending" /\ 0 < futures_queue[i]
    <3>1. futures_queue[i] \in Calls /\ future[futures_queue[i]] = "pending" /\ current < futures_queue[i]
      BY <1>0 DEF QueuedInv
    <3>2. futures_queue[i] \in Nat /\ futures_queue[i] >= 1 /\ current \in Nat
      BY <2>1, <3>1, ExecutorTypes
    <3>3. futures_queue[i] # current /\ 0 < futures_queue[i]
      BY <3>1, <3>2
    <3> QED
      BY <1>0, <2>1, <3>1, <3>3
  <2>3. ASSUME NEW c \in Calls, future'[c] = "pending"
        PROVE  c # current /\ future[c] = "pending"
    BY <1>0, <2>1, <2>3
  <2> QED
    BY <1>4, <2>1, <2>2, <2>3 DEF QueuedInv
<1>5. CASE GetResponse
  BY <1>1, <1>4, <1>5, ReadCases DEF GetResponse
<1>6. CASE GetResponseRaises
  BY <1>4, <1>6 DEF GetResponseRaises
<1>7. CASE Quiet \/ \E kind \in Kinds : Enqueue(kind)
  BY <1>1, <1>7 DEF Quiet, Enqueue, futureVars
<1>8. CASE \E w \in Ranks : Work(w) \/ EnqueueOutput(w)
  BY <1>1, <1>8 DEF Work, EnqueueOutput, futureVars
<1> QED
  BY <1>2, <1>3, <1>5, <1>6, <1>7, <1>8, StepCases

\* The kinds of the calls that have been made stay what they are.
LEMMA KindsStay ==
  ASSUME TypeOK, CallInv, NEW kind \in Kinds, Enqueue(kind)
  PROVE  /\ Len(calls)' = Len(calls) + 1
         /\ \A c \in Calls : c <= Len(calls) => kind_of(c)' = kind_of(c)
<1>1. calls \in Seq(Kinds) /\ calls' = Append(calls, kind)
  BY DEF Enqueue, TypeOK
<1>2. /\ Len(calls') = Len(calls) + 1
      /\ \A i \in 1 .. Len(calls) : calls'[i] = calls[i]
  BY <1>1, AppendProperties
<1>3. \A c \in Calls : c <= Len(calls) => c \in 1 .. Len(calls)
  BY ExecutorTypes DEF Calls
<1> QED
  BY <1>2, <1>3 DEF kind_of

\* A call that has a future has been made.
LEMMA MadeCalls ==
  ASSUME TypeOK, CallInv, NEW c \in Calls, future[c] # "none"
  PROVE  c <= Len(calls)
<1>1. ~ (c > Len(calls))
  BY DEF CallInv
<1>2. c \in Nat /\ Len(calls) \in Nat
  BY ExecutorTypes
<1> QED
  BY <1>1, <1>2

\* No call is made once the queues are closed.
LEMMA NoCallsWhenClosed ==
  ASSUME FailureInv, NEW kind \in Kinds, Enqueue(kind), epc # "dead"
  PROVE  ~ closed
BY DEF FailureInv, Enqueue

\* Every step keeps the queues that a future reads.
LEMMA TargetStep ==
  ASSUME TypeOK, FailureInv, CallInv, QueuedInv, TargetInv, [Next]_vars
  PROVE  TargetInv'
<1>0. /\ future \in [Calls -> {"none", "pending", "done", "exception"}]
      /\ targets \in [Calls -> Seq(Ranks)] /\ answers \in [Calls -> Seq(Response)]
  BY DEF TypeOK
<1>1. CASE UNCHANGED <<calls, future, targets, answers>> /\ (closed => closed')
  BY <1>1 DEF TargetInv, kind_of
<1>2. ASSUME NEW kind \in Kinds, Enqueue(kind), epc # "dead"
      PROVE  TargetInv'
  <2>1. ~ closed /\ UNCHANGED <<future, targets, answers>>
    BY <1>2, NoCallsWhenClosed DEF Enqueue, futureVars
  <2>2. \A c \in Calls : future[c] # "none" => kind_of(c)' = kind_of(c)
    BY <1>2, KindsStay, MadeCalls
  <2> QED
    BY <2>1, <2>2 DEF TargetInv
<1>3. CASE MakeFuture
  <2>1. call \in Calls /\ call = Len(calls) /\ future[call] = "none" /\ answers[call] = << >>
    BY <1>3, MakeFutureQueues DEF MakeFuture, CallInv, call
  <2>2. /\ future' = [future EXCEPT ![call] = "pending"]
        /\ targets' = [targets EXCEPT ![call] =
             IF closed THEN << >>
             ELSE IF UniqueReply(kind_of(call)) THEN <<output_rank>> ELSE AllRanks]
        /\ ~ (closed /\ UniqueReply(kind_of(call)))
        /\ UNCHANGED <<calls, answers, closed>>
    BY <1>3 DEF MakeFuture, failureVars
  <2>3. FutureTypes'
    BY FutureTypesStep
  <2>4. targets'[call] \in Seq(Ranks)
    BY <2>1, <2>3 DEF FutureTypes
  <2>5. Len(answers[call]) <= Len(targets'[call])
    <3>1. Len(answers[call]) = 0
      BY <2>1
    <3>2. Len(targets'[call]) \in Nat
      BY <2>4, LenProperties
    <3> QED
      BY <3>1, <3>2
  <2>6. targets'[call] = IF closed THEN << >>
                         ELSE IF UniqueReply(kind_of(call)) THEN <<output_rank>> ELSE AllRanks
    BY <1>0, <2>1, <2>2
  <2>7. future'[call] = "pending"
    BY <1>0, <2>1, <2>2
  <2>8. \A c \in Calls : kind_of(c)' = kind_of(c)
    BY <2>2 DEF kind_of
  <2>9. ASSUME NEW c \in Calls, future'[c] # "none"
        PROVE  /\ \/ targets'[c] = IF UniqueReply(kind_of(c)) THEN <<output_rank>> ELSE AllRanks
                  \/ targets'[c] = << >> /\ closed /\ c = Len(calls) /\ ~ UniqueReply(kind_of(c))
               /\ Len(answers[c]) <= Len(targets'[c])
               /\ future'[c] = "done" => Len(answers[c]) = Len(targets'[c])
    <3>1. CASE c = call
      BY <2>1, <2>2, <2>5, <2>6, <2>7, <3>1
    <3>2. CASE c # call
      <4>1. future'[c] = future[c] /\ targets'[c] = targets[c]
        BY <1>0, <2>2, <3>2
      <4> QED
        BY <2>9, <4>1 DEF TargetInv
    <3> QED
      BY <3>1, <3>2
  <2> QED
    BY <2>2, <2>8, <2>9 DEF TargetInv
<1>4. ASSUME NEW outcome \in {"done", "exception"}, Resolve(outcome), current # 0,
             outcome = "done" => Len(answers[current]) = Len(targets[current]),
             UNCHANGED <<calls, targets, answers, closed>>
      PROVE  TargetInv'
  <2>1. current \in Calls /\ future[current] = "pending"
    BY <1>4, ReadFacts
  <2>2. future' = [future EXCEPT ![current] = outcome]
    BY <1>4 DEF Resolve
  <2>3. ASSUME NEW c \in Calls
        PROVE  /\ future'[c] # "none" => future[c] # "none"
               /\ future'[c] = "done" => future[c] = "done" \/ (c = current /\ outcome = "done")
    <3>1. CASE c = current
      <4>1. future'[c] = outcome
        BY <1>0, <2>1, <2>2, <3>1
      <4> QED
        BY <2>1, <3>1, <4>1
    <3>2. CASE c # current
      <4>1. future'[c] = future[c]
        BY <1>0, <2>2, <3>2
      <4> QED
        BY <4>1
    <3> QED
      BY <3>1, <3>2
  <2> QED
    BY <1>4, <2>3 DEF TargetInv, kind_of
<1>5. CASE GetResponse
  <2>1. current # 0 /\ UNCHANGED <<calls, targets, closed>>
    BY <1>5 DEF GetResponse, failureVars
  <2>2. CASE Len(answers[current]) = Len(targets[current]) /\ Resolve("done") /\ UNCHANGED answers
    BY <1>4, <2>1, <2>2
  <2>3. CASE Resolve("exception") /\ UNCHANGED answers
    BY <1>4, <2>1, <2>3
  <2>4. ASSUME NEW n \in Ranks, n = Len(answers[current]) + 1, n <= Len(targets[current]),
               response_mqs[n] # << >>,
               answers' = [answers EXCEPT ![current] = Append(@, Head(response_mqs[n]))],
               UNCHANGED <<future, current>>
        PROVE  TargetInv'
    <3>1. current \in Calls /\ future[current] = "pending"
      BY <2>1, ReadFacts
    <3>2. response_mqs[n] \in Seq(Response) /\ answers[current] \in Seq(Response)
      BY <3>1, ExecutorTypes
    <3>3. Head(response_mqs[n]) \in Response
      BY <2>4, <3>2, HeadTailProperties
    <3>4. Len(Append(answers[current], Head(response_mqs[n]))) = n
      BY <2>4, <3>2, <3>3, AppendProperties
    <3>5. answers'[current] = Append(answers[current], Head(response_mqs[n]))
      BY <1>0, <2>4, <3>1
    <3>6. \A c \in Calls : c # current => answers'[c] = answers[c]
      BY <1>0, <2>4
    <3>7. \A c \in Calls : future[c] # "none" => Len(answers'[c]) <= Len(targets[c])
      BY <2>4, <3>4, <3>5, <3>6 DEF TargetInv
    <3>8. \A c \in Calls : future[c] = "done" => Len(answers'[c]) = Len(targets[c])
      BY <3>1, <3>6 DEF TargetInv
    <3> QED
      BY <2>1, <2>4, <3>7, <3>8 DEF TargetInv, kind_of
  <2> QED
    BY <1>5, <2>2, <2>3, <2>4, ReadCases
<1>6. CASE GetResponseRaises
  BY <1>4, <1>6 DEF GetResponseRaises, failureVars
<1>7. CASE Quiet \/ Drain
  BY <1>1, <1>7 DEF Quiet, Drain, failureVars
<1>8. CASE \E w \in Ranks : Work(w) \/ EnqueueOutput(w)
  BY <1>1, <1>8 DEF Work, EnqueueOutput, futureVars, failureVars
<1> QED
  BY <1>2, <1>3, <1>5, <1>6, <1>7, <1>8, StepCases

-----------------------------------------------------------------------------
\* What appending an answer to a queue adds to it.
LEMMA HasAppend ==
  ASSUME NEW q \in Seq(Response), NEW r \in Response
  PROVE  /\ Append(q, r) \in Seq(Response)
         /\ \A c : Has(Append(q, r), c) <=> Has(q, c) \/ r.call = c
         /\ Increasing(q) /\ (\A c \in Calls : Has(q, c) => c < r.call) => Increasing(Append(q, r))
<1> DEFINE a == Append(q, r)
<1>1. /\ a \in Seq(Response) /\ Len(a) = Len(q) + 1
      /\ \A i \in 1 .. Len(q) : a[i] = q[i]
      /\ a[Len(q) + 1] = r
  BY AppendProperties
<1>2. Len(q) \in Nat
  BY LenProperties
<1> HIDE DEF a
<1>3. /\ \A i \in 1 .. Len(a) : i \in 1 .. Len(q) \/ i = Len(q) + 1
      /\ \A i \in 1 .. Len(q) : i \in 1 .. Len(a)
      /\ Len(q) + 1 \in 1 .. Len(a)
  BY <1>1, <1>2
<1>4. \A c : Has(a, c) <=> Has(q, c) \/ r.call = c
  BY <1>1, <1>3 DEF Has
<1>5. ASSUME Increasing(q), \A c \in Calls : Has(q, c) => c < r.call,
             NEW i \in 1 .. Len(a), NEW j \in 1 .. Len(a), i < j
      PROVE  a[i].call < a[j].call
  <2>1. i \in 1 .. Len(q)
    BY <1>1, <1>2, <1>5
  <2>2. q[i].call \in Calls /\ Has(q, q[i].call)
    BY <2>1, ResponseTypes DEF Has
  <2>3. CASE j = Len(q) + 1
    BY <1>1, <1>5, <2>1, <2>2, <2>3
  <2>4. CASE j \in 1 .. Len(q)
    BY <1>1, <1>5, <2>1, <2>4 DEF Increasing
  <2> QED
    BY <1>3, <2>3, <2>4
<1> QED
  BY <1>1, <1>4, <1>5 DEF a, Increasing

\* What taking the first answer from a queue leaves in it.
LEMMA HasTail ==
  ASSUME NEW q \in Seq(Response), q # << >>
  PROVE  /\ Head(q) \in Response /\ Head(q).call \in Calls /\ Tail(q) \in Seq(Response)
         /\ \A c : Has(q, c) <=> Head(q).call = c \/ Has(Tail(q), c)
         /\ Increasing(q) => /\ Increasing(Tail(q))
                             /\ \A c \in Calls : Has(Tail(q), c) => Head(q).call < c
<1> DEFINE t == Tail(q)
<1>1. /\ Head(q) = q[1] /\ t \in Seq(Response) /\ Len(t) = Len(q) - 1
      /\ \A i \in 1 .. Len(t) : t[i] = q[i + 1]
  BY HeadTailProperties
<1>2. Len(q) \in Nat /\ Len(q) # 0
  BY LenProperties, EmptySeq
<1> HIDE DEF t
<1>3. 1 \in 1 .. Len(q)
  BY <1>2
<1>4. q[1] \in Response /\ q[1].call \in Calls
  BY <1>3, ResponseTypes
<1>5. ASSUME NEW i \in 1 .. Len(t)
      PROVE  i + 1 \in 1 .. Len(q) /\ 1 < i + 1 /\ t[i] = q[i + 1]
  BY <1>1, <1>2
<1>6. ASSUME NEW i \in 1 .. Len(q), i # 1
      PROVE  i - 1 \in 1 .. Len(t) /\ t[i - 1] = q[i]
  <2>1. i - 1 \in 1 .. Len(t) /\ (i - 1) + 1 = i
    BY <1>1, <1>2, <1>6
  <2> QED
    BY <1>5, <2>1
<1>7. \A c : Has(q, c) <=> q[1].call = c \/ Has(t, c)
  <2>1. ASSUME NEW c, Has(q, c)
        PROVE  q[1].call = c \/ Has(t, c)
    BY <1>6, <2>1 DEF Has
  <2>2. ASSUME NEW c, Has(t, c)
        PROVE  Has(q, c)
    BY <1>5, <2>2 DEF Has
  <2>3. Has(q, q[1].call)
    BY <1>3 DEF Has
  <2> QED
    BY <2>1, <2>2, <2>3
<1>8. ASSUME Increasing(q)
      PROVE  Increasing(t) /\ \A c \in Calls : Has(t, c) => q[1].call < c
  <2>1. ASSUME NEW i \in 1 .. Len(t), NEW j \in 1 .. Len(t), i < j
        PROVE  t[i].call < t[j].call
    <3>1. i + 1 < j + 1
      BY <2>1
    <3>2. q[i + 1].call < q[j + 1].call
      BY <1>5, <1>8, <3>1 DEF Increasing
    <3> QED
      BY <1>5, <3>2
  <2>2. ASSUME NEW i \in 1 .. Len(t)
        PROVE  q[1].call < t[i].call
    BY <1>3, <1>5, <1>8 DEF Increasing
  <2> QED
    BY <2>1, <2>2 DEF Increasing, Has
<1> QED
  BY <1>1, <1>4, <1>7, <1>8 DEF t

\* A future that is resolved stays so, its call keeps its kind, and closed queues stay closed.
LEMMA ResolvedStays ==
  ASSUME TypeOK, CallInv, QueuedInv, TargetInv, [Next]_vars
  PROVE  /\ env' = env /\ (closed => closed')
         /\ \A c \in Calls : future[c] \in {"done", "exception"} => future'[c] = future[c]
         /\ \A c \in Calls : c <= Len(calls) => kind_of(c)' = kind_of(c)
<1>0. future \in [Calls -> {"none", "pending", "done", "exception"}]
  BY DEF TypeOK
<1>1. CASE UNCHANGED <<env, calls, future>> /\ (closed => closed')
  BY <1>1 DEF kind_of
<1>2. ASSUME NEW kind \in Kinds, Enqueue(kind)
      PROVE  /\ env' = env /\ (closed => closed')
             /\ \A c \in Calls : future[c] \in {"done", "exception"} => future'[c] = future[c]
             /\ \A c \in Calls : c <= Len(calls) => kind_of(c)' = kind_of(c)
  BY <1>2, KindsStay DEF Enqueue, futureVars, failureVars
<1>3. CASE MakeFuture
  <2>1. future[call] = "none" /\ future' = [future EXCEPT ![call] = "pending"]
    BY <1>3 DEF MakeFuture, CallInv, call
  <2>2. \A c \in Calls : future[c] \in {"done", "exception"} => future'[c] = future[c]
    BY <1>0, <2>1
  <2>3. UNCHANGED <<env, calls, closed>>
    BY <1>3 DEF MakeFuture, failureVars
  <2> QED
    BY <2>2, <2>3 DEF kind_of
<1>4. CASE /\ UNCHANGED <<env, calls, closed>> /\ current # 0
           /\ Resolve("done") \/ Resolve("exception")
  <2>1. future[current] = "pending"
    BY <1>4, ReadFacts
  <2>2. \A c \in Calls : c # current => future'[c] = future[c]
    BY <1>0, <1>4 DEF Resolve
  <2>3. \A c \in Calls : future[c] \in {"done", "exception"} => future'[c] = future[c]
    BY <2>1, <2>2
  <2> QED
    BY <1>4, <2>3 DEF kind_of
<1>5. CASE GetResponse
  <2>1. UNCHANGED <<env, calls, closed>> /\ current # 0
    BY <1>5 DEF GetResponse, failureVars
  <2> QED
    BY <1>1, <1>4, <1>5, <2>1, ReadCases
<1>6. CASE GetResponseRaises
  BY <1>4, <1>6 DEF GetResponseRaises, failureVars
<1>7. CASE Quiet \/ Drain
  BY <1>1, <1>7 DEF Quiet, Drain, failureVars
<1>8. CASE \E w \in Ranks : Work(w) \/ EnqueueOutput(w)
  BY <1>1, <1>8 DEF Work, EnqueueOutput, futureVars, failureVars
<1> QED
  BY <1>2, <1>3, <1>5, <1>6, <1>7, <1>8, StepCases

\* A call that was given up stays so.
LEMMA GivenUpStays ==
  ASSUME TypeOK, CallInv, QueuedInv, TargetInv, [Next]_vars, NEW c \in Calls
  PROVE  (GivenUp(c) => GivenUp(c)') /\ (GivenUpBefore(c) => GivenUpBefore(c)')
<1>1. ASSUME NEW d \in Calls, GivenUp(d)
      PROVE  GivenUp(d)'
  <2>1. future[d] = "exception" /\ (kind_of(d) = "utility" \/ kind_of(d) \in env.timed_out)
    BY <1>1 DEF GivenUp
  <2>2. d <= Len(calls)
    BY <2>1, MadeCalls
  <2>3. future'[d] = "exception" /\ kind_of(d)' = kind_of(d) /\ env' = env
    BY <2>1, <2>2, ResolvedStays
  <2> QED
    BY <2>1, <2>3 DEF GivenUp
<1> QED
  BY <1>1 DEF GivenUpBefore

-----------------------------------------------------------------------------
\* Futures are drained in the order of their calls: every call before the one that is being
\* drained is over.
LEMMA DrainedInOrder ==
  ASSUME TypeOK, CallInv, QueuedInv, TargetInv, current # 0, NEW d \in Calls, d < current
  PROVE  future[d] \in {"done", "exception"} /\ targets[d] # << >>
<1>1. current \in Calls /\ current <= Len(calls)
  BY ReadFacts
<1>2. d \in Nat /\ current \in Nat /\ Len(calls) \in Nat
  BY <1>1, ExecutorTypes
<1>3. d < Len(calls)
  BY <1>1, <1>2
<1>4. future[d] # "none"
  BY <1>3 DEF CallInv
<1>5. future[d] # "pending"
  <2>1. ASSUME NEW i \in 1 .. Len(futures_queue), futures_queue[i] = d
        PROVE  FALSE
    BY <1>2, <2>1 DEF QueuedInv
  <2> QED
    BY <1>2, <2>1 DEF QueuedInv
<1>6. targets[d] # << >>
  <2>1. targets[d] = <<output_rank>> \/ targets[d] = AllRanks
    BY <1>2, <1>3, <1>4 DEF TargetInv
  <2>2. AllRanks # << >>
    <3>1. 1 \in Ranks
      BY ExecutorAssumption DEF Ranks
    <3>2. 1 \in DOMAIN AllRanks
      BY <3>1 DEF AllRanks
    <3> QED
      BY <3>2
  <2> QED
    BY <2>1, <2>2
<1>7. future[d] \in {"none", "pending", "done", "exception"}
  BY DEF TypeOK
<1> QED
  BY <1>4, <1>5, <1>6, <1>7

\* The first answer in the queue that is read is to the call of the future that reads it,
\* or an earlier call was given up.
LEMMA HeadIsAnswer ==
  ASSUME TypeOK, CallInv, QueuedInv, TargetInv, current # 0,
         NEW n \in Ranks, AnswerInv(n), Answers(n, current), Unread(n, current),
         response_mqs[n] # << >>
  PROVE  /\ Head(response_mqs[n]).call <= current
         /\ Head(response_mqs[n]).call <= taken[n]
         /\ Head(response_mqs[n]).call = current \/ GivenUpBefore(current)
<1> DEFINE d == Head(response_mqs[n]).call
<1>0. current \in Calls /\ current \in Nat
  BY ReadFacts, ExecutorTypes
<1>1. response_mqs[n] \in Seq(Response) /\ taken[n] \in Nat
  BY ExecutorTypes
<1>2. /\ d \in Calls
      /\ \A c : Has(response_mqs[n], c) <=> d = c \/ Has(Tail(response_mqs[n]), c)
      /\ \A c \in Calls : Has(Tail(response_mqs[n]), c) => d < c
  BY <1>1, HasTail DEF AnswerInv, OrderInv
<1>3. d \in Nat
  BY <1>2, ExecutorTypes
<1> HIDE DEF d
<1>4. Has(response_mqs[n], d) /\ InQueues(n, d)
  BY <1>2 DEF InQueues
<1>5. d <= taken[n] /\ MayBeQueued(n, d)
  BY <1>2, <1>4 DEF AnswerInv
<1>6. d <= current
  <2> SUFFICES ASSUME d > current
               PROVE  FALSE
    BY <1>0, <1>3
  <2>1. current <= taken[n]
    BY <1>0, <1>1, <1>3, <1>5
  <2>2. InQueues(n, current)
    BY <1>0, <2>1 DEF AnswerInv
  <2>3. CASE Has(response_mqs[n], current)
    BY <1>0, <1>2, <1>3, <2>3
  <2>4. CASE Has(async_output_queue[n], current)
    <3>1. d < current
      BY <1>0, <1>2, <1>4, <2>4 DEF AnswerInv, OrderInv
    <3> QED
      BY <1>0, <1>3, <3>1
  <2> QED
    BY <2>2, <2>3, <2>4 DEF InQueues
<1>7. ASSUME d # current
      PROVE  GivenUpBefore(current)
  <2>1. d < current
    BY <1>0, <1>3, <1>6, <1>7
  <2>2. future[d] \in {"done", "exception"} /\ targets[d] # << >>
    BY <1>2, <2>1, DrainedInOrder
  <2>3. GivenUp(d) \/ GivenUpBefore(d)
    BY <1>5, <2>2 DEF MayBeQueued, Unread
  <2>4. CASE GivenUp(d)
    BY <1>2, <2>1, <2>4 DEF GivenUpBefore
  <2>5. CASE GivenUpBefore(d)
    <3>1. PICK e \in Calls : e < d /\ GivenUp(e)
      BY <2>5 DEF GivenUpBefore
    <3>2. e \in Nat
      BY ExecutorTypes
    <3>3. e < current
      BY <1>0, <1>3, <2>1, <3>1, <3>2
    <3> QED
      BY <3>1, <3>3 DEF GivenUpBefore
  <2> QED
    BY <2>3, <2>4, <2>5
<1> QED
  BY <1>5, <1>6, <1>7 DEF d

\* Workers only move on.
LEMMA TakenStays ==
  ASSUME TypeOK, CallInv, [Next]_vars, NEW w \in Ranks
  PROVE  taken'[w] \in Nat /\ taken'[w] >= taken[w] /\ (taken'[w] # taken[w] => Work(w))
<1>0. taken \in [Ranks -> 0 .. MaxCalls] /\ taken[w] \in Nat
  BY ExecutorTypes DEF TypeOK
<1>1. CASE UNCHANGED taken
  BY <1>0, <1>1
<1>2. ASSUME NEW v \in Ranks, Work(v)
      PROVE  taken'[w] \in Nat /\ taken'[w] >= taken[w] /\ (taken'[w] # taken[w] => Work(w))
  <2>1. taken' = [taken EXCEPT ![v] = @ + 1]
    BY <1>2 DEF Work
  <2>2. CASE v = w
    BY <1>0, <1>2, <2>1, <2>2
  <2>3. CASE v # w
    BY <1>0, <2>1, <2>3
  <2> QED
    BY <2>2, <2>3
<1>3. CASE Quiet \/ (\E kind \in Kinds : Enqueue(kind)) \/ MakeFuture \/ Drain
  BY <1>1, <1>3 DEF Quiet, Enqueue, MakeFuture, Drain, workerVars
<1>4. CASE GetResponse \/ GetResponseRaises \/ \E v \in Ranks : EnqueueOutput(v)
  BY <1>1, <1>4 DEF GetResponse, GetResponseRaises, EnqueueOutput, workerVars
<1> QED
  BY <1>2, <1>3, <1>4, StepCases

\* Every answer that has been read is to the call of its future.
LEMMA MatchStep ==
  ASSUME ExecutorInv, [Next]_vars
  PROVE  AnswersMatchCalls'
<1>0. /\ TypeOK /\ CallInv /\ QueuedInv /\ TargetInv /\ AnswersMatchCalls
      /\ \A w \in Ranks : AnswerInv(w)
  BY DEF ExecutorInv
<1>1. \A c \in Calls : GivenUpBefore(c) => GivenUpBefore(c)'
  BY <1>0, GivenUpStays
<1>2. CASE UNCHANGED answers
  BY <1>0, <1>1, <1>2 DEF AnswersMatchCalls
<1>3. CASE GetResponse
  <2>0. current # 0
    BY <1>3 DEF GetResponse
  <2>1. ASSUME NEW n \in Ranks, n = Len(answers[current]) + 1,
               Answers(n, current), Unread(n, current), response_mqs[n] # << >>,
               answers' = [answers EXCEPT ![current] = Append(@, Head(response_mqs[n]))]
        PROVE  AnswersMatchCalls'
    <3>1. Head(response_mqs[n]).call = current \/ GivenUpBefore(current)
      BY <1>0, <2>0, <2>1, HeadIsAnswer
    <3>2. /\ current \in Calls /\ answers \in [Calls -> Seq(Response)]
          /\ answers[current] \in Seq(Response) /\ response_mqs[n] \in Seq(Response)
      BY <1>0, <2>0, ReadFacts, ExecutorTypes DEF TypeOK
    <3>3. Head(response_mqs[n]) \in Response
      BY <2>1, <3>2, HasTail
    <3>4. ASSUME NEW c \in Calls, NEW i \in DOMAIN answers'[c]
          PROVE  answers'[c][i].call = c \/ GivenUpBefore(c)
      <4>1. CASE c = current
        <5>1. answers'[c] = Append(answers[current], Head(response_mqs[n]))
          BY <2>1, <3>2, <4>1
        <5>2. CASE i \in DOMAIN answers[current]
          <6>1. answers'[c][i] = answers[current][i]
            BY <3>2, <3>3, <5>1, <5>2, AppendProperties, LenProperties
          <6> QED
            BY <1>0, <4>1, <5>2, <6>1 DEF AnswersMatchCalls
        <5>3. CASE i \notin DOMAIN answers[current]
          <6>1. answers'[c][i] = Head(response_mqs[n])
            BY <3>2, <3>3, <5>1, <5>3, AppendProperties, LenProperties
          <6> QED
            BY <3>1, <4>1, <6>1
        <5> QED
          BY <5>2, <5>3
      <4>2. CASE c # current
        <5>1. answers'[c] = answers[c]
          BY <2>1, <3>2, <4>2
        <5> QED
          BY <1>0, <5>1 DEF AnswersMatchCalls
      <4> QED
        BY <4>1, <4>2
    <3> QED
      BY <1>1, <3>4 DEF AnswersMatchCalls
  <2> QED
    BY <1>0, <1>2, <1>3, <2>1, ReadCases
<1>4. CASE Quiet \/ (\E kind \in Kinds : Enqueue(kind)) \/ MakeFuture \/ Drain
  BY <1>2, <1>4 DEF Quiet, Enqueue, MakeFuture, Drain, futureVars
<1>5. CASE GetResponseRaises \/ \E w \in Ranks : Work(w) \/ EnqueueOutput(w)
  BY <1>2, <1>5 DEF GetResponseRaises, Work, EnqueueOutput, futureVars
<1> QED
  BY <1>3, <1>4, <1>5, StepCases

\* A call that all workers answer, or that is past its deadline, is given up when it raises.
LEMMA RaisedGivenUp ==
  ASSUME TypeOK, NEW c \in Calls, c = current, Resolve("exception"), UNCHANGED <<env, calls>>,
         kind_of(c) = "utility" \/ kind_of(c) \in env.timed_out
  PROVE  GivenUp(c)'
<1>1. future'[c] = "exception"
  BY DEF Resolve, TypeOK
<1>2. kind_of(c)' = kind_of(c)
  BY DEF kind_of
<1> QED
  BY <1>1, <1>2 DEF GivenUp

\* Only the output rank answers the other calls.
LEMMA OneAnswers ==
  ASSUME TypeOK, NEW w \in Ranks, NEW c \in Calls, Answers(w, c), kind_of(c) # "utility"
  PROVE  w = output_rank
BY DEF Answers, UniqueReply

\* Every step keeps what is known of the workers whose answers have been read.
LEMMA ReadStep ==
  ASSUME ExecutorInv, [Next]_vars
  PROVE  ReadInv'
<1>0. /\ TypeOK /\ CallInv /\ QueuedInv /\ TargetInv /\ ReadInv
      /\ \A w \in Ranks : AnswerInv(w)
  BY DEF ExecutorInv
<1>1. /\ \A c \in Calls : GivenUp(c) => GivenUp(c)'
      /\ \A c \in Calls : GivenUpBefore(c) => GivenUpBefore(c)'
      /\ closed => closed'
  BY <1>0, GivenUpStays, ResolvedStays
<1>2. /\ \A w \in Ranks : taken[w] \in Nat /\ taken'[w] \in Nat /\ taken'[w] >= taken[w]
      /\ output_rank \in Ranks /\ NumWorkers \in Nat
      /\ \A c \in Calls : c \in Nat
  BY <1>0, TakenStays, ExecutorTypes
<1>3. \A w \in Ranks, c \in Calls : taken[w] >= c => taken'[w] >= c
  BY <1>2
<1>4. ASSUME NEW c \in Calls, NEW i \in 1 .. Len(answers[c])
      PROVE  GivenUpBefore(c)' \/ taken'[i] >= c
  <2>1. i \in Ranks
    <3>1. Len(answers[c]) <= NumWorkers
      <4>1. Len(answers[c]) \in Nat
        BY <1>0, ExecutorTypes
      <4>2. CASE future[c] = "none"
        <5>1. answers[c] = << >>
          BY <1>0, <4>2 DEF CallInv
        <5> QED
          BY <1>2, <5>1
      <4>3. CASE future[c] # "none"
        <5>1. targets[c] = <<output_rank>> \/ targets[c] = AllRanks \/ targets[c] = << >>
          BY <1>0, <4>3 DEF TargetInv
        <5>2. Len(AllRanks) = NumWorkers
          BY <1>2 DEF AllRanks, Ranks
        <5>3. NumWorkers \in Nat /\ NumWorkers >= 1
          BY ExecutorAssumption
        <5>4. Len(<<output_rank>>) = 1 /\ Len(<< >>) = 0
          OBVIOUS
        <5>5. Len(targets[c]) \in Nat /\ Len(targets[c]) <= NumWorkers
          <6>1. CASE targets[c] = <<output_rank>>
            BY <5>3, <5>4, <6>1
          <6>2. CASE targets[c] = AllRanks
            BY <5>2, <5>3, <6>2
          <6>3. CASE targets[c] = << >>
            BY <5>3, <5>4, <6>3
          <6> QED
            BY <5>1, <6>1, <6>2, <6>3
        <5>6. Len(answers[c]) <= Len(targets[c])
          BY <1>0, <4>3 DEF TargetInv
        <5> QED
          BY <4>1, <5>3, <5>5, <5>6
      <4> QED
        BY <4>2, <4>3
    <3> QED
      BY <1>0, <1>2, <3>1, ExecutorTypes DEF Ranks
  <2>2. GivenUpBefore(c) \/ taken[i] >= c
    BY <1>0 DEF ReadInv
  <2> QED
    BY <1>1, <1>3, <2>1, <2>2
<1>5. ASSUME NEW c \in Calls, future[c] = "exception"
      PROVE  GivenUp(c)' \/ GivenUpBefore(c)' \/ closed' \/ taken'[output_rank] >= c
  <2>1. GivenUp(c) \/ GivenUpBefore(c) \/ closed \/ taken[output_rank] >= c
    BY <1>0, <1>5 DEF ReadInv
  <2> QED
    BY <1>1, <1>2, <1>3, <2>1
<1>6. CASE /\ UNCHANGED answers
           /\ \A c \in Calls : future'[c] = "exception" => future[c] = "exception"
  BY <1>4, <1>5, <1>6 DEF ReadInv
<1>7. future \in [Calls -> {"none", "pending", "done", "exception"}]
  BY <1>0 DEF TypeOK
<1>8. CASE MakeFuture
  <2>1. UNCHANGED answers /\ future' = [future EXCEPT ![call] = "pending"]
    BY <1>8 DEF MakeFuture
  <2>2. \A c \in Calls : future'[c] = "exception" => future[c] = "exception"
    BY <1>7, <2>1
  <2> QED
    BY <1>6, <2>1, <2>2
<1>9. ASSUME NEW c \in Calls, c = current, Resolve("exception"), UNCHANGED answers,
             GivenUp(c)' \/ GivenUpBefore(c)' \/ closed' \/ taken'[output_rank] >= c
      PROVE  ReadInv'
  <2>1. \A d \in Calls : d # c => future'[d] = future[d]
    BY <1>7, <1>9 DEF Resolve
  <2> QED
    BY <1>4, <1>5, <1>9, <2>1 DEF ReadInv
<1>10. CASE GetResponse
  <2>0. current # 0 /\ UNCHANGED <<env, calls>>
    BY <1>10 DEF GetResponse
  <2>1. PICK c \in Calls : c = current
    BY <1>0, <2>0, ReadFacts
  <2>2. CASE Resolve("done") /\ UNCHANGED answers
    <3>1. \A d \in Calls : future'[d] = "exception" => future[d] = "exception"
      BY <1>7, <2>2 DEF Resolve
    <3> QED
      BY <1>6, <2>2, <3>1
  <2>3. ASSUME NEW n \in Ranks, n = Len(answers[c]) + 1,
               Answers(n, c), Unread(n, c), response_mqs[n] # << >>
        PROVE  GivenUpBefore(c) \/ taken[n] >= c
    <3>1. /\ Head(response_mqs[n]).call = current \/ GivenUpBefore(current)
          /\ Head(response_mqs[n]).call <= taken[n]
      BY <1>0, <2>0, <2>1, <2>3, HeadIsAnswer
    <3>2. current \in Nat /\ taken[n] \in Nat
      BY <1>2, <2>1
    <3> QED
      BY <2>1, <3>1, <3>2
  <2>4. ASSUME NEW n \in Ranks, n = Len(answers[c]) + 1,
               Answers(n, c), Unread(n, c), response_mqs[n] # << >>,
               Resolve("exception"), UNCHANGED answers
        PROVE  ReadInv'
    <3>1. CASE kind_of(c) = "utility"
      BY <1>0, <1>9, <2>0, <2>1, <2>4, <3>1, RaisedGivenUp
    <3>2. CASE kind_of(c) # "utility"
      <4>1. n = output_rank
        BY <1>0, <2>4, <3>2, OneAnswers
      <4>2. GivenUpBefore(c)' \/ taken'[output_rank] >= c
        BY <1>1, <1>3, <2>3, <2>4, <4>1
      <4> QED
        BY <1>9, <2>1, <2>4, <4>2
    <3> QED
      BY <3>1, <3>2
  <2>5. ASSUME NEW n \in Ranks, n = Len(answers[c]) + 1,
               Answers(n, c), Unread(n, c), response_mqs[n] # << >>,
               answers' = [answers EXCEPT ![c] = Append(@, Head(response_mqs[n]))],
               UNCHANGED future
        PROVE  ReadInv'
    <3>1. /\ answers \in [Calls -> Seq(Response)]
          /\ answers[c] \in Seq(Response) /\ response_mqs[n] \in Seq(Response)
          /\ Len(answers[c]) \in Nat
      BY <1>0, ExecutorTypes DEF TypeOK
    <3>2. Head(response_mqs[n]) \in Response
      BY <2>5, <3>1, HasTail
    <3>3. Len(Append(answers[c], Head(response_mqs[n]))) = n
      BY <2>5, <3>1, <3>2, AppendProperties
    <3>4. Len(answers'[c]) = n /\ \A d \in Calls : d # c => answers'[d] = answers[d]
      BY <2>5, <3>1, <3>3
    <3>5. \A i \in 1 .. n : i \in 1 .. Len(answers[c]) \/ i = n
      BY <2>5, <3>1
    <3>6. GivenUpBefore(c)' \/ taken'[n] >= c
      BY <1>1, <1>3, <2>3, <2>5
    <3>7. \A d \in Calls : \A i \in 1 .. Len(answers'[d]) : GivenUpBefore(d)' \/ taken'[i] >= d
      BY <1>4, <3>4, <3>5, <3>6
    <3> QED
      BY <1>5, <2>5, <3>7 DEF ReadInv
  <2> QED
    BY <1>0, <1>10, <2>1, <2>2, <2>4, <2>5, ReadCases
<1>11. CASE GetResponseRaises
  <2>0. /\ current # 0 /\ UNCHANGED <<env, calls, answers, closed>> /\ Resolve("exception")
        /\ closed \/ kind_of(current) \in env.timed_out
    BY <1>11 DEF GetResponseRaises, failureVars
  <2>1. PICK c \in Calls : c = current
    BY <1>0, <2>0, ReadFacts
  <2>2. closed' \/ GivenUp(c)'
    BY <1>0, <2>0, <2>1, RaisedGivenUp
  <2> QED
    BY <1>9, <2>0, <2>1, <2>2
<1>12. CASE Quiet \/ (\E kind \in Kinds : Enqueue(kind)) \/ Drain
  BY <1>6, <1>12 DEF Quiet, Enqueue, Drain, futureVars
<1>13. CASE \E w \in Ranks : Work(w) \/ EnqueueOutput(w)
  BY <1>6, <1>13 DEF Work, EnqueueOutput, futureVars
<1> QED
  BY <1>8, <1>10, <1>11, <1>12, <1>13, StepCases

-----------------------------------------------------------------------------
\* Calls are only added.
LEMMA CallsStay ==
  ASSUME TypeOK, CallInv, [Next]_vars
  PROVE  Len(calls) \in Nat /\ Len(calls)' \in Nat /\ Len(calls)' >= Len(calls)
<1>0. Len(calls) \in Nat
  BY ExecutorTypes
<1>1. CASE UNCHANGED calls
  BY <1>0, <1>1
<1>2. CASE \E kind \in Kinds : Enqueue(kind)
  BY <1>0, <1>2, KindsStay
<1>3. CASE Quiet \/ MakeFuture \/ Drain \/ GetResponse \/ GetResponseRaises
  BY <1>1, <1>3 DEF Quiet, MakeFuture, Drain, GetResponse, GetResponseRaises
<1>4. CASE \E w \in Ranks : Work(w) \/ EnqueueOutput(w)
  BY <1>1, <1>4 DEF Work, EnqueueOutput
<1> QED
  BY <1>2, <1>3, <1>4, StepCases

\* A future keeps the queues it reads.
LEMMA TargetsStay ==
  ASSUME TypeOK, CallInv, [Next]_vars, NEW c \in Calls, future[c] # "none"
  PROVE  targets'[c] = targets[c]
<1>1. CASE UNCHANGED targets
  BY <1>1
<1>2. CASE MakeFuture
  <2>1. c # call
    BY <1>2 DEF MakeFuture, CallInv, call
  <2>2. \E ranks : targets' = [targets EXCEPT ![call] = ranks]
    BY <1>2 DEF MakeFuture
  <2> QED
    BY <2>1, <2>2 DEF TypeOK
<1>3. CASE Quiet \/ (\E kind \in Kinds : Enqueue(kind)) \/ Drain
  BY <1>1, <1>3 DEF Quiet, Enqueue, Drain, futureVars
<1>4. CASE GetResponse \/ GetResponseRaises \/ \E w \in Ranks : Work(w) \/ EnqueueOutput(w)
  BY <1>1, <1>4 DEF GetResponse, GetResponseRaises, Work, EnqueueOutput, futureVars
<1> QED
  BY <1>2, <1>3, <1>4, StepCases

\* An answer that may be in worker w's queues still may be after a step that does not read it.
LEMMA MayBeQueuedStays ==
  ASSUME TypeOK, CallInv, QueuedInv, TargetInv, [Next]_vars, NEW w \in Ranks, NEW c \in Calls,
         MayBeQueued(w, c), Unread(w, c) => Unread(w, c)',
         closed /\ response_mqs[w] = << >> => response_mqs'[w] = << >>
  PROVE  MayBeQueued(w, c)'
<1>1. CASE Unread(w, c)
  BY <1>1 DEF MayBeQueued
<1>2. CASE GivenUp(c) \/ GivenUpBefore(c)
  BY <1>2, GivenUpStays DEF MayBeQueued
<1>3. CASE future[c] = "exception" /\ closed /\ response_mqs[w] = << >>
  <2>1. future'[c] = "exception" /\ closed'
    BY <1>3, ResolvedStays
  <2> QED
    BY <1>3, <2>1 DEF MayBeQueued
<1>4. CASE future[c] = "done" /\ targets[c] = << >>
  <2>1. future'[c] = "done"
    BY <1>4, ResolvedStays
  <2>2. targets'[c] = << >>
    BY <1>4, TargetsStay
  <2> QED
    BY <2>1, <2>2 DEF MayBeQueued
<1> QED
  BY <1>1, <1>2, <1>3, <1>4 DEF MayBeQueued

\* A worker answers the calls it has taken as before.
LEMMA AnswersStay ==
  ASSUME TypeOK, CallInv, QueuedInv, TargetInv, [Next]_vars, NEW w \in Ranks, NEW c \in Calls,
         c <= Len(calls)
  PROVE  Answers(w, c)' <=> Answers(w, c)
<1>1. kind_of(c)' = kind_of(c)
  BY ResolvedStays
<1> QED
  BY <1>1 DEF Answers, UniqueReply

\* A step that leaves worker w and its queues alone keeps AnswerInv(w), if what it reads for
\* other workers, or gives up, is accounted for.
LEMMA AnswerFrame ==
  ASSUME TypeOK, CallInv, QueuedInv, TargetInv, [Next]_vars, NEW w \in Ranks, AnswerInv(w),
         taken'[w] = taken[w], response_mqs'[w] = response_mqs[w],
         async_output_queue'[w] = async_output_queue[w],
         \A c \in Calls : Unread(w, c)' => Unread(w, c),
         \A c \in Calls : InQueues(w, c) /\ Answers(w, c) /\ Unread(w, c) => MayBeQueued(w, c)'
  PROVE  AnswerInv(w)'
<1>1. taken[w] \in Nat /\ taken[w] <= Len(calls) /\ \A c \in Calls : c \in Nat
  BY ExecutorTypes DEF AnswerInv, OrderInv
<1>2. Len(calls) \in Nat /\ Len(calls)' \in Nat /\ Len(calls)' >= Len(calls)
  BY CallsStay
<1>3. \A c \in Calls : c <= taken[w] => (Answers(w, c)' <=> Answers(w, c))
  BY <1>1, <1>2, AnswersStay
<1>4. \A c \in Calls : InQueues(w, c)' <=> InQueues(w, c)
  BY DEF InQueues, Has
<1>5. OrderInv(w)'
  <2>1. taken'[w] <= Len(calls)'
    BY <1>1, <1>2
  <2> QED
    BY <2>1 DEF AnswerInv, OrderInv, Increasing, Has
<1>6. ASSUME NEW c \in Calls, InQueues(w, c)
      PROVE  c <= taken[w] /\ Answers(w, c)' /\ MayBeQueued(w, c)'
  <2>1. c <= taken[w] /\ Answers(w, c) /\ MayBeQueued(w, c)
    BY <1>6 DEF AnswerInv
  <2>2. Answers(w, c)'
    BY <1>3, <2>1
  <2>3. CASE Unread(w, c)
    BY <1>6, <2>1, <2>2, <2>3
  <2>4. CASE ~ Unread(w, c)
    BY <2>1, <2>2, <2>4, MayBeQueuedStays
  <2> QED
    BY <2>1, <2>2, <2>3, <2>4
<1>7. ASSUME NEW c \in Calls, c <= taken[w], Answers(w, c)', Unread(w, c)'
      PROVE  InQueues(w, c)
  BY <1>3, <1>7 DEF AnswerInv
<1> QED
  BY <1>4, <1>5, <1>6, <1>7 DEF AnswerInv

\* Reading the first answer of worker n's queue keeps AnswerInv(n).
LEMMA AnswerRead ==
  ASSUME TypeOK, CallInv, QueuedInv, TargetInv, [Next]_vars, current # 0,
         NEW n \in Ranks, AnswerInv(n), NEW k \in Calls, k = current,
         Answers(n, k), Unread(n, k), response_mqs[n] # << >>,
         response_mqs'[n] = Tail(response_mqs[n]),
         UNCHANGED <<calls, taken, async_output_queue>>,
         \A c \in Calls : c # k => (Unread(n, c)' <=> Unread(n, c)),
         ~ Unread(n, k)'
  PROVE  AnswerInv(n)'
<1> DEFINE d == Head(response_mqs[n]).call
<1>1. d <= k /\ (d = k \/ GivenUpBefore(k))
  BY HeadIsAnswer
<1>2. response_mqs[n] \in Seq(Response) /\ Increasing(response_mqs[n])
  BY ExecutorTypes DEF AnswerInv, OrderInv
<1>3. /\ d \in Calls
      /\ \A c : Has(response_mqs[n], c) <=> d = c \/ Has(response_mqs'[n], c)
      /\ Increasing(response_mqs'[n])
      /\ \A c \in Calls : Has(response_mqs'[n], c) => d < c
  BY <1>2, HasTail
<1> HIDE DEF d
<1>4. \A c \in Calls : c \in Nat
  BY ExecutorTypes
<1>5. \A c \in Calls : InQueues(n, c)' => InQueues(n, c)
  BY <1>3 DEF InQueues, Has
<1>6. \A c \in Calls : InQueues(n, c) /\ d # c => InQueues(n, c)'
  BY <1>3 DEF InQueues, Has
<1>7. \A c \in Calls : Answers(n, c)' <=> Answers(n, c)
  BY DEF Answers, UniqueReply, kind_of
<1>8. OrderInv(n)'
  <2>1. \A c, e \in Calls : Has(response_mqs'[n], c) /\ Has(async_output_queue[n], e) => c < e
    BY <1>3 DEF AnswerInv, OrderInv
  <2> QED
    BY <1>3, <2>1 DEF AnswerInv, OrderInv, Increasing, Has
<1>9. ASSUME NEW c \in Calls, InQueues(n, c)'
      PROVE  c <= taken[n] /\ Answers(n, c)' /\ MayBeQueued(n, c)'
  <2>1. c <= taken[n] /\ Answers(n, c) /\ MayBeQueued(n, c)
    BY <1>5, <1>9 DEF AnswerInv
  <2>2. CASE c # k
    <3>1. MayBeQueued(n, c)'
      BY <2>1, <2>2, MayBeQueuedStays
    <3> QED
      BY <1>7, <2>1, <3>1
  <2>3. CASE c = k
    <3>1. d # k
      <4>1. CASE Has(response_mqs'[n], k)
        BY <1>3, <1>4, <4>1
      <4>2. CASE Has(async_output_queue[n], k)
        <5>1. Has(response_mqs[n], d)
          BY <1>3
        <5>2. d < k
          BY <1>3, <4>2, <5>1 DEF AnswerInv, OrderInv
        <5> QED
          BY <1>3, <1>4, <5>2
      <4> QED
        BY <1>9, <2>3, <4>1, <4>2 DEF InQueues, Has
    <3>2. GivenUpBefore(k)'
      BY <1>1, <3>1, GivenUpStays
    <3> QED
      BY <1>7, <2>1, <2>3, <3>2 DEF MayBeQueued
  <2> QED
    BY <2>2, <2>3
<1>10. ASSUME NEW c \in Calls, c <= taken[n], Answers(n, c)', Unread(n, c)'
       PROVE  InQueues(n, c)'
  <2>1. c # k /\ Unread(n, c)
    BY <1>10
  <2>2. InQueues(n, c)
    BY <1>7, <1>10, <2>1 DEF AnswerInv
  <2>3. d # c
    <3>1. SUFFICES ASSUME d = c
                   PROVE  FALSE
      OBVIOUS
    <3>2. c < current
      BY <1>1, <1>4, <2>1, <3>1
    <3>3. future[c] \in {"done", "exception"}
      BY <3>2, DrainedInOrder
    <3> QED
      BY <2>1, <3>3 DEF Unread
  <2> QED
    BY <1>6, <2>2, <2>3
<1> QED
  BY <1>8, <1>9, <1>10 DEF AnswerInv

\* Worker w's answer to the call it takes next has not been read, or an earlier call, or
\* this one, was given up.
LEMMA NextIsUnread ==
  ASSUME ExecutorInv, NEW w \in Ranks, alive[w], taken[w] < Len(calls), NEW c \in Calls,
         c = taken[w] + 1, Answers(w, c)
  PROVE  MayBeQueued(w, c)
<1>0. TypeOK /\ FailureInv /\ CallInv /\ TargetInv /\ ReadInv
  BY DEF ExecutorInv
<1>1. /\ taken[w] \in Nat /\ c \in Nat /\ w \in Nat /\ w >= 1 /\ w <= NumWorkers /\ NumWorkers \in Nat
      /\ Len(answers[c]) \in Nat /\ ~ (taken[w] >= c)
  BY <1>0, ExecutorTypes
<1>2. ~ closed
  BY <1>0 DEF FailureInv
<1>3. w \in 1 .. Len(answers[c]) => GivenUpBefore(c)
  BY <1>0, <1>1 DEF ReadInv
<1>4. w <= Len(answers[c]) => GivenUpBefore(c)
  BY <1>1, <1>3
<1>5. CASE future[c] = "none" \/ future[c] = "pending"
  BY <1>1, <1>4, <1>5 DEF MayBeQueued, Unread
<1>6. CASE future[c] = "done"
  <2>1. Len(answers[c]) = Len(targets[c])
    BY <1>0, <1>6 DEF TargetInv
  <2>2. targets[c] = IF UniqueReply(kind_of(c)) THEN <<output_rank>> ELSE AllRanks
    BY <1>0, <1>2, <1>6 DEF TargetInv
  <2>3. w <= Len(targets[c])
    <3>1. CASE UniqueReply(kind_of(c))
      <4>1. targets[c] = <<1>> /\ w = 1
        BY <2>2, <3>1 DEF Answers, output_rank
      <4> QED
        BY <4>1
    <3>2. CASE ~ UniqueReply(kind_of(c))
      <4>1. targets[c] = [i \in 1 .. NumWorkers |-> i]
        BY <2>2, <3>2 DEF AllRanks, Ranks
      <4>2. Len(targets[c]) = NumWorkers
        BY <1>1, <4>1
      <4> QED
        BY <1>1, <4>2
    <3> QED
      BY <3>1, <3>2
  <2> QED
    BY <1>4, <2>1, <2>3 DEF MayBeQueued
<1>7. CASE future[c] = "exception"
  <2>1. GivenUp(c) \/ GivenUpBefore(c) \/ taken[output_rank] >= c
    BY <1>0, <1>2, <1>7 DEF ReadInv
  <2>2. kind_of(c) = "utility" => GivenUp(c)
    BY <1>7 DEF GivenUp
  <2>3. kind_of(c) # "utility" => w = output_rank
    BY <1>0, OneAnswers
  <2> QED
    BY <1>1, <2>1, <2>2, <2>3 DEF MayBeQueued
<1>8. future[c] \in {"none", "pending", "done", "exception"}
  BY <1>0 DEF TypeOK
<1> QED
  BY <1>5, <1>6, <1>7, <1>8

\* A worker that takes a call keeps its answers in order.
LEMMA AnswerWork ==
  ASSUME ExecutorInv, [Next]_vars, NEW w \in Ranks, Work(w)
  PROVE  AnswerInv(w)'
<1>0. TypeOK /\ CallInv /\ QueuedInv /\ TargetInv /\ AnswerInv(w)
  BY DEF ExecutorInv
<1>1. /\ alive[w] /\ taken[w] < Len(calls) /\ taken' = [taken EXCEPT ![w] = @ + 1]
      /\ UNCHANGED <<env, calls, response_mqs, future, targets, answers, closed>>
  BY DEF Work, futureVars, failureVars
<1>2. /\ taken[w] \in Nat /\ Len(calls) \in 0 .. MaxCalls
      /\ MaxCalls \in Nat /\ async_output_queue[w] \in Seq(Response)
      /\ \A c \in Calls : c \in Nat
  BY <1>0, ExecutorTypes
<1>3. taken'[w] = taken[w] + 1
  <2>1. taken \in [Ranks -> 0 .. MaxCalls]
    BY <1>0 DEF TypeOK
  <2> QED
    BY <1>1, <2>1
<1>4. PICK k \in Calls : k = taken[w] + 1
  BY <1>1, <1>2 DEF Calls
<1>5. \A c \in Calls : Answers(w, c)' <=> Answers(w, c)
  BY <1>1 DEF Answers, UniqueReply, kind_of
<1>6. \A c \in Calls : Unread(w, c)' <=> Unread(w, c)
  BY <1>1 DEF Unread
<1>7. \A c \in Calls : MayBeQueued(w, c) => MayBeQueued(w, c)'
  BY <1>0, <1>1, <1>6, MayBeQueuedStays
<1>8. /\ Increasing(response_mqs[w]) /\ Increasing(async_output_queue[w])
      /\ \A c, d \in Calls : Has(response_mqs[w], c) /\ Has(async_output_queue[w], d) => c < d
      /\ \A c \in Calls : Has(response_mqs[w], c) \/ Has(async_output_queue[w], c) => c < k
    <2>1. \A c \in Calls : Has(response_mqs[w], c) \/ Has(async_output_queue[w], c) => c <= taken[w]
      BY <1>0 DEF AnswerInv, InQueues
    <2> QED
      BY <1>0, <1>2, <1>4, <2>1 DEF AnswerInv, OrderInv
<1>9. /\ Increasing(async_output_queue'[w])
      /\ \A c \in Calls :
           Has(async_output_queue'[w], c) <=>
             Has(async_output_queue[w], c) \/ (c = k /\ Answers(w, k))
  <2>1. CASE Answers(w, k)
    <3>1. PICK status \in Statuses(w, k) :
            async_output_queue' = [async_output_queue EXCEPT ![w] =
                                    Append(@, [call |-> k, status |-> status])]
      BY <1>4, <2>1 DEF Work, NextCall
    <3> DEFINE r == [call |-> k, status |-> status]
    <3>2. r \in Response /\ r.call = k
      BY <3>1 DEF Response, Statuses, Succeeds
    <3>3. async_output_queue'[w] = Append(async_output_queue[w], r)
      BY <1>0, <3>1 DEF TypeOK
    <3> HIDE DEF r
    <3>4. /\ \A c : Has(Append(async_output_queue[w], r), c) <=>
                      Has(async_output_queue[w], c) \/ r.call = c
          /\ Increasing(Append(async_output_queue[w], r))
      BY <1>2, <1>8, <3>2, HasAppend
    <3> QED
      BY <2>1, <3>2, <3>3, <3>4
  <2>2. CASE ~ Answers(w, k)
    <3>1. UNCHANGED async_output_queue
      BY <1>4, <2>2 DEF Work, NextCall
    <3> QED
      BY <1>8, <2>2, <3>1
  <2> QED
    BY <2>1, <2>2
<1>10. \A c \in Calls : InQueues(w, c)' <=> InQueues(w, c) \/ (c = k /\ Answers(w, k))
  BY <1>1, <1>9 DEF InQueues, Has
<1>11. OrderInv(w)'
  <2>1. taken'[w] <= Len(calls)'
    BY <1>1, <1>2, <1>3
  <2>2. \A c, d \in Calls : Has(response_mqs[w], c) /\ Has(async_output_queue'[w], d) => c < d
    BY <1>8, <1>9
  <2> QED
    BY <1>1, <1>8, <1>9, <2>1, <2>2 DEF OrderInv, Increasing, Has
<1>12. ASSUME NEW c \in Calls, InQueues(w, c)'
       PROVE  c <= taken'[w] /\ Answers(w, c)' /\ MayBeQueued(w, c)'
  <2>1. CASE InQueues(w, c)
    <3>1. c <= taken[w] /\ Answers(w, c) /\ MayBeQueued(w, c)
      BY <1>0, <2>1 DEF AnswerInv
    <3>2. c <= taken'[w]
      BY <1>2, <1>3, <3>1
    <3> QED
      BY <1>5, <1>7, <3>1, <3>2
  <2>2. CASE c = k /\ Answers(w, k)
    <3>1. MayBeQueued(w, c)
      BY <1>1, <1>4, <2>2, NextIsUnread
    <3>2. c <= taken'[w]
      BY <1>2, <1>3, <1>4, <2>2
    <3> QED
      BY <1>5, <1>7, <2>2, <3>1, <3>2
  <2> QED
    BY <1>10, <1>12, <2>1, <2>2
<1>13. ASSUME NEW c \in Calls, c <= taken'[w], Answers(w, c)', Unread(w, c)'
       PROVE  InQueues(w, c)'
  <2>1. c <= taken[w] \/ c = k
    BY <1>2, <1>3, <1>4, <1>13
  <2>2. CASE c <= taken[w]
    BY <1>0, <1>5, <1>6, <1>10, <1>13, <2>2 DEF AnswerInv
  <2>3. CASE c = k
    BY <1>5, <1>10, <1>13, <2>3
  <2> QED
    BY <2>1, <2>2, <2>3
<1> QED
  BY <1>11, <1>12, <1>13 DEF AnswerInv

\* The output thread of a worker keeps its answers in order.
LEMMA AnswerEnqueue ==
  ASSUME ExecutorInv, [Next]_vars, NEW w \in Ranks, EnqueueOutput(w)
  PROVE  AnswerInv(w)'
<1>0. TypeOK /\ FailureInv /\ CallInv /\ QueuedInv /\ TargetInv /\ AnswerInv(w)
  BY DEF ExecutorInv
<1>1. /\ alive[w] /\ async_output_queue[w] # << >>
      /\ UNCHANGED <<env, calls, taken, future, targets, answers, closed>>
  BY DEF EnqueueOutput, futureVars, failureVars
<1>2. /\ async_output_queue[w] \in Seq(Response) /\ response_mqs[w] \in Seq(Response)
      /\ \A c \in Calls : c \in Nat
  BY <1>0, ExecutorTypes
<1> DEFINE r == Head(async_output_queue[w])
<1>3. /\ response_mqs'[w] = Append(response_mqs[w], r)
      /\ async_output_queue'[w] = Tail(async_output_queue[w])
  BY <1>0 DEF EnqueueOutput, TypeOK
<1>4. /\ Increasing(response_mqs[w]) /\ Increasing(async_output_queue[w])
      /\ \A c, d \in Calls : Has(response_mqs[w], c) /\ Has(async_output_queue[w], d) => c < d
  BY <1>0 DEF AnswerInv, OrderInv
<1>5. /\ r \in Response /\ r.call \in Calls
      /\ \A c : Has(async_output_queue[w], c) <=> r.call = c \/ Has(async_output_queue'[w], c)
      /\ Increasing(async_output_queue'[w])
      /\ \A c \in Calls : Has(async_output_queue'[w], c) => r.call < c
  BY <1>1, <1>2, <1>3, <1>4, HasTail
<1> HIDE DEF r
<1>6. \A c \in Calls : Has(response_mqs[w], c) => c < r.call
  BY <1>4, <1>5
<1>7. /\ \A c : Has(response_mqs'[w], c) <=> Has(response_mqs[w], c) \/ r.call = c
      /\ Increasing(response_mqs'[w])
  BY <1>2, <1>3, <1>4, <1>5, <1>6, HasAppend
<1>8. \A c \in Calls : InQueues(w, c)' <=> InQueues(w, c)
  BY <1>5, <1>7 DEF InQueues, Has
<1>9. OrderInv(w)'
  <2>1. ASSUME NEW c \in Calls, NEW d \in Calls, Has(response_mqs'[w], c),
               Has(async_output_queue'[w], d)
        PROVE  c < d
    BY <1>4, <1>5, <1>7, <2>1
  <2>2. taken[w] <= Len(calls)
    BY <1>0 DEF AnswerInv, OrderInv
  <2> QED
    BY <1>1, <1>5, <1>7, <2>1, <2>2 DEF OrderInv, Increasing, Has
<1>10. \A c \in Calls : Answers(w, c)' <=> Answers(w, c)
  BY <1>1 DEF Answers, UniqueReply, kind_of
<1>11. \A c \in Calls : Unread(w, c)' <=> Unread(w, c)
  BY <1>1 DEF Unread
<1>12. ~ closed
  BY <1>0, <1>1 DEF FailureInv
<1>13. \A c \in Calls : MayBeQueued(w, c) => MayBeQueued(w, c)'
  BY <1>0, <1>11, <1>12, MayBeQueuedStays
<1> QED
  BY <1>0, <1>1, <1>8, <1>9, <1>10, <1>11, <1>13 DEF AnswerInv

\* Every step keeps the answers of every worker in order.
LEMMA AnswerStep ==
  ASSUME ExecutorInv, [Next]_vars, NEW w \in Ranks
  PROVE  AnswerInv(w)'
<1>0. /\ TypeOK /\ FailureInv /\ CallInv /\ QueuedInv /\ TargetInv /\ AnswerInv(w)
      /\ \A v \in Ranks : AnswerInv(v)
  BY DEF ExecutorInv
<1>1. /\ future \in [Calls -> {"none", "pending", "done", "exception"}]
      /\ response_mqs \in [Ranks -> Seq(Response)] /\ answers \in [Calls -> Seq(Response)]
      /\ async_output_queue \in [Ranks -> Seq(Response)] /\ taken \in [Ranks -> 0 .. MaxCalls]
  BY <1>0 DEF TypeOK
<1>2. CASE /\ taken'[w] = taken[w] /\ response_mqs'[w] = response_mqs[w]
           /\ async_output_queue'[w] = async_output_queue[w]
           /\ \A c \in Calls : Unread(w, c)' <=> Unread(w, c)
  <2>1. \A c \in Calls : Unread(w, c) => MayBeQueued(w, c)'
    BY <1>2 DEF MayBeQueued
  <2> QED
    BY <1>0, <1>2, <2>1, AnswerFrame
<1>3. CASE Quiet \/ (\E kind \in Kinds : Enqueue(kind)) \/ Drain
  <2>1. UNCHANGED <<taken, response_mqs, async_output_queue, future, answers>>
    BY <1>3 DEF Quiet, Enqueue, Drain, workerVars, futureVars
  <2> QED
    BY <1>2, <2>1 DEF Unread
<1>4. CASE MakeFuture
  <2>1. /\ UNCHANGED <<taken, response_mqs, async_output_queue, answers>>
        /\ future' = [future EXCEPT ![call] = "pending"] /\ future[call] = "none"
    BY <1>0, <1>4 DEF MakeFuture, CallInv, call, workerVars
  <2>2. \A c \in Calls : future'[c] \in {"none", "pending"} <=> future[c] \in {"none", "pending"}
    BY <1>1, <2>1
  <2> QED
    BY <1>2, <2>1, <2>2 DEF Unread
<1>5. CASE \E v \in Ranks : Work(v) \/ EnqueueOutput(v)
  <2>1. PICK v \in Ranks : Work(v) \/ EnqueueOutput(v)
    BY <1>5
  <2>2. CASE v = w
    BY <2>1, <2>2, AnswerWork, AnswerEnqueue
  <2>3. CASE v # w
    <3>1. UNCHANGED <<future, answers>>
      BY <2>1 DEF Work, EnqueueOutput, futureVars
    <3>2. taken'[w] = taken[w] /\ response_mqs'[w] = response_mqs[w]
      BY <1>1, <2>1, <2>3 DEF Work, EnqueueOutput
    <3>3. async_output_queue'[w] = async_output_queue[w]
      BY <1>1, <2>1, <2>3 DEF Work, EnqueueOutput
    <3> QED
      BY <1>2, <3>1, <3>2, <3>3 DEF Unread
  <2> QED
    BY <2>2, <2>3
<1>6. ASSUME NEW k \in Calls, k = current, NEW outcome \in {"done", "exception"}, Resolve(outcome),
             UNCHANGED answers
      PROVE  /\ future'[k] = outcome /\ ~ Unread(w, k)'
             /\ \A c \in Calls : c # k => (Unread(w, c)' <=> Unread(w, c))
  <2>1. future'[k] = outcome /\ \A c \in Calls : c # k => future'[c] = future[c]
    BY <1>1, <1>6 DEF Resolve
  <2> QED
    BY <1>6, <2>1 DEF Unread
<1>7. ASSUME NEW k \in Calls, k = current, NEW outcome \in {"done", "exception"}, Resolve(outcome),
             UNCHANGED <<answers, taken, async_output_queue>>, response_mqs'[w] = response_mqs[w],
             InQueues(w, k) /\ Answers(w, k) /\ Unread(w, k) => MayBeQueued(w, k)'
      PROVE  AnswerInv(w)'
  <2>1. /\ ~ Unread(w, k)'
        /\ \A c \in Calls : c # k => (Unread(w, c)' <=> Unread(w, c))
    BY <1>6, <1>7
  <2>2. \A c \in Calls : Unread(w, c)' => Unread(w, c)
    BY <2>1
  <2>3. \A c \in Calls : InQueues(w, c) /\ Answers(w, c) /\ Unread(w, c) => MayBeQueued(w, c)'
    BY <1>7, <2>1 DEF MayBeQueued
  <2> QED
    BY <1>0, <1>7, <2>2, <2>3, AnswerFrame
<1>8. CASE GetResponse
  <2>0. current # 0 /\ UNCHANGED <<env, calls, taken, async_output_queue, targets>>
    BY <1>8 DEF GetResponse
  <2>1. PICK k \in Calls : k = current
    BY <1>0, <2>0, ReadFacts
  <2>2. CASE Len(answers[k]) = Len(targets[k]) /\ Resolve("done") /\ UNCHANGED <<answers, response_mqs>>
    <3>1. ASSUME Answers(w, k), Unread(w, k)
          PROVE  MayBeQueued(w, k)'
      <4>1. future[k] = "pending" /\ w > Len(targets[k])
        BY <1>0, <2>0, <2>1, <2>2, <3>1, ReadFacts DEF Unread
      <4>2. w \in Nat /\ w >= 1 /\ w <= NumWorkers /\ NumWorkers \in Nat
        BY <1>0, ExecutorTypes
      <4>3. \/ targets[k] = IF UniqueReply(kind_of(k)) THEN <<output_rank>> ELSE AllRanks
            \/ targets[k] = << >>
        BY <1>0, <4>1 DEF TargetInv
      <4>4. targets[k] = << >>
        <5>1. ASSUME UniqueReply(kind_of(k)), targets[k] = <<output_rank>>
              PROVE  FALSE
          <6>1. targets[k] = <<1>> /\ w = 1
            BY <3>1, <5>1 DEF Answers, output_rank
          <6> QED
            BY <4>1, <6>1
        <5>2. ASSUME targets[k] = AllRanks
              PROVE  FALSE
          <6>1. targets[k] = [i \in 1 .. NumWorkers |-> i]
            BY <5>2 DEF AllRanks, Ranks
          <6>2. Len(targets[k]) = NumWorkers
            BY <4>2, <6>1
          <6> QED
            BY <4>1, <4>2, <6>2
        <5> QED
          BY <4>3, <5>1, <5>2
      <4>5. future'[k] = "done"
        BY <1>6, <2>1, <2>2
      <4> QED
        BY <2>0, <4>4, <4>5 DEF MayBeQueued
    <3> QED
      BY <1>7, <2>0, <2>1, <2>2, <3>1
  <2>3. ASSUME NEW n \in Ranks, n = Len(answers[k]) + 1, Answers(n, k), Unread(n, k),
               response_mqs[n] # << >>,
               response_mqs' = [response_mqs EXCEPT ![n] = Tail(@)],
               Resolve("exception"), UNCHANGED answers
        PROVE  AnswerInv(w)'
    <3>1. CASE w = n
      <4>1. response_mqs'[n] = Tail(response_mqs[n])
        BY <1>1, <2>3
      <4>2. /\ ~ Unread(n, k)'
            /\ \A c \in Calls : c # k => (Unread(n, c)' <=> Unread(n, c))
        BY <1>6, <2>1, <2>3, <3>1
      <4> QED
        BY <1>0, <2>0, <2>1, <2>3, <3>1, <4>1, <4>2, AnswerRead
    <3>2. CASE w # n
      <4>1. response_mqs'[w] = response_mqs[w]
        BY <1>1, <2>3, <3>2
      <4>2. ASSUME Answers(w, k)
            PROVE  MayBeQueued(w, k)'
        <5>1. kind_of(k) = "utility"
          BY <1>0, <2>3, <3>2, <4>2, OneAnswers
        <5>2. GivenUp(k)'
          BY <1>0, <2>0, <2>1, <2>3, <5>1, RaisedGivenUp
        <5> QED
          BY <5>2 DEF MayBeQueued
      <4> QED
        BY <1>7, <2>0, <2>1, <2>3, <4>1, <4>2
    <3> QED
      BY <3>1, <3>2
  <2>4. ASSUME NEW n \in Ranks, n = Len(answers[k]) + 1, Answers(n, k), Unread(n, k),
               response_mqs[n] # << >>,
               response_mqs' = [response_mqs EXCEPT ![n] = Tail(@)],
               answers' = [answers EXCEPT ![k] = Append(@, Head(response_mqs[n]))],
               UNCHANGED <<future, current>>
        PROVE  AnswerInv(w)'
    <3>1. Len(answers'[k]) = n /\ \A c \in Calls : c # k => answers'[c] = answers[c]
      <4>1. response_mqs[n] \in Seq(Response) /\ answers[k] \in Seq(Response)
        BY <1>1
      <4>2. Head(response_mqs[n]) \in Response
        BY <2>4, <4>1, HasTail
      <4>3. Len(Append(answers[k], Head(response_mqs[n]))) = n
        BY <2>4, <4>1, <4>2, AppendProperties
      <4> QED
        BY <1>1, <2>4, <4>3
    <3>2. w \in Nat /\ n \in Nat /\ Len(answers[k]) \in Nat
      BY <1>0, ExecutorTypes
    <3>3. \A c \in Calls : c # k => (Unread(w, c)' <=> Unread(w, c))
      BY <2>4, <3>1 DEF Unread
    <3>4. CASE w = n
      <4>1. response_mqs'[n] = Tail(response_mqs[n])
        BY <1>1, <2>4
      <4>2. ~ Unread(n, k)'
        BY <3>1, <3>2 DEF Unread
      <4> QED
        BY <1>0, <2>0, <2>1, <2>4, <3>3, <3>4, <4>1, <4>2, AnswerRead
    <3>5. CASE w # n
      <4>1. response_mqs'[w] = response_mqs[w]
        BY <1>1, <2>4, <3>5
      <4>2. w > Len(answers'[k]) <=> w > Len(answers[k])
        BY <2>4, <3>1, <3>2, <3>5
      <4>3. Unread(w, k)' <=> Unread(w, k)
        BY <2>4, <4>2 DEF Unread
      <4> QED
        BY <1>2, <2>0, <3>3, <4>1, <4>3
    <3> QED
      BY <3>4, <3>5
  <2> QED
    BY <1>0, <1>8, <2>1, <2>2, <2>3, <2>4, ReadCases
<1>9. CASE GetResponseRaises
  <2>0. /\ current # 0 /\ Resolve("exception") /\ Queue = << >>
        /\ Len(answers[current]) < Len(targets[current])
        /\ closed \/ kind_of(current) \in env.timed_out
        /\ UNCHANGED <<env, calls, taken, async_output_queue, response_mqs, answers, closed>>
    BY <1>9 DEF GetResponseRaises, workerVars, failureVars
  <2>1. PICK n \in Ranks : Answers(n, current) /\ Queue = response_mqs[n]
    BY <1>0, <2>0, ReadFacts
  <2>2. PICK k \in Calls : k = current
    BY <1>0, <2>0, ReadFacts
  <2>3. ASSUME Answers(w, k)
        PROVE  MayBeQueued(w, k)'
    <3>1. CASE kind_of(k) = "utility" \/ kind_of(k) \in env.timed_out
      <4>1. GivenUp(k)'
        BY <1>0, <2>0, <2>2, <3>1, RaisedGivenUp
      <4> QED
        BY <4>1 DEF MayBeQueued
    <3>2. CASE kind_of(k) # "utility" /\ kind_of(k) \notin env.timed_out
      <4>1. w = n
        BY <1>0, <2>1, <2>2, <2>3, <3>2, OneAnswers
      <4>2. closed' /\ response_mqs'[w] = << >>
        BY <2>0, <2>1, <2>2, <3>2, <4>1
      <4>3. future'[k] = "exception"
        BY <1>6, <2>0, <2>2
      <4> QED
        BY <4>2, <4>3 DEF MayBeQueued
    <3> QED
      BY <3>1, <3>2
  <2> QED
    BY <1>7, <2>0, <2>2, <2>3
<1> QED
  BY <1>3, <1>4, <1>5, <1>8, <1>9, StepCases

-----------------------------------------------------------------------------
\* The inductive invariant holds from then on.
THEOREM ExecutorInvariance == Spec => []ExecutorInv
<1>1. ExecutorInv /\ [Next]_vars => ExecutorInv'
  <2> SUFFICES ASSUME ExecutorInv, [Next]_vars
               PROVE  ExecutorInv'
    OBVIOUS
  <2>1. TypeOK /\ FailureInv /\ CallInv /\ QueuedInv /\ TargetInv
    BY DEF ExecutorInv
  <2>2. TypeOK' /\ FailureInv' /\ CallInv' /\ QueuedInv' /\ TargetInv'
    BY <2>1, TypeStep, FailureStep, CallStep, QueuedStep, TargetStep
  <2>3. ReadInv' /\ AnswersMatchCalls'
    BY ReadStep, MatchStep
  <2>4. \A w \in Ranks : AnswerInv(w)'
    BY AnswerStep
  <2> QED
    BY <2>2, <2>3, <2>4 DEF ExecutorInv
<1> QED
  BY <1>1, ExecutorInit, PTL DEF Spec

\* The queue of the futures, the one that is drained first.
LEMMA QueuedFutures ==
  ASSUME TypeOK, CallInv, QueuedInv
  PROVE  PendingFuturesQueued
<1> DEFINE ahead == IF current = 0 THEN << >> ELSE <<current>>
           queue == ahead \o futures_queue
<1>1. /\ futures_queue \in Seq(Calls) /\ Len(futures_queue) \in Nat
      /\ \A i \in 1 .. Len(futures_queue) : futures_queue[i] \in Calls
      /\ current # 0 => current \in Calls /\ current \in Nat
      /\ \A c \in Calls : c # 0
  <2>1. /\ futures_queue \in Seq(Calls) /\ (current # 0 => current \in Calls /\ current \in Nat)
        /\ \A c \in Calls : c # 0
    BY ExecutorTypes
  <2>2. \A i \in 1 .. Len(futures_queue) : futures_queue[i] \in Calls
    BY <2>1, ElementOfSeq
  <2> QED
    BY <2>1, <2>2, LenProperties
<1>2. CASE current = 0
  <2>1. queue = futures_queue
    BY <1>1, <1>2, ConcatEmptySeq
  <2> HIDE DEF queue
  <2>2. DOMAIN queue = 1 .. Len(futures_queue)
    BY <1>1, <2>1, LenProperties
  <2>3. {queue[i] : i \in DOMAIN queue} = {c \in Calls : future[c] = "pending"}
    BY <1>1, <1>2, <2>1, <2>2 DEF QueuedInv
  <2>4. \A i \in DOMAIN queue, j \in DOMAIN queue : i < j => queue[i] < queue[j]
    BY <2>1, <2>2 DEF QueuedInv
  <2> QED
    BY <2>3, <2>4 DEF PendingFuturesQueued, queue
<1>3. CASE current # 0
  <2>1. current \in Calls /\ <<current>> \in Seq(Calls)
    BY <1>1, <1>3
  <2>2. /\ queue = <<current>> \o futures_queue
        /\ Len(queue) = 1 + Len(futures_queue) /\ queue \in Seq(Calls)
    BY <1>1, <1>3, <2>1, ConcatProperties
  <2>3. queue[1] = current /\ \A i \in 2 .. Len(queue) : queue[i] = futures_queue[i - 1]
    BY <1>1, <1>3, <2>1, ConcatProperties
  <2> HIDE DEF queue
  <2>4. DOMAIN queue = 1 .. Len(queue)
    BY <2>2, LenProperties
  <2>5. ASSUME NEW i \in 1 .. Len(queue), i # 1
        PROVE  i - 1 \in 1 .. Len(futures_queue) /\ queue[i] = futures_queue[i - 1]
    BY <1>1, <2>2, <2>3, <2>5
  <2>6. ASSUME NEW i \in 1 .. Len(futures_queue)
        PROVE  i + 1 \in 1 .. Len(queue) /\ queue[i + 1] = futures_queue[i]
    <3>1. i + 1 \in 2 .. Len(queue) /\ (i + 1) - 1 = i
      BY <1>1, <2>2
    <3> QED
      BY <2>3, <3>1
  <2>7. 1 \in 1 .. Len(queue)
    BY <1>1, <2>2
  <2>8. ASSUME NEW i \in 1 .. Len(queue)
        PROVE  queue[i] \in Calls /\ future[queue[i]] = "pending"
    BY <1>1, <1>3, <2>1, <2>3, <2>5 DEF QueuedInv
  <2>9. ASSUME NEW c \in Calls, future[c] = "pending"
        PROVE  \E i \in 1 .. Len(queue) : queue[i] = c
    BY <2>3, <2>6, <2>7, <2>9 DEF QueuedInv
  <2>10. {queue[i] : i \in DOMAIN queue} = {c \in Calls : future[c] = "pending"}
    BY <2>4, <2>8, <2>9
  <2>11. ASSUME NEW i \in 1 .. Len(queue), NEW j \in 1 .. Len(queue), i < j
         PROVE  queue[i] < queue[j]
    <3>1. j # 1 /\ j - 1 \in 1 .. Len(futures_queue) /\ queue[j] = futures_queue[j - 1]
      BY <2>5, <2>11
    <3>2. CASE i = 1
      BY <2>3, <3>1, <3>2 DEF QueuedInv
    <3>3. CASE i # 1
      <4>1. i - 1 \in 1 .. Len(futures_queue) /\ queue[i] = futures_queue[i - 1] /\ i - 1 < j - 1
        BY <2>5, <2>11, <3>3
      <4> QED
        BY <3>1, <4>1 DEF QueuedInv
    <3> QED
      BY <3>2, <3>3
  <2> QED
    BY <2>4, <2>10, <2>11 DEF PendingFuturesQueued, queue
<1> QED
  BY <1>2, <1>3

\* A result holds the answers of all workers.
LEMMA CompleteLists ==
  ASSUME TypeOK, CallInv, TargetInv
  PROVE  ListsAreComplete
<1> SUFFICES ASSUME NEW c \in Calls, future[c] = "done", kind_of(c) = "utility"
             PROVE  Len(answers[c]) = NumWorkers \/ (closed /\ answers[c] = << >>)
  BY DEF ListsAreComplete
<1>1. /\ targets[c] = AllRanks \/ (targets[c] = << >> /\ closed)
      /\ Len(answers[c]) = Len(targets[c])
  BY DEF TargetInv, UniqueReply
<1>2. CASE targets[c] = AllRanks
  <2>1. NumWorkers \in Nat
    BY ExecutorAssumption
  <2>2. Len(AllRanks) = NumWorkers
    BY <2>1 DEF AllRanks, Ranks
  <2> QED
    BY <1>1, <1>2, <2>2
<1>3. CASE targets[c] = << >> /\ closed
  <2>1. answers[c] \in Seq(Response) /\ Len(answers[c]) = 0
    BY <1>1, <1>3, ExecutorTypes
  <2> QED
    BY <1>3, <2>1, EmptySeq
<1> QED
  BY <1>1, <1>2, <1>3

(***************************************************************************)
(* Every call of collective_rpc gets its own answers, all of them, for any *)
(* number of workers, any depth of the batch queue and any number of       *)
(* calls, in every environment: workers that fail or die at any point,     *)
(* calls that time out, an executor that shuts down under a waiting call.  *)
(***************************************************************************)
THEOREM AnswersAlwaysExact == Spec => []AnswersExact
<1>1. ExecutorInv => AnswersExact
  <2> SUFFICES ASSUME ExecutorInv
               PROVE  AnswersExact
    OBVIOUS
  <2>1. TypeOK /\ CallInv /\ QueuedInv /\ TargetInv /\ AnswersMatchCalls
    BY DEF ExecutorInv
  <2> QED
    BY <2>1, QueuedFutures, CompleteLists DEF AnswersExact
<1> QED
  BY <1>1, ExecutorInvariance, PTL

-----------------------------------------------------------------------------
(* Steps behind a call that was given up.                                  *)

\* No call of another method than those of a step raises or times out.
UtilityCallsSucceed ==
  \A en \in Environments : "utility" \notin en.failing \cup en.timed_out

Member(q, c) == \E i \in 1 .. Len(q) : q[i] = c
Sorted(q)    == \A i, j \in 1 .. Len(q) : i < j => q[i] < q[j]
InBatch(c)   == Member(batch_queue, c)

\* sample_tokens follows its execute_model.
KindInv ==
  /\ \A c \in Calls : c < Len(calls) /\ kind_of(c) = "execute_model" =>
       kind_of(c + 1) = "sample_tokens"
  /\ calls # << >> /\ kind_of(Len(calls)) = "execute_model" =>
       epc \in {"sample", "enqueued", "dead"}
  /\ epc = "sample" => calls # << >> /\ kind_of(Len(calls)) = "execute_model"

\* The steps in flight, oldest first: a step that is not among them is over and older.
BatchInv ==
  /\ Sorted(batch_queue)
  /\ \A c \in Calls : InBatch(c) => kind_of(c) = "sample_tokens" /\ future[c] # "none"
  /\ epc = "wait" => kind_of(waited) = "utility" \/ waited = batch_queue[1]
  /\ epc # "dead" =>
       \A c \in Calls : future[c] # "none" /\ kind_of(c) = "sample_tokens" =>
         \/ InBatch(c)
         \/ future[c] # "pending" /\ \A d \in Calls : InBatch(d) => d > c

\* Futures are answered in the order of their calls, one at a time, and the engine core
\* waits for a call of another method before it makes the next one.
Resolved(c) == future[c] \in {"done", "exception"}

TurnInv ==
  /\ \A c, d \in Calls : d < c /\ Resolved(c) => Resolved(d)
  /\ \A c \in Calls : future[c] = "pending" =>
       /\ kind_of(c) = "utility" => epc = "wait" /\ waited = c /\ c = Len(calls)
       /\ c # current => answers[c] = << >>

\* A response that is no output of a step.
NoOutput(m) == m.status \in {"NONE", "FAILURE"}

\* What the status of worker w's answer m says.
StatusOf(w, m) ==
  /\ kind_of(m.call) = "execute_model" => NoOutput(m)
  /\ kind_of(m.call) = "sample_tokens" /\ <<w, m.call - 1>> \in failed => NoOutput(m)
  /\ m.status = "FAILURE" => <<w, m.call>> \in failed /\ kind_of(m.call) # "utility"

StatusInv(w) ==
  \A m \in Response :
    Member(response_mqs[w], m) \/ Member(async_output_queue[w], m) => StatusOf(w, m)

\* The first call that was given up.
FirstGivenUp(d) == GivenUp(d) /\ ~ GivenUpBefore(d)

\* The sample_tokens of the step that call d belongs to.
StepOf(d) == IF kind_of(d) = "execute_model" THEN d + 1 ELSE d

\* The answer to execute_model d is still to come, or d raised in the worker.
NoneAhead(d) ==
  taken[output_rank] >= d => <<output_rank, d>> \in failed \/ InQueues(output_rank, d)

\* The step cannot succeed: it has raised, has read None, or will read what its execute_model
\* answers or, if that raised, the None or the failure that follows from it.
Doomed(d, b) ==
  \/ future[b] = "exception"
  \/ answers[b] # << >> /\ answers[b][1].status = "NONE"
  \/ /\ future[b] = "pending" /\ answers[b] = << >> /\ b = d + 1 /\ kind_of(d) = "execute_model"
     /\ NoneAhead(d)

\* Behind a call that was given up the engine core stops at that call's step.
Ends(d) ==
  \/ epc = "dead"
  \/ closed /\ d = Len(calls)
  \/ kind_of(d) # "utility" /\ \E b \in Calls : b = StepOf(d) /\ InBatch(b) /\ Doomed(d, b)

DoomInv ==
  (\A d \in Calls : ~ GivenUp(d)) \/ \E d \in Calls : FirstGivenUp(d) /\ Ends(d)

StepInv ==
  KindInv /\ BatchInv /\ TurnInv /\ (\A w \in Ranks : StatusInv(w)) /\ DoomInv

\* What a sequence holds when an element joins it, and when the first one leaves.
LEMMA MemberAppend ==
  ASSUME NEW S, NEW q \in Seq(S), NEW c \in S
  PROVE  /\ \A d : Member(Append(q, c), d) <=> Member(q, d) \/ d = c
         /\ Append(q, c) \in Seq(S) /\ Append(q, c) # << >>
         /\ Append(q, c)[1] = IF q = << >> THEN c ELSE q[1]
<1> DEFINE a == Append(q, c)
<1>1. /\ a \in Seq(S) /\ Len(a) = Len(q) + 1
      /\ \A i \in 1 .. Len(q) : a[i] = q[i]
      /\ a[Len(q) + 1] = c
  BY AppendProperties
<1>2. Len(q) \in Nat
  BY LenProperties
<1> HIDE DEF a
<1>3. PICK k : k = Len(q) + 1
  OBVIOUS
<1>4. /\ \A i \in 1 .. Len(a) : i \in 1 .. Len(q) \/ i = k
      /\ \A i \in 1 .. Len(q) : i \in 1 .. Len(a)
      /\ k \in 1 .. Len(a) /\ a[k] = c
  BY <1>1, <1>2, <1>3
<1>5. \A d : Member(a, d) <=> Member(q, d) \/ d = c
  BY <1>1, <1>4 DEF Member
<1>6. a # << >>
  BY <1>1, <1>2
<1>7. a[1] = IF q = << >> THEN c ELSE q[1]
  <2>1. CASE q = << >>
    <3>1. Len(q) = 0
      BY <2>1, EmptySeq
    <3> QED
      BY <1>1, <2>1, <3>1
  <2>2. CASE q # << >>
    <3>1. Len(q) # 0
      BY <2>2, EmptySeq
    <3>2. 1 \in 1 .. Len(q)
      BY <1>2, <3>1
    <3> QED
      BY <1>1, <2>2, <3>2
  <2> QED
    BY <2>1, <2>2
<1> QED
  BY <1>1, <1>5, <1>6, <1>7 DEF a

LEMMA MemberTail ==
  ASSUME NEW S, NEW q \in Seq(S), q # << >>
  PROVE  /\ Head(q) = q[1] /\ q[1] \in S /\ Member(q, q[1]) /\ Tail(q) \in Seq(S)
         /\ \A d : Member(q, d) <=> Member(Tail(q), d) \/ d = q[1]
<1> DEFINE t == Tail(q)
<1>1. /\ Head(q) = q[1] /\ Len(t) = Len(q) - 1 /\ t \in Seq(S)
      /\ \A i \in 1 .. Len(t) : t[i] = q[i + 1]
  BY HeadTailProperties
<1>2. Len(q) \in Nat
  BY LenProperties
<1>3. Len(q) # 0
  BY EmptySeq
<1> HIDE DEF t
<1>4. 1 \in 1 .. Len(q)
  BY <1>2, <1>3
<1>5. q[1] \in S
  BY <1>4, ElementOfSeq
<1>6. \A i \in 1 .. Len(t) : i + 1 \in 1 .. Len(q)
  BY <1>1, <1>2
<1>7. ASSUME NEW i \in 1 .. Len(q), i # 1
      PROVE  \E j \in 1 .. Len(t) : i = j + 1
  <2>1. i - 1 \in 1 .. Len(t) /\ i = (i - 1) + 1
    BY <1>1, <1>2, <1>7
  <2> QED
    BY <2>1
<1>8. \A d : Member(q, d) <=> Member(t, d) \/ d = q[1]
  BY <1>1, <1>4, <1>6, <1>7 DEF Member
<1> QED
  BY <1>1, <1>4, <1>5, <1>8 DEF t, Member

\* A sorted sequence stays sorted.
LEMMA SortedAppend ==
  ASSUME NEW q \in Seq(Calls), NEW c \in Calls, Sorted(q), \A d \in Calls : Member(q, d) => d < c
  PROVE  Sorted(Append(q, c))
<1> DEFINE a == Append(q, c)
<1>1. /\ Len(a) = Len(q) + 1
      /\ \A i \in 1 .. Len(q) : a[i] = q[i]
      /\ a[Len(q) + 1] = c
  BY AppendProperties
<1>2. Len(q) \in Nat
  BY LenProperties
<1> HIDE DEF a
<1>3. \A i \in 1 .. Len(q) : q[i] \in Calls
  BY ElementOfSeq
<1>4. \A i \in 1 .. Len(q) : q[i] < c
  BY <1>3 DEF Member
<1>5. PICK k : k = Len(q) + 1
  OBVIOUS
<1>6. /\ \A i \in 1 .. Len(a) : i \in 1 .. Len(q) \/ i = k
      /\ \A i \in 1 .. Len(q) : i < k
      /\ a[k] = c
  BY <1>1, <1>2, <1>5
<1>7. ASSUME NEW i \in 1 .. Len(a), NEW j \in 1 .. Len(a), i < j
      PROVE  a[i] < a[j]
  <2>1. i \in 1 .. Len(q)
    BY <1>1, <1>2, <1>5, <1>6, <1>7
  <2>2. CASE j = k
    BY <1>1, <1>4, <1>6, <2>1, <2>2
  <2>3. CASE j # k
    <3>1. j \in 1 .. Len(q)
      BY <1>6, <2>3
    <3> QED
      BY <1>1, <1>7, <2>1, <3>1 DEF Sorted
  <2> QED
    BY <2>2, <2>3
<1> QED
  BY <1>7 DEF a, Sorted

LEMMA SortedTail ==
  ASSUME NEW q \in Seq(Calls), Sorted(q), q # << >>
  PROVE  /\ Sorted(Tail(q))
         /\ \A d : Member(Tail(q), d) => d > q[1]
<1> DEFINE t == Tail(q)
<1>1. /\ Len(t) = Len(q) - 1
      /\ \A i \in 1 .. Len(t) : t[i] = q[i + 1]
  BY HeadTailProperties
<1>2. Len(q) \in Nat
  BY LenProperties
<1>3. Len(q) # 0
  BY EmptySeq
<1> HIDE DEF t
<1>4. 1 \in 1 .. Len(q)
  BY <1>2, <1>3
<1>5. \A i \in 1 .. Len(q) : q[i] \in Calls
  BY ElementOfSeq
<1>6. \A i \in 1 .. Len(q) : q[i] \in Nat
  BY <1>5, ExecutorAssumption DEF Calls
<1>7. \A i \in 1 .. Len(t) : i + 1 \in 1 .. Len(q) /\ i + 1 > 1
  BY <1>1, <1>2
<1>8. ASSUME NEW i \in 1 .. Len(t), NEW j \in 1 .. Len(t), i < j
      PROVE  t[i] < t[j]
  <2>1. i + 1 < j + 1
    BY <1>8
  <2> QED
    BY <1>1, <1>7, <2>1 DEF Sorted
<1>9. ASSUME NEW i \in 1 .. Len(t)
      PROVE  t[i] > q[1]
  <2>1. t[i] = q[i + 1] /\ i + 1 \in 1 .. Len(q) /\ i + 1 > 1
    BY <1>1, <1>7
  <2>2. PICK j : j = i + 1
    OBVIOUS
  <2>3. q[1] < q[j] /\ q[1] \in Nat /\ q[j] \in Nat
    BY <1>4, <1>6, <2>1, <2>2 DEF Sorted
  <2> QED
    BY <2>1, <2>2, <2>3
<1>10. \A d : Member(t, d) => d > q[1]
  BY <1>9 DEF Member
<1> QED
  BY <1>8, <1>10 DEF t, Sorted

-----------------------------------------------------------------------------
\* Steps that make no call and start or end no wait.
Aside ==
  /\ UNCHANGED <<calls, batch_queue, waited>>
  /\ \/ epc' = epc
     \/ epc \notin {"wait", "dead"} /\ epc' = "dead"
     \/ epc \in {"register", "store", "idle"} /\ epc' \in {"store", "idle"}

\* A call is made between two steps, sample_tokens behind its execute_model.
Calling(kind) ==
  /\ Enqueue(kind)
  /\ epc = IF kind = "sample_tokens" THEN "sample" ELSE "idle"

\* What the engine core's thread may do.
LEMMA EngineCases ==
  ASSUME [Next]_vars
  PROVE  \/ Aside
         \/ \E kind \in Kinds : Calling(kind)
         \/ MakeFuture \/ WaitForStep \/ Return
<1> USE DEF Aside, workerVars, futureVars, failureVars
<1>1. CASE UNCHANGED vars
  BY <1>1 DEF vars
<1>2. CASE ExecuteModel \/ SampleTokens \/ Utility
  <2>1. CASE \E kind \in Kinds : Calling(kind)
    BY <2>1
  <2>2. CASE ExecuteModel
    BY <2>1, <2>2 DEF ExecuteModel, Raise, AfterRaise, Calling, Kinds
  <2>3. CASE SampleTokens
    BY <2>1, <2>3 DEF SampleTokens, Raise, AfterRaise, Calling, Kinds
  <2>4. CASE Utility
    BY <2>1, <2>4 DEF Utility, Raise, AfterRaise, Calling, Kinds
  <2> QED
    BY <1>2, <2>2, <2>3, <2>4
<1>3. CASE RegisterCheck \/ RegisterStore \/ MakeFutureRaises \/ HandleExecutorFailed
  BY <1>3 DEF RegisterCheck, RegisterStore, MakeFutureRaises, HandleExecutorFailed
<1>4. CASE Drain \/ GetResponse \/ GetResponseRaises
  BY <1>4 DEF Drain, GetResponse, GetResponseRaises
<1>5. CASE \E w \in Ranks : Work(w) \/ EnqueueOutput(w) \/ WorkerDies(w) \/ WorkerExits(w)
  BY <1>5 DEF Work, EnqueueOutput, WorkerDies, WorkerExits
<1>6. CASE MonitorWorkers \/ EngineShutdown \/ CloseQueues \/ CallBack
  BY <1>6 DEF MonitorWorkers, EngineShutdown, CloseQueues, CallBack
<1> QED
  BY <1>1, <1>2, <1>3, <1>4, <1>5, <1>6 DEF Next, EngineStep

\* A future is made by MakeFuture, and the one that is drained is answered.
Made(c)     == MakeFuture /\ c = call /\ future[c] = "none" /\ future'[c] = "pending"
Answered(c) == /\ GetResponse \/ GetResponseRaises
               /\ c = current /\ future[c] = "pending" /\ future'[c] \in {"done", "exception"}

LEMMA FutureMoves ==
  ASSUME TypeOK, CallInv, QueuedInv, TargetInv, [Next]_vars, NEW c \in Calls
  PROVE  future'[c] = future[c] \/ Made(c) \/ Answered(c)
<1>0. future \in [Calls -> {"none", "pending", "done", "exception"}]
  BY DEF TypeOK
<1>1. CASE UNCHANGED future
  BY <1>1
<1>2. CASE Quiet \/ (\E kind \in Kinds : Enqueue(kind)) \/ Drain
  BY <1>1, <1>2 DEF Quiet, Enqueue, Drain, futureVars
<1>3. CASE MakeFuture
  <2>1. future' = [future EXCEPT ![call] = "pending"] /\ future[call] = "none"
    BY <1>3 DEF MakeFuture, CallInv, call
  <2> QED
    BY <1>0, <1>3, <2>1 DEF Made
<1>4. CASE GetResponse \/ GetResponseRaises
  <2>1. current # 0
    BY <1>4 DEF GetResponse, GetResponseRaises
  <2>2. current \in Calls /\ future[current] = "pending"
    BY <2>1, ReadFacts
  <2>3. UNCHANGED future \/ Resolve("done") \/ Resolve("exception")
    BY <1>4 DEF GetResponse, GetResponseRaises
  <2>4. ASSUME NEW s \in {"done", "exception"}, Resolve(s)
        PROVE  future'[c] = future[c] \/ Answered(c)
    <3>1. future' = [future EXCEPT ![current] = s]
      BY <2>4 DEF Resolve
    <3> QED
      BY <1>0, <1>4, <2>2, <3>1 DEF Answered
  <2> QED
    BY <1>1, <2>3, <2>4
<1>5. CASE \E w \in Ranks : Work(w) \/ EnqueueOutput(w)
  BY <1>1, <1>5 DEF Work, EnqueueOutput, futureVars
<1> QED
  BY <1>2, <1>3, <1>4, <1>5, StepCases

\* Only MakeFuture makes a future.
LEMMA SameFutures ==
  ASSUME TypeOK, CallInv, QueuedInv, TargetInv, [Next]_vars, ~ MakeFuture, NEW c \in Calls
  PROVE  /\ future'[c] = "none" <=> future[c] = "none"
         /\ future'[c] = "pending" => future[c] = "pending"
BY FutureMoves DEF Made, Answered

\* The last call made.
LEMMA LastCall ==
  ASSUME TypeOK, CallInv
  PROVE  /\ Len(calls) \in Nat
         /\ calls # << >> <=> Len(calls) \in Calls
         /\ calls # << >> <=> Len(calls) >= 1
         /\ \A c \in Calls : c \in Nat /\ c >= 1
         /\ \A c \in Nat : c >= 1 /\ c <= Len(calls) => c \in Calls
<1>1. calls \in Seq(Kinds) /\ Len(calls) \in Nat /\ MaxCalls \in Nat /\ Len(calls) <= MaxCalls
  BY ExecutorTypes
<1>2. calls = << >> <=> Len(calls) = 0
  BY <1>1, EmptySeq
<1> QED
  BY <1>1, <1>2 DEF Calls

\* What a new call leaves alone.
LEMMA NewCall ==
  ASSUME TypeOK, CallInv, NEW kind \in Kinds, Calling(kind)
  PROVE  /\ Len(calls)' = Len(calls) + 1 /\ calls'[Len(calls) + 1] = kind
         /\ \A c \in Calls : c <= Len(calls) => kind_of(c)' = kind_of(c)
         /\ epc' = "enqueued" /\ epc \in {"sample", "idle"}
         /\ UNCHANGED <<env, workerVars, futureVars, batch_queue, failureVars>>
         /\ calls' # << >>
<1>1. Enqueue(kind) /\ epc \in {"sample", "idle"}
  BY DEF Calling
<1>2. calls \in Seq(Kinds) /\ calls' = Append(calls, kind)
  BY <1>1 DEF Enqueue, TypeOK
<1>3. calls'[Len(calls) + 1] = kind /\ calls' # << >>
  BY <1>2, AppendProperties, MemberAppend
<1> QED
  BY <1>1, <1>2, <1>3, KindsStay DEF Enqueue, kind_of

\* What MakeFuture does, by the kind of its call.
LEMMA Making ==
  ASSUME TypeOK, CallInv, MakeFuture
  PROVE  /\ epc = "enqueued" /\ call \in Calls /\ call = Len(calls) /\ UNCHANGED calls
         /\ UNCHANGED <<env, workerVars, answers, current, failureVars>>
         /\ future[call] = "none" /\ future' = [future EXCEPT ![call] = "pending"]
         /\ \/ /\ kind_of(call) = "execute_model"
               /\ epc' = "sample" /\ UNCHANGED <<waited, batch_queue>>
            \/ /\ kind_of(call) = "utility"
               /\ epc' = "wait" /\ waited' = call /\ UNCHANGED batch_queue
            \/ /\ kind_of(call) = "sample_tokens"
               /\ batch_queue' = Append(batch_queue, call)
               /\ epc' = "idle" \/ (epc' = "wait" /\ waited' = Head(batch_queue'))
<1>1. epc = "enqueued"
  BY DEF MakeFuture
<1>2. call \in Calls /\ kind_of(call) \in Kinds
  BY <1>1, MakeFutureQueues
<1>3. kind_of(call) \in {"execute_model", "utility", "sample_tokens"}
  BY <1>2 DEF Kinds
<1>4. future[call] = "none"
  BY <1>1 DEF CallInv, call
<1>5. /\ UNCHANGED calls /\ UNCHANGED <<env, workerVars, answers, current, failureVars>>
      /\ future' = [future EXCEPT ![call] = "pending"]
  BY DEF MakeFuture
<1>6. CASE kind_of(call) = "execute_model"
  <2>1. epc' = "sample" /\ UNCHANGED <<waited, batch_queue>>
    BY <1>6 DEF MakeFuture
  <2> QED
    BY <1>1, <1>2, <1>4, <1>5, <1>6, <2>1 DEF call
<1>7. CASE kind_of(call) = "utility"
  <2>1. epc' = "wait" /\ waited' = call /\ UNCHANGED batch_queue
    BY <1>7 DEF MakeFuture, Wait
  <2> QED
    BY <1>1, <1>2, <1>4, <1>5, <1>7, <2>1 DEF call
<1>8. CASE kind_of(call) = "sample_tokens"
  <2>1. /\ batch_queue' = Append(batch_queue, call)
        /\ IF Len(batch_queue') < BatchQueueSize
           THEN epc' = "idle" /\ UNCHANGED waited
           ELSE Wait(Head(batch_queue'))
    BY <1>8 DEF MakeFuture
  <2>2. epc' = "idle" \/ (epc' = "wait" /\ waited' = Head(batch_queue'))
    <3>1. CASE Len(batch_queue') < BatchQueueSize
      BY <2>1, <3>1
    <3>2. CASE ~ (Len(batch_queue') < BatchQueueSize)
      BY <2>1, <3>2 DEF Wait
    <3> QED
      BY <3>1, <3>2
  <2> QED
    BY <1>1, <1>2, <1>4, <1>5, <1>8, <2>1, <2>2 DEF call
<1> QED
  BY <1>3, <1>6, <1>7, <1>8

\* What Return leaves: the engine core is idle or dead.
LEMMA Returning ==
  ASSUME Return
  PROVE  /\ epc = "wait" /\ epc' \in {"idle", "dead"} /\ epc' = Outcome(waited)
         /\ current = 0 /\ future[waited] # "pending"
         /\ batch_queue' = IF kind_of(waited) = "utility" THEN batch_queue ELSE Tail(batch_queue)
         /\ UNCHANGED <<env, calls, workerVars, future, targets, answers, futures_queue, current,
                        failureVars>>
BY DEF Return, Outcome, AfterRaise

\* Every step keeps execute_model and sample_tokens together.
LEMMA KindStep ==
  ASSUME TypeOK, CallInv, KindInv, [Next]_vars
  PROVE  KindInv'
<1>0. /\ Len(calls) \in Nat
      /\ calls # << >> <=> Len(calls) \in Calls
      /\ calls # << >> <=> Len(calls) >= 1
      /\ \A c \in Calls : c \in Nat /\ c >= 1
      /\ \A c \in Nat : c >= 1 /\ c <= Len(calls) => c \in Calls
  BY LastCall
<1>1. CASE Aside
  BY <1>1 DEF Aside, KindInv, kind_of
<1>2. ASSUME NEW kind \in Kinds, Calling(kind)
      PROVE  KindInv'
  <2>1. /\ Len(calls)' = Len(calls) + 1 /\ calls'[Len(calls) + 1] = kind
        /\ \A c \in Calls : c <= Len(calls) => kind_of(c)' = kind_of(c)
        /\ epc' = "enqueued" /\ epc \in {"sample", "idle"}
    BY <1>2, NewCall
  <2>2. epc = IF kind = "sample_tokens" THEN "sample" ELSE "idle"
    BY <1>2 DEF Calling
  <2>3. ASSUME NEW c \in Calls, c < Len(calls)', kind_of(c)' = "execute_model"
        PROVE  kind_of(c + 1)' = "sample_tokens"
    <3>1. c <= Len(calls) /\ kind_of(c) = "execute_model"
      BY <1>0, <2>1, <2>3
    <3>2. CASE c < Len(calls)
      <4>1. c + 1 \in Calls /\ c + 1 <= Len(calls)
        BY <1>0, <3>2
      <4>2. kind_of(c + 1) = "sample_tokens"
        BY <3>1, <3>2 DEF KindInv
      <4>3. PICK e \in Calls : e = c + 1
        BY <4>1
      <4>4. kind_of(e)' = kind_of(e)
        BY <2>1, <4>1, <4>3
      <4> QED
        BY <4>2, <4>3, <4>4
    <3>3. CASE c = Len(calls)
      <4>1. calls # << >> /\ kind_of(Len(calls)) = "execute_model"
        BY <1>0, <3>1, <3>3
      <4>2. epc = "sample"
        BY <2>1, <4>1 DEF KindInv
      <4>3. kind = "sample_tokens"
        BY <2>2, <4>2
      <4> QED
        BY <2>1, <3>3, <4>3 DEF kind_of
    <3> QED
      BY <1>0, <3>1, <3>2, <3>3
  <2> QED
    BY <2>1, <2>3 DEF KindInv
<1>3. CASE MakeFuture
  <2>1. /\ call = Len(calls) /\ UNCHANGED calls
        /\ \/ kind_of(call) = "execute_model" /\ epc' = "sample"
           \/ kind_of(call) # "execute_model" /\ epc' # "sample"
        /\ call \in Calls
    BY <1>3, Making
  <2>2. calls # << >>
    BY <1>0, <2>1
  <2> QED
    BY <2>1, <2>2 DEF KindInv, kind_of
<1>4. CASE WaitForStep \/ Return
  <2>1. /\ UNCHANGED calls /\ epc \in {"idle", "wait"} /\ epc' \in {"idle", "wait", "dead"}
    BY <1>4, Returning DEF WaitForStep, Wait
  <2> QED
    BY <2>1 DEF KindInv, kind_of
<1> QED
  BY <1>1, <1>2, <1>3, <1>4, EngineCases

\* The parts of BatchInv.
StepsInOrder  == Sorted(batch_queue)
StepsHaveCall == \A c \in Calls : InBatch(c) => kind_of(c) = "sample_tokens" /\ future[c] # "none"
WaitsForFirst == epc = "wait" => kind_of(waited) = "utility" \/ waited = batch_queue[1]
Over(c)       == future[c] # "pending" /\ \A d \in Calls : InBatch(d) => d > c
StepsInFlight ==
  epc # "dead" =>
    \A c \in Calls : future[c] # "none" /\ kind_of(c) = "sample_tokens" => InBatch(c) \/ Over(c)

LEMMA BatchParts == BatchInv <=> StepsInOrder /\ StepsHaveCall /\ WaitsForFirst /\ StepsInFlight
  BY DEF BatchInv, StepsInOrder, StepsHaveCall, WaitsForFirst, StepsInFlight, Over

\* A step in flight is a call that has been made.
LEMMA InBatchMade ==
  ASSUME TypeOK, CallInv, NEW c \in Calls, InBatch(c)
  PROVE  c <= Len(calls)
BY DEF InBatch, Member, CallInv

\* The steps that leave batch_queue alone.
LEMMA BatchFrame ==
  ASSUME TypeOK, CallInv, QueuedInv, TargetInv, BatchInv, [Next]_vars, ~ MakeFuture,
         UNCHANGED batch_queue, epc = "dead" => epc' = "dead",
         epc' # "wait" \/ (UNCHANGED <<epc, waited>> /\ waited <= Len(calls))
  PROVE  BatchInv'
<1>1. /\ \A c \in Calls : c <= Len(calls) => kind_of(c)' = kind_of(c)
      /\ \A c \in Calls : future'[c] = "none" <=> future[c] = "none"
      /\ \A c \in Calls : future'[c] = "pending" => future[c] = "pending"
  BY ResolvedStays, SameFutures
<1>2. \A c : InBatch(c)' <=> InBatch(c)
  BY DEF InBatch
<1>3. StepsInOrder /\ StepsHaveCall /\ WaitsForFirst /\ StepsInFlight
  BY BatchParts
<1>4. StepsInOrder'
  BY <1>3 DEF StepsInOrder
<1>5. StepsHaveCall'
  BY <1>1, <1>2, <1>3, InBatchMade DEF StepsHaveCall
<1>6. WaitsForFirst'
  <2>1. CASE epc' # "wait"
    BY <2>1 DEF WaitsForFirst
  <2>2. CASE epc' = "wait"
    <3>1. epc = "wait" /\ waited' = waited /\ waited <= Len(calls)
      BY <2>2
    <3>2. waited \in 1 .. Len(calls) /\ Len(calls) \in 0 .. MaxCalls /\ MaxCalls \in Nat
      BY <3>1, ExecutorTypes DEF CallInv
    <3>3. waited \in Calls
      BY <3>2 DEF Calls
    <3>4. PICK c \in Calls : c = waited
      BY <3>3
    <3>5. kind_of(c)' = kind_of(c)
      BY <1>1, <3>1, <3>4
    <3> QED
      BY <1>3, <3>1, <3>4, <3>5 DEF WaitsForFirst, kind_of
  <2> QED
    BY <2>1, <2>2
<1>7. StepsInFlight'
  <2>1. \A c \in Calls : future[c] # "none" => c <= Len(calls)
    BY MadeCalls
  <2>2. \A c \in Calls : Over(c) => Over(c)'
    BY <1>1, <1>2 DEF Over
  <2> QED
    BY <1>1, <1>2, <1>3, <2>1, <2>2 DEF StepsInFlight
<1> QED
  BY <1>4, <1>5, <1>6, <1>7 DEF BatchInv, StepsInOrder, StepsHaveCall, WaitsForFirst, StepsInFlight, Over

\* MakeFuture of sample_tokens puts the step in flight.
LEMMA BatchGrows ==
  ASSUME TypeOK, CallInv, QueuedInv, TargetInv, BatchInv, MakeFuture,
         kind_of(call) = "sample_tokens"
  PROVE  BatchInv'
<1>0. /\ epc = "enqueued" /\ call \in Calls /\ call = Len(calls) /\ UNCHANGED calls
      /\ future[call] = "none" /\ future' = [future EXCEPT ![call] = "pending"]
      /\ batch_queue' = Append(batch_queue, call)
      /\ epc' = "idle" \/ (epc' = "wait" /\ waited' = Head(batch_queue'))
  BY Making
<1>1. PICK k \in Calls : k = call
  BY <1>0
<1>2. future \in [Calls -> {"none", "pending", "done", "exception"}] /\ batch_queue \in Seq(Calls)
  BY DEF TypeOK
<1>3. /\ StepsInOrder /\ StepsHaveCall /\ StepsInFlight
      /\ Len(calls) \in Nat /\ \A c \in Calls : c \in Nat
  BY BatchParts, LastCall
<1>4. future'[k] = "pending" /\ \A c \in Calls : c # k => future'[c] = future[c]
  BY <1>0, <1>1, <1>2
<1>5. \A c \in Calls : future[c] # "none" => c < k
  BY <1>0, <1>1, <1>3, MadeCalls
<1>6. \A c \in Calls : Member(batch_queue, c) => c < k
  BY <1>3, <1>5 DEF StepsHaveCall, InBatch
<1>7. /\ Sorted(batch_queue')
      /\ \A d : Member(batch_queue', d) <=> Member(batch_queue, d) \/ d = k
      /\ batch_queue' \in Seq(Calls) /\ batch_queue' # << >>
  BY <1>0, <1>1, <1>2, <1>3, <1>6, SortedAppend, MemberAppend DEF StepsInOrder
<1>8. \A d : InBatch(d)' <=> InBatch(d) \/ d = k
  BY <1>7 DEF InBatch
<1>9. \A c : kind_of(c)' = kind_of(c)
  BY <1>0 DEF kind_of
<1>10. StepsInOrder'
  BY <1>7 DEF StepsInOrder
<1>11. StepsHaveCall'
  BY <1>1, <1>3, <1>4, <1>8, <1>9 DEF StepsHaveCall
<1>12. WaitsForFirst'
  <2>1. Head(batch_queue') = batch_queue'[1]
    BY <1>7, MemberTail
  <2> QED
    BY <1>0, <2>1 DEF WaitsForFirst
<1>13. StepsInFlight'
  <2>1. epc # "dead"
    BY <1>0
  <2>2. ASSUME NEW c \in Calls, future'[c] # "none", kind_of(c)' = "sample_tokens"
        PROVE  InBatch(c)' \/ Over(c)'
    <3>1. CASE c = k
      BY <1>8, <3>1
    <3>2. CASE c # k
      <4>1. future'[c] = future[c] /\ future[c] # "none" /\ kind_of(c) = "sample_tokens"
        BY <1>4, <1>9, <2>2, <3>2
      <4>2. InBatch(c) \/ Over(c)
        BY <1>3, <2>1, <4>1 DEF StepsInFlight
      <4>3. k > c
        BY <1>3, <1>5, <4>1
      <4> QED
        BY <1>8, <4>1, <4>2, <4>3 DEF Over
    <3> QED
      BY <3>1, <3>2
  <2> QED
    BY <2>2 DEF StepsInFlight
<1> QED
  BY <1>10, <1>11, <1>12, <1>13 DEF BatchInv, StepsInOrder, StepsHaveCall, WaitsForFirst, StepsInFlight, Over

\* Return takes the first step out.
LEMMA BatchShrinks ==
  ASSUME TypeOK, CallInv, QueuedInv, TargetInv, BatchInv, Return, kind_of(waited) # "utility"
  PROVE  /\ BatchInv' /\ batch_queue # << >> /\ waited = batch_queue[1] /\ waited \in Calls
         /\ \A d : InBatch(d) <=> InBatch(d)' \/ d = waited
<1>0. /\ epc = "wait" /\ epc' \in {"idle", "dead"} /\ future[waited] # "pending"
      /\ batch_queue' = Tail(batch_queue)
      /\ UNCHANGED <<calls, future>>
  BY Returning
<1>1. batch_queue \in Seq(Calls)
  BY DEF TypeOK
<1>2. StepsInOrder /\ StepsHaveCall /\ WaitsForFirst /\ StepsInFlight
  BY BatchParts
<1>3. batch_queue # << >> /\ waited = batch_queue[1]
  BY <1>0, <1>2 DEF CallInv, WaitsForFirst
<1>4. /\ waited \in Calls
      /\ \A d : Member(batch_queue, d) <=> Member(batch_queue', d) \/ d = waited
  BY <1>0, <1>1, <1>3, MemberTail
<1>5. Sorted(batch_queue') /\ \A d : Member(batch_queue', d) => d > waited
  BY <1>0, <1>1, <1>2, <1>3, SortedTail DEF StepsInOrder
<1>6. \A d : InBatch(d) <=> InBatch(d)' \/ d = waited
  BY <1>4 DEF InBatch
<1>7. \A c : kind_of(c)' = kind_of(c)
  BY <1>0 DEF kind_of
<1>8. StepsInOrder'
  BY <1>5 DEF StepsInOrder
<1>9. StepsHaveCall'
  BY <1>0, <1>2, <1>6, <1>7 DEF StepsHaveCall
<1>10. WaitsForFirst'
  BY <1>0 DEF WaitsForFirst
<1>11. StepsInFlight'
  <2>1. PICK k \in Calls : k = waited
    BY <1>4
  <2>2. ASSUME NEW c \in Calls, future'[c] # "none", kind_of(c)' = "sample_tokens"
        PROVE  InBatch(c)' \/ Over(c)'
    <3>1. InBatch(c) \/ Over(c)
      BY <1>0, <1>2, <1>7, <2>2 DEF StepsInFlight
    <3>2. CASE c = k
      <4>1. \A d \in Calls : InBatch(d)' => d > k
        BY <1>5, <2>1 DEF InBatch
      <4> QED
        BY <1>0, <2>1, <3>2, <4>1 DEF Over
    <3>3. CASE c # k
      BY <1>0, <1>6, <2>1, <3>1, <3>3 DEF Over
    <3> QED
      BY <3>2, <3>3
  <2> QED
    BY <2>2 DEF StepsInFlight
<1>12. BatchInv'
  BY <1>8, <1>9, <1>10, <1>11 DEF BatchInv, StepsInOrder, StepsHaveCall, WaitsForFirst, StepsInFlight, Over
<1> QED
  BY <1>3, <1>4, <1>6, <1>12

\* Every step keeps the steps in flight.
LEMMA BatchStep ==
  ASSUME TypeOK, CallInv, QueuedInv, TargetInv, BatchInv, [Next]_vars
  PROVE  BatchInv'
<1>0. StepsInOrder /\ StepsHaveCall /\ WaitsForFirst /\ StepsInFlight
  BY BatchParts
<1>1. CASE MakeFuture
  <2>1. CASE kind_of(call) = "sample_tokens"
    BY <1>1, <2>1, BatchGrows
  <2>2. CASE kind_of(call) # "sample_tokens"
    <3>1. /\ epc = "enqueued" /\ call \in Calls /\ UNCHANGED <<calls, batch_queue>>
          /\ future[call] = "none" /\ future' = [future EXCEPT ![call] = "pending"]
          /\ epc' = "wait" => kind_of(call) = "utility" /\ waited' = call
      BY <1>1, <2>2, Making
    <3>2. future \in [Calls -> {"none", "pending", "done", "exception"}]
      BY DEF TypeOK
    <3>3. PICK k \in Calls : k = call
      BY <3>1
    <3>4. future'[k] = "pending" /\ \A c \in Calls : c # k => future'[c] = future[c]
      BY <3>1, <3>2, <3>3
    <3>5. (\A c : kind_of(c)' = kind_of(c)) /\ (\A c : InBatch(c)' <=> InBatch(c))
      BY <3>1 DEF kind_of, InBatch
    <3>6. StepsInOrder' /\ StepsHaveCall'
      BY <1>0, <3>1, <3>4, <3>5 DEF StepsInOrder, StepsHaveCall
    <3>7. WaitsForFirst'
      BY <3>1 DEF WaitsForFirst, kind_of
    <3>8. \A c \in Calls : Over(c) /\ c # k => Over(c)'
      BY <3>4, <3>5 DEF Over
    <3>9. kind_of(k) # "sample_tokens" /\ epc # "dead"
      BY <2>2, <3>1, <3>3
    <3>10. StepsInFlight'
      BY <1>0, <3>4, <3>5, <3>8, <3>9 DEF StepsInFlight
    <3> QED
      BY <3>6, <3>7, <3>10 DEF BatchInv, StepsInOrder, StepsHaveCall, WaitsForFirst, StepsInFlight, Over
  <2> QED
    BY <2>1, <2>2
<1>2. CASE ~ MakeFuture /\ Aside
  <2>1. epc' = "wait" => UNCHANGED <<epc, waited>> /\ waited <= Len(calls)
    <3>1. epc = "wait" => waited <= Len(calls)
      BY DEF CallInv
    <3> QED
      BY <1>2, <3>1 DEF Aside
  <2>2. UNCHANGED batch_queue /\ (epc = "dead" => epc' = "dead")
    BY <1>2 DEF Aside
  <2> QED
    BY <1>2, <2>1, <2>2, BatchFrame
<1>3. ASSUME ~ MakeFuture, NEW kind \in Kinds, Calling(kind)
      PROVE  BatchInv'
  <2>1. epc' = "enqueued" /\ epc \in {"sample", "idle"} /\ UNCHANGED batch_queue
    BY <1>3, NewCall
  <2> QED
    BY <1>3, <2>1, BatchFrame
<1>4. CASE WaitForStep
  <2>1. /\ UNCHANGED <<calls, future, batch_queue>> /\ epc = "idle" /\ batch_queue # << >>
        /\ waited' = Head(batch_queue)
    BY <1>4 DEF WaitForStep, Wait
  <2>2. Head(batch_queue) = batch_queue[1]
    BY <2>1, MemberTail DEF TypeOK
  <2>3. (\A c : kind_of(c)' = kind_of(c)) /\ (\A c : InBatch(c)' <=> InBatch(c))
    BY <2>1 DEF kind_of, InBatch
  <2>4. StepsInOrder' /\ StepsHaveCall' /\ WaitsForFirst'
    BY <1>0, <2>1, <2>2, <2>3 DEF StepsInOrder, StepsHaveCall, WaitsForFirst
  <2>5. \A c \in Calls : Over(c)' <=> Over(c)
    BY <2>1, <2>3 DEF Over
  <2>6. StepsInFlight'
    BY <1>0, <2>1, <2>3, <2>5 DEF StepsInFlight
  <2> QED
    BY <2>4, <2>6 DEF BatchInv, StepsInOrder, StepsHaveCall, WaitsForFirst, StepsInFlight, Over
<1>5. CASE ~ MakeFuture /\ Return
  <2>1. CASE kind_of(waited) = "utility"
    <3>1. epc' \in {"idle", "dead"} /\ epc = "wait" /\ UNCHANGED batch_queue
      BY <1>5, <2>1, Returning
    <3> QED
      BY <1>5, <3>1, BatchFrame
  <2>2. CASE kind_of(waited) # "utility"
    BY <1>5, <2>2, BatchShrinks
  <2> QED
    BY <2>1, <2>2
<1> QED
  BY <1>1, <1>2, <1>3, <1>4, <1>5, EngineCases

\* An answer is added to what the future that is drained has read; the others stay.
LEMMA AnswersMove ==
  ASSUME TypeOK, CallInv, QueuedInv, TargetInv, [Next]_vars, NEW c \in Calls
  PROVE  \/ answers'[c] = answers[c]
         \/ /\ GetResponse /\ c = current /\ future'[c] = "pending"
            /\ \E n \in Ranks :
                 /\ Answers(n, c) /\ Unread(n, c) /\ response_mqs[n] # << >>
                 /\ Head(response_mqs[n]).status # "FAILURE"
                 /\ answers'[c] = Append(answers[c], Head(response_mqs[n]))
<1>1. CASE UNCHANGED answers
  BY <1>1
<1>2. CASE Quiet \/ (\E kind \in Kinds : Enqueue(kind)) \/ Drain \/ MakeFuture \/ GetResponseRaises
  BY <1>1, <1>2 DEF Quiet, Enqueue, Drain, MakeFuture, GetResponseRaises, futureVars
<1>3. CASE GetResponse
  <2>1. current # 0
    BY <1>3 DEF GetResponse
  <2>2. current \in Calls /\ future[current] = "pending"
    BY <2>1, ReadFacts
  <2>3. ASSUME NEW n \in Ranks, Answers(n, current), Unread(n, current), response_mqs[n] # << >>,
               Head(response_mqs[n]).status # "FAILURE",
               answers' = [answers EXCEPT ![current] = Append(@, Head(response_mqs[n]))],
               UNCHANGED <<future, current>>
        PROVE  \/ answers'[c] = answers[c]
               \/ /\ c = current /\ future'[c] = "pending"
                  /\ answers'[c] = Append(answers[c], Head(response_mqs[n]))
    <3>1. answers \in [Calls -> Seq(Response)]
      BY DEF TypeOK
    <3> QED
      BY <2>2, <2>3, <3>1
  <2> QED
    BY <1>1, <1>3, <2>3, ReadCases
<1>4. CASE \E w \in Ranks : Work(w) \/ EnqueueOutput(w)
  BY <1>1, <1>4 DEF Work, EnqueueOutput, futureVars
<1> QED
  BY <1>2, <1>3, <1>4, StepCases

\* Every step keeps the order of the futures.
LEMMA TurnStep ==
  ASSUME TypeOK, CallInv, QueuedInv, TargetInv, TurnInv, [Next]_vars
  PROVE  TurnInv'
<1>0. /\ \A c \in Calls : future'[c] = future[c] \/ Made(c) \/ Answered(c)
      /\ \A c \in Calls : c \in Nat
      /\ \A c \in Calls : c <= Len(calls) => kind_of(c)' = kind_of(c)
      /\ \A c \in Calls : future[c] # "none" => c <= Len(calls)
      /\ \A c \in Calls : Resolved(c) => Resolved(c)'
  BY FutureMoves, LastCall, ResolvedStays, MadeCalls DEF Resolved
<1>1. ASSUME NEW c \in Calls, NEW d \in Calls, d < c, Resolved(c)'
      PROVE  Resolved(d)'
  <2>1. CASE Resolved(c)
    BY <1>0, <1>1, <2>1 DEF TurnInv
  <2>2. CASE ~ Resolved(c)
    <3>1. Answered(c)
      BY <1>0, <1>1, <2>2 DEF Resolved, Made
    <3>2. c = current /\ current # 0
      BY <1>0, <3>1 DEF Answered, GetResponse, GetResponseRaises
    <3>3. Resolved(d)
      BY <1>1, <3>2, DrainedInOrder DEF Resolved
    <3> QED
      BY <1>0, <3>3
  <2> QED
    BY <2>1, <2>2
<1>2. ASSUME NEW c \in Calls, future'[c] = "pending", c # current'
      PROVE  answers'[c] = << >>
  <2>1. CASE future[c] # "pending"
    <3>1. Made(c)
      BY <1>0, <1>2, <2>1 DEF Answered
    <3>2. UNCHANGED answers /\ future[c] = "none"
      BY <3>1, Making DEF Made
    <3> QED
      BY <3>2 DEF CallInv
  <2>2. CASE future[c] = "pending" /\ answers'[c] # answers[c]
    <3>1. GetResponse /\ c = current
      BY <2>2, AnswersMove
    <3>2. current # 0
      BY <3>1 DEF GetResponse
    <3>3. current' = current \/ \E s \in {"done", "exception"} : Resolve(s)
      BY <3>1, ReadCases
    <3>4. ASSUME NEW s \in {"done", "exception"}, Resolve(s)
          PROVE  FALSE
      BY <1>2, <3>1, <3>4 DEF Resolve, TypeOK
    <3> QED
      BY <1>2, <3>1, <3>3, <3>4
  <2>3. CASE future[c] = "pending" /\ answers'[c] = answers[c]
    <3>1. CASE c # current
      BY <2>3, <3>1 DEF TurnInv
    <3>2. CASE c = current
      <4>1. current # 0 /\ current # current'
        BY <1>0, <1>2, <3>2, ExecutorTypes
      <4>2. GetResponse \/ GetResponseRaises
        <5>1. epc = "wait"
          BY <4>1 DEF CallInv
        <5>2. ~ Drain /\ ~ MakeFuture
          BY <4>1, <5>1 DEF Drain, MakeFuture
        <5>3. CASE Quiet \/ (\E kind \in Kinds : Enqueue(kind)) \/ \E w \in Ranks : Work(w) \/ EnqueueOutput(w)
          BY <4>1, <5>3 DEF Quiet, Enqueue, Work, EnqueueOutput, futureVars
        <5> QED
          BY <5>2, <5>3, StepCases
      <4>3. \E s \in {"done", "exception"} : Resolve(s)
        BY <4>1, <4>2 DEF GetResponse, GetResponseRaises
      <4> QED
        BY <1>2, <3>2, <4>3 DEF Resolve, TypeOK
    <3> QED
      BY <3>1, <3>2
  <2> QED
    BY <2>1, <2>2, <2>3
<1>3. ASSUME NEW c \in Calls, future'[c] = "pending", kind_of(c)' = "utility"
      PROVE  epc' = "wait" /\ waited' = c /\ c = Len(calls)'
  <2>1. CASE Made(c)
    BY <1>3, <2>1, Making DEF Made, kind_of
  <2>2. CASE ~ Made(c)
    <3>1. future[c] = "pending"
      BY <1>0, <1>3, <2>2 DEF Answered
    <3>2. kind_of(c) = "utility"
      BY <1>0, <1>3, <3>1
    <3>3. epc = "wait" /\ waited = c /\ c = Len(calls)
      BY <3>1, <3>2 DEF TurnInv
    <3>4. CASE Aside
      BY <3>3, <3>4 DEF Aside
    <3>5. CASE (\E kind \in Kinds : Calling(kind)) \/ MakeFuture \/ WaitForStep
      BY <3>3, <3>5, NewCall DEF MakeFuture, WaitForStep
    <3>6. CASE Return
      BY <3>1, <3>3, <3>6, Returning
    <3> QED
      BY <3>4, <3>5, <3>6, EngineCases
  <2> QED
    BY <2>1, <2>2
<1> QED
  BY <1>1, <1>2, <1>3 DEF TurnInv

-----------------------------------------------------------------------------
\* What the calls that raise in the workers say of the answers.

LEMMA MemberHas ==
  ASSUME NEW q, NEW m, Member(q, m)
  PROVE  Has(q, m.call)
BY DEF Member, Has

\* Only the call that a worker takes raises in it.
LEMMA FailedMoves ==
  ASSUME [Next]_vars
  PROVE  /\ \A p : p \in failed => p \in failed'
         /\ \A v \in Ranks : \A c : <<v, c>> \in failed' => <<v, c>> \in failed \/ c = taken[v] + 1
<1>1. CASE UNCHANGED failed
  BY <1>1
<1>2. ASSUME NEW w \in Ranks, Work(w)
      PROVE  /\ \A p : p \in failed => p \in failed'
             /\ \A v \in Ranks : \A c : <<v, c>> \in failed' => <<v, c>> \in failed \/ c = taken[v] + 1
  <2>1. failed' = failed \/ failed' = failed \cup {<<w, NextCall(w)>>}
    BY <1>2 DEF Work
  <2> QED
    BY <2>1 DEF NextCall
<1>3. CASE UNCHANGED vars
  BY <1>1, <1>3 DEF vars, workerVars
<1>4. CASE ExecuteModel \/ SampleTokens \/ Utility
  BY <1>1, <1>4 DEF ExecuteModel, SampleTokens, Utility, Enqueue, Raise, workerVars
<1>5. CASE RegisterCheck \/ RegisterStore \/ MakeFuture \/ MakeFutureRaises \/ WaitForStep
  BY <1>1, <1>5 DEF RegisterCheck, RegisterStore, MakeFuture, MakeFutureRaises, WaitForStep, workerVars
<1>6. CASE Drain \/ GetResponse \/ GetResponseRaises \/ Return \/ HandleExecutorFailed
  BY <1>1, <1>6 DEF Drain, GetResponse, GetResponseRaises, Return, HandleExecutorFailed, workerVars
<1>7. CASE \E w \in Ranks : EnqueueOutput(w) \/ WorkerDies(w) \/ WorkerExits(w)
  BY <1>1, <1>7 DEF EnqueueOutput, WorkerDies, WorkerExits
<1>8. CASE MonitorWorkers \/ EngineShutdown \/ CloseQueues \/ CallBack
  BY <1>1, <1>8 DEF MonitorWorkers, EngineShutdown, CloseQueues, CallBack, workerVars
<1> QED
  BY <1>2, <1>3, <1>4, <1>5, <1>6, <1>7, <1>8 DEF Next, EngineStep

\* What the status of an answer says does not change any more.
LEMMA StatusStays ==
  ASSUME TypeOK, CallInv, QueuedInv, TargetInv, [Next]_vars, NEW w \in Ranks, AnswerInv(w),
         NEW m \in Response, m.call <= taken[w], StatusOf(w, m)
  PROVE  StatusOf(w, m)'
<1>1. m.call \in Calls
  BY DEF Response
<1>2. m.call \in Nat /\ taken[w] \in Nat /\ taken[w] <= Len(calls) /\ Len(calls) \in Nat
  BY <1>1, ExecutorTypes DEF AnswerInv, OrderInv
<1>3. PICK c \in Calls : c = m.call
  BY <1>1
<1>4. kind_of(c)' = kind_of(c)
  BY <1>2, <1>3, ResolvedStays
<1>5. <<w, c - 1>> \in failed' => <<w, c - 1>> \in failed
  <2>1. c - 1 # taken[w] + 1
    BY <1>2, <1>3
  <2> QED
    BY <2>1, FailedMoves
<1>6. <<w, c>> \in failed => <<w, c>> \in failed'
  BY FailedMoves
<1> QED
  BY <1>3, <1>4, <1>5, <1>6 DEF StatusOf, NoOutput

\* The answer of the call that a worker takes.
LEMMA StatusOfWork ==
  ASSUME TypeOK, CallInv, UtilityCallsSucceed, NEW w \in Ranks, Work(w), NEW m \in Response,
         Member(async_output_queue'[w], m), ~ Member(async_output_queue[w], m)
  PROVE  StatusOf(w, m)'
<1>1. PICK status \in Statuses(w, NextCall(w)) :
        /\ failed' = failed \cup (IF status = "FAILURE" THEN {<<w, NextCall(w)>>} ELSE {})
        /\ async_output_queue' =
             IF Answers(w, NextCall(w))
             THEN [async_output_queue EXCEPT ![w] =
                    Append(@, [call |-> NextCall(w), status |-> status])]
             ELSE async_output_queue
  BY DEF Work
<1>2. PICK c : c = NextCall(w)
  OBVIOUS
<1>3. /\ taken[w] \in Nat /\ taken[w] < Len(calls) /\ Len(calls) \in 0 .. MaxCalls
      /\ MaxCalls \in Nat /\ c = taken[w] + 1
  BY <1>2, ExecutorTypes DEF Work, NextCall
<1>4. c \in Calls /\ c \in Nat
  BY <1>3 DEF Calls
<1>5. status \in {"SUCCESS", "FAILURE", "NONE"}
  BY <1>1 DEF Statuses, Succeeds
<1>6. PICK r : r = [call |-> c, status |-> status]
  OBVIOUS
<1>7. r \in Response /\ r.call = c /\ r.status = status
  BY <1>4, <1>5, <1>6 DEF Response
<1>8. async_output_queue \in [Ranks -> Seq(Response)]
  BY DEF TypeOK
<1>9. async_output_queue'[w] = Append(async_output_queue[w], r)
  <2>1. CASE Answers(w, NextCall(w))
    BY <1>1, <1>2, <1>6, <1>8, <2>1
  <2>2. CASE ~ Answers(w, NextCall(w))
    BY <1>1, <2>2
  <2> QED
    BY <2>1, <2>2
<1>10. m = r
  BY <1>7, <1>8, <1>9, MemberAppend
<1>11. UNCHANGED <<calls, env>>
  BY DEF Work
<1>12. kind_of(c)' = kind_of(c)
  BY <1>11 DEF kind_of
<1>13. status = Succeeds(w, c) \/ (status = "FAILURE" /\ kind_of(c) \in env.failing)
  BY <1>1, <1>2 DEF Statuses
<1>14. kind_of(c) = "execute_model" => status \in {"NONE", "FAILURE"}
  BY <1>13 DEF Succeeds
<1>15. kind_of(c) = "sample_tokens" /\ <<w, c - 1>> \in failed' => status \in {"NONE", "FAILURE"}
  <2>1. c - 1 # c
    BY <1>4
  <2>2. <<w, c - 1>> \in failed' => <<w, c - 1>> \in failed
    BY <1>1, <1>2, <2>1
  <2> QED
    BY <1>13, <2>2 DEF Succeeds
<1>16. status = "FAILURE" => <<w, c>> \in failed'
  BY <1>1, <1>2
<1>17. status = "FAILURE" => kind_of(c) # "utility"
  <2>1. "utility" \notin env.failing
    BY DEF UtilityCallsSucceed, TypeOK
  <2>2. Succeeds(w, c) # "FAILURE"
    BY DEF Succeeds
  <2> QED
    BY <1>13, <2>1, <2>2
<1> QED
  BY <1>7, <1>10, <1>12, <1>14, <1>15, <1>16, <1>17 DEF StatusOf, NoOutput

\* Every step keeps what the answers say.
LEMMA StatusStep ==
  ASSUME ExecutorInv, UtilityCallsSucceed, [Next]_vars, NEW w \in Ranks, StatusInv(w)
  PROVE  StatusInv(w)'
<1>0. TypeOK /\ CallInv /\ QueuedInv /\ TargetInv /\ AnswerInv(w)
  BY DEF ExecutorInv
<1>1. /\ response_mqs \in [Ranks -> Seq(Response)] /\ async_output_queue \in [Ranks -> Seq(Response)]
      /\ response_mqs[w] \in Seq(Response) /\ async_output_queue[w] \in Seq(Response)
  BY <1>0 DEF TypeOK
<1>2. ASSUME NEW m \in Response, Member(response_mqs[w], m) \/ Member(async_output_queue[w], m)
      PROVE  StatusOf(w, m)'
  <2>1. m.call \in Calls
    BY DEF Response
  <2>2. InQueues(w, m.call)
    BY <1>2, MemberHas DEF InQueues
  <2>3. m.call <= taken[w]
    BY <1>0, <2>1, <2>2 DEF AnswerInv
  <2>4. StatusOf(w, m)
    BY <1>2 DEF StatusInv
  <2> QED
    BY <1>0, <2>3, <2>4, StatusStays
<1>3. ASSUME NEW m \in Response, Member(response_mqs'[w], m) \/ Member(async_output_queue'[w], m),
             ~ Member(response_mqs[w], m), ~ Member(async_output_queue[w], m)
      PROVE  StatusOf(w, m)'
  <2>1. CASE response_mqs'[w] = response_mqs[w] /\ async_output_queue'[w] = async_output_queue[w]
    BY <1>3, <2>1
  <2>2. CASE UNCHANGED <<response_mqs, async_output_queue>>
    BY <2>1, <2>2
  <2>3. CASE Quiet \/ (\E kind \in Kinds : Enqueue(kind)) \/ MakeFuture \/ Drain \/ GetResponseRaises
    BY <2>2, <2>3 DEF Quiet, Enqueue, MakeFuture, Drain, GetResponseRaises, workerVars
  <2>4. CASE GetResponse
    <3>1. UNCHANGED async_output_queue
      BY <2>4 DEF GetResponse
    <3>2. CASE UNCHANGED response_mqs
      BY <2>2, <3>1, <3>2
    <3>3. ASSUME NEW n \in Ranks, response_mqs[n] # << >>,
                 response_mqs' = [response_mqs EXCEPT ![n] = Tail(@)]
          PROVE  FALSE
      <4>1. CASE n = w
        <5>1. response_mqs'[w] = Tail(response_mqs[w])
          BY <1>1, <3>3, <4>1
        <5> QED
          BY <1>1, <1>3, <3>1, <3>3, <4>1, <5>1, MemberTail
      <4>2. CASE n # w
        BY <1>1, <1>3, <3>1, <3>3, <4>2
      <4> QED
        BY <4>1, <4>2
    <3> QED
      BY <1>0, <2>4, <3>2, <3>3, ReadCases
  <2>5. ASSUME NEW v \in Ranks, Work(v)
        PROVE  StatusOf(w, m)'
    <3>1. UNCHANGED response_mqs
      BY <2>5 DEF Work
    <3>2. CASE v = w
      BY <1>0, <1>3, <2>5, <3>1, <3>2, StatusOfWork
    <3>3. CASE v # w
      <4>1. async_output_queue'[w] = async_output_queue[w]
        BY <1>1, <2>5, <3>3 DEF Work
      <4> QED
        BY <2>1, <3>1, <4>1
    <3> QED
      BY <3>2, <3>3
  <2>6. ASSUME NEW v \in Ranks, EnqueueOutput(v)
        PROVE  StatusOf(w, m)'
    <3>1. /\ async_output_queue[v] # << >>
          /\ response_mqs' = [response_mqs EXCEPT ![v] = Append(@, Head(async_output_queue[v]))]
          /\ async_output_queue' = [async_output_queue EXCEPT ![v] = Tail(@)]
      BY <2>6 DEF EnqueueOutput
    <3>2. CASE v # w
      BY <1>1, <2>1, <3>1, <3>2
    <3>3. CASE v = w
      <4>1. PICK r : r = Head(async_output_queue[w])
        OBVIOUS
      <4>2. /\ response_mqs'[w] = Append(response_mqs[w], r)
            /\ async_output_queue'[w] = Tail(async_output_queue[w])
        BY <1>1, <3>1, <3>3, <4>1
      <4>3. r \in Response /\ Member(async_output_queue[w], r)
        BY <1>1, <3>1, <3>3, <4>1, MemberTail
      <4>4. Member(async_output_queue'[w], m) => Member(async_output_queue[w], m)
        BY <1>1, <3>1, <3>3, <4>2, MemberTail
      <4>5. Member(response_mqs'[w], m) => Member(response_mqs[w], m) \/ m = r
        BY <1>1, <4>2, <4>3, MemberAppend
      <4> QED
        BY <1>3, <4>3, <4>4, <4>5
    <3> QED
      BY <3>2, <3>3
  <2> QED
    BY <2>3, <2>4, <2>5, <2>6, StepCases
<1> QED
  BY <1>2, <1>3 DEF StatusInv

-----------------------------------------------------------------------------
\* An answer on its way is there until it is read.
LEMMA QueuesKeep ==
  ASSUME TypeOK, CallInv, [Next]_vars, NEW w \in Ranks, NEW c \in Calls, InQueues(w, c),
         GetResponse => response_mqs'[w] = response_mqs[w]
  PROVE  InQueues(w, c)'
<1>0. /\ response_mqs \in [Ranks -> Seq(Response)] /\ async_output_queue \in [Ranks -> Seq(Response)]
      /\ response_mqs[w] \in Seq(Response) /\ async_output_queue[w] \in Seq(Response)
  BY DEF TypeOK
<1>1. CASE response_mqs'[w] = response_mqs[w] /\ async_output_queue'[w] = async_output_queue[w]
  BY <1>1 DEF InQueues, Has
<1>2. CASE Quiet \/ (\E kind \in Kinds : Enqueue(kind)) \/ MakeFuture \/ Drain \/ GetResponseRaises
  BY <1>1, <1>2 DEF Quiet, Enqueue, MakeFuture, Drain, GetResponseRaises, workerVars
<1>3. CASE GetResponse
  BY <1>1, <1>3 DEF GetResponse
<1>4. ASSUME NEW v \in Ranks, Work(v)
      PROVE  InQueues(w, c)'
  <2>1. PICK status \in Statuses(v, NextCall(v)) :
          async_output_queue' =
            IF Answers(v, NextCall(v))
            THEN [async_output_queue EXCEPT ![v] =
                   Append(@, [call |-> NextCall(v), status |-> status])]
            ELSE async_output_queue
    BY <1>4 DEF Work
  <2>2. UNCHANGED response_mqs
    BY <1>4 DEF Work
  <2>3. CASE v # w \/ ~ Answers(v, NextCall(v))
    BY <1>0, <1>1, <2>1, <2>2, <2>3
  <2>4. CASE v = w /\ Answers(v, NextCall(v))
    <3>1. PICK r : r = [call |-> NextCall(w), status |-> status]
      OBVIOUS
    <3>2. async_output_queue'[w] = Append(async_output_queue[w], r)
      BY <1>0, <2>1, <2>4, <3>1
    <3>3. r \in Response
      <4>1. /\ taken[w] \in Nat /\ taken[w] < Len(calls) /\ Len(calls) \in 0 .. MaxCalls
            /\ MaxCalls \in Nat
        BY <1>4, <2>4, ExecutorTypes DEF Work
      <4>2. NextCall(w) \in Calls
        BY <4>1 DEF Calls, NextCall
      <4>3. status \in {"SUCCESS", "FAILURE", "NONE"}
        BY <2>1 DEF Statuses, Succeeds
      <4> QED
        BY <3>1, <4>2, <4>3 DEF Response
    <3>4. Has(async_output_queue[w], c) => Has(async_output_queue'[w], c)
      BY <1>0, <3>2, <3>3, HasAppend
    <3> QED
      BY <2>2, <3>4 DEF InQueues
  <2> QED
    BY <2>3, <2>4
<1>5. ASSUME NEW v \in Ranks, EnqueueOutput(v)
      PROVE  InQueues(w, c)'
  <2>1. /\ async_output_queue[v] # << >>
        /\ response_mqs' = [response_mqs EXCEPT ![v] = Append(@, Head(async_output_queue[v]))]
        /\ async_output_queue' = [async_output_queue EXCEPT ![v] = Tail(@)]
    BY <1>5 DEF EnqueueOutput
  <2>2. CASE v # w
    BY <1>0, <1>1, <2>1, <2>2
  <2>3. CASE v = w
    <3>1. PICK r : r = Head(async_output_queue[w])
      OBVIOUS
    <3>2. /\ response_mqs'[w] = Append(response_mqs[w], r)
          /\ async_output_queue'[w] = Tail(async_output_queue[w])
      BY <1>0, <2>1, <2>3, <3>1
    <3>3. r \in Response /\ (Has(async_output_queue[w], c) => r.call = c \/ Has(async_output_queue'[w], c))
      BY <1>0, <2>1, <2>3, <3>1, <3>2, HasTail
    <3>4. Has(response_mqs'[w], c) <=> Has(response_mqs[w], c) \/ r.call = c
      BY <1>0, <3>2, <3>3, HasAppend
    <3> QED
      BY <3>3, <3>4 DEF InQueues
  <2> QED
    BY <2>2, <2>3
<1> QED
  BY <1>2, <1>3, <1>4, <1>5, StepCases

\* The output rank answers a call when it takes it, or raises.
LEMMA OutputRankAnswers ==
  ASSUME TypeOK, CallInv, Work(output_rank), NEW d \in Calls, d = taken[output_rank] + 1
  PROVE  InQueues(output_rank, d)'
<1>0. /\ async_output_queue \in [Ranks -> Seq(Response)] /\ output_rank \in Ranks
      /\ async_output_queue[output_rank] \in Seq(Response)
  BY ExecutorTypes DEF TypeOK
<1>1. Answers(output_rank, NextCall(output_rank)) /\ NextCall(output_rank) = d
  BY DEF Answers, NextCall
<1>2. PICK status \in Statuses(output_rank, NextCall(output_rank)) :
        async_output_queue' = [async_output_queue EXCEPT ![output_rank] =
                                Append(@, [call |-> NextCall(output_rank), status |-> status])]
  BY <1>1 DEF Work
<1>3. PICK r : r = [call |-> d, status |-> status]
  OBVIOUS
<1>4. async_output_queue'[output_rank] = Append(async_output_queue[output_rank], r)
  BY <1>0, <1>1, <1>2, <1>3
<1>5. status \in {"SUCCESS", "FAILURE", "NONE"}
  BY <1>2 DEF Statuses, Succeeds
<1>6. r \in Response /\ r.call = d
  BY <1>3, <1>5 DEF Response
<1>7. Has(async_output_queue'[output_rank], d)
  BY <1>0, <1>4, <1>6, HasAppend
<1> QED
  BY <1>7 DEF InQueues

LEMMA NoneAheadStays ==
  ASSUME TypeOK, CallInv, [Next]_vars, NEW d \in Calls, NoneAhead(d),
         GetResponse => response_mqs'[output_rank] = response_mqs[output_rank]
  PROVE  NoneAhead(d)'
<1>0. output_rank \in Ranks /\ taken[output_rank] \in Nat /\ d \in Nat
  BY ExecutorTypes
<1>1. /\ taken'[output_rank] \in Nat
      /\ taken'[output_rank] # taken[output_rank] => Work(output_rank)
  BY <1>0, TakenStays
<1>2. CASE taken[output_rank] >= d
  <2>1. <<output_rank, d>> \in failed \/ InQueues(output_rank, d)
    BY <1>2 DEF NoneAhead
  <2>2. <<output_rank, d>> \in failed' \/ InQueues(output_rank, d)'
    BY <1>0, <2>1, QueuesKeep, FailedMoves
  <2> QED
    BY <2>2 DEF NoneAhead, output_rank
<1>3. CASE ~ (taken[output_rank] >= d)
  <2>1. CASE taken'[output_rank] >= d
    <3>1. Work(output_rank)
      BY <1>1, <1>3, <2>1
    <3>2. taken'[output_rank] = taken[output_rank] + 1
      BY <1>0, <3>1 DEF Work, TypeOK
    <3>3. d = taken[output_rank] + 1
      BY <1>0, <1>3, <2>1, <3>2
    <3>4. InQueues(output_rank, d)'
      BY <3>1, <3>3, OutputRankAnswers
    <3> QED
      BY <3>4 DEF NoneAhead
  <2>2. CASE ~ (taken'[output_rank] >= d)
    BY <2>2 DEF NoneAhead, output_rank
  <2> QED
    BY <2>1, <2>2
<1> QED
  BY <1>2, <1>3

\* The step of an execute_model that was given up reads no output.
LEMMA ReadsNoOutput ==
  ASSUME ExecutorInv, StatusInv(output_rank), TurnInv, current # 0,
         NEW d \in Calls, NEW b \in Calls, FirstGivenUp(d), b = d + 1, b = current,
         kind_of(d) = "execute_model", kind_of(b) = "sample_tokens", NoneAhead(d),
         Answers(output_rank, b), Unread(output_rank, b), response_mqs[output_rank] # << >>
  PROVE  NoOutput(Head(response_mqs[output_rank]))
<1>0. /\ TypeOK /\ CallInv /\ QueuedInv /\ TargetInv /\ output_rank \in Ranks
      /\ AnswerInv(output_rank)
  BY ExecutorTypes DEF ExecutorInv
<1>1. PICK m : m = Head(response_mqs[output_rank])
  OBVIOUS
<1>2. response_mqs[output_rank] \in Seq(Response)
  BY <1>0, ExecutorTypes
<1>3. m \in Response /\ Member(response_mqs[output_rank], m) /\ m.call \in Calls
  BY <1>1, <1>2, MemberTail, HasTail
<1>4. StatusOf(output_rank, m)
  BY <1>3 DEF StatusInv
<1>5. PICK h \in Calls : h = m.call
  BY <1>3
<1>6. h <= b /\ h <= taken[output_rank]
  BY <1>0, <1>1, <1>5, HeadIsAnswer
<1>7. h \in Nat /\ d \in Nat /\ b \in Nat /\ taken[output_rank] \in Nat
  BY <1>0, ExecutorTypes
<1>8. ~ (h < d)
  <2> SUFFICES ASSUME h < d
               PROVE  FALSE
    OBVIOUS
  <2>1. h < current
    BY <1>7
  <2>2. future[h] \in {"done", "exception"} /\ targets[h] # << >>
    BY <1>0, <2>1, DrainedInOrder
  <2>3. InQueues(output_rank, h)
    BY <1>3, <1>5, MemberHas DEF InQueues
  <2>4. MayBeQueued(output_rank, h)
    BY <1>0, <2>3 DEF AnswerInv
  <2>5. GivenUp(h) \/ GivenUpBefore(h)
    BY <2>2, <2>4 DEF MayBeQueued, Unread
  <2>6. GivenUpBefore(d)
    <3>1. CASE GivenUp(h)
      BY <3>1 DEF GivenUpBefore
    <3>2. ASSUME NEW e \in Calls, e < h, GivenUp(e)
          PROVE  GivenUpBefore(d)
      <4>1. e \in Nat
        BY <1>0, ExecutorTypes
      <4>2. e < d
        BY <1>7, <3>2, <4>1
      <4> QED
        BY <3>2, <4>2 DEF GivenUpBefore
    <3> QED
      BY <2>5, <3>1, <3>2 DEF GivenUpBefore
  <2> QED
    BY <2>6 DEF FirstGivenUp
<1>9. h = d \/ h = b
  BY <1>6, <1>7, <1>8
<1>10. CASE h = d
  BY <1>1, <1>4, <1>5, <1>10 DEF StatusOf
<1>11. CASE h = b
  <2>1. ~ InQueues(output_rank, d)
    <3>1. /\ \A c : Has(response_mqs[output_rank], c) <=> m.call = c \/ Has(Tail(response_mqs[output_rank]), c)
          /\ \A c \in Calls : Has(Tail(response_mqs[output_rank]), c) => m.call < c
      BY <1>0, <1>1, <1>2, HasTail DEF AnswerInv, OrderInv
    <3>2. ~ Has(response_mqs[output_rank], d)
      BY <1>5, <1>7, <1>11, <3>1
    <3>3. Has(response_mqs[output_rank], b)
      BY <1>5, <1>11, <3>1
    <3>4. Has(async_output_queue[output_rank], d) => b < d
      BY <1>0, <3>3 DEF AnswerInv, OrderInv
    <3> QED
      BY <1>7, <3>2, <3>4 DEF InQueues
  <2>2. taken[output_rank] >= d
    BY <1>6, <1>7, <1>11
  <2>3. <<output_rank, d>> \in failed
    BY <2>1, <2>2 DEF NoneAhead
  <2>4. m.call - 1 = d
    BY <1>5, <1>7, <1>11
  <2> QED
    BY <1>1, <1>4, <1>5, <1>11, <2>3, <2>4 DEF StatusOf
<1> QED
  BY <1>9, <1>10, <1>11

\* A step that cannot succeed never can.
LEMMA DoomedStays ==
  ASSUME ExecutorInv, TurnInv, StatusInv(output_rank), [Next]_vars,
         NEW d \in Calls, NEW b \in Calls, FirstGivenUp(d), Doomed(d, b),
         kind_of(b) = "sample_tokens", future[b] # "none"
  PROVE  Doomed(d, b)'
<1>0. /\ TypeOK /\ CallInv /\ QueuedInv /\ TargetInv /\ output_rank \in Ranks
      /\ answers[b] \in Seq(Response) /\ d \in Nat /\ b \in Nat
  BY ExecutorTypes DEF ExecutorInv
<1>1. CASE future[b] = "exception"
  BY <1>0, <1>1, ResolvedStays DEF Doomed
<1>2. ASSUME NEW n \in Ranks, response_mqs[n] # << >>,
             answers'[b] = Append(answers[b], Head(response_mqs[n]))
      PROVE  /\ answers'[b] # << >>
             /\ answers'[b][1] = IF answers[b] = << >> THEN Head(response_mqs[n]) ELSE answers[b][1]
  <2>1. PICK r : r = Head(response_mqs[n])
    OBVIOUS
  <2>2. r \in Response
    BY <1>0, <1>2, <2>1, ExecutorTypes, HasTail
  <2> QED
    BY <1>0, <1>2, <2>1, <2>2, MemberAppend
<1>3. CASE answers[b] # << >> /\ answers[b][1].status = "NONE"
  <2>1. answers'[b] # << >> /\ answers'[b][1] = answers[b][1]
    BY <1>0, <1>2, <1>3, AnswersMove
  <2> QED
    BY <1>3, <2>1 DEF Doomed
<1>4. CASE /\ future[b] = "pending" /\ answers[b] = << >> /\ b = d + 1
           /\ kind_of(d) = "execute_model" /\ NoneAhead(d)
  <2>0. Resolved(d) /\ d <= Len(calls)
    BY <1>0, MadeCalls DEF FirstGivenUp, GivenUp, Resolved
  <2>1. kind_of(d)' = "execute_model"
    BY <1>0, <1>4, <2>0, ResolvedStays
  <2>2. current # 0 => current = b
    <3> SUFFICES ASSUME current # 0
                 PROVE  current = b
      OBVIOUS
    <3>1. current \in Calls /\ current \in Nat /\ future[current] = "pending"
      BY <1>0, ReadFacts, ExecutorTypes
    <3>2. PICK k \in Calls : k = current
      BY <3>1
    <3>3. ~ (b < k)
      BY <1>0, <1>4, <3>2, DrainedInOrder
    <3>4. ~ (k < d) /\ k # d
      BY <2>0, <3>1, <3>2 DEF TurnInv, Resolved
    <3> QED
      BY <1>0, <1>4, <3>1, <3>2, <3>3, <3>4
  <2>3. Len(answers[b]) # Len(targets[b])
    <3>1. targets[b] = <<output_rank>>
      BY <1>0, <1>4 DEF TargetInv, UniqueReply
    <3> QED
      BY <1>4, <3>1
  <2>4. CASE Answered(b)
    <3>1. Resolve("exception") \/ UNCHANGED future
      BY <1>0, <2>3, <2>4, ReadCases DEF Answered, GetResponseRaises
    <3>2. future'[b] = "exception"
      BY <1>0, <2>4, <3>1 DEF Answered, Resolve, TypeOK
    <3> QED
      BY <3>2 DEF Doomed
  <2>5. CASE future'[b] = future[b]
    <3>1. CASE answers'[b] # answers[b]
      <4>1. PICK n \in Ranks : /\ Answers(n, b) /\ Unread(n, b) /\ response_mqs[n] # << >>
                               /\ Head(response_mqs[n]).status # "FAILURE"
                               /\ answers'[b] = Append(answers[b], Head(response_mqs[n]))
        BY <1>0, <3>1, AnswersMove
      <4>2. b = current /\ current # 0
        BY <1>0, <2>2, <3>1, AnswersMove DEF GetResponse
      <4>3. n = output_rank
        BY <1>0, <4>1, OneAnswers
      <4>4. NoOutput(Head(response_mqs[output_rank]))
        BY <1>4, <4>1, <4>2, <4>3, ReadsNoOutput
      <4>5. Head(response_mqs[n]).status = "NONE"
        BY <4>1, <4>3, <4>4 DEF NoOutput
      <4>6. answers'[b] # << >> /\ answers'[b][1] = Head(response_mqs[n])
        BY <1>2, <1>4, <4>1
      <4> QED
        BY <4>5, <4>6 DEF Doomed
    <3>2. CASE answers'[b] = answers[b]
      <4>1. ~ GetResponse
        <5> SUFFICES ASSUME GetResponse
                     PROVE  FALSE
          OBVIOUS
        <5>1. current = b
          BY <2>2 DEF GetResponse
        <5>2. ASSUME NEW s \in {"done", "exception"}, Resolve(s)
              PROVE  FALSE
          BY <1>0, <1>4, <2>5, <5>1, <5>2 DEF Resolve, TypeOK
        <5>3. ASSUME NEW n \in Ranks, response_mqs[n] # << >>,
                     answers' = [answers EXCEPT ![current] = Append(@, Head(response_mqs[n]))]
              PROVE  FALSE
          <6>1. answers'[b] = Append(answers[b], Head(response_mqs[n]))
            BY <1>0, <5>1, <5>3 DEF TypeOK
          <6> QED
            BY <1>2, <1>4, <3>2, <5>3, <6>1
        <5> QED
          BY <1>0, <5>2, <5>3, ReadCases
      <4>2. NoneAhead(d)'
        BY <1>0, <1>4, <4>1, NoneAheadStays
      <4> QED
        BY <1>4, <2>1, <2>5, <3>2, <4>2 DEF Doomed
    <3> QED
      BY <3>1, <3>2
  <2> QED
    BY <1>0, <1>4, <2>4, <2>5, FutureMoves DEF Made
<1> QED
  BY <1>1, <1>3, <1>4 DEF Doomed

\* The first call given up stays the first.
LEMMA FirstStays ==
  ASSUME ExecutorInv, TurnInv, [Next]_vars, NEW d \in Calls, FirstGivenUp(d)
  PROVE  FirstGivenUp(d)'
<1>0. TypeOK /\ CallInv /\ QueuedInv /\ TargetInv
  BY DEF ExecutorInv
<1>1. GivenUp(d)'
  BY <1>0, GivenUpStays DEF FirstGivenUp
<1>2. ASSUME NEW e \in Calls, e < d, GivenUp(e)'
      PROVE  FALSE
  <2>1. Resolved(d)
    BY DEF FirstGivenUp, GivenUp, Resolved
  <2>2. Resolved(e)
    BY <1>2, <2>1 DEF TurnInv
  <2>3. future'[e] = future[e] /\ env' = env
    BY <1>0, <2>2, ResolvedStays DEF Resolved
  <2>4. kind_of(e)' = kind_of(e)
    BY <1>0, <2>2, ResolvedStays, MadeCalls DEF Resolved
  <2>5. GivenUp(e)
    BY <1>2, <2>3, <2>4 DEF GivenUp
  <2> QED
    BY <1>2, <2>5 DEF FirstGivenUp, GivenUpBefore
<1> QED
  BY <1>1, <1>2 DEF FirstGivenUp, GivenUpBefore

\* The engine core stops at the step of the first call given up, whatever happens.
LEMMA EndsStay ==
  ASSUME ExecutorInv, KindInv, BatchInv, TurnInv, StatusInv(output_rank), [Next]_vars,
         NEW d \in Calls, FirstGivenUp(d), Ends(d)
  PROVE  Ends(d)'
<1>0. TypeOK /\ FailureInv /\ CallInv /\ QueuedInv /\ TargetInv
  BY DEF ExecutorInv
<1>1. CASE epc = "dead"
  <2>1. ~ MakeFuture /\ ~ WaitForStep /\ ~ Return /\ \A kind \in Kinds : ~ Calling(kind)
    BY <1>1 DEF MakeFuture, WaitForStep, Return, Calling
  <2>2. epc' = "dead"
    BY <1>1, <2>1, EngineCases DEF Aside
  <2> QED
    BY <2>2 DEF Ends
<1>2. CASE closed /\ d = Len(calls)
  <2>1. closed'
    BY <1>0, <1>2, ResolvedStays
  <2>2. UNCHANGED calls
    <3>1. ~ \E kind \in Kinds : Calling(kind)
      <4> SUFFICES ASSUME NEW kind \in Kinds, Calling(kind)
                   PROVE  FALSE
        OBVIOUS
      <4>1. Enqueue(kind) /\ epc # "dead"
        BY DEF Calling
      <4> QED
        BY <1>0, <1>2, <4>1, NoCallsWhenClosed
    <3> QED
      BY <3>1, EngineCases DEF Aside, MakeFuture, WaitForStep, Return
  <2> QED
    BY <1>2, <2>1, <2>2 DEF Ends
<1>3. ASSUME epc # "dead", kind_of(d) # "utility",
             NEW b \in Calls, b = StepOf(d), InBatch(b), Doomed(d, b)
      PROVE  Ends(d)'
  <2>1. d <= Len(calls)
    BY <1>0, MadeCalls DEF FirstGivenUp, GivenUp
  <2>2. kind_of(d)' = kind_of(d)
    BY <1>0, <2>1, ResolvedStays
  <2>3. b = StepOf(d)'
    BY <1>3, <2>2 DEF StepOf
  <2>4. kind_of(b) = "sample_tokens" /\ future[b] # "none"
    BY <1>3 DEF BatchInv
  <2>5. Doomed(d, b)'
    BY <1>3, <2>4, DoomedStays
  <2>6. CASE InBatch(b)'
    BY <2>2, <2>3, <2>5, <2>6, <1>3 DEF Ends
  <2>7. CASE ~ InBatch(b)'
    <3>1. batch_queue' # batch_queue
      BY <1>3, <2>7 DEF InBatch
    <3>2. ~ MakeFuture
      <4> SUFFICES ASSUME MakeFuture
                   PROVE  FALSE
        OBVIOUS
      <4>1. batch_queue' = Append(batch_queue, call) /\ call \in Calls
        BY <1>0, <3>1, Making
      <4>2. InBatch(b)'
        BY <1>0, <1>3, <4>1, MemberAppend DEF InBatch, TypeOK
      <4> QED
        BY <2>7, <4>2
    <3>3. Return
      BY <1>0, <3>1, <3>2, EngineCases, NewCall DEF Aside, WaitForStep
    <3>4. kind_of(waited) # "utility"
      BY <3>1, <3>3, Returning
    <3>5. b = waited
      BY <1>0, <1>3, <2>7, <3>3, <3>4, BatchShrinks
    <3>6. epc' = Outcome(b) /\ future[b] # "pending"
      BY <3>3, <3>5, Returning
    <3>7. future[b] = "exception" \/ answers[b][1].status = "NONE"
      BY <1>3, <3>6 DEF Doomed
    <3>8. epc' = "dead"
      BY <2>4, <3>6, <3>7 DEF Outcome, AfterRaise
    <3> QED
      BY <3>8 DEF Ends
  <2> QED
    BY <2>6, <2>7
<1> QED
  BY <1>1, <1>2, <1>3 DEF Ends

\* The first call that is given up ends its step, or is the last one.
LEMMA EndsStart ==
  ASSUME ExecutorInv, KindInv, BatchInv, TurnInv, \A w \in Ranks : StatusInv(w),
         UtilityCallsSucceed, [Next]_vars, \A d \in Calls : ~ GivenUp(d),
         NEW e \in Calls, GivenUp(e)'
  PROVE  FirstGivenUp(e)' /\ Ends(e)'
<1>0. /\ TypeOK /\ FailureInv /\ CallInv /\ QueuedInv /\ TargetInv /\ output_rank \in Ranks
      /\ \A w \in Ranks : AnswerInv(w)
      /\ Len(calls) \in Nat /\ e \in Nat /\ e >= 1
      /\ \A c \in Nat : c >= 1 /\ c <= Len(calls) => c \in Calls
  BY ExecutorTypes, LastCall DEF ExecutorInv
<1>1. env' = env /\ \A c \in Calls : c <= Len(calls) => kind_of(c)' = kind_of(c)
  BY <1>0, ResolvedStays
<1>2. ASSUME NEW c \in Calls, GivenUp(c)'
      PROVE  Answered(c) /\ c <= Len(calls)
  <2>1. future'[c] = "exception" /\ ~ Made(c)
    BY <1>2 DEF GivenUp, Made
  <2>2. CASE future'[c] = future[c]
    <3>1. c <= Len(calls)
      BY <1>0, <2>1, <2>2, MadeCalls
    <3>2. GivenUp(c)
      BY <1>1, <1>2, <2>2, <3>1 DEF GivenUp
    <3> QED
      BY <3>2
  <2>3. CASE Answered(c)
    BY <1>0, <2>3, MadeCalls DEF Answered
  <2> QED
    BY <1>0, <2>1, <2>2, <2>3, FutureMoves
<1>3. /\ GetResponse \/ GetResponseRaises
      /\ e = current /\ future[e] = "pending" /\ future'[e] = "exception" /\ e <= Len(calls)
  BY <1>2 DEF Answered, GivenUp
<1>4. FirstGivenUp(e)'
  <2>1. ~ GivenUpBefore(e)'
    <3> SUFFICES ASSUME NEW c \in Calls, c < e, GivenUp(c)'
                 PROVE  FALSE
      BY DEF GivenUpBefore
    <3>1. c = e
      BY <1>2, <1>3 DEF Answered
    <3> QED
      BY <1>0, <3>1
  <2> QED
    BY <2>1 DEF FirstGivenUp
<1>5. /\ epc = "wait" /\ current # 0 /\ kind_of(e)' = kind_of(e)
      /\ UNCHANGED <<calls, batch_queue, epc, taken, failed, closed, async_output_queue>>
      /\ \A c : InBatch(c)' <=> InBatch(c)
  BY <1>1, <1>3 DEF GetResponse, GetResponseRaises, workerVars, failureVars, InBatch
<1>6. ASSUME GetResponse
      PROVE  \E n \in Ranks : /\ Answers(n, e) /\ Unread(n, e) /\ response_mqs[n] # << >>
                              /\ Head(response_mqs[n]).status = "FAILURE" /\ UNCHANGED answers
  <2>1. ~ Resolve("done") /\ ~ UNCHANGED future
    BY <1>0, <1>3 DEF Resolve, TypeOK
  <2> QED
    BY <1>0, <1>3, <1>6, <2>1, ReadCases
<1>7. ASSUME NEW n \in Ranks, Answers(n, e), Unread(n, e), response_mqs[n] # << >>,
             Head(response_mqs[n]).status = "FAILURE"
      PROVE  <<n, e>> \in failed /\ kind_of(e) # "utility"
  <2>1. PICK m : m = Head(response_mqs[n])
    OBVIOUS
  <2>2. response_mqs[n] \in Seq(Response)
    BY <1>0, ExecutorTypes
  <2>3. m \in Response /\ Member(response_mqs[n], m)
    BY <1>7, <2>1, <2>2, MemberTail
  <2>4. StatusOf(n, m)
    BY <2>3 DEF StatusInv
  <2>5. ~ GivenUpBefore(current)
    BY DEF GivenUpBefore
  <2>6. m.call = e
    BY <1>0, <1>3, <1>5, <1>7, <2>1, <2>5, HeadIsAnswer
  <2> QED
    BY <1>7, <2>1, <2>4, <2>6 DEF StatusOf
<1>8. kind_of(e) \in Kinds
  BY <1>0, <1>3, ElementOfSeq DEF kind_of, TypeOK
<1>9. CASE kind_of(e) = "utility"
  <2>1. GetResponseRaises
    BY <1>3, <1>6, <1>7, <1>9
  <2>2. "utility" \notin env.timed_out
    BY <1>0 DEF UtilityCallsSucceed, TypeOK
  <2>3. closed
    BY <1>3, <1>9, <2>1, <2>2 DEF GetResponseRaises
  <2>4. e = Len(calls)
    BY <1>3, <1>9 DEF TurnInv
  <2> QED
    BY <1>4, <1>5, <2>3, <2>4 DEF Ends
<1>10. CASE kind_of(e) = "sample_tokens"
  <2>1. InBatch(e)
    BY <1>3, <1>5, <1>10 DEF BatchInv
  <2>2. e = StepOf(e)'
    BY <1>5, <1>10 DEF StepOf
  <2>3. Doomed(e, e)'
    BY <1>3 DEF Doomed
  <2> QED
    BY <1>4, <1>5, <1>10, <2>1, <2>2, <2>3 DEF Ends
<1>11. CASE kind_of(e) = "execute_model"
  <2>1. e < Len(calls)
    <3>1. e # Len(calls)
      <4>1. calls # << >>
        BY <1>0, <1>3, LastCall
      <4> QED
        BY <1>5, <1>11, <4>1 DEF KindInv
    <3> QED
      BY <1>0, <1>3, <3>1
  <2>2. PICK b \in Calls : b = e + 1
    BY <1>0, <2>1
  <2>3. b <= Len(calls) /\ b \in Nat /\ e < b
    BY <1>0, <2>1, <2>2
  <2>4. kind_of(b) = "sample_tokens"
    BY <1>11, <2>1, <2>2 DEF KindInv
  <2>5. future[b] # "none"
    BY <1>0, <1>5, <2>3 DEF CallInv
  <2>6. ~ Resolved(b)
    BY <1>3, <2>3 DEF TurnInv, Resolved
  <2>7. future[b] = "pending"
    BY <1>0, <2>5, <2>6 DEF TypeOK, Resolved
  <2>8. InBatch(b)
    BY <1>5, <2>4, <2>7 DEF BatchInv
  <2>9. answers[b] = << >> /\ b # current
    BY <1>3, <2>2, <2>3, <2>7 DEF TurnInv
  <2>10. future'[b] = "pending"
    <3>1. ~ Answered(b) /\ ~ Made(b)
      BY <2>7, <2>9 DEF Answered, Made
    <3> QED
      BY <1>0, <2>7, <3>1, FutureMoves
  <2>11. answers'[b] = << >>
    BY <1>0, <2>9, AnswersMove
  <2>12. NoneAhead(e)'
    <3>1. CASE GetResponse
      <4>1. PICK n \in Ranks : /\ Answers(n, e) /\ Unread(n, e) /\ response_mqs[n] # << >>
                               /\ Head(response_mqs[n]).status = "FAILURE"
        BY <1>6, <3>1
      <4>2. n = output_rank /\ <<n, e>> \in failed
        BY <1>0, <1>7, <1>11, <4>1, OneAnswers
      <4>3. <<output_rank, e>> \in failed'
        BY <1>5, <4>2
      <4> QED
        BY <4>3 DEF NoneAhead, output_rank
    <3>2. CASE GetResponseRaises
      <4>1. Len(answers[current]) < Len(targets[current]) /\ UNCHANGED response_mqs
        BY <3>2 DEF GetResponseRaises, workerVars
      <4>2. PICK n \in Ranks : Answers(n, current) /\ Unread(n, current)
        BY <1>0, <1>5, <4>1, ReadFacts
      <4>3. n = output_rank
        BY <1>0, <1>3, <1>11, <4>2, OneAnswers
      <4>4. Answers(output_rank, e) /\ Unread(output_rank, e)
        BY <1>3, <4>2, <4>3
      <4>5. e <= taken[output_rank] => InQueues(output_rank, e)
        BY <1>0, <4>4 DEF AnswerInv
      <4>6. taken[output_rank] \in Nat
        BY <1>0, ExecutorTypes
      <4>7. taken[output_rank] >= e => InQueues(output_rank, e)
        BY <1>0, <4>5, <4>6
      <4> QED
        BY <1>5, <4>1, <4>7 DEF NoneAhead, InQueues, Has, output_rank
    <3> QED
      BY <1>3, <3>1, <3>2
  <2>13. b = StepOf(e)'
    BY <1>5, <1>11, <2>2 DEF StepOf
  <2>14. Doomed(e, b)'
    BY <1>5, <1>11, <2>2, <2>10, <2>11, <2>12 DEF Doomed
  <2> QED
    BY <1>4, <1>5, <1>11, <2>8, <2>13, <2>14 DEF Ends
<1> QED
  BY <1>8, <1>9, <1>10, <1>11 DEF Kinds

LEMMA DoomStep ==
  ASSUME ExecutorInv, StepInv, UtilityCallsSucceed, [Next]_vars
  PROVE  DoomInv'
<1>0. /\ KindInv /\ BatchInv /\ TurnInv /\ DoomInv /\ \A w \in Ranks : StatusInv(w)
      /\ output_rank \in Ranks
  BY ExecutorTypes DEF StepInv, ExecutorInv
<1>1. CASE \A d \in Calls : ~ GivenUp(d)
  <2>1. CASE \A d \in Calls : ~ GivenUp(d)'
    BY <2>1 DEF DoomInv
  <2>2. ASSUME NEW e \in Calls, GivenUp(e)'
        PROVE  DoomInv'
    <3>1. FirstGivenUp(e)' /\ Ends(e)'
      BY <1>0, <1>1, <2>2, EndsStart
    <3> QED
      BY <3>1 DEF DoomInv
  <2> QED
    BY <2>1, <2>2
<1>2. ASSUME NEW d \in Calls, FirstGivenUp(d), Ends(d)
      PROVE  DoomInv'
  <2>1. FirstGivenUp(d)' /\ Ends(d)'
    BY <1>0, <1>2, FirstStays, EndsStay
  <2> QED
    BY <2>1 DEF DoomInv
<1> QED
  BY <1>0, <1>1, <1>2 DEF DoomInv

\* Initially there is no call.
LEMMA StepInit == Init => StepInv
<1> SUFFICES ASSUME Init
             PROVE  StepInv
  OBVIOUS
<1>1. /\ calls = << >> /\ batch_queue = << >> /\ epc \in {"idle", "register"}
      /\ \A c \in Calls : future[c] = "none"
      /\ \A w \in Ranks : response_mqs[w] = << >> /\ async_output_queue[w] = << >>
  BY DEF Init
<1>2. Len(<< >>) = 0 /\ \A c : ~ Member(<< >>, c)
  BY DEF Member
<1>3. \A c \in Calls : c >= 1 /\ c \in Nat
  BY ExecutorAssumption DEF Calls
<1>4. KindInv
  BY <1>1, <1>2, <1>3 DEF KindInv
<1>5. BatchInv
  BY <1>1, <1>2 DEF BatchInv, Sorted, InBatch
<1>6. TurnInv
  BY <1>1 DEF TurnInv, Resolved
<1>7. \A w \in Ranks : StatusInv(w)
  BY <1>1, <1>2 DEF StatusInv
<1>8. DoomInv
  BY <1>1 DEF DoomInv, GivenUp
<1> QED
  BY <1>4, <1>5, <1>6, <1>7, <1>8 DEF StepInv

\* A step that has read another call's answer is still in flight, or has ended the engine core.
LEMMA DoomedSteps ==
  ASSUME ExecutorInv, StepInv
  PROVE  StepsUseTheirOwnOutput
<1>0. /\ TypeOK /\ CallInv /\ QueuedInv /\ TargetInv /\ AnswersMatchCalls
      /\ KindInv /\ BatchInv /\ DoomInv
  BY DEF ExecutorInv, StepInv
<1> SUFFICES ASSUME NEW c \in Calls, future[c] = "done", kind_of(c) = "sample_tokens",
                    answers[c][1].call # c, epc # "dead"
             PROVE  \E i \in DOMAIN batch_queue : batch_queue[i] = c
  BY DEF StepsUseTheirOwnOutput
<1>1. /\ c \in Nat /\ c <= Len(calls) /\ Len(calls) \in Nat /\ answers[c] \in Seq(Response)
      /\ \A d \in Calls : d \in Nat
  BY <1>0, MadeCalls, ExecutorTypes
<1>2. 1 \in DOMAIN answers[c]
  <2>1. targets[c] = <<output_rank>> /\ Len(answers[c]) = Len(targets[c])
    BY <1>0 DEF TargetInv, UniqueReply
  <2>2. Len(answers[c]) = 1
    BY <2>1
  <2>3. DOMAIN answers[c] = 1 .. Len(answers[c])
    BY <1>1, LenProperties
  <2> QED
    BY <2>2, <2>3
<1>3. PICK d0 \in Calls : d0 < c /\ GivenUp(d0)
  BY <1>0, <1>2 DEF AnswersMatchCalls, GivenUpBefore
<1>4. PICK d \in Calls : FirstGivenUp(d) /\ Ends(d)
  BY <1>0, <1>3 DEF DoomInv
<1>5. d < c
  BY <1>1, <1>3, <1>4 DEF FirstGivenUp, GivenUpBefore
<1>6. d # Len(calls)
  BY <1>1, <1>5
<1>7. PICK b \in Calls : b = StepOf(d) /\ InBatch(b)
  BY <1>4, <1>6 DEF Ends
<1>8. ~ (b > c)
  BY <1>1, <1>5, <1>7 DEF StepOf
<1>9. InBatch(c)
  BY <1>0, <1>7, <1>8 DEF BatchInv
<1>10. DOMAIN batch_queue = 1 .. Len(batch_queue)
  BY <1>0, LenProperties DEF TypeOK
<1> QED
  BY <1>9, <1>10 DEF InBatch, Member

(***************************************************************************)
(* Where calls of other methods do not fail, no step of the engine core    *)
(* goes on with another step's output, whatever times out, raises or dies: *)
(* the answers that a call given up leaves behind make its own step the    *)
(* last one.  A failing call of another method leaves answers that are     *)
(* taken for outputs, so the hypothesis cannot be dropped.                 *)
(***************************************************************************)
THEOREM StepsAlwaysUseTheirOwnOutput ==
  UtilityCallsSucceed => (Spec => []StepsUseTheirOwnOutput)
<1> SUFFICES ASSUME UtilityCallsSucceed
             PROVE  Spec => []StepsUseTheirOwnOutput
  OBVIOUS
<1>1. ExecutorInv /\ StepInv /\ [Next]_vars => StepInv'
  <2> SUFFICES ASSUME ExecutorInv, StepInv, [Next]_vars
               PROVE  StepInv'
    OBVIOUS
  <2>1. /\ TypeOK /\ CallInv /\ QueuedInv /\ TargetInv
        /\ KindInv /\ BatchInv /\ TurnInv /\ \A w \in Ranks : StatusInv(w)
    BY DEF ExecutorInv, StepInv
  <2>2. KindInv' /\ BatchInv' /\ TurnInv'
    BY <2>1, KindStep, BatchStep, TurnStep
  <2>3. \A w \in Ranks : StatusInv(w)'
    BY <2>1, StatusStep
  <2>4. DoomInv'
    BY DoomStep
  <2> QED
    BY <2>2, <2>3, <2>4 DEF StepInv
<1>2. ExecutorInv /\ StepInv => StepsUseTheirOwnOutput
  BY DoomedSteps
<1> QED
  BY <1>1, <1>2, StepInit, ExecutorInvariance, PTL DEF Spec
=============================================================================
