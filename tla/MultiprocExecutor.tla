-------------------------- MODULE MultiprocExecutor --------------------------
(***************************************************************************)
(* MultiprocExecutor and WorkerProc (v1/executor/multiproc_executor.py):   *)
(* the remote procedure calls by which the engine core drives its worker   *)
(* processes.  Every call is broadcast to all workers; the answers come    *)
(* back through one queue per worker, from a thread of its own, and carry  *)
(* no call number: only the order of the futures and of the dequeues       *)
(* matches an answer with its call.  A monitor thread watches for workers  *)
(* that die.  The queues are those of module Broadcast.                    *)
(***************************************************************************)
EXTENDS Integers, Sequences, FiniteSets

CONSTANTS
  NumWorkers,           \* world_size
  BatchQueueSize,       \* batch_queue_size of the engine core
  MaxCalls,             \* bound: calls made
  Environments          \* what may go wrong, a choice of Init: records with
                        \*   failing     kinds of calls that may raise in a worker
                        \*   timed_out   kinds of calls that may time out
                        \*   deaths      whether workers may die
                        \*   registered  whether the engine core has registered its callback

Kinds == {"execute_model", "sample_tokens", "utility"}

ASSUME ExecutorAssumption ==
  /\ NumWorkers \in Nat \ {0} /\ BatchQueueSize \in Nat \ {0} /\ MaxCalls \in Nat
  /\ Environments \subseteq [failing : SUBSET Kinds, timed_out : SUBSET Kinds,
                              deaths : BOOLEAN, registered : BOOLEAN]

\* _get_output_rank: the first rank of the last stage.
output_rank == 1

Ranks == 1 .. NumWorkers
Calls == 1 .. MaxCalls

VARIABLES
  env,                  \* the environment of this behaviour
  calls,                \* the kinds of the calls broadcast so far
  taken,                \* [Ranks -> Nat]: calls taken from rpc_broadcast_mq
  alive,                \* [Ranks -> BOOLEAN]
  failed,               \* the <<rank, call>> pairs that raised in a worker
  async_output_queue,   \* [Ranks -> Seq([call, status])]
  response_mqs,         \* [Ranks -> Seq([call, status])]
  epc,                  \* what the engine core's thread is doing
  future,               \* [Calls -> {"none", "pending", "done", "exception"}]
  targets,              \* [Calls -> Seq(Ranks)]: response_mqs a future reads
  answers,              \* [Calls -> Seq([call, status])]: its result
  futures_queue,        \* futures not waited for yet, oldest first
  waited, current,      \* the future result() is called on, the one it drains
  batch_queue,          \* <<execute, sample>> futures of the steps in flight
  is_failed, shutting_down, closed,
  failure_callback,     \* whether a callback is stored
  monitor,              \* what the monitor thread is doing
  executor_failed       \* EXECUTOR_FAILED is in the engine core's input queue

workerVars  == <<taken, alive, failed, async_output_queue, response_mqs>>
futureVars  == <<future, targets, answers, futures_queue, waited, current>>
failureVars == <<is_failed, shutting_down, closed, failure_callback, monitor, executor_failed>>
vars == <<env, calls, workerVars, epc, futureVars, batch_queue, failureVars>>

Init ==
  /\ env \in Environments
  /\ calls = << >> /\ batch_queue = << >>
  /\ taken = [w \in Ranks |-> 0]
  /\ alive = [w \in Ranks |-> TRUE]
  /\ failed = {}
  /\ async_output_queue = [w \in Ranks |-> << >>]
  /\ response_mqs = [w \in Ranks |-> << >>]
  /\ epc = IF env.registered THEN "idle" ELSE "register"
  /\ future = [c \in Calls |-> "none"]
  /\ targets = [c \in Calls |-> << >>]
  /\ answers = [c \in Calls |-> << >>]
  /\ futures_queue = << >> /\ waited = 0 /\ current = 0
  /\ is_failed = FALSE /\ shutting_down = FALSE /\ closed = FALSE
  /\ failure_callback = env.registered
  /\ monitor = "watch" /\ executor_failed = FALSE
-----------------------------------------------------------------------------
(* The engine core's thread: register_failure_callback.                    *)

RegisterCheck ==
  /\ epc = "register"
  /\ epc' = IF is_failed THEN "idle" ELSE "store"
  /\ executor_failed' = is_failed
  /\ UNCHANGED <<env, calls, workerVars, futureVars, batch_queue, is_failed, shutting_down,
                 closed, failure_callback, monitor>>

RegisterStore ==
  /\ epc = "store"
  /\ epc' = "idle"
  /\ failure_callback' = TRUE
  /\ UNCHANGED <<env, calls, workerVars, futureVars, batch_queue, is_failed, shutting_down,
                 closed, monitor, executor_failed>>
-----------------------------------------------------------------------------
(* collective_rpc: the call is broadcast, then the response queues it will *)
(* read are picked and its future joins the others.                        *)

UniqueReply(kind) == kind # "utility"

\* What becomes of the engine core when a call raises: a step that fails is fatal,
\* _invoke_utility_method reports the failure to the client and goes on.
AfterRaise(kind) == IF kind = "utility" THEN "idle" ELSE "dead"

Raise(kind) ==
  /\ is_failed
  /\ epc' = AfterRaise(kind)
  /\ UNCHANGED <<env, calls, workerVars, futureVars, batch_queue, failureVars>>

Enqueue(kind) ==
  /\ ~ is_failed /\ Len(calls) < MaxCalls
  /\ calls' = Append(calls, kind)
  /\ epc' = "enqueued"
  /\ UNCHANGED <<env, workerVars, futureVars, batch_queue, failureVars>>

\* step_with_batch_queue: execute_model, then sample_tokens.
ExecuteModel ==
  /\ epc = "idle" /\ Len(batch_queue) < BatchQueueSize
  /\ Len(calls) + 1 < MaxCalls
  /\ Enqueue("execute_model") \/ Raise("execute_model")

SampleTokens ==
  /\ epc = "sample"
  /\ Enqueue("sample_tokens") \/ Raise("sample_tokens")

Utility ==
  /\ epc = "idle"
  /\ Enqueue("utility") \/ Raise("utility")

call == Len(calls)
kind_of(c) == calls[c]

AllRanks == [i \in Ranks |-> i]

Wait(c) == waited' = c /\ epc' = "wait"

FutureWrapper(c) == futures_queue' = Append(futures_queue, c)

\* What follows when the future exists: the next call of the step, the next turn
\* of the engine core, or result() of a blocking call or of the oldest step.
MakeFuture ==
  /\ epc = "enqueued"
  /\ ~ (closed /\ UniqueReply(kind_of(call)))
  /\ future' = [future EXCEPT ![call] = "pending"]
  /\ targets' = [targets EXCEPT ![call] =
       IF closed THEN << >> ELSE IF UniqueReply(kind_of(call)) THEN <<output_rank>> ELSE AllRanks]
  /\ FutureWrapper(call)
  /\ CASE kind_of(call) = "execute_model" ->
            epc' = "sample" /\ UNCHANGED <<waited, batch_queue>>
       [] kind_of(call) = "utility" ->
            Wait(call) /\ UNCHANGED batch_queue
       [] kind_of(call) = "sample_tokens" ->
            /\ batch_queue' = Append(batch_queue, call)
            /\ IF Len(batch_queue') < BatchQueueSize
               THEN epc' = "idle" /\ UNCHANGED waited
               ELSE Wait(Head(batch_queue'))
  /\ UNCHANGED <<env, calls, workerVars, answers, current, failureVars>>

\* self.response_mqs[output_rank] on the list that shutdown has emptied.
MakeFutureRaises ==
  /\ epc = "enqueued" /\ closed /\ UniqueReply(kind_of(call))
  /\ epc' = "dead"
  /\ UNCHANGED <<env, calls, workerVars, futureVars, batch_queue, failureVars>>

\* Nothing more is scheduled: block on the oldest step.
WaitForStep ==
  /\ epc = "idle" /\ batch_queue # << >>
  /\ Wait(Head(batch_queue))
  /\ UNCHANGED <<env, calls, workerVars, future, targets, answers, futures_queue, current,
                 batch_queue, failureVars>>
-----------------------------------------------------------------------------
(* FutureWrapper.result and get_response.                                  *)

\* Mutant of Drain: the future is answered at once, whatever is ahead of it.
DrainSelf ==
  /\ epc = "wait" /\ current = 0 /\ future[waited] = "pending"
  /\ current' = waited
  /\ futures_queue' = SelectSeq(futures_queue, LAMBDA c : c # waited)
  /\ UNCHANGED <<env, calls, workerVars, epc, future, targets, answers, waited, batch_queue,
                 failureVars>>

Drain ==
  /\ epc = "wait" /\ current = 0 /\ future[waited] = "pending"
  /\ current' = Head(futures_queue)
  /\ futures_queue' = Tail(futures_queue)
  /\ UNCHANGED <<env, calls, workerVars, epc, future, targets, answers, waited, batch_queue,
                 failureVars>>

Resolve(outcome) == future' = [future EXCEPT ![current] = outcome] /\ current' = 0

\* The next response queue the future reads.
Queue == response_mqs[targets[current][Len(answers[current]) + 1]]

GetResponse ==
  /\ epc = "wait" /\ current # 0
  /\ IF Len(answers[current]) = Len(targets[current])
     THEN Resolve("done") /\ UNCHANGED <<answers, response_mqs>>
     ELSE /\ Queue # << >>
          /\ response_mqs' = [response_mqs EXCEPT
               ![targets[current][Len(answers[current]) + 1]] = Tail(@)]
          /\ IF Head(Queue).status = "FAILURE"
             THEN Resolve("exception") /\ UNCHANGED answers
             ELSE /\ answers' = [answers EXCEPT ![current] = Append(@, Head(Queue))]
                  /\ UNCHANGED <<future, current>>
  /\ UNCHANGED <<env, calls, taken, alive, failed, async_output_queue, epc, targets,
                 futures_queue, waited, batch_queue, failureVars>>

\* dequeue raises: cancelled by shutdown, or past the deadline.
GetResponseRaises ==
  /\ epc = "wait" /\ current # 0
  /\ Len(answers[current]) < Len(targets[current]) /\ Queue = << >>
  /\ closed \/ kind_of(current) \in env.timed_out
  /\ Resolve("exception")
  /\ UNCHANGED <<env, calls, workerVars, epc, targets, answers, futures_queue, waited,
                 batch_queue, failureVars>>

\* Mutant of Outcome: None from sample_tokens is not looked for.
OutcomeUnchecked(c) ==
  IF future[c] = "exception" THEN AfterRaise(kind_of(c)) ELSE "idle"

\* None from sample_tokens means that execute_model failed.
Outcome(c) ==
  IF future[c] = "exception" THEN AfterRaise(kind_of(c))
  ELSE IF kind_of(c) = "sample_tokens" /\ answers[c][1].status = "NONE" THEN "dead"
  ELSE "idle"

\* result() returns.
Return ==
  /\ epc = "wait" /\ current = 0 /\ future[waited] # "pending"
  /\ epc' = Outcome(waited)
  /\ batch_queue' = IF kind_of(waited) = "utility" THEN batch_queue ELSE Tail(batch_queue)
  /\ waited' = 0
  /\ UNCHANGED <<env, calls, workerVars, future, targets, answers, futures_queue, current,
                 failureVars>>

\* The input queue is looked at between two steps, or when nothing is left to do.
HandleExecutorFailed ==
  /\ epc = "idle" /\ executor_failed
  /\ epc' = "dead"
  /\ UNCHANGED <<env, calls, workerVars, futureVars, batch_queue, failureVars>>

EngineStep ==
  \/ RegisterCheck \/ RegisterStore
  \/ SampleTokens \/ MakeFuture \/ MakeFutureRaises \/ WaitForStep
  \/ Drain \/ GetResponse \/ GetResponseRaises \/ Return \/ HandleExecutorFailed
-----------------------------------------------------------------------------
(* A worker process: worker_busy_loop and async_output_busy_loop.          *)

NextCall(w) == taken[w] + 1

\* Mutant of Answers: only the output rank ever answers.
AnswersOutputRank(w, c) == w = output_rank

Answers(w, c) == ~ UniqueReply(kind_of(c)) \/ w = output_rank

\* execute_model leaves its output to sample_tokens and returns None; sample_tokens
\* after an execute_model that raised returns None.
Succeeds(w, c) ==
  IF \/ kind_of(c) = "execute_model"
     \/ kind_of(c) = "sample_tokens" /\ <<w, c - 1>> \in failed
  THEN "NONE" ELSE "SUCCESS"

Statuses(w, c) ==
  {Succeeds(w, c)} \cup (IF kind_of(c) \in env.failing THEN {"FAILURE"} ELSE {})

Work(w) ==
  /\ alive[w] /\ taken[w] < Len(calls)
  /\ \E status \in Statuses(w, NextCall(w)) :
       /\ failed' = failed \cup (IF status = "FAILURE" THEN {<<w, NextCall(w)>>} ELSE {})
       /\ async_output_queue' =
            IF Answers(w, NextCall(w))
            THEN [async_output_queue EXCEPT ![w] =
                   Append(@, [call |-> NextCall(w), status |-> status])]
            ELSE async_output_queue
  /\ taken' = [taken EXCEPT ![w] = @ + 1]
  /\ UNCHANGED <<env, calls, alive, response_mqs, epc, futureVars, batch_queue, failureVars>>

EnqueueOutput(w) ==
  /\ alive[w] /\ async_output_queue[w] # << >>
  /\ response_mqs' = [response_mqs EXCEPT ![w] = Append(@, Head(async_output_queue[w]))]
  /\ async_output_queue' = [async_output_queue EXCEPT ![w] = Tail(@)]
  /\ UNCHANGED <<env, calls, taken, alive, failed, epc, futureVars, batch_queue, failureVars>>

WorkerDies(w) ==
  /\ env.deaths /\ alive[w]
  /\ alive' = [alive EXCEPT ![w] = FALSE]
  /\ UNCHANGED <<env, calls, taken, failed, async_output_queue, response_mqs, epc, futureVars,
                 batch_queue, failureVars>>
-----------------------------------------------------------------------------
(* The monitor thread, and shutdown.                                       *)

MonitorWorkers ==
  /\ monitor = "watch" /\ \E w \in Ranks : ~ alive[w]
  /\ IF shutting_down
     THEN monitor' = "ended" /\ UNCHANGED <<is_failed, shutting_down>>
     ELSE monitor' = "shutdown" /\ is_failed' = TRUE /\ shutting_down' = TRUE
  /\ UNCHANGED <<env, calls, workerVars, epc, futureVars, batch_queue, closed,
                 failure_callback, executor_failed>>

\* shutdown of the engine core that has died or ends.
EngineShutdown ==
  /\ epc = "dead" /\ ~ shutting_down
  /\ shutting_down' = TRUE
  /\ UNCHANGED <<env, calls, workerVars, epc, futureVars, batch_queue, is_failed, closed,
                 failure_callback, monitor, executor_failed>>

\* Mutant of WorkerExits: the death pipe is not watched.
WorkerStays(w) == alive[w] /\ shutting_down /\ FALSE /\ UNCHANGED vars

\* The death pipe is closed; a worker exits by itself or is killed.
WorkerExits(w) ==
  /\ alive[w] /\ shutting_down
  /\ alive' = [alive EXCEPT ![w] = FALSE]
  /\ UNCHANGED <<env, calls, taken, failed, async_output_queue, response_mqs, epc, futureVars,
                 batch_queue, failureVars>>

\* The queues are closed when all workers have exited.
CloseQueues ==
  /\ shutting_down /\ ~ closed /\ \A w \in Ranks : ~ alive[w]
  /\ closed' = TRUE
  /\ UNCHANGED <<env, calls, workerVars, epc, futureVars, batch_queue, is_failed,
                 shutting_down, failure_callback, monitor, executor_failed>>

\* Mutant of CallBack: the callback is cleared and not called.
CallBackNever ==
  /\ monitor = "shutdown" /\ closed
  /\ monitor' = "ended"
  /\ failure_callback' = FALSE
  /\ UNCHANGED <<env, calls, workerVars, epc, futureVars, batch_queue, is_failed,
                 shutting_down, closed, executor_failed>>

CallBack ==
  /\ monitor = "shutdown" /\ closed
  /\ monitor' = "ended"
  /\ failure_callback' = FALSE
  /\ executor_failed' = (executor_failed \/ failure_callback)
  /\ UNCHANGED <<env, calls, workerVars, epc, futureVars, batch_queue, is_failed,
                 shutting_down, closed>>

Next ==
  \/ ExecuteModel \/ Utility \/ EngineStep
  \/ \E w \in Ranks : Work(w) \/ EnqueueOutput(w) \/ WorkerDies(w) \/ WorkerExits(w)
  \/ MonitorWorkers \/ EngineShutdown \/ CloseQueues \/ CallBack

(***************************************************************************)
(* Threads and processes that can run do run; new calls depend on clients. *)
(***************************************************************************)
Spec ==
  /\ Init /\ [][Next]_vars
  /\ WF_vars(EngineStep)
  /\ \A w \in Ranks : WF_vars(Work(w)) /\ WF_vars(EnqueueOutput(w)) /\ WF_vars(WorkerExits(w))
  /\ WF_vars(MonitorWorkers) /\ WF_vars(EngineShutdown)
  /\ WF_vars(CloseQueues) /\ WF_vars(CallBack)
-----------------------------------------------------------------------------
Response == [call : Calls, status : {"SUCCESS", "FAILURE", "NONE"}]

TypeOK ==
  /\ env \in Environments
  /\ calls \in Seq(Kinds) /\ taken \in [Ranks -> 0 .. MaxCalls]
  /\ alive \in [Ranks -> BOOLEAN] /\ failed \subseteq Ranks \X Calls
  /\ async_output_queue \in [Ranks -> Seq(Response)]
  /\ response_mqs \in [Ranks -> Seq(Response)]
  /\ epc \in {"register", "store", "idle", "sample", "enqueued", "wait", "dead"}
  /\ future \in [Calls -> {"none", "pending", "done", "exception"}]
  /\ targets \in [Calls -> Seq(Ranks)] /\ answers \in [Calls -> Seq(Response)]
  /\ futures_queue \in Seq(Calls) /\ batch_queue \in Seq(Calls)
  /\ waited \in 0 .. MaxCalls /\ current \in 0 .. MaxCalls
  /\ is_failed \in BOOLEAN /\ shutting_down \in BOOLEAN /\ closed \in BOOLEAN
  /\ failure_callback \in BOOLEAN /\ executor_failed \in BOOLEAN
  /\ monitor \in {"watch", "shutdown", "ended"}

(***************************************************************************)
(* AnswersMatchCalls: what collective_rpc takes from a response queue is   *)
(* the answer to the call it was made for, although answers carry no       *)
(* number, several calls are in flight and every worker answers from a     *)
(* thread of its own.  Only a call that was given up, at its deadline or,  *)
(* when all workers answer, at the first failure among them, leaves an     *)
(* answer that a later call takes for its own.                             *)
(***************************************************************************)
GivenUp(c) ==
  future[c] = "exception" /\ (kind_of(c) = "utility" \/ kind_of(c) \in env.timed_out)

GivenUpBefore(c) == \E d \in Calls : d < c /\ GivenUp(d)

AnswersMatchCalls ==
  \A c \in Calls : \A i \in DOMAIN answers[c] :
    answers[c][i].call = c \/ GivenUpBefore(c)

(***************************************************************************)
(* StepsUseTheirOwnOutput: even behind a call that was given up, the       *)
(* engine core does not go on with a step whose output is another call's:  *)
(* what such a step takes first is the None of an execute_model.           *)
(***************************************************************************)
StepsUseTheirOwnOutput ==
  \A c \in Calls :
    future[c] = "done" /\ kind_of(c) = "sample_tokens" /\ answers[c][1].call # c =>
      epc = "dead" \/ \E i \in DOMAIN batch_queue : batch_queue[i] = c

(***************************************************************************)
(* PendingFuturesQueued: the futures that wait for an answer are in        *)
(* futures_queue, in the order of their calls, behind the one that is      *)
(* being drained; the pop() of result() never meets an empty queue.        *)
(***************************************************************************)
PendingFuturesQueued ==
  LET ahead == IF current = 0 THEN << >> ELSE <<current>>
      queue == ahead \o futures_queue
  IN /\ {queue[i] : i \in DOMAIN queue} = {c \in Calls : future[c] = "pending"}
     /\ \A i \in DOMAIN queue, j \in DOMAIN queue : i < j => queue[i] < queue[j]

(***************************************************************************)
(* ListsAreComplete: Executor.collective_rpc returns "A list containing    *)
(* the results from each worker."  No result holds the answers of some of  *)
(* the workers: a call that meets a dead or a closed queue raises, or, if  *)
(* shutdown has emptied response_mqs before its future is made, returns    *)
(* the empty list.                                                         *)
(***************************************************************************)
ListsAreComplete ==
  \A c \in Calls :
    future[c] = "done" /\ kind_of(c) = "utility" =>
      Len(answers[c]) = NumWorkers \/ (closed /\ answers[c] = << >>)

(***************************************************************************)
(* CallsReturn: the engine core is never stuck in a call, whatever         *)
(* happens to the workers it waits for.                                    *)
(***************************************************************************)
CallsReturn == epc = "wait" ~> epc # "wait"

(***************************************************************************)
(* EngineLearnsOfDeath: "If any die unexpectedly, logs an error, shuts     *)
(* down the executor and invokes the failure callback to inform the        *)
(* engine": the engine core stops, also when it is idle.                   *)
(***************************************************************************)
EngineLearnsOfDeath == (\E w \in Ranks : ~ alive[w]) ~> epc = "dead"

\* NoOrphans: when the engine core has stopped, no worker stays behind.
NoOrphans == epc = "dead" ~> \A w \in Ranks : ~ alive[w]

(***************************************************************************)
(* AnswersExact: every call gets its own answers, all of them, out of      *)
(* queues whose entries carry no number: futures are drained in the order  *)
(* of their calls and nothing is taken twice or left behind.               *)
(***************************************************************************)
AnswersExact ==
  TypeOK /\ PendingFuturesQueued /\ AnswersMatchCalls /\ ListsAreComplete
=============================================================================
