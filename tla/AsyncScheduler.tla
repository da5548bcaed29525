--------------------------- MODULE AsyncScheduler ---------------------------
(***************************************************************************)
(* Asynchronous scheduling with speculative decoding: Scheduler and        *)
(* AsyncScheduler (v1/core/sched), the batch queue of EngineCore           *)
(* (step_with_batch_queue, v1/engine/core.py) and the worker's request     *)
(* states (v1/worker/gpu).  The scheduler plans step n+1 before the output *)
(* of step n is known: every token that may still come back is a           *)
(* placeholder, every draft in flight counts as computed, and the counts   *)
(* are corrected when the output arrives.                                  *)
(*                                                                         *)
(* Tokens are counted, not named.  schedule() is one run through the       *)
(* phases "running", "waiting" and "dispatch", one action per iteration of *)
(* its loops; nothing else can happen in between.                          *)
(***************************************************************************)
EXTENDS Integers, Sequences, SequencesExt, FiniteSets, FiniteSetsExt, Functions, SeqFilter

CONSTANTS
  Requests,
  PromptLen,            \* [Requests -> Nat]: num_prompt_tokens
  MaxTokens,            \* [Requests -> Nat]: max_tokens
  MinTokens,            \* [Requests -> Nat]: min_tokens
  MaxModelLen,          \* max_model_len
  MaxRunning,           \* max_num_running_reqs
  NumBlocks,            \* usable KV-cache blocks
  BlockSize,
  BatchQueueSize,       \* batch_queue_size: 2 with async scheduling
  Configs               \* the configuration, a choice of Init: records with
                        \*   requests    the requests that take part
                        \*   spec        num_spec_tokens; also num_lookahead_tokens
                        \*   budget      max_num_scheduled_tokens
                        \*   watermark   watermark_blocks
                        \*   confidence  dspark_confidence_schedule
                        \*   max_resets  bound: calls of reset_prefix_cache

ASSUME SchedulerAssumption ==
  /\ IsFiniteSet(Requests) /\ PromptLen \in [Requests -> Nat]
  /\ \A r \in Requests :
       /\ PromptLen[r] \in 1 .. MaxModelLen - 1
       /\ MaxTokens[r] \in Nat \ {0} /\ MinTokens[r] \in 0 .. MaxTokens[r]
  /\ MaxModelLen \in Nat /\ NumBlocks \in Nat /\ MaxRunning \in Nat \ {0}
  /\ BlockSize \in Nat \ {0} /\ BatchQueueSize \in Nat \ {0}
  /\ Configs \subseteq [requests : SUBSET Requests, spec : Nat, budget : Nat \ {0},
                         watermark : Nat, confidence : BOOLEAN, max_resets : Nat]
  /\ MaxModelLen <= NumBlocks * BlockSize   \* a request alone always fits

VARIABLES
  config,               \* the configuration of this behaviour
  status,               \* "new", "waiting", "preempted", "running", "finished"
  running, waiting,     \* the queues
  num_tokens, num_computed_tokens, num_output_placeholders,
  spec_tokens,          \* Len(spec_token_ids)
  async_tokens_to_discard,
  is_prefill_chunk,
  num_blocks,           \* blocks a request holds
  finished_req_ids,     \* finished since the last schedule()
  batch_queue,          \* batches in flight, oldest first
  phase, index, budget, \* where schedule() is
  batch,                \* num_scheduled_tokens and drafts of the batch so far
  admitted, preempted,  \* taken from waiting, preempted in this schedule()
  worker,               \* the worker's view of the requests it knows
  resets

reqVars == <<num_tokens, num_computed_tokens, num_output_placeholders,
             spec_tokens, async_tokens_to_discard, is_prefill_chunk>>
schedVars == <<phase, index, budget, batch, admitted, preempted>>
vars == <<config, status, running, waiting, reqVars, num_blocks, finished_req_ids,
          batch_queue, schedVars, worker, resets>>

NumSpecTokens == config.spec
TokenBudget   == config.budget

Unknown == [num_computed |-> 0, prefill_len |-> 0, total_len |-> 0]  \* not in req_states

MinOf(a, b) == IF a < b THEN a ELSE b
MaxOf(a, b) == IF a > b THEN a ELSE b

cdiv(a, b) == (a + b - 1) \div b

FreeBlocks == NumBlocks - SumFunctionOnSet(num_blocks, Requests)

Unfinished == {r \in Requests : status[r] \in {"waiting", "preempted", "running"}}

\* Mutant of has_requests: finished requests the worker still holds do not count.
UnfinishedOnly == Unfinished # {}

has_requests == Unfinished # {} \/ finished_req_ids # {}

\* remove_all, and remove_requests of a queue.
Without(s, S) == Keep(s, Requests \ S)

\* The length at which check_stop ends a request that has its min_tokens.
LengthCap(r) == MinOf(MaxModelLen, PromptLen[r] + MaxTokens[r])

Init ==
  /\ config \in Configs
  /\ status = [r \in Requests |-> "new"]
  /\ running = << >> /\ waiting = << >>
  /\ num_tokens = PromptLen
  /\ num_computed_tokens = [r \in Requests |-> 0]
  /\ num_output_placeholders = [r \in Requests |-> 0]
  /\ spec_tokens = [r \in Requests |-> 0]
  /\ async_tokens_to_discard = [r \in Requests |-> 0]
  /\ is_prefill_chunk = [r \in Requests |-> FALSE]
  /\ num_blocks = [r \in Requests |-> 0]
  /\ finished_req_ids = {}
  /\ batch_queue = << >>
  /\ phase = "idle" /\ index = 1 /\ budget = 0
  /\ batch = << >> /\ admitted = {} /\ preempted = {}
  /\ worker = [r \in Requests |-> Unknown]
  /\ resets = 0
-----------------------------------------------------------------------------
(* The input queue, served between two engine steps.                       *)

BetweenSteps == phase = "idle" /\ Len(batch_queue) < BatchQueueSize

add_request(r) ==
  /\ BetweenSteps
  /\ r \in config.requests /\ status[r] = "new"
  /\ status' = [status EXCEPT ![r] = "waiting"]
  /\ waiting' = Append(waiting, r)
  /\ UNCHANGED <<config, running, reqVars, num_blocks, finished_req_ids, batch_queue,
                 schedVars, worker, resets>>

\* finish_requests for an abort; also reached from _process_aborts_queue in
\* the middle of a step, just before an output is processed.
abort_request(r) ==
  /\ phase = "idle"
  /\ r \in Unfinished
  /\ status' = [status EXCEPT ![r] = "finished"]
  /\ running' = Without(running, {r})
  /\ waiting' = Without(waiting, {r})
  /\ num_blocks' = [num_blocks EXCEPT ![r] = 0]
  /\ finished_req_ids' = finished_req_ids \cup {r}
  /\ UNCHANGED <<config, reqVars, batch_queue, schedVars, worker, resets>>

(***************************************************************************)
(* reset_prefix_cache(reset_running_requests=True): every running request  *)
(* is preempted, the last one first, and its outputs in flight are to be   *)
(* discarded.  Frames sent before the reset are marked stale (a ghost).    *)
(***************************************************************************)
reset_prefix_cache ==
  LET S == ToSet(running)
  IN  /\ BetweenSteps
      /\ resets < config.max_resets
      /\ resets' = resets + 1
      /\ running' = << >>
      /\ waiting' = running \o waiting
      /\ status' = [r \in Requests |-> IF r \in S THEN "preempted" ELSE status[r]]
      /\ num_blocks' = [r \in Requests |-> IF r \in S THEN 0 ELSE num_blocks[r]]
      /\ num_computed_tokens' =
           [r \in Requests |-> IF r \in S THEN 0 ELSE num_computed_tokens[r]]
      /\ spec_tokens' = [r \in Requests |-> IF r \in S THEN 0 ELSE spec_tokens[r]]
      /\ async_tokens_to_discard' = [r \in Requests |->
           IF r \in S THEN num_output_placeholders[r] ELSE async_tokens_to_discard[r]]
      /\ num_output_placeholders' =
           [r \in Requests |-> IF r \in S THEN 0 ELSE num_output_placeholders[r]]
      /\ batch_queue' = [i \in DOMAIN batch_queue |->
           [r \in DOMAIN batch_queue[i] |->
              [batch_queue[i][r] EXCEPT !.stale = @ \/ r \in S]]]
      /\ UNCHANGED <<config, num_tokens, is_prefill_chunk, finished_req_ids, schedVars, worker>>
-----------------------------------------------------------------------------
(* schedule(): the running requests.                                       *)

StartSchedule ==
  /\ BetweenSteps
  /\ has_requests
  /\ phase' = "running" /\ index' = 1 /\ budget' = TokenBudget
  /\ batch' = << >> /\ admitted' = {} /\ preempted' = {}
  /\ UNCHANGED <<config, status, running, waiting, reqVars, num_blocks, finished_req_ids,
                 batch_queue, worker, resets>>

Scanning == phase = "running" /\ index <= Len(running) /\ budget > 0

\* Mutant of ReachesMaxTokens: one too late.
ReachesMaxTokensLate(r) ==
  /\ num_output_placeholders[r] > 0
  /\ num_computed_tokens[r] + 1 - num_output_placeholders[r]
       >= PromptLen[r] + MaxTokens[r]

\* Mutant of ReachesMaxTokens: also without any output in flight.
ReachesMaxTokensAlways(r) ==
  num_computed_tokens[r] + 2 - num_output_placeholders[r] >= PromptLen[r] + MaxTokens[r]

\* Even if all drafts in flight are rejected, max_tokens will be reached.
ReachesMaxTokens(r) ==
  /\ num_output_placeholders[r] > 0
  /\ num_computed_tokens[r] + 2 - num_output_placeholders[r]
       >= PromptLen[r] + MaxTokens[r]

num_new_tokens(r) ==
  MinOf(MinOf(num_tokens[r] + spec_tokens[r] + num_output_placeholders[r]
                - num_computed_tokens[r],
              budget),
        MaxModelLen - num_computed_tokens[r] - 1)

Schedulable(r) == ~ ReachesMaxTokens(r) /\ num_new_tokens(r) # 0

BlocksFor(computed, new) ==
  cdiv(MinOf(computed + new + NumSpecTokens, MaxModelLen), BlockSize)

\* allocate_slots: the blocks still missing, if that many are free.
MissingBlocks(r, computed, new) == MaxOf(BlocksFor(computed, new) - num_blocks[r], 0)

ScheduledDrafts(r, new) ==
  MinOf(spec_tokens[r],
        MaxOf(new + num_computed_tokens[r] - num_tokens[r]
                - num_output_placeholders[r], 0))

AddToBatch(r, new, drafts) ==
  batch' = [s \in DOMAIN batch \cup {r} |->
              IF s = r THEN [new |-> new, drafts |-> drafts] ELSE batch[s]]

SkipRunning ==
  /\ Scanning
  /\ ~ Schedulable(running[index])
  /\ index' = index + 1
  /\ UNCHANGED <<config, status, running, waiting, reqVars, num_blocks, finished_req_ids,
                 batch_queue, phase, budget, batch, admitted, preempted, worker, resets>>

ScheduleRunning ==
  LET r == running[index]
      new == num_new_tokens(r)
      more == MissingBlocks(r, num_computed_tokens[r], new)
  IN  /\ Scanning
      /\ Schedulable(r)
      /\ more <= FreeBlocks
      /\ num_blocks' = [num_blocks EXCEPT ![r] = @ + more]
      /\ AddToBatch(r, new, ScheduledDrafts(r, new))
      /\ spec_tokens' = [spec_tokens EXCEPT ![r] = 0]
      /\ budget' = budget - new
      /\ index' = index + 1
      /\ UNCHANGED <<config, status, running, waiting, num_tokens, num_computed_tokens,
                     num_output_placeholders, async_tokens_to_discard,
                     is_prefill_chunk, finished_req_ids, batch_queue, phase,
                     admitted, preempted, worker, resets>>

\* _preempt_request of the last running request; the loop ends when that is
\* the request blocks were sought for.
PreemptLast ==
  LET r == running[index]
      p == Last(running)
  IN  /\ Scanning
      /\ Schedulable(r)
      /\ MissingBlocks(r, num_computed_tokens[r], num_new_tokens(r)) > FreeBlocks
      /\ running' = Front(running)
      /\ waiting' = <<p>> \o waiting
      /\ status' = [status EXCEPT ![p] = "preempted"]
      /\ num_blocks' = [num_blocks EXCEPT ![p] = 0]
      /\ num_computed_tokens' = [num_computed_tokens EXCEPT ![p] = 0]
      /\ spec_tokens' = [spec_tokens EXCEPT ![p] = 0]
      /\ preempted' = preempted \cup {p}
      /\ phase' = IF p = r THEN "dispatch" ELSE phase
      /\ UNCHANGED <<config, num_tokens, num_output_placeholders, async_tokens_to_discard,
                     is_prefill_chunk, finished_req_ids, batch_queue, index, budget,
                     batch, admitted, worker, resets>>

EndRunning ==
  /\ phase = "running" /\ ~ Scanning
  /\ phase' = IF preempted = {} THEN "waiting" ELSE "dispatch"
  /\ UNCHANGED <<config, status, running, waiting, reqVars, num_blocks, finished_req_ids,
                 batch_queue, index, budget, batch, admitted, preempted, worker, resets>>
-----------------------------------------------------------------------------
(* schedule(): the waiting requests, behind a prefix-cache hit of `hit`    *)
(* blocks, which are taken from the free ones like new blocks.             *)

CanAdmit ==
  phase = "waiting" /\ waiting # << >> /\ budget > 0 /\ Len(running) < MaxRunning

MissingForAdmission(r, hit) ==
  LET computed == hit * BlockSize
  IN  MissingBlocks(r, computed, MinOf(num_tokens[r] - computed, budget))

FitsWithWatermark(n) == n + (IF running = << >> THEN 0 ELSE config.watermark) <= FreeBlocks

ScheduleWaiting(hit) ==
  LET r == Head(waiting)
      computed == hit * BlockSize
      new == MinOf(num_tokens[r] - computed, budget)
      more == MissingForAdmission(r, hit)
  IN  /\ CanAdmit
      /\ hit \in 0 .. (num_tokens[r] - 1) \div BlockSize
      /\ FitsWithWatermark(more)
      /\ waiting' = Tail(waiting)
      /\ running' = Append(running, r)
      /\ status' = [status EXCEPT ![r] = "running"]
      /\ num_blocks' = [num_blocks EXCEPT ![r] = @ + more]
      /\ num_computed_tokens' = [num_computed_tokens EXCEPT ![r] = computed]
      /\ AddToBatch(r, new, 0)
      /\ admitted' = admitted \cup {r}
      /\ budget' = budget - new
      /\ UNCHANGED <<config, num_tokens, num_output_placeholders, spec_tokens,
                     async_tokens_to_discard, is_prefill_chunk, finished_req_ids,
                     batch_queue, phase, index, preempted, worker, resets>>

EndWaiting ==
  /\ phase = "waiting"
  /\ \/ ~ CanAdmit
     \/ /\ CanAdmit
        /\ \E hit \in 0 .. (num_tokens[Head(waiting)] - 1) \div BlockSize :
             ~ FitsWithWatermark(MissingForAdmission(Head(waiting), hit))
  /\ phase' = "dispatch"
  /\ UNCHANGED <<config, status, running, waiting, reqVars, num_blocks, finished_req_ids,
                 batch_queue, index, budget, batch, admitted, preempted, worker, resets>>
-----------------------------------------------------------------------------
(***************************************************************************)
(* The worker executes a request's share b of a batch with state w:        *)
(* nothing is sampled before the end of the prefill; after it the accepted *)
(* drafts and one more token are, and the positions of rejected drafts are *)
(* given back on the GPU.                                                  *)
(***************************************************************************)
Samples(w, b) == w.num_computed + b.new >= w.prefill_len

\* Mutant of PostUpdate: the positions of rejected drafts are not given back.
PostUpdateAll(w, b, accepted) ==
  [w EXCEPT !.num_computed = @ + b.new,
            !.total_len = @ + (IF Samples(w, b) THEN 1 + accepted ELSE 0)]

PostUpdate(w, b, accepted) ==
  IF Samples(w, b)
  THEN [w EXCEPT !.num_computed = @ + b.new - (b.drafts - accepted),
                 !.total_len = @ + 1 + accepted]
  ELSE [w EXCEPT !.num_computed = @ + b.new]

\* Mutant of WorkerState: a resumed request is sent with its prompt only.
WorkerStatePrompt(r) ==
  IF r \in admitted
  THEN [num_computed |-> num_computed_tokens[r], prefill_len |-> PromptLen[r],
        total_len |-> PromptLen[r]]
  ELSE IF r \in finished_req_ids \cup preempted THEN Unknown ELSE worker[r]

\* finish_requests and add_requests of the worker, before it executes the batch.
WorkerState(r) ==
  IF r \in admitted
  THEN [num_computed |-> num_computed_tokens[r], prefill_len |-> num_tokens[r],
        total_len |-> num_tokens[r]]
  ELSE IF r \in finished_req_ids \cup preempted THEN Unknown ELSE worker[r]

\* Draft placeholders for the step after this one.
NextSpecTokens(r, chunk) == IF chunk THEN spec_tokens[r] ELSE NumSpecTokens

(***************************************************************************)
(* The end of schedule() (_update_after_schedule of both classes) and the  *)
(* hand-over to the worker.  accepted[r] drafts of r will be accepted.     *)
(***************************************************************************)
Dispatch(accepted) ==
  LET B == DOMAIN batch
      computed(r) == num_computed_tokens[r] + batch[r].new
      chunk(r) == computed(r) < num_tokens[r] + num_output_placeholders[r]
      w == [r \in Requests |-> WorkerState(r)]
  IN  /\ phase = "dispatch"
      /\ \A r \in B : accepted[r] <= batch[r].drafts
      /\ num_computed_tokens' =
           [r \in Requests |-> IF r \in B THEN computed(r) ELSE num_computed_tokens[r]]
      /\ is_prefill_chunk' =
           [r \in Requests |-> IF r \in B THEN chunk(r) ELSE is_prefill_chunk[r]]
      /\ num_output_placeholders' = [r \in Requests |->
           IF r \in B /\ ~ chunk(r) THEN num_output_placeholders[r] + 1 + batch[r].drafts
           ELSE num_output_placeholders[r]]
      /\ spec_tokens' = [r \in Requests |->
           IF r \in B THEN NextSpecTokens(r, chunk(r)) ELSE spec_tokens[r]]
      /\ finished_req_ids' = {}
      /\ worker' = [r \in Requests |->
           IF r \in B THEN PostUpdate(w[r], batch[r], accepted[r]) ELSE w[r]]
      /\ batch_queue' = Append(batch_queue, [r \in B |->
           [new |-> batch[r].new,
            drafts |-> batch[r].drafts,
            start |-> w[r].total_len,
            sampled |-> worker'[r].total_len - w[r].total_len,
            decode |-> w[r].num_computed >= w[r].prefill_len,
            stale |-> FALSE]])
      /\ phase' = "idle" /\ index' = 1 /\ budget' = 0
      /\ batch' = << >> /\ admitted' = {} /\ preempted' = {}
      /\ UNCHANGED <<config, status, running, waiting, num_tokens, async_tokens_to_discard,
                     num_blocks, resets>>
-----------------------------------------------------------------------------
(***************************************************************************)
(* update_from_output for the oldest batch.  stopAt[r] is the sampled      *)
(* token of r that is an end-of-sequence or stop token or completes a      *)
(* repetition (a number past the sampled ones: none); counts[r] is the     *)
(* draft length the confidence scheduler asks for.                         *)
(***************************************************************************)
Frame == Head(batch_queue)

\* Mutant of Rejected: the sampled token is taken for an accepted draft.
RejectedOneLess(r) ==
  IF Frame[r].drafts > 0 /\ Frame[r].sampled > 0
  THEN MaxOf(Frame[r].drafts - Frame[r].sampled, 0) ELSE 0

Rejected(r) ==
  IF Frame[r].drafts > 0 /\ Frame[r].sampled > 0
  THEN Frame[r].drafts - (Frame[r].sampled - 1) ELSE 0

\* Mutant of Discarded: stale frames are not recognised.
NeverDiscarded(r) == FALSE

\* A frame that returns for a request whose discard counter is not drained.
Discarded(r) == Frame[r].sampled > 0 /\ async_tokens_to_discard[r] > 0

Delivered(r) == IF Discarded(r) THEN 0 ELSE Frame[r].sampled

\* check_stop once the k-th token is appended.
check_stop(r, k, stopAt) ==
  /\ num_tokens[r] + k - PromptLen[r] >= MinTokens[r]
  /\ k = stopAt \/ num_tokens[r] + k >= LengthCap(r)

Stops(r, stopAt) == \E k \in 1 .. Delivered(r) : check_stop(r, k, stopAt)

\* The tokens appended: all of them, or up to the one that ends the request.
Kept(r, stopAt) ==
  IF Stops(r, stopAt) THEN Min({k \in 1 .. Delivered(r) : check_stop(r, k, stopAt)})
  ELSE Delivered(r)

update_from_output(stopAt, counts) ==
  LET B == {r \in DOMAIN Frame : r \in Unfinished}
      stopped == {r \in B : Stops(r, stopAt[r])}
      holds(r) == num_output_placeholders[r]
                    - (IF num_output_placeholders[r] > 0 THEN Rejected(r) ELSE 0)
  IN  /\ phase = "idle"
      /\ batch_queue # << >>
      /\ Len(batch_queue) = BatchQueueSize \/ ~ has_requests
      /\ batch_queue' = Tail(batch_queue)
      /\ num_computed_tokens' = [r \in Requests |->
           IF r \in B /\ num_computed_tokens[r] > 0
           THEN num_computed_tokens[r] - Rejected(r) ELSE num_computed_tokens[r]]
      /\ num_output_placeholders' = [r \in Requests |->
           IF r \in B THEN holds(r) - Kept(r, stopAt[r])
           ELSE num_output_placeholders[r]]
      /\ async_tokens_to_discard' = [r \in Requests |->
           IF r \in B /\ Discarded(r) THEN async_tokens_to_discard[r] - 1
           ELSE async_tokens_to_discard[r]]
      /\ num_tokens' = [r \in Requests |->
           IF r \in B THEN num_tokens[r] + Kept(r, stopAt[r]) ELSE num_tokens[r]]
      /\ status' = [r \in Requests |-> IF r \in stopped THEN "finished" ELSE status[r]]
      /\ running' = Without(running, stopped)
      /\ waiting' = Without(waiting, stopped)
      /\ num_blocks' = [r \in Requests |-> IF r \in stopped THEN 0 ELSE num_blocks[r]]
      /\ finished_req_ids' = finished_req_ids \cup stopped
      /\ spec_tokens' = [r \in Requests |->
           IF config.confidence /\ r \in B \ stopped /\ ~ is_prefill_chunk[r]
           THEN counts[r] ELSE spec_tokens[r]]
      /\ UNCHANGED <<config, is_prefill_chunk, schedVars, worker, resets>>

Schedule ==
  \/ StartSchedule
  \/ SkipRunning \/ ScheduleRunning \/ PreemptLast \/ EndRunning
  \/ \E hit \in 0 .. MaxModelLen \div BlockSize : ScheduleWaiting(hit)
  \/ EndWaiting
  \/ \E accepted \in [DOMAIN batch -> 0 .. NumSpecTokens] : Dispatch(accepted)

ProcessOutput ==
  /\ batch_queue # << >>
  /\ \E stopAt \in [DOMAIN Frame -> 1 .. NumSpecTokens + 2],
        counts \in [DOMAIN Frame -> IF config.confidence THEN 0 .. NumSpecTokens
                                    ELSE {NumSpecTokens}] :
       update_from_output(stopAt, counts)

Next ==
  \/ \E r \in Requests : add_request(r) \/ abort_request(r)
  \/ reset_prefix_cache
  \/ Schedule
  \/ ProcessOutput

(***************************************************************************)
(* run_busy_loop keeps stepping the engine; clients need not send or abort *)
(* anything.                                                               *)
(***************************************************************************)
Spec == Init /\ [][Next]_vars /\ WF_vars(Schedule \/ ProcessOutput)
-----------------------------------------------------------------------------
Entry == [new : 1 .. TokenBudget, drafts : 0 .. NumSpecTokens,
          start : 0 .. MaxModelLen + NumSpecTokens + 1,
          sampled : 0 .. NumSpecTokens + 1, decode : BOOLEAN, stale : BOOLEAN]

TypeOK ==
  /\ config \in Configs
  /\ status \in [Requests -> {"new", "waiting", "preempted", "running", "finished"}]
  /\ running \in Seq(Requests) /\ waiting \in Seq(Requests)
  /\ num_tokens \in [Requests -> 1 .. MaxModelLen]
  /\ num_computed_tokens \in [Requests -> 0 .. MaxModelLen]
  /\ num_output_placeholders \in [Requests -> Nat]
  /\ spec_tokens \in [Requests -> 0 .. NumSpecTokens]
  /\ async_tokens_to_discard \in [Requests -> Nat]
  /\ is_prefill_chunk \in [Requests -> BOOLEAN]
  /\ num_blocks \in [Requests -> 0 .. NumBlocks]
  /\ finished_req_ids \subseteq Requests
  /\ Len(batch_queue) <= BatchQueueSize
  /\ \A f \in ToSet(batch_queue) : DOMAIN f \subseteq Requests /\ Range(f) \subseteq Entry
  /\ phase \in {"idle", "running", "waiting", "dispatch"}
  /\ index \in 1 .. Cardinality(Requests) + 1 /\ budget \in 0 .. TokenBudget
  /\ admitted \subseteq DOMAIN batch /\ preempted \subseteq Requests
  /\ resets \in 0 .. config.max_resets

\* The frames of r in flight that its next outputs come from.
Fresh(r) ==
  {i \in DOMAIN batch_queue : r \in DOMAIN batch_queue[i] /\ ~ batch_queue[i][r].stale}

\* The tokens a frame of r may bring, the drafts of it that the worker rejected, and the
\* tokens it brings.
Expected(i, r) == IF batch_queue[i][r].sampled > 0 THEN 1 + batch_queue[i][r].drafts ELSE 0

Undone(i, r) ==
  IF batch_queue[i][r].sampled > 0
  THEN batch_queue[i][r].drafts - (batch_queue[i][r].sampled - 1) ELSE 0

Sampled(i, r) == batch_queue[i][r].sampled

(***************************************************************************)
(* QueuesMatchStatus: a request is in the queue its status names, once,    *)
(* and in no other, whatever mix of preemptions, stops while preempted,    *)
(* aborts and resets removed and reinserted it.  schedule() asserts the    *)
(* limit on running requests; _preempt_request asserts the status.         *)
(***************************************************************************)
QueuesMatchStatus ==
  /\ IsInjective(running) /\ IsInjective(waiting)
  /\ ToSet(running) = {r \in Requests : status[r] = "running"}
  /\ ToSet(waiting) = {r \in Requests : status[r] \in {"waiting", "preempted"}}
  /\ Len(running) <= MaxRunning

(***************************************************************************)
(* PlaceholdersExact: num_output_placeholders is the number of tokens that *)
(* the frames in flight may still bring.  It is added to when a batch is   *)
(* planned and taken from in two places when an output arrives, with       *)
(* preemptions in between; AsyncScheduler asserts only that it is >= 0.    *)
(***************************************************************************)
PlaceholdersExact ==
  \A r \in Unfinished :
    num_output_placeholders[r] = SumFunction([i \in Fresh(r) |-> Expected(i, r)])

(***************************************************************************)
(* CountsAgree: the scheduler's optimistic counts are those of the worker  *)
(* once the outputs in flight are accounted for.  The two are kept apart   *)
(* (num_computed_tokens in Request and on the GPU) and never compared; if  *)
(* they drift, tokens are computed at wrong positions.                     *)
(***************************************************************************)
CountsAgree ==
  \A r \in ToSet(running) \ admitted :
    /\ worker[r].num_computed =
         num_computed_tokens[r] - SumFunction([i \in Fresh(r) |-> Undone(i, r)])
    /\ worker[r].total_len = num_tokens[r] + SumFunction([i \in Fresh(r) |-> Sampled(i, r)])

(***************************************************************************)
(* OutputsContinue: the tokens a frame in flight brings were sampled for   *)
(* the positions right behind the tokens the request has then.  No output  *)
(* token is lost, repeated or out of place, preempted requests included.   *)
(***************************************************************************)
OutputsContinue ==
  \A r \in Unfinished : \A i \in Fresh(r) :
    batch_queue[i][r].start =
      num_tokens[r] + SumFunction([j \in {k \in Fresh(r) : k < i} |-> Sampled(j, r)])

(***************************************************************************)
(* FramesDeliveredOrDropped: when an output returns, its tokens reach the  *)
(* request if it was planned after the last reset of the prefix cache, and *)
(* are dropped if reset_prefix_cache preempted the request meanwhile.      *)
(***************************************************************************)
FramesDeliveredOrDropped ==
  [][batch_queue # << >> /\ batch_queue' = Tail(batch_queue) =>
       \A r \in Unfinished \cap DOMAIN Frame :
         Frame[r].sampled > 0 => (num_tokens'[r] > num_tokens[r]) = ~ Frame[r].stale]_vars

(***************************************************************************)
(* SlotsCoverComputed: a running request has KV-cache slots for every      *)
(* position its planned steps write, drafts included, and for the block of *)
(* NumSpecTokens positions the draft model writes behind them (one query   *)
(* per draft, num_query_per_req), whatever was rejected since.             *)
(***************************************************************************)
SlotsCoverComputed ==
  /\ FreeBlocks >= 0
  /\ \A r \in ToSet(running) :
       MinOf(num_computed_tokens[r] + NumSpecTokens
               + (IF r \in DOMAIN batch THEN batch[r].new ELSE 0), MaxModelLen)
         <= num_blocks[r] * BlockSize

(***************************************************************************)
(* StepsAreNeeded: a step planned for a running request has tokens to      *)
(* compute (schedule() tests only for zero), stays below max_model_len,    *)
(* and may still add to the output: no step starts behind a frame that     *)
(* will certainly reach max_tokens.                                        *)
(***************************************************************************)
StepsAreNeeded ==
  /\ Scanning /\ Schedulable(running[index]) =>
       /\ num_new_tokens(running[index]) > 0
       /\ num_tokens[running[index]]
             + Cardinality({i \in Fresh(running[index]) :
                              batch_queue[i][running[index]].sampled > 0})
             < PromptLen[running[index]] + MaxTokens[running[index]]
  /\ \A r \in Unfinished : num_tokens[r] < LengthCap(r)
  /\ \A r \in ToSet(running) : num_computed_tokens[r] < MaxModelLen

(***************************************************************************)
(* DraftsFollowADecode: drafts are verified only behind a token that the   *)
(* worker sampled itself, never behind one that is still being prefilled.  *)
(* update_draft_token_ids: "Ignore draft tokens for prefill chunks."; the  *)
(* worker (combine_sampled_and_draft_tokens) replaces the input in front   *)
(* of the drafts by last_sampled_tokens.                                   *)
(***************************************************************************)
DraftsFollowADecode ==
  \A i \in DOMAIN batch_queue : \A r \in DOMAIN batch_queue[i] :
    batch_queue[i][r].drafts > 0 => batch_queue[i][r].decode

(***************************************************************************)
(* RequestsFinish: every request the engine accepts finishes, however      *)
(* often it is preempted for want of blocks.                               *)
(***************************************************************************)
RequestsFinish ==
  \A r \in Requests : status[r] = "waiting" ~> status[r] = "finished"

(***************************************************************************)
(* WorkerForgets: the worker is told of every finished request, although   *)
(* the engine stops stepping when it has none left: has_requests counts    *)
(* finished_req_ids so that the slot in req_states is freed.               *)
(***************************************************************************)
WorkerForgets ==
  \A r \in Requests : status[r] = "finished" ~> worker[r] = Unknown

(***************************************************************************)
(* BookkeepingExact: queues, placeholders and slots say the same of every  *)
(* request while batches are in flight, whatever preempted, stopped,       *)
(* aborted or reset it.                                                    *)
(***************************************************************************)
BookkeepingExact ==
  TypeOK /\ QueuesMatchStatus /\ PlaceholdersExact /\ SlotsCoverComputed

(***************************************************************************)
(* WorkerAgrees: scheduler and worker, which never compare their states,   *)
(* agree on how far every request is and on what is in front of its        *)
(* drafts.                                                                 *)
(***************************************************************************)
WorkerAgrees == CountsAgree /\ DraftsFollowADecode
=============================================================================
