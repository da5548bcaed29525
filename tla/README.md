# A formal model of the serving engine

This directory holds TLA+ modules, TLC configurations and TLAPS proofs about
the part of the repository that decides what the GPUs compute: the scheduler,
its asynchronous variant, the cache managers below it, the processes and queues
that carry its decisions to the workers, and the coordination of several
engines (`src/overlay/vllm/v1/` and the parts of
`src/overlay/vllm/distributed/` it calls). Everything is translated from that code; file
and line of every definition are in `PROJECT.json` under `map`.

The configuration of interest is the documented launch (`src/LAUNCH_CONFIG.md`):
one engine core, tensor parallelism over four workers, asynchronous scheduling
(two batches in flight), prefix caching, chunked prefill, and DSpark
speculative decoding with a block of five drafts. Some modules go beyond it,
because the code they model is used by neighbouring configurations: hybrid
models, images, data-parallel engines, host offloading.

## The system

| Component | State | Operations | Talks to | Module |
|---|---|---|---|---|
| Free block queue (`kv_cache_utils.py`) | two links per block, fake head and tail, a counter | `popleft`, `popleft_n`, `remove`, `append`, `append_n`, `prepend_n` | called by the block pool | `FreeBlockQueue`, `BlockQueue` |
| Block pool, KV-cache manager, full-attention manager | reference counts, hashes, hash map, free queue, a block table per request | `get_computed_blocks`, `allocate_slots`, `cache_blocks`, `free`, `reset_prefix_cache` | called by the scheduler | `KVCacheManager` |
| Sliding-window manager (`single_type_kv_cache_manager.py`) | tables with null blocks | `remove_skipped_blocks`, admission cap, `reachable_block_mask` | called by the manager | `SlidingWindow`, `PrefixReplay` |
| Hybrid coordinator (`kv_cache_coordinator.py`) | one manager per attention group | `find_longest_cache_hit`, `cache_blocks` | between manager and groups | `HybridCacheHit`, `PrefixReplay` |
| Scheduler, async scheduler (`sched/`) | queues, counters and placeholders per request, ids finished since the last step | `schedule`, `update_from_output`, `add_request`, `finish_requests`, preemption, resets | batches to the executor, outputs back | `AsyncScheduler` |
| Engine core (`engine/core.py`) | input, aborts and batch queues | `run_busy_loop`, `step_with_batch_queue` | clients; the executor | `AsyncScheduler`, `DataParallelWaves` |
| Model runner (`worker/gpu/`) | computed tokens, lengths, block tables | add, update, remove, execute | the executor | `AsyncScheduler`, `KVCacheManager` |
| Message queue (`shm_broadcast.py`) | ring of chunks, flags per reader, sockets | `enqueue`, `dequeue`, `shutdown` | executor and workers | `ShmBroadcast`, `Broadcast` |
| Multiprocess executor (`multiproc_executor.py`) | futures, response queues, failure state | `collective_rpc`, worker loop, monitor thread, `shutdown` | engine core and workers | `MultiprocExecutor` |
| Encoder cache (`encoder_cache_manager.py`, `worker/gpu/mm/`) | entries, references, freeable list, slot counters | `can_allocate`, `allocate`, `free_*`, `reset` | scheduler and worker | `EncoderCache` |
| Data-parallel coordinator and clients, pause and resume | waves, running state, pause state | start and end of a wave, two-phase pause | engine cores | `DataParallelWaves` |
| Host offloading (`offloading/`, `kv_offload/cpu/`) | host blocks, transfer jobs, streams | lookup, load, store, flush, reset | scheduler and workers | `OffloadingConnector` |
| DSpark speculator, rejection sampler | tensors | propose and verify drafts | the model runner | – |
| Output processor, async LLM, structured output, API servers | request streams, grammars | deliver, mask | engine core | – |

What is hard here, and what must hold:

* **Free queue.** Blocks are taken out of the middle between batched pops and
  appends. Every block must stay on the list exactly once or have both links
  cleared, and the counter must agree.
* **Block pool and managers.** Blocks are shared, kept in the cache after they
  are freed, evicted lazily, and entered into the cache *before* the GPU writes
  them. Counts must be exact, a block found by hash must hold that prefix, and
  the check before an allocation must cover everything the allocation takes.
* **Asynchronous scheduling.** Step *n+1* is planned before the output of step
  *n* is known. Counts are optimistic and corrected in two places; preemption,
  abort and reset strike while outputs are in flight. Scheduler and worker keep the
  same counts separately and never compare them.
* **Sliding windows.** Blocks are given back behind a window computed from the
  optimistic count, which may move back.
* **Hybrid hits.** The longest prefix that all groups can use is found by a
  fixed-point iteration with alignment, windows and EAGLE drops, over a cache
  from which single blocks were evicted or never entered.
* **Message queue and executor.** One writer and several readers poll flags
  without a lock; idle readers sleep; answers carry no call number. Calls time
  out, workers raise or die, and a monitor thread shuts down what another
  thread is using.
* **Encoder cache.** The manager evicts when it plans, the worker frees when it
  executes; images are shared by requests that come and go.
* **Waves.** Engines must enter the same collectives although requests, aborts,
  wave messages and pauses reach them in any order over several sockets.
* **Offloading.** Copies run on their own streams, while the blocks they read and
  write are freed and given out again.

Every hazard is listed in `PROJECT.json` with its line and the properties that
would notice it.

## The modules

Parameters that distinguish one deployment from another (drafts, depth of
the batch queue, what may fail) are a variable `config`, `env` or `layout`
that `Init` chooses from a CONSTANT set, so that one run covers several
configurations. Constants named in comments as *bound* limit counters that the
code does not limit.

### `FreeBlockQueue`, abstract specification `BlockQueue`

The linked list, link by link (`FakeHead` is -1, `FakeTail` is `NumBlocks`,
`None` is -2); one action per method, early returns and RuntimeErrors as
guards. The one thing the methods do not check is the caller's protocol, that only blocks
off the list are put back (`Returnable`); the block pool keeps it by appending
a block when its reference count drops to 0, which `PoolExact` checks.
`BlockQueue` is a sequence of distinct blocks without links; `QueueSpec` is that
specification with `queue <- get_all_free_blocks`, the blocks met when the links
are followed.

### `KVCacheManager`

`BlockPool`, `KVCacheManager` and `FullAttentionManager` for one full-attention
group. `pool` is a record of the pool's fields, the pool's methods are operators
from pool to pool, and each action is one scheduler decision with the call tree
below it: `Admit`, `Schedule`, `Output`, `Preempt`, `Finish`, `ResetPrefixCache`.

* A block hash chains over all tokens before it, so it is modelled as the token
  prefix it stands for; collisions are not modelled.
* The ghost `kv` says which prefix, computed with which weights, every slot
  holds. A block that is neither held nor cached is blanked
  (`ForgetUnreachable`), so that states do not differ by contents nobody reads.
* At most one step per request is in flight here; pipelining is the subject of
  the next module. Order of requests, chunk sizes, drafts and acceptance are free.
* `Finish` returns the id with its prompt as a new request, so that a second
  request meets the cache the first one left.
* The free queue and the hash map lose elements with `Keep` of `SeqFilter`, which is
  `SelectSeq` for membership in a set, defined so that proofs can unfold it.

### `AsyncScheduler`

`Scheduler` and `AsyncScheduler` with the batch queue and the worker's counters.
Tokens are counted, not named; blocks are counted per request.

* `schedule()` is one pass through the phases "running", "waiting" and
  "dispatch", one action per loop iteration; `Dispatch` is its end,
  `_update_after_schedule` and the hand-over. All other actions need the phase
  "idle": the engine core is one thread.
* A prefix-cache hit is any number of blocks that leaves a token to compute.
* `Dispatch` also executes the batch on the worker (`WorkerState`,
  `PostUpdate`), for any number of accepted drafts. Doing this at hand-over is
  exact for the counters: the worker takes batches in order and nobody else
  reads them.
* `update_from_output` processes the oldest batch. `abort_request` is possible
  whenever the engine is not inside `schedule()`.
* `stale`, `start`, `sampled` and `decode` in a frame are ghosts.

### `SlidingWindow`

`SlidingWindowManager` under `allocate_slots` for the batches of the scheduler:
`Schedule` (with `remove_skipped_blocks` and the admission cap), `AllocateFails`,
`Dispatch`, `Execute` on the worker, `update_from_output`, `Free`. The
scheduler's table and the worker's are separate; the ghost `kv` records which
position of which request a slot was written for. Requests share no prefix here.

### `HybridCacheHit` and `PrefixReplay`

`HybridCacheHit` is `find_longest_cache_hit`, one action per group looked at
(`LookUp`) and one per round (`EndRound`), with the scans of the full-attention
and sliding-window managers as operators. The cache content is *any* set of
blocks, since single blocks are evicted; the result is compared with reference
definitions (`Usable`, the longest length that is usable by all groups).
`PrefixReplay` extends it by what a prefill leaves in the cache:
`cache_blocks` with the reachability mask, dense or with a retention interval,
and blocks behind the window that are gone before their aligned region is complete. It then
searches for the same prompt.

### `ShmBroadcast`, abstract specification `Broadcast`

`MessageQueue` over `ShmRingBuffer`. Every load or store of a flag, of the
overflow byte and of the body is a step (memory is sequentially consistent, which the
fences in the code ask for). Writer: `Enqueue`, the loop over the read flags,
`WriteHead`, `WriteBody`, the loop that resets the flags, `Publish`,
`SendOverflow`, `Notify`. Reader: load of the flags, read, mark as read, `recv`
on the socket for overflowing messages, sleep, wake, time out, and leave after
`shutdown` and `cancel`. `Broadcast` is a sequence of messages of which every reader has received
a prefix; `BroadcastSpec` is that specification.

### `MultiprocExecutor`

`collective_rpc` with its futures and `response_mqs`, the workers' busy loops and
output threads, the monitor thread, the failure callback and `shutdown`. The
message queues are the queues `Broadcast` promises. The engine core's thread
has a program counter `epc`, since the monitor thread may run between any two of its
accesses to shared fields. `Environments` says which kinds of calls may raise or
time out, whether workers die, and whether the callback is registered yet.

### `EncoderCache`

`EncoderCacheManager`, the encoder part of `schedule()` (running and waiting
requests, preemption under both policies, failing `allocate_slots`), and the worker's cache
of encoder outputs, which follows up to two frames behind. `misses` is a ghost:
the outputs the worker would not have found.

### `DataParallelWaves`

`DPEngineCoreProc`, `DPCoordinatorProc` and `DPAsyncMPClient`: every message
channel is a queue of its own, as every socket is in the code. A forward pass
(`Forward`), the all-reduce (`AllReduce`) and the resume barrier are joint steps of all
engines; an engine that has arrived waits there. `pause_scheduler` has the modes "keep",
"abort" and "wait". Load balancing is an arbitrary choice.

### `OffloadingConnector`

`OffloadingConnectorScheduler`, `CPUOffloadingManager` with the LRU policy, and
the worker's transfers, with as much of the scheduler and the KV-cache manager as the
connector sees. One token per block, one full-attention group, one key per
prefix.

* `schedule()` is `BeginStep`, any of `ScheduleRunning`, `Preempt`, `Defer`,
  `StartLoad`, `Promote`, `Admit`, then `Dispatch`, which is
  `build_connector_meta`: store jobs in the order of the requests, and
  `jobs_to_flush`. What is scheduled is free (`AsyncScheduler` models the choice).
* A worker submits the deferred stores and waits for the flushed jobs
  (`BeginFrame`, `RunFrame`), launches loads and the forward pass, and reports
  ended jobs (`PostFrame`). The streams move on their own: `Compute`, `Store` (after the
  passes launched before it), `Load`, which waits for nothing.
* A request ends by its length, by a stop token (`stops`) or by `Abort`, the latter two also while
  later frames of it are in flight: their passes still write into the freed blocks,
  and their outputs are ignored.
* The ghosts `gpu` and `cpu` say which prefix a block holds, on every worker;
  `overtaken` remembers blocks that were loaded before a pass launched earlier wrote
  them. With one token per block a prompt that can be found in full has at least two tokens.
* `ResetCache` waits for the jobs to end, see *Other behaviours* below.

## Runs

| Run | Question | Properties | States |
|---|---|---|---|
| `free_block_queue` | Do all sequences of operations keep one chain and implement the abstract queue? | `WellLinked`, `QueueSpec` | 326 |
| `kv_cache` | Are counts, map, contents and tables right when requests share a prefix? | `PoolExact`, `CachedBlocksHoldTheirPrefix`, `ComputedTokensHaveTheirKV`, `NeverOutOfBlocks` | 381,608 |
| `async_scheduler` | Accounting, worker agreement, output order, stale outputs and progress with batches in flight | `BookkeepingExact`, `WorkerAgrees`, `OutputsContinue`, `StepsAreNeeded`, `FramesDeliveredOrDropped`, `RequestsFinish`, `WorkerForgets` | 212,576 |
| `sliding_window` | Tables, free queue, admission cap and readable windows with steps in flight | `TablesExact`, `ExactWindowReadable` | 554,414 |
| `hybrid_hit` | Does the search end with the longest hit all groups can use, and does a replay find it? | `HitIsUsable`, `HitIsLongest`, `ReplayHits`, `SearchEnds` | 95,436 |
| `shm_broadcast` | Does the ring implement a broadcast queue, wake its readers and let them stop? | `ReadersAndWriterApart`, `BroadcastSpec`, `MessagesArrive`, `WriterProceeds`, `ReadersStop` | 142,737 |
| `executor` | Does every call get its own answers, none hang, and a death become known? | `AnswersExact`, `StepsUseTheirOwnOutput`, `CallsReturn`, `EngineLearnsOfDeath`, `NoOrphans` | 250,314 |
| `encoder_cache` | Are entries, references and the worker's outputs consistent, and does every request finish? | `CacheExact`, `WorkerFitsCache`, `EncoderOutputsPresent`, `RequestsFinish` | 182,992 |
| `waves` | Do engines enter the same collectives, agree on the wave, pause, and serve every request? | `EnginesInStep`, `WavesAgree`, `RequestsServed`, `PauseCompletes` | 57,478 |
| `offloading` | Do host copies and loaded prefixes hold what they should, and do loads end? | `OffloadExact`, `PrefixReadable`, `LoadsEnd` | 297,343 |
| `async_reset_spec`, `window_optimistic` | expected violations, see *Findings* | `FramesDeliveredOrDropped`; `WindowReadable` | |

`PoolExact`, `BookkeepingExact`, `TablesExact`, `HitIsUsable`, `AnswersExact`,
`CacheExact`, `EnginesInStep`, `OffloadExact` and `ReadersAndWriterApart` are
conjunctions that include the type invariant of the module; their parts are
definitions of their own (`RefCountsExact`, `HashMapExact`, `QueuesMatchStatus`,
`PlaceholdersExact`, `SlotsCoverComputed`, `BlocksHeldOnce`, `HeldWithinCap`,
`HitOfEveryGroup`, `EagleDropVerified`, `AnswersMatchCalls`, `ListsAreComplete`,
`SlotsExact`, `NoReferenceLeaks`, `CollectivesMatch`, `OffloadedDataExact`, ...)
with comments that state them.

For each property of a passing run `PROJECT.json` names a mutant, a definition
changed as a plausible bug would change it, under which TLC finds the property
violated. The mutated forms stand in front of the definitions they change.

Bounds, and why they are enough:

* `free_block_queue`: 5 blocks; the 326 states are all orders of all subsets, so
  empty, singleton, two-block and interior cases of every operation occur.
* `kv_cache`: 4 usable blocks of 2 tokens, prompts `000` and `001` that share one
  block, length 6: two requests do not fit without sharing; up to 2 drafts
  cross a block border. Three configurations: asynchronous; with one weight update
  and reset (length 5); synchronous with EAGLE, a watermark and the full-sequence check.
* `async_scheduler`: 4 blocks of 2 tokens, so two requests alone force
  preemption; budget 4, so a resumed request is prefilled in chunks;
  `max_model_len` 7 caps one request before its `max_tokens`; one has `min_tokens`.
  Three configurations: drafts with three requests; a reset without drafts; the confidence
  schedule with a budget that takes prompts in one chunk.
* `sliding_window`: window 3 over blocks of 2, so the windows of a step cover up to three
  blocks and move over five; no drafts with two steps in flight, two drafts
  with one step, with and without lookahead slots, one draft with two (for `TablesExact`). A request may
  hold four of the pool's five blocks; only with two lookahead slots is its peak the pool.
* `hybrid_hit`: four layouts with every content of the cache (up to 7 hash blocks,
  two or three groups, EAGLE on all, one or no group), and four layouts
  with prompts of 3 to 19 tokens filled in chunks of 1, 2, 3 and 5. The retention
  intervals 0 and 8 and the dense mask occur; 19 tokens are more than two segments.
* `shm_broadcast`: two readers and two chunks, so one reader may be a whole round
  ahead of the other; four messages wrap the ring twice. Environments: quiet with
  one overflowing message, a writer that dies, a shutdown, fatal timeouts.
* `executor`: two workers (the output rank and another), five calls, two steps in
  flight; steps that raise while the callback is being registered, and workers
  that die while steps time out.
* `encoder_cache`: three requests with three images of sizes 2, 1, 1 (one
  of them twice in a request, two of them shared) over 2 or 3 slots: never
  room for all. One failing allocation, one abort, one reset, two frames in flight.
* `waves`: two engines, one front-end; two requests and an all-reduce at every second step; every
  mode of pause with a request of two steps; an abort.
* `offloading`: 2 or 3 GPU blocks, 2 to 4 host blocks, prompts with a common prefix of two keys, so
  blocks and host blocks are reused; two workers; two frames in flight with an abort or
  a preemption; a reset; three requests with room on the host, where the prefix one request
  stored has left the GPU and another loads it; and two frames in flight with a
  preemption and an abort or a stop token, where a prefix that only the host has is loaded into
  a block that a pass in flight will still write. That LRU eviction spares blocks which are being loaded
  is part of the model, but these sizes do not make it necessary.

The deadlock check is off where the system really stops: all requests done,
a search ended, a process dead.

**Fairness.** Processes and threads that can take a step do: weak fairness of the
engine's step (`run_busy_loop` calls the step function for ever), of the workers,
of each stream, and of threads (monitor, output, cancel). In
`ShmBroadcast` the shutdown of a reader is fair only after the writer's death,
since the death pipe wakes that thread. In `DataParallelWaves` the handling of
input is strongly fair: `_process_input_queue` empties the queue in every
iteration of the busy loop, and an engine that is in a collective cannot handle
input, so that the action is enabled again and again but not continuously. Of clients one thing is
assumed, there: who has paused the engines resumes them (weak fairness of
`ResumeScheduler`), without which no request could be served. Nothing is
assumed of requests, aborts, pauses and resets being made, of failures, or of drafts
being accepted. `RequestsServed`, `CallsReturn` and the like are therefore about
what the engine owes once it was asked.

## Findings

1. **A reset of the prefix cache loses output when drafts are in flight**
   (`async_reset_spec`). `reset_prefix_cache` sets `async_tokens_to_discard` to
   the number of output placeholders, which counts tokens; the counter is taken
   down once per output frame. With drafts a frame has more than one placeholder, so
   after the stale frames the first frames of the resumed request are dropped
   too. Without drafts tokens and frames are the same number and
   `FramesDeliveredOrDropped` holds (`async_scheduler`).
2. **A window that moves back** (`window_optimistic`). `remove_skipped_blocks` gets
   the optimistic `num_computed_tokens`. When the drafts of the step in flight are
   rejected, the window of the next step begins in a block that was given back
   and may already belong to another request. The run has two drafts and two steps in
   flight. Without drafts and two steps in flight, and with two drafts and one step at a
   time, the window is readable (`ExactWindowReadable` in `sliding_window`).

### Other behaviours outside the checked configurations

The passing runs leave out the combinations below, because a property fails in
them. Each can be seen by adding the configuration to the constant set of the
run's MC module or by changing the constant named.

* *Message queue.* A writer that dies between publishing the overflow flag and
  sending the message leaves readers in `recv`, which no shutdown reaches
  (`shm_broadcast.py:792`; a dying environment with an overflowing message,
  `ReadersStop`). A `dequeue` that times out there has already marked the chunk
  as read, so the next overflowing message is answered by the previous one
  (`timeouts = "retried"`, `BroadcastSpec`).
* *Executor.* A death between the test and the store in
  `register_failure_callback` is never reported (`multiproc_executor.py:302`;
  unregistered with deaths, `EngineLearnsOfDeath`). A utility call that fails or times out leaves
  answers behind, which the next calls take for their own (`:388`, `:390`). `AnswersExact` states
  exactly this exception (`GivenUpBefore`); with "utility" among `failing` or `timed_out` even a step
  may go on with the output of another (`StepsUseTheirOwnOutput`).
  Utility calls that race the monitor's shutdown may
  return an empty list (`:376`; `ListsAreComplete` allows it once the queues are closed).
  An exception on a rank that is not the output rank is logged and dropped (`:990`).
* *Sliding window.* The admission cap does not count lookahead tokens
  (`kv_cache_interface.py:519`). Its rounding leaves room for one; with more, `HeldWithinCap`
  states the larger bound `PeakBlocks` instead of the cap.
* *Hybrid hit.* Only the first attention group is truncated to the final length
  (`kv_cache_coordinator.py:709`): with a second full-attention specification its blocks
  may be more than the hit (`HitOfEveryGroup`). When two or more EAGLE groups with windows shorten the hit in turn, the verification
  of the first is kept although it was for a longer hit
  (`kv_cache_coordinator.py:692`, `EagleDropVerified`). With an EAGLE block
  smaller than the alignment and a window longer than the alignment the hit may be one unit
  shorter than possible (`single_type_kv_cache_manager.py:675`, `HitIsLongest`). Sparse retention with EAGLE may keep nothing a
  replay can use (`:750`, `ReplayHits`).
* *Waves.* The coordinator does not wake the engine that got the request; if that is
  aborted before the engine's first step while another one gets a request,
  the others wait for it (`coordinator.py:452`; two requests, one aborted).
  `START_DP_WAVE` may overtake `RESUME` on another socket and is then ignored
  (`core.py:1853`; `add_resuming`). After a pause in mode "abort" or "keep" a late
  notification of a first request makes the coordinator believe that the engines
  run; `WavesAgree` is stated for behaviours without a pause.
* *Encoder cache.* Under the priority policy a request preempted in the
  step that gave it an image leaves the image cached but never computed
  (`scheduler.py:510`; `Policy = "priority"`). With the EAGLE shift an input that
  starts at the end of a chunk is missed (`:1345`; `Shift = 1`), and two
  adjacent inputs that do not fit together stop a request (`:1327`; `Shift = 1`, `Gap = 0`).
* *Async scheduler.* With the confidence schedule and a budget below the prompt, drafts
  may stand behind a prefill chunk (`async_scheduler.py:43`). A request
  whose `min_tokens` do not fit below `max_model_len` never finishes
  (`sched/utils.py:100`). With three batches in flight, which asynchronous scheduling has together
  with pipeline parallelism (`config/vllm.py:542`), a preempted request may be resumed and
  planned again while a frame from before is still in flight; a step then samples although
  it was counted as a chunk of the prefill (`BatchQueueSize = 3`, `BookkeepingExact`).
* *Offloading: a load overtakes a pass.* Only stores wait for the compute stream
  ("wait for model computation to finish before offloading", `gpu_worker.py:385`); a load
  does not, and `jobs_to_flush`, by which the connector "fences any block reuse"
  (`offloading/worker.py:257`), names transfers only. With two frames in flight a request may be
  aborted, or end by a stop token, while its last pass still runs. It gives up a block that no
  store watches. If the next step loads the prefix of another request into that
  block, the pass may write over the loaded entries, and the other request then attends to
  entries of a stranger. Both of the last two configurations of `offloading` reach this:
  1. r2 computes and stores `a`, is preempted by r3, whose pass for `g` is launched into the block
     of `a`;
  2. r3 is aborted, or the output of its previous frame is a stop token;
  3. r2 finds `a` on the host and loads it into the same block; nothing is flushed;
  4. the pass of r3 writes `g` over `a`, and r2 goes on behind `a`.

  `PrefixReadable` leaves out exactly the blocks in `overtaken`, and so shows that nothing else
  destroys a loaded prefix; without that disjunct TLC finds it violated by these steps.
  With one frame in flight `overtaken` stays empty. The block keeps the hash of `a`, so other requests
  may find it on the GPU, and once the host has evicted `a` one of them could store it again from
  there (read from the code; `OffloadedDataExact` would fail, which takes more requests and
  keys than the run has).
* *Offloading: reset.* `reset_cache` empties `_jobs` but not the requests' `transfer_jobs`,
  so a request with a transfer under way would next look up a job that is gone
  (`offloading/scheduler.py:900`, `:1107`). This is read from the code;
  the model resets only when no job is under way.

## Proofs

Every theorem holds for all values of the constants that satisfy the named assumptions of its
module. Each invariant that is proved was first checked with TLC on the run of its module.

### The free block queue (`FreeBlockQueueProofs`)

    THEOREM AlwaysWellLinked    == Spec => [](TypeOK /\ WellLinked)
    THEOREM LinksImplementQueue == Spec => QueueSpec

for every number of blocks; the only assumption is `NumBlocks \in Nat`.

`TypeOK /\ WellLinked` is inductive once the chain is made explicit. The proofs
work with `Chain(n, s, nx, pv, num)`: the links `nx` and `pv` and the counter
`num` are those of the sequence `s` of `n` distinct blocks, read in both
directions, and all other links are cleared. The lemmas are about links alone,
not about actions:

* `RepresentsChain`, `ChainRepresents`: the chain and `Represents` say the same.
* `FrontIsPrefix`: the blocks the loop of `popleft_n` visits are a prefix of the
  chain; `DropChain`: unlinking a prefix leaves the chain of the rest.
* `RemoveChain`: unlinking one block closes the gap.
* `DistinctIsShort` (the pigeonhole principle for the bound on the counter),
  `InsertDistinct`, `InsertChain`: linking in a batch at a position yields the
  chain with the batch there.

`DropStep` and `SpliceStep` apply them to the actions. `NextChain` has one
case per operation and says what the chain becomes (`Follows`): a prefix or one block is gone, or
others stand behind or in front of it. The first theorem follows by the invariance rule. The backward
links and the cleared links of absent blocks are needed although the counter's
correctness does not mention them: `remove` finds its neighbours through the
backward link, and an insertion is harmless only because the inserted blocks are
nowhere on the chain.

For the second theorem `get_all_free_blocks` must be known. Its recursion along the links need not end in
an arbitrary state; on a chain it has a solution (`ReadingExists`), and every solution
returns the blocks of the chain, from the last one backwards (`ReadingIsChain`). So
`Follows` is a statement about the abstract queue, and each of its cases is an action of `BlockQueue`
(`FollowsIsAStep`).

### The message queue (`ShmBroadcastProofs`)

    THEOREM AlwaysApart == Spec => []ReadersAndWriterApart
    THEOREM RingImplementsBroadcast == NoRetriedOverflow => (Spec => BroadcastSpec)

for any number of readers, chunks and messages. The invariant of the first, `FlagInv`, is about
flags alone: a count of the writer that missed nothing has seen only flags that are set, since readers never clear
one; the writer is inside a chunk only while it is not published; a reader stays
with a chunk that is published and that it has not marked.

The refinement needs positions. `PositionInv(marks)` says that there is, for each reader, the number of messages
it has marked, at most the size of the ring behind the writer; the flags of every chunk,
the reader's place, what its caller has received and the
messages in its socket follow from these numbers. Every step of the ring is then a step of
`Broadcast` or a stutter. The hypothesis says that timeouts are retried only where no
message overflows; without it TLC finds the violation described under *Other behaviours*.

### The executor (`MultiprocExecutorProofs`)

    THEOREM AnswersAlwaysExact == Spec => []AnswersExact
    THEOREM StepsAlwaysUseTheirOwnOutput ==
      UtilityCallsSucceed => (Spec => []StepsUseTheirOwnOutput)

for any number of workers, any depth of the batch queue, any number of calls and any
set of environments. `ExecutorInv` says where the answer to each call is on each
rank (not yet taken, in the worker's hands, in its output queue, in the response
queue, read), that these stand in the order of the calls, and which futures
are pending and queued. The answers in front of a future are then those of calls before it,
and there are any only when one of those was given up.

The second theorem is about what happens after that. `StepInv` follows the first call
that was given up: the step it belongs to is *doomed* (`Doomed`): it has raised,
it has read `None`, or what it will read is the `None` of its own `execute_model`, or the failure
that follows from it. The engine core dies at that step, so that no later step is
handed on. This needs `UtilityCallsSucceed`, since a utility call that is given up
dooms no step; the environments of the run satisfy it.

### Waves (`DataParallelWavesProofs`)

    THEOREM EnginesAlwaysInStep == Spec => []EnginesInStep
    THEOREM WavesAlwaysAgree    == Spec => []WavesAgree

for any engines, front-ends, requests, pauses and configurations. `WaveInv` says that
all engines have the same step counter and are in the all-reduce together, and
follows a pause: every engine has the call still in its queue, or is pausing, until
the consensus of all; then all have agreed, and stopped before `pause_scheduler` returns; the
same for the resume. `AgreementInv` says that there is a wave `n` which all engines are in and no
message, front-end or coordinator is beyond; that the coordinator knows of it or the
`wave_complete` of the one before is on its way; that, without a pause, the
coordinator believes that the wave runs only if an engine runs or is about to be started; and that the last
a front-end has heard, or will hear, is the coordinator's state. When all is quiet,
nothing is on its way, and the agreement is what remains.

### The KV cache (`SeqFilterProofs`, `KVCacheManagerProofs`)

    THEOREM PoolAlwaysExact                 == Spec => []PoolExact
    THEOREM CachedBlocksAlwaysHold          == Spec => []CachedBlocksHoldTheirPrefix
    THEOREM ComputedTokensAlwaysHaveTheirKV == Spec => []ComputedTokensHaveTheirKV
    THEOREM BlocksNeverRunOut               == Spec => []NeverOutOfBlocks

for every number and size of blocks, every finite set of requests with any prompts, any
number of drafts and every configuration (`KVAssumption`). All four follow from
`CacheInv`, the conjunction of

* `PoolInv`: a block's reference count is the number of tables it is in, the free queue
  holds exactly the blocks with count 0, each once, and a block is in the map under the hash it has;
* `TableInv`: blocks that were not yet offered to the cache have no hash, and a block in two tables has one;
* `HashedInv`: the slots of a hashed block hold the tokens the hash stands for;
* `RequestInv`: the blocks offered to the cache are within the computed tokens, so that
  a step, which writes behind them, never overwrites a cached slot;
* `ReadInv`: computed positions, those of drafts in flight included, are readable
  through the table.

None of the four is inductive alone: that contents survive needs that writers
own their blocks, which needs the counts; that counts are right needs that a
hit touches blocks of the map only. `AllocateStep` covers `Admit` and `Schedule`,
`OutputTokens` and `OutputCache` the two halves of an output, `FreeKeeps` preemption and
end; `ResetMeansIdle` is a pigeonhole argument: when the queue holds all
blocks but the null block, no table holds any. `SeqFilterProofs` has the lemmas about
`Keep`.

### The hybrid hit (`HybridCacheHitProofs`)

    THEOREM HitsAlwaysUsable  == ReplaySpec => [](OneFullGroup /\ OneEagleWindow => HitIsUsable)
    THEOREM HitsAlwaysLongest == ReplaySpec => [](ExactScans => HitIsLongest)
    THEOREM ReplaysAlwaysHit  == ReplaySpec => [](ExactScans /\ KeepsTails => ReplayHits)

for every layout, prompt length, chunking of the prefill and content of the cache; the
assumptions on layouts (`WellFormed`) are the assertions that block sizes divide the alignment
and that there is more than one group (`kv_cache_coordinator.py:560`), and that windows are
not empty. The premises are predicates on the layout:
at most one full-attention group and at most one EAGLE window; windows of more than one token
and EAGLE windows whose blocks have the size of the alignment or that fit into the alignment
(`DropIsExact`); dense retention, or no EAGLE (`KeepsTails`). Layouts outside them are those
under *Other behaviours*, where TLC finds violations (and windows of one token, of which the scan
still asks for one block).

The arithmetic is done once. `FindFullOf` and `FindWindowOf` describe the two scans in
blocks of the group (`FindSound`, `FindLongest`); `LookupIsSound` and `LookupIsLongest`
translate this into lengths, where the alignment makes divisions exact. The invariant
of the rounds then needs little: the current hit only shrinks; a window looked at in
this round has a hit between the current length and that of the round, so that in a round that
changed nothing all hits have the final length (`WindowInv`); what full attention found is
good for every shorter hit (`FullInv`); a verified EAGLE window has the block behind the *current*
hit, and one that is not verified after its lookup means that the round shortened
the hit and will be repeated (`EagleInv`); and no prefix usable by all is longer than the current
hit (`LongestInv`).

`ReplaysAlwaysHit` adds the prefill in front of the search. `Wanted(g)` are the blocks of a group
that the longest hit of the prompt needs. `FilledInv` says that every wanted block that was offered to the
cache is in it, and that all full blocks have been offered; it holds through the chunks because
the mask keeps the wanted blocks and because none of them lies behind the window at the step that
offers it. The longest hit is therefore usable by all groups when the search begins, and `HitsAlwaysLongest` does the rest.

### The asynchronous scheduler (`AsyncSchedulerProofs`)

    THEOREM QueuesAlwaysMatch      == Spec => []QueuesMatchStatus
    THEOREM BookkeepingAlwaysExact == Spec /\ Regular => []BookkeepingExact
    THEOREM WorkerAlwaysAgrees     ==
      Spec /\ Regular => [](CountsAgree /\ (~ config.confidence => WorkerAgrees))
    THEOREM OutputsAlwaysContinue  == Spec /\ Regular => []OutputsContinue
    THEOREM StepsAlwaysNeeded      == Spec /\ Regular => []StepsAreNeeded
    THEOREM FramesAlwaysDeliveredOrDropped == Spec /\ Regular => FramesDeliveredOrDropped

for every finite set of requests, any prompts and limits, every number and size of blocks, and any
budget, watermark and number of drafts. `Regular` is about the constants and the
configuration, which no step changes: at most two batches in flight (what asynchronous scheduling
has without pipeline parallelism), `min_tokens` that fit between the prompt and `max_model_len`, and
no reset of the prefix cache while drafts are used. The cases it leaves out are finding 1 and
two of those under *Other behaviours*. All configurations of `async_scheduler` satisfy it. `WorkerAgrees` contains
`DraftsFollowADecode`, which the confidence schedule may break.

The invariant has four layers.

* `QueueInv`: which queue a request is in follows from its status, each once; the phases of `schedule()`
  keep the lists they iterate over apart.
* `FramesOK` and `ReqInv`: the accounts of one request. Three parties count the same tokens: the
  scheduler (`num_computed_tokens`, `num_output_placeholders`), the frames in flight, and the worker.
  `ReqInv` adds them up by what the request is doing. When it is `Prefilling`, nothing it computes is
  expected back; when it is `Decoding`, its placeholders are the tokens its live frames may still
  bring, and the worker is ahead of the delivered output by what these frames have sampled.
  A preempted request still gets the output that is in flight, but before the next batch is
  planned (`QueuedInv`), so that it is resumed with no live frame (`AdmittedInv`); a frame from before a
  reset is the oldest one, and is the one output to discard (`OpenInv`).
* `BatchInv`: the same for the batch that `schedule()` is filling, whose shares are planned but not yet counted.
* `BlocksInv`: held blocks are at most all blocks, and those of a running request cover its
  computed tokens and its share of the batch.

No layer stands alone: that an output is what the request waits for needs that every
frame in front of it was delivered or counted as one to discard; that the worker, which starts a
resumed request anew, agrees with the scheduler needs that no live frame was left when the request was
planned again, which is where the depth of the queue enters. With at most two frames the sums over
the queue have two terms, so no induction over sequences is needed; sums over requests and batches are taken apart by
lemmas about `SumFunctionOnSet` (`SubsetInduction` is induction over the subsets of a finite
set, stated with a set instead of a predicate).

### What stays with TLC

* Liveness and everything under fairness (`RequestsFinish`, `WorkerForgets`, `SearchEnds`,
  `MessagesArrive`, `CallsReturn`, `RequestsServed`, `LoadsEnd` and the like).
* `SlidingWindow`, `EncoderCache` and `OffloadingConnector`: their invariants and action properties are
  checked on the instances of the runs only. What `_try_schedule_encoder_inputs` and
  `build_connector_meta` do is a fold over inputs and requests, so that each of their invariants would first need
  a stage-by-stage description of the fold, as `SeqFilterProofs` has for `Keep`.

## Not modelled

* DSpark speculator, rejection sampler, layers, kernels, CUDA graphs: numeric; the
  models let any number of drafts be accepted and take any confidence length.
  Together with vendored attention kernels, model definitions, configuration,
  API servers and tests these are by far most of the repository's lines, and a
  state-machine model has nothing to say about them: the modelled share of all lines
  is small, the modelled share of the engine's coordination code is not.
* Streaming sessions (`scheduler.py:1114`): a continued session rewrites the
  prompt of a request that may have frames in flight. Failed KV loads
  (`scheduler.py:2463`): network connectors report invalid blocks; the offloading
  connector supports no job failures.
* Other connectors, ARC and tiering policies, sliding-window groups in the
  offloading connector; remote readers and the handshake of the message queue; start-up
  and multi-node followers of the executor; elastic scaling; sleep levels.
* Branches of modelled functions. `MessageQueue`: out-of-band buffers of 1 MiB and more
  (`shm_broadcast.py:735`) reach the caller of `dequeue` as views into the chunk, which is marked as read
  by then; the model's reader copies the message while it holds the chunk, so what a caller sees
  who keeps such a view until the ring comes round is not covered. The timeout of
  `enqueue` (`:576`), which leaves the chunk untouched, is left out too. Encoder cache:
  `disable_chunked_mm_input` (`scheduler.py:1307`), encoder outputs from an external connector
  (`:1357`), and admission with a prefix-cache hit: a waiting request starts at token 0.
  Pauses always clear the caches (`clear_cache=True`, `core.py:696`), and `has_work` has no
  batch queue (`core.py:1223`): an engine's step is one joint action there.
* Output processor and async LLM: per-request queues in one event loop.
* Grammar back ends of structured output: third-party; the deferred sampling of
  the engine core goes with them.
* Mamba, chunked-local and cross-attention managers; LoRA; pooling.

## Possible extensions

* Proofs: `EncoderCache.CacheExact` (sums over the entries, as in `AsyncSchedulerProofs`),
  `SlidingWindow.TablesExact` with the token budget as state, `OffloadingConnector.OffloadExact`.
* Models: the composition of `AsyncScheduler` and `KVCacheManager` (two frames in flight over real
  block tables), pipeline parallelism, streaming sessions, failed KV loads.
