----------------------------- MODULE EncoderCache -----------------------------
(***************************************************************************)
(* The encoder cache of multimodal models: EncoderCacheManager             *)
(* (v1/core/encoder_cache_manager.py), which the scheduler asks for room   *)
(* before it schedules the tokens of an image, and the worker's cache of   *)
(* encoder outputs (v1/worker/gpu/mm), which follows the scheduler one     *)
(* frame behind.  Outputs are shared by requests with the same input       *)
(* (mm_hash).  The result of allocate_slots is arbitrary here.             *)
(***************************************************************************)
EXTENDS Integers, Sequences, FiniteSets, FiniteSetsExt, SequencesExt

CONSTANTS
  Requests,
  MMHashes,             \* identifiers of multimodal inputs
  Size,                 \* [h -> number of encoder embeddings]
  Features,             \* [r -> the hashes of its inputs, in order]
  CacheSizes,           \* cache_size, a choice of Init
  EncoderBudget,        \* max_num_encoder_input_tokens
  Length,               \* tokens of an input
  Gap,                  \* text tokens after each input
  Shift,                \* 1: EAGLE, whose drafts look one token ahead
  Chunk,                \* bound: tokens of a request in a step
  Policy,               \* "fcfs" or "priority"
  Priority,             \* [r -> (priority, arrival_time) as a number]: the lowest goes first
  KVFailures,           \* bound: failing calls of allocate_slots
  Aborts,               \* bound: aborted requests
  Resets,               \* bound: reset_encoder_cache calls
  BatchQueueSize        \* frames in flight

ASSUME EncoderAssumption ==
  /\ CacheSizes \subseteq Nat
  /\ \A h \in MMHashes : Size[h] \in 1 .. EncoderBudget
  /\ \A h \in MMHashes, n \in CacheSizes : Size[h] <= n
  /\ Policy \in {"fcfs", "priority"} /\ IsInjective(Priority)
  /\ Length \in Nat \ {0} /\ Gap \in Nat /\ Shift \in {0, 1} /\ Chunk \in Nat \ {0}

VARIABLES
  mgr,                  \* the EncoderCacheManager
  arriving,             \* requests not added yet
  waiting, running,     \* sequences of requests
  num_computed,         \* [r -> num_computed_tokens]
  phase,                \* where schedule() is
  req_index, budget,
  attempt,              \* the running request allocate_slots is called for
  preempted,            \* whether this schedule() preempted a request
  batch,                \* [r -> [from, to, inputs]] of this schedule()
  frames,               \* dispatched batches
  executed,             \* how many of them the worker has executed
  encoder_outputs,      \* hashes of the worker's encoder outputs
  misses,               \* hashes the worker did not find
  faults                \* calls of allocate_slots that failed, aborts and resets so far

vars == <<mgr, arriving, waiting, running, num_computed, phase, req_index, budget, attempt,
          preempted, batch, frames, executed, encoder_outputs, misses, faults>>

NoAttempt == [req |-> 0]
Ids(r)    == DOMAIN Features[r]
Start(i)  == (i - 1) * (Length + Gap)
Total(r)  == Len(Features[r]) * (Length + Gap) + 1

NewManager(cache_size) ==
  [cache_size |-> cache_size,
   cached |-> {},                                  \* hashes that are cached
   refs |-> [h \in MMHashes |-> {}],               \* requests that reference them
   ids |-> [r \in Requests |-> {}],                \* request_cached_ids
   freeable |-> <<>>, freed |-> {},
   num_free_slots |-> cache_size, num_freeable_slots |-> cache_size]

Init ==
  /\ \E n \in CacheSizes : mgr = NewManager(n)
  /\ arriving = Requests /\ waiting = <<>> /\ running = <<>>
  /\ num_computed = [r \in Requests |-> 0]
  /\ phase = "idle" /\ req_index = 1 /\ budget = EncoderBudget
  /\ attempt = NoAttempt /\ preempted = FALSE /\ batch = <<>>
  /\ frames = <<>> /\ executed = 0 /\ encoder_outputs = {} /\ misses = {}
  /\ faults = [kv |-> 0, abort |-> 0, reset |-> 0]
-----------------------------------------------------------------------------
(* EncoderCacheManager.                                                    *)

\* check_and_update_cache for a hash that is cached.
Reference(m, r, i) ==
  LET h == Features[r][i]
      revived == m.refs[h] = {}
  IN [m EXCEPT !.freeable = IF revived THEN Remove(@, h) ELSE @,
               !.num_freeable_slots = IF revived THEN @ - Size[h] ELSE @,
               !.refs[h] = @ \cup {r}, !.ids[r] = @ \cup {i}]

EvictOldest(m) ==
  LET h == Head(m.freeable)
  IN [m EXCEPT !.freeable = Tail(@), !.cached = @ \ {h}, !.freed = @ \cup {h},
               !.num_free_slots = @ + Size[h]]

\* The oldest entries are evicted until num_embeds fit.
Evict(m, num_embeds) ==
  FoldLeft(LAMBDA s, h : IF num_embeds <= s.num_free_slots THEN s ELSE EvictOldest(s),
           m, m.freeable)

\* Mutant of Fits: what this call has put aside already is not counted.
FitsAlone(m, num_embeds, to_schedule) == num_embeds <= m.num_freeable_slots

Fits(m, num_embeds, to_schedule) ==
  num_embeds + to_schedule <= Max({m.num_free_slots, m.num_freeable_slots})

can_allocate(m, h, compute_budget, to_schedule) ==
  Size[h] <= compute_budget /\ Fits(m, Size[h], to_schedule)

allocate(m, r, i) ==
  LET h == Features[r][i]
  IN [m EXCEPT !.cached = @ \cup {h}, !.refs[h] = @ \cup {r}, !.ids[r] = @ \cup {i},
               !.num_free_slots = @ - Size[h], !.num_freeable_slots = @ - Size[h]]

\* Mutant of free_encoder_input: the entry is freeable although others refer to it.
free_encoder_input_shared(m, r, i) ==
  LET h == Features[r][i]
  IN IF m.refs[h] = {} THEN [m EXCEPT !.ids[r] = @ \ {i}]
     ELSE [m EXCEPT !.ids[r] = @ \ {i}, !.refs[h] = @ \ {r}, !.freeable = Append(@, h),
                    !.num_freeable_slots = @ + Size[h]]

free_encoder_input(m, r, i) ==
  LET h    == Features[r][i]
      last == m.refs[h] = {r}
  IN [m EXCEPT !.ids[r] = @ \ {i}, !.refs[h] = @ \ {r},
               !.freeable = IF last THEN Append(@, h) ELSE @,
               !.num_freeable_slots = IF last THEN @ + Size[h] ELSE @]

FreeInputs(m, r, ids) ==
  FoldLeft(LAMBDA s, i : free_encoder_input(s, r, i), m, SetToSortSeq(ids, <))

free(m, r) == FreeInputs(m, r, m.ids[r])

SumSizes(hashes)  == FoldLeft(LAMBDA n, h : n + Size[h], 0, SetToSeq(hashes))
SumOver(ids, r)   == FoldLeft(LAMBDA n, i : n + Size[Features[r][i]], 0, SetToSeq(ids))
-----------------------------------------------------------------------------
(* _try_schedule_encoder_inputs                                            *)

Window(r, from, to) ==
  {i \in Ids(r) : Start(i) + Length > from /\ Start(i) < to + Shift}

\* One input: in this call already, cached, without room, not in this step, or scheduled.
TryInput(r, nc, s, i) ==
  LET h == Features[r][i]
  IN IF s.stop \/ h \in s.hashes THEN s
     ELSE IF h \in s.m.cached THEN [s EXCEPT !.m = Reference(@, r, i)]
     ELSE IF ~ can_allocate(s.m, h, s.budget, s.put)
     THEN [s EXCEPT !.stop = TRUE,
                    !.n = IF nc + Shift < Start(i) THEN Start(i) - (nc + Shift) ELSE 0]
     ELSE LET m == Evict(s.m, Size[h] + s.put)
          IN IF Start(i) >= nc + s.n THEN [s EXCEPT !.m = m]
             ELSE [s EXCEPT !.m = m, !.budget = @ - Size[h], !.put = @ + Size[h],
                            !.hashes = @ \cup {h}, !.inputs = @ \cup {i}]

Try(r, nc, n) ==
  FoldLeft(LAMBDA s, i : TryInput(r, nc, s, i),
           [m |-> mgr, n |-> n, budget |-> budget, put |-> 0, hashes |-> {}, inputs |-> {},
            stop |-> FALSE],
           SetToSortSeq(Window(r, nc, nc + n), <))

AllocateAll(m, r, ids) == FoldLeft(LAMBDA x, i : allocate(x, r, i), m, SetToSortSeq(ids, <))
-----------------------------------------------------------------------------
(* schedule()                                                              *)

\* add_request, between two steps of the engine.
AddRequest(r) ==
  /\ phase = "idle" /\ r \in arriving
  /\ arriving' = arriving \ {r} /\ waiting' = Append(waiting, r)
  /\ UNCHANGED <<mgr, running, num_computed, phase, req_index, budget, attempt, preempted,
                 batch, frames, executed, encoder_outputs, misses, faults>>

BeginSchedule ==
  /\ phase = "idle" /\ Len(frames) < BatchQueueSize
  /\ waiting # <<>> \/ running # <<>>
  /\ phase' = "running" /\ req_index' = 1 /\ budget' = EncoderBudget
  /\ preempted' = FALSE /\ batch' = <<>>
  /\ UNCHANGED <<arriving, mgr, waiting, running, num_computed, attempt, frames, executed,
                 encoder_outputs, misses, faults>>

\* A running request: its inputs first, then allocate_slots.
TryRunning ==
  /\ phase = "running" /\ req_index \in DOMAIN running
  /\ LET r == running[req_index]
     IN \E try \in {Try(r, num_computed[r], Min({Chunk, Total(r) - num_computed[r]}))} :
          /\ mgr' = try.m
          /\ IF try.n = 0
             THEN req_index' = req_index + 1 /\ UNCHANGED <<phase, attempt>>
             ELSE /\ phase' = "allocating" /\ UNCHANGED req_index
                  /\ attempt' = [req |-> r, n |-> try.n, inputs |-> try.inputs,
                                 budget |-> try.budget]
  /\ UNCHANGED <<arriving, waiting, running, num_computed, budget, preempted, batch, frames,
                 executed, encoder_outputs, misses, faults>>

AddToBatch(r, from, n, inputs) ==
  [q \in DOMAIN batch \cup {r} |->
     IF q = r THEN [from |-> from, to |-> from + n, inputs |-> inputs] ELSE batch[q]]

\* allocate_slots succeeds.
ScheduleRunning ==
  /\ phase = "allocating"
  /\ LET r == attempt.req
     IN /\ batch' = AddToBatch(r, num_computed[r], attempt.n, attempt.inputs)
        /\ mgr' = AllocateAll(mgr, r, attempt.inputs)
  /\ budget' = attempt.budget /\ attempt' = NoAttempt
  /\ phase' = "running" /\ req_index' = req_index + 1
  /\ UNCHANGED <<arriving, waiting, running, num_computed, preempted, frames, executed,
                 encoder_outputs, misses, faults>>

Victim == IF Policy = "fcfs" THEN Last(running)
          ELSE CHOOSE r \in Range(running) :
                 \A q \in Range(running) : Priority[q] <= Priority[r]

\* allocate_slots fails: a request is preempted, one of this batch too if it has the lowest
\* priority, and its part of the encoder budget restored.
Preempt ==
  /\ phase = "allocating" /\ faults.kv < KVFailures
  /\ faults' = [faults EXCEPT !.kv = @ + 1]
  /\ LET v == Victim
         scheduled == v \in DOMAIN batch
     IN /\ running' = Remove(running, v)
        /\ waiting' = <<v>> \o waiting
        /\ num_computed' = [num_computed EXCEPT ![v] = 0]
        /\ mgr' = free(mgr, v)
        /\ batch' = [q \in DOMAIN batch \ {v} |-> batch[q]]
        /\ budget' = IF scheduled
                     THEN budget + SumOver(batch[v].inputs, v) ELSE budget
        /\ req_index' = IF scheduled THEN req_index - 1 ELSE req_index
        /\ preempted' = TRUE
        /\ IF v = attempt.req THEN phase' = "dispatch" /\ attempt' = NoAttempt
                              ELSE UNCHANGED <<phase, attempt>>
  /\ UNCHANGED <<arriving, frames, executed, encoder_outputs, misses>>

EndRunning ==
  /\ phase = "running" /\ req_index > Len(running)
  /\ phase' = IF preempted THEN "dispatch" ELSE "waiting"
  /\ UNCHANGED <<arriving, mgr, waiting, running, num_computed, req_index, budget, attempt,
                 preempted, batch, frames, executed, encoder_outputs, misses, faults>>

\* peek_request: the head of the queue, or the first of the heap.
Peek == IF Policy = "fcfs" THEN Head(waiting)
        ELSE CHOOSE r \in Range(waiting) :
               \A q \in Range(waiting) : Priority[r] <= Priority[q]

\* A waiting request is admitted.
ScheduleWaiting ==
  /\ phase = "waiting" /\ waiting # <<>>
  /\ LET r == Peek
     IN \E try \in {Try(r, 0, Min({Chunk, Total(r)}))} :
          /\ try.n > 0
          /\ batch' = AddToBatch(r, 0, try.n, try.inputs)
          /\ mgr' = AllocateAll(try.m, r, try.inputs)
          /\ budget' = try.budget
          /\ running' = Append(running, r)
          /\ waiting' = Remove(waiting, r)
  /\ UNCHANGED <<arriving, num_computed, phase, req_index, attempt, preempted, frames,
                 executed, encoder_outputs, misses, faults>>

Untouch(m, r) == free(m, r)

\* The encoder cache or the KV cache has no room for it.
SkipWaiting ==
  /\ phase = "waiting" /\ waiting # <<>>
  /\ LET r == Peek
     IN \E try \in {Try(r, 0, Min({Chunk, Total(r)}))} :
          IF try.n = 0 THEN mgr' = try.m /\ UNCHANGED faults
          ELSE /\ faults.kv < KVFailures
               /\ faults' = [faults EXCEPT !.kv = @ + 1]
               /\ mgr' = Untouch(try.m, r)
  /\ phase' = "dispatch"
  /\ UNCHANGED <<arriving, waiting, running, num_computed, req_index, budget, attempt,
                 preempted, batch, frames, executed, encoder_outputs, misses>>

Hashes(r, ids) == {Features[r][i] : i \in ids}

\* The batch goes to the worker with the hashes that were evicted; num_computed_tokens
\* advances before the result is known.
Dispatch ==
  /\ phase = "dispatch" \/ (phase = "waiting" /\ waiting = <<>>)
  /\ frames' = Append(frames,
       [batch |-> batch, freed |-> mgr.freed,
        compute |-> UNION {Hashes(r, batch[r].inputs) : r \in DOMAIN batch}])
  /\ mgr' = [mgr EXCEPT !.freed = {}]
  /\ num_computed' = [r \in Requests |->
       IF r \in DOMAIN batch THEN batch[r].to ELSE num_computed[r]]
  /\ phase' = "idle" /\ batch' = <<>>
  /\ UNCHANGED <<arriving, waiting, running, req_index, budget, attempt, preempted,
                 executed, encoder_outputs, misses, faults>>
-----------------------------------------------------------------------------
(* The worker, and the results.                                            *)

\* gather_mm_embeddings: the inputs with tokens in the range; the model calls it for the
\* tokens it computes, the drafter for those one further.
Gathered(f, shift) ==
  UNION {Hashes(r, {i \in Ids(r) : /\ Start(i) < f.batch[r].to + shift
                                   /\ Start(i) + Length > f.batch[r].from + shift}) :
           r \in DOMAIN f.batch}

Needed(f) == Gathered(f, 0) \cup Gathered(f, Shift)

\* Mutant of Kept: the evicted outputs are removed after the new ones were computed.
KeptAfter(f) == (encoder_outputs \cup f.compute) \ f.freed

\* Evicted outputs are removed, then those of the new inputs computed.
Kept(f) == (encoder_outputs \ f.freed) \cup f.compute

ExecuteModel ==
  /\ executed < Len(frames)
  /\ LET f == frames[executed + 1]
     IN /\ encoder_outputs' = Kept(f)
        /\ misses' = misses \cup (Needed(f) \ encoder_outputs')
  /\ executed' = executed + 1
  /\ UNCHANGED <<arriving, mgr, waiting, running, num_computed, phase, req_index, budget,
                 attempt, preempted, batch, frames, faults>>

\* _free_encoder_inputs
Processed(r) == {i \in mgr.ids[r] : Start(i) + Length <= num_computed[r]}

\* Mutant of FreeProcessed: a finished request keeps its references.
FreeProcessedOnly(m, r, done) ==
  IF r \in done THEN m ELSE FreeInputs(m, r, Processed(r))

FreeProcessed(m, r, done) ==
  IF r \in done THEN free(m, r) ELSE FreeInputs(m, r, Processed(r))

\* update_from_output: a request whose prompt is computed is finished.
UpdateFromOutput ==
  /\ phase = "idle" /\ executed > 0
  /\ LET f    == Head(frames)
         live == DOMAIN f.batch \cap Range(running)
         done == {r \in live : f.batch[r].to = Total(r)}
     IN /\ mgr' = FoldLeft(LAMBDA m, r : FreeProcessed(m, r, done), mgr,
                           SelectSeq(running, LAMBDA r : r \in live))
        /\ running' = SelectSeq(running, LAMBDA r : r \notin done)
  /\ frames' = Tail(frames) /\ executed' = executed - 1
  /\ UNCHANGED <<arriving, waiting, num_computed, phase, req_index, budget, attempt,
                 preempted, batch, encoder_outputs, misses, faults>>

Abort(r) ==
  /\ phase = "idle" /\ faults.abort < Aborts
  /\ r \in Range(waiting) \cup Range(running)
  /\ faults' = [faults EXCEPT !.abort = @ + 1]
  /\ waiting' = Remove(waiting, r) /\ running' = Remove(running, r)
  /\ mgr' = free(mgr, r)
  /\ UNCHANGED <<arriving, num_computed, phase, req_index, budget, attempt, preempted,
                 batch, frames, executed, encoder_outputs, misses>>

\* reset_encoder_cache: the manager, and after the frames in flight the worker.
ResetEncoderCache ==
  /\ phase = "idle" /\ faults.reset < Resets /\ executed = Len(frames)
  /\ faults' = [faults EXCEPT !.reset = @ + 1]
  /\ mgr' = NewManager(mgr.cache_size) /\ encoder_outputs' = {}
  /\ UNCHANGED <<arriving, waiting, running, num_computed, phase, req_index, budget,
                 attempt, preempted, batch, frames, executed, misses>>

EngineStep ==
  \/ BeginSchedule \/ TryRunning \/ ScheduleRunning \/ Preempt \/ EndRunning
  \/ ScheduleWaiting \/ SkipWaiting \/ Dispatch \/ UpdateFromOutput

Next ==
  \/ EngineStep
  \/ ExecuteModel
  \/ \E r \in Requests : AddRequest(r) \/ Abort(r)
  \/ ResetEncoderCache

Spec == Init /\ [][Next]_vars /\ WF_vars(EngineStep) /\ WF_vars(ExecuteModel)
-----------------------------------------------------------------------------
TypeOK ==
  /\ mgr.cached \subseteq MMHashes /\ mgr.freed \subseteq MMHashes
  /\ mgr.num_free_slots \in 0 .. mgr.cache_size /\ mgr.num_freeable_slots \in 0 .. mgr.cache_size
  /\ phase \in {"idle", "running", "allocating", "waiting", "dispatch"}
  /\ \A r \in Requests : num_computed[r] \in 0 .. Total(r)
  /\ budget \in 0 .. EncoderBudget /\ executed \in 0 .. Len(frames)

(***************************************************************************)
(* SlotsExact: the two counters say what the entries occupy: free slots    *)
(* are those no entry takes, and freeable ones also those of the entries   *)
(* nobody refers to, which are exactly the ones in freeable.               *)
(***************************************************************************)
SlotsExact ==
  /\ mgr.num_free_slots = mgr.cache_size - SumSizes(mgr.cached)
  /\ mgr.num_freeable_slots = mgr.num_free_slots + SumSizes(Range(mgr.freeable))
  /\ Range(mgr.freeable) = {h \in mgr.cached : mgr.refs[h] = {}}
  /\ IsInjective(mgr.freeable)

(***************************************************************************)
(* NoReferenceLeaks: only a running request keeps entries from being       *)
(* evicted: not one that waits, was preempted, aborted or has finished.    *)
(***************************************************************************)
NoReferenceLeaks ==
  phase = "idle" => \A h \in MMHashes : mgr.refs[h] \subseteq Range(running)

(***************************************************************************)
(* WorkerFitsCache: the worker never holds more outputs than the cache     *)
(* has slots for, although it evicts later than the scheduler.             *)
(***************************************************************************)
WorkerFitsCache == SumSizes(encoder_outputs) <= mgr.cache_size

(***************************************************************************)
(* EncoderOutputsPresent: "Encoder cache miss" is never raised: the worker *)
(* finds every output the scheduler took for cached.                       *)
(***************************************************************************)
EncoderOutputsPresent == misses = {}

\* RequestsFinish: the encoder cache never blocks a request for ever.
RequestsFinish == <>[](waiting = <<>> /\ running = <<>>)

(***************************************************************************)
(* CacheExact: counters, references and the list of freeable entries       *)
(* agree, and only running requests hold references between steps.         *)
(***************************************************************************)
CacheExact == TypeOK /\ SlotsExact /\ NoReferenceLeaks
=============================================================================
