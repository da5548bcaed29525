------------------------ MODULE OffloadingConnector ------------------------
(***************************************************************************)
(* Offloading of the KV cache to host memory: OffloadingConnectorScheduler *)
(* (distributed/kv_transfer/kv_connector/v1/offloading/scheduler.py) plans *)
(* transfer jobs, CPUOffloadingManager (v1/kv_offload/cpu/manager.py) owns *)
(* the host blocks, and every worker (offloading/worker.py, gpu_worker.py) *)
(* copies blocks on streams of their own while the model computes.  Blocks *)
(* are freed and given out again while jobs that read or write them are    *)
(* still under way; job numbers, reference counts and jobs_to_flush are    *)
(* all that keeps the copies right.                                        *)
(*                                                                         *)
(* One full-attention group and a block size of one token: position p of a *)
(* request is block p of its table, and its offload key is Keys[r][p].     *)
(* The scheduler chooses freely what it schedules; AsyncScheduler models   *)
(* how it chooses.                                                         *)
(***************************************************************************)
EXTENDS Integers, FiniteSets, Sequences, SequencesExt, FiniteSetsExt, Functions, TLC

CONSTANTS
  Requests,
  Keys,          \* Keys[r][p] : the hash of the first p tokens of r, its output included
  PromptLen,
  Configs        \* [requests, workers, gpu_blocks, cpu_blocks, batch_queue_size, aborts,
                 \*  stops, preemptions, resets]

VARIABLES
  config,        \* one of Configs, fixed
  status,        \* new, waiting, loading, running, finished, or aborted during a load
  num_tokens, num_computed_tokens,
  kv,            \* KVCacheManager: [table, free, block_hash]
  finished_recving,
  finished_req_ids,
  left,          \* aborts, stop tokens, preemptions and resets that may still happen
  step,          \* the step being planned, or None
  conn,          \* OffloadingConnectorScheduler
  frames,        \* the steps on their way, oldest first
  worker,        \* for each worker, its connector and streams
  gpu, cpu       \* gpu[w][b], cpu[w][b]: the key whose entries the block holds

requestVars == <<config, status, num_tokens, num_computed_tokens, finished_recving,
                 finished_req_ids, left>>
vars == <<requestVars, kv, step, conn, frames, worker, gpu, cpu>>

GPUBlocks == 1 .. config.gpu_blocks
CPUBlocks == 0 .. config.cpu_blocks - 1
AllKeys == UNION {Range(Keys[r]) : r \in Requests}
NoKey == "no key"
None == [none |-> TRUE]
AllWorkers == 1 .. Max({c.workers : c \in Configs})
Workers == 1 .. config.workers

Finished(r) == status[r] \in {"finished", "aborted"}
InState(s) == {r \in Requests : status[r] = s}
-----------------------------------------------------------------------------
(***************************************************************************)
(* CPUOffloadingManager with the LRU policy: blocks is the OrderedDict,    *)
(* least recently used first; ref_cnt -1 marks a block that is being       *)
(* stored, and loads count up from 0.                                      *)
(***************************************************************************)
Get(m, k) == SelectSeq(m.blocks, LAMBDA e : e.key = k)
Has(m, k) == Get(m, k) # << >>
Entry(m, k) == Get(m, k)[1]
IsReady(m, k) == Entry(m, k).ref_cnt >= 0

\* touch: the last key first, so that the head of the request is the most recent.
Touch(m, ks) ==
  [m EXCEPT !.blocks = SelectSeq(@, LAMBDA e : e.key \notin Range(ks))
     \o FlattenSeq([i \in DOMAIN ks |-> Get(m, ks[Len(ks) + 1 - i])])]

prepare_load(m, ks) ==
  [m EXCEPT !.blocks = [i \in DOMAIN @ |->
     IF @[i].key \in ks THEN [@[i] EXCEPT !.ref_cnt = @ + 1] ELSE @[i]]]

\* complete_load and complete_store of a set of jobs.
Complete(m, done) ==
  [m EXCEPT !.blocks = [i \in DOMAIN @ |-> [@[i] EXCEPT !.ref_cnt =
     IF @ < 0 THEN IF \E j \in done : m.blocks[i].key \in j.keys THEN 0 ELSE @
     ELSE @ - Cardinality({j \in done : ~ j.is_store /\ m.blocks[i].key \in j.keys})]]]

NumFree(m) == Len(m.free_list) + config.cpu_blocks - m.num_allocated

Evictable(m, protected) ==
  SelectSeq(m.blocks, LAMBDA e : e.ref_cnt = 0 /\ e.key \notin protected)

\* The entries that make room for n keys, or too few.
Evicted(m, n, protected) ==
  LET e == Evictable(m, protected)
  IN SubSeq(e, 1, Min({Max({0, n - NumFree(m)}), Len(e)}))

Storable(m, n, protected) == n - NumFree(m) <= Len(Evicted(m, n, protected))

Ids(entries) == [i \in DOMAIN entries |-> entries[i].id]

\* prepare_store for the keys ks that are not stored yet.
prepare_store(m, ks, protected) ==
  LET out == Evicted(m, Len(ks), protected)
      list == m.free_list \o Ids(out)
      fresh == Min({Len(ks), config.cpu_blocks - m.num_allocated})
      id(i) == IF i <= fresh THEN m.num_allocated + i - 1 ELSE list[Len(list) + 1 - (i - fresh)]
  IN [blocks |-> SelectSeq(m.blocks, LAMBDA e : e \notin Range(out))
                   \o [i \in DOMAIN ks |-> [key |-> ks[i], id |-> id(i), ref_cnt |-> -1]],
      free_list |-> SubSeq(list, 1, Len(list) - (Len(ks) - fresh)),
      num_allocated |-> m.num_allocated + fresh]

EmptyManager == [blocks |-> << >>, free_list |-> << >>, num_allocated |-> 0]
-----------------------------------------------------------------------------
(***************************************************************************)
(* OffloadingConnectorScheduler.  conn.jobs are the live jobs, as _jobs;   *)
(* the transfers of a job are pairs of a GPU block and a host block.       *)
(***************************************************************************)
EmptyConnector ==
  [manager |-> EmptyManager, tracked |-> {}, next_stored |-> [r \in Requests |-> 0],
   transfer_jobs |-> [r \in Requests |-> {}], jobs |-> << >>, job_counter |-> 0,
   pending |-> [b \in GPUBlocks |-> {}], being_loaded |-> {}]

WithJob(c, r, ks, store, blocks) ==
  LET job == [req |-> r, pending_count |-> config.workers, keys |-> ks, is_store |-> store,
              block_ids |-> blocks]
  IN [c EXCEPT !.jobs = (c.job_counter :> job) @@ @, !.job_counter = @ + 1,
               !.transfer_jobs[r] = @ \cup {c.job_counter}]

Transfer(c, m, ks, blocks) ==
  [job |-> c.job_counter, pairs |-> {<<blocks[i], Entry(m, ks[i]).id>> : i \in DOMAIN ks}]

KeysOf(r, from, to) == SubSeq(Keys[r], from + 1, to)

\* The keys behind the local hit that can be loaded, up to the first miss.
MaximalPrefix(m, r, computed) ==
  LET ks == KeysOf(r, computed, num_tokens[r])
      misses == {i \in DOMAIN ks : ~ Has(m, ks[i])}
  IN SubSeq(ks, 1, Min({Len(ks)} \cup {i - 1 : i \in misses}))

\* Mutant of Deferred: keys whose store is under way count as hits.
DeferredLoading(c, ks) == Range(ks) \cap c.being_loaded # {}

Deferred(c, ks) ==
  \/ \E i \in DOMAIN ks : ~ IsReady(c.manager, ks[i])
  \/ Range(ks) \cap c.being_loaded # {}

Touched(c, r) == [c EXCEPT !.manager = Touch(@, KeysOf(r, 0, num_tokens[r]))]

\* update_state_after_alloc for a hit of `cached` tokens, ks of them on the host.
update_state_after_alloc(c, r, ks, cached) ==
  WithJob([c EXCEPT !.manager = prepare_load(@, Range(ks)),
                    !.being_loaded = @ \cup Range(ks),
                    !.next_stored[r] = cached], r, Range(ks), FALSE, {})

\* One request of _build_store_jobs, scheduled up to `upto` tokens.
NewKeys(c, r, upto) == KeysOf(r, c.next_stored[r], Min({upto, num_tokens[r]}))
KeysToStore(c, r, upto) == SelectSeq(NewKeys(c, r, upto), LAMBDA k : ~ Has(c.manager, k))

StoreJob(acc, s) ==
  LET c == acc.conn
      upto == Min({s.upto, num_tokens[s.req]})
      ks == KeysToStore(c, s.req, s.upto)
      m == prepare_store(c.manager, ks, Range(NewKeys(c, s.req, s.upto)))
      blocks == [i \in DOMAIN ks |->
                   kv.table[s.req][CHOOSE p \in 1 .. upto : Keys[s.req][p] = ks[i]]]
      advanced == [c EXCEPT !.next_stored[s.req] = upto]
  IN IF ks = << >> THEN [acc EXCEPT !.conn = advanced]
     ELSE IF ~ Storable(c.manager, Len(ks), Range(NewKeys(c, s.req, s.upto))) THEN acc
     ELSE [conn |-> WithJob(Touched([advanced EXCEPT !.manager = m], s.req), s.req,
                            Range(ks), TRUE, Range(blocks)),
           stores |-> Append(acc.stores, Transfer(c, m, ks, blocks))]

\* FoldLeft over the steps, every intermediate value evaluated once.
BuildStoreJobs(c, steps) ==
  FoldLeft(LAMBDA acc, s : CHOOSE x \in {StoreJob(a, s) : a \in {acc}} : TRUE,
           [conn |-> c, stores |-> << >>], steps)

Reallocated(c, blocks) == UNION {c.pending[b] : b \in blocks}

AllFinished(c) == c.tracked # {} /\ \A r \in c.tracked : Finished(r)

JobsToFlush(c) ==
  UNION {c.transfer_jobs[r] : r \in step.preempted \cap c.tracked}
    \cup Reallocated(c, step.allocated)
    \cup (IF AllFinished(c) THEN DOMAIN c.jobs ELSE {})

\* Mutant of request_finished: the blocks of pending stores are not watched.
RequestFinishedUnwatched(c, rs) ==
  [c EXCEPT !.tracked = @ \ {r \in rs : c.transfer_jobs[r] = {}}]

\* Requests finish: their pending stores are watched by block from now on.
request_finished(c, rs) ==
  [c EXCEPT !.tracked = @ \ {r \in rs : c.transfer_jobs[r] = {}},
            !.pending = [b \in GPUBlocks |-> @[b] \cup
               {j \in DOMAIN c.jobs : c.jobs[j].req \in rs /\ b \in c.jobs[j].block_ids}]]

\* Workers report count[j] ends of job j; `over` are the requests that have finished.
update_connector_output(c, count, over) ==
  LET live == [j \in DOMAIN c.jobs |-> [c.jobs[j] EXCEPT !.pending_count = @ - count[j]]]
      done == {j \in DOMAIN live : live[j].pending_count = 0}
      jobs_of == [r \in Requests |-> c.transfer_jobs[r] \ done]
  IN [c EXCEPT
        !.manager = Complete(@, {live[j] : j \in done}),
        !.being_loaded = @ \ UNION {live[j].keys : j \in {i \in done : ~ live[i].is_store}},
        !.pending = [b \in GPUBlocks |-> @[b] \ {j \in done : live[j].req \in over}],
        !.jobs = Restrict(live, DOMAIN live \ done),
        !.transfer_jobs = jobs_of,
        !.tracked = @ \ {live[j].req : j \in {i \in done :
                           live[i].req \in over /\ jobs_of[live[i].req] = {}}}]

reset_cache(c) ==
  [c EXCEPT !.manager = EmptyManager, !.next_stored = [r \in Requests |-> 0],
            !.being_loaded = {}]
-----------------------------------------------------------------------------
(***************************************************************************)
(* The part of Scheduler and KVCacheManager that the connector sees.       *)
(***************************************************************************)
Held(t) == UNION {Range(t[r]) : r \in Requests}

free_blocks(k, r) ==
  LET t == [k.table EXCEPT ![r] = << >>]
  IN [k EXCEPT !.table = t,
               !.free = @ \o SelectSeq(Reverse(k.table[r]), LAMBDA b : b \notin Held(t))]

\* The blocks of the longest cached prefix, the last token left out.
FindHits(r) ==
  LET hit(p) == \E b \in GPUBlocks : kv.block_hash[b] = Keys[r][p]
      n == Max({i \in 0 .. num_tokens[r] - 1 : \A p \in 1 .. i : hit(p)})
  IN [p \in 1 .. n |-> CHOOSE b \in GPUBlocks : kv.block_hash[b] = Keys[r][p]]

\* The table grows to n blocks, behind the hits if it is empty.
NumNew(r, hits, n) == Max({0, n - Len(kv.table[r]) - Len(hits)})
Unused(hits) == SelectSeq(kv.free, LAMBDA b : b \notin Range(hits))
CanAllocate(r, hits, n) == NumNew(r, hits, n) <= Len(Unused(hits))

allocate_slots(r, hits, n) ==
  LET new == SubSeq(Unused(hits), 1, NumNew(r, hits, n))
  IN [table |-> [kv.table EXCEPT ![r] = @ \o hits \o new],
      free |-> SubSeq(Unused(hits), Len(new) + 1, Len(Unused(hits))),
      block_hash |-> [b \in GPUBlocks |->
                        IF b \in Range(new) THEN NoKey ELSE kv.block_hash[b]]]

\* Blocks 1 .. n of r get their hashes.
cache_blocks(k, r, n) ==
  [k EXCEPT !.block_hash = [b \in GPUBlocks |->
     IF \E p \in 1 .. n : k.table[r][p] = b
     THEN Keys[r][CHOOSE p \in 1 .. n : k.table[r][p] = b] ELSE @[b]]]

NoStep == [steps |-> << >>, preempted |-> {}, loads |-> << >>, allocated |-> {}]
-----------------------------------------------------------------------------
Idle == [pc |-> "idle", unsubmitted |-> << >>, stores |-> << >>, loads |-> << >>,
         done |-> {}, launched |-> << >>, posted |-> << >>, overtaken |-> {}]

Init ==
  /\ config \in Configs
  /\ status = [r \in Requests |-> "new"]
  /\ num_tokens = PromptLen
  /\ num_computed_tokens = [r \in Requests |-> 0]
  /\ kv = [table |-> [r \in Requests |-> << >>], free |-> [i \in GPUBlocks |-> i],
           block_hash |-> [b \in GPUBlocks |-> NoKey]]
  /\ finished_recving = {} /\ finished_req_ids = FALSE
  /\ left = [aborts |-> config.aborts, stops |-> config.stops,
             preemptions |-> config.preemptions, resets |-> config.resets]
  /\ step = None /\ conn = EmptyConnector
  /\ frames = << >> /\ worker = [w \in Workers |-> Idle]
  /\ gpu = [w \in Workers |-> [b \in GPUBlocks |-> NoKey]]
  /\ cpu = [w \in Workers |-> [b \in CPUBlocks |-> NoKey]]

add_request(r) ==
  /\ status[r] = "new" /\ r \in config.requests /\ step = None
  /\ status' = [status EXCEPT ![r] = "waiting"]
  /\ conn' = [conn EXCEPT !.tracked = @ \cup {r}]
  /\ UNCHANGED <<config, num_tokens, num_computed_tokens, finished_recving, finished_req_ids,
                 left, kv, step, frames, worker, gpu, cpu>>

Queued == InState("waiting") \cup InState("loading")

\* Mutant of has_requests: the requests that wait for a load are not counted.
HasRequestsReady == InState("waiting") \cup InState("running") # {} \/ finished_req_ids

\* has_requests: also while the blocks of an aborted load are kept.
has_requests ==
  Queued \cup InState("running") \cup InState("aborted") # {} \/ finished_req_ids

BeginStep ==
  /\ step = None /\ has_requests /\ Len(frames) < config.batch_queue_size
  /\ step' = NoStep
  /\ UNCHANGED <<requestVars, kv, conn, frames, worker, gpu, cpu>>

\* Tokens that the frames in flight will still bring.
Placeholders(r) ==
  Cardinality({i \in DOMAIN frames :
    \E s \in Range(frames[i].steps) : s.req = r /\ s.sampled})

Planned == {s.req : s \in Range(step.steps)}

NewTokens(r) == num_tokens[r] + Placeholders(r) - num_computed_tokens[r]

Schedulable(r) == num_computed_tokens[r] < Len(Keys[r]) - 1 /\ NewTokens(r) > 0

\* r computes n tokens: what it reads and writes, and whether it samples.
Step(r, k, n) ==
  LET upto == num_computed_tokens'[r]
  IN [req |-> r, upto |-> upto, sampled |-> upto >= num_tokens[r] + Placeholders(r),
      reads |-> {<<k.table[r][p], Keys[r][p]>> : p \in 1 .. upto - n},
      writes |-> {<<k.table[r][p], Keys[r][p]>> : p \in upto - n + 1 .. upto}]

\* The new blocks of r are those its table did not have.
Planning(r, k, n) ==
  /\ num_computed_tokens' = [num_computed_tokens EXCEPT ![r] = Len(k.table[r])]
  /\ kv' = cache_blocks(k, r, Min({Len(k.table[r]), num_tokens[r]}))
  /\ step' = [step EXCEPT !.steps = Append(@, Step(r, k, n)),
                          !.allocated = @ \cup (Range(k.table[r]) \ Range(kv.table[r]))]

ScheduleRunning(r) ==
  /\ step # None /\ status[r] = "running" /\ r \notin Planned /\ Schedulable(r)
  /\ \E n \in {1, NewTokens(r)} :
       /\ num_computed_tokens[r] + n < Len(Keys[r])
       /\ CanAllocate(r, << >>, num_computed_tokens[r] + n)
       /\ Planning(r, allocate_slots(r, << >>, num_computed_tokens[r] + n), n)
  /\ UNCHANGED <<config, status, num_tokens, finished_recving, finished_req_ids, left, conn,
                 frames, worker, gpu, cpu>>

\* A running request is short of blocks; r is preempted.
Preempt(r) ==
  /\ step # None /\ status[r] = "running" /\ r \notin Planned /\ left.preemptions > 0
  /\ \E q \in InState("running") \ Planned :
       Schedulable(q) /\ ~ CanAllocate(q, << >>, num_computed_tokens[q] + NewTokens(q))
  /\ kv' = free_blocks(kv, r)
  /\ status' = [status EXCEPT ![r] = "waiting"]
  /\ num_computed_tokens' = [num_computed_tokens EXCEPT ![r] = 0]
  /\ step' = [step EXCEPT !.preempted = @ \cup {r}]
  /\ left' = [left EXCEPT !.preemptions = @ - 1]
  /\ UNCHANGED <<config, num_tokens, finished_recving, finished_req_ids, conn, frames, worker,
                 gpu, cpu>>

\* A waiting request is looked at, unless the step preempts.
Considered(r) == step # None /\ step.preempted = {} /\ status[r] = "waiting"

LookedUp(r) == Considered(r) /\ num_computed_tokens[r] = 0

ExternalHit(r) == MaximalPrefix(conn.manager, r, Len(FindHits(r)))

\* The length up to which blocks are needed after the lookup.
Needed(r, hits, ks) == IF ks = << >> THEN num_tokens[r] ELSE Len(hits) + Len(ks)

\* The lookup returns None, or there are no blocks: r is skipped in this step, but touched.
Defer(r) ==
  /\ LookedUp(r)
  /\ \/ Deferred(conn, ExternalHit(r))
     \/ ~ CanAllocate(r, FindHits(r), Needed(r, FindHits(r), ExternalHit(r)))
  /\ conn' = Touched(conn, r)
  /\ UNCHANGED <<requestVars, kv, step, frames, worker, gpu, cpu>>

\* Blocks are allocated for the hit, and the request waits for its load.
StartLoad(r) ==
  LET hits == FindHits(r)
      ks == ExternalHit(r)
      k == allocate_slots(r, hits, Len(hits) + Len(ks))
      blocks == SubSeq(k.table[r], Len(hits) + 1, Len(hits) + Len(ks))
  IN
  /\ LookedUp(r) /\ ks # << >> /\ ~ Deferred(conn, ks)
  /\ CanAllocate(r, hits, Len(hits) + Len(ks))
  /\ kv' = k
  /\ status' = [status EXCEPT ![r] = "loading"]
  /\ num_computed_tokens' = [num_computed_tokens EXCEPT ![r] = Len(hits) + Len(ks)]
  /\ conn' = update_state_after_alloc(Touched(conn, r), r, ks, Len(k.table[r]))
  /\ step' = [step EXCEPT !.loads = Append(@, Transfer(conn, conn.manager, ks, blocks)),
                          !.allocated = @ \cup Range(k.table[r])]
  /\ UNCHANGED <<config, num_tokens, finished_recving, finished_req_ids, left, frames, worker,
                 gpu, cpu>>

\* Without a load: after a miss, or with the tokens of a finished load.
Admit(r) ==
  LET hits == IF num_computed_tokens[r] = 0 THEN FindHits(r) ELSE << >>
      computed == num_computed_tokens[r] + Len(hits)
  IN
  /\ Considered(r)
  /\ num_computed_tokens[r] = 0 => ExternalHit(r) = << >>
  /\ \E n \in {1, num_tokens[r] - computed} :
       /\ CanAllocate(r, hits, computed + n)
       /\ Planning(r, allocate_slots(r, hits, computed + n), n)
  /\ status' = [status EXCEPT ![r] = "running"]
  /\ conn' = IF num_computed_tokens[r] = 0 THEN Touched(conn, r) ELSE conn
  /\ UNCHANGED <<config, num_tokens, finished_recving, finished_req_ids, left, frames, worker,
                 gpu, cpu>>

\* _update_waiting_for_remote_kv: a full hit computes its last token again.
Promote(r) ==
  /\ step # None /\ step.preempted = {} /\ status[r] = "loading" /\ r \in finished_recving
  /\ kv' = cache_blocks(kv, r, num_computed_tokens[r])
  /\ num_computed_tokens' =
       [num_computed_tokens EXCEPT ![r] = Min({@, num_tokens[r] - 1})]
  /\ status' = [status EXCEPT ![r] = "waiting"]
  /\ finished_recving' = finished_recving \ {r}
  /\ UNCHANGED <<config, num_tokens, finished_req_ids, left, step, conn, frames, worker, gpu,
                 cpu>>

\* build_connector_meta ends the planning of the step.
Dispatch ==
  /\ step # None
  /\ \E acc \in {BuildStoreJobs(conn, step.steps)} :
       /\ conn' = acc.conn
       /\ frames' = Append(frames, [steps |-> step.steps, loads |-> step.loads,
                                    stores |-> acc.stores, flush |-> JobsToFlush(conn)])
  /\ step' = None /\ finished_req_ids' = FALSE
  /\ UNCHANGED <<config, status, num_tokens, num_computed_tokens, finished_recving, left, kv,
                 worker, gpu, cpu>>
-----------------------------------------------------------------------------
(***************************************************************************)
(* A worker: transfers of a direction run one after the other on a stream  *)
(* of their own; stores wait for the passes launched before them.          *)
(***************************************************************************)
Pending(w) == {t.job : t \in Range(worker[w].stores) \cup Range(worker[w].loads)}
FrameOf(w) == frames[Len(worker[w].posted) + 1]

\* handle_preemptions submits what the last step deferred ...
BeginFrame(w) ==
  /\ worker[w].pc = "idle" /\ Len(worker[w].posted) < Len(frames)
  /\ LET after == Len(worker[w].launched)
         deferred == worker[w].unsubmitted
     IN worker' = [worker EXCEPT
          ![w].pc = "flush", ![w].unsubmitted = << >>,
          ![w].stores = @ \o [i \in DOMAIN deferred |->
             [job |-> deferred[i].job, pairs |-> deferred[i].pairs, after |-> after]]]
  /\ UNCHANGED <<requestVars, kv, step, conn, frames, gpu, cpu>>

\* ... and waits for jobs_to_flush, before loads and the forward pass are launched.
RunFrame(w) ==
  /\ worker[w].pc = "flush" /\ FrameOf(w).flush \cap Pending(w) = {}
  /\ worker' = [worker EXCEPT
       ![w].pc = "post", ![w].loads = @ \o FrameOf(w).loads,
       ![w].launched = IF FrameOf(w).steps = << >> THEN @ ELSE Append(@, FrameOf(w).steps)]
  /\ UNCHANGED <<requestVars, kv, step, conn, frames, gpu, cpu>>

\* prepare_store_kv and get_finished.
PostFrame(w) ==
  /\ worker[w].pc = "post"
  /\ worker' = [worker EXCEPT
       ![w].pc = "idle", ![w].unsubmitted = @ \o FrameOf(w).stores,
       ![w].posted = Append(@, worker[w].done), ![w].done = {}]
  /\ UNCHANGED <<requestVars, kv, step, conn, frames, gpu, cpu>>

Holding(f, pairs) ==
  [b \in DOMAIN f |-> IF \E p \in pairs : p[1] = b
                      THEN (CHOOSE p \in pairs : p[1] = b)[2] ELSE f[b]]

Writes(pass) == UNION {s.writes : s \in Range(pass)}

\* The blocks of the pass that still belong to the request it computes for.
OwnBlocks(pass) ==
  UNION {{p[1] : p \in s.writes} \cap Range(kv.table[s.req]) : s \in Range(pass)}

\* The forward pass writes the entries of its tokens, into a freed block too.
Compute(w) ==
  /\ worker[w].launched # << >>
  /\ gpu' = [gpu EXCEPT ![w] = Holding(@, Writes(worker[w].launched[1]))]
  /\ worker' = [worker EXCEPT
       ![w].launched = Tail(@), ![w].overtaken = @ \ OwnBlocks(worker[w].launched[1]),
       ![w].stores = [i \in DOMAIN @ |-> [@[i] EXCEPT !.after = Max({0, @ - 1})]]]
  /\ UNCHANGED <<requestVars, kv, step, conn, frames, cpu>>

Store(w) ==
  /\ worker[w].stores # << >>
  /\ LET t == worker[w].stores[1]
     IN /\ t.after = 0
        /\ cpu' = [cpu EXCEPT ![w] = Holding(@, {<<p[2], gpu[w][p[1]]>> : p \in t.pairs})]
        /\ worker' = [worker EXCEPT ![w].stores = Tail(@), ![w].done = @ \cup {t.job}]
  /\ UNCHANGED <<requestVars, kv, step, conn, frames, gpu>>

\* The blocks of a load that a pass launched before it has yet to write.
Overtaking(w, t) ==
  {p[1] : p \in t.pairs}
    \cap {p[1] : p \in UNION {Writes(pass) : pass \in Range(worker[w].launched)}}

\* Loads wait for no pass: one that runs ahead of an older write is noted in overtaken.
Load(w) ==
  /\ worker[w].loads # << >>
  /\ LET t == worker[w].loads[1]
     IN /\ gpu' = [gpu EXCEPT ![w] = Holding(@, {<<p[1], cpu[w][p[2]]>> : p \in t.pairs})]
        /\ worker' = [worker EXCEPT
             ![w].loads = Tail(@), ![w].done = @ \cup {t.job},
             ![w].overtaken = (@ \ {p[1] : p \in t.pairs}) \cup Overtaking(w, t)]
  /\ UNCHANGED <<requestVars, kv, step, conn, frames, cpu>>
-----------------------------------------------------------------------------
\* The output of the oldest step is there: all workers have run it.
OutputReady ==
  /\ frames # << >>
  /\ \A w \in Workers : /\ worker[w].posted # << >>
                         /\ frames[1].steps \notin Range(worker[w].launched)

ReportCount == [j \in DOMAIN conn.jobs |->
  Cardinality({w \in Workers : j \in worker[w].posted[1]})]

\* Requests that sample in the oldest step get a token; some are complete then, by
\* their length or by a stop token, which finds later frames of the request in flight.
Continuing == {s.req : s \in {t \in Range(frames[1].steps) : t.sampled}}
                \cap (InState("running") \cup InState("waiting"))
Completing(stopped) == {r \in Continuing : num_tokens[r] + 1 = Len(Keys[r])} \cup stopped

\* The loads that all workers have reported now.
Received(before, after) ==
  {r \in InState("loading") \cup InState("aborted") :
     before.transfer_jobs[r] # {} /\ after.transfer_jobs[r] = {}}

FreeAll(k, rs) == FoldSet(LAMBDA r, acc : free_blocks(acc, r), k, rs)

UpdateFromOutput ==
  /\ OutputReady /\ step = None
  /\ \E stopped \in {S \in SUBSET Continuing : Cardinality(S) <= left.stops} :
     \E ended \in {Completing(stopped)} :
     \E c \in {request_finished(conn, ended)} :
     \E d \in {update_connector_output(c, ReportCount,
                                       ended \cup {r \in Requests : Finished(r)})} :
       /\ conn' = d
       /\ finished_recving' = finished_recving \cup (Received(c, d) \cap InState("loading"))
       /\ kv' = FreeAll(kv, ended \cup (Received(c, d) \cap InState("aborted")))
       /\ status' = [r \in Requests |->
            IF r \in ended \/ (status[r] = "aborted" /\ r \in Received(c, d))
            THEN "finished" ELSE status[r]]
       /\ finished_req_ids' = (finished_req_ids \/ ended # {})
       /\ left' = [left EXCEPT !.stops = @ - Cardinality(stopped)]
  /\ num_tokens' = [r \in Requests |-> num_tokens[r] + (IF r \in Continuing THEN 1 ELSE 0)]
  /\ frames' = Tail(frames)
  /\ worker' = [w \in Workers |-> [worker[w] EXCEPT !.posted = Tail(@)]]
  /\ UNCHANGED <<config, num_computed_tokens, step, gpu, cpu>>

\* finish_requests: the blocks of a load stay until it has ended.
Abort(r) ==
  /\ step = None /\ left.aborts > 0 /\ status[r] \in {"waiting", "loading", "running"}
  /\ conn' = request_finished(conn, {r})
  /\ IF status[r] = "loading" /\ r \notin finished_recving
     THEN /\ status' = [status EXCEPT ![r] = "aborted"]
          /\ UNCHANGED kv
     ELSE /\ status' = [status EXCEPT ![r] = "finished"]
          /\ kv' = free_blocks(kv, r)
  /\ finished_recving' = finished_recving \ {r}
  /\ finished_req_ids' = TRUE
  /\ left' = [left EXCEPT !.aborts = @ - 1]
  /\ UNCHANGED <<config, num_tokens, num_computed_tokens, step, frames, worker, gpu, cpu>>

\* reset_prefix_cache(reset_connector) between two steps, while no transfer is under way:
\* the prefix cache goes if no block is in use, the host's in any case.
ResetCache ==
  /\ step = None /\ left.resets > 0 /\ conn.jobs = << >>
  /\ kv' = IF Held(kv.table) = {} THEN [kv EXCEPT !.block_hash = [b \in GPUBlocks |-> NoKey]]
           ELSE kv
  /\ conn' = reset_cache(conn)
  /\ left' = [left EXCEPT !.resets = @ - 1]
  /\ UNCHANGED <<config, status, num_tokens, num_computed_tokens, finished_recving,
                 finished_req_ids, step, frames, worker, gpu, cpu>>

Engine ==
  \/ BeginStep \/ Dispatch \/ UpdateFromOutput \/ ResetCache
  \/ \E r \in Requests : \/ ScheduleRunning(r) \/ Preempt(r) \/ Defer(r) \/ StartLoad(r)
                         \/ Admit(r) \/ Promote(r) \/ add_request(r) \/ Abort(r)

Next ==
  \/ Engine
  \/ \E w \in Workers : \/ BeginFrame(w) \/ RunFrame(w) \/ PostFrame(w)
                        \/ Compute(w) \/ Store(w) \/ Load(w)

Fairness ==
  /\ WF_vars(BeginStep \/ Dispatch \/ UpdateFromOutput)
  /\ \A w \in AllWorkers : WF_vars(w \in Workers /\ (BeginFrame(w) \/ RunFrame(w) \/ PostFrame(w)))
                    /\ WF_vars(w \in Workers /\ Compute(w)) /\ WF_vars(w \in Workers /\ Store(w))
                    /\ WF_vars(w \in Workers /\ Load(w))

Spec == Init /\ [][Next]_vars /\ Fairness
-----------------------------------------------------------------------------
\* TypeOK: every variable has the shape the code gives it.
TypeOK ==
  /\ status \in [Requests -> {"new", "waiting", "loading", "running", "finished", "aborted"}]
  /\ \A r \in Requests : num_tokens[r] \in PromptLen[r] .. Len(Keys[r])
  /\ \A e \in Range(conn.manager.blocks) : e.key \in AllKeys /\ e.ref_cnt >= -1
  /\ Len(frames) <= config.batch_queue_size

(***************************************************************************)
(* PrefixReadable: when a forward pass runs, the entries of all tokens in  *)
(* front of it are in the blocks of the request's table, loaded ones       *)
(* included.  Blocks in `overtaken` are left out: loads are not ordered    *)
(* behind the passes launched before them (gpu_worker.py:385), so that a   *)
(* pass of a request that has been aborted, stopped or preempted may land  *)
(* in its freed block after another request's prefix was loaded there.     *)
(***************************************************************************)
PrefixReadable ==
  [][\A w \in Workers : Compute(w) =>
       \A s \in Range(worker[w].launched[1]) : \A p \in s.reads :
         p[1] \in worker[w].overtaken \/ gpu'[w][p[1]] = p[2]]_vars

Loads(k) == {j \in DOMAIN conn.jobs : ~ conn.jobs[j].is_store /\ k \in conn.jobs[j].keys}
Storing(k) == {j \in DOMAIN conn.jobs : conn.jobs[j].is_store /\ k \in conn.jobs[j].keys}

(***************************************************************************)
(* OffloadedDataExact: a host block that a lookup can return holds, on     *)
(* every worker, the entries of its key, although the GPU block it was     *)
(* copied from may have been freed and given out before the copy.          *)
(***************************************************************************)
OffloadedDataExact ==
  \A e \in Range(conn.manager.blocks) : e.ref_cnt >= 0 =>
    \A w \in Workers : cpu[w][e.id] = e.key

(***************************************************************************)
(* OffloadExact: host blocks hold what they are listed for; the reference  *)
(* count of a host block is the number of loads that read it, or -1 for    *)
(* the one job that stores it; host blocks are used once; a request has    *)
(* one load or some stores, so that the assertions on transfer_jobs hold;  *)
(* and when the engine has nothing left to do ("there might not be a       *)
(* future scheduler step") no job is left.                                 *)
(***************************************************************************)
OffloadExact ==
  /\ TypeOK
  /\ OffloadedDataExact
  /\ \A e \in Range(conn.manager.blocks) :
       IF Storing(e.key) # {} THEN e.ref_cnt = -1 /\ Cardinality(Storing(e.key)) = 1
       ELSE e.ref_cnt = Cardinality(Loads(e.key))
  /\ IsInjective(Ids(conn.manager.blocks) \o conn.manager.free_list)
  /\ \A r \in Requests :
       /\ conn.transfer_jobs[r] = {j \in DOMAIN conn.jobs : conn.jobs[j].req = r}
       /\ (\E j \in conn.transfer_jobs[r] : ~ conn.jobs[j].is_store) =>
             Cardinality(conn.transfer_jobs[r]) = 1
       /\ LookedUp(r) /\ ~ Deferred(conn, ExternalHit(r)) /\ ExternalHit(r) # << >> =>
             conn.transfer_jobs[r] = {}
  /\ ~ has_requests /\ frames = << >> => conn.jobs = << >> /\ conn.tracked = {}

\* LoadsEnd: no request is left waiting for a load, and none is loaded again for ever; an
\* aborted one is freed when its load has ended.
LoadsEnd ==
  <>[](\A r \in Requests : status[r] \in {"loading", "aborted"} => r \in finished_recving)
=============================================================================
