--------------------------- MODULE SlidingWindow ---------------------------
(***************************************************************************)
(* The blocks of a sliding-window layer group: SlidingWindowManager        *)
(* (v1/core/single_type_kv_cache_manager.py) called by                     *)
(* KVCacheManager.allocate_slots for the batches the scheduler builds.     *)
(* Blocks that fall behind the window are given back while the request     *)
(* runs.  The scheduler counts the tokens of a step as computed when it    *)
(* schedules the step; the worker's own count follows when drafts are      *)
(* accepted or rejected, and its block table is never shortened.           *)
(* Requests share no prefix here; sharing is the subject of module         *)
(* KVCacheManager, the search for hits that of HybridCacheHit.             *)
(***************************************************************************)
EXTENDS Integers, Sequences, FiniteSets, SequencesExt, Functions

CONSTANTS
  Requests,
  NumBlocks, BlockSize,
  SlidingWindowSize,    \* sliding_window: a token attends to itself and to the
                        \* SlidingWindowSize - 1 tokens before it
  MaxBatched,           \* max_num_batched_tokens
  PromptLen, MaxModelLen,
  Configs               \* the configurations: [spec, lookahead, depth]

ASSUME WindowAssumption ==
  /\ NumBlocks \in Nat /\ BlockSize \in Nat \ {0} /\ SlidingWindowSize \in Nat \ {0}
  /\ MaxBatched \in Nat \ {0} /\ PromptLen \in Nat \ {0} /\ MaxModelLen \in Nat
  /\ Configs \subseteq [spec : Nat, lookahead : Nat, depth : Nat \ {0}]

Blocks == 1 .. NumBlocks
null_block == 0

VARIABLES
  config,               \* the configuration, fixed at start-up
  status,               \* [Requests -> {"waiting", "running", "finished"}]
  num_computed,         \* [Requests -> Nat]: num_computed_tokens of the scheduler
  num_tokens,           \* [Requests -> Nat]: prompt and delivered output
  table,                \* [Requests -> Seq(Blocks \cup {null_block})]: req_to_blocks
  free,                 \* free_block_queue
  hashed,               \* blocks that have a block_hash
  batch,                \* [Requests -> Nat]: tokens of the step being scheduled
  frames,               \* steps dispatched: [tokens, computed]
  rejected,             \* outcome of the first frame, or << >> until it has run
  worker_computed,      \* [Requests -> Nat]: num_computed_tokens of the worker
  worker_table,         \* [Requests -> Seq(Blocks)]: block table of the worker
  kv                    \* [Blocks -> [offset -> <<request, position>>]]

schedulerVars == <<status, num_computed, num_tokens, table, free, hashed>>
workerVars    == <<worker_computed, worker_table, kv>>
vars == <<config, schedulerVars, batch, frames, rejected, workerVars>>

NumSpec        == config.spec        \* draft tokens of a decode step
NumLookahead   == config.lookahead   \* num_lookahead_tokens
BatchQueueSize == config.depth       \* 2 with asynchronous scheduling, 1 without

cdiv(a, b) == (a + b - 1) \div b

NoTokens == [r \in Requests |-> 0]
Empty    == [o \in 0 .. BlockSize - 1 |-> << >>]

Init ==
  /\ config \in Configs
  /\ status = [r \in Requests |-> "waiting"]
  /\ num_computed = NoTokens
  /\ num_tokens = [r \in Requests |-> PromptLen]
  /\ table = [r \in Requests |-> << >>]
  /\ free = [i \in Blocks |-> i]
  /\ hashed = {}
  /\ batch = NoTokens /\ frames = << >> /\ rejected = << >>
  /\ worker_computed = NoTokens
  /\ worker_table = [r \in Requests |-> << >>]
  /\ kv = [b \in Blocks |-> Empty]
-----------------------------------------------------------------------------
(* SlidingWindowManager.                                                   *)

get_num_skipped_tokens(computed) == Max({0, computed - SlidingWindowSize + 1})

\* Free the blocks of a list: cached ones behind all others, scratch in front.
FreeBlocks(queue, blocks) ==
  SelectSeq(blocks, LAMBDA b : b \notin hashed) \o queue
    \o SelectSeq(blocks, LAMBDA b : b \in hashed)

Held(blocks) == SelectSeq(blocks, LAMBDA b : b # null_block)

\* Mutant of NumSkipped: a block that is skipped in part is freed.
NumSkippedRoundedUp(r) ==
  Min({cdiv(get_num_skipped_tokens(num_computed[r]), BlockSize), Len(table[r])})

\* How many leading blocks remove_skipped_blocks leaves behind the window.
NumSkipped(r) ==
  Min({get_num_skipped_tokens(num_computed[r]) \div BlockSize, Len(table[r])})

\* The first of them that is visited: the scan goes down and stops at a null block.
FirstRemoved(r) ==
  LET nulls == {i \in 1 .. NumSkipped(r) : table[r][i] = null_block}
  IN Max(nulls \cup {0}) + 1

\* Mutant of SkippedTable: the blocks are freed and stay in the table.
SkippedTableKept(r) == table[r]

SkippedTable(r) ==
  [i \in DOMAIN table[r] |->
     IF i \in FirstRemoved(r) .. NumSkipped(r) THEN null_block ELSE table[r][i]]

SkippedFree(r) ==
  FreeBlocks(free, Reverse(SubSeq(table[r], FirstRemoved(r), NumSkipped(r))))

\* max_admission_blocks_per_request of SlidingWindowSpec.
AdmissionCap == cdiv(Min({SlidingWindowSize - 1 + MaxBatched, MaxModelLen}), BlockSize) + 1

FullSequenceFits(r) ==
  Min({cdiv(num_tokens[r], BlockSize), AdmissionCap}) <= Len(free)
-----------------------------------------------------------------------------
(* Scheduler.schedule and KVCacheManager.allocate_slots, one request at a  *)
(* time into the batch of the step.                                        *)

Decoding(r) == num_computed[r] >= PromptLen

num_new_tokens(r) ==
  Min({IF Decoding(r) THEN 1 + NumSpec ELSE PromptLen - num_computed[r],
       MaxBatched - SumFunction(batch), MaxModelLen - num_computed[r] - 1})

Schedulable(r) ==
  /\ Len(frames) < BatchQueueSize
  /\ batch[r] = 0 /\ num_new_tokens(r) > 0
  /\ \/ status[r] = "running"
     \/ status[r] = "waiting" /\ FullSequenceFits(r)

NeedSlot(r) == Min({num_computed[r] + num_new_tokens(r) + NumLookahead, MaxModelLen})

NumNewBlocks(r) == Max({0, cdiv(NeedSlot(r), BlockSize) - Len(table[r])})

\* cache_blocks for the first n tokens: full blocks only.
CacheBlocks(blocks, n) ==
  {blocks[i] : i \in {j \in DOMAIN blocks : j <= n \div BlockSize}} \ {null_block}

\* allocate_slots caches "finalized" tokens only.
Committed(r, blocks) ==
  CacheBlocks(blocks, Min({num_computed[r] + num_new_tokens(r), num_tokens[r]}))

Schedule(r) ==
  LET new    == SubSeq(SkippedFree(r), 1, NumNewBlocks(r))
      blocks == SkippedTable(r) \o new
  IN /\ Schedulable(r)
     /\ NumNewBlocks(r) <= Len(SkippedFree(r))
     /\ status' = [status EXCEPT ![r] = "running"]
     /\ table' = [table EXCEPT ![r] = blocks]
     /\ free' = SubSeq(SkippedFree(r), NumNewBlocks(r) + 1, Len(SkippedFree(r)))
     /\ hashed' = (hashed \ ToSet(new)) \cup Committed(r, blocks)
     /\ worker_table' = [worker_table EXCEPT ![r] = @ \o new]
     /\ batch' = [batch EXCEPT ![r] = num_new_tokens(r)]
     /\ UNCHANGED <<config, num_computed, num_tokens, frames, rejected, worker_computed, kv>>

\* allocate_slots returns None: the window has been moved all the same.
AllocateFails(r) ==
  /\ Schedulable(r)
  /\ NumNewBlocks(r) > Len(SkippedFree(r))
  /\ table' = [table EXCEPT ![r] = SkippedTable(r)]
  /\ free' = SkippedFree(r)
  /\ UNCHANGED <<config, status, num_computed, num_tokens, hashed, batch, frames, rejected,
                 workerVars>>

\* _update_after_schedule counts the tokens of the step as computed.
Dispatch ==
  /\ batch # NoTokens
  /\ frames' = Append(frames, batch)
  /\ num_computed' = [r \in Requests |-> num_computed[r] + batch[r]]
  /\ batch' = NoTokens
  /\ UNCHANGED <<config, status, num_tokens, table, free, hashed, rejected, workerVars>>

\* Finished, aborted or preempted between two steps.
Free(r) ==
  /\ batch = NoTokens /\ status[r] = "running"
  /\ status' = [status EXCEPT ![r] = "finished"]
  /\ table' = [table EXCEPT ![r] = << >>]
  /\ free' = FreeBlocks(free, Reverse(Held(table[r])))
  /\ UNCHANGED <<config, num_computed, num_tokens, hashed, batch, frames, rejected, workerVars>>
-----------------------------------------------------------------------------
(* The worker runs the first frame: all requests of the batch write their  *)
(* entries, attend, and some of their drafts are rejected.                 *)

Scheduled(frame) == {r \in Requests : frame[r] > 0}

NumDrafts(r, n) == IF worker_computed[r] >= PromptLen THEN n - 1 ELSE 0

Slot(r, p) == <<worker_table[r][p \div BlockSize + 1], p % BlockSize>>

Positions(r, n) == worker_computed[r] .. worker_computed[r] + n - 1

Written(frame) ==
  UNION {{<<r, p>> : p \in Positions(r, frame[r])} : r \in Scheduled(frame)}

Execute ==
  /\ frames # << >> /\ rejected = << >>
  /\ LET frame == frames[1] IN
     /\ kv' = [b \in Blocks |-> [o \in 0 .. BlockSize - 1 |->
          LET w == {x \in Written(frame) : Slot(x[1], x[2]) = <<b, o>>}
          IN IF w = {} THEN kv[b][o] ELSE CHOOSE x \in w : TRUE]]
     /\ \E n \in [Requests -> 0 .. NumSpec] :
          /\ \A r \in Requests : n[r] <= (IF frame[r] = 0 THEN 0 ELSE NumDrafts(r, frame[r]))
          /\ rejected' = <<n>>
          /\ worker_computed' = [r \in Requests |-> worker_computed[r] + frame[r] - n[r]]
  /\ UNCHANGED <<config, schedulerVars, batch, frames, worker_table>>

\* Scheduler.update_from_output: num_computed_tokens and the outputs follow, and the
\* AsyncScheduler caches the tokens that are no placeholders.
update_from_output ==
  /\ rejected # << >> /\ batch = NoTokens
  /\ LET frame == frames[1]
         n     == rejected[1]
         Runs(r) == status[r] = "running" /\ frame[r] > 0
         Sampled(r) == IF worker_computed[r] < PromptLen THEN 0
                       ELSE IF worker_computed[r] = PromptLen THEN 1
                       ELSE frame[r] - n[r]
     IN /\ num_computed' = [r \in Requests |->
             IF Runs(r) THEN num_computed[r] - n[r] ELSE num_computed[r]]
        /\ num_tokens' = [r \in Requests |->
             IF Runs(r) THEN num_tokens[r] + Sampled(r) ELSE num_tokens[r]]
        /\ hashed' = hashed \cup UNION {CacheBlocks(table[r], worker_computed[r]) :
             r \in {q \in Requests : BatchQueueSize > 1 /\ Runs(q) /\ Sampled(q) > 0}}
  /\ frames' = Tail(frames) /\ rejected' = << >>
  /\ UNCHANGED <<config, status, table, free, batch, workerVars>>

Next ==
  \/ \E r \in Requests : Schedule(r) \/ AllocateFails(r) \/ Free(r)
  \/ Dispatch \/ Execute \/ update_from_output

Spec == Init /\ [][Next]_vars
-----------------------------------------------------------------------------
TypeOK ==
  /\ status \in [Requests -> {"waiting", "running", "finished"}]
  /\ num_computed \in [Requests -> 0 .. MaxModelLen]
  /\ num_tokens \in [Requests -> PromptLen .. MaxModelLen]
  /\ table \in [Requests -> Seq(Blocks \cup {null_block})]
  /\ free \in Seq(Blocks) /\ hashed \subseteq Blocks
  /\ batch \in [Requests -> 0 .. MaxBatched]
  /\ frames \in Seq([Requests -> 0 .. MaxBatched]) /\ Len(frames) <= BatchQueueSize
  /\ worker_computed \in [Requests -> 0 .. MaxModelLen]
  /\ worker_table \in [Requests -> Seq(Blocks)]

\* The window of every token of the step holds what was written for it.
ReadsItsWindow(r) ==
  \A q \in Positions(r, frames[1][r]) : \A p \in Max({0, q - SlidingWindowSize + 1}) .. q :
    kv'[Slot(r, p)[1]][Slot(r, p)[2]] = <<r, p>>

(***************************************************************************)
(* WindowReadable: remove_skipped_blocks frees "the blocks that are no     *)
(* longer needed for attention computation": whenever a step runs, every   *)
(* entry inside the window of every token it computes is the entry that    *)
(* was written for that position of that request.                          *)
(***************************************************************************)
WindowReadable == [][Execute => \A r \in Scheduled(frames[1]) : ReadsItsWindow(r)]_vars

(***************************************************************************)
(* ExactWindowReadable: the same where num_computed_tokens is not an       *)
(* optimistic guess when the window moves: no drafts, or one step at a     *)
(* time.                                                                   *)
(***************************************************************************)
ExactWindowReadable ==
  [][Execute /\ (NumSpec = 0 \/ BatchQueueSize = 1)
       => \A r \in Scheduled(frames[1]) : ReadsItsWindow(r)]_vars

(***************************************************************************)
(* BlocksHeldOnce: no block is lost or given out twice while windows move, *)
(* requests end and allocations fail after their window has moved.         *)
(***************************************************************************)
BlocksHeldOnce ==
  LET held == UNION {ToSet(Held(table[r])) : r \in Requests}
  IN /\ ToSet(free) = Blocks \ held
     /\ Len(free) = Cardinality(ToSet(free))
     /\ \A r, s \in Requests :
          \A i \in DOMAIN table[r], j \in DOMAIN table[s] :
            table[r][i] = table[s][j] /\ table[r][i] # null_block => r = s /\ i = j

(***************************************************************************)
(* NullsAreAPrefix: the scan of remove_skipped_blocks stops at the first   *)
(* null block it meets: "the blocks before it should also have been set to *)
(* null blocks by the previous calls".                                     *)
(***************************************************************************)
NullsAreAPrefix ==
  \A r \in Requests : \A i \in DOMAIN table[r] :
    table[r][i] = null_block => \A j \in 1 .. i : table[r][j] = null_block

\* The blocks that the window, a whole batch and the lookahead behind it can span.
PeakBlocks ==
  cdiv(Min({SlidingWindowSize - 1 + MaxBatched + NumLookahead, MaxModelLen}) - 1, BlockSize) + 1

(***************************************************************************)
(* HeldWithinCap: requests are admitted and the pool is sized by a cap on  *)
(* what a request holds at its peak.  The cap of the code leaves out the   *)
(* lookahead slots; its rounding hides one of them.                        *)
(***************************************************************************)
HeldWithinCap ==
  \A r \in Requests :
    /\ Len(Held(table[r])) <= PeakBlocks
    /\ NumLookahead <= 1 => Len(Held(table[r])) <= AdmissionCap

(***************************************************************************)
(* TablesExact: block tables, free queue and the cap that admission counts *)
(* with agree while windows move and steps are in flight.                  *)
(***************************************************************************)
TablesExact == TypeOK /\ BlocksHeldOnce /\ NullsAreAPrefix /\ HeldWithinCap
=============================================================================
