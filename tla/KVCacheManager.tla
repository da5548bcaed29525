--------------------------- MODULE KVCacheManager ---------------------------
(***************************************************************************)
(* The prefix-caching KV-cache manager: BlockPool (v1/core/block_pool.py), *)
(* KVCacheManager (v1/core/kv_cache_manager.py) and FullAttentionManager   *)
(* (v1/core/single_type_kv_cache_manager.py), driven by requests that are  *)
(* admitted, scheduled step by step with draft tokens, preempted and       *)
(* finished in any order the scheduler may choose.                         *)
(*                                                                         *)
(* A block hash is a chain hash over all tokens up to the end of the       *)
(* block, so it is modelled as that token prefix itself (no collisions).   *)
(* The ghost variable kv records what the GPU wrote into every slot.       *)
(***************************************************************************)
EXTENDS Integers, Sequences, SequencesExt, FiniteSets, FiniteSetsExt, SeqFilter

CONSTANTS
  NumBlocks,            \* num_gpu_blocks; block 0 becomes the null block
  BlockSize,            \* tokens per block
  Requests,             \* request ids
  Token,                \* token values
  Prompt,               \* [Requests -> Seq(Token)], none of them empty
  MaxDrafts,            \* bound: most draft tokens scheduled in a step
  Lookahead,            \* num_lookahead_tokens of the scheduler
  Configs               \* the configuration, a choice of Init: records with
                        \*   max_len    max_model_len
                        \*   watermark  watermark_blocks
                        \*   full       scheduler_reserve_full_isl
                        \*   eagle      the group drops the last matched block
                        \*   async      AsyncScheduler: outputs are cached as they arrive
                        \*   max_epoch  bound: number of weight updates

ASSUME KVAssumption ==
  /\ NumBlocks \in Nat \ {0} /\ BlockSize \in Nat \ {0}
  /\ MaxDrafts \in Nat /\ Lookahead \in Nat /\ IsFiniteSet(Requests)
  /\ Configs \subseteq [max_len : Nat, watermark : Nat, full : BOOLEAN, eagle : BOOLEAN,
                         async : BOOLEAN, max_epoch : Nat]
  /\ Prompt \in [Requests -> Seq(Token)]
  /\ \A r \in Requests, c \in Configs : Len(Prompt[r]) \in 1 .. c.max_len - 1

NullBlock == 0
Blocks    == 0 .. NumBlocks - 1
NoHash    == << >>
Garbage   == [epoch |-> 0, prefix |-> << >>]   \* a slot never written

VARIABLES
  config,               \* the configuration of this behaviour
  pool,                 \* the BlockPool
  req_to_blocks,        \* block table of every request
  num_cached_block,     \* blocks of its table already offered to the cache
  tokens,               \* all known tokens of a request
  num_computed_tokens,
  status,               \* "waiting", "running"
  step,                 \* the request's share of the batch being executed
  kv,                   \* ghost: what each slot of each block holds
  epoch                 \* ghost: version of the model weights

vars == <<config, pool, req_to_blocks, num_cached_block, tokens, num_computed_tokens,
          status, step, kv, epoch>>

MaxLen == config.max_len

Idle == [new |-> 0, drafts |-> << >>]

cdiv(a, b) == (a + b - 1) \div b

Prefix(s, n) == SubSeq(s, 1, n)
-----------------------------------------------------------------------------
(* BlockPool: every operator maps a pool to the pool after the call.       *)

\* BlockPool.__init__: the first block is popped to be the null block.
NewPool ==
  [ref_cnt |-> [b \in Blocks |-> 0],
   block_hash |-> [b \in Blocks |-> NoHash],
   free |-> [i \in 1 .. NumBlocks - 1 |-> i],
   cached |-> << >>]        \* <<hash, block>> in insertion order

get_cached_block(p, h) ==
  LET hits == {i \in DOMAIN p.cached : p.cached[i][1] = h}
  IN  IF hits = {} THEN NullBlock ELSE p.cached[Min(hits)][2]

\* _maybe_evict_cached_block for every block of bs.
Evict(p, bs) ==
  LET gone == {b \in bs : \E i \in DOMAIN p.cached : p.cached[i] = <<p.block_hash[b], b>>}
  IN  [p EXCEPT
        !.block_hash = [b \in Blocks |-> IF b \in gone THEN NoHash ELSE @[b]],
        !.cached = Keep(@, ToSet(@) \ {<<p.block_hash[b], b>> : b \in gone})]

\* It raises ValueError when fewer than n blocks are free (NeverOutOfBlocks).
get_new_blocks(p, n) ==
  LET ret == ToSet(Prefix(p.free, n))
      q   == Evict(p, ret)
  IN  [q EXCEPT
        !.free = SubSeq(@, n + 1, Len(@)),
        !.ref_cnt = [b \in Blocks |-> IF b \in ret THEN @[b] + 1 ELSE @[b]]]

\* Mutant of touch: a hit stays in the free queue.
TouchQueued(p, bs) ==
  [p EXCEPT !.ref_cnt = [b \in Blocks |-> IF b \in ToSet(bs) THEN @[b] + 1 ELSE @[b]]]

\* touch; the blocks of a hit are distinct.
touch(p, bs) ==
  [p EXCEPT
    !.free = Keep(@, ToSet(@) \ {b \in ToSet(bs) : p.ref_cnt[b] = 0}),
    !.ref_cnt = [b \in Blocks |-> IF b \in ToSet(bs) THEN @[b] + 1 ELSE @[b]]]

\* free_blocks, in the given eviction order; the null block is never queued.
free_blocks(p, bs) ==
  LET cnt == [b \in Blocks |-> p.ref_cnt[b] - Cardinality({i \in DOMAIN bs : bs[i] = b})]
  IN  [p EXCEPT
        !.ref_cnt = cnt,
        !.free = @ \o Keep(bs, {b \in Blocks \ {NullBlock} : cnt[b] = 0})]

\* cache_full_blocks for the blocks from..to of a table over the tokens toks.
cache_full_blocks(p, table, toks, from, to) ==
  LET new == [i \in 1 .. to - from |->
                <<Prefix(toks, (from + i) * BlockSize), table[from + i]>>]
  IN  IF from >= to THEN p
      ELSE [p EXCEPT
             !.block_hash = [b \in Blocks |->
                IF \E e \in ToSet(new) : e[2] = b
                THEN (CHOOSE e \in ToSet(new) : e[2] = b)[1] ELSE @[b]],
             !.cached = @ \o new]

\* Mutant of pool_reset_prefix_cache: the hash map is not replaced.
ResetHashesOnly(p) == [p EXCEPT !.block_hash = [b \in Blocks |-> NoHash]]

pool_reset_prefix_cache(p) ==
  [p EXCEPT !.block_hash = [b \in Blocks |-> NoHash], !.cached = << >>]
-----------------------------------------------------------------------------
(* FullAttentionManager and KVCacheManager.                                *)

\* The blocks of the longest cached prefix of toks with at most maxLength tokens.
find_longest_cache_hit(p, toks, maxLength) ==
  LET hit(i) == get_cached_block(p, Prefix(toks, i * BlockSize))
      all == maxLength \div BlockSize
      n   == Max({k \in 0 .. all : \A i \in 1 .. k : hit(i) # NullBlock})
      m   == IF config.eagle /\ n > 0 THEN n - 1 ELSE n
  IN  [i \in 1 .. m |-> hit(i)]

get_computed_blocks(r) ==
  find_longest_cache_hit(pool, tokens[r], Len(tokens[r]) - 1)

\* Mutant of get_num_blocks_to_allocate: hits in the free queue are not counted.
NewBlocksOnly(r, numTokens, hits) ==
  Max({cdiv(numTokens, BlockSize) - Len(req_to_blocks[r]) - Len(hits), 0})

get_num_blocks_to_allocate(r, numTokens, hits) ==
  LET new == cdiv(numTokens, BlockSize) - Len(req_to_blocks[r]) - Len(hits)
  IN  Max({new, 0}) + Cardinality({i \in DOMAIN hits : pool.ref_cnt[hits[i]] = 0})

\* The tokens that get a slot.
NeedSlot(computed, new) ==
  IF computed + new + Lookahead < MaxLen THEN computed + new + Lookahead ELSE MaxLen

\* Whether allocate_slots finds enough free blocks.
CanAllocate(r, computed, new, hits, hasScheduled) ==
  LET spare == IF hasScheduled /\ status[r] = "waiting" THEN config.watermark ELSE 0
      fits(n) == get_num_blocks_to_allocate(r, n, hits) + spare <= Len(pool.free)
  IN  /\ config.full /\ status[r] = "waiting" => fits(Len(tokens[r]))
      /\ fits(NeedSlot(computed, new))

\* The full blocks of tokens that are known and will be computed.
FullBlocks(r, computed, new) == Min({computed + new, Len(tokens[r])}) \div BlockSize

\* The blocks allocate_new_blocks takes behind the table and the hits.
NumNewBlocks(r, computed, new, hits) ==
  Max({cdiv(NeedSlot(computed, new), BlockSize) - Len(req_to_blocks[r]) - Len(hits), 0})

\* allocate_new_blocks: the table with the next n free blocks appended.
WithNewBlocks(table, p, n) == table \o Prefix(p.free, n)

\* cache_blocks: offer the blocks of r behind the first `start` ones up to the
\* `full`-th to the cache of pool p.
cache_blocks(r, p, toks, start, full) ==
  /\ pool' = cache_full_blocks(p, req_to_blocks'[r], toks, start, full)
  /\ num_cached_block' = [num_cached_block EXCEPT ![r] = Max({start, full})]

(***************************************************************************)
(* allocate_slots once enough blocks are free: take the hits, take new     *)
(* blocks for the tokens to compute and the lookahead, and offer the full  *)
(* blocks of known tokens to the cache.                                    *)
(***************************************************************************)
AllocateSlots(r, computed, new, hits) ==
  LET touched == touch(pool, hits)
      more    == NumNewBlocks(r, computed, new, hits)
      table   == WithNewBlocks(req_to_blocks[r] \o hits, touched, more)
  IN  /\ req_to_blocks' = [req_to_blocks EXCEPT ![r] = table]
      /\ cache_blocks(r, get_new_blocks(touched, more), tokens[r],
                      num_cached_block[r] + Len(hits), FullBlocks(r, computed, new))

(***************************************************************************)
(* The GPU computes positions computed+1 .. computed+new of request r over *)
(* its known tokens and the drafts behind them, writing each position's    *)
(* entry into its slot of the block table.  Whatever else a block held     *)
(* before it was allocated counts as garbage.                              *)
(***************************************************************************)
Blank == [i \in 1 .. BlockSize |-> Garbage]

WriteKV(r, hits, computed, new, drafts) ==
  LET toks  == tokens[r] \o drafts
      table == req_to_blocks'[r]
      fresh == ToSet(table) \ (ToSet(req_to_blocks[r]) \cup ToSet(hits))
      into(b, i) == {q \in computed + 1 .. computed + new :
                       table[cdiv(q, BlockSize)] = b /\ (q - 1) % BlockSize = i - 1}
  IN  kv' = [b \in Blocks |-> [i \in 1 .. BlockSize |->
        IF into(b, i) = {} THEN IF b \in fresh THEN Garbage ELSE kv[b][i]
        ELSE [epoch |-> epoch, prefix |-> Prefix(toks, Max(into(b, i)))]]]
-----------------------------------------------------------------------------
Init ==
  /\ config \in Configs
  /\ pool = NewPool
  /\ req_to_blocks = [r \in Requests |-> << >>]
  /\ num_cached_block = [r \in Requests |-> 0]
  /\ tokens = Prompt
  /\ num_computed_tokens = [r \in Requests |-> 0]
  /\ status = [r \in Requests |-> "waiting"]
  /\ step = [r \in Requests |-> Idle]
  /\ kv = [b \in Blocks |-> Blank]
  /\ epoch = 0

(***************************************************************************)
(* The scheduler takes a waiting request: prefix-cache lookup, then slots  *)
(* for a first chunk of at least one token behind the hit.                 *)
(***************************************************************************)
Admit(r, new, hasScheduled) ==
  LET hits == get_computed_blocks(r)
      computed == Len(hits) * BlockSize
  IN  /\ status[r] = "waiting"
      /\ new \in 1 .. Len(tokens[r]) - computed
      /\ CanAllocate(r, computed, new, hits, hasScheduled)
      /\ AllocateSlots(r, computed, new, hits)
      /\ WriteKV(r, hits, computed, new, << >>)
      /\ status' = [status EXCEPT ![r] = "running"]
      /\ num_computed_tokens' = [num_computed_tokens EXCEPT ![r] = computed + new]
      /\ step' = [step EXCEPT ![r] = [new |-> new, drafts |-> << >>]]
      /\ UNCHANGED <<config, tokens, epoch>>

(***************************************************************************)
(* The scheduler gives a running request new tokens: a prompt chunk, or    *)
(* the tokens not yet computed followed by draft tokens to verify.         *)
(***************************************************************************)
Schedule(r, new, drafts) ==
  LET computed == num_computed_tokens[r]
      known == Len(tokens[r]) - computed
  IN  /\ status[r] = "running" /\ step[r] = Idle
      /\ IF drafts = << >> THEN new \in 1 .. known ELSE known = 1 /\ new = 1 + Len(drafts)
      /\ Len(tokens[r]) + Len(drafts) < MaxLen
      /\ CanAllocate(r, computed, new, << >>, TRUE)
      /\ AllocateSlots(r, computed, new, << >>)
      /\ WriteKV(r, << >>, computed, new, drafts)
      /\ num_computed_tokens' = [num_computed_tokens EXCEPT ![r] = computed + new]
      /\ step' = [step EXCEPT ![r] = [new |-> new, drafts |-> drafts]]
      /\ UNCHANGED <<config, tokens, status, epoch>>

\* Mutant of num_rejected: rejected drafts stay counted as computed.
NoneRejected(s, accepted) == 0

num_rejected(s, accepted) == Len(s.drafts) - accepted

(***************************************************************************)
(* The step's output: a prompt chunk samples nothing; otherwise the first  *)
(* `accepted` drafts and one sampled token become known, the computed      *)
(* positions of the rejected drafts are given back, and AsyncScheduler     *)
(* offers the blocks that became full to the cache.                        *)
(***************************************************************************)
Output(r, accepted, sampled) ==
  LET s == step[r]
      samples == num_computed_tokens[r] >= Len(tokens[r])
  IN  /\ s # Idle
      /\ accepted \in 0 .. Len(s.drafts)
      /\ step' = [step EXCEPT ![r] = Idle]
      /\ num_computed_tokens' = [num_computed_tokens EXCEPT ![r] = @ - num_rejected(s, accepted)]
      /\ tokens' = IF samples
                    THEN [tokens EXCEPT
                            ![r] = @ \o Prefix(s.drafts, accepted) \o <<sampled>>]
                    ELSE tokens
      /\ UNCHANGED <<config, req_to_blocks, status, kv, epoch>>
      /\ IF samples /\ config.async
         THEN cache_blocks(r, pool, tokens'[r], num_cached_block[r],
                           num_computed_tokens'[r] \div BlockSize)
         ELSE UNCHANGED <<pool, num_cached_block>>

\* Nothing reads a free block that is not cached, so what it holds is forgotten.
ForgetUnreachable(p) ==
  kv' = [b \in Blocks |->
           IF p.ref_cnt[b] = 0 /\ p.block_hash[b] = NoHash THEN Blank ELSE kv[b]]

\* SingleTypeKVCacheManager.free: the tail of the table is freed first.
FreeTable(r) ==
  /\ pool' = free_blocks(pool, Reverse(req_to_blocks[r]))
  /\ ForgetUnreachable(pool')
  /\ req_to_blocks' = [req_to_blocks EXCEPT ![r] = << >>]
  /\ num_cached_block' = [num_cached_block EXCEPT ![r] = 0]

\* _preempt_request: the request keeps its tokens and starts over.  One that has
\* reached the length cap was finished with its last output.
Preempt(r) ==
  /\ status[r] = "running" /\ step[r] = Idle
  /\ Len(tokens[r]) < MaxLen
  /\ FreeTable(r)
  /\ status' = [status EXCEPT ![r] = "waiting"]
  /\ num_computed_tokens' = [num_computed_tokens EXCEPT ![r] = 0]
  /\ UNCHANGED <<config, tokens, step, epoch>>

\* _free_request of a finished or aborted request, even one being executed or
\* preempted; its id then stands for a new request with the same prompt.
Finish(r) ==
  /\ status[r] = "running" \/ tokens[r] # Prompt[r]
  /\ FreeTable(r)
  /\ status' = [status EXCEPT ![r] = "waiting"]
  /\ num_computed_tokens' = [num_computed_tokens EXCEPT ![r] = 0]
  /\ tokens' = [tokens EXCEPT ![r] = Prompt[r]]
  /\ step' = [step EXCEPT ![r] = Idle]
  /\ UNCHANGED <<config, epoch>>

\* reset_prefix_cache succeeds only when every block but the null block is free;
\* the caller then replaces the weights.
ResetPrefixCache ==
  /\ Len(pool.free) = NumBlocks - 1
  /\ epoch < config.max_epoch
  /\ pool' = pool_reset_prefix_cache(pool)
  /\ ForgetUnreachable(pool')
  /\ epoch' = epoch + 1
  /\ UNCHANGED <<config, req_to_blocks, num_cached_block, tokens, num_computed_tokens,
                 status, step>>

Next ==
  \/ \E r \in Requests, new \in 1 .. MaxLen, b \in BOOLEAN : Admit(r, new, b)
  \/ \E r \in Requests, new \in 1 .. MaxLen, d \in SeqOf(Token, MaxDrafts) :
       Schedule(r, new, d)
  \/ \E r \in Requests, a \in 0 .. MaxDrafts, t \in Token : Output(r, a, t)
  \/ \E r \in Requests : Preempt(r) \/ Finish(r)
  \/ ResetPrefixCache

Spec == Init /\ [][Next]_vars
-----------------------------------------------------------------------------
TypeOK ==
  /\ config \in Configs
  /\ pool \in [ref_cnt : [Blocks -> Nat], block_hash : [Blocks -> Seq(Token)],
               free : Seq(Blocks), cached : Seq(Seq(Token) \X Blocks)]
  /\ req_to_blocks \in [Requests -> Seq(Blocks)]
  /\ num_cached_block \in [Requests -> Nat]
  /\ tokens \in [Requests -> Seq(Token)]
  /\ num_computed_tokens \in [Requests -> 0 .. MaxLen]
  /\ status \in [Requests -> {"waiting", "running"}]
  /\ step \in [Requests -> [new : 0 .. MaxLen, drafts : Seq(Token)]]
  /\ epoch \in 0 .. config.max_epoch

Holders(b) == {r \in Requests : b \in ToSet(req_to_blocks[r])}

(***************************************************************************)
(* RefCountsExact: the reference count of a block is the number of block   *)
(* tables it is in, no table has a block twice, and the free queue holds   *)
(* exactly the blocks no table has, each once.  A count that drifts leaks  *)
(* blocks or hands a block in use to another request.                      *)
(***************************************************************************)
RefCountsExact ==
  /\ \A b \in Blocks : pool.ref_cnt[b] = Cardinality(Holders(b))
  /\ \A r \in Requests : IsInjective(req_to_blocks[r])
  /\ IsInjective(pool.free)
  /\ ToSet(pool.free) = {b \in Blocks \ {NullBlock} : pool.ref_cnt[b] = 0}

(***************************************************************************)
(* HashMapExact: cached_block_hash_to_block and the hashes on the blocks   *)
(* say the same, so cache_full_blocks never meets a block that already has *)
(* a hash and an evicted block is never found by its old hash.             *)
(***************************************************************************)
HashMapExact ==
  /\ IsInjective(pool.cached)
  /\ ToSet(pool.cached) =
       {<<pool.block_hash[b], b>> : b \in {c \in Blocks : pool.block_hash[c] # NoHash}}

(***************************************************************************)
(* CachedBlocksHoldTheirPrefix: every slot of a block that a prefix lookup *)
(* can return holds the entry of exactly the tokens its hash stands for,   *)
(* computed with the current weights: never a rejected draft, another      *)
(* request's tokens, or entries from before a weight update.               *)
(***************************************************************************)
Holds(b, i, prefix) == kv[b][i] = [epoch |-> epoch, prefix |-> prefix]

CachedBlocksHoldTheirPrefix ==
  \A e \in ToSet(pool.cached) :
    \A i \in 1 .. BlockSize :
      Holds(e[2], i, Prefix(e[1], Len(e[1]) - BlockSize + i))

(***************************************************************************)
(* ComputedTokensHaveTheirKV: for every known token the scheduler counts   *)
(* as computed, the request's block table leads to its entry.  Attention   *)
(* reads these slots without checking anything.                            *)
(***************************************************************************)
ComputedTokensHaveTheirKV ==
  \A r \in Requests :
    \A q \in 1 .. Min({num_computed_tokens[r], Len(tokens[r])}) :
      Holds(req_to_blocks[r][cdiv(q, BlockSize)], ((q - 1) % BlockSize) + 1,
            Prefix(tokens[r], q))

(***************************************************************************)
(* NeverOutOfBlocks: allocate_slots counts hits that sit in the free queue *)
(* as blocks it needs, so after its check get_new_blocks never raises.     *)
(***************************************************************************)
NeverOutOfBlocks ==
  \A r \in {q \in Requests : step[q] = Idle} :
    LET hits == IF status[r] = "waiting" THEN get_computed_blocks(r) ELSE << >>
        computed == num_computed_tokens[r] + Len(hits) * BlockSize
    IN  \A new \in 1 .. MaxLen - computed, hasScheduled \in BOOLEAN :
          CanAllocate(r, computed, new, hits, hasScheduled) =>
            NumNewBlocks(r, computed, new, hits) <= Len(touch(pool, hits).free)

(***************************************************************************)
(* PoolExact: reference counts, free queue, hashes and hash map agree with *)
(* each other and with the block tables after every sequence of hits,      *)
(* evictions, preemptions, aborts and resets.                              *)
(***************************************************************************)
PoolExact == TypeOK /\ RefCountsExact /\ HashMapExact
=============================================================================
