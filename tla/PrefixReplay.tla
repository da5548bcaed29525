---------------------------- MODULE PrefixReplay ----------------------------
(***************************************************************************)
(* What a request leaves in the prefix cache of a hybrid model, and what a *)
(* replay of the same prompt finds there: HybridKVCacheCoordinator.        *)
(* cache_blocks with SlidingWindowManager.reachable_block_mask, the        *)
(* removal of skipped blocks between the chunks of a prefill, and the      *)
(* search of HybridCacheHit.  Lengths are counted in tokens.               *)
(***************************************************************************)
EXTENDS HybridCacheHit

CONSTANTS
  Replays,              \* the layouts and prompts whose replay is tried, of the form of Layouts
  Chunks                \* the numbers of prompt tokens a step may compute

Dense == -1             \* VLLM_PREFIX_CACHE_RETENTION_INTERVAL is not set

ASSUME ReplayAssumption ==
  /\ \A l \in Replays :
       /\ WellFormed(l)
       /\ l.retention = Dense \/ (l.retention \in Nat /\ l.retention % l.alignment = 0)
  /\ Chunks \subseteq Nat \ {0}

VARIABLES
  num_computed_tokens,
  num_cached_block      \* [group -> blocks that were offered to the cache]

replayVars == <<vars, num_computed_tokens, num_cached_block>>

\* get_computed_blocks: the last token of the prompt is always computed.
num_prompt_tokens == max_cache_hit_length + 1

\* The request that fills the cache.
PrefillInit ==
  /\ layout \in Replays /\ max_cache_hit_length \in layout.lengths
  /\ cached = [g \in Ids |-> {}]
  /\ hit_length = 0 /\ curr_hit_length = 0 /\ group = 1
  /\ hit_blocks = [g \in Ids |-> None] /\ eagle_verified = {}
  /\ pc = "prefill"

\* A request comes to a new cache, or to one that others have filled and evicted from.
ReplayInit ==
  /\ PrefillInit \/ Init
  /\ num_computed_tokens = 0
  /\ num_cached_block = [g \in Ids |-> 0]

Retention == layout.retention

\* The blocks a hit at a boundary needs, and how far they reach beyond it.
Need(g)  == _contiguous_blocks_for_hit(g, Groups[g].use_eagle)
Shift(g) == IF Groups[g].use_eagle THEN 1 ELSE 0

SegmentTokens == IF Retention = Dense THEN Alignment ELSE Retention

\* Segment-boundary tails.
InSegmentTail(g, i) ==
  LET per_segment == SegmentTokens \div Groups[g].block_size
  IN /\ SegmentTokens # 0
     /\ \/ Need(g) >= per_segment
        \/ i >= Shift(g) /\ (i - Shift(g)) % per_segment >= per_segment - Need(g)

\* Mutant of ReplayBoundary: the boundary at the end of the prompt.
ReplayBoundaryAtEnd == (num_prompt_tokens \div Alignment) * Alignment

ReplayBoundary == ((num_prompt_tokens - 1) \div Alignment) * Alignment

\* Replay-boundary tail.
InReplayTail(g, i) ==
  LET prompt_end_block == ReplayBoundary \div Groups[g].block_size + Shift(g)
  IN Retention # Dense /\ i \in prompt_end_block - Need(g) .. prompt_end_block - 1

reachable_block_mask(g, i) ==
  Groups[g].full \/ InSegmentTail(g, i) \/ InReplayTail(g, i)

\* remove_skipped_blocks has put the null block in front of the window of the step.
Skipped(g, i) ==
  ~ Groups[g].full /\ (i + 1) * Groups[g].block_size
                        <= num_computed_tokens - Groups[g].window + 1

NumTokensToCache(g, num_tokens) ==
  LET aligned == (num_tokens \div Alignment) * Alignment
  IN IF Groups[g].use_eagle /\ aligned > 0
     THEN Min({num_tokens, aligned + Groups[g].block_size}) ELSE aligned

NumFullBlocks(g, num_tokens) == NumTokensToCache(g, num_tokens) \div Groups[g].block_size

\* One step of the prefill: the skipped blocks are removed, then the full ones cached.
AllocateSlots ==
  /\ pc = "prefill" /\ num_computed_tokens < num_prompt_tokens
  /\ \E n \in Chunks :
       LET num_tokens == num_computed_tokens + n
       IN /\ num_tokens <= num_prompt_tokens
          /\ num_computed_tokens' = num_tokens
          /\ cached' = [g \in Ids |-> cached[g] \cup
               {i \in num_cached_block[g] .. NumFullBlocks(g, num_tokens) - 1 :
                  reachable_block_mask(g, i) /\ ~ Skipped(g, i)}]
          /\ num_cached_block' = [g \in Ids |->
               Max({num_cached_block[g], NumFullBlocks(g, num_tokens)})]
  /\ UNCHANGED <<layout, max_cache_hit_length, searchVars>>

\* The same prompt arrives again.
Replay ==
  /\ pc = "prefill" /\ num_computed_tokens = num_prompt_tokens
  /\ hit_length' = max_cache_hit_length /\ curr_hit_length' = max_cache_hit_length
  /\ pc' = "search"
  /\ UNCHANGED <<given, group, hit_blocks, eagle_verified,
                 num_computed_tokens, num_cached_block>>

ReplayNext ==
  \/ AllocateSlots
  \/ Replay
  \/ Next /\ UNCHANGED <<num_computed_tokens, num_cached_block>>

ReplaySpec == ReplayInit /\ [][ReplayNext]_replayVars /\ WF_replayVars(ReplayNext)
-----------------------------------------------------------------------------
\* The longest aligned prefix whose peeked blocks are inside the prompt, too.
LongestHit ==
  Max({n \in 0 .. max_cache_hit_length :
         /\ n % Alignment = 0
         /\ n > 0 => \A g \in Ids : Groups[g].use_eagle =>
              n + Groups[g].block_size <= max_cache_hit_length})

(***************************************************************************)
(* ReplayHits: a replay of the prompt finds the longest prefix a hit may   *)
(* have, however the prefill was cut into chunks and although the masks    *)
(* keep most blocks of the windows out of the cache and blocks behind the  *)
(* window are gone before their aligned region is complete.                *)
(***************************************************************************)
ReplayHits ==
  pc = "done" /\ num_computed_tokens = num_prompt_tokens => hit_length = LongestHit

\* SearchEnds: the rounds of the search converge, so that every request gets an answer.
SearchEnds == <>(pc = "done")
=============================================================================
