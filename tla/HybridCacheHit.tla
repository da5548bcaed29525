--------------------------- MODULE HybridCacheHit ---------------------------
(***************************************************************************)
(* HybridKVCacheCoordinator.find_longest_cache_hit                         *)
(* (v1/core/kv_cache_coordinator.py): the fixed-point search for a prefix  *)
(* that every layer group can take from the prefix cache, and the scans of *)
(* FullAttentionManager and SlidingWindowManager it calls.  Lengths are    *)
(* counted in hash blocks.  Any subset of a request's blocks may be in the *)
(* cache of a group, since blocks are evicted one at a time.               *)
(***************************************************************************)
EXTENDS Integers, Sequences, FiniteSets, FiniteSetsExt

CONSTANT
  Layouts               \* the layer layouts a deployment may have: [groups, alignment,
                        \* lengths, retention], groups: Seq(AttentionGroup)

AttentionGroup ==
  [full : BOOLEAN, block_size : Nat \ {0}, window : Nat, use_eagle : BOOLEAN]

\* At least two groups; blocks divide the alignment, and a window holds at least the token itself.
WellFormed(l) ==
  /\ l.alignment \in Nat \ {0} /\ l.lengths \subseteq Nat
  /\ l.groups \in Seq(AttentionGroup) /\ Len(l.groups) > 1
  /\ \A g \in DOMAIN l.groups :
       /\ l.alignment % l.groups[g].block_size = 0
       /\ l.groups[g].full \/ l.groups[g].window > 0

ASSUME LayoutAssumption == \A l \in Layouts : WellFormed(l)

VARIABLES
  layout,               \* the layout of this deployment, fixed at start-up
  max_cache_hit_length,
  cached,               \* [group -> set of the indices of the cached blocks]
  hit_length, curr_hit_length,
  group,                \* the attention group that is looked at next
  hit_blocks,           \* [group -> [len, blocks]], len = -1: None
  eagle_verified,       \* groups whose EAGLE drop is verified
  pc

searchVars == <<hit_length, curr_hit_length, group, hit_blocks, eagle_verified, pc>>
given == <<layout, max_cache_hit_length, cached>>
vars == <<given, searchVars>>

Groups == layout.groups         \* attention_groups
Alignment == layout.alignment   \* scheduler_block_size
Ids == DOMAIN Groups
None == [len |-> -1, blocks |-> {}]

cdiv(a, b) == (a + b - 1) \div b

BlocksOf(g, length) == 0 .. (length \div Groups[g].block_size) - 1

Init ==
  /\ layout \in Layouts /\ max_cache_hit_length \in layout.lengths
  /\ cached \in [Ids -> SUBSET (0 .. max_cache_hit_length - 1)]
  /\ \A g \in Ids : cached[g] \subseteq BlocksOf(g, max_cache_hit_length)
  /\ hit_length = max_cache_hit_length /\ curr_hit_length = max_cache_hit_length
  /\ group = 1
  /\ hit_blocks = [g \in Ids |-> None]
  /\ eagle_verified = {}
  /\ pc = "search"
-----------------------------------------------------------------------------
(* find_longest_cache_hit of one group.                                    *)

\* Pop blocks until the length is a multiple of the alignment.
AlignDown(g, n) == CHOOSE k \in 0 .. n :
  /\ (k * Groups[g].block_size) % Alignment = 0
  /\ \A j \in k + 1 .. n : (j * Groups[g].block_size) % Alignment # 0

Trim(blocks, n) == [len |-> n, blocks |-> {i \in blocks : i < n}]

Dropped(n, drop) == IF drop /\ n > 0 THEN n - 1 ELSE n

\* FullAttentionManager: from the left until the first block that is missing.
FindFull(g, max_length, drop) ==
  LET hit == Max({n \in 0 .. max_length \div Groups[g].block_size :
                    0 .. n - 1 \subseteq cached[g]})
  IN Trim(0 .. hit - 1, AlignDown(g, Dropped(hit, drop)))

\* Mutant of _contiguous_blocks_for_hit: the peeked block is always counted.
ContiguousWithPeek(g, drop) == cdiv(Groups[g].window - 1, Groups[g].block_size) + 1

_contiguous_blocks_for_hit(g, drop) ==
  cdiv(Groups[g].window - 1, Groups[g].block_size) + (IF drop THEN 1 ELSE 0)

\* Whether a hit may end at block i.
MayEnd(g, i, drop) ==
  ((IF drop THEN i ELSE i + 1) * Groups[g].block_size) % Alignment = 0

\* SlidingWindowManager: from the right until enough contiguous blocks are found.
\* A run that ends further right and takes in block e would have been long enough
\* before it, so the first run that is long enough is the one that ends last.
Scan(g, max_length, drop) ==
  LET ids  == BlocksOf(g, max_length)
      need == Max({1, _contiguous_blocks_for_hit(g, drop)})
      ends == {e \in ids : MayEnd(g, e, drop) /\ e + 1 >= need
                              /\ e - need + 1 .. e \subseteq cached[g]}
      runs == {e \in ids : MayEnd(g, e, drop) /\ 0 .. e \subseteq cached[g]}
  IN IF ends # {}
     THEN [found |-> TRUE, len |-> Max(ends) + 1, blocks |-> Max(ends) - need + 1 .. Max(ends)]
     ELSE LET run == IF runs = {} THEN 0 ELSE Max(runs) + 1
          IN [found |-> FALSE, len |-> run, blocks |-> 0 .. run - 1]

FindSlidingWindow(g, max_length, drop) ==
  LET s   == Scan(g, max_length, drop)
      hit == IF s.found THEN s.len ELSE AlignDown(g, s.len)
  IN Trim(s.blocks, IF drop /\ hit > 0 THEN AlignDown(g, hit - 1) ELSE hit)

Find(g, max_length, drop) ==
  IF Groups[g].full THEN FindFull(g, max_length, drop)
                    ELSE FindSlidingWindow(g, max_length, drop)
-----------------------------------------------------------------------------
(* The loop over the groups.                                               *)

DropsEagle(g) == Groups[g].use_eagle /\ g \notin eagle_verified

Looked(g) == Groups[g].full /\ hit_blocks[g] # None

Max_length(g) ==
  IF DropsEagle(g) THEN Min({curr_hit_length + Groups[g].block_size, max_cache_hit_length})
                   ELSE curr_hit_length

NewLength(g) == Find(g, Max_length(g), DropsEagle(g)).len * Groups[g].block_size

\* Mutant of Verified: a shorter hit keeps the verifications of the longer one.
VerifiedForever(g) ==
  IF DropsEagle(g) THEN eagle_verified \cup {g} ELSE eagle_verified

Verified(g) ==
  IF DropsEagle(g) THEN eagle_verified \cup {g}
  ELSE IF NewLength(g) < curr_hit_length THEN {} ELSE eagle_verified

\* One group: full attention is looked up once and then only shortened.
LookUp ==
  /\ pc = "search" /\ group \in Ids
  /\ IF Looked(group)
     THEN /\ curr_hit_length' = (curr_hit_length \div Groups[group].block_size)
                                  * Groups[group].block_size
          /\ UNCHANGED <<hit_blocks, eagle_verified>>
     ELSE /\ curr_hit_length' = NewLength(group)
          /\ hit_blocks' = [hit_blocks EXCEPT ![group] =
               Find(group, Max_length(group), DropsEagle(group))]
          /\ eagle_verified' = Verified(group)
  /\ group' = group + 1
  /\ UNCHANGED <<given, hit_length, pc>>

is_simple_hybrid == Len(Groups) = 2 /\ Groups[1].full

\* Mutant of LastRound: an unchanged length asks for another round.
LastRoundStrict == curr_hit_length > hit_length \/ is_simple_hybrid

LastRound == curr_hit_length >= hit_length \/ is_simple_hybrid

\* Truncate full attention blocks to the final length.
Truncated(length) ==
  [g \in Ids |-> IF Groups[g].full /\ g = 1
                 THEN Trim(hit_blocks[g].blocks,
                           Min({hit_blocks[g].len, length \div Groups[g].block_size}))
                 ELSE hit_blocks[g]]

EndRound ==
  /\ pc = "search" /\ group = Len(Groups) + 1
  /\ hit_length' = IF curr_hit_length >= hit_length THEN hit_length ELSE curr_hit_length
  /\ IF LastRound
     THEN pc' = "done" /\ hit_blocks' = Truncated(hit_length') /\ UNCHANGED <<group, curr_hit_length>>
     ELSE group' = 1 /\ curr_hit_length' = hit_length' /\ UNCHANGED <<pc, hit_blocks>>
  /\ UNCHANGED <<given, eagle_verified>>

Next == LookUp \/ EndRound

Spec == Init /\ [][Next]_vars
-----------------------------------------------------------------------------
(* What the result has to be.                                              *)

\* The blocks group g reads for the first token after length.
Window(g, length) ==
  LET last == length \div Groups[g].block_size
      need == IF Groups[g].full THEN last
              ELSE cdiv(Groups[g].window - 1, Groups[g].block_size)
  IN Max({0, last - need}) .. last - 1

Usable(g, length) ==
  /\ length % Alignment = 0
  /\ Window(g, length) \subseteq cached[g]

\* The block after the hit, whose first token the drafts of the last one depend on.
Peeked(g, length) == length \div Groups[g].block_size

UsableByAll(length) ==
  \A g \in Ids :
    /\ Usable(g, length)
    /\ Groups[g].use_eagle /\ length > 0 =>
         Peeked(g, length) \in cached[g] \cap BlocksOf(g, max_cache_hit_length)

TypeOK ==
  /\ cached \in [Ids -> SUBSET (0 .. max_cache_hit_length)]
  /\ hit_length \in 0 .. max_cache_hit_length /\ curr_hit_length \in 0 .. max_cache_hit_length
  /\ group \in 1 .. Len(Groups) + 1 /\ eagle_verified \subseteq Ids
  /\ pc \in {"prefill", "search", "done"}

(***************************************************************************)
(* HitOfEveryGroup: the hit found is one for every group: as many blocks   *)
(* as the length says, and none missing that the next token attends to,    *)
(* although a group was looked up for a longer hit than the one returned.  *)
(***************************************************************************)
HitOfEveryGroup ==
  pc = "done" => \A g \in Ids :
    /\ Usable(g, hit_length)
    /\ hit_blocks[g].len = hit_length \div Groups[g].block_size
    /\ Window(g, hit_length) \subseteq hit_blocks[g].blocks

(***************************************************************************)
(* HitIsLongest: "Get the longest cache hit prefix of the blocks that is   *)
(* not longer than `max_length`": no longer prefix is usable by all.       *)
(***************************************************************************)
HitIsLongest ==
  pc = "done" => \A n \in hit_length + 1 .. max_cache_hit_length : ~ UsableByAll(n)

(***************************************************************************)
(* EagleDropVerified: eagle_verified: "Attention-group indices whose EAGLE *)
(* drop is verified at the current ``curr_hit_length``": an EAGLE group    *)
(* takes a hit only when the block after it matches too.                   *)
(***************************************************************************)
EagleDropVerified ==
  pc = "done" /\ hit_length > 0 => \A g \in Ids :
    Groups[g].use_eagle => Peeked(g, hit_length) \in cached[g]

(***************************************************************************)
(* HitIsUsable: what the search returns can be used by every group, full   *)
(* attention, windows and EAGLE groups, in spite of the rounds in which    *)
(* other groups shortened it.                                              *)
(***************************************************************************)
HitIsUsable == TypeOK /\ HitOfEveryGroup /\ EagleDropVerified
=============================================================================
