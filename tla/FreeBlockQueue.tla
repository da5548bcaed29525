--------------------------- MODULE FreeBlockQueue ---------------------------
(***************************************************************************)
(* FreeKVCacheBlockQueue (v1/core/kv_cache_utils.py): the doubly linked    *)
(* list of free KV-cache blocks, threaded through the blocks themselves    *)
(* (prev_free_block, next_free_block) between a fake head and a fake tail, *)
(* with the counter num_free_blocks kept beside it.                        *)
(***************************************************************************)
EXTENDS Integers, Sequences

CONSTANT NumBlocks

ASSUME NumBlocksAssumption == NumBlocks \in Nat

Blocks == 0 .. NumBlocks - 1
FakeHead == -1             \* fake_free_list_head
FakeTail == NumBlocks      \* fake_free_list_tail
None     == -2
Nodes    == -1 .. NumBlocks
Links    == -2 .. NumBlocks

VARIABLES next_free_block, prev_free_block, num_free_blocks

vars == <<next_free_block, prev_free_block, num_free_blocks>>

Elements(s) == {s[i] : i \in DOMAIN s}

Distinct(s) == \A i, j \in DOMAIN s : s[i] = s[j] => i = j

\* Every sequence of distinct blocks.
BlockSeqs == {s \in UNION {[1 .. n -> Blocks] : n \in 0 .. NumBlocks} : Distinct(s)}

(***************************************************************************)
(* The constructor links all blocks in the order of their ids; with no     *)
(* blocks it links the fake head to the fake tail.                         *)
(***************************************************************************)
Init ==
  /\ next_free_block = [x \in Nodes |-> IF x = FakeTail THEN None ELSE x + 1]
  /\ prev_free_block = [x \in Nodes |-> IF x = FakeHead THEN None ELSE x - 1]
  /\ num_free_blocks = NumBlocks

(***************************************************************************)
(* Following next_free_block from the head gives s; it gives all of the    *)
(* list when the last link leads to the fake tail.                         *)
(***************************************************************************)
IsFront(s) ==
  \A i \in DOMAIN s :
     s[i] = next_free_block[IF i = 1 THEN FakeHead ELSE s[i - 1]]

LastOf(s) == IF s = << >> THEN FakeHead ELSE s[Len(s)]

IsWholeList(s) == IsFront(s) /\ next_free_block[LastOf(s)] = FakeTail

\* The blocks behind node x, read along next_free_block up to the fake tail.
get_all_free_blocks ==
  LET behind[x \in Nodes] ==
        IF next_free_block[x] \notin Blocks THEN << >>
        ELSE <<next_free_block[x]>> \o behind[next_free_block[x]]
  IN  behind[FakeHead]

\* The caller's protocol: only blocks that are not on the list are put back.
\* A block off the list has both of its links cleared.
Unlinked(b) == next_free_block[b] = None /\ prev_free_block[b] = None

Returnable(s) == \A i \in DOMAIN s : Unlinked(s[i])

(***************************************************************************)
(* The blocks of s are unlinked and the fake head is joined to `after`.    *)
(***************************************************************************)
DropFront(s, after) ==
  /\ next_free_block' = [x \in Nodes |->
       IF x = FakeHead THEN after
       ELSE IF x \in Elements(s) THEN None ELSE next_free_block[x]]
  /\ prev_free_block' = [x \in Nodes |->
       IF x = after THEN FakeHead
       ELSE IF x \in Elements(s) THEN None ELSE prev_free_block[x]]
  /\ num_free_blocks' = num_free_blocks - Len(s)

popleft ==
  LET first == next_free_block[FakeHead]
  IN  /\ first \notin {FakeTail, None}
      /\ next_free_block[first] # None
      /\ DropFront(<<first>>, next_free_block[first])

popleft_n(n) ==
  /\ n > 0
  /\ num_free_blocks >= n
  /\ \E s \in [1 .. n -> Blocks] :
       /\ IsFront(s)
       /\ DropFront(s, next_free_block[s[n]])

\* Mutant of remove: the block behind the removed one still points back to it.
RemoveForwardOnly(b) ==
  /\ prev_free_block[b] # None
  /\ next_free_block[b] # None
  /\ next_free_block' = [next_free_block EXCEPT
       ![prev_free_block[b]] = next_free_block[b], ![b] = None]
  /\ prev_free_block' = [prev_free_block EXCEPT ![b] = None]
  /\ num_free_blocks' = num_free_blocks - 1

remove(b) ==
  /\ prev_free_block[b] # None
  /\ next_free_block[b] # None
  /\ next_free_block' = [next_free_block EXCEPT
       ![prev_free_block[b]] = next_free_block[b], ![b] = None]
  /\ prev_free_block' = [prev_free_block EXCEPT
       ![next_free_block[b]] = prev_free_block[b], ![b] = None]
  /\ num_free_blocks' = num_free_blocks - 1

\* Mutant of Splice: the node behind the new blocks keeps its old predecessor.
SpliceForgettingRight(left, s, right) ==
  LET at(x) == CHOOSE i \in DOMAIN s : s[i] = x
      n == Len(s)
  IN  /\ next_free_block' = [x \in Nodes |->
           IF x = left THEN s[1]
           ELSE IF x \in Elements(s)
                THEN IF at(x) = n THEN right ELSE s[at(x) + 1]
                ELSE next_free_block[x]]
      /\ prev_free_block' = [x \in Nodes |->
           IF x \in Elements(s)
           THEN IF at(x) = 1 THEN left ELSE s[at(x) - 1]
           ELSE prev_free_block[x]]
      /\ num_free_blocks' = num_free_blocks + n

(***************************************************************************)
(* The chain left - s[1] - ... - s[n] - right, linked in both directions.  *)
(***************************************************************************)
Splice(left, s, right) ==
  LET at(x) == CHOOSE i \in DOMAIN s : s[i] = x
      n == Len(s)
  IN  /\ next_free_block' = [x \in Nodes |->
           IF x = left THEN s[1]
           ELSE IF x \in Elements(s)
                THEN IF at(x) = n THEN right ELSE s[at(x) + 1]
                ELSE next_free_block[x]]
      /\ prev_free_block' = [x \in Nodes |->
           IF x = right THEN s[n]
           ELSE IF x \in Elements(s)
                THEN IF at(x) = 1 THEN left ELSE s[at(x) - 1]
                ELSE prev_free_block[x]]
      /\ num_free_blocks' = num_free_blocks + n

append(b) ==
  /\ prev_free_block[FakeTail] # None
  /\ Returnable(<<b>>)
  /\ Splice(prev_free_block[FakeTail], <<b>>, FakeTail)

append_n(s) ==
  /\ s # << >>
  /\ Returnable(s)
  /\ Splice(prev_free_block[FakeTail], s, FakeTail)

prepend_n(s) ==
  /\ s # << >>
  /\ Returnable(s)
  /\ Splice(FakeHead, s, next_free_block[FakeHead])

Next ==
  \/ popleft
  \/ \E n \in 1 .. NumBlocks : popleft_n(n)
  \/ \E b \in Blocks : remove(b) \/ append(b)
  \/ \E s \in BlockSeqs : append_n(s) \/ prepend_n(s)

Spec == Init /\ [][Next]_vars
-----------------------------------------------------------------------------
TypeOK ==
  /\ next_free_block \in [Nodes -> Links]
  /\ prev_free_block \in [Nodes -> Links]
  /\ num_free_blocks \in 0 .. NumBlocks

(***************************************************************************)
(* s is exactly what is on the list: the same chain read in either         *)
(* direction, no block twice, the counter equal to its length, and the     *)
(* links of every other block cleared.                                     *)
(***************************************************************************)
Represents(s) ==
  /\ s \in BlockSeqs
  /\ IsWholeList(s)
  /\ \A i \in DOMAIN s :
       prev_free_block[s[i]] = IF i = 1 THEN FakeHead ELSE s[i - 1]
  /\ prev_free_block[FakeTail] = LastOf(s)
  /\ next_free_block[FakeTail] = None
  /\ prev_free_block[FakeHead] = None
  /\ num_free_blocks = Len(s)
  /\ \A b \in Blocks \ Elements(s) : Unlinked(b)

(***************************************************************************)
(* WellLinked: whatever sequence of pops, removals and insertions the pool *)
(* makes, the links of FreeKVCacheBlockQueue form one chain, the same in   *)
(* both directions, whose length is num_free_blocks; no block is lost from *)
(* it or on it twice.  popleft's assertion that the counter is in sync and *)
(* the RuntimeErrors about missing links are consequences.                 *)
(***************************************************************************)
WellLinked == \E s \in BlockSeqs : Represents(s)

(***************************************************************************)
(* The linked list implements the queue of blocks it stands for.           *)
(***************************************************************************)
Queue == INSTANCE BlockQueue WITH queue <- get_all_free_blocks

QueueSpec == Queue!Spec
=============================================================================
