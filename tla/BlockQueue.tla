----------------------------- MODULE BlockQueue -----------------------------
(***************************************************************************)
(* What FreeKVCacheBlockQueue promises its only user, BlockPool: a queue   *)
(* of distinct blocks in eviction order.  Blocks are taken from the front  *)
(* (the next ones to be reused), any queued block can be removed, and      *)
(* blocks that are not queued are put back at either end in a given order. *)
(***************************************************************************)
EXTENDS Integers, Sequences

CONSTANT NumBlocks        \* number of KV-cache blocks, ids 0 .. NumBlocks - 1

Blocks == 0 .. NumBlocks - 1

VARIABLE queue

Distinct(s) == \A i, j \in DOMAIN s : s[i] = s[j] => i = j

Init == queue = [i \in 1 .. NumBlocks |-> i - 1]

\* The n blocks that would be evicted first leave the queue.
TakeFront(n) ==
  /\ n \in 0 .. Len(queue)
  /\ queue' = SubSeq(queue, n + 1, Len(queue))

\* The block at position i leaves the queue; the others keep their order.
TakeOut(i) ==
  /\ i \in DOMAIN queue
  /\ queue' = [j \in 1 .. Len(queue) - 1 |->
                 IF j < i THEN queue[j] ELSE queue[j + 1]]

\* Blocks that are not queued are put behind (in front of) all queued ones.
PutBlocks(old) ==
  /\ queue' \in Seq(Blocks)
  /\ Distinct(queue')
  /\ Len(queue') > Len(queue)
  /\ queue = SubSeq(queue', old, old + Len(queue) - 1)

PutBack  == PutBlocks(1)
PutFront == PutBlocks(Len(queue') - Len(queue) + 1)

Next ==
  \/ \E n \in 0 .. NumBlocks : TakeFront(n)
  \/ \E i \in 1 .. NumBlocks : TakeOut(i)
  \/ PutBack
  \/ PutFront

Spec == Init /\ [][Next]_queue
=============================================================================
