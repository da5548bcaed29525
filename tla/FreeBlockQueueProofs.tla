------------------------ MODULE FreeBlockQueueProofs ------------------------
(***************************************************************************)
(* The list representation of FreeKVCacheBlockQueue is preserved by every  *)
(* operation, for any number of blocks.  The argument names the sequence s *)
(* that the links stand for and shows, operation by operation, which       *)
(* sequence they stand for afterwards; these are the steps of BlockQueue.  *)
(***************************************************************************)
EXTENDS FreeBlockQueue, SequenceTheorems, FiniteSetTheorems,
        WellFoundedInduction, TLAPS

USE DEF None, FakeHead, FakeTail

(***************************************************************************)
(* Represents(s) without the operators on sequences, as a relation between *)
(* a sequence of length n, the two link functions and the counter.         *)
(***************************************************************************)
Chain(n, s, nx, pv, num) ==
  /\ n \in 0 .. NumBlocks
  /\ s \in [1 .. n -> Blocks]
  /\ \A i, j \in 1 .. n : s[i] = s[j] => i = j
  /\ \A i \in 1 .. n : s[i] = nx[IF i = 1 THEN -1 ELSE s[i - 1]]
  /\ nx[IF n = 0 THEN -1 ELSE s[n]] = NumBlocks
  /\ \A i \in 1 .. n : pv[s[i]] = IF i = 1 THEN -1 ELSE s[i - 1]
  /\ pv[NumBlocks] = IF n = 0 THEN -1 ELSE s[n]
  /\ nx[NumBlocks] = -2
  /\ pv[-1] = -2
  /\ num = n
  /\ \A b \in Blocks : (\A i \in 1 .. n : b # s[i]) => nx[b] = -2 /\ pv[b] = -2

\* A sequence of distinct blocks is a sequence, with the domain of one.
LEMMA BlockSeqsType ==
  ASSUME NEW s \in BlockSeqs
  PROVE  /\ s \in Seq(Blocks)
         /\ Len(s) \in 0 .. NumBlocks
         /\ DOMAIN s = 1 .. Len(s)
         /\ s \in [1 .. Len(s) -> Blocks]
         /\ Distinct(s)
  <1>1. PICK n \in 0 .. NumBlocks : s \in [1 .. n -> Blocks]
    BY DEF BlockSeqs
  <1>2. s \in Seq(Blocks) /\ Len(s) = n
    BY <1>1, NumBlocksAssumption
  <1> QED
    BY <1>1, <1>2 DEF BlockSeqs

\* How to show that a function is a sequence of distinct blocks.
LEMMA BlockSeqsIntro ==
  ASSUME NEW n \in 0 .. NumBlocks, NEW t \in [1 .. n -> Blocks], Distinct(t)
  PROVE  t \in BlockSeqs /\ Len(t) = n /\ DOMAIN t = 1 .. n
  <1>1. t \in BlockSeqs
    BY DEF BlockSeqs
  <1>2. Len(t) = n
    BY NumBlocksAssumption
  <1> QED
    BY <1>1, <1>2

\* Every represented sequence is a chain.
LEMMA RepresentsChain ==
  \A s : Represents(s) =>
    Chain(Len(s), s, next_free_block, prev_free_block, num_free_blocks)
  <1> SUFFICES ASSUME NEW s, Represents(s)
               PROVE  Chain(Len(s), s, next_free_block, prev_free_block,
                            num_free_blocks)
    OBVIOUS
  <1>1. s \in BlockSeqs
    BY DEF Represents
  <1>2. /\ s \in Seq(Blocks)
        /\ Len(s) \in 0 .. NumBlocks
        /\ DOMAIN s = 1 .. Len(s)
        /\ s \in [1 .. Len(s) -> Blocks]
        /\ Distinct(s)
    BY <1>1, BlockSeqsType
  <1>3. s = << >> <=> Len(s) = 0
    BY <1>2, EmptySeq
  <1>4. \A b \in Blocks :
          (\A i \in 1 .. Len(s) : b # s[i]) => b \in Blocks \ Elements(s)
    BY <1>2 DEF Elements
  <1> QED
    BY <1>2, <1>3, <1>4
    DEF Chain, Represents, IsWholeList, IsFront, LastOf, Distinct, Unlinked

ChainsAreRepresented ==
  \A n, s : Chain(n, s, next_free_block, prev_free_block, num_free_blocks)
              => Represents(s)

\* Every chain is represented.
LEMMA ChainRepresents == ChainsAreRepresented
  <1> SUFFICES ASSUME NEW n, NEW s,
                      Chain(n, s, next_free_block, prev_free_block, num_free_blocks)
               PROVE  Represents(s)
    BY DEF ChainsAreRepresented
  <1>1. n \in 0 .. NumBlocks /\ s \in [1 .. n -> Blocks]
    BY DEF Chain
  <1>2. Distinct(s)
    BY <1>1 DEF Distinct, Chain
  <1>3. s \in BlockSeqs /\ Len(s) = n /\ DOMAIN s = 1 .. n
    BY <1>1, <1>2, BlockSeqsIntro
  <1>4. s = << >> <=> n = 0
    BY <1>3, EmptySeq, BlockSeqsType
  <1>5. \A b \in Blocks \ Elements(s) : \A i \in 1 .. n : b # s[i]
    BY <1>3 DEF Elements
  <1> QED
    BY <1>3, <1>4, <1>5 DEF Chain, Represents, IsWholeList, IsFront, LastOf, Unlinked

\* The constructor's links stand for all blocks in the order of their ids.
LEMMA InitWellLinked == Init => TypeOK /\ WellLinked
  <1> SUFFICES ASSUME Init PROVE TypeOK /\ WellLinked
    OBVIOUS
  <1>1. TypeOK
    BY NumBlocksAssumption DEF Init, TypeOK, Nodes, Links
  <1> DEFINE all == [i \in 1 .. NumBlocks |-> i - 1]
  <1>2. all \in [1 .. NumBlocks -> Blocks]
    BY NumBlocksAssumption DEF Blocks
  <1>3. \A i \in 1 .. NumBlocks : all[i] = i - 1
    OBVIOUS
  <1>4. \A b \in Blocks : b + 1 \in 1 .. NumBlocks /\ all[b + 1] = b
    BY NumBlocksAssumption DEF Blocks
  <1> HIDE DEF all
  <1>5. Chain(NumBlocks, all, next_free_block, prev_free_block, num_free_blocks)
    <2>1. \A i \in 1 .. NumBlocks :
            /\ all[i] = next_free_block[IF i = 1 THEN -1 ELSE all[i - 1]]
            /\ prev_free_block[all[i]] = IF i = 1 THEN -1 ELSE all[i - 1]
      BY <1>3, NumBlocksAssumption DEF Init, Nodes
    <2>2. /\ next_free_block[IF NumBlocks = 0 THEN -1 ELSE all[NumBlocks]] = NumBlocks
          /\ prev_free_block[NumBlocks] = IF NumBlocks = 0 THEN -1 ELSE all[NumBlocks]
          /\ next_free_block[NumBlocks] = -2
          /\ prev_free_block[-1] = -2
          /\ num_free_blocks = NumBlocks
      BY <1>3, NumBlocksAssumption DEF Init, Nodes
    <2>3. \A b \in Blocks : ~ \A i \in 1 .. NumBlocks : b # all[i]
      BY <1>4
    <2>4. \A i, j \in 1 .. NumBlocks : all[i] = all[j] => i = j
      BY <1>3
    <2> QED
      BY <1>2, <2>1, <2>2, <2>3, <2>4, NumBlocksAssumption DEF Chain
  <1> QED
    BY <1>1, <1>5, ChainRepresents DEF ChainsAreRepresented, WellLinked, Represents

\* A front of the list is a prefix of the represented sequence: popleft_n's
\* loop visits the blocks in queue order.
LEMMA FrontIsPrefix ==
  ASSUME NEW n, NEW s, NEW k, NEW t, NEW nx, NEW pv, NEW num,
         Chain(n, s, nx, pv, num), k \in 1 .. n, t \in [1 .. k -> Blocks],
         \A i \in 1 .. k : t[i] = nx[IF i = 1 THEN -1 ELSE t[i - 1]]
  PROVE  \A i \in 1 .. k : t[i] = s[i]
  <1> DEFINE Bad == {i \in 1 .. k : t[i] # s[i]}
  <1> SUFFICES ASSUME Bad # {} PROVE FALSE
    OBVIOUS
  <1>1. Bad \subseteq Nat /\ n \in Nat
    BY NumBlocksAssumption DEF Chain
  <1>2. PICK m \in Bad : \A i \in Bad : ~ (<<i, m>> \in OpToRel(<, Nat))
    BY <1>1, NatLessThanWellFounded, WFMin
  <1>3. \A i \in Bad : ~ (i < m)
    BY <1>1, <1>2 DEF OpToRel
  <1>4. m \in 1 .. k /\ m \in 1 .. n /\ t[m] # s[m]
    BY <1>1
  <1>5. CASE m = 1
    BY <1>4, <1>5 DEF Chain
  <1>6. CASE m # 1
    <2>1. m - 1 \in 1 .. k /\ m - 1 < m
      BY <1>4, <1>6, <1>1
    <2>2. t[m - 1] = s[m - 1]
      BY <1>3, <2>1
    <2>3. t[m] = nx[t[m - 1]] /\ s[m] = nx[s[m - 1]]
      BY <1>4, <1>6 DEF Chain
    <2> QED
      BY <1>4, <2>2, <2>3
  <1> QED
    BY <1>5, <1>6

\* Taking the first k blocks off a chain leaves the chain of the others.
LEMMA DropChain ==
  ASSUME NEW n, NEW s, NEW nx, NEW pv, NEW num, Chain(n, s, nx, pv, num),
         NEW k \in 1 .. n, NEW nx2, NEW pv2,
         NEW after, after = IF k = n THEN NumBlocks ELSE s[k + 1],
         nx2 = [x \in Nodes |-> IF x = -1 THEN after
                 ELSE IF \E i \in 1 .. k : x = s[i] THEN -2 ELSE nx[x]],
         pv2 = [x \in Nodes |-> IF x = after THEN -1
                 ELSE IF \E i \in 1 .. k : x = s[i] THEN -2 ELSE pv[x]]
  PROVE  Chain(n - k, [i \in 1 .. n - k |-> s[i + k]], nx2, pv2, num - k)
  <1> DEFINE t == [i \in 1 .. n - k |-> s[i + k]]
  <1>1. /\ n \in Nat /\ k \in Nat /\ n <= NumBlocks /\ k <= n /\ k >= 1 /\ num = n
        /\ s \in [1 .. n -> Blocks]
    BY NumBlocksAssumption DEF Chain
  <1>2. \A i \in 1 .. n - k : /\ i + k \in 1 .. n
                              /\ t[i] = s[i + k]
                              /\ t[i] \in Blocks
    BY <1>1
  <1>3. t \in [1 .. n - k -> Blocks]
    BY <1>1, <1>2
  <1>4. \A i \in 1 .. n, j \in 1 .. n : s[i] = s[j] => i = j
    BY DEF Chain
  <1>5. \A i \in 1 .. n : s[i] \in Nodes /\ s[i] # -1 /\ s[i] # NumBlocks
    BY <1>1, NumBlocksAssumption DEF Blocks, Nodes
  <1>6. \A i \in 1 .. n : i > k => ~ \E j \in 1 .. k : s[i] = s[j]
    BY <1>1, <1>4
  <1>7. -1 \in Nodes /\ NumBlocks \in Nodes
    BY NumBlocksAssumption DEF Nodes
  <1>8. NumBlocks # -1
    BY NumBlocksAssumption
  <1> HIDE DEF t
  <1>9. \A i \in 1 .. n - k : t[i] = nx2[IF i = 1 THEN -1 ELSE t[i - 1]]
    <2> SUFFICES ASSUME NEW i \in 1 .. n - k
                 PROVE  t[i] = nx2[IF i = 1 THEN -1 ELSE t[i - 1]]
      OBVIOUS
    <2>1. CASE i = 1
      BY <1>1, <1>2, <1>7, <2>1
    <2>2. CASE i # 1
      <3>1. i - 1 \in 1 .. n - k /\ i - 1 + k \in 1 .. n /\ i - 1 + k > k /\ i + k \in 1 .. n
            /\ i + k # 1
        BY <1>1, <2>2
      <3>2. t[i - 1] = s[i - 1 + k]
        BY <1>2, <3>1
      <3>3. nx2[s[i - 1 + k]] = nx[s[i - 1 + k]]
        BY <1>5, <1>6, <3>1
      <3>4. s[i + k] = nx[s[i + k - 1]]
        BY <3>1 DEF Chain
      <3>5. i + k - 1 = i - 1 + k
        BY <1>1
      <3> QED
        BY <1>2, <2>2, <3>2, <3>3, <3>4, <3>5
    <2> QED
      BY <2>1, <2>2
  <1>10. nx2[IF n - k = 0 THEN -1 ELSE t[n - k]] = NumBlocks
    <2>1. CASE n = k
      BY <1>1, <1>7, <2>1
    <2>2. CASE n # k
      <3>1. n - k \in 1 .. n - k /\ n - k + k = n /\ n \in 1 .. n /\ n > k /\ n - k # 0 /\ n # 0
        BY <1>1, <2>2
      <3>2. t[n - k] = s[n]
        BY <1>2, <3>1
      <3>3. nx2[s[n]] = nx[s[n]]
        BY <1>5, <1>6, <3>1
      <3> QED
        BY <3>1, <3>2, <3>3 DEF Chain
    <2> QED
      BY <2>1, <2>2
  <1>11. \A i \in 1 .. n - k : pv2[t[i]] = IF i = 1 THEN -1 ELSE t[i - 1]
    <2> SUFFICES ASSUME NEW i \in 1 .. n - k
                 PROVE  pv2[t[i]] = IF i = 1 THEN -1 ELSE t[i - 1]
      OBVIOUS
    <2>1. CASE i = 1
      BY <1>1, <1>2, <1>5, <2>1
    <2>2. CASE i # 1
      <3>1. i - 1 \in 1 .. n - k /\ i + k \in 1 .. n /\ i + k > k /\ k # n
            /\ i + k # 1 /\ k + 1 \in 1 .. n /\ i + k # k + 1
        BY <1>1, <2>2
      <3>2. s[i + k] # after
        BY <1>4, <3>1
      <3>3. pv2[s[i + k]] = pv[s[i + k]]
        BY <1>5, <1>6, <3>1, <3>2
      <3>4. pv[s[i + k]] = s[i + k - 1]
        BY <3>1 DEF Chain
      <3>5. t[i - 1] = s[i - 1 + k] /\ i + k - 1 = i - 1 + k
        BY <1>1, <1>2, <3>1
      <3> QED
        BY <1>2, <2>2, <3>3, <3>4, <3>5
    <2> QED
      BY <2>1, <2>2
  <1>12. pv2[NumBlocks] = IF n - k = 0 THEN -1 ELSE t[n - k]
    <2>1. CASE n = k
      BY <1>1, <1>7, <2>1
    <2>2. CASE n # k
      <3>1. n - k \in 1 .. n - k /\ n - k + k = n /\ n - k # 0 /\ n # 0 /\ k + 1 \in 1 .. n
        BY <1>1, <2>2
      <3>2. t[n - k] = s[n]
        BY <1>2, <3>1
      <3>3. after # NumBlocks
        BY <1>5, <2>2, <3>1
      <3>4. pv2[NumBlocks] = pv[NumBlocks]
        BY <1>1, <1>5, <1>7, <3>3
      <3> QED
        BY <3>1, <3>2, <3>4 DEF Chain
    <2> QED
      BY <2>1, <2>2
  <1>13. nx2[NumBlocks] = -2 /\ pv2[-1] = -2
    <2>1. nx[NumBlocks] = -2 /\ pv[-1] = -2
      BY DEF Chain
    <2>2. after # -1
      BY <1>1, <1>5, <1>8
    <2> QED
      BY <1>1, <1>5, <1>7, <1>8, <2>1, <2>2
  <1>14. \A b \in Blocks : (\A i \in 1 .. n - k : b # t[i]) =>
                               nx2[b] = -2 /\ pv2[b] = -2
    <2> SUFFICES ASSUME NEW b \in Blocks, \A i \in 1 .. n - k : b # t[i]
                 PROVE  nx2[b] = -2 /\ pv2[b] = -2
      OBVIOUS
    <2>1. b \in Nodes /\ b # -1 /\ b # NumBlocks
      BY NumBlocksAssumption DEF Blocks, Nodes
    <2>2. \A i \in 1 .. n : i > k => b # s[i]
      <3> SUFFICES ASSUME NEW i \in 1 .. n, i > k PROVE b # s[i]
        OBVIOUS
      <3>1. i - k \in 1 .. n - k /\ i - k + k = i
        BY <1>1
      <3> QED
        BY <1>2, <3>1
    <2>3. b # after
      BY <1>1, <2>1, <2>2
    <2>4. CASE \E i \in 1 .. k : b = s[i]
      BY <2>1, <2>3, <2>4
    <2>5. CASE ~ \E i \in 1 .. k : b = s[i]
      <3>1. \A i \in 1 .. n : b # s[i]
        BY <1>1, <2>2, <2>5
      <3>2. nx[b] = -2 /\ pv[b] = -2
        BY <3>1 DEF Chain
      <3> QED
        BY <2>1, <2>3, <2>5, <3>2
    <2> QED
      BY <2>4, <2>5
  <1>15. \A i, j \in 1 .. n - k : t[i] = t[j] => i = j
    BY <1>1, <1>2, <1>4
  <1>16. n - k \in 0 .. NumBlocks /\ num - k = n - k
    BY <1>1, NumBlocksAssumption
  <1>17. Chain(n - k, t, nx2, pv2, num - k)
    BY <1>3, <1>9, <1>10, <1>11, <1>12, <1>13, <1>14, <1>15, <1>16 DEF Chain
  <1> QED
    BY <1>17 DEF t

\* The links nx2, pv2 are nx, pv with block b taken out.
Unhooked(b, nx, pv, nx2, pv2) ==
  /\ nx2 = [nx EXCEPT ![pv[b]] = nx[b], ![b] = -2]
  /\ pv2 = [pv EXCEPT ![nx[b]] = pv[b], ![b] = -2]

\* Unlinking the block at position k closes the gap.
LEMMA RemoveChain ==
  ASSUME NEW n, NEW s, NEW nx, NEW pv, NEW num, Chain(n, s, nx, pv, num),
         nx \in [Nodes -> Links], pv \in [Nodes -> Links],
         NEW k \in 1 .. n, NEW nx2, NEW pv2,
         Unhooked(s[k], nx, pv, nx2, pv2)
  PROVE  Chain(n - 1, [i \in 1 .. n - 1 |-> IF i < k THEN s[i] ELSE s[i + 1]],
               nx2, pv2, num - 1)
  <1> DEFINE t == [i \in 1 .. n - 1 |-> IF i < k THEN s[i] ELSE s[i + 1]]
             left == IF k = 1 THEN -1 ELSE s[k - 1]
             right == IF k = n THEN NumBlocks ELSE s[k + 1]
  <1>1. /\ n \in Nat /\ k \in Nat /\ n <= NumBlocks /\ k <= n /\ k >= 1 /\ num = n
        /\ s \in [1 .. n -> Blocks]
    BY NumBlocksAssumption DEF Chain
  <1>2. \A i \in 1 .. n - 1 : /\ t[i] = IF i < k THEN s[i] ELSE s[i + 1]
                              /\ t[i] \in Blocks
    BY <1>1
  <1>3. t \in [1 .. n - 1 -> Blocks]
    BY <1>1, <1>2
  <1>4. \A i \in 1 .. n, j \in 1 .. n : s[i] = s[j] => i = j
    BY DEF Chain
  <1>5. \A i \in 1 .. n : s[i] \in Nodes /\ s[i] # -1 /\ s[i] # NumBlocks /\ s[i] # -2
    BY <1>1, NumBlocksAssumption DEF Blocks, Nodes
  <1>6. -1 \in Nodes /\ NumBlocks \in Nodes /\ NumBlocks # -1
    BY NumBlocksAssumption DEF Nodes
  <1>7. pv[s[k]] = left
    BY DEF Chain
  <1>8. nx[s[k]] = right
    <2>1. CASE k = n
      BY <1>1, <2>1 DEF Chain
    <2>2. CASE k # n
      <3>1. k + 1 \in 1 .. n /\ k + 1 # 1 /\ k + 1 - 1 = k
        BY <1>1, <2>2
      <3>2. s[k + 1] = nx[s[k + 1 - 1]]
        BY <3>1 DEF Chain
      <3> QED
        BY <2>2, <3>1, <3>2
    <2> QED
      BY <2>1, <2>2
  <1>9. left \in Nodes /\ right \in Nodes /\ left # s[k] /\ right # s[k]
    <2>1. k # 1 => k - 1 \in 1 .. n /\ k - 1 # k
      BY <1>1
    <2>2. k # n => k + 1 \in 1 .. n /\ k + 1 # k
      BY <1>1
    <2> QED
      BY <1>4, <1>5, <1>6, <2>1, <2>2
  <1>10. \A x \in Nodes : nx2[x] = IF x = s[k] THEN -2 ELSE IF x = left THEN right ELSE nx[x]
    BY <1>5, <1>7, <1>8, <1>9 DEF Unhooked
  <1>11. \A x \in Nodes : pv2[x] = IF x = s[k] THEN -2 ELSE IF x = right THEN left ELSE pv[x]
    BY <1>5, <1>7, <1>8, <1>9 DEF Unhooked
  <1>12. /\ \A i \in 1 .. n : s[i] = left <=> (k # 1 /\ i = k - 1)
         /\ \A i \in 1 .. n : s[i] = right <=> (k # n /\ i = k + 1)
    <2>1. k # 1 => k - 1 \in 1 .. n
      BY <1>1
    <2>2. k # n => k + 1 \in 1 .. n
      BY <1>1
    <2> QED
      BY <1>4, <1>5, <2>1, <2>2
  <1>13. left # NumBlocks /\ right # -1
    <2>1. k # 1 => k - 1 \in 1 .. n
      BY <1>1
    <2>2. k # n => k + 1 \in 1 .. n
      BY <1>1
    <2> QED
      BY <1>5, <1>6, <2>1, <2>2
  <1>14. n # 1 => t[1] = IF k = 1 THEN s[2] ELSE s[1]
    BY <1>1, <1>2
  <1>15. /\ \A i \in 1 .. n : s[i] = nx[IF i = 1 THEN -1 ELSE s[i - 1]]
         /\ \A i \in 1 .. n : pv[s[i]] = IF i = 1 THEN -1 ELSE s[i - 1]
         /\ nx[s[n]] = NumBlocks /\ pv[NumBlocks] = s[n]
         /\ nx[NumBlocks] = -2 /\ pv[-1] = -2
    BY <1>1 DEF Chain
  <1> HIDE DEF t, left, right
  <1>16. \A i \in 1 .. n - 1 : t[i] = nx2[IF i = 1 THEN -1 ELSE t[i - 1]]
    <2> SUFFICES ASSUME NEW i \in 1 .. n - 1
                 PROVE  t[i] = nx2[IF i = 1 THEN -1 ELSE t[i - 1]]
      OBVIOUS
    <2>1. CASE i = 1
      BY <1>1, <1>2, <1>5, <1>6, <1>10, <1>12, <1>14, <1>15, <2>1 DEF left, right
    <2>2. CASE i # 1 /\ i < k
      <3>1. i \in 1 .. n /\ i - 1 \in 1 .. n - 1 /\ i - 1 \in 1 .. n /\ i - 1 < k /\ i - 1 # k - 1
            /\ i - 1 # k
        BY <1>1, <2>2
      <3>2. t[i - 1] = s[i - 1] /\ t[i] = s[i]
        BY <1>2, <2>2, <3>1
      <3>3. nx2[s[i - 1]] = nx[s[i - 1]]
        BY <1>1, <1>4, <1>5, <1>10, <1>12, <3>1
      <3> QED
        BY <1>15, <2>2, <3>1, <3>2, <3>3
    <2>3. CASE i # 1 /\ i = k
      <3>1. i \in 1 .. n /\ i - 1 \in 1 .. n - 1 /\ i - 1 \in 1 .. n /\ i - 1 < k /\ k # n
            /\ k # 1 /\ i - 1 # k
        BY <1>1, <2>3
      <3>2. t[i - 1] = s[i - 1] /\ t[i] = s[i + 1]
        BY <1>1, <1>2, <2>3, <3>1
      <3>3. nx2[s[i - 1]] = right
        BY <1>4, <1>5, <1>10, <1>12, <2>3, <3>1
      <3> QED
        BY <2>3, <3>1, <3>2, <3>3 DEF right
    <2>4. CASE i # 1 /\ i > k
      <3>1. i \in 1 .. n /\ i - 1 \in 1 .. n - 1 /\ i + 1 \in 1 .. n /\ ~ (i - 1 < k)
            /\ ~ (i < k) /\ i - 1 + 1 = i /\ i + 1 - 1 = i /\ i # k /\ i # k - 1 /\ i + 1 # 1
        BY <1>1, <2>4
      <3>2. t[i - 1] = s[i] /\ t[i] = s[i + 1]
        BY <1>2, <3>1
      <3>3. nx2[s[i]] = nx[s[i]]
        BY <1>4, <1>5, <1>10, <1>12, <3>1
      <3> QED
        BY <1>15, <2>4, <3>1, <3>2, <3>3
    <2> QED
      BY <1>1, <2>1, <2>2, <2>3, <2>4
  <1>17. /\ nx2[IF n - 1 = 0 THEN -1 ELSE t[n - 1]] = NumBlocks
         /\ pv2[NumBlocks] = IF n - 1 = 0 THEN -1 ELSE t[n - 1]
    <2>1. CASE n = 1
      <3>1. k = 1 /\ k = n /\ left = -1 /\ right = NumBlocks
        BY <1>1, <2>1 DEF left, right
      <3>2. s[k] # -1 /\ s[k] # NumBlocks
        BY <1>5
      <3> QED
        BY <1>6, <1>10, <1>11, <2>1, <3>1, <3>2
    <2>2. CASE n # 1 /\ k = n
      <3>1. n - 1 \in 1 .. n - 1 /\ n - 1 < k /\ n - 1 \in 1 .. n /\ n - 1 # 0
            /\ k # 1 /\ n - 1 # k
        BY <1>1, <2>2
      <3>2. t[n - 1] = s[n - 1]
        BY <1>2, <3>1
      <3>3. right = NumBlocks /\ left = s[n - 1]
        BY <2>2 DEF right, left
      <3>4. s[k] # NumBlocks /\ s[n - 1] # s[k] /\ s[n - 1] \in Nodes
        BY <1>4, <1>5, <3>1
      <3> QED
        BY <1>6, <1>10, <1>11, <3>1, <3>2, <3>3, <3>4
    <2>3. CASE n # 1 /\ k # n
      <3>1. n - 1 \in 1 .. n - 1 /\ ~ (n - 1 < k) /\ n - 1 + 1 = n /\ n \in 1 .. n /\ n - 1 # 0
            /\ n # k /\ n # k - 1
        BY <1>1, <2>3
      <3>2. t[n - 1] = s[n]
        BY <1>2, <3>1
      <3>3. right # NumBlocks
        <4>1. k + 1 \in 1 .. n
          BY <1>1, <2>3
        <4> QED
          BY <1>5, <2>3, <4>1 DEF right
      <3>4. nx2[s[n]] = nx[s[n]]
        BY <1>4, <1>5, <1>10, <1>12, <3>1
      <3>5. pv2[NumBlocks] = pv[NumBlocks]
        BY <1>5, <1>6, <1>11, <3>3
      <3> QED
        BY <1>15, <3>1, <3>2, <3>4, <3>5
    <2> QED
      BY <2>1, <2>2, <2>3
  <1>18. \A i \in 1 .. n - 1 : pv2[t[i]] = IF i = 1 THEN -1 ELSE t[i - 1]
    <2> SUFFICES ASSUME NEW i \in 1 .. n - 1
                 PROVE  pv2[t[i]] = IF i = 1 THEN -1 ELSE t[i - 1]
      OBVIOUS
    <2>1. CASE i < k
      <3>1. i \in 1 .. n /\ i # k /\ i # k + 1 /\ (i # 1 => i - 1 \in 1 .. n - 1 /\ i - 1 < k)
        BY <1>1, <2>1
      <3>2. t[i] = s[i] /\ (i # 1 => t[i - 1] = s[i - 1])
        BY <1>2, <2>1, <3>1
      <3>3. pv2[s[i]] = pv[s[i]]
        BY <1>4, <1>5, <1>11, <1>12, <3>1
      <3> QED
        BY <1>15, <3>1, <3>2, <3>3
    <2>2. CASE i = k
      <3>1. i + 1 \in 1 .. n /\ ~ (i < k) /\ k # n /\ i + 1 # k
            /\ (i # 1 => i - 1 \in 1 .. n - 1 /\ i - 1 < k)
        BY <1>1, <2>2
      <3>2. t[i] = s[i + 1] /\ (i # 1 => t[i - 1] = s[i - 1])
        BY <1>2, <3>1
      <3>3. pv2[s[i + 1]] = left
        BY <1>4, <1>5, <1>11, <1>12, <2>2, <3>1
      <3> QED
        BY <2>2, <3>2, <3>3 DEF left
    <2>3. CASE i > k
      <3>1. i + 1 \in 1 .. n /\ ~ (i < k) /\ ~ (i - 1 < k) /\ i # 1 /\ i - 1 \in 1 .. n - 1
            /\ i - 1 + 1 = i /\ i + 1 # 1 /\ i + 1 - 1 = i /\ i + 1 # k /\ i + 1 # k + 1
        BY <1>1, <2>3
      <3>2. t[i] = s[i + 1] /\ t[i - 1] = s[i]
        BY <1>2, <3>1
      <3>3. pv2[s[i + 1]] = pv[s[i + 1]]
        BY <1>4, <1>5, <1>11, <1>12, <3>1
      <3> QED
        BY <1>15, <3>1, <3>2, <3>3
    <2> QED
      BY <1>1, <2>1, <2>2, <2>3
  <1>19. nx2[NumBlocks] = -2 /\ pv2[-1] = -2
    BY <1>5, <1>6, <1>10, <1>11, <1>13, <1>15
  <1>20. \A b \in Blocks : (\A i \in 1 .. n - 1 : b # t[i]) =>
                               nx2[b] = -2 /\ pv2[b] = -2
    <2> SUFFICES ASSUME NEW b \in Blocks, \A i \in 1 .. n - 1 : b # t[i]
                 PROVE  nx2[b] = -2 /\ pv2[b] = -2
      OBVIOUS
    <2>1. b \in Nodes /\ b # -1 /\ b # NumBlocks
      BY NumBlocksAssumption DEF Blocks, Nodes
    <2>2. \A i \in 1 .. n : i # k => b # s[i]
      <3> SUFFICES ASSUME NEW i \in 1 .. n, i # k PROVE b # s[i]
        OBVIOUS
      <3>1. CASE i < k
        <4>1. i \in 1 .. n - 1
          BY <1>1, <3>1
        <4> QED
          BY <1>2, <3>1, <4>1
      <3>2. CASE i > k
        <4>1. i - 1 \in 1 .. n - 1 /\ ~ (i - 1 < k) /\ i - 1 + 1 = i
          BY <1>1, <3>2
        <4> QED
          BY <1>2, <4>1
      <3> QED
        BY <1>1, <3>1, <3>2
    <2>3. b # left /\ b # right
      <3>1. k # 1 => k - 1 \in 1 .. n /\ k - 1 # k
        BY <1>1
      <3>2. k # n => k + 1 \in 1 .. n /\ k + 1 # k
        BY <1>1
      <3> QED
        BY <2>1, <2>2, <3>1, <3>2 DEF left, right
    <2>4. CASE b = s[k]
      BY <1>10, <1>11, <2>1, <2>4
    <2>5. CASE b # s[k]
      <3>1. \A i \in 1 .. n : b # s[i]
        BY <2>2, <2>5
      <3>2. nx[b] = -2 /\ pv[b] = -2
        BY <3>1 DEF Chain
      <3> QED
        BY <1>10, <1>11, <2>1, <2>3, <2>5, <3>2
    <2> QED
      BY <2>4, <2>5
  <1>21. \A i, j \in 1 .. n - 1 : t[i] = t[j] => i = j
    <2> SUFFICES ASSUME NEW i \in 1 .. n - 1, NEW j \in 1 .. n - 1, t[i] = t[j]
                 PROVE  i = j
      OBVIOUS
    <2>1. i \in 1 .. n /\ i + 1 \in 1 .. n /\ j \in 1 .. n /\ j + 1 \in 1 .. n
      BY <1>1
    <2>2. (IF i < k THEN i ELSE i + 1) = (IF j < k THEN j ELSE j + 1)
      BY <1>2, <1>4, <2>1
    <2> QED
      BY <1>1, <2>1, <2>2
  <1>22. n - 1 \in 0 .. NumBlocks /\ num - 1 = n - 1
    BY <1>1, NumBlocksAssumption
  <1>23. Chain(n - 1, t, nx2, pv2, num - 1)
    BY <1>3, <1>16, <1>17, <1>18, <1>19, <1>20, <1>21, <1>22 DEF Chain
  <1> QED
    BY <1>23 DEF t

\* A sequence of distinct blocks has at most NumBlocks of them.
LEMMA DistinctIsShort ==
  ASSUME NEW n \in Nat, NEW u \in [1 .. n -> Blocks],
         \A i, j \in 1 .. n : u[i] = u[j] => i = j
  PROVE  n <= NumBlocks
  <1>1. /\ IsFiniteSet(1 .. n)
        /\ Cardinality(1 .. n) = IF 1 > n THEN 0 ELSE n - 1 + 1
    BY FS_Interval
  <1>2. /\ IsFiniteSet(0 .. NumBlocks - 1)
        /\ Cardinality(0 .. NumBlocks - 1)
             = IF 0 > NumBlocks - 1 THEN 0 ELSE NumBlocks - 1 - 0 + 1
    BY FS_Interval, NumBlocksAssumption
  <1>3. Cardinality(1 .. n) = n
    BY <1>1
  <1>4. IsFiniteSet(Blocks) /\ Cardinality(Blocks) = NumBlocks
    BY <1>2, NumBlocksAssumption DEF Blocks
  <1>5. ~ (Cardinality(Blocks) < Cardinality(1 .. n))
    BY <1>1, <1>4, FS_PigeonHole
  <1> QED
    BY <1>3, <1>4, <1>5, NumBlocksAssumption

\* u is the sequence s of length n with t of length m put in behind position q.
Inserted(n, m, q, s, t, u) ==
  \A i \in 1 .. n + m :
     /\ i <= q => i \in 1 .. n /\ u[i] = s[i]
     /\ i > q /\ i <= q + m => i - q \in 1 .. m /\ u[i] = t[i - q]
     /\ i > q + m => i - m \in 1 .. n /\ u[i] = s[i - m]

\* No element of the sequence s of length n is in it twice.
Once(n, s) == \A i, j \in 1 .. n : s[i] = s[j] => i = j

\* The sequences s and t have no element in common.
Apart(n, s, m, t) == \A i \in 1 .. m, j \in 1 .. n : t[i] # s[j]

\* Two sequences without repetitions and without a common element, one put
\* inside the other behind position q, have no repetition either.
LEMMA InsertDistinct ==
  ASSUME NEW n \in Nat, NEW m \in Nat, NEW q \in Nat, NEW s, NEW t, NEW u,
         Once(n, s), Once(m, t), Apart(n, s, m, t), Inserted(n, m, q, s, t, u)
  PROVE  Once(n + m, u)
  <1> SUFFICES ASSUME NEW i \in 1 .. n + m, NEW j \in 1 .. n + m, u[i] = u[j]
               PROVE  i = j
    BY DEF Once
  <1> USE DEF Inserted, Once, Apart
  <1>1. i \in Int /\ j \in Int
    OBVIOUS
  <1>2. CASE i <= q /\ j <= q
    BY <1>2
  <1>3. CASE i <= q /\ j > q /\ j <= q + m
    BY <1>3
  <1>4. CASE i <= q /\ j > q + m
    <2>1. s[i] = s[j - m] /\ i \in 1 .. n /\ j - m \in 1 .. n
      BY <1>4
    <2>2. i = j - m
      BY <2>1
    <2> QED
      BY <1>1, <1>4, <2>2
  <1>5. CASE i > q /\ i <= q + m /\ j <= q
    BY <1>5
  <1>6. CASE i > q /\ i <= q + m /\ j > q /\ j <= q + m
    <2>1. t[i - q] = t[j - q] /\ i - q \in 1 .. m /\ j - q \in 1 .. m
      BY <1>6
    <2>2. i - q = j - q
      BY <2>1
    <2> QED
      BY <1>1, <2>2
  <1>7. CASE i > q /\ i <= q + m /\ j > q + m
    BY <1>7
  <1>8. CASE i > q + m /\ j <= q
    <2>1. s[i - m] = s[j] /\ j \in 1 .. n /\ i - m \in 1 .. n
      BY <1>8
    <2>2. i - m = j
      BY <2>1
    <2> QED
      BY <1>1, <1>8, <2>2
  <1>9. CASE i > q + m /\ j > q /\ j <= q + m
    BY <1>9
  <1>10. CASE i > q + m /\ j > q + m
    <2>1. s[i - m] = s[j - m] /\ i - m \in 1 .. n /\ j - m \in 1 .. n
      BY <1>10
    <2>2. i - m = j - m
      BY <2>1
    <2> QED
      BY <1>1, <2>2
  <1> QED
    BY <1>1, <1>2, <1>3, <1>4, <1>5, <1>6, <1>7, <1>8, <1>9, <1>10

\* The links nx2, pv2 are nx, pv with the chain left - t[1] - ... - t[m] - right.
Joined(m, t, left, right, nx, pv, nx2, pv2) ==
  /\ nx2[left] = t[1]
  /\ \A i \in 1 .. m : nx2[t[i]] = IF i = m THEN right ELSE t[i + 1]
  /\ \A x \in Nodes : x # left /\ (\A i \in 1 .. m : x # t[i]) => nx2[x] = nx[x]
  /\ pv2[right] = t[m]
  /\ \A i \in 1 .. m : pv2[t[i]] = IF i = 1 THEN left ELSE t[i - 1]
  /\ \A x \in Nodes : x # right /\ (\A i \in 1 .. m : x # t[i]) => pv2[x] = pv[x]

\* Linking m unlinked blocks in behind position q of a chain inserts them there.
LEMMA InsertChain ==
  ASSUME NEW n, NEW s, NEW nx, NEW pv, NEW num, Chain(n, s, nx, pv, num),
         NEW m \in Nat, m > 0, NEW t \in [1 .. m -> Blocks],
         Once(m, t), Apart(n, s, m, t),
         NEW q \in 0 .. n, NEW left, NEW right,
         left = IF q = 0 THEN -1 ELSE s[q],
         right = IF q = n THEN NumBlocks ELSE s[q + 1],
         NEW nx2, NEW pv2, Joined(m, t, left, right, nx, pv, nx2, pv2)
  PROVE  \E u : Inserted(n, m, q, s, t, u) /\ Chain(n + m, u, nx2, pv2, num + m)
  <1> DEFINE u == [i \in 1 .. n + m |-> IF i <= q THEN s[i]
                    ELSE IF i <= q + m THEN t[i - q] ELSE s[i - m]]
  <1> USE DEF Joined, Once, Apart
  <1>1. /\ n \in Nat /\ q \in Nat /\ n <= NumBlocks /\ q <= n /\ num = n
        /\ s \in [1 .. n -> Blocks]
    BY NumBlocksAssumption DEF Chain
  <1>2. \A i \in 1 .. n + m :
          /\ i <= q => i \in 1 .. n /\ u[i] = s[i]
          /\ i > q /\ i <= q + m => i - q \in 1 .. m /\ u[i] = t[i - q]
          /\ i > q + m => i - m \in 1 .. n /\ u[i] = s[i - m]
    BY <1>1
  <1>3. \A i \in 1 .. n + m : u[i] \in Blocks
    BY <1>1, <1>2
  <1>4. u \in [1 .. n + m -> Blocks]
    BY <1>3
  <1>5. \A i, j \in 1 .. n : s[i] = s[j] => i = j
    BY DEF Chain
  <1>6. /\ \A i \in 1 .. n : s[i] \in Nodes /\ s[i] # -1 /\ s[i] # NumBlocks
        /\ \A i \in 1 .. m : t[i] \in Nodes /\ t[i] # -1 /\ t[i] # NumBlocks
        /\ -1 \in Nodes /\ NumBlocks \in Nodes /\ NumBlocks # -1
    BY <1>1, NumBlocksAssumption DEF Blocks, Nodes
  <1>7. /\ \A i \in 1 .. n : s[i] = nx[IF i = 1 THEN -1 ELSE s[i - 1]]
        /\ \A i \in 1 .. n : pv[s[i]] = IF i = 1 THEN -1 ELSE s[i - 1]
        /\ nx[IF n = 0 THEN -1 ELSE s[n]] = NumBlocks
        /\ pv[NumBlocks] = IF n = 0 THEN -1 ELSE s[n]
        /\ nx[NumBlocks] = -2 /\ pv[-1] = -2
    BY DEF Chain
  <1>8. /\ \A i \in 1 .. n : s[i] = left <=> i = q
        /\ \A i \in 1 .. n : s[i] = right <=> i = q + 1
        /\ left # NumBlocks /\ right # -1
        /\ left = -1 <=> q = 0
        /\ right = NumBlocks <=> q = n
        /\ \A i \in 1 .. m : t[i] # left /\ t[i] # right
    <2>1. q # 0 => q \in 1 .. n
      BY <1>1
    <2>2. q # n => q + 1 \in 1 .. n
      BY <1>1
    <2>3. \A i \in 1 .. n : i # 0 /\ i # n + 1
      BY <1>1
    <2> QED
      BY <1>5, <1>6, <2>1, <2>2, <2>3
  <1>9. \A i, j \in 1 .. n + m : u[i] = u[j] => i = j
    <2> HIDE DEF u
    <2>1. Inserted(n, m, q, s, t, u)
      BY <1>2 DEF Inserted
    <2>2. Once(n, s) /\ Once(m, t) /\ Apart(n, s, m, t)
      BY <1>5 DEF Once, Apart
    <2> HIDE DEF Once, Apart
    <2>3. Once(n + m, u)
      BY <1>1, <2>1, <2>2, InsertDistinct
    <2> QED
      BY <2>3 DEF Once
  <1> HIDE DEF u
  <1>10. n + m \in 0 .. NumBlocks /\ num + m = n + m
    <2>1. n + m \in Nat
      BY <1>1
    <2>2. n + m <= NumBlocks
      BY <1>4, <1>9, <2>1, DistinctIsShort
    <2> QED
      BY <1>1, <2>1, <2>2, NumBlocksAssumption
  <1>11. \A i \in 1 .. n + m : u[i] = nx2[IF i = 1 THEN -1 ELSE u[i - 1]]
    <2> SUFFICES ASSUME NEW i \in 1 .. n + m
                 PROVE  u[i] = nx2[IF i = 1 THEN -1 ELSE u[i - 1]]
      OBVIOUS
    <2>1. CASE i <= q
      <3>1. i \in 1 .. n /\ u[i] = s[i] /\ q # 0
        BY <1>1, <1>2, <2>1
      <3>2. CASE i = 1
        BY <1>6, <1>7, <1>8, <3>1, <3>2
      <3>3. CASE i # 1
        <4>1. i - 1 \in 1 .. n + m /\ i - 1 <= q /\ i - 1 # q /\ i - 1 \in 1 .. n
          BY <1>1, <2>1, <3>3
        <4>2. u[i - 1] = s[i - 1]
          BY <1>2, <4>1
        <4>3. nx2[s[i - 1]] = nx[s[i - 1]]
          BY <1>6, <1>8, <4>1
        <4> QED
          BY <1>7, <3>1, <3>3, <4>2, <4>3
      <3> QED
        BY <3>2, <3>3
    <2>2. CASE i = q + 1
      <3>1. u[i] = t[1]
        <4>1. i > q /\ i <= q + m /\ i - q = 1
          BY <1>1, <2>2
        <4> QED
          BY <1>2, <4>1
      <3>2. CASE q = 0
        BY <1>1, <1>8, <2>2, <3>1, <3>2
      <3>3. CASE q # 0
        <4>1. i # 1 /\ i - 1 = q /\ i - 1 \in 1 .. n + m /\ i - 1 <= q
          BY <1>1, <2>2, <3>3
        <4>2. u[i - 1] = s[q]
          BY <1>2, <4>1
        <4> QED
          BY <3>1, <3>3, <4>1, <4>2
      <3> QED
        BY <3>2, <3>3
    <2>3. CASE i > q + 1 /\ i <= q + m
      <3>1. i # 1 /\ i - 1 \in 1 .. n + m /\ i > q /\ i - 1 > q /\ i - 1 <= q + m
            /\ i - 1 - q + 1 = i - q /\ i - 1 - q # m
        BY <1>1, <2>3
      <3>2. u[i] = t[i - q] /\ u[i - 1] = t[i - 1 - q] /\ i - 1 - q \in 1 .. m
        BY <1>2, <2>3, <3>1
      <3>3. nx2[t[i - 1 - q]] = t[i - 1 - q + 1]
        BY <3>1, <3>2
      <3> QED
        BY <3>1, <3>2, <3>3
    <2>4. CASE i = q + m + 1
      <3>1. i # 1 /\ i - 1 \in 1 .. n + m /\ i - 1 > q /\ i - 1 <= q + m /\ i - 1 - q = m
            /\ i > q + m /\ i - m = q + 1 /\ q # n
        BY <1>1, <2>4
      <3>2. u[i] = s[q + 1] /\ u[i - 1] = t[m]
        BY <1>2, <3>1
      <3>3. m \in 1 .. m
        OBVIOUS
      <3> QED
        BY <3>1, <3>2, <3>3
    <2>5. CASE i > q + m + 1
      <3>1. i # 1 /\ i - 1 \in 1 .. n + m /\ i > q + m /\ i - 1 > q + m
            /\ i - m - 1 = i - 1 - m /\ i - 1 - m # q /\ i - m # 1
        BY <1>1, <2>5
      <3>2. u[i] = s[i - m] /\ u[i - 1] = s[i - 1 - m] /\ i - m \in 1 .. n /\ i - 1 - m \in 1 .. n
        BY <1>2, <3>1
      <3>3. nx2[s[i - 1 - m]] = nx[s[i - 1 - m]]
        BY <1>6, <1>8, <3>1, <3>2
      <3>4. s[i - m] = nx[s[i - m - 1]]
        BY <1>7, <3>1, <3>2
      <3> QED
        BY <3>1, <3>2, <3>3, <3>4
    <2> QED
      BY <1>1, <2>1, <2>2, <2>3, <2>4, <2>5
  <1>12. \A i \in 1 .. n + m : pv2[u[i]] = IF i = 1 THEN -1 ELSE u[i - 1]
    <2> SUFFICES ASSUME NEW i \in 1 .. n + m
                 PROVE  pv2[u[i]] = IF i = 1 THEN -1 ELSE u[i - 1]
      OBVIOUS
    <2>1. CASE i <= q
      <3>1. i \in 1 .. n /\ u[i] = s[i] /\ i # q + 1
        BY <1>1, <1>2, <2>1
      <3>2. pv2[s[i]] = pv[s[i]]
        BY <1>6, <1>8, <3>1
      <3>3. i # 1 => u[i - 1] = s[i - 1]
        <4>1. i # 1 => i - 1 \in 1 .. n + m /\ i - 1 <= q
          BY <1>1, <2>1
        <4> QED
          BY <1>2, <4>1
      <3> QED
        BY <1>7, <3>1, <3>2, <3>3
    <2>2. CASE i = q + 1
      <3>1. i > q /\ i <= q + m /\ i - q = 1 /\ (q = 0 <=> i = 1) /\ 1 \in 1 .. m
        BY <1>1, <2>2
      <3>2. u[i] = t[1]
        BY <1>2, <3>1
      <3>3. i # 1 => u[i - 1] = s[q]
        <4>1. i # 1 => i - 1 \in 1 .. n + m /\ i - 1 <= q /\ i - 1 = q
          BY <1>1, <2>2
        <4> QED
          BY <1>2, <4>1
      <3> QED
        BY <3>1, <3>2, <3>3
    <2>3. CASE i > q + 1 /\ i <= q + m
      <3>1. i # 1 /\ i - 1 \in 1 .. n + m /\ i > q /\ i - 1 > q /\ i - 1 <= q + m
            /\ i - q - 1 = i - 1 - q /\ i - q # 1
        BY <1>1, <2>3
      <3>2. u[i] = t[i - q] /\ u[i - 1] = t[i - 1 - q] /\ i - q \in 1 .. m
        BY <1>2, <2>3, <3>1
      <3>3. pv2[t[i - q]] = t[i - q - 1]
        BY <3>1, <3>2
      <3> QED
        BY <3>1, <3>2, <3>3
    <2>4. CASE i = q + m + 1
      <3>1. i # 1 /\ i - 1 \in 1 .. n + m /\ i - 1 > q /\ i - 1 <= q + m /\ i - 1 - q = m
            /\ i > q + m /\ i - m = q + 1 /\ q # n
        BY <1>1, <2>4
      <3>2. u[i] = s[q + 1] /\ u[i - 1] = t[m]
        BY <1>2, <3>1
      <3> QED
        BY <3>1, <3>2
    <2>5. CASE i > q + m + 1
      <3>1. i # 1 /\ i - 1 \in 1 .. n + m /\ i > q + m /\ i - 1 > q + m
            /\ i - m - 1 = i - 1 - m /\ i - m # q + 1 /\ i - m # 1
        BY <1>1, <2>5
      <3>2. u[i] = s[i - m] /\ u[i - 1] = s[i - 1 - m] /\ i - m \in 1 .. n
        BY <1>2, <3>1
      <3>3. pv2[s[i - m]] = pv[s[i - m]]
        BY <1>6, <1>8, <3>1, <3>2
      <3>4. pv[s[i - m]] = s[i - m - 1]
        BY <1>7, <3>1, <3>2
      <3> QED
        BY <3>1, <3>2, <3>3, <3>4
    <2> QED
      BY <1>1, <2>1, <2>2, <2>3, <2>4, <2>5
  <1>13. /\ nx2[IF n + m = 0 THEN -1 ELSE u[n + m]] = NumBlocks
         /\ pv2[NumBlocks] = IF n + m = 0 THEN -1 ELSE u[n + m]
    <2>1. n + m # 0 /\ n + m \in 1 .. n + m
      BY <1>1
    <2>2. CASE q = n
      <3>1. u[n + m] = t[m] /\ m \in 1 .. m
        <4>1. n + m > q /\ n + m <= q + m /\ n + m - q = m
          BY <1>1, <2>2
        <4>2. m \in 1 .. m
          OBVIOUS
        <4>3. u[n + m] = t[n + m - q]
          <5>1. \A i \in 1 .. n + m : i > q /\ i <= q + m => u[i] = t[i - q]
            BY <1>2
          <5>2. n + m \in 1 .. n + m
            BY <2>1
          <5> QED
            BY <1>1, <4>1, <5>1, <5>2
        <4> QED
          BY <4>1, <4>2, <4>3
      <3> QED
        BY <1>8, <2>1, <2>2, <3>1
    <2>3. CASE q # n
      <3>1. n + m > q + m /\ n + m - m = n /\ n # q /\ n # 0 /\ n \in 1 .. n
        BY <1>1, <2>3
      <3>2. u[n + m] = s[n]
        BY <1>2, <2>1, <3>1
      <3>3. nx2[s[n]] = nx[s[n]]
        BY <1>6, <1>8, <3>1
      <3>4. pv2[NumBlocks] = pv[NumBlocks]
        BY <1>6, <1>8, <2>3
      <3> QED
        BY <1>7, <2>1, <3>1, <3>2, <3>3, <3>4
    <2> QED
      BY <2>2, <2>3
  <1>14. nx2[NumBlocks] = -2 /\ pv2[-1] = -2
    BY <1>6, <1>7, <1>8
  <1>15. \A b \in Blocks : (\A i \in 1 .. n + m : b # u[i]) =>
                               nx2[b] = -2 /\ pv2[b] = -2
    <2> SUFFICES ASSUME NEW b \in Blocks, \A i \in 1 .. n + m : b # u[i]
                 PROVE  nx2[b] = -2 /\ pv2[b] = -2
      OBVIOUS
    <2>1. b \in Nodes /\ b # -1 /\ b # NumBlocks
      BY NumBlocksAssumption DEF Blocks, Nodes
    <2>2. \A i \in 1 .. n : b # s[i]
      <3> SUFFICES ASSUME NEW i \in 1 .. n PROVE b # s[i]
        OBVIOUS
      <3>1. CASE i <= q
        <4>1. i \in 1 .. n + m
          BY <1>1
        <4> QED
          BY <1>2, <3>1, <4>1
      <3>2. CASE i > q
        <4>1. i + m \in 1 .. n + m /\ i + m > q + m /\ i + m - m = i
          BY <1>1, <3>2
        <4> QED
          BY <1>2, <4>1
      <3> QED
        BY <1>1, <3>1, <3>2
    <2>3. \A i \in 1 .. m : b # t[i]
      <3> SUFFICES ASSUME NEW i \in 1 .. m PROVE b # t[i]
        OBVIOUS
      <3>1. i + q \in 1 .. n + m /\ i + q > q /\ i + q <= q + m /\ i + q - q = i
        BY <1>1
      <3> QED
        BY <1>2, <3>1
    <2>4. b # left /\ b # right
      <3>1. q # 0 => q \in 1 .. n
        BY <1>1
      <3>2. q # n => q + 1 \in 1 .. n
        BY <1>1
      <3> QED
        BY <2>1, <2>2, <3>1, <3>2
    <2>5. nx[b] = -2 /\ pv[b] = -2
      BY <2>2 DEF Chain
    <2> QED
      BY <2>1, <2>3, <2>4, <2>5
  <1>16. Chain(n + m, u, nx2, pv2, num + m)
    BY <1>4, <1>9, <1>10, <1>11, <1>12, <1>13, <1>14, <1>15 DEF Chain
  <1>17. Inserted(n, m, q, s, t, u)
    BY <1>2 DEF Inserted
  <1> QED
    BY <1>16, <1>17

\* The chain behind a state of the list, and which blocks are on it.
LEMMA OnTheList ==
  ASSUME NEW n, NEW s, NEW nx, NEW pv, NEW num, Chain(n, s, nx, pv, num)
  PROVE  /\ \A i \in 1 .. n : nx[s[i]] # -2 /\ pv[s[i]] # -2
         /\ \A b \in Blocks : nx[b] # -2 => \E i \in 1 .. n : b = s[i]
         /\ nx[-1] = IF n = 0 THEN NumBlocks ELSE s[1]
         /\ n \in Nat /\ n <= NumBlocks /\ num = n
         /\ s \in [1 .. n -> Blocks] /\ Once(n, s)
         /\ pv[NumBlocks] = IF n = 0 THEN -1 ELSE s[n]
         /\ \A i \in 1 .. n : nx[s[i]] = IF i = n THEN NumBlocks ELSE s[i + 1]
  <1>1. n \in Nat /\ n <= NumBlocks /\ num = n /\ s \in [1 .. n -> Blocks]
    BY NumBlocksAssumption DEF Chain
  <1>2. \A i \in 1 .. n : s[i] # -1 /\ s[i] # -2
    BY <1>1 DEF Blocks
  <1>3. \A i \in 1 .. n : nx[s[i]] = IF i = n THEN NumBlocks ELSE s[i + 1]
    <2> SUFFICES ASSUME NEW i \in 1 .. n
                 PROVE  nx[s[i]] = IF i = n THEN NumBlocks ELSE s[i + 1]
      OBVIOUS
    <2>1. CASE i = n
      BY <1>1, <2>1 DEF Chain
    <2>2. CASE i # n
      <3>1. i + 1 \in 1 .. n /\ i + 1 # 1 /\ i + 1 - 1 = i
        BY <1>1, <2>2
      <3>2. s[i + 1] = nx[s[i + 1 - 1]]
        BY <3>1 DEF Chain
      <3> QED
        BY <2>2, <3>1, <3>2
    <2> QED
      BY <2>1, <2>2
  <1>4. \A i \in 1 .. n : i # n => i + 1 \in 1 .. n
    BY <1>1
  <1>5. \A i \in 1 .. n : nx[s[i]] # -2
    BY <1>2, <1>3, <1>4, NumBlocksAssumption
  <1>6. \A i \in 1 .. n : i # 1 => i - 1 \in 1 .. n
    BY <1>1
  <1>7. \A i \in 1 .. n : pv[s[i]] # -2
    BY <1>2, <1>6 DEF Chain
  <1>8. nx[-1] = IF n = 0 THEN NumBlocks ELSE s[1]
    <2>1. n # 0 => 1 \in 1 .. n
      BY <1>1
    <2> QED
      BY <2>1 DEF Chain
  <1> QED
    BY <1>1, <1>3, <1>5, <1>7, <1>8 DEF Chain, Once

\* A step that leaves a chain of links in the next state keeps the list well linked.
LEMMA ChainAfter ==
  ASSUME NEW n, NEW s,
         Chain(n, s, next_free_block', prev_free_block', num_free_blocks')
  PROVE  WellLinked'
  <1>1. ChainsAreRepresented'
    BY ChainRepresents, PTL
  <1>2. Represents(s)'
    BY <1>1 DEF ChainsAreRepresented
  <1> QED
    BY <1>2 DEF WellLinked, Represents

\* The sequence u of length m is what one operation may make of the sequence s of length n:
\* a prefix is gone, one element is gone, or others stand behind or in front of it.
Follows(n, s, m, u) ==
  \/ \E k \in 1 .. n : m = n - k /\ u = [i \in 1 .. n - k |-> s[i + k]]
  \/ \E k \in 1 .. n :
       m = n - 1 /\ u = [i \in 1 .. n - 1 |-> IF i < k THEN s[i] ELSE s[i + 1]]
  \/ m > n /\ \A i \in 1 .. n : u[i] = s[i]
  \/ m > n /\ \A i \in 1 .. n : u[m - n + i] = s[i]

\* popleft and popleft_n: dropping a prefix of the list.
LEMMA DropStep ==
  ASSUME NEW n, NEW s,
         Chain(n, s, next_free_block, prev_free_block, num_free_blocks),
         TypeOK, NEW k \in 1 .. n, NEW t \in [1 .. k -> Blocks],
         \A i \in 1 .. k : t[i] = s[i],
         DropFront(t, next_free_block[t[k]])
  PROVE  /\ TypeOK'
         /\ Chain(n - k, [i \in 1 .. n - k |-> s[i + k]],
                  next_free_block', prev_free_block', num_free_blocks')
  <1> DEFINE after == next_free_block[t[k]]
  <1>1. k \in Nat /\ k \in 1 .. k /\ n \in Nat /\ n <= NumBlocks /\ num_free_blocks = n
    BY OnTheList
  <1>2. after = IF k = n THEN NumBlocks ELSE s[k + 1]
    BY <1>1, OnTheList
  <1>3. Len(t) = k /\ DOMAIN t = 1 .. k
    BY <1>1
  <1>4. \A x : x \in Elements(t) <=> \E i \in 1 .. k : x = s[i]
    BY <1>3 DEF Elements
  <1>5. after \in Nodes /\ -1 \in Links /\ -2 \in Links /\ Nodes \subseteq Links
    <2>1. k # n => k + 1 \in 1 .. n
      BY <1>1
    <2>2. \A i \in 1 .. n : s[i] \in Nodes
      BY OnTheList, NumBlocksAssumption DEF Blocks, Nodes
    <2> QED
      BY <1>2, <2>1, <2>2, NumBlocksAssumption DEF Nodes, Links
  <1> HIDE DEF after
  <1>6. /\ next_free_block' = [x \in Nodes |-> IF x = -1 THEN after
             ELSE IF \E i \in 1 .. k : x = s[i] THEN -2 ELSE next_free_block[x]]
        /\ prev_free_block' = [x \in Nodes |-> IF x = after THEN -1
             ELSE IF \E i \in 1 .. k : x = s[i] THEN -2 ELSE prev_free_block[x]]
        /\ num_free_blocks' = num_free_blocks - k
    BY <1>3, <1>4 DEF DropFront, after
  <1>7. TypeOK'
    <2>1. next_free_block \in [Nodes -> Links] /\ prev_free_block \in [Nodes -> Links]
      BY DEF TypeOK
    <2>2. next_free_block' \in [Nodes -> Links] /\ prev_free_block' \in [Nodes -> Links]
      BY <1>5, <1>6, <2>1
    <2>3. num_free_blocks' \in 0 .. NumBlocks
      BY <1>1, <1>6, NumBlocksAssumption
    <2> QED
      BY <2>2, <2>3 DEF TypeOK
  <1>8. Chain(n - k, [i \in 1 .. n - k |-> s[i + k]],
              next_free_block', prev_free_block', num_free_blocks')
    BY <1>2, <1>6, DropChain
  <1> QED
    BY <1>7, <1>8

\* append, append_n and prepend_n: linking a batch in at either end.
LEMMA SpliceStep ==
  ASSUME NEW n, NEW s,
         Chain(n, s, next_free_block, prev_free_block, num_free_blocks),
         TypeOK, NEW t \in BlockSeqs, t # << >>, Returnable(t),
         NEW q, q = 0 \/ q = n,
         Splice(IF q = 0 THEN -1 ELSE s[q], t, IF q = n THEN NumBlocks ELSE s[q + 1])
  PROVE  /\ TypeOK' /\ Len(t) \in Nat /\ Len(t) > 0
         /\ \E u : /\ Inserted(n, Len(t), q, s, t, u)
                  /\ Chain(n + Len(t), u,
                           next_free_block', prev_free_block', num_free_blocks')
  <1> DEFINE m == Len(t)
             left == IF q = 0 THEN -1 ELSE s[q]
             right == IF q = n THEN NumBlocks ELSE s[q + 1]
             at(x) == CHOOSE i \in DOMAIN t : t[i] = x
  <1>1. /\ m \in Nat /\ m > 0 /\ t \in [1 .. m -> Blocks] /\ DOMAIN t = 1 .. m
        /\ Once(m, t)
    BY BlockSeqsType, EmptySeq, NumBlocksAssumption DEF Distinct, Once
  <1>2. n \in Nat /\ n <= NumBlocks /\ num_free_blocks = n /\ q \in 0 .. n
        /\ s \in [1 .. n -> Blocks]
    BY OnTheList
  <1>3. Apart(n, s, m, t)
    BY <1>1, OnTheList DEF Returnable, Unlinked, Apart
  <1>4. \A i \in 1 .. m : at(t[i]) = i
    BY <1>1 DEF Once
  <1>5. \A x : x \in Elements(t) <=> \E i \in 1 .. m : x = t[i]
    BY <1>1 DEF Elements
  <1>6. \A i \in 1 .. m : t[i] \in Nodes /\ t[i] # -1 /\ t[i] # NumBlocks
    BY <1>1, NumBlocksAssumption DEF Blocks, Nodes
  <1>7. \A i \in 1 .. n : s[i] \in Nodes
    BY <1>2, NumBlocksAssumption DEF Blocks, Nodes
  <1>8. (q # 0 => q \in 1 .. n) /\ (q # n => q + 1 \in 1 .. n)
    BY <1>2
  <1>9. left \in Nodes /\ right \in Nodes /\ \A i \in 1 .. m : t[i] # left /\ t[i] # right
    <2>1. -1 \in Nodes /\ NumBlocks \in Nodes
      BY NumBlocksAssumption DEF Nodes
    <2> QED
      BY <1>3, <1>6, <1>7, <1>8, <2>1 DEF Apart
  <1>10. /\ next_free_block' = [x \in Nodes |-> IF x = left THEN t[1]
              ELSE IF x \in Elements(t)
                   THEN IF at(x) = m THEN right ELSE t[at(x) + 1]
                   ELSE next_free_block[x]]
         /\ prev_free_block' = [x \in Nodes |-> IF x = right THEN t[m]
              ELSE IF x \in Elements(t)
                   THEN IF at(x) = 1 THEN left ELSE t[at(x) - 1]
                   ELSE prev_free_block[x]]
         /\ num_free_blocks' = num_free_blocks + m
    BY DEF Splice
  <1> HIDE DEF m, left, right, at
  <1>11. Joined(m, t, left, right, next_free_block, prev_free_block,
                next_free_block', prev_free_block')
    BY <1>4, <1>5, <1>6, <1>9, <1>10 DEF Joined
  <1>12. PICK u : /\ Inserted(n, m, q, s, t, u)
                  /\ Chain(n + m, u, next_free_block', prev_free_block', num_free_blocks')
    <2>1. /\ left = IF q = 0 THEN -1 ELSE s[q]
          /\ right = IF q = n THEN NumBlocks ELSE s[q + 1]
      BY DEF left, right
    <2>2. \E u : /\ Inserted(n, m, q, s, t, u)
                 /\ Chain(n + m, u, next_free_block', prev_free_block', num_free_blocks + m)
      BY <1>1, <1>2, <1>3, <1>11, <2>1, InsertChain
    <2> QED
      BY <1>10, <2>2
  <1>13. num_free_blocks' \in 0 .. NumBlocks
    BY <1>12, NumBlocksAssumption DEF Chain
  <1>14. \A i \in 1 .. m : t[i] \in Links
    BY <1>6, NumBlocksAssumption DEF Nodes, Links
  <1>15. left \in Links /\ right \in Links
    BY <1>9, NumBlocksAssumption DEF Nodes, Links
  <1>16. \A x \in Nodes : next_free_block'[x] \in Links /\ prev_free_block'[x] \in Links
    <2> SUFFICES ASSUME NEW x \in Nodes
                 PROVE  next_free_block'[x] \in Links /\ prev_free_block'[x] \in Links
      OBVIOUS
    <2>1. next_free_block[x] \in Links /\ prev_free_block[x] \in Links
      BY DEF TypeOK
    <2>2. 1 \in 1 .. m /\ m \in 1 .. m
      BY <1>1
    <2>3. CASE \E i \in 1 .. m : x = t[i]
      <3>1. PICK i \in 1 .. m : x = t[i]
        BY <2>3
      <3>2. (i # m => i + 1 \in 1 .. m) /\ (i # 1 => i - 1 \in 1 .. m)
        BY <1>1
      <3>3. at(x) = i /\ x \in Elements(t)
        BY <1>4, <1>5, <3>1
      <3> QED
        BY <1>10, <1>14, <1>15, <2>2, <3>2, <3>3
    <2>4. CASE ~ \E i \in 1 .. m : x = t[i]
      BY <1>5, <1>10, <1>14, <2>1, <2>2, <2>4
    <2> QED
      BY <2>3, <2>4
  <1>17. TypeOK'
    BY <1>10, <1>13, <1>16 DEF TypeOK
  <1> QED
    BY <1>1, <1>12, <1>17 DEF m

\* Linking in at the end of the list puts the blocks behind the others.
LEMMA SpliceBehind ==
  ASSUME NEW n \in Nat, NEW s,
         Chain(n, s, next_free_block, prev_free_block, num_free_blocks),
         TypeOK, NEW t \in BlockSeqs, t # << >>, Returnable(t),
         Splice(IF n = 0 THEN -1 ELSE s[n], t, IF n = n THEN NumBlocks ELSE s[n + 1])
  PROVE  /\ TypeOK'
         /\ \E m, u : /\ Follows(n, s, m, u)
                     /\ Chain(m, u, next_free_block', prev_free_block', num_free_blocks')
  <1>1. TypeOK' /\ Len(t) \in Nat /\ Len(t) > 0
    BY SpliceStep
  <1>2. PICK u : /\ Inserted(n, Len(t), n, s, t, u)
                 /\ Chain(n + Len(t), u,
                          next_free_block', prev_free_block', num_free_blocks')
    BY SpliceStep
  <1>3. n + Len(t) > n /\ \A i \in 1 .. n : u[i] = s[i]
    BY <1>1, <1>2 DEF Inserted
  <1>4. Follows(n, s, n + Len(t), u)
    BY <1>3 DEF Follows
  <1> QED
    BY <1>1, <1>2, <1>4

\* Linking in at the head of the list puts the blocks in front of the others.
LEMMA SpliceInFront ==
  ASSUME NEW n \in Nat, NEW s,
         Chain(n, s, next_free_block, prev_free_block, num_free_blocks),
         TypeOK, NEW t \in BlockSeqs, t # << >>, Returnable(t),
         Splice(IF 0 = 0 THEN -1 ELSE s[0], t, IF 0 = n THEN NumBlocks ELSE s[0 + 1])
  PROVE  /\ TypeOK'
         /\ \E m, u : /\ Follows(n, s, m, u)
                     /\ Chain(m, u, next_free_block', prev_free_block', num_free_blocks')
  <1>1. TypeOK' /\ Len(t) \in Nat /\ Len(t) > 0
    BY SpliceStep
  <1>2. PICK u : /\ Inserted(n, Len(t), 0, s, t, u)
                 /\ Chain(n + Len(t), u,
                          next_free_block', prev_free_block', num_free_blocks')
    BY SpliceStep
  <1>3. ASSUME NEW i \in 1 .. n
        PROVE  u[(n + Len(t)) - n + i] = s[i]
    <2>1. /\ (n + Len(t)) - n + i = Len(t) + i /\ Len(t) + i \in 1 .. n + Len(t)
          /\ Len(t) + i > 0 + Len(t) /\ (Len(t) + i) - Len(t) = i
      BY <1>1
    <2> QED
      BY <1>2, <2>1 DEF Inserted
  <1>4. Follows(n, s, n + Len(t), u)
    BY <1>1, <1>3 DEF Follows
  <1> QED
    BY <1>1, <1>2, <1>4

(***************************************************************************)
(* NextChain: every operation of the queue turns the chain into the one    *)
(* the abstract queue has after it, and keeps the counter in step.         *)
(***************************************************************************)
LEMMA NextChain ==
  ASSUME TypeOK, Next, NEW n, NEW s,
         Chain(n, s, next_free_block, prev_free_block, num_free_blocks)
  PROVE  /\ TypeOK'
         /\ \E m, u : /\ Follows(n, s, m, u)
                     /\ Chain(m, u, next_free_block', prev_free_block', num_free_blocks')
  <1> DEFINE After == \E m, u :
               /\ Follows(n, s, m, u)
               /\ Chain(m, u, next_free_block', prev_free_block', num_free_blocks')
  <1>1. /\ n \in Nat /\ n <= NumBlocks /\ num_free_blocks = n
        /\ s \in [1 .. n -> Blocks] /\ Once(n, s)
    BY OnTheList
  <1>2. next_free_block[-1] = IF n = 0 THEN NumBlocks ELSE s[1]
    BY OnTheList
  <1>3. prev_free_block[NumBlocks] = IF n = 0 THEN -1 ELSE s[n]
    BY OnTheList
  <1>4. CASE popleft
    <2> DEFINE first == next_free_block[-1]
    <2>1. first # NumBlocks /\ DropFront(<<first>>, next_free_block[first])
      BY <1>4 DEF popleft
    <2>2. n # 0 /\ 1 \in 1 .. n /\ first = s[1] /\ first \in Blocks
      BY <1>1, <1>2, <2>1
    <2>3. /\ <<first>> \in [1 .. 1 -> Blocks]
          /\ <<first>>[1] = first
          /\ \A i \in 1 .. 1 : <<first>>[i] = s[i]
      BY <2>2
    <2> HIDE DEF first
    <2>4. TypeOK' /\ Chain(n - 1, [i \in 1 .. n - 1 |-> s[i + 1]],
                           next_free_block', prev_free_block', num_free_blocks')
      BY <2>1, <2>2, <2>3, DropStep
    <2>5. Follows(n, s, n - 1, [i \in 1 .. n - 1 |-> s[i + 1]])
      BY <2>2 DEF Follows
    <2> QED
      BY <2>4, <2>5
  <1>5. ASSUME NEW k \in 1 .. NumBlocks, popleft_n(k)
        PROVE  TypeOK' /\ After
    <2>1. PICK t \in [1 .. k -> Blocks] :
            IsFront(t) /\ DropFront(t, next_free_block[t[k]])
      BY <1>5 DEF popleft_n
    <2>2. k \in 1 .. n
      BY <1>1, <1>5, NumBlocksAssumption DEF popleft_n
    <2>3. \A i \in 1 .. k : t[i] = next_free_block[IF i = 1 THEN -1 ELSE t[i - 1]]
      BY <2>1 DEF IsFront
    <2>4. \A i \in 1 .. k : t[i] = s[i]
      BY <2>2, <2>3, FrontIsPrefix
    <2>5. TypeOK' /\ Chain(n - k, [i \in 1 .. n - k |-> s[i + k]],
                           next_free_block', prev_free_block', num_free_blocks')
      BY <2>1, <2>2, <2>4, DropStep
    <2>6. Follows(n, s, n - k, [i \in 1 .. n - k |-> s[i + k]])
      BY <2>2 DEF Follows
    <2> QED
      BY <2>5, <2>6
  <1>6. ASSUME NEW b \in Blocks, remove(b)
        PROVE  TypeOK' /\ After
    <2>1. PICK k \in 1 .. n : b = s[k]
      BY <1>6, OnTheList DEF remove
    <2>2. next_free_block \in [Nodes -> Links] /\ prev_free_block \in [Nodes -> Links]
      BY DEF TypeOK
    <2>3. /\ next_free_block' = [next_free_block EXCEPT
               ![prev_free_block[s[k]]] = next_free_block[s[k]], ![s[k]] = -2]
          /\ prev_free_block' = [prev_free_block EXCEPT
               ![next_free_block[s[k]]] = prev_free_block[s[k]], ![s[k]] = -2]
          /\ num_free_blocks' = num_free_blocks - 1
      BY <1>6, <2>1 DEF remove
    <2>4. Chain(n - 1, [i \in 1 .. n - 1 |-> IF i < k THEN s[i] ELSE s[i + 1]],
                next_free_block', prev_free_block', num_free_blocks - 1)
      <3>1. Unhooked(s[k], next_free_block, prev_free_block,
                     next_free_block', prev_free_block')
        BY <2>3 DEF Unhooked
      <3> QED
        BY <2>2, <3>1, RemoveChain
    <2>5. s[k] \in Nodes /\ -2 \in Links
      BY <1>1, NumBlocksAssumption DEF Blocks, Nodes, Links
    <2>6. TypeOK'
      <3>1. /\ next_free_block' \in [Nodes -> Links]
            /\ prev_free_block' \in [Nodes -> Links]
        BY <2>2, <2>3, <2>5
      <3>2. num_free_blocks' \in 0 .. NumBlocks
        BY <1>1, <2>1, <2>3, NumBlocksAssumption
      <3> QED
        BY <3>1, <3>2 DEF TypeOK
    <2> QED
      BY <1>1, <2>1, <2>3, <2>4, <2>6 DEF Follows
  <1>7. ASSUME NEW b \in Blocks, append(b)
        PROVE  TypeOK' /\ After
    <2>1. /\ <<b>> \in [1 .. 1 -> Blocks] /\ Distinct(<<b>>) /\ 1 \in 0 .. NumBlocks
          /\ <<b>> # << >>
      BY NumBlocksAssumption DEF Distinct, Blocks
    <2>2. <<b>> \in BlockSeqs
      BY <2>1, BlockSeqsIntro
    <2>3. /\ Returnable(<<b>>)
          /\ Splice(IF n = 0 THEN -1 ELSE s[n], <<b>>, NumBlocks)
      BY <1>3, <1>7 DEF append
    <2>4. Splice(IF n = 0 THEN -1 ELSE s[n], <<b>>, IF n = n THEN NumBlocks ELSE s[n + 1])
      BY <2>3
    <2> QED
      BY <1>1, <2>1, <2>2, <2>3, <2>4, SpliceBehind
  <1>8. ASSUME NEW t \in BlockSeqs, append_n(t)
         PROVE  TypeOK' /\ After
    <2>1. /\ t # << >> /\ Returnable(t)
          /\ Splice(IF n = 0 THEN -1 ELSE s[n], t, NumBlocks)
      BY <1>3, <1>8 DEF append_n
    <2>2. Splice(IF n = 0 THEN -1 ELSE s[n], t, IF n = n THEN NumBlocks ELSE s[n + 1])
      BY <2>1
    <2> QED
      BY <1>1, <2>1, <2>2, SpliceBehind
  <1>9. ASSUME NEW t \in BlockSeqs, prepend_n(t)
         PROVE  TypeOK' /\ After
    <2>1. /\ t # << >> /\ Returnable(t)
          /\ Splice(-1, t, IF n = 0 THEN NumBlocks ELSE s[1])
      BY <1>2, <1>9 DEF prepend_n
    <2>2. Splice(IF 0 = 0 THEN -1 ELSE s[0], t, IF 0 = n THEN NumBlocks ELSE s[0 + 1])
      BY <1>1, <2>1
    <2> QED
      BY <1>1, <2>1, <2>2, SpliceInFront
  <1> QED
    BY <1>4, <1>5, <1>6, <1>7, <1>8, <1>9 DEF Next

\* Every operation keeps the list well linked and the counter in step with it.
LEMMA NextWellLinked == TypeOK /\ WellLinked /\ [Next]_vars => TypeOK' /\ WellLinked'
  <1> SUFFICES ASSUME TypeOK, WellLinked, [Next]_vars
               PROVE  TypeOK' /\ WellLinked'
    OBVIOUS
  <1>1. PICK s \in BlockSeqs : Represents(s)
    BY DEF WellLinked
  <1>2. Chain(Len(s), s, next_free_block, prev_free_block, num_free_blocks)
    BY <1>1, RepresentsChain
  <1>3. CASE Next
    BY <1>2, <1>3, NextChain, ChainAfter
  <1>4. CASE UNCHANGED vars
    BY <1>4 DEF vars, TypeOK, WellLinked, Represents, IsWholeList, IsFront, LastOf,
                Unlinked
  <1> QED
    BY <1>3, <1>4

(***************************************************************************)
(* The queue's representation invariant, for every number of blocks: the   *)
(* links of FreeKVCacheBlockQueue always form one chain, the same read     *)
(* forwards and backwards, with num_free_blocks blocks on it.              *)
(***************************************************************************)
THEOREM AlwaysWellLinked == Spec => [](TypeOK /\ WellLinked)
  <1>1. Init => TypeOK /\ WellLinked
    BY InitWellLinked
  <1>2. (TypeOK /\ WellLinked) /\ [Next]_vars => (TypeOK /\ WellLinked)'
    BY NextWellLinked
  <1> QED
    BY <1>1, <1>2, PTL DEF Spec
-----------------------------------------------------------------------------
(* The links implement the abstract queue.                                 *)

\* F reads the list: F[x] are the blocks behind node x.
Reading(F) ==
  F = [x \in Nodes |-> IF next_free_block[x] \notin Blocks THEN << >>
                       ELSE <<next_free_block[x]>> \o F[next_free_block[x]]]

\* The node at position i of s, the head at 0, and the elements of s behind it.
NodeAt(s, i) == IF i = 0 THEN -1 ELSE s[i]

Rest(n, s, i) == [j \in 1 .. n - i |-> s[i + j]]

\* The next node, its block and what is behind it are the rest of the list.
LEMMA RestUnfolds ==
  ASSUME NEW n, NEW s, NEW nx, NEW pv, NEW num, Chain(n, s, nx, pv, num),
         NEW i \in 0 .. n
  PROVE  /\ NodeAt(s, i) \in Nodes
         /\ i = n => nx[NodeAt(s, i)] \notin Blocks /\ Rest(n, s, i) = << >>
         /\ i # n => /\ i + 1 \in 0 .. n /\ nx[NodeAt(s, i)] = NodeAt(s, i + 1)
                     /\ NodeAt(s, i + 1) \in Blocks
                     /\ Rest(n, s, i) = <<NodeAt(s, i + 1)>> \o Rest(n, s, i + 1)
  <1>1. n \in Nat /\ n <= NumBlocks /\ s \in [1 .. n -> Blocks] /\ NumBlocks \notin Blocks
    BY OnTheList, NumBlocksAssumption DEF Blocks
  <1>2. NodeAt(s, i) \in Nodes
    <2>1. i # 0 => i \in 1 .. n
      BY <1>1
    <2> QED
      BY <1>1, <2>1, NumBlocksAssumption DEF NodeAt, Nodes, Blocks
  <1>3. CASE i = n
    <2>1. nx[NodeAt(s, i)] = NumBlocks
      BY <1>3 DEF Chain, NodeAt
    <2>2. Rest(n, s, i) = << >>
      BY <1>1, <1>3 DEF Rest
    <2> QED
      BY <1>1, <1>2, <1>3, <2>1, <2>2
  <1>4. CASE i # n
    <2>1. i \in Nat /\ i + 1 \in 1 .. n /\ i + 1 \in 0 .. n /\ i + 1 # 0 /\ (i + 1) - 1 = i
          /\ (i + 1 = 1 <=> i = 0)
      BY <1>1, <1>4
    <2>2. NodeAt(s, i + 1) = s[i + 1] /\ s[i + 1] \in Blocks
      BY <1>1, <2>1 DEF NodeAt
    <2>3. nx[NodeAt(s, i)] = s[i + 1]
      <3>1. s[i + 1] = nx[IF i + 1 = 1 THEN -1 ELSE s[(i + 1) - 1]]
        BY <2>1 DEF Chain
      <3> QED
        BY <2>1, <3>1 DEF NodeAt
    <2> DEFINE t == <<s[i + 1]>> \o Rest(n, s, i + 1)
    <2>4. Rest(n, s, i + 1) \in Seq(Blocks) /\ Len(Rest(n, s, i + 1)) = n - (i + 1)
      BY <1>1, <2>1 DEF Rest
    <2>5. Rest(n, s, i) \in Seq(Blocks) /\ Len(Rest(n, s, i)) = n - i
      BY <1>1, <2>1 DEF Rest
    <2>6. t \in Seq(Blocks) /\ Len(t) = n - i
      BY <1>1, <2>1, <2>2, <2>4
    <2>7. ASSUME NEW j \in 1 .. n - i
          PROVE  t[j] = Rest(n, s, i)[j]
      <3>1. CASE j = 1
        BY <1>1, <2>1, <2>2, <2>4, <3>1 DEF Rest
      <3>2. CASE j # 1
        <4>1. j - 1 \in 1 .. n - (i + 1) /\ (i + 1) + (j - 1) = i + j
          BY <1>1, <2>1, <3>2
        <4>2. t[j] = Rest(n, s, i + 1)[j - 1]
          BY <1>1, <2>1, <2>2, <2>4, <3>2, <4>1
        <4> QED
          BY <4>1, <4>2 DEF Rest
      <3> QED
        BY <3>1, <3>2
    <2>8. t = Rest(n, s, i)
      <3> HIDE DEF t
      <3> QED
        BY <1>1, <2>1, <2>5, <2>6, <2>7, SeqEqual
    <2> QED
      BY <1>2, <1>4, <2>1, <2>2, <2>3, <2>8
  <1> QED
    BY <1>3, <1>4

\* Where the links are a chain, the list can be read.
LEMMA ReadingExists ==
  ASSUME NEW n, NEW s, Chain(n, s, next_free_block, prev_free_block, num_free_blocks)
  PROVE  \E F : Reading(F)
  <1> DEFINE On(x) == \E i \in 0 .. n : x = NodeAt(s, i)
             pos(x) == CHOOSE i \in 0 .. n : x = NodeAt(s, i)
             F == [x \in Nodes |-> IF On(x) THEN Rest(n, s, pos(x)) ELSE << >>]
  <1>1. n \in Nat /\ s \in [1 .. n -> Blocks] /\ Once(n, s)
    BY OnTheList
  <1>2. ASSUME NEW i \in 0 .. n
        PROVE  pos(NodeAt(s, i)) = i
    <2>1. \A j \in 0 .. n : NodeAt(s, j) = NodeAt(s, i) => j = i
      <3> SUFFICES ASSUME NEW j \in 0 .. n, NodeAt(s, j) = NodeAt(s, i)
                   PROVE  j = i
        OBVIOUS
      <3>1. (j # 0 => j \in 1 .. n) /\ (i # 0 => i \in 1 .. n)
        BY <1>1
      <3>2. \A k \in 1 .. n : s[k] # -1
        BY <1>1, NumBlocksAssumption DEF Blocks
      <3> QED
        BY <1>1, <3>1, <3>2 DEF NodeAt, Once
    <2> QED
      BY <2>1
  <1>3. ASSUME NEW i \in 0 .. n
        PROVE  F[NodeAt(s, i)] = Rest(n, s, i)
    BY <1>2, RestUnfolds
  <1>4. ASSUME NEW x \in Nodes
        PROVE  F[x] = IF next_free_block[x] \notin Blocks THEN << >>
                      ELSE <<next_free_block[x]>> \o F[next_free_block[x]]
    <2>1. CASE On(x)
      <3>1. PICK i \in 0 .. n : x = NodeAt(s, i)
        BY <2>1
      <3>2. F[x] = Rest(n, s, i)
        BY <1>3, <3>1
      <3>3. CASE i = n
        BY <3>1, <3>2, <3>3, RestUnfolds
      <3>4. CASE i # n
        <4>1. /\ i + 1 \in 0 .. n /\ next_free_block[x] = NodeAt(s, i + 1)
              /\ NodeAt(s, i + 1) \in Blocks
              /\ Rest(n, s, i) = <<NodeAt(s, i + 1)>> \o Rest(n, s, i + 1)
          BY <3>1, <3>4, RestUnfolds
        <4>2. F[NodeAt(s, i + 1)] = Rest(n, s, i + 1)
          BY <1>3, <4>1
        <4> HIDE DEF F
        <4> QED
          BY <3>2, <4>1, <4>2
      <3> QED
        BY <3>3, <3>4
    <2>2. CASE ~ On(x)
      <3>1. x # -1
        <4>1. 0 \in 0 .. n /\ NodeAt(s, 0) = -1
          BY <1>1 DEF NodeAt
        <4> QED
          BY <2>2, <4>1
      <3>2. \A i \in 1 .. n : x # s[i]
        <4>1. \A i \in 1 .. n : i \in 0 .. n /\ NodeAt(s, i) = s[i]
          BY <1>1 DEF NodeAt
        <4> QED
          BY <2>2, <4>1
      <3>3. x \in Blocks \/ x = NumBlocks
        BY <3>1, NumBlocksAssumption DEF Nodes, Blocks
      <3>4. next_free_block[x] = -2
        BY <3>2, <3>3 DEF Chain
      <3>5. F[x] = << >>
        BY <2>2
      <3> QED
        BY <3>4, <3>5, NumBlocksAssumption DEF Blocks
    <2> QED
      BY <2>1, <2>2
  <1>5. Reading(F)
    <2>1. F = [x \in Nodes |-> F[x]]
      OBVIOUS
    <2> HIDE DEF F
    <2> QED
      BY <1>4, <2>1 DEF Reading
  <1> QED
    BY <1>5

\* A reading of a chain is the sequence of its blocks.
LEMMA ReadingIsChain ==
  ASSUME NEW n, NEW s, Chain(n, s, next_free_block, prev_free_block, num_free_blocks),
         NEW F, Reading(F)
  PROVE  F[-1] = s
  <1> DEFINE Bad == {k \in 0 .. n : F[NodeAt(s, n - k)] # Rest(n, s, n - k)}
  <1>1. n \in Nat /\ s \in [1 .. n -> Blocks]
    BY OnTheList
  <1>2. ASSUME NEW x \in Nodes
        PROVE  F[x] = IF next_free_block[x] \notin Blocks THEN << >>
                      ELSE <<next_free_block[x]>> \o F[next_free_block[x]]
    BY DEF Reading
  <1>3. Bad = {}
    <2> SUFFICES ASSUME Bad # {} PROVE FALSE
      OBVIOUS
    <2>1. Bad \subseteq Nat
      OBVIOUS
    <2>2. PICK k \in Bad : \A j \in Bad : ~ (<<j, k>> \in OpToRel(<, Nat))
      BY <2>1, NatLessThanWellFounded, WFMin
    <2>3. \A j \in Bad : ~ (j < k)
      BY <2>1, <2>2 DEF OpToRel
    <2>4. k \in 0 .. n /\ n - k \in 0 .. n /\ F[NodeAt(s, n - k)] # Rest(n, s, n - k)
      BY <1>1
    <2>5. CASE k = 0
      <3>1. n - k = n
        BY <1>1, <2>5
      <3>2. /\ NodeAt(s, n - k) \in Nodes /\ next_free_block[NodeAt(s, n - k)] \notin Blocks
            /\ Rest(n, s, n - k) = << >>
        BY <2>4, <3>1, RestUnfolds
      <3> QED
        BY <1>2, <2>4, <3>2
    <2>6. CASE k # 0
      <3>1. k - 1 \in 0 .. n /\ n - (k - 1) = (n - k) + 1 /\ n - k # n /\ k - 1 < k
        BY <1>1, <2>4, <2>6
      <3>2. F[NodeAt(s, (n - k) + 1)] = Rest(n, s, (n - k) + 1)
        <4>1. k - 1 \notin Bad
          BY <2>3, <3>1
        <4> QED
          BY <3>1, <4>1
      <3>3. /\ NodeAt(s, n - k) \in Nodes
            /\ next_free_block[NodeAt(s, n - k)] = NodeAt(s, (n - k) + 1)
            /\ NodeAt(s, (n - k) + 1) \in Blocks
            /\ Rest(n, s, n - k) = <<NodeAt(s, (n - k) + 1)>> \o Rest(n, s, (n - k) + 1)
        BY <2>4, <3>1, RestUnfolds
      <3> QED
        BY <1>2, <2>4, <3>2, <3>3
    <2> QED
      BY <2>5, <2>6
  <1>4. F[NodeAt(s, 0)] = Rest(n, s, 0)
    <2>1. n \in 0 .. n /\ n - n = 0
      BY <1>1
    <2> QED
      BY <1>3, <2>1
  <1>5. Rest(n, s, 0) = s
    BY <1>1 DEF Rest
  <1> QED
    BY <1>4, <1>5 DEF NodeAt

\* get_all_free_blocks returns the blocks of the chain.
ListsAreRead ==
  \A n, s : Chain(n, s, next_free_block, prev_free_block, num_free_blocks)
              => get_all_free_blocks = s

\* What get_all_free_blocks returns is the chain.
LEMMA AllBlocksRead == ListsAreRead
  <1> SUFFICES ASSUME NEW n, NEW s,
                      Chain(n, s, next_free_block, prev_free_block, num_free_blocks)
               PROVE  get_all_free_blocks = s
    BY DEF ListsAreRead
  <1> DEFINE F == CHOOSE G : Reading(G)
  <1>1. Reading(F)
    BY ReadingExists
  <1>2. get_all_free_blocks = F[-1]
    BY DEF get_all_free_blocks, Reading, FakeHead
  <1> HIDE DEF F
  <1> QED
    BY <1>1, <1>2, ReadingIsChain

\* The constructor makes the queue of all blocks in the order of their ids.
LEMMA InitQueue == Init => Queue!Init
  <1> SUFFICES ASSUME Init PROVE Queue!Init
    OBVIOUS
  <1>1. PICK s \in BlockSeqs : Represents(s)
    BY InitWellLinked DEF WellLinked
  <1> DEFINE n == Len(s)
  <1>2. Chain(n, s, next_free_block, prev_free_block, num_free_blocks)
    BY <1>1, RepresentsChain
  <1>3. get_all_free_blocks = s
    BY <1>2, AllBlocksRead DEF ListsAreRead
  <1> HIDE DEF n
  <1>4. n = NumBlocks /\ s \in [1 .. NumBlocks -> Blocks]
    BY <1>2, OnTheList DEF Init
  <1>5. \A x \in -1 .. NumBlocks - 1 : x \in Nodes /\ next_free_block[x] = x + 1
    BY NumBlocksAssumption DEF Init, Nodes, FakeTail
  <1> DEFINE Bad == {i \in 1 .. NumBlocks : s[i] # i - 1}
  <1>6. Bad = {}
    <2> SUFFICES ASSUME Bad # {} PROVE FALSE
      OBVIOUS
    <2>1. Bad \subseteq Nat
      OBVIOUS
    <2>2. PICK k \in Bad : \A j \in Bad : ~ (<<j, k>> \in OpToRel(<, Nat))
      BY <2>1, NatLessThanWellFounded, WFMin
    <2>3. \A j \in Bad : ~ (j < k)
      BY <2>1, <2>2 DEF OpToRel
    <2>4. k \in 1 .. NumBlocks /\ s[k] # k - 1
      OBVIOUS
    <2>5. s[k] = next_free_block[IF k = 1 THEN -1 ELSE s[k - 1]]
      BY <1>2, <1>4, <2>4 DEF Chain
    <2>6. k # 1 => k - 1 \in 1 .. NumBlocks /\ s[k - 1] = k - 2
      BY <2>3, <2>4, NumBlocksAssumption
    <2>7. (IF k = 1 THEN -1 ELSE s[k - 1]) = k - 2 /\ k - 2 \in -1 .. NumBlocks - 1
      BY <2>4, <2>6, NumBlocksAssumption
    <2> QED
      BY <1>5, <2>4, <2>5, <2>7
  <1>7. s = [i \in 1 .. NumBlocks |-> i - 1]
    BY <1>4, <1>6
  <1> QED
    BY <1>3, <1>7 DEF Queue!Init

\* Chains that follow each other are one step of the abstract queue apart.
LEMMA FollowsIsAStep ==
  ASSUME NEW n, NEW s, NEW m, NEW u,
         Chain(n, s, next_free_block, prev_free_block, num_free_blocks),
         Chain(m, u, next_free_block', prev_free_block', num_free_blocks'),
         get_all_free_blocks = s, get_all_free_blocks' = u,
         Follows(n, s, m, u)
  PROVE  Queue!Next
  <1>1. /\ n \in Nat /\ n <= NumBlocks /\ s \in [1 .. n -> Blocks] /\ s \in Seq(Blocks)
        /\ Len(s) = n /\ DOMAIN s = 1 .. n
    <2>1. n \in Nat /\ n <= NumBlocks /\ s \in [1 .. n -> Blocks]
      BY OnTheList
    <2> QED
      BY <2>1
  <1>2. /\ m \in Nat /\ m <= NumBlocks /\ u \in [1 .. m -> Blocks] /\ u \in Seq(Blocks)
        /\ Len(u) = m /\ DOMAIN u = 1 .. m /\ Once(m, u)
    <2>1. m \in Nat /\ m <= NumBlocks /\ u \in [1 .. m -> Blocks] /\ Once(m, u)
      BY OnTheList
    <2> QED
      BY <2>1
  <1>3. ASSUME NEW k \in 1 .. n, u = [i \in 1 .. n - k |-> s[i + k]]
        PROVE  Queue!Next
    <2>1. u = SubSeq(s, k + 1, Len(s))
      <3>1. SubSeq(s, k + 1, Len(s)) = [i \in 1 .. n - k |-> s[i + k]]
        BY <1>1
      <3> QED
        BY <1>3, <3>1
    <2>2. Queue!TakeFront(k)
      BY <1>1, <2>1 DEF Queue!TakeFront
    <2>3. k \in 0 .. NumBlocks
      BY <1>1, NumBlocksAssumption
    <2> QED
      BY <2>2, <2>3 DEF Queue!Next
  <1>4. ASSUME NEW k \in 1 .. n,
               u = [i \in 1 .. n - 1 |-> IF i < k THEN s[i] ELSE s[i + 1]]
        PROVE  Queue!Next
    <2>1. Queue!TakeOut(k)
      BY <1>1, <1>4 DEF Queue!TakeOut
    <2>2. k \in 1 .. NumBlocks
      BY <1>1, NumBlocksAssumption
    <2> QED
      BY <2>1, <2>2 DEF Queue!Next
  <1>5. Queue!Distinct(u)
    BY <1>2 DEF Queue!Distinct, Once
  <1>6. Queue!Blocks = Blocks
    BY DEF Queue!Blocks, Blocks
  <1>7. CASE m > n /\ \A i \in 1 .. n : u[i] = s[i]
    <2>1. s = SubSeq(u, 1, 1 + Len(s) - 1)
      <3>1. SubSeq(u, 1, 1 + Len(s) - 1) = [i \in 1 .. n |-> u[i]]
        BY <1>1, <1>2, <1>7
      <3>2. s = [i \in 1 .. n |-> u[i]]
        BY <1>1, <1>7
      <3> QED
        BY <3>1, <3>2
    <2>2. Queue!PutBack
      BY <1>1, <1>2, <1>5, <1>6, <1>7, <2>1 DEF Queue!PutBack, Queue!PutBlocks
    <2> QED
      BY <2>2 DEF Queue!Next
  <1>8. CASE m > n /\ \A i \in 1 .. n : u[m - n + i] = s[i]
    <2> DEFINE old == Len(u) - Len(s) + 1
    <2>1. s = SubSeq(u, old, old + Len(s) - 1)
      <3>1. SubSeq(u, old, old + Len(s) - 1) = [i \in 1 .. n |-> u[i + old - 1]]
        BY <1>1, <1>2, <1>8
      <3>2. ASSUME NEW i \in 1 .. n
            PROVE  u[i + old - 1] = s[i]
        <4>1. i + old - 1 = m - n + i
          BY <1>1, <1>2
        <4> QED
          BY <1>8, <4>1
      <3>3. s = [i \in 1 .. n |-> u[i + old - 1]]
        BY <1>1, <3>2
      <3> QED
        BY <3>1, <3>3
    <2>2. Queue!PutFront
      BY <1>1, <1>2, <1>5, <1>6, <1>8, <2>1 DEF Queue!PutFront, Queue!PutBlocks
    <2> QED
      BY <2>2 DEF Queue!Next
  <1> QED
    BY <1>3, <1>4, <1>7, <1>8 DEF Follows

\* Every operation is a step of the abstract queue.
LEMMA QueueStep ==
  TypeOK /\ WellLinked /\ [Next]_vars => [Queue!Next]_get_all_free_blocks
  <1> SUFFICES ASSUME TypeOK, WellLinked, [Next]_vars
               PROVE  [Queue!Next]_get_all_free_blocks
    OBVIOUS
  <1>1. PICK s \in BlockSeqs : Represents(s)
    BY DEF WellLinked
  <1>2. Chain(Len(s), s, next_free_block, prev_free_block, num_free_blocks)
    BY <1>1, RepresentsChain
  <1>3. get_all_free_blocks = s
    BY <1>2, AllBlocksRead DEF ListsAreRead
  <1>4. CASE Next
    <2>1. PICK m, u : /\ Follows(Len(s), s, m, u)
                      /\ Chain(m, u, next_free_block', prev_free_block', num_free_blocks')
      BY <1>2, <1>4, NextChain
    <2>2. ListsAreRead'
      BY AllBlocksRead, PTL
    <2>3. get_all_free_blocks' = u
      BY <2>1, <2>2 DEF ListsAreRead
    <2> QED
      BY <1>2, <1>3, <2>1, <2>3, FollowsIsAStep
  <1>5. CASE UNCHANGED vars
    <2>1. UNCHANGED <<next_free_block, prev_free_block, num_free_blocks>>
      BY <1>5 DEF vars
    <2>2. Chain(Len(s), s, next_free_block', prev_free_block', num_free_blocks')
      BY <1>2, <2>1
    <2>3. ListsAreRead'
      BY AllBlocksRead, PTL
    <2>4. get_all_free_blocks' = s
      BY <2>2, <2>3 DEF ListsAreRead
    <2> QED
      BY <1>3, <2>4
  <1> QED
    BY <1>4, <1>5

(***************************************************************************)
(* The linked list implements the abstract queue, for every number of      *)
(* blocks: every method of FreeKVCacheBlockQueue does to what              *)
(* get_all_free_blocks returns exactly what BlockPool expects of a queue   *)
(* in eviction order.                                                      *)
(***************************************************************************)
THEOREM LinksImplementQueue == Spec => QueueSpec
  <1>1. Init => TypeOK /\ WellLinked
    BY InitWellLinked
  <1>2. Init => Queue!Init
    BY InitQueue
  <1>3. (TypeOK /\ WellLinked) /\ [Next]_vars => (TypeOK /\ WellLinked)'
    BY NextWellLinked
  <1>4. (TypeOK /\ WellLinked) /\ [Next]_vars => [Queue!Next]_get_all_free_blocks
    BY QueueStep
  <1> QED
    BY <1>1, <1>2, <1>3, <1>4, PTL DEF Spec, QueueSpec, Queue!Spec
=============================================================================
