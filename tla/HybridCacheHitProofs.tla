----------------------- MODULE HybridCacheHitProofs -----------------------
(***************************************************************************)
(* Proofs about HybridCacheHit and PrefixReplay, for every layout, prompt  *)
(* length and content of the cache: every group can use the hit that the   *)
(* search returns, no longer prefix is usable by all, and a prompt that is *)
(* computed in any chunks is found again as far as a hit may reach.        *)
(***************************************************************************)
EXTENDS PrefixReplay, WellFoundedInduction, TLAPS

Size(g) == Groups[g].block_size

\* The length in hash blocks of the hit found for group g.
HitOf(g) == hit_blocks[g].len * Size(g)

(***************************************************************************)
(* Layouts.  The coordinator sorts full attention to the front and         *)
(* truncates the first group only; a second EAGLE window, or an EAGLE      *)
(* window that is longer than the alignment and has blocks below it, is    *)
(* where the search loses precision (see the README).                      *)
(***************************************************************************)
OneFullGroup == \A g \in Ids : Groups[g].full => g = 1

OneEagleWindow == \A g, h \in Ids :
  /\ ~ Groups[g].full /\ Groups[g].use_eagle
  /\ ~ Groups[h].full /\ Groups[h].use_eagle
  => g = h

\* The blocks of a window in front of its last token.
WindowBlocks(g) == cdiv(Groups[g].window - 1, Groups[g].block_size)

DropIsExact(g) == Size(g) = Alignment \/ WindowBlocks(g) * Size(g) <= Alignment

ExactScans == \A g \in Ids : ~ Groups[g].full =>
  Groups[g].window > 1 /\ (Groups[g].use_eagle => DropIsExact(g))
-----------------------------------------------------------------------------
(* The inductive invariant.                                                *)

\* Everything before the search: a new cache and a prompt that is being computed.
PrefillInv ==
  /\ WellFormed(layout)
  /\ max_cache_hit_length \in Nat
  /\ num_computed_tokens \in 0 .. num_prompt_tokens
  /\ num_cached_block \in [Ids -> Nat]
  /\ hit_blocks \in [Ids -> [len : Int, blocks : SUBSET Nat]]
  /\ pc = "prefill" =>
       group = 1 /\ eagle_verified = {} /\ \A g \in Ids : hit_blocks[g] = None

\* No group has been looked at, or all hits are aligned from the first on.
RoundInv ==
  pc = "search" =>
    /\ curr_hit_length <= hit_length
    /\ \A g \in Ids : g < group => hit_blocks[g].len >= 0
    /\ \A g \in Ids : hit_blocks[g] = None \/ hit_blocks[g].len >= 0
    /\ \/ curr_hit_length % Alignment = 0
       \/ group = 1 /\ eagle_verified = {} /\ \A g \in Ids : hit_blocks[g] = None

\* What the lookup of a full-attention group has found is good for every shorter hit.
FullInv ==
  pc = "search" => \A g \in Ids : Groups[g].full =>
    /\ hit_blocks[g] = None => eagle_verified = {}
    /\ hit_blocks[g].len >= 0 =>
         /\ hit_blocks[g].blocks = 0 .. hit_blocks[g].len - 1
         /\ hit_blocks[g].blocks \subseteq cached[g]
         /\ curr_hit_length <= HitOf(g)
         /\ Groups[g].use_eagle /\ hit_blocks[g].len > 0 => hit_blocks[g].len \in cached[g]

\* A window group looked at in this round has a hit that is at least as long as the current one.
WindowInv ==
  pc = "search" => \A g \in Ids : ~ Groups[g].full /\ g < group =>
    /\ Usable(g, HitOf(g))
    /\ Window(g, HitOf(g)) \subseteq hit_blocks[g].blocks
    /\ HitOf(g) \in curr_hit_length .. hit_length
    /\ g = group - 1 => HitOf(g) = curr_hit_length

\* A verified EAGLE window has the block after the current hit; an EAGLE window that is not
\* verified after its lookup means that the hit was shortened.
EagleInv ==
  pc = "search" => \A g \in Ids : ~ Groups[g].full /\ Groups[g].use_eagle =>
    /\ g \in eagle_verified /\ curr_hit_length > 0 => Peeked(g, curr_hit_length) \in cached[g]
    /\ g < group => g \in eagle_verified \/ curr_hit_length < hit_length
    /\ is_simple_hybrid => (g \in eagle_verified <=> g < group)

BaseInv == TypeOK /\ PrefillInv /\ RoundInv

UsableInv == FullInv /\ WindowInv /\ EagleInv /\ HitOfEveryGroup /\ EagleDropVerified

\* A prefix that all groups can use is never lost.
LongestInv ==
  pc # "prefill" => \A n \in 1 .. max_cache_hit_length : UsableByAll(n) =>
    n <= hit_length /\ (pc = "search" => n <= curr_hit_length)
-----------------------------------------------------------------------------
(* Division, and the largest element of a bounded set of numbers.          *)

LEMMA DivBounds ==
  ASSUME NEW a \in Nat, NEW b \in Nat \ {0}
  PROVE  /\ a \div b \in Nat
         /\ (a \div b) * b \in Nat
         /\ (a \div b) * b <= a
         /\ a < (a \div b) * b + b
  BY SMT

LEMMA DivOfProduct ==
  ASSUME NEW k \in Nat, NEW b \in Nat \ {0}
  PROVE  k * b \in Nat /\ (k * b) \div b = k
  BY SMT

LEMMA ProductMonotone ==
  ASSUME NEW j \in Nat, NEW k \in Nat, NEW b \in Nat \ {0}
  PROVE  (j <= k) <=> (j * b <= k * b)
  BY SMT

LEMMA ProductLess ==
  ASSUME NEW j \in Nat, NEW k \in Nat, NEW b \in Nat \ {0}
  PROVE  (j < k) <=> (j * b < k * b)
  BY SMT

LEMMA DivMonotone ==
  ASSUME NEW a \in Nat, NEW c \in Nat, NEW b \in Nat \ {0}, a <= c
  PROVE  a \div b <= c \div b
  BY SMT

LEMMA AlignedIsWhole ==
  ASSUME NEW n \in Nat, NEW b \in Nat \ {0}, NEW A \in Nat \ {0}, A % b = 0, n % A = 0
  PROVE  (n \div b) * b = n
<1>1. PICK q : q = A \div b
  OBVIOUS
<1>2. PICK m : m = n \div A
  OBVIOUS
<1>3. q \in Nat /\ A = q * b
  BY <1>1, SMT
<1>4. m \in Nat /\ n = m * A
  BY <1>2, SMT
<1>5. n = (m * q) * b /\ m * q \in Nat
  BY <1>3, <1>4, SMT
<1> QED
  BY <1>5, DivOfProduct, SMT

LEMMA DivPlusOne ==
  ASSUME NEW a \in Nat, NEW b \in Nat \ {0}
  PROVE  (a + b) \div b = (a \div b) + 1
  BY SMT

LEMMA MaxOf ==
  ASSUME NEW n \in Nat, NEW S, S \subseteq 0 .. n, S # {}
  PROVE  Max(S) \in S /\ \A x \in S : x <= Max(S)
<1> DEFINE T == {t \in Nat : n - t \in S}
<1>1. T \subseteq Nat
  OBVIOUS
<1>2. \A x \in S : n - x \in T /\ x \in 0 .. n
  <2>1. TAKE x \in S
  <2>2. x \in 0 .. n /\ n - x \in Nat /\ n - (n - x) = x
    OBVIOUS
  <2> QED
    BY <2>2
<1>3. T # {}
  BY <1>2
<1>4. \A t \in T : t \in Nat /\ n - t \in S
  OBVIOUS
<1> HIDE DEF T
<1>5. PICK t \in T : \A y \in T : ~ (<<y, t>> \in OpToRel(<, Nat))
  BY <1>1, <1>3, NatLessThanWellFounded, WFMin
<1>a. \A y \in T : ~ (y < t)
  BY <1>1, <1>5, Zenon DEF OpToRel
<1>b. \A y \in S : n - t >= y
  <2>1. TAKE y \in S
  <2>2. ~ (n - y < t)
    BY <1>a, <1>2
  <2> QED
    BY <2>2, <1>2, <1>4
<1>6. \E z \in S : \A y \in S : z >= y
  BY <1>4, <1>b
<1>7. Max(S) \in S /\ \A y \in S : Max(S) >= y
  BY <1>6, Zenon DEF Max
<1>8. \A y \in S : y \in Nat
  OBVIOUS
<1> QED
  BY <1>7, <1>8

-----------------------------------------------------------------------------
(* One lookup: what Find returns, counted in blocks of the group.          *)

Al(g, k) == (k * Size(g)) % Alignment = 0

\* r is a hit of at most cap blocks; with drop, the block after it is cached and within cap, too.
FindSound(g, cap, drop, r) ==
  /\ r.len \in Nat /\ r.blocks \subseteq Nat
  /\ Al(g, r.len)
  /\ r.len <= cap
  /\ drop /\ r.len > 0 => r.len + 1 <= cap /\ r.len \in cached[g]
  /\ r.blocks \subseteq cached[g]
  /\ IF Groups[g].full THEN r.blocks = 0 .. r.len - 1
     ELSE \A i \in 0 .. r.len - 1 : i >= r.len - WindowBlocks(g) => i \in r.blocks

\* No hit within cap is longer than r.
FindLongest(g, cap, drop, r) ==
  \A k \in 1 .. cap :
    /\ Al(g, k)
    /\ \A i \in 0 .. k - 1 : (Groups[g].full \/ i >= k - WindowBlocks(g)) => i \in cached[g]
    /\ drop => k + 1 <= cap /\ k \in cached[g]
    => k <= r.len

LEMMA GroupFacts ==
  ASSUME WellFormed(layout), NEW g \in Ids
  PROVE  /\ Size(g) \in Nat \ {0} /\ Alignment \in Nat \ {0} /\ Alignment % Size(g) = 0
         /\ Groups[g].window \in Nat /\ Groups[g].full \in BOOLEAN /\ Groups[g].use_eagle \in BOOLEAN
         /\ ~ Groups[g].full => WindowBlocks(g) \in Nat /\ (Groups[g].window > 1 => WindowBlocks(g) > 0)
<1>1. Groups \in Seq(AttentionGroup) /\ Alignment \in Nat \ {0}
  BY DEF WellFormed, Groups, Alignment
<1>2. Groups[g] \in AttentionGroup
  BY <1>1 DEF Ids
<1>3. Size(g) \in Nat \ {0} /\ Groups[g].window \in Nat
         /\ Groups[g].full \in BOOLEAN /\ Groups[g].use_eagle \in BOOLEAN
  BY <1>2 DEF AttentionGroup, Size
<1>4. Alignment % Size(g) = 0 /\ (Groups[g].full \/ Groups[g].window > 0)
  BY DEF WellFormed, Groups, Alignment, Ids, Size
<1>5. ASSUME ~ Groups[g].full
      PROVE  WindowBlocks(g) \in Nat /\ (Groups[g].window > 1 => WindowBlocks(g) > 0)
  <2>1. PICK b \in Nat \ {0} : b = Groups[g].block_size
    BY <1>3 DEF Size
  <2>2. PICK w \in Nat : w = Groups[g].window /\ w > 0
    BY <1>3, <1>4, <1>5
  <2>3. WindowBlocks(g) = (w - 1 + b - 1) \div b
    BY <2>1, <2>2, Zenon DEF WindowBlocks, cdiv
  <2>4. w - 1 + b - 1 \in Nat
    BY <2>2
  <2>5. (w - 1 + b - 1) \div b \in Nat
    BY <2>4, DivBounds
  <2>6. w > 1 => (w - 1 + b - 1) \div b > 0
    <3>1. SUFFICES ASSUME w > 1 PROVE (w - 1 + b - 1) \div b > 0
      OBVIOUS
    <3>2. b \div b = 1
      BY DivOfProduct
    <3>3. b <= w - 1 + b - 1
      BY <3>1
    <3>4. b \div b <= (w - 1 + b - 1) \div b
      BY <3>3, <2>4, DivMonotone
    <3> QED
      BY <3>2, <3>4, <2>5
  <2> QED
    BY <2>2, <2>3, <2>5, <2>6
<1> QED
  BY <1>1, <1>3, <1>4, <1>5

LEMMA AlignDownOf ==
  ASSUME WellFormed(layout), NEW g \in Ids, NEW n \in Nat
  PROVE  /\ AlignDown(g, n) \in 0 .. n /\ Al(g, AlignDown(g, n))
         /\ \A k \in 0 .. n : Al(g, k) => k <= AlignDown(g, n)
<1> DEFINE S == {k \in 0 .. n : Al(g, k)}
           P(k) == /\ (k * Groups[g].block_size) % Alignment = 0
                   /\ \A j \in k + 1 .. n : (j * Groups[g].block_size) % Alignment # 0
<1>1. Al(g, 0)
  <2>1. Size(g) \in Nat /\ Alignment \in Nat \ {0}
    BY GroupFacts
  <2>2. 0 * Size(g) = 0 /\ 0 % Alignment = 0
    BY <2>1
  <2> QED
    BY <2>2 DEF Al
<1>2. S \subseteq 0 .. n /\ S # {}
  BY <1>1
<1>3. Max(S) \in S /\ \A x \in S : x <= Max(S)
  <2> HIDE DEF S
  <2> QED
    BY <1>2, MaxOf
<1>4. P(Max(S))
  <2>1. PICK m : m = Max(S)
    OBVIOUS
  <2>2. m \in 0 .. n /\ Al(g, m) /\ \A x \in 0 .. n : Al(g, x) => x <= m
    BY <1>3, <2>1
  <2>3. \A j \in m + 1 .. n : ~ Al(g, j)
    BY <2>2
  <2> QED
    BY <2>1, <2>2, <2>3 DEF Al, Size
<1>5. PICK d : d = AlignDown(g, n)
  OBVIOUS
<1>6. d \in 0 .. n /\ P(d)
  <2>1. \E k \in 0 .. n : P(k)
    BY <1>3, <1>4
  <2>2. d = CHOOSE k \in 0 .. n : P(k)
    BY <1>5, Zenon DEF AlignDown
  <2> HIDE DEF P
  <2> QED
    BY <2>1, <2>2, Zenon
<1>7. Al(g, d) /\ \A j \in d + 1 .. n : ~ Al(g, j)
  BY <1>6 DEF Al, Size
<1>8. ASSUME NEW k \in 0 .. n, Al(g, k) PROVE k <= d
  BY <1>6, <1>7, <1>8
<1> QED
  BY <1>5, <1>6, <1>7, <1>8

LEMMA FindFullOf ==
  ASSUME WellFormed(layout), NEW g \in Ids, Groups[g].full,
         NEW max_length \in Nat, NEW drop \in BOOLEAN
  PROVE  LET cap == max_length \div Size(g)
             r   == Find(g, max_length, drop)
         IN  FindSound(g, cap, drop, r) /\ FindLongest(g, cap, drop, r)
<1>1. PICK cap \in Nat : cap = max_length \div Size(g)
  BY GroupFacts, DivBounds
<1>2. PICK S : S = {n \in 0 .. cap : 0 .. n - 1 \subseteq cached[g]}
  OBVIOUS
<1>3. PICK hit : hit = Max(S)
  OBVIOUS
<1>4. S \subseteq 0 .. cap /\ 0 \in S
  BY <1>2
<1>5. hit \in S /\ \A n \in S : n <= hit
  BY <1>3, <1>4, MaxOf
<1>6. hit \in 0 .. cap /\ 0 .. hit - 1 \subseteq cached[g]
  BY <1>5, <1>2
<1>7. \A n \in 0 .. cap : 0 .. n - 1 \subseteq cached[g] => n <= hit
  BY <1>5, <1>2
<1>8. PICK d : d = Dropped(hit, drop)
  OBVIOUS
<1>9. d \in 0 .. hit /\ (drop /\ hit > 0 => d = hit - 1) /\ (~ (drop /\ hit > 0) => d = hit)
  BY <1>6, <1>8 DEF Dropped
<1>10. PICK n : n = AlignDown(g, d)
  OBVIOUS
<1>11. n \in 0 .. d /\ Al(g, n) /\ \A k \in 0 .. d : Al(g, k) => k <= n
  BY <1>9, <1>10, AlignDownOf
<1>12. PICK r : r = Find(g, max_length, drop)
  OBVIOUS
<1>13. r = Trim(0 .. hit - 1, n)
  <2>1. S = {i \in 0 .. max_length \div Groups[g].block_size : 0 .. i - 1 \subseteq cached[g]}
    BY <1>1, <1>2 DEF Size
  <2>2. FindFull(g, max_length, drop) = Trim(0 .. hit - 1, n)
    BY <2>1, <1>3, <1>8, <1>10, Zenon DEF FindFull
  <2> QED
    BY <2>2, <1>12 DEF Find
<1>14. r.len = n /\ r.blocks = {i \in 0 .. hit - 1 : i < n}
  BY <1>13 DEF Trim
<1>15. r.blocks = 0 .. n - 1
  BY <1>14, <1>11, <1>9, <1>6
<1>16. FindSound(g, cap, drop, r)
  <2>1. n \in Nat /\ 0 .. n - 1 \subseteq Nat /\ n <= cap /\ 0 .. n - 1 \subseteq cached[g]
    BY <1>11, <1>9, <1>6
  <2>2. drop /\ n > 0 => n + 1 <= cap /\ n \in cached[g]
    BY <1>11, <1>9, <1>6
  <2> QED
    BY <1>11, <1>14, <1>15, <2>1, <2>2 DEF FindSound
<1>17. FindLongest(g, cap, drop, r)
  <2>1. SUFFICES ASSUME NEW k \in 1 .. cap, Al(g, k),
                        \A i \in 0 .. k - 1 : i \in cached[g],
                        drop => k + 1 <= cap /\ k \in cached[g]
                 PROVE  k <= n
    BY <1>14 DEF FindLongest
  <2>2. k <= hit
    BY <2>1, <1>7
  <2>3. CASE drop
    <3>1. 0 .. (k + 1) - 1 \subseteq cached[g] /\ k + 1 \in 0 .. cap
      BY <2>1, <2>3
    <3>2. k + 1 <= hit
      BY <3>1, <1>7
    <3> QED
      BY <3>2, <2>3, <2>1, <1>9, <1>11, <1>6
  <2>4. CASE ~ drop
    BY <2>2, <2>4, <2>1, <1>9, <1>11
  <2> QED
    BY <2>3, <2>4
<1> QED
  BY <1>1, <1>12, <1>16, <1>17

\* The last blocks of the runs the scan looks for, and its result.
ScanNeed(g, drop) == Max({1, _contiguous_blocks_for_hit(g, drop)})

ScanEnds(g, cap, drop) ==
  {e \in 0 .. cap - 1 : /\ MayEnd(g, e, drop) /\ e + 1 >= ScanNeed(g, drop)
                        /\ e - ScanNeed(g, drop) + 1 .. e \subseteq cached[g]}

ScanRuns(g, cap, drop) ==
  {e \in 0 .. cap - 1 : MayEnd(g, e, drop) /\ 0 .. e \subseteq cached[g]}

\* The scan ends at block e.
ScanAt(e, need) == [found |-> TRUE, len |-> e + 1, blocks |-> e - need + 1 .. e]

ScanPrefix(run) == [found |-> FALSE, len |-> run, blocks |-> 0 .. run - 1]

LEMMA ScanNeedOf ==
  ASSUME WellFormed(layout), NEW g \in Ids, ~ Groups[g].full, NEW drop \in BOOLEAN
  PROVE  /\ ScanNeed(g, drop) \in Nat /\ ScanNeed(g, drop) >= 1
         /\ drop => ScanNeed(g, drop) = WindowBlocks(g) + 1
         /\ ~ drop => ScanNeed(g, drop) >= WindowBlocks(g)
         /\ ~ drop /\ WindowBlocks(g) > 0 => ScanNeed(g, drop) = WindowBlocks(g)
<1>1. PICK c \in Nat : c = WindowBlocks(g)
  BY GroupFacts
<1>2. PICK m : m = _contiguous_blocks_for_hit(g, drop)
  OBVIOUS
<1>3. m = IF drop THEN c + 1 ELSE c
  BY <1>1, <1>2 DEF _contiguous_blocks_for_hit, WindowBlocks
<1>4. m \in Nat
  BY <1>3
<1>5. Max({1, m}) = IF m >= 1 THEN m ELSE 1
  <2>1. PICK n \in Nat : n = IF m >= 1 THEN m ELSE 1
    BY <1>4
  <2>2. {1, m} \subseteq 0 .. m + 1 /\ {1, m} # {} /\ m + 1 \in Nat
    BY <1>4
  <2>3. PICK T : T = {1, m}
    OBVIOUS
  <2>4. Max(T) \in T /\ \A x \in T : x <= Max(T)
    BY <2>2, <2>3, MaxOf
  <2>5. \A x \in {1, m} : (1 <= x /\ m <= x) => x = n
    BY <1>4, <2>1
  <2> QED
    BY <2>1, <2>3, <2>4, <2>5
<1>6. ScanNeed(g, drop) = IF m >= 1 THEN m ELSE 1
  BY <1>5, <1>2 DEF ScanNeed
<1> QED
  BY <1>1, <1>3, <1>6

LEMMA ScanOf ==
  ASSUME WellFormed(layout), NEW g \in Ids, NEW max_length \in Nat, NEW drop \in BOOLEAN
  PROVE  LET cap  == max_length \div Size(g)
             ends == ScanEnds(g, cap, drop)
             runs == ScanRuns(g, cap, drop)
         IN  Scan(g, max_length, drop) =
               IF ends # {} THEN ScanAt(Max(ends), ScanNeed(g, drop))
               ELSE ScanPrefix(IF runs = {} THEN 0 ELSE Max(runs) + 1)
  BY Zenon DEF Scan, ScanEnds, ScanRuns, ScanAt, ScanPrefix, ScanNeed, BlocksOf, Size

LEMMA FindWindowOf ==
  ASSUME WellFormed(layout), NEW g \in Ids, ~ Groups[g].full,
         NEW max_length \in Nat, NEW drop \in BOOLEAN
  PROVE  LET cap == max_length \div Size(g)
             r   == Find(g, max_length, drop)
         IN  /\ FindSound(g, cap, drop, r)
             /\ Groups[g].window > 1 /\ (drop => DropIsExact(g))
                  => FindLongest(g, cap, drop, r)
<1>1. PICK cap \in Nat : cap = max_length \div Size(g)
  BY GroupFacts, DivBounds
<1>2. PICK c \in Nat : c = WindowBlocks(g) /\ (Groups[g].window > 1 => c > 0)
  BY GroupFacts
<1>3. PICK need \in Nat : need = ScanNeed(g, drop)
  BY ScanNeedOf
<1>4. need >= 1 /\ (drop => need = c + 1) /\ (~ drop => need >= c) /\ (~ drop /\ c > 0 => need = c)
  BY <1>2, <1>3, ScanNeedOf
<1>5. PICK ends : ends = ScanEnds(g, cap, drop)
  OBVIOUS
<1>6. PICK runs : runs = ScanRuns(g, cap, drop)
  OBVIOUS
<1>7. ends \subseteq 0 .. cap /\ runs \subseteq 0 .. cap
  BY <1>5, <1>6 DEF ScanEnds, ScanRuns
<1>8. PICK s : s = Scan(g, max_length, drop)
  OBVIOUS
<1>9. s = IF ends # {} THEN ScanAt(Max(ends), need)
          ELSE ScanPrefix(IF runs = {} THEN 0 ELSE Max(runs) + 1)
  BY <1>1, <1>3, <1>5, <1>6, <1>8, ScanOf
<1>10. PICK hit : hit = IF s.found THEN s.len ELSE AlignDown(g, s.len)
  OBVIOUS
<1>11. PICK n : n = IF drop /\ hit > 0 THEN AlignDown(g, hit - 1) ELSE hit
  OBVIOUS
<1>12. PICK r : r = Find(g, max_length, drop)
  OBVIOUS
<1>13. r = Trim(s.blocks, n)
  <2>1. FindSlidingWindow(g, max_length, drop) = Trim(s.blocks, n)
    BY <1>8, <1>10, <1>11, Zenon DEF FindSlidingWindow
  <2> QED
    BY <2>1, <1>12 DEF Find
<1>14. r.len = n /\ r.blocks = {i \in s.blocks : i < n}
  BY <1>13 DEF Trim
<1>15. \A e : MayEnd(g, e, drop) <=> (IF drop THEN Al(g, e) ELSE Al(g, e + 1))
  BY DEF MayEnd, Al, Size
<1>e. \A e : e \in ends <=> /\ e \in 0 .. cap - 1
                            /\ MayEnd(g, e, drop) /\ e + 1 >= need
                            /\ e - need + 1 .. e \subseteq cached[g]
  BY <1>3, <1>5 DEF ScanEnds
<1>r. \A e : e \in runs <=> e \in 0 .. cap - 1 /\ MayEnd(g, e, drop) /\ 0 .. e \subseteq cached[g]
  BY <1>6 DEF ScanRuns
<1>16. CASE ends # {}
  <2>1. PICK e : e = Max(ends)
    OBVIOUS
  <2>2. e \in ends /\ \A x \in ends : x <= e
    BY <1>7, <1>16, <2>1, MaxOf
  <2>3. e \in 0 .. cap - 1 /\ e + 1 >= need /\ e - need + 1 .. e \subseteq cached[g]
    BY <2>2, <1>e
  <2>4. s = [found |-> TRUE, len |-> e + 1, blocks |-> e - need + 1 .. e]
    BY <1>9, <1>16, <2>1 DEF ScanAt
  <2>5. hit = e + 1 /\ s.blocks = e - need + 1 .. e
    BY <2>4, <1>10
  <2>6. n \in Nat /\ (drop => n = e) /\ (~ drop => n = e + 1) /\ Al(g, n)
    <3>1. CASE drop
      <4>1. Al(g, e)
        BY <3>1, <2>2, <1>e, <1>15
      <4>2. e + 1 > 0 /\ (e + 1) - 1 = e /\ e \in Nat
        BY <2>3
      <4>3. n = AlignDown(g, e)
        BY <4>2, <3>1, <2>5, <1>11
      <4>4. AlignDown(g, e) \in 0 .. e /\ e <= AlignDown(g, e)
        BY <4>1, <4>2, AlignDownOf
      <4>5. n = e
        BY <4>2, <4>3, <4>4
      <4> QED
        BY <3>1, <4>1, <4>2, <4>5
    <3>2. CASE ~ drop
      BY <3>2, <2>2, <2>3, <2>5, <1>e, <1>15, <1>11
    <3> QED
      BY <3>1, <3>2
  <2>7. FindSound(g, cap, drop, r)
    <3>1. n <= cap /\ (drop /\ n > 0 => n + 1 <= cap /\ n \in cached[g])
      BY <2>3, <2>6, <1>4
    <3>2. r.blocks \subseteq Nat /\ r.blocks \subseteq cached[g]
      BY <1>14, <2>5, <2>3, <1>4
    <3>3. \A i \in 0 .. n - 1 : i >= n - c => i \in r.blocks
      <4>1. TAKE i \in 0 .. n - 1
      <4>2. HAVE i >= n - c
      <4>3. i \in e - need + 1 .. e /\ i < n
        BY <4>1, <4>2, <2>3, <2>6, <1>4
      <4> QED
        BY <4>3, <1>14, <2>5
    <3> QED
      BY <1>2, <1>14, <2>6, <3>1, <3>2, <3>3 DEF FindSound
  <2>8. ASSUME Groups[g].window > 1 PROVE FindLongest(g, cap, drop, r)
    <3>1. SUFFICES ASSUME NEW k \in 1 .. cap, Al(g, k),
                          \A i \in 0 .. k - 1 : i >= k - c => i \in cached[g],
                          drop => k + 1 <= cap /\ k \in cached[g]
                   PROVE  k <= n
      BY <1>2, <1>14 DEF FindLongest
    <3>2. CASE drop
      <4>1. CASE k + 1 >= need
        <5>1. k \in 0 .. cap - 1 /\ MayEnd(g, k, drop)
          <6>1. k \in 0 .. cap - 1
            BY <3>1, <3>2
          <6>2. MayEnd(g, k, drop)
            BY <3>1, <3>2, <1>15, Zenon
          <6> QED
            BY <6>1, <6>2
        <5>2. k - need + 1 .. k \subseteq cached[g]
          BY <3>1, <3>2, <4>1, <1>4
        <5>3. k \in ends
          BY <5>1, <5>2, <4>1, <1>e
        <5> QED
          BY <5>3, <2>2, <2>6, <3>2
      <4>2. CASE ~ (k + 1 >= need)
        BY <4>2, <3>1, <3>2, <2>3, <2>6
      <4> QED
        BY <4>1, <4>2
    <3>3. CASE ~ drop
      <4>0. need = c
        BY <3>3, <2>8, <1>2, <1>4
      <4>1. CASE k >= need
        <5>1. k - 1 \in 0 .. cap - 1 /\ (k - 1) + 1 = k
          BY <3>1
        <5>2. MayEnd(g, k - 1, drop)
          BY <5>1, <3>1, <3>3, <1>15
        <5>3. (k - 1) - need + 1 .. k - 1 \subseteq cached[g]
          BY <3>1, <4>1, <4>0
        <5>4. k - 1 \in ends
          BY <5>1, <5>2, <5>3, <4>1, <1>e
        <5>5. k - 1 <= e
          BY <5>4, <2>2
        <5> QED
          BY <5>1, <5>5, <2>3, <2>6, <3>3
      <4>2. CASE ~ (k >= need)
        BY <4>2, <3>1, <3>3, <2>3, <2>6
      <4> QED
        BY <4>1, <4>2
    <3> QED
      BY <3>2, <3>3
  <2> QED
    BY <1>1, <1>12, <2>7, <2>8
<1>17. CASE ends = {}
  <2>1. PICK run : run = IF runs = {} THEN 0 ELSE Max(runs) + 1
    OBVIOUS
  <2>2. /\ run \in 0 .. cap /\ 0 .. run - 1 \subseteq cached[g]
        /\ \A x \in runs : x + 1 <= run
    <3>1. CASE runs = {}
      BY <3>1, <2>1
    <3>2. CASE runs # {}
      <4>1. PICK m : m = Max(runs)
        OBVIOUS
      <4>2. m \in runs /\ \A x \in runs : x <= m
        BY <1>7, <3>2, <4>1, MaxOf
      <4>3. m \in 0 .. cap - 1 /\ 0 .. m \subseteq cached[g]
        BY <4>2, <1>r
      <4>4. run = m + 1 /\ (m + 1) - 1 = m
        BY <2>1, <3>2, <4>1, <4>3
      <4>5. \A x \in runs : x \in 0 .. cap - 1
        BY <1>r
      <4> QED
        BY <4>2, <4>3, <4>4, <4>5
    <3> QED
      BY <3>1, <3>2
  <2>3. s = [found |-> FALSE, len |-> run, blocks |-> 0 .. run - 1]
    BY <1>9, <1>17, <2>1 DEF ScanPrefix
  <2>4. hit = AlignDown(g, run) /\ s.blocks = 0 .. run - 1
    BY <2>3, <1>10
  <2>5. hit \in 0 .. run /\ Al(g, hit) /\ \A k \in 0 .. run : Al(g, k) => k <= hit
    BY <2>2, <2>4, AlignDownOf
  <2>6. /\ n \in 0 .. hit /\ Al(g, n)
        /\ drop /\ n > 0 => n + 1 <= hit
        /\ ~ drop => n = hit
        /\ drop /\ hit > 0 => \A k \in 0 .. hit - 1 : Al(g, k) => k <= n
    <3>1. CASE drop /\ hit > 0
      <4>1. hit - 1 \in Nat
        BY <3>1, <2>5, <2>2
      <4>2. n = AlignDown(g, hit - 1)
        BY <3>1, <1>11
      <4>3. n \in 0 .. hit - 1 /\ Al(g, n) /\ \A k \in 0 .. hit - 1 : Al(g, k) => k <= n
        BY <4>1, <4>2, AlignDownOf
      <4> QED
        BY <3>1, <4>1, <4>3, <2>5, <2>2
    <3>2. CASE ~ (drop /\ hit > 0)
      BY <3>2, <2>5, <2>2, <1>11
    <3> QED
      BY <3>1, <3>2
  <2>7. FindSound(g, cap, drop, r)
    <3>1. n \in Nat /\ n <= run /\ n <= cap
      BY <2>2, <2>5, <2>6
    <3>2. drop /\ n > 0 => n + 1 <= cap /\ n \in cached[g]
      BY <2>2, <2>5, <2>6
    <3>3. r.blocks = 0 .. n - 1
      BY <1>14, <2>4, <3>1, <2>2
    <3>4. 0 .. n - 1 \subseteq cached[g] /\ 0 .. n - 1 \subseteq Nat
      BY <3>1, <2>2
    <3> QED
      BY <1>14, <2>6, <3>1, <3>2, <3>3, <3>4 DEF FindSound
  <2>8. ASSUME Groups[g].window > 1, drop => DropIsExact(g)
        PROVE  FindLongest(g, cap, drop, r)
    <3>1. SUFFICES ASSUME NEW k \in 1 .. cap, Al(g, k),
                          \A i \in 0 .. k - 1 : i >= k - c => i \in cached[g],
                          drop => k + 1 <= cap /\ k \in cached[g]
                   PROVE  k <= n
      BY <1>2, <1>14 DEF FindLongest
    <3>2. CASE drop
      <4>1. k + 1 < need
        <5>1. SUFFICES ASSUME k + 1 >= need PROVE FALSE
          BY <1>3
        <5>2. k \in 0 .. cap - 1 /\ MayEnd(g, k, drop)
          <6>1. k \in 0 .. cap - 1
            BY <3>1, <3>2
          <6>2. MayEnd(g, k, drop)
            BY <3>1, <3>2, <1>15, Zenon
          <6> QED
            BY <6>1, <6>2
        <5>3. k - need + 1 .. k \subseteq cached[g]
          BY <3>1, <3>2, <5>1, <1>4
        <5>4. k \in ends
          BY <5>1, <5>2, <5>3, <1>e
        <5> QED
          BY <5>4, <1>17
      <4>2. k \in 0 .. cap - 1 /\ 0 .. k \subseteq cached[g]
        BY <4>1, <3>1, <3>2, <1>4
      <4>3. k \in runs
        BY <4>2, <3>1, <3>2, <1>15, <1>r
      <4>4. k + 1 <= run
        BY <4>3, <2>2
      <4>w. ASSUME WindowBlocks(g) * Size(g) <= Alignment
            PROVE  FALSE
        <5>1. PICK b \in Nat \ {0}, A \in Nat \ {0} : b = Size(g) /\ A = Alignment
          BY GroupFacts
        <5>2. c * b <= A /\ k < c /\ k \in Nat
          BY <4>w, <5>1, <4>1, <3>1, <3>2, <1>2, <1>4
        <5>3. k * b \in Nat /\ k * b < c * b
          BY <5>1, <5>2, <1>2, ProductLess, DivOfProduct
        <5>4. (k * b) % A = 0
          BY <5>1, <3>1 DEF Al
        <5>5. k * b >= 1
          BY <5>1, <3>1, SMT
        <5>6. PICK x \in Nat, y \in Nat : x = k * b /\ y = c * b
          BY <5>1, <5>2, <1>2, DivOfProduct
        <5>7. x % A = x
          BY <5>6, <5>2, <5>3, <5>1, SMT
        <5> QED
          BY <5>4, <5>5, <5>6, <5>7
      <4>5. Al(g, k + 1)
        <5>1. PICK a \in Nat \ {0} : a = Alignment /\ a = Size(g)
          BY <2>8, <3>2, <4>w, GroupFacts DEF DropIsExact
        <5>2. ((k + 1) * a) % a = 0
          BY <3>1
        <5> QED
          BY <5>1, <5>2 DEF Al
      <4>6. k + 1 <= hit
        BY <4>4, <4>5, <2>5, <2>2, <3>1
      <4>7. k \in 0 .. hit - 1 /\ hit > 0
        BY <4>6, <3>1, <2>5, <2>2
      <4> QED
        BY <4>7, <3>1, <3>2, <2>6
    <3>3. CASE ~ drop
      <4>0. need = c
        BY <3>3, <2>8, <1>2, <1>4
      <4>1. k < need
        <5>1. SUFFICES ASSUME k >= need PROVE FALSE
          BY <1>3
        <5>2. k - 1 \in 0 .. cap - 1 /\ (k - 1) + 1 = k
          BY <3>1
        <5>3. MayEnd(g, k - 1, drop)
          BY <5>2, <3>1, <3>3, <1>15
        <5>4. (k - 1) - need + 1 .. k - 1 \subseteq cached[g]
          BY <3>1, <5>1, <4>0
        <5>5. k - 1 \in ends
          BY <5>1, <5>2, <5>3, <5>4, <1>e
        <5> QED
          BY <5>5, <1>17
      <4>2. k - 1 \in 0 .. cap - 1 /\ 0 .. k - 1 \subseteq cached[g] /\ (k - 1) + 1 = k
        BY <4>0, <4>1, <3>1
      <4>3. k - 1 \in runs
        BY <4>2, <3>1, <3>3, <1>15, <1>r
      <4>4. k <= run
        BY <4>3, <4>2, <2>2
      <4> QED
        BY <4>4, <3>1, <3>3, <2>5, <2>6, <2>2
    <3> QED
      BY <3>2, <3>3
  <2> QED
    BY <1>1, <1>12, <2>7, <2>8
<1> QED
  BY <1>16, <1>17

-----------------------------------------------------------------------------
(* One lookup, counted in hash blocks.                                     *)

LEMMA FindOf ==
  ASSUME WellFormed(layout), NEW g \in Ids, NEW max_length \in Nat, NEW drop \in BOOLEAN
  PROVE  LET cap == max_length \div Size(g)
             r   == Find(g, max_length, drop)
         IN  /\ FindSound(g, cap, drop, r)
             /\ r \in [len : Nat, blocks : SUBSET Nat]
             /\ Groups[g].full \/ (Groups[g].window > 1 /\ (drop => DropIsExact(g)))
                  => FindLongest(g, cap, drop, r)
<1>1. PICK r : r = Find(g, max_length, drop)
  OBVIOUS
<1>2. PICK cap : cap = max_length \div Size(g)
  OBVIOUS
<1>3. /\ FindSound(g, cap, drop, r)
      /\ Groups[g].full \/ (Groups[g].window > 1 /\ (drop => DropIsExact(g)))
           => FindLongest(g, cap, drop, r)
  BY <1>1, <1>2, FindFullOf, FindWindowOf
<1>4. \E b, n : r = Trim(b, n)
  BY <1>1, Zenon DEF Find, FindFull, FindSlidingWindow
<1>5. r = [len |-> r.len, blocks |-> r.blocks]
  BY <1>4 DEF Trim
<1>6. r.len \in Nat /\ r.blocks \subseteq Nat
  BY <1>3, Zenon DEF FindSound
<1> QED
  BY <1>1, <1>2, <1>3, <1>5, <1>6

LEMMA WindowOf ==
  ASSUME WellFormed(layout), NEW g \in Ids, NEW length \in Nat
  PROVE  LET last == length \div Size(g)
         IN  \A i : i \in Window(g, length) <=>
               i \in 0 .. last - 1 /\ (Groups[g].full \/ i >= last - WindowBlocks(g))
<1>1. PICK last \in Nat : last = length \div Size(g)
  BY GroupFacts, DivBounds
<1>2. PICK need : need = IF Groups[g].full THEN last ELSE WindowBlocks(g)
  OBVIOUS
<1>3. need \in Nat
  BY <1>1, <1>2, GroupFacts
<1>4. PICK m : m = Max({0, last - need})
  OBVIOUS
<1>5. Window(g, length) = m .. last - 1
  BY <1>1, <1>2, <1>4, Zenon DEF Window, WindowBlocks, Size
<1>6. m = IF last >= need THEN last - need ELSE 0
  <2>1. PICK a \in Int : a = last - need
    BY <1>1, <1>3
  <2>2. \E x \in {0, a} : \A y \in {0, a} : x >= y
    BY <2>1
  <2>3. m \in {0, a} /\ \A y \in {0, a} : m >= y
    BY <1>4, <2>1, <2>2, Zenon DEF Max
  <2> QED
    BY <2>1, <2>3, <1>1, <1>3
<1>7. CASE Groups[g].full
  <2>1. m = 0
    BY <1>1, <1>2, <1>6, <1>7
  <2> QED
    BY <2>1, <1>1, <1>5, <1>7
<1>8. CASE ~ Groups[g].full
  <2>1. PICK c \in Nat : c = WindowBlocks(g) /\ m = IF last >= c THEN last - c ELSE 0
    BY <1>2, <1>3, <1>6, <1>8
  <2>2. \A i : i \in m .. last - 1 <=> i \in 0 .. last - 1 /\ i >= last - c
    BY <1>1, <2>1
  <2> QED
    BY <1>1, <2>1, <2>2, <1>5, <1>8
<1> QED
  BY <1>7, <1>8

\* What a lookup is asked for.
LEMMA MaxLengthOf ==
  ASSUME WellFormed(layout), NEW g \in Ids, curr_hit_length \in Nat, max_cache_hit_length \in Nat
  PROVE  /\ Max_length(g) \in Nat /\ DropsEagle(g) \in BOOLEAN
         /\ ~ DropsEagle(g) => Max_length(g) = curr_hit_length
         /\ DropsEagle(g) =>
              \/ Max_length(g) = curr_hit_length + Size(g)
              \/ Max_length(g) = max_cache_hit_length
                   /\ max_cache_hit_length <= curr_hit_length + Size(g)
<1>1. PICK b \in Nat \ {0} : b = Size(g)
  BY GroupFacts
<1>2. PICK x \in Nat : x = curr_hit_length + b
  BY <1>1
<1>3. PICK y \in Nat : y = max_cache_hit_length
  OBVIOUS
<1>4. PICK m : m = Min({x, y})
  OBVIOUS
<1>5. m \in {x, y} /\ m <= x /\ m <= y
  <2>1. \E z \in {x, y} : \A w \in {x, y} : z =< w
    BY <1>2, <1>3
  <2> QED
    BY <2>1, <1>4, Zenon DEF Min
<1>6. Max_length(g) = IF DropsEagle(g) THEN m ELSE curr_hit_length
  BY <1>1, <1>2, <1>3, <1>4, Zenon DEF Max_length, Size
<1>7. DropsEagle(g) \in BOOLEAN
  BY GroupFacts DEF DropsEagle
<1>8. m = x \/ (m = y /\ y <= x)
  BY <1>5
<1>9. m \in Nat
  BY <1>5
<1> QED
  BY <1>1, <1>2, <1>3, <1>6, <1>7, <1>8, <1>9

\* The conclusions of the two lemmas on a lookup.
LookupSound(g, r, L) ==
  /\ r \in [len : Nat, blocks : SUBSET Nat] /\ L \in Nat
  /\ L = r.len * Size(g) /\ L \div Size(g) = r.len
  /\ L <= curr_hit_length
  /\ Usable(g, L) /\ Window(g, L) \subseteq r.blocks
  /\ r.blocks \subseteq cached[g]
  /\ Groups[g].full => r.blocks = 0 .. r.len - 1
  /\ DropsEagle(g) /\ L > 0 => Peeked(g, L) \in cached[g]

LEMMA LookupIsSound ==
  ASSUME WellFormed(layout), NEW g \in Ids, curr_hit_length \in Nat, max_cache_hit_length \in Nat
  PROVE  LookupSound(g, Find(g, Max_length(g), DropsEagle(g)), NewLength(g))
<1>1. PICK b \in Nat \ {0} : b = Size(g) /\ Alignment \in Nat \ {0} /\ Alignment % b = 0
  BY GroupFacts
<1>2. PICK drop \in BOOLEAN : drop = DropsEagle(g)
  BY MaxLengthOf
<1>3. PICK max_length \in Nat : max_length = Max_length(g)
  BY MaxLengthOf
<1>4. PICK r : r = Find(g, max_length, drop)
  OBVIOUS
<1>5. PICK cap \in Nat : cap = max_length \div b
  BY <1>1, DivBounds
<1>6. FindSound(g, cap, drop, r) /\ r \in [len : Nat, blocks : SUBSET Nat]
  BY <1>1, <1>4, <1>5, FindOf
<1>7. PICK n \in Nat : n = r.len
  BY <1>6
<1>8. PICK L \in Nat : L = n * b
  BY <1>1, <1>7
<1>9. L \div b = n
  BY <1>8, DivOfProduct
<1>10. L = NewLength(g)
  BY <1>1, <1>2, <1>3, <1>4, <1>7, <1>8 DEF NewLength, Size
<1>11. /\ Al(g, n) /\ n <= cap
       /\ drop /\ n > 0 => n + 1 <= cap /\ n \in cached[g]
       /\ r.blocks \subseteq cached[g]
       /\ Groups[g].full => r.blocks = 0 .. n - 1
       /\ ~ Groups[g].full => \A i \in 0 .. n - 1 : i >= n - WindowBlocks(g) => i \in r.blocks
  BY <1>6, <1>7 DEF FindSound
<1>12. L <= curr_hit_length
  <2>1. PICK c \in Nat : c = curr_hit_length \div b
    BY <1>1, DivBounds
  <2>2. c * b \in Nat /\ c * b <= curr_hit_length
    BY <2>1, DivBounds
  <2>3. n <= c
    <3>1. CASE ~ drop
      BY <3>1, <2>1, <1>2, <1>3, <1>5, <1>11, MaxLengthOf
    <3>2. CASE drop /\ n > 0
      <4>1. max_length <= curr_hit_length + b
        BY <3>2, <1>1, <1>2, <1>3, MaxLengthOf
      <4>2. cap <= (curr_hit_length + b) \div b
        BY <4>1, <1>5, DivMonotone
      <4>3. (curr_hit_length + b) \div b = c + 1
        BY <2>1, DivPlusOne
      <4> QED
        BY <3>2, <4>2, <4>3, <2>1, <1>11, <1>5, <1>7
    <3>3. CASE n = 0
      BY <3>3, <2>1
    <3> QED
      BY <3>1, <3>2, <3>3, <1>7
  <2>4. n * b <= c * b
    BY <2>3, <2>1, <1>7, ProductMonotone
  <2> QED
    BY <2>2, <2>4, <1>8
<1>13. Window(g, L) \subseteq r.blocks
  <2>1. \A i : i \in Window(g, L) <=>
           i \in 0 .. n - 1 /\ (Groups[g].full \/ i >= n - WindowBlocks(g))
    BY <1>1, <1>8, <1>9, WindowOf
  <2> QED
    BY <2>1, <1>11
<1>14. Usable(g, L)
  <2>1. L % Alignment = 0
    BY <1>1, <1>8, <1>11 DEF Al
  <2> QED
    BY <2>1, <1>11, <1>13, Zenon DEF Usable
<1>15. drop /\ L > 0 => Peeked(g, L) \in cached[g]
  <2>1. Peeked(g, L) = n
    BY <1>1, <1>9 DEF Peeked, Size
  <2>2. L > 0 => n > 0
    BY <1>1, <1>7, <1>8
  <2> QED
    BY <2>1, <2>2, <1>11
<1> QED
  BY <1>1, <1>2, <1>3, <1>4, <1>6, <1>7, <1>8, <1>9, <1>10, <1>11, <1>12, <1>13, <1>14, <1>15
     DEF LookupSound

LEMMA LookupIsLongest ==
  ASSUME WellFormed(layout), NEW g \in Ids, curr_hit_length \in Nat, max_cache_hit_length \in Nat,
         Groups[g].full \/ (Groups[g].window > 1 /\ (Groups[g].use_eagle => DropIsExact(g))),
         NEW n \in 1 .. max_cache_hit_length, n <= curr_hit_length, UsableByAll(n)
  PROVE  n <= NewLength(g)
<1>1. PICK b \in Nat \ {0} : b = Size(g) /\ Alignment \in Nat \ {0} /\ Alignment % b = 0
  BY GroupFacts
<1>2. PICK drop \in BOOLEAN : drop = DropsEagle(g)
  BY MaxLengthOf
<1>3. PICK max_length \in Nat : max_length = Max_length(g)
  BY MaxLengthOf
<1>4. PICK r : r = Find(g, max_length, drop)
  OBVIOUS
<1>5. PICK cap \in Nat : cap = max_length \div b
  BY <1>1, DivBounds
<1>6. drop => Groups[g].use_eagle
  BY <1>2 DEF DropsEagle
<1>7. FindLongest(g, cap, drop, r) /\ r.len \in Nat
  BY <1>1, <1>4, <1>5, <1>6, FindOf
<1>8. PICK k \in Nat : k = n \div b
  BY <1>1, DivBounds
<1>9. Usable(g, n) /\ (Groups[g].use_eagle =>
        Peeked(g, n) \in cached[g] /\ Peeked(g, n) \in BlocksOf(g, max_cache_hit_length))
  BY DEF UsableByAll
<1>10. n % Alignment = 0 /\ Window(g, n) \subseteq cached[g]
  BY <1>9 DEF Usable
<1>11. n \in Nat /\ k * b = n
  <2>1. n \in Nat
    OBVIOUS
  <2>2. PICK A \in Nat \ {0} : A = Alignment
    BY <1>1
  <2>3. A % b = 0 /\ n % A = 0
    BY <2>2, <1>1, <1>10
  <2>4. (n \div b) * b = n
    BY <2>1, <2>3, AlignedIsWhole
  <2> QED
    BY <2>1, <2>4, <1>8
<1>12. k > 0
  BY <1>8, <1>11, <1>1
<1>13. Al(g, k)
  BY <1>1, <1>10, <1>11 DEF Al
<1>14. k <= curr_hit_length \div b
  BY <1>8, <1>11, DivMonotone
<1>15. drop => k \in cached[g] /\ k + 1 <= max_cache_hit_length \div b
  <2>1. SUFFICES ASSUME drop PROVE k \in cached[g] /\ k + 1 <= max_cache_hit_length \div b
    OBVIOUS
  <2>2. Peeked(g, n) = k /\ BlocksOf(g, max_cache_hit_length) = 0 .. (max_cache_hit_length \div b) - 1
    BY <1>1, <1>8 DEF Peeked, BlocksOf, Size
  <2>3. k \in cached[g] /\ k \in 0 .. (max_cache_hit_length \div b) - 1
    BY <2>1, <2>2, <1>6, <1>9
  <2>4. max_cache_hit_length \div b \in Nat
    BY <1>1, DivBounds
  <2> QED
    BY <2>3, <2>4
<1>16. k \in 1 .. cap /\ (drop => k + 1 <= cap)
  <2>1. CASE ~ drop
    BY <2>1, <1>2, <1>3, <1>5, <1>12, <1>14, MaxLengthOf
  <2>2. CASE drop
    <3>1. k + 1 <= (curr_hit_length + b) \div b
      <4>1. PICK c \in Nat : c = curr_hit_length \div b
        BY <1>1, DivBounds
      <4>2. (curr_hit_length + b) \div b = c + 1
        BY <4>1, DivPlusOne
      <4> QED
        BY <4>1, <4>2, <1>14, <1>8
    <3>2. max_length = curr_hit_length + b \/ max_length = max_cache_hit_length
      BY <2>2, <1>1, <1>2, <1>3, MaxLengthOf
    <3>3. k + 1 <= cap
      BY <3>1, <3>2, <2>2, <1>5, <1>15
    <3> QED
      BY <3>3, <1>5, <1>8, <1>12
  <2> QED
    BY <2>1, <2>2
<1>17. \A i \in 0 .. k - 1 : (Groups[g].full \/ i >= k - WindowBlocks(g)) => i \in cached[g]
  <2>1. \A i : i \in Window(g, n) <=>
           i \in 0 .. k - 1 /\ (Groups[g].full \/ i >= k - WindowBlocks(g))
    BY <1>1, <1>8, <1>11, WindowOf
  <2> QED
    BY <2>1, <1>10
<1>18. k <= r.len
  BY <1>7, <1>13, <1>15, <1>16, <1>17 DEF FindLongest
<1>19. k * b <= r.len * b
  BY <1>18, <1>7, <1>8, ProductMonotone
<1>20. NewLength(g) = r.len * b
  BY <1>1, <1>2, <1>3, <1>4 DEF NewLength, Size
<1> QED
  BY <1>11, <1>19, <1>20

-----------------------------------------------------------------------------
(* The types, and the order of the rounds.                                 *)

\* What the search reads and never changes.
LEMMA SameGiven ==
  ASSUME UNCHANGED given
  PROVE  /\ layout' = layout /\ cached' = cached /\ max_cache_hit_length' = max_cache_hit_length
         /\ Groups' = Groups /\ Ids' = Ids /\ Alignment' = Alignment
         /\ WellFormed(layout)' = WellFormed(layout)
         /\ is_simple_hybrid' = is_simple_hybrid
         /\ OneFullGroup' = OneFullGroup /\ OneEagleWindow' = OneEagleWindow
         /\ ExactScans' = ExactScans
         /\ \A g : Size(g)' = Size(g)
         /\ \A g, n : Window(g, n)' = Window(g, n) /\ Usable(g, n)' = Usable(g, n)
                        /\ Peeked(g, n)' = Peeked(g, n)
         /\ \A n : UsableByAll(n)' = UsableByAll(n)
<1>1. layout' = layout /\ cached' = cached /\ max_cache_hit_length' = max_cache_hit_length
  BY DEF given
<1>2. Groups' = Groups /\ Alignment' = Alignment
  BY <1>1 DEF Groups, Alignment
<1>3. Ids' = Ids
  BY <1>2 DEF Ids
<1>4. \A g, n : Window(g, n)' = Window(g, n) /\ Peeked(g, n)' = Peeked(g, n)
  BY <1>2, Zenon DEF Window, Peeked
<1>5. \A g, n : Usable(g, n)' = Usable(g, n)
  BY <1>1, <1>2, <1>4, Zenon DEF Usable
<1>6. \A n : UsableByAll(n)' = UsableByAll(n)
  BY <1>1, <1>2, <1>3, <1>4, <1>5, Zenon DEF UsableByAll, BlocksOf
<1>7. \A g : Size(g)' = Size(g)
  BY <1>2, Zenon DEF Size
<1>8. /\ WellFormed(layout)' = WellFormed(layout) /\ is_simple_hybrid' = is_simple_hybrid
  BY <1>1, <1>2, Zenon DEF is_simple_hybrid, WellFormed
<1>d. \A g : DropIsExact(g)' = DropIsExact(g)
  BY <1>2, <1>7, Zenon DEF DropIsExact, WindowBlocks
<1>9. OneFullGroup' = OneFullGroup /\ OneEagleWindow' = OneEagleWindow /\ ExactScans' = ExactScans
  BY <1>2, <1>3, <1>7, <1>d, Zenon DEF OneFullGroup, OneEagleWindow, ExactScans
<1> QED
  BY <1>1, <1>2, <1>3, <1>4, <1>5, <1>6, <1>7, <1>8, <1>9

LEMMA BaseFacts ==
  ASSUME BaseInv
  PROVE  /\ WellFormed(layout) /\ curr_hit_length \in Nat /\ max_cache_hit_length \in Nat
         /\ hit_length \in Nat
         /\ Groups \in Seq(AttentionGroup) /\ Len(Groups) \in Nat /\ Ids = 1 .. Len(Groups)
<1>1. WellFormed(layout) /\ max_cache_hit_length \in Nat
  BY DEF BaseInv, PrefillInv
<1>2. hit_length \in 0 .. max_cache_hit_length /\ curr_hit_length \in 0 .. max_cache_hit_length
  BY DEF BaseInv, TypeOK
<1>3. Groups \in Seq(AttentionGroup)
  BY <1>1 DEF WellFormed, Groups
<1> QED
  BY <1>1, <1>2, <1>3 DEF Ids

\* A lookup, of a group that needs none and of one that does.
LookedStep ==
  /\ pc = "search" /\ group \in Ids /\ Looked(group)
  /\ curr_hit_length' = curr_hit_length /\ group' = group + 1
  /\ UNCHANGED <<given, hit_length, pc, hit_blocks, eagle_verified>>
  /\ curr_hit_length % Alignment = 0

FoundStep(r) ==
  /\ pc = "search" /\ group \in Ids /\ ~ Looked(group)
  /\ r = Find(group, Max_length(group), DropsEagle(group))
  /\ LookupSound(group, r, curr_hit_length')
  /\ curr_hit_length' = NewLength(group) /\ group' = group + 1
  /\ hit_blocks' = [hit_blocks EXCEPT ![group] = r]
  /\ eagle_verified' = Verified(group)
  /\ UNCHANGED <<given, hit_length, pc>>

LEMMA LookUpCases ==
  ASSUME BaseInv, LookUp
  PROVE  LookedStep \/ \E r : FoundStep(r)
<1>1. pc = "search" /\ group \in Ids /\ group' = group + 1 /\ UNCHANGED <<given, hit_length, pc>>
  BY DEF LookUp
<1>2. CASE Looked(group)
  <2>1. curr_hit_length' = (curr_hit_length \div Size(group)) * Size(group)
          /\ UNCHANGED <<hit_blocks, eagle_verified>>
    BY <1>2 DEF LookUp, Size
  <2>2. hit_blocks[group] # None
    BY <1>2 DEF Looked
  <2>3. curr_hit_length % Alignment = 0
    BY <1>1, <2>2 DEF BaseInv, RoundInv
  <2>4. PICK b \in Nat \ {0}, A \in Nat \ {0}, c \in Nat :
           b = Size(group) /\ A = Alignment /\ c = curr_hit_length /\ A % b = 0
    BY <1>1, BaseFacts, GroupFacts
  <2>5. (c \div b) * b = c
    BY <2>3, <2>4, AlignedIsWhole
  <2>6. curr_hit_length' = curr_hit_length
    BY <2>1, <2>4, <2>5
  <2> QED
    BY <1>1, <1>2, <2>1, <2>3, <2>6 DEF LookedStep
<1>3. CASE ~ Looked(group)
  <2>1. PICK r : r = Find(group, Max_length(group), DropsEagle(group))
    OBVIOUS
  <2>2. /\ curr_hit_length' = NewLength(group) /\ eagle_verified' = Verified(group)
        /\ hit_blocks' = [hit_blocks EXCEPT ![group] = r]
    BY <1>3, <2>1, Zenon DEF LookUp
  <2>3. LookupSound(group, r, NewLength(group))
    BY <1>1, <2>1, BaseFacts, LookupIsSound
  <2>4. LookupSound(group, r, curr_hit_length')
    BY <2>2, <2>3, Zenon
  <2> QED
    BY <1>1, <1>3, <2>1, <2>2, <2>4, Zenon DEF FoundStep
<1> QED
  BY <1>2, <1>3

\* What any lookup leaves behind.
LookedResult(g) ==
  /\ curr_hit_length' \in 0 .. curr_hit_length
  /\ eagle_verified' \subseteq Ids
  /\ hit_blocks' \in [Ids -> [len : Int, blocks : SUBSET Nat]]
  /\ curr_hit_length' % Alignment = 0
  /\ hit_blocks'[g].len >= 0
  /\ \A h \in Ids : h # g => hit_blocks'[h] = hit_blocks[h]

LEMMA LookUpKeepsBase ==
  ASSUME BaseInv, LookUp, UNCHANGED <<num_computed_tokens, num_cached_block>>
  PROVE  BaseInv'
<1>1. UNCHANGED given
  BY DEF LookUp
<1>2. /\ Ids' = Ids /\ Groups' = Groups /\ Alignment' = Alignment /\ cached' = cached
      /\ max_cache_hit_length' = max_cache_hit_length /\ WellFormed(layout)'
  BY <1>1, SameGiven, BaseFacts
<1>3. Ids = 1 .. Len(Groups) /\ Len(Groups) \in Nat
  BY BaseFacts
<1>4. pc' = "search" /\ pc = "search" /\ hit_length' = hit_length /\ group \in Ids
        /\ group' = group + 1
  BY DEF LookUp
<1>5. group' \in 1 .. Len(Groups) + 1
  BY <1>3, <1>4
<1>5r. LookedResult(group)
  <2>0. /\ eagle_verified \subseteq Ids /\ hit_blocks \in [Ids -> [len : Int, blocks : SUBSET Nat]]
        /\ curr_hit_length \in Nat
        /\ hit_blocks[group] = None \/ hit_blocks[group].len >= 0
    BY <1>4, BaseFacts DEF BaseInv, TypeOK, PrefillInv, RoundInv
  <2>1. CASE LookedStep
    BY <2>0, <2>1 DEF LookedStep, Looked, LookedResult
  <2>2. ASSUME NEW r, FoundStep(r) PROVE LookedResult(group)
    <3>1. LookupSound(group, r, curr_hit_length')
      BY <2>2 DEF FoundStep
    <3>2. /\ r \in [len : Nat, blocks : SUBSET Nat]
          /\ curr_hit_length' \in Nat /\ curr_hit_length' <= curr_hit_length
          /\ curr_hit_length' % Alignment = 0
      BY <3>1 DEF LookupSound, Usable
    <3>3. hit_blocks' = [hit_blocks EXCEPT ![group] = r]
      BY <2>2 DEF FoundStep
    <3>4. r \in [len : Int, blocks : SUBSET Nat] /\ r.len >= 0
      BY <3>2
    <3>5. /\ hit_blocks' \in [Ids -> [len : Int, blocks : SUBSET Nat]]
          /\ hit_blocks'[group] = r
          /\ \A g \in Ids : g # group => hit_blocks'[g] = hit_blocks[g]
      BY <2>0, <3>3, <3>4, <1>4, Zenon
    <3>6. eagle_verified' \subseteq Ids
      BY <2>0, <2>2, <1>4 DEF FoundStep, Verified
    <3> QED
      BY <2>0, <3>2, <3>4, <3>5, <3>6 DEF LookedResult
  <2> QED
    BY <2>1, <2>2, LookUpCases
<1>6. /\ curr_hit_length' \in 0 .. curr_hit_length
      /\ eagle_verified' \subseteq Ids
      /\ hit_blocks' \in [Ids -> [len : Int, blocks : SUBSET Nat]]
      /\ curr_hit_length' % Alignment = 0
      /\ hit_blocks'[group].len >= 0
      /\ \A g \in Ids : g # group => hit_blocks'[g] = hit_blocks[g]
  BY <1>5r DEF LookedResult
<1>7. /\ hit_length \in 0 .. max_cache_hit_length /\ curr_hit_length \in 0 .. max_cache_hit_length
      /\ curr_hit_length <= hit_length /\ max_cache_hit_length \in Nat
      /\ \A g \in Ids : g < group => hit_blocks[g].len >= 0
      /\ \A g \in Ids : hit_blocks[g] = None \/ hit_blocks[g].len >= 0
  BY <1>4, BaseFacts DEF BaseInv, TypeOK, RoundInv
<1>8. TypeOK'
  <2>1. curr_hit_length' \in 0 .. max_cache_hit_length
    BY <1>6, <1>7
  <2>2. cached \in [Ids -> SUBSET (0 .. max_cache_hit_length)]
    BY DEF BaseInv, TypeOK
  <2> QED
    BY <1>2, <1>4, <1>5, <1>6, <1>7, <2>1, <2>2 DEF TypeOK
<1>9. PrefillInv'
  <2>1. num_computed_tokens \in 0 .. max_cache_hit_length + 1 /\ num_cached_block \in [Ids -> Nat]
    BY DEF BaseInv, PrefillInv, num_prompt_tokens
  <2> QED
    BY <1>2, <1>4, <1>6, <1>7, <2>1 DEF PrefillInv, num_prompt_tokens
<1>10. RoundInv'
  <2>1. curr_hit_length' <= hit_length'
    BY <1>4, <1>6, <1>7
  <2>2. \A g \in Ids : g < group' => hit_blocks'[g].len >= 0
    <3>1. TAKE g \in Ids
    <3>2. HAVE g < group'
    <3>3. CASE g = group
      BY <3>3, <1>6
    <3>4. CASE g # group
      <4>1. g < group
        BY <3>1, <3>2, <3>4, <1>3, <1>4
      <4> QED
        BY <3>4, <4>1, <1>6, <1>7
    <3> QED
      BY <3>3, <3>4
  <2>3. \A g \in Ids : hit_blocks'[g] = None \/ hit_blocks'[g].len >= 0
    BY <1>6, <1>7
  <2> QED
    BY <2>1, <2>2, <2>3, <1>2, <1>6 DEF RoundInv, None
<1> QED
  BY <1>8, <1>9, <1>10 DEF BaseInv

\* The end of a round: the current hit becomes the hit, and the search goes on or is done.
EndStep ==
  /\ pc = "search" /\ group = Len(Groups) + 1
  /\ hit_length' = curr_hit_length
  /\ UNCHANGED <<given, eagle_verified>>
  /\ \/ pc' = "done" /\ hit_blocks' = Truncated(curr_hit_length) /\ LastRound
          /\ UNCHANGED <<group, curr_hit_length>>
     \/ pc' = "search" /\ group' = 1 /\ curr_hit_length' = curr_hit_length /\ ~ LastRound
          /\ UNCHANGED hit_blocks

LEMMA EndRoundIsEndStep ==
  ASSUME BaseInv, EndRound
  PROVE  EndStep
<1>1. pc = "search" /\ group = Len(Groups) + 1 /\ UNCHANGED <<given, eagle_verified>>
  BY DEF EndRound
<1>2. curr_hit_length \in Nat /\ hit_length \in Nat /\ curr_hit_length <= hit_length
  BY <1>1, BaseFacts DEF BaseInv, RoundInv
<1>3. hit_length' = IF curr_hit_length >= hit_length THEN hit_length ELSE curr_hit_length
  BY DEF EndRound
<1>4. hit_length' = curr_hit_length
  BY <1>2, <1>3
<1>5. CASE LastRound
  <2>1. pc' = "done" /\ hit_blocks' = Truncated(hit_length') /\ UNCHANGED <<group, curr_hit_length>>
    BY <1>5 DEF EndRound
  <2>2. hit_blocks' = Truncated(curr_hit_length)
    BY <2>1, <1>4, Zenon
  <2> QED
    BY <1>1, <1>4, <1>5, <2>1, <2>2 DEF EndStep
<1>6. CASE ~ LastRound
  <2>1. group' = 1 /\ curr_hit_length' = hit_length' /\ UNCHANGED <<pc, hit_blocks>>
    BY <1>6 DEF EndRound
  <2> QED
    BY <1>1, <1>4, <1>6, <2>1 DEF EndStep
<1> QED
  BY <1>5, <1>6

\* The hit of the first full-attention group, cut to the final length.
LEMMA TruncatedOf ==
  ASSUME BaseInv, NEW length \in Nat
  PROVE  /\ Truncated(length) \in [Ids -> [len : Int, blocks : SUBSET Nat]]
         /\ \A g \in Ids :
              /\ ~ (Groups[g].full /\ g = 1) => Truncated(length)[g] = hit_blocks[g]
              /\ Groups[g].full /\ g = 1 =>
                   /\ hit_blocks[g].len >= length \div Size(g)
                        => Truncated(length)[g].len = length \div Size(g)
                   /\ Truncated(length)[g].blocks =
                        {i \in hit_blocks[g].blocks : i < Truncated(length)[g].len}
<1>1. hit_blocks \in [Ids -> [len : Int, blocks : SUBSET Nat]] /\ WellFormed(layout)
  BY BaseFacts DEF BaseInv, PrefillInv
<1>2. PICK t : t = Truncated(length)
  OBVIOUS
<1>3. ASSUME NEW g \in Ids
      PROVE  /\ t[g] \in [len : Int, blocks : SUBSET Nat]
             /\ ~ (Groups[g].full /\ g = 1) => t[g] = hit_blocks[g]
             /\ Groups[g].full /\ g = 1 =>
                  /\ hit_blocks[g].len >= length \div Size(g) => t[g].len = length \div Size(g)
                  /\ t[g].blocks = {i \in hit_blocks[g].blocks : i < t[g].len}
  <2>1. PICK last \in Nat : last = length \div Size(g)
    BY <1>1, GroupFacts, DivBounds
  <2>2. PICK len \in Int, blocks \in SUBSET Nat : len = hit_blocks[g].len /\ blocks = hit_blocks[g].blocks
    BY <1>1
  <2>3. PICK m : m = Min({len, last})
    OBVIOUS
  <2>4. m \in Int /\ (len >= last => m = last)
    <3>1. \E x \in {len, last} : \A y \in {len, last} : x =< y
      OBVIOUS
    <3>2. m \in {len, last} /\ \A y \in {len, last} : m =< y
      BY <2>3, <3>1, Zenon DEF Min
    <3> QED
      BY <3>2
  <2>5. t[g] = IF Groups[g].full /\ g = 1 THEN Trim(blocks, m) ELSE hit_blocks[g]
    BY <1>2, <2>1, <2>2, <2>3, Zenon DEF Truncated, Size
  <2>6. Trim(blocks, m) \in [len : Int, blocks : SUBSET Nat] /\ Trim(blocks, m).len = m
           /\ Trim(blocks, m).blocks = {i \in blocks : i < m}
    BY <2>4 DEF Trim
  <2>7. hit_blocks[g] \in [len : Int, blocks : SUBSET Nat]
    BY <1>1
  <2> QED
    BY <2>1, <2>2, <2>4, <2>5, <2>6, <2>7
<1>4. t = [g \in Ids |-> t[g]]
  BY <1>2, Zenon DEF Truncated
<1> QED
  BY <1>2, <1>3, <1>4

LEMMA EndRoundKeepsBase ==
  ASSUME BaseInv, EndRound, UNCHANGED <<num_computed_tokens, num_cached_block>>
  PROVE  BaseInv'
<1>1. EndStep
  BY EndRoundIsEndStep
<1>2. /\ Ids' = Ids /\ Groups' = Groups /\ Alignment' = Alignment /\ cached' = cached
      /\ max_cache_hit_length' = max_cache_hit_length /\ WellFormed(layout)'
  BY <1>1, SameGiven, BaseFacts DEF EndStep
<1>3. /\ pc = "search" /\ hit_length' = curr_hit_length /\ curr_hit_length' = curr_hit_length
      /\ group' \in {1, group} /\ eagle_verified' = eagle_verified
      /\ pc' = "done" \/ (pc' = "search" /\ group' = 1 /\ hit_blocks' = hit_blocks)
  BY <1>1 DEF EndStep
<1>4. /\ curr_hit_length \in 0 .. max_cache_hit_length /\ group \in 1 .. Len(Groups) + 1
      /\ eagle_verified \subseteq Ids /\ Len(Groups) \in Nat /\ max_cache_hit_length \in Nat
      /\ cached \in [Ids -> SUBSET (0 .. max_cache_hit_length)]
  BY BaseFacts DEF BaseInv, TypeOK
<1>5. hit_blocks' \in [Ids -> [len : Int, blocks : SUBSET Nat]]
  <2>1. hit_blocks \in [Ids -> [len : Int, blocks : SUBSET Nat]] /\ curr_hit_length \in Nat
    BY BaseFacts DEF BaseInv, PrefillInv
  <2> QED
    BY <1>1, <2>1, TruncatedOf DEF EndStep
<1>6. TypeOK'
  <2>1. group' \in 1 .. Len(Groups) + 1
    BY <1>3, <1>4
  <2> QED
    BY <1>2, <1>3, <1>4, <2>1 DEF TypeOK
<1>7. PrefillInv'
  <2>1. num_computed_tokens \in 0 .. max_cache_hit_length + 1 /\ num_cached_block \in [Ids -> Nat]
    BY DEF BaseInv, PrefillInv, num_prompt_tokens
  <2> QED
    BY <1>2, <1>3, <1>4, <1>5, <2>1 DEF PrefillInv, num_prompt_tokens
<1>8. RoundInv'
  <2>1. SUFFICES ASSUME pc' = "search" PROVE RoundInv'
    BY DEF RoundInv
  <2>2. group' = 1 /\ hit_blocks' = hit_blocks
    BY <2>1, <1>3
  <2>3. /\ \A g \in Ids : hit_blocks[g] = None \/ hit_blocks[g].len >= 0
        /\ \/ curr_hit_length % Alignment = 0
           \/ group = 1 /\ eagle_verified = {} /\ \A g \in Ids : hit_blocks[g] = None
    BY <1>3 DEF BaseInv, RoundInv
  <2>4. \A g \in Ids : ~ (g < 1)
    BY BaseFacts
  <2>5. curr_hit_length' <= hit_length'
    BY <1>3, <1>4
  <2> QED
    BY <1>2, <1>3, <2>2, <2>3, <2>4, <2>5 DEF RoundInv, None
<1> QED
  BY <1>6, <1>7, <1>8 DEF BaseInv
-----------------------------------------------------------------------------
(* The prefill.                                                            *)

LEMMA NumFullBlocksOf ==
  ASSUME WellFormed(layout), NEW g \in Ids, NEW num_tokens \in Nat
  PROVE  NumFullBlocks(g, num_tokens) \in 0 .. num_tokens
<1>1. PICK b \in Nat \ {0} : b = Groups[g].block_size
  BY GroupFacts DEF Size
<1>2. PICK aligned \in Nat : aligned = (num_tokens \div Alignment) * Alignment /\ aligned <= num_tokens
  BY GroupFacts, DivBounds
<1>3. PICK x \in Nat : x = aligned + b
  BY <1>1, <1>2
<1>4. PICK m : m = Min({num_tokens, x})
  OBVIOUS
<1>5. m \in Nat /\ m <= num_tokens
  <2>1. \E z \in {num_tokens, x} : \A y \in {num_tokens, x} : z =< y
    BY <1>3
  <2>2. m \in {num_tokens, x} /\ \A y \in {num_tokens, x} : m =< y
    BY <1>4, <2>1, Zenon DEF Min
  <2> QED
    BY <2>2, <1>3
<1>6. NumTokensToCache(g, num_tokens) \in {m, aligned}
  BY <1>1, <1>2, <1>3, <1>4, Zenon DEF NumTokensToCache
<1>7. PICK n \in Nat : n = NumTokensToCache(g, num_tokens) /\ n <= num_tokens
  BY <1>2, <1>5, <1>6
<1>8. n \div b \in Nat /\ n \div b <= n
  BY <1>1, SMT
<1> QED
  BY <1>1, <1>7, <1>8 DEF NumFullBlocks

LEMMA AllocateSlotsKeepsBase ==
  ASSUME BaseInv, AllocateSlots
  PROVE  BaseInv' /\ pc' = "prefill" /\ layout' = layout
<1>1. /\ pc = "prefill" /\ layout' = layout /\ max_cache_hit_length' = max_cache_hit_length
      /\ hit_length' = hit_length /\ curr_hit_length' = curr_hit_length /\ group' = group
      /\ hit_blocks' = hit_blocks /\ eagle_verified' = eagle_verified /\ pc' = pc
  BY DEF AllocateSlots, searchVars
<1>2. Groups' = Groups /\ Ids' = Ids /\ Alignment' = Alignment /\ num_prompt_tokens' = num_prompt_tokens
        /\ WellFormed(layout)' = WellFormed(layout)
  BY <1>1 DEF Groups, Ids, Alignment, num_prompt_tokens, WellFormed
<1>3. PICK n \in Chunks :
        LET num_tokens == num_computed_tokens + n
        IN /\ num_tokens <= num_prompt_tokens
           /\ num_computed_tokens' = num_tokens
           /\ cached' = [g \in Ids |-> cached[g] \cup
                {i \in num_cached_block[g] .. NumFullBlocks(g, num_tokens) - 1 :
                   reachable_block_mask(g, i) /\ ~ Skipped(g, i)}]
           /\ num_cached_block' = [g \in Ids |->
                Max({num_cached_block[g], NumFullBlocks(g, num_tokens)})]
  BY Zenon DEF AllocateSlots
<1>4. /\ num_computed_tokens \in Nat /\ num_cached_block \in [Ids -> Nat] /\ n \in Nat
      /\ max_cache_hit_length \in Nat /\ num_prompt_tokens = max_cache_hit_length + 1
      /\ cached \in [Ids -> SUBSET (0 .. max_cache_hit_length)] /\ WellFormed(layout)
  BY ReplayAssumption DEF BaseInv, TypeOK, PrefillInv, num_prompt_tokens
<1>5. PICK num_tokens \in Nat : num_tokens = num_computed_tokens + n
  BY <1>4
<1>6. num_tokens <= num_prompt_tokens /\ num_computed_tokens' = num_tokens
  BY <1>3, <1>5
<1>7. cached' \in [Ids -> SUBSET (0 .. max_cache_hit_length)]
  <2>1. ASSUME NEW g \in Ids
        PROVE  cached[g] \cup
                {i \in num_cached_block[g] .. NumFullBlocks(g, num_tokens) - 1 :
                   reachable_block_mask(g, i) /\ ~ Skipped(g, i)} \in SUBSET (0 .. max_cache_hit_length)
    <3>1. NumFullBlocks(g, num_tokens) \in 0 .. num_tokens /\ num_cached_block[g] \in Nat
      BY <1>4, <1>5, NumFullBlocksOf
    <3>2. num_cached_block[g] .. NumFullBlocks(g, num_tokens) - 1 \subseteq 0 .. max_cache_hit_length
      BY <3>1, <1>4, <1>5, <1>6
    <3>3. cached[g] \subseteq 0 .. max_cache_hit_length
      BY <1>4
    <3> QED
      BY <3>2, <3>3, Zenon
  <2>2. cached' = [g \in Ids |-> cached[g] \cup
                {i \in num_cached_block[g] .. NumFullBlocks(g, num_tokens) - 1 :
                   reachable_block_mask(g, i) /\ ~ Skipped(g, i)}]
    BY <1>3, <1>5
  <2> QED
    BY <2>1, <2>2, Zenon
<1>8. num_cached_block' \in [Ids -> Nat]
  <2>1. ASSUME NEW g \in Ids
        PROVE  Max({num_cached_block[g], NumFullBlocks(g, num_tokens)}) \in Nat
    <3>1. PICK x \in Nat, y \in Nat : x = num_cached_block[g] /\ y = NumFullBlocks(g, num_tokens)
      BY <1>4, <1>5, NumFullBlocksOf
    <3>2. \E z \in {x, y} : \A w \in {x, y} : z >= w
      OBVIOUS
    <3>3. Max({x, y}) \in {x, y}
      BY <3>2, Zenon DEF Max
    <3> QED
      BY <3>1, <3>3
  <2>2. num_cached_block' = [g \in Ids |->
                Max({num_cached_block[g], NumFullBlocks(g, num_tokens)})]
    BY <1>3, <1>5
  <2> QED
    BY <2>1, <2>2, Zenon
<1>9. TypeOK'
  BY <1>1, <1>2, <1>7 DEF BaseInv, TypeOK
<1>10. PrefillInv'
  <2>1. num_computed_tokens' \in 0 .. num_prompt_tokens
    BY <1>4, <1>5, <1>6
  <2> QED
    BY <1>1, <1>2, <1>4, <1>8, <2>1 DEF BaseInv, PrefillInv, None
<1>11. RoundInv'
  BY <1>1 DEF RoundInv
<1> QED
  BY <1>1, <1>9, <1>10, <1>11 DEF BaseInv

LEMMA ReplayKeepsBase ==
  ASSUME BaseInv, Replay
  PROVE  BaseInv'
<1>1. /\ pc = "prefill" /\ pc' = "search" /\ UNCHANGED given
      /\ hit_length' = max_cache_hit_length /\ curr_hit_length' = max_cache_hit_length
      /\ group' = group /\ hit_blocks' = hit_blocks /\ eagle_verified' = eagle_verified
      /\ num_computed_tokens' = num_computed_tokens /\ num_cached_block' = num_cached_block
  BY DEF Replay
<1>2. /\ layout' = layout /\ cached' = cached /\ max_cache_hit_length' = max_cache_hit_length
      /\ Groups' = Groups /\ Ids' = Ids /\ WellFormed(layout)' = WellFormed(layout)
      /\ num_prompt_tokens' = num_prompt_tokens
  BY <1>1, SameGiven DEF num_prompt_tokens
<1>3. max_cache_hit_length \in Nat /\ WellFormed(layout)
  BY BaseFacts
<1>4. TypeOK'
  BY <1>1, <1>2, <1>3 DEF BaseInv, TypeOK
<1>5. PrefillInv'
  BY <1>1, <1>2, <1>3 DEF BaseInv, PrefillInv
<1>6. group = 1 /\ eagle_verified = {} /\ \A g \in Ids : hit_blocks[g] = None
  BY <1>1 DEF BaseInv, PrefillInv
<1>7. \A g \in Ids : ~ (g < 1)
  BY BaseFacts
<1>8. RoundInv'
  BY <1>1, <1>2, <1>3, <1>6, <1>7 DEF RoundInv, None
<1> QED
  BY <1>4, <1>5, <1>8 DEF BaseInv

LEMMA InitBase ==
  ASSUME ReplayInit
  PROVE  /\ BaseInv
         /\ pc \in {"prefill", "search"} /\ group = 1 /\ eagle_verified = {}
         /\ \A g \in Ids : hit_blocks[g] = None
         /\ pc = "search" => curr_hit_length = max_cache_hit_length /\ hit_length = max_cache_hit_length
<1>1. /\ layout \in Layouts \cup Replays /\ max_cache_hit_length \in layout.lengths
      /\ group = 1 /\ eagle_verified = {} /\ hit_blocks = [g \in Ids |-> None]
      /\ num_computed_tokens = 0 /\ num_cached_block = [g \in Ids |-> 0]
      /\ pc \in {"prefill", "search"}
      /\ pc = "search" => curr_hit_length = max_cache_hit_length /\ hit_length = max_cache_hit_length
      /\ pc = "prefill" => curr_hit_length = 0 /\ hit_length = 0
  BY DEF ReplayInit, Init, PrefillInit
<1>2. WellFormed(layout)
  BY <1>1, LayoutAssumption, ReplayAssumption
<1>3. max_cache_hit_length \in Nat /\ Len(Groups) \in Nat /\ Ids = 1 .. Len(Groups)
  BY <1>1, <1>2 DEF WellFormed, Groups, Ids
<1>4. cached \in [Ids -> SUBSET (0 .. max_cache_hit_length)]
  <2>1. CASE cached = [g \in Ids |-> {}]
    BY <2>1
  <2>2. CASE cached \in [Ids -> SUBSET (0 .. max_cache_hit_length - 1)]
    <3>1. 0 .. max_cache_hit_length - 1 \subseteq 0 .. max_cache_hit_length
      BY <1>3
    <3> QED
      BY <2>2, <3>1
  <2> QED
    BY <2>1, <2>2 DEF ReplayInit, Init, PrefillInit
<1>5. TypeOK
  BY <1>1, <1>3, <1>4 DEF TypeOK
<1>6. None \in [len : Int, blocks : SUBSET Nat]
  BY DEF None
<1>7. PrefillInv
  BY <1>1, <1>2, <1>3, <1>6 DEF PrefillInv, num_prompt_tokens
<1>8. \A g \in Ids : ~ (g < 1)
  BY <1>3
<1>9. RoundInv
  BY <1>1, <1>3, <1>8 DEF RoundInv
<1> QED
  BY <1>1, <1>5, <1>7, <1>9 DEF BaseInv

LEMMA SameVars ==
  ASSUME UNCHANGED replayVars
  PROVE  /\ UNCHANGED given /\ hit_length' = hit_length /\ curr_hit_length' = curr_hit_length
         /\ group' = group /\ hit_blocks' = hit_blocks /\ eagle_verified' = eagle_verified /\ pc' = pc
         /\ num_computed_tokens' = num_computed_tokens /\ num_cached_block' = num_cached_block
  BY DEF replayVars, vars, searchVars, given

LEMMA StepKeepsBase ==
  ASSUME BaseInv, [ReplayNext]_replayVars
  PROVE  BaseInv'
<1>1. CASE AllocateSlots
  BY <1>1, AllocateSlotsKeepsBase
<1>2. CASE Replay
  BY <1>2, ReplayKeepsBase
<1>3. CASE LookUp /\ UNCHANGED <<num_computed_tokens, num_cached_block>>
  BY <1>3, LookUpKeepsBase
<1>4. CASE EndRound /\ UNCHANGED <<num_computed_tokens, num_cached_block>>
  BY <1>4, EndRoundKeepsBase
<1>5. CASE UNCHANGED replayVars
  <2>1. /\ Ids' = Ids /\ Groups' = Groups /\ Alignment' = Alignment /\ cached' = cached
        /\ max_cache_hit_length' = max_cache_hit_length /\ WellFormed(layout)' = WellFormed(layout)
        /\ num_prompt_tokens' = num_prompt_tokens
    BY <1>5, SameVars, SameGiven DEF num_prompt_tokens
  <2>2. TypeOK'
    BY <1>5, <2>1, SameVars DEF BaseInv, TypeOK
  <2>3. PrefillInv'
    BY <1>5, <2>1, SameVars DEF BaseInv, PrefillInv, None
  <2>4. RoundInv'
    BY <1>5, <2>1, SameVars DEF BaseInv, RoundInv, None
  <2> QED
    BY <2>2, <2>3, <2>4 DEF BaseInv
<1> QED
  BY <1>1, <1>2, <1>3, <1>4, <1>5 DEF ReplayNext, Next
-----------------------------------------------------------------------------
(* Longest: no usable prefix is lost.                                      *)

LEMMA StepKeepsLongest ==
  ASSUME BaseInv, ExactScans => LongestInv, [ReplayNext]_replayVars
  PROVE  (ExactScans => LongestInv)'
<1>1. CASE AllocateSlots
  BY <1>1, AllocateSlotsKeepsBase DEF LongestInv
<1>2. CASE Replay
  <2>1. /\ hit_length' = max_cache_hit_length /\ curr_hit_length' = max_cache_hit_length
        /\ UNCHANGED given
    BY <1>2 DEF Replay
  <2>2. max_cache_hit_length' = max_cache_hit_length /\ max_cache_hit_length \in Nat
    BY <2>1, SameGiven, BaseFacts
  <2>3. \A n \in 1 .. max_cache_hit_length : n <= max_cache_hit_length
    BY <2>2
  <2> QED
    BY <2>1, <2>2, <2>3 DEF LongestInv
<1>3. CASE LookUp \/ EndRound \/ UNCHANGED replayVars
  <2>1. UNCHANGED given
    BY <1>3, SameVars DEF LookUp, EndRound
  <2>2. SUFFICES ASSUME ExactScans, pc' # "prefill",
                        NEW n \in 1 .. max_cache_hit_length, UsableByAll(n)
                 PROVE  n <= hit_length' /\ (pc' = "search" => n <= curr_hit_length')
    BY <2>1, SameGiven, Zenon DEF LongestInv
  <2>3. pc # "prefill" => n <= hit_length /\ (pc = "search" => n <= curr_hit_length)
    BY <2>2 DEF LongestInv
  <2>4. CASE LookUp
    <3>1. pc = "search" /\ hit_length' = hit_length /\ group \in Ids
      BY <2>4 DEF LookUp
    <3>2. n <= hit_length /\ n <= curr_hit_length
      BY <2>3, <3>1
    <3>3. CASE LookedStep
      BY <3>1, <3>2, <3>3 DEF LookedStep
    <3>4. ASSUME NEW r, FoundStep(r)
          PROVE  n <= curr_hit_length'
      <4>1. Groups[group].full \/ (Groups[group].window > 1
               /\ (Groups[group].use_eagle => DropIsExact(group)))
        BY <2>2, <3>1 DEF ExactScans
      <4>2. n <= NewLength(group)
        BY <2>2, <3>1, <3>2, <4>1, BaseFacts, LookupIsLongest
      <4> QED
        BY <4>2, <3>4 DEF FoundStep
    <3> QED
      BY <2>4, <3>1, <3>2, <3>3, <3>4, LookUpCases
  <2>5. CASE EndRound
    <3>1. EndStep
      BY <2>5, EndRoundIsEndStep
    <3>2. pc = "search" /\ hit_length' = curr_hit_length /\ curr_hit_length' = curr_hit_length
      BY <3>1 DEF EndStep
    <3> QED
      BY <2>3, <3>2
  <2>6. CASE UNCHANGED replayVars
    BY <2>2, <2>3, <2>6, SameVars
  <2> QED
    BY <1>3, <2>4, <2>5, <2>6
<1> QED
  BY <1>1, <1>2, <1>3 DEF ReplayNext, Next

(***************************************************************************)
(* HitsAlwaysLongest: find_longest_cache_hit returns the longest hit: for  *)
(* every layout in which the scans are exact, every prompt and every       *)
(* content of the cache, no prefix longer than the hit is usable by all    *)
(* groups.                                                                 *)
(***************************************************************************)
THEOREM HitsAlwaysLongest == ReplaySpec => [](ExactScans => HitIsLongest)
<1>1. ReplayInit => BaseInv /\ (ExactScans => LongestInv)
  <2>1. SUFFICES ASSUME ReplayInit PROVE BaseInv /\ LongestInv
    OBVIOUS
  <2>2. BaseInv
    BY <2>1, InitBase
  <2>3. \A n \in 1 .. max_cache_hit_length : n <= max_cache_hit_length
    BY <2>2, BaseFacts
  <2> QED
    BY <2>1, <2>2, <2>3, InitBase DEF LongestInv
<1>2. BaseInv /\ (ExactScans => LongestInv) /\ [ReplayNext]_replayVars
        => (BaseInv /\ (ExactScans => LongestInv))'
  BY StepKeepsBase, StepKeepsLongest
<1>3. BaseInv /\ (ExactScans => LongestInv) => (ExactScans => HitIsLongest)
  <2>1. SUFFICES ASSUME BaseInv, LongestInv, pc = "done",
                        NEW n \in hit_length + 1 .. max_cache_hit_length, UsableByAll(n)
                 PROVE  FALSE
    BY DEF HitIsLongest
  <2>2. n \in 1 .. max_cache_hit_length /\ ~ (n <= hit_length)
    BY <2>1, BaseFacts
  <2> QED
    BY <2>1, <2>2 DEF LongestInv
<1> QED
  BY <1>1, <1>2, <1>3, PTL DEF ReplaySpec

-----------------------------------------------------------------------------
(* Usable: every group can use the hit.                                    *)

OneEach == OneFullGroup /\ OneEagleWindow

LEMMA HitOfSame ==
  ASSUME UNCHANGED given, NEW g, hit_blocks'[g] = hit_blocks[g]
  PROVE  HitOf(g)' = HitOf(g)
  BY SameGiven DEF HitOf

LEMMA HitOfNat ==
  ASSUME BaseInv, NEW g \in Ids, hit_blocks[g].len >= 0
  PROVE  /\ hit_blocks[g].len \in Nat /\ HitOf(g) \in Nat
         /\ HitOf(g) \div Size(g) = hit_blocks[g].len
<1>1. hit_blocks[g].len \in Nat
  <2>1. hit_blocks[g] \in [len : Int, blocks : SUBSET Nat]
    BY DEF BaseInv, PrefillInv
  <2> QED
    BY <2>1
<1>2. PICK k \in Nat, b \in Nat \ {0} : k = hit_blocks[g].len /\ b = Size(g)
  BY <1>1, BaseFacts, GroupFacts
<1>3. k * b \in Nat /\ (k * b) \div b = k
  BY DivOfProduct
<1> QED
  BY <1>1, <1>2, <1>3 DEF HitOf

LEMMA LookUpKeepsFull ==
  ASSUME BaseInv, BaseInv', OneEach, UsableInv, LookUp
  PROVE  FullInv'
<1>0. pc = "search" /\ group \in Ids /\ group \in Nat
  BY BaseFacts DEF LookUp
<1>1. SUFFICES ASSUME NEW g \in Ids, Groups[g].full
      PROVE  /\ hit_blocks'[g] = None => eagle_verified' = {}
             /\ hit_blocks'[g].len >= 0 =>
                  /\ hit_blocks'[g].blocks = 0 .. hit_blocks'[g].len - 1
                  /\ hit_blocks'[g].blocks \subseteq cached[g]
                  /\ curr_hit_length' <= HitOf(g)'
                  /\ Groups[g].use_eagle /\ hit_blocks'[g].len > 0 => hit_blocks'[g].len \in cached[g]
  <2>1. UNCHANGED given
    BY DEF LookUp
  <2> QED
    BY <2>1, SameGiven DEF FullInv, None
<1>2. g = 1
  BY <1>1 DEF OneEach, OneFullGroup
<1>3. /\ hit_blocks[g] = None => eagle_verified = {}
      /\ hit_blocks[g].len >= 0 =>
           /\ hit_blocks[g].blocks = 0 .. hit_blocks[g].len - 1
           /\ hit_blocks[g].blocks \subseteq cached[g]
           /\ curr_hit_length <= HitOf(g)
           /\ Groups[g].use_eagle /\ hit_blocks[g].len > 0 => hit_blocks[g].len \in cached[g]
  BY <1>0, <1>1 DEF UsableInv, FullInv
<1>4. CASE LookedStep
  <2>1. /\ UNCHANGED given /\ hit_blocks' = hit_blocks /\ eagle_verified' = eagle_verified
        /\ curr_hit_length' = curr_hit_length
    BY <1>4 DEF LookedStep
  <2>2. HitOf(g)' = HitOf(g)
    BY <2>1, HitOfSame
  <2> QED
    BY <1>3, <2>1, <2>2
<1>5. ASSUME NEW r, FoundStep(r)
      PROVE  /\ hit_blocks'[g] = None => eagle_verified' = {}
             /\ hit_blocks'[g].len >= 0 =>
                  /\ hit_blocks'[g].blocks = 0 .. hit_blocks'[g].len - 1
                  /\ hit_blocks'[g].blocks \subseteq cached[g]
                  /\ curr_hit_length' <= HitOf(g)'
                  /\ Groups[g].use_eagle /\ hit_blocks'[g].len > 0 => hit_blocks'[g].len \in cached[g]
  <2>1. /\ UNCHANGED given /\ hit_blocks' = [hit_blocks EXCEPT ![group] = r]
        /\ LookupSound(group, r, curr_hit_length') /\ ~ Looked(group)
    BY <1>5 DEF FoundStep
  <2>2. /\ r \in [len : Nat, blocks : SUBSET Nat] /\ curr_hit_length' \in Nat
        /\ curr_hit_length' = r.len * Size(group) /\ curr_hit_length' \div Size(group) = r.len
        /\ curr_hit_length' <= curr_hit_length
        /\ r.blocks \subseteq cached[group]
        /\ Groups[group].full => r.blocks = 0 .. r.len - 1
        /\ DropsEagle(group) /\ curr_hit_length' > 0 => Peeked(group, curr_hit_length') \in cached[group]
    BY <2>1, Zenon DEF LookupSound
  <2>3. hit_blocks \in [Ids -> [len : Int, blocks : SUBSET Nat]]
    BY DEF BaseInv, PrefillInv
  <2>4. CASE g = group
    <3>1. hit_blocks'[g] = r
      BY <2>1, <2>3, <2>4
    <3>2. HitOf(g)' = curr_hit_length'
      BY <3>1, <2>1, <2>2, <2>4, SameGiven DEF HitOf
    <3>3. r # None
      BY <2>2 DEF None
    <3>4. ASSUME Groups[g].use_eagle, r.len > 0 PROVE r.len \in cached[g]
      <4>1. hit_blocks[g] = None
        BY <2>1, <2>4, <1>1 DEF Looked
      <4>2. DropsEagle(group)
        BY <3>4, <4>1, <1>3, <2>4 DEF DropsEagle
      <4>3. curr_hit_length' > 0
        <5>1. PICK k \in Nat, b \in Nat \ {0} : k = r.len /\ b = Size(group)
          BY <1>0, <2>2, BaseFacts, GroupFacts
        <5>2. k * b > 0
          BY <5>1, <3>4
        <5> QED
          BY <5>1, <5>2, <2>2
      <4>4. Peeked(group, curr_hit_length') = r.len
        BY <2>2 DEF Peeked, Size
      <4> QED
        BY <4>2, <4>3, <4>4, <2>2, <2>4
    <3> QED
      BY <3>1, <3>2, <3>3, <3>4, <2>2, <2>4, <1>1
  <2>5. CASE g # group
    <3>1. hit_blocks'[g] = hit_blocks[g]
      BY <2>1, <2>3, <2>5
    <3>2. HitOf(g)' = HitOf(g)
      BY <3>1, <2>1, HitOfSame
    <3>3. g < group
      BY <1>0, <1>2, <2>5, BaseFacts
    <3>4. hit_blocks[g].len >= 0
      BY <1>0, <3>3 DEF BaseInv, RoundInv
    <3>5. hit_blocks[g] # None
      BY <3>4 DEF None
    <3>6. curr_hit_length' <= HitOf(g)
      BY <1>3, <3>4, <2>2, BaseFacts, HitOfNat
    <3> QED
      BY <1>3, <3>1, <3>2, <3>4, <3>5, <3>6
  <2> QED
    BY <2>4, <2>5
<1> QED
  BY <1>4, <1>5, LookUpCases

LEMMA LookUpKeepsWindow ==
  ASSUME BaseInv, BaseInv', OneEach, UsableInv, LookUp
  PROVE  WindowInv'
<1>0. pc = "search" /\ group \in Ids /\ group \in Nat /\ group' = group + 1 /\ hit_length' = hit_length
        /\ UNCHANGED given
  BY BaseFacts DEF LookUp
<1>1. SUFFICES ASSUME NEW g \in Ids, ~ Groups[g].full, g < group'
      PROVE  /\ Usable(g, HitOf(g)') /\ Window(g, HitOf(g)') \subseteq hit_blocks'[g].blocks
             /\ HitOf(g)' \in curr_hit_length' .. hit_length
             /\ g = group' - 1 => HitOf(g)' = curr_hit_length'
  <2>1. /\ Ids' = Ids /\ Groups' = Groups
        /\ \A h, n : Window(h, n)' = Window(h, n) /\ Usable(h, n)' = Usable(h, n)
    BY <1>0, SameGiven
  <2> QED
    BY <1>0, <2>1, Zenon DEF WindowInv
<1>2. g < group =>
        /\ Usable(g, HitOf(g)) /\ Window(g, HitOf(g)) \subseteq hit_blocks[g].blocks
        /\ HitOf(g) \in curr_hit_length .. hit_length
  BY <1>0, <1>1 DEF UsableInv, WindowInv
<1>3. g \in Nat /\ (g = group' - 1 <=> g = group) /\ (g < group \/ g = group)
  BY <1>0, <1>1, BaseFacts
<1>4. curr_hit_length' \in Nat /\ curr_hit_length \in Nat /\ hit_length \in Nat
        /\ curr_hit_length <= hit_length
  <2>1. (curr_hit_length \in Nat)'
    BY BaseFacts DEF BaseInv, TypeOK, PrefillInv
  <2> QED
    BY <1>0, <2>1, BaseFacts DEF BaseInv, RoundInv
<1>5. CASE LookedStep
  <2>1. hit_blocks' = hit_blocks /\ curr_hit_length' = curr_hit_length /\ Groups[group].full
    BY <1>5 DEF LookedStep, Looked
  <2>2. HitOf(g)' = HitOf(g)
    BY <2>1, <1>0, HitOfSame
  <2>3. g # group
    BY <2>1, <1>1
  <2> QED
    BY <1>2, <1>3, <2>1, <2>2, <2>3
<1>6. ASSUME NEW r, FoundStep(r)
      PROVE  /\ Usable(g, HitOf(g)') /\ Window(g, HitOf(g)') \subseteq hit_blocks'[g].blocks
             /\ HitOf(g)' \in curr_hit_length' .. hit_length
             /\ g = group' - 1 => HitOf(g)' = curr_hit_length'
  <2>1. /\ hit_blocks' = [hit_blocks EXCEPT ![group] = r]
        /\ LookupSound(group, r, curr_hit_length')
    BY <1>6 DEF FoundStep
  <2>2. /\ curr_hit_length' = r.len * Size(group) /\ curr_hit_length' <= curr_hit_length
        /\ Usable(group, curr_hit_length') /\ Window(group, curr_hit_length') \subseteq r.blocks
    BY <2>1, Zenon DEF LookupSound
  <2>3. hit_blocks \in [Ids -> [len : Int, blocks : SUBSET Nat]]
    BY DEF BaseInv, PrefillInv
  <2>4. CASE g = group
    <3>1. hit_blocks'[g] = r
      BY <2>1, <2>3, <2>4
    <3>2. HitOf(g)' = curr_hit_length'
      BY <3>1, <1>0, <2>2, <2>4, SameGiven DEF HitOf
    <3>3. curr_hit_length' \in curr_hit_length' .. hit_length
      BY <1>4, <2>2
    <3> QED
      BY <3>1, <3>2, <3>3, <2>2, <2>4, Zenon
  <2>5. CASE g < group
    <3>1. g # group
      BY <1>0, <1>3, <2>5
    <3>2. hit_blocks'[g] = hit_blocks[g]
      BY <2>1, <2>3, <3>1
    <3>3. HitOf(g)' = HitOf(g)
      BY <3>2, <1>0, HitOfSame
    <3>4. HitOf(g) \in curr_hit_length' .. hit_length
      BY <1>2, <1>4, <2>2, <2>5
    <3> QED
      BY <1>2, <1>3, <2>5, <3>1, <3>2, <3>3, <3>4
  <2> QED
    BY <1>3, <2>4, <2>5
<1> QED
  BY <1>5, <1>6, LookUpCases

LEMMA LookUpKeepsEagle ==
  ASSUME BaseInv, BaseInv', OneEach, UsableInv, LookUp
  PROVE  EagleInv'
<1>0. pc = "search" /\ group \in Ids /\ group \in Nat /\ group' = group + 1 /\ hit_length' = hit_length
        /\ UNCHANGED given
  BY BaseFacts DEF LookUp
<1> DEFINE Goal(g) ==
      /\ g \in eagle_verified' /\ curr_hit_length' > 0 => Peeked(g, curr_hit_length') \in cached[g]
      /\ g < group' => g \in eagle_verified' \/ curr_hit_length' < hit_length
      /\ is_simple_hybrid => (g \in eagle_verified' <=> g < group')
<1>1. SUFFICES ASSUME NEW g \in Ids, ~ Groups[g].full, Groups[g].use_eagle
      PROVE  Goal(g)
  <2>1. /\ Ids' = Ids /\ Groups' = Groups /\ cached' = cached
        /\ \A h, n : Peeked(h, n)' = Peeked(h, n)
        /\ is_simple_hybrid' = is_simple_hybrid
    BY <1>0, SameGiven
  <2> QED
    BY <1>0, <2>1, Zenon DEF EagleInv
<1>2. /\ g \in eagle_verified /\ curr_hit_length > 0 => Peeked(g, curr_hit_length) \in cached[g]
      /\ g < group => g \in eagle_verified \/ curr_hit_length < hit_length
      /\ is_simple_hybrid => (g \in eagle_verified <=> g < group)
  BY <1>0, <1>1 DEF UsableInv, EagleInv
<1>3. g \in Nat /\ (g < group' <=> g < group \/ g = group)
  BY <1>0, <1>1, BaseFacts
<1>4. curr_hit_length' \in Nat /\ curr_hit_length \in Nat /\ hit_length \in Nat
        /\ curr_hit_length <= hit_length
  <2>1. (curr_hit_length \in Nat)'
    BY BaseFacts DEF BaseInv, TypeOK, PrefillInv
  <2> QED
    BY <1>0, <2>1, BaseFacts DEF BaseInv, RoundInv
<1>5. CASE LookedStep
  <2>1. /\ eagle_verified' = eagle_verified /\ curr_hit_length' = curr_hit_length
        /\ Groups[group].full
    BY <1>5 DEF LookedStep, Looked
  <2>2. g # group
    BY <2>1, <1>1
  <2>3. g < group' <=> g < group
    BY <1>3, <2>2
  <2> QED
    BY <1>2, <2>1, <2>3
<1>6. ASSUME NEW r, FoundStep(r) PROVE Goal(g)
  <2>1. /\ eagle_verified' = Verified(group) /\ LookupSound(group, r, curr_hit_length')
        /\ ~ Looked(group) /\ curr_hit_length' = NewLength(group)
    BY <1>6 DEF FoundStep
  <2>2. /\ curr_hit_length' <= curr_hit_length
        /\ DropsEagle(group) /\ curr_hit_length' > 0
             => Peeked(group, curr_hit_length') \in cached[group]
    BY <2>1, Zenon DEF LookupSound
  <2>3. CASE DropsEagle(group)
    <3>1. eagle_verified' = eagle_verified \cup {group}
      BY <2>1, <2>3 DEF Verified
    <3>2. CASE g = group
      <4>1. g \in eagle_verified' /\ g < group'
        BY <3>1, <3>2, <1>3
      <4>2. curr_hit_length' > 0 => Peeked(g, curr_hit_length') \in cached[g]
        BY <2>2, <2>3, <3>2
      <4> QED
        BY <4>1, <4>2
    <3>3. CASE g # group
      <4>1. g \notin eagle_verified
        <5>1. Groups[group].full
          BY <1>0, <1>1, <2>3, <3>3 DEF OneEach, OneEagleWindow, DropsEagle
        <5>2. hit_blocks[group] = None
          BY <2>1, <5>1 DEF Looked
        <5>3. eagle_verified = {}
          BY <1>0, <5>1, <5>2 DEF UsableInv, FullInv
        <5> QED
          BY <5>3
      <4>2. g \notin eagle_verified'
        BY <3>1, <3>3, <4>1
      <4>3. g < group' <=> g < group
        BY <1>3, <3>3
      <4>4. curr_hit_length < hit_length => curr_hit_length' < hit_length
        BY <1>4, <2>2
      <4> QED
        BY <1>2, <4>1, <4>2, <4>3, <4>4
    <3> QED
      BY <3>2, <3>3
  <2>4. CASE ~ DropsEagle(group) /\ curr_hit_length' < curr_hit_length
    <3>1. eagle_verified' = {}
      BY <2>1, <2>4 DEF Verified
    <3>2. curr_hit_length' < hit_length
      BY <1>4, <2>4
    <3>3. is_simple_hybrid => ~ (g < group')
      <4>1. SUFFICES ASSUME is_simple_hybrid, g < group' PROVE FALSE
        OBVIOUS
      <4>2. Len(Groups) = 2 /\ Groups[1].full
        BY <4>1 DEF is_simple_hybrid
      <4>3. g = 2
        BY <4>2, <1>1, BaseFacts
      <4>4. group = 2
        BY <1>0, <4>1, <4>2, <4>3, BaseFacts
      <4>5. g \in eagle_verified
        BY <1>1, <2>4, <4>3, <4>4 DEF DropsEagle
      <4>6. g < group
        BY <4>1, <4>5, <1>2
      <4> QED
        BY <4>3, <4>4, <4>6
    <3> QED
      BY <3>1, <3>2, <3>3
  <2>5. CASE ~ DropsEagle(group) /\ ~ (curr_hit_length' < curr_hit_length)
    <3>1. eagle_verified' = eagle_verified
      BY <2>1, <2>5 DEF Verified
    <3>2. curr_hit_length' = curr_hit_length
      BY <1>4, <2>2, <2>5
    <3>3. g = group => g \in eagle_verified
      BY <1>1, <2>5 DEF DropsEagle
    <3>4. is_simple_hybrid => g # group
      <4>1. SUFFICES ASSUME is_simple_hybrid, g = group PROVE FALSE
        OBVIOUS
      <4>2. g < group
        BY <4>1, <3>3, <1>2
      <4> QED
        BY <4>1, <4>2, <1>0
    <3> QED
      BY <1>2, <1>3, <3>1, <3>2, <3>3, <3>4
  <2> QED
    BY <2>3, <2>4, <2>5
<1> QED
  BY <1>5, <1>6, LookUpCases

LEMMA EndRoundKeepsSearch ==
  ASSUME BaseInv, OneEach, UsableInv, EndRound, pc' = "search"
  PROVE  FullInv' /\ WindowInv' /\ EagleInv'
<1>1. EndStep
  BY EndRoundIsEndStep
<1>2. /\ pc = "search" /\ UNCHANGED given /\ eagle_verified' = eagle_verified /\ group' = 1
      /\ hit_length' = curr_hit_length /\ curr_hit_length' = curr_hit_length
      /\ hit_blocks' = hit_blocks /\ ~ LastRound
  BY <1>1 DEF EndStep
<1>3. /\ Ids' = Ids /\ Groups' = Groups /\ cached' = cached
      /\ \A h, n : Peeked(h, n)' = Peeked(h, n)
      /\ is_simple_hybrid' = is_simple_hybrid
  BY <1>2, SameGiven
<1>4. \A g : HitOf(g)' = HitOf(g)
  BY <1>2, HitOfSame
<1>5. \A g \in Ids : ~ (g < 1)
  BY BaseFacts
<1>6. ~ is_simple_hybrid
  BY <1>2 DEF LastRound
<1>7. FullInv /\ EagleInv
  BY DEF UsableInv
<1>8. FullInv'
  BY <1>2, <1>3, <1>4, <1>7, Zenon DEF FullInv, None
<1>9. WindowInv'
  BY <1>2, <1>3, <1>5, Zenon DEF WindowInv
<1>10. EagleInv'
  BY <1>2, <1>3, <1>5, <1>6, <1>7, Zenon DEF EagleInv
<1> QED
  BY <1>8, <1>9, <1>10

\* What the search returns at the end of the last round.
LEMMA LastRoundIsUsable ==
  ASSUME BaseInv, OneEach, UsableInv, EndRound, pc' = "done", NEW g \in Ids
  PROVE  /\ Usable(g, curr_hit_length)
         /\ hit_blocks'[g].len = curr_hit_length \div Size(g)
         /\ Window(g, curr_hit_length) \subseteq hit_blocks'[g].blocks
         /\ curr_hit_length > 0 /\ Groups[g].use_eagle => Peeked(g, curr_hit_length) \in cached[g]
<1>1. EndStep
  BY EndRoundIsEndStep
<1>2. /\ pc = "search" /\ hit_blocks' = Truncated(curr_hit_length) /\ LastRound
      /\ group = Len(Groups) + 1
  BY <1>1 DEF EndStep
<1>3. PICK curr \in Nat : curr = curr_hit_length
  BY BaseFacts
<1>4. g \in Nat /\ g < group
  BY <1>2, BaseFacts
<1>5. hit_blocks[g].len >= 0 /\ curr <= hit_length /\ hit_length \in Nat
  BY <1>2, <1>3, <1>4, BaseFacts DEF BaseInv, RoundInv
<1>6. PICK b \in Nat \ {0}, A \in Nat \ {0} : b = Size(g) /\ A = Alignment /\ A % b = 0
  BY BaseFacts, GroupFacts
<1>7. PICK len \in Nat, L \in Nat : len = hit_blocks[g].len /\ L = HitOf(g) /\ L \div b = len /\ L = len * b
  BY <1>5, <1>6, HitOfNat DEF HitOf
<1>8. PICK last \in Nat : last = curr \div b
  BY <1>6, DivBounds
<1>9. Peeked(g, curr) = last
  BY <1>6, <1>8 DEF Peeked, Size
<1>10. CASE Groups[g].full
  <2>1. g = 1
    BY <1>10 DEF OneEach, OneFullGroup
  <2>2. /\ hit_blocks[g].blocks = 0 .. len - 1 /\ 0 .. len - 1 \subseteq cached[g]
        /\ curr <= L
        /\ Groups[g].use_eagle /\ len > 0 => len \in cached[g]
    BY <1>2, <1>3, <1>5, <1>7, <1>10 DEF UsableInv, FullInv
  <2>3. last <= len
    <3>1. curr <= L
      BY <2>2
    <3>2. curr \div b <= L \div b
      BY <3>1, DivMonotone
    <3> QED
      BY <3>2, <1>7, <1>8
  <2>4. hit_blocks'[g].len = last /\ hit_blocks'[g].blocks = {i \in 0 .. len - 1 : i < last}
    <3>1. PICK t : t = Truncated(curr)[g]
      OBVIOUS
    <3>2. hit_blocks'[g] = t
      BY <1>2, <1>3, <3>1
    <3>3. hit_blocks[g].len >= curr \div Size(g) /\ curr \div Size(g) = last
      BY <1>6, <1>7, <1>8, <2>3
    <3>4. t.len = last /\ t.blocks = {i \in hit_blocks[g].blocks : i < t.len}
      BY <1>10, <2>1, <3>1, <3>3, TruncatedOf
    <3> QED
      BY <2>2, <3>2, <3>4
  <2>5. hit_blocks'[g].blocks = 0 .. last - 1 /\ 0 .. last - 1 \subseteq cached[g]
    BY <2>2, <2>3, <2>4
  <2>6. Window(g, curr) \subseteq 0 .. last - 1
    BY <1>6, <1>8, BaseFacts, WindowOf
  <2>7. curr % Alignment = 0
    <3>1. hit_blocks[g] # None
      BY <1>5 DEF None
    <3> QED
      BY <3>1, <1>2, <1>3 DEF BaseInv, RoundInv
  <2>8. Usable(g, curr)
    BY <2>5, <2>6, <2>7, Zenon DEF Usable
  <2>9. ASSUME curr > 0, Groups[g].use_eagle PROVE last \in cached[g]
    <3>1. len > 0
      BY <2>9, <2>2, <1>6, <1>7
    <3>2. last \in 0 .. len - 1 \/ last = len
      BY <2>3
    <3> QED
      BY <3>1, <3>2, <2>2, <2>9
  <2> QED
    BY <1>3, <1>6, <1>8, <1>9, <2>4, <2>5, <2>6, <2>8, <2>9
<1>11. CASE ~ Groups[g].full
  <2>1. /\ Usable(g, L) /\ Window(g, L) \subseteq hit_blocks[g].blocks
        /\ L \in curr .. hit_length
        /\ g = group - 1 => L = curr
    BY <1>2, <1>3, <1>4, <1>7, <1>11 DEF UsableInv, WindowInv
  <2>2. is_simple_hybrid => g = group - 1
    <3>1. SUFFICES ASSUME is_simple_hybrid PROVE g = group - 1
      OBVIOUS
    <3>2. Len(Groups) = 2 /\ Groups[1].full
      BY <3>1 DEF is_simple_hybrid
    <3>3. g \in 1 .. 2 /\ g # 1
      BY <3>2, <1>11, BaseFacts
    <3> QED
      BY <3>2, <3>3, <1>2
  <2>3. L = curr
    <3>1. CASE is_simple_hybrid
      BY <3>1, <2>1, <2>2
    <3>2. CASE curr >= hit_length
      BY <3>2, <2>1, <1>5
    <3> QED
      BY <3>1, <3>2, <1>2, <1>3 DEF LastRound
  <2>4. hit_blocks'[g] = hit_blocks[g]
    BY <1>2, <1>3, <1>11, TruncatedOf
  <2>5. ASSUME curr > 0, Groups[g].use_eagle PROVE last \in cached[g]
    <3>1. /\ g \in eagle_verified => last \in cached[g]
          /\ g \in eagle_verified \/ curr < hit_length
          /\ is_simple_hybrid => g \in eagle_verified
      BY <1>2, <1>3, <1>4, <1>9, <1>11, <2>5 DEF UsableInv, EagleInv
    <3>2. curr >= hit_length \/ is_simple_hybrid
      BY <1>2, <1>3 DEF LastRound
    <3>3. g \in eagle_verified
      BY <3>1, <3>2, <1>5
    <3> QED
      BY <3>1, <3>3
  <2> QED
    BY <1>3, <1>6, <1>7, <1>8, <1>9, <2>1, <2>3, <2>4, <2>5
<1> QED
  BY <1>10, <1>11

LEMMA StepKeepsUsable ==
  ASSUME BaseInv, BaseInv', OneEach => UsableInv, [ReplayNext]_replayVars
  PROVE  (OneEach => UsableInv)'
<1>1. CASE AllocateSlots
  <2>1. pc' = "prefill"
    BY <1>1, AllocateSlotsKeepsBase
  <2> QED
    BY <2>1 DEF UsableInv, FullInv, WindowInv, EagleInv, HitOfEveryGroup, EagleDropVerified
<1>2. CASE Replay
  <2>1. /\ pc = "prefill" /\ pc' = "search" /\ UNCHANGED given /\ group' = group
        /\ hit_blocks' = hit_blocks /\ eagle_verified' = eagle_verified
    BY <1>2 DEF Replay
  <2>2. group = 1 /\ eagle_verified = {} /\ \A g \in Ids : hit_blocks[g] = None
    BY <2>1 DEF BaseInv, PrefillInv
  <2>3. Ids' = Ids /\ \A g \in Ids : ~ (g < 1)
    BY <2>1, SameGiven, BaseFacts
  <2>4. \A g \in Ids : ~ (hit_blocks[g].len >= 0)
    BY <2>2 DEF None
  <2>5. FullInv'
    BY <2>1, <2>2, <2>3, <2>4 DEF FullInv
  <2>6. WindowInv' /\ EagleInv'
    BY <2>1, <2>2, <2>3 DEF WindowInv, EagleInv
  <2>7. HitOfEveryGroup' /\ EagleDropVerified'
    BY <2>1 DEF HitOfEveryGroup, EagleDropVerified
  <2> QED
    BY <2>5, <2>6, <2>7 DEF UsableInv
<1>3. CASE LookUp \/ EndRound \/ UNCHANGED replayVars
  <2>1. UNCHANGED given
    BY <1>3, SameVars DEF LookUp, EndRound
  <2>2. OneEach' = OneEach
    BY <2>1, SameGiven DEF OneEach
  <2>3. SUFFICES ASSUME OneEach, UsableInv PROVE UsableInv'
    BY <2>2
  <2>4. CASE LookUp
    <3>1. pc' = "search"
      BY <2>4 DEF LookUp
    <3>2. HitOfEveryGroup' /\ EagleDropVerified'
      BY <3>1 DEF HitOfEveryGroup, EagleDropVerified
    <3> QED
      BY <2>3, <2>4, <3>2, LookUpKeepsFull, LookUpKeepsWindow, LookUpKeepsEagle DEF UsableInv
  <2>5. CASE EndRound
    <3>1. EndStep
      BY <2>5, EndRoundIsEndStep
    <3>2. CASE pc' = "search"
      <4>1. HitOfEveryGroup' /\ EagleDropVerified'
        BY <3>2 DEF HitOfEveryGroup, EagleDropVerified
      <4> QED
        BY <2>3, <2>5, <3>2, <4>1, EndRoundKeepsSearch DEF UsableInv
    <3>3. CASE pc' = "done"
      <4>1. FullInv' /\ WindowInv' /\ EagleInv'
        BY <3>3 DEF FullInv, WindowInv, EagleInv
      <4>2. /\ Ids' = Ids /\ Groups' = Groups /\ cached' = cached
            /\ \A h, n : Window(h, n)' = Window(h, n) /\ Usable(h, n)' = Usable(h, n)
                           /\ Peeked(h, n)' = Peeked(h, n)
        BY <2>1, SameGiven
      <4>3. hit_length' = curr_hit_length
        BY <3>1 DEF EndStep
      <4>4. HitOfEveryGroup'
        BY <2>3, <2>5, <3>3, <4>2, <4>3, LastRoundIsUsable, Zenon DEF HitOfEveryGroup, Size
      <4>5. EagleDropVerified'
        BY <2>3, <2>5, <3>3, <4>2, <4>3, LastRoundIsUsable, Zenon DEF EagleDropVerified
      <4> QED
        BY <4>1, <4>4, <4>5 DEF UsableInv
    <3> QED
      BY <3>1, <3>2, <3>3 DEF EndStep
  <2>6. CASE UNCHANGED replayVars
    <3>1. /\ Ids' = Ids /\ Groups' = Groups /\ cached' = cached
          /\ \A h, n : Window(h, n)' = Window(h, n) /\ Usable(h, n)' = Usable(h, n)
                         /\ Peeked(h, n)' = Peeked(h, n)
          /\ is_simple_hybrid' = is_simple_hybrid
      BY <2>1, SameGiven
    <3>2. /\ hit_length' = hit_length /\ curr_hit_length' = curr_hit_length /\ group' = group
          /\ hit_blocks' = hit_blocks /\ eagle_verified' = eagle_verified /\ pc' = pc
      BY <2>6, SameVars
    <3>3. \A g : HitOf(g)' = HitOf(g)
      BY <2>1, <3>2, HitOfSame
    <3>4. FullInv' /\ EagleInv'
      BY <2>3, <3>1, <3>2, <3>3, Zenon DEF UsableInv, FullInv, EagleInv, None
    <3>5. WindowInv'
      BY <2>3, <3>1, <3>2, <3>3, Zenon DEF UsableInv, WindowInv
    <3>6. HitOfEveryGroup'
      BY <2>3, <3>1, <3>2, Zenon DEF UsableInv, HitOfEveryGroup
    <3>7. EagleDropVerified'
      BY <2>3, <3>1, <3>2, Zenon DEF UsableInv, EagleDropVerified
    <3> QED
      BY <3>4, <3>5, <3>6, <3>7 DEF UsableInv
  <2> QED
    BY <1>3, <2>4, <2>5, <2>6
<1> QED
  BY <1>1, <1>2, <1>3 DEF ReplayNext, Next

(***************************************************************************)
(* HitsAlwaysUsable: for every layout with one full-attention group and    *)
(* one EAGLE window at most, every prompt and every content of the cache,  *)
(* every group has the blocks of the hit that find_longest_cache_hit       *)
(* returns, as many as the length says, in spite of the rounds in which    *)
(* other groups shortened it, and EAGLE groups have the block after it.    *)
(***************************************************************************)
THEOREM HitsAlwaysUsable == ReplaySpec => [](OneFullGroup /\ OneEagleWindow => HitIsUsable)
<1> DEFINE Inv == BaseInv /\ (OneEach => UsableInv)
<1>1. ReplayInit => Inv
  <2>1. SUFFICES ASSUME ReplayInit PROVE BaseInv /\ UsableInv
    OBVIOUS
  <2>2. /\ BaseInv /\ pc \in {"prefill", "search"} /\ group = 1 /\ eagle_verified = {}
        /\ \A g \in Ids : hit_blocks[g] = None
    BY <2>1, InitBase
  <2>3. \A g \in Ids : ~ (g < 1)
    BY <2>2, BaseFacts
  <2>4. \A g \in Ids : ~ (hit_blocks[g].len >= 0)
    BY <2>2 DEF None
  <2>5. FullInv /\ WindowInv /\ EagleInv
    BY <2>2, <2>3, <2>4 DEF FullInv, WindowInv, EagleInv
  <2>6. HitOfEveryGroup /\ EagleDropVerified
    BY <2>2 DEF HitOfEveryGroup, EagleDropVerified
  <2> QED
    BY <2>2, <2>5, <2>6 DEF UsableInv
<1>2. Inv /\ [ReplayNext]_replayVars => Inv'
  BY StepKeepsBase, StepKeepsUsable
<1>3. Inv => (OneFullGroup /\ OneEagleWindow => HitIsUsable)
  BY DEF OneEach, BaseInv, UsableInv, HitIsUsable
<1> QED
  BY <1>1, <1>2, <1>3, PTL DEF ReplaySpec

-----------------------------------------------------------------------------
(* A replay of the prompt that filled the cache.                           *)

\* Sparse retention keeps the tail of the last boundary only, where an EAGLE group needs one
\* block more than the prompt may have (see the README).
KeepsTails == Retention = Dense \/ \A g \in Ids : ~ Groups[g].use_eagle

LastBlock(g) == LongestHit \div Size(g)

\* The blocks of group g that the longest hit needs, with the block after it.
Wanted(g) ==
  {i \in 0 .. LastBlock(g) :
     \/ i < LastBlock(g) /\ (Groups[g].full \/ i >= LastBlock(g) - WindowBlocks(g))
     \/ i = LastBlock(g) /\ Groups[g].use_eagle /\ LongestHit > 0}

\* Every wanted block that has been offered is in the cache, and all full blocks were offered.
FilledInv ==
  pc = "prefill" \/ num_computed_tokens = num_prompt_tokens => \A g \in Ids :
    /\ NumFullBlocks(g, num_computed_tokens) <= num_cached_block[g]
    /\ KeepsTails => \A i \in Wanted(g) : i < num_cached_block[g] => i \in cached[g]

\* An EAGLE group that was looked at has left room for the block after the hit.
PeekInv ==
  /\ pc = "search" => \A g \in Ids :
       /\ g \in eagle_verified => hit_blocks[g].len >= 0
       /\ Groups[g].use_eagle /\ hit_blocks[g].len >= 0 /\ curr_hit_length > 0 =>
            curr_hit_length + Size(g) <= max_cache_hit_length
  /\ pc = "done" =>
       /\ hit_length % Alignment = 0
       /\ hit_length > 0 => \A g \in Ids : Groups[g].use_eagle =>
            hit_length + Size(g) <= max_cache_hit_length

\* A length a hit may have.
MayHit(n) ==
  /\ n % Alignment = 0
  /\ n > 0 => \A g \in Ids : Groups[g].use_eagle => n + Size(g) <= max_cache_hit_length

LEMMA LongestHitOf ==
  ASSUME WellFormed(layout), max_cache_hit_length \in Nat
  PROVE  /\ LongestHit \in 0 .. max_cache_hit_length /\ MayHit(LongestHit)
         /\ \A n \in 0 .. max_cache_hit_length : MayHit(n) => n <= LongestHit
<1>1. PICK S : S = {n \in 0 .. max_cache_hit_length : MayHit(n)}
  OBVIOUS
<1>2. LongestHit = Max(S)
  BY <1>1, Zenon DEF LongestHit, MayHit, Size
<1>3. MayHit(0)
  <2>1. Alignment \in Nat \ {0}
    BY DEF WellFormed, Alignment
  <2> QED
    BY <2>1 DEF MayHit
<1>4. S \subseteq 0 .. max_cache_hit_length /\ S # {}
  BY <1>1, <1>3
<1>5. Max(S) \in S /\ \A x \in S : x <= Max(S)
  BY <1>4, MaxOf
<1> QED
  BY <1>1, <1>2, <1>5

LEMMA ModOfSum ==
  ASSUME NEW p \in Nat \ {0}, NEW q \in Nat, NEW r \in 0 .. p - 1
  PROVE  (q * p + r) % p = r
<1>1. q * p \in Nat
  BY SMT
<1>2. PICK t \in Nat : t = q * p + r
  BY <1>1
<1>3. PICK d \in Nat : d = t \div p
  BY <1>2, DivBounds
<1>4. d * p \in Nat /\ d * p <= t /\ t < d * p + p
  BY <1>3, DivBounds
<1>5. d = q
  <2>1. ASSUME d < q PROVE FALSE
    <3>1. d + 1 <= q /\ d + 1 \in Nat
      BY <2>1
    <3>2. (d + 1) * p <= q * p
      BY <3>1, ProductMonotone
    <3>3. (d + 1) * p = d * p + p
      BY SMT
    <3> QED
      BY <3>2, <3>3, <1>1, <1>2, <1>4
  <2>2. ASSUME q < d PROVE FALSE
    <3>1. q + 1 <= d /\ q + 1 \in Nat
      BY <2>2
    <3>2. (q + 1) * p <= d * p
      BY <3>1, ProductMonotone
    <3>3. (q + 1) * p = q * p + p
      BY SMT
    <3> QED
      BY <3>2, <3>3, <1>1, <1>2, <1>4
  <2> QED
    BY <2>1, <2>2, <1>3
<1>6. t % p = t - p * (t \div p)
  BY <1>2, SMT
<1>7. p * q = q * p
  BY SMT
<1> QED
  BY <1>1, <1>2, <1>3, <1>5, <1>6, <1>7

\* The blocks in front of an aligned length are in the tail of its segment.
LEMMA TailOfSegment ==
  ASSUME NEW per \in Nat \ {0}, NEW m \in Nat \ {0}, NEW c \in Nat, NEW s \in Nat, c + s < per,
         NEW k \in Nat, k = m * per,
         NEW i \in Nat, i >= k - c, i <= k - 1 + s
  PROVE  i >= s /\ (i - s) % per >= per - (c + s)
<1>1. PICK q \in Nat : q = m - 1
  OBVIOUS
<1>2. q * per \in Nat /\ k = q * per + per
  <2>1. (q + 1) * per = q * per + per
    BY SMT
  <2>2. m = q + 1
    BY <1>1
  <2>3. q * per \in Nat
    BY SMT
  <2> QED
    BY <2>1, <2>2, <2>3
<1>3. PICK x \in Nat : x = q * per
  BY <1>2
<1>4. PICK r \in Int : r = i - s - x
  BY <1>3
<1>5. r \in 0 .. per - 1 /\ r >= per - (c + s) /\ i >= s
  BY <1>2, <1>3, <1>4
<1>6. (q * per + r) % per = r
  BY <1>5, ModOfSum
<1>7. q * per + r = i - s
  BY <1>3, <1>4
<1> QED
  BY <1>5, <1>6, <1>7

LEMMA LastBlockOf ==
  ASSUME WellFormed(layout), max_cache_hit_length \in Nat, NEW g \in Ids
  PROVE  LastBlock(g) \in Nat /\ LastBlock(g) * Size(g) = LongestHit
<1>1. PICK b \in Nat \ {0}, A \in Nat \ {0} : b = Size(g) /\ A = Alignment /\ A % b = 0
  BY GroupFacts
<1>2. PICK n \in Nat : n = LongestHit /\ n % A = 0
  BY <1>1, LongestHitOf DEF MayHit
<1>3. n \div b \in Nat
  BY DivBounds
<1>4. (n \div b) * b = n
  BY <1>1, <1>2, AlignedIsWhole
<1> QED
  BY <1>1, <1>2, <1>3, <1>4 DEF LastBlock

\* The length in blocks of an aligned length is a number of segments.
LEMMA WholeSegments ==
  ASSUME NEW n \in Nat, n > 0, NEW b \in Nat \ {0}, NEW A \in Nat \ {0}, A % b = 0, n % A = 0
  PROVE  /\ A \div b \in Nat \ {0}
         /\ \E m \in Nat \ {0} : n \div b = m * (A \div b)
<1>1. PICK per \in Nat : per = A \div b
  BY DivBounds
<1>2. per * b = A /\ per # 0
  BY <1>1, SMT
<1>3. PICK m \in Nat : m = n \div A
  BY DivBounds
<1>4. m * A = n /\ m # 0
  BY <1>3, SMT
<1>5. m * per \in Nat /\ (m * per) * b = n
  BY <1>2, <1>4, SMT
<1>6. n \div b = m * per
  BY <1>5, DivOfProduct
<1> QED
  BY <1>1, <1>2, <1>3, <1>4, <1>6

LEMMA WantedIsReachable ==
  ASSUME WellFormed(layout), max_cache_hit_length \in Nat, KeepsTails,
         NEW g \in Ids, NEW i \in Wanted(g)
  PROVE  reachable_block_mask(g, i)
<1>1. PICK b \in Nat \ {0}, A \in Nat \ {0} : b = Size(g) /\ A = Alignment /\ A % b = 0
  BY GroupFacts
<1>2. PICK n \in Nat : n = LongestHit /\ n % A = 0
  BY <1>1, LongestHitOf DEF MayHit
<1>3. PICK k \in Nat : k = LastBlock(g) /\ k = n \div b /\ k * b = n
  BY <1>1, <1>2, LastBlockOf DEF LastBlock
<1>4. i \in 0 .. k
  BY <1>3 DEF Wanted
<1>5. \/ i < k /\ (Groups[g].full \/ i >= k - WindowBlocks(g))
      \/ i = k /\ Groups[g].use_eagle /\ n > 0
  BY <1>2, <1>3 DEF Wanted
<1>6. CASE Groups[g].full
  BY <1>6 DEF reachable_block_mask
<1>7. CASE ~ Groups[g].full
  <2>1. PICK c \in Nat : c = WindowBlocks(g)
    BY <1>7, GroupFacts
  <2>2. PICK s \in Nat : s = Shift(g) /\ (Groups[g].use_eagle => s = 1) /\ (~ Groups[g].use_eagle => s = 0)
    BY GroupFacts DEF Shift
  <2>3. Need(g) = c + s
    BY <2>1, <2>2 DEF Need, _contiguous_blocks_for_hit, WindowBlocks, Shift
  <2>4. i >= k - c /\ i <= k - 1 + s
    BY <1>4, <1>5, <1>7, <2>1, <2>2
  <2>5. n > 0
    <3>1. SUFFICES ASSUME n = 0 PROVE FALSE
      BY <1>2
    <3>2. k = 0
      BY <3>1, <1>1, <1>3, SMT
    <3> QED
      BY <3>1, <3>2, <1>4, <1>5
  <2>6. CASE Retention = Dense
    <3>1. SegmentTokens = A
      BY <2>6, <1>1 DEF SegmentTokens
    <3>2. PICK per \in Nat \ {0}, m \in Nat \ {0} : per = A \div b /\ k = m * per
      <4>1. A % b = 0 /\ n % A = 0 /\ n > 0
        BY <1>1, <1>2, <2>5
      <4>2. A \div b \in Nat \ {0} /\ \E m \in Nat \ {0} : n \div b = m * (A \div b)
        BY <4>1, WholeSegments, Zenon
      <4> QED
        BY <4>2, <1>3, Zenon
    <3>3. ASSUME c + s < per
          PROVE  i >= s /\ (i - s) % per >= per - (c + s)
      <4>1. i \in Nat /\ i >= k - c /\ i <= k - 1 + s /\ k = m * per
        BY <3>2, <2>4, <1>4, <1>3
      <4>2. c + s < per
        BY <3>3
      <4>3. \A x, y \in Nat : x = m * per /\ y >= x - c /\ y <= x - 1 + s =>
              y >= s /\ (y - s) % per >= per - (c + s)
        BY <4>2, TailOfSegment, Zenon
      <4> QED
        BY <4>1, <4>2, <4>3, Zenon
    <3>4. InSegmentTail(g, i)
      <4>1. SegmentTokens # 0 /\ SegmentTokens \div Groups[g].block_size = per
        BY <3>1, <3>2, <1>1 DEF Size
      <4>2. c + s >= per \/ c + s < per
        BY <3>2, <2>1
      <4> QED
        BY <4>1, <4>2, <3>3, <2>2, <2>3, Zenon DEF InSegmentTail
    <3> QED
      BY <3>4 DEF reachable_block_mask
  <2>7. CASE Retention # Dense
    <3>1. \A h \in Ids : ~ Groups[h].use_eagle
      BY <2>7 DEF KeepsTails
    <3>2. s = 0
      BY <3>1, <2>2
    <3>3. PICK B \in Nat : B = (max_cache_hit_length \div A) * A /\ B <= max_cache_hit_length
                             /\ max_cache_hit_length < B + A
      BY DivBounds
    <3>4. ReplayBoundary = B
      <4>1. num_prompt_tokens - 1 = max_cache_hit_length
        BY DEF num_prompt_tokens
      <4> QED
        BY <4>1, <3>3, <1>1 DEF ReplayBoundary
    <3>5. n = B
      <4>1. B % A = 0
        BY <3>3, SMT
      <4>2. MayHit(B)
        BY <4>1, <3>1, <1>1 DEF MayHit
      <4>3. B <= n /\ n <= max_cache_hit_length
        BY <4>2, <3>3, <1>2, LongestHitOf
      <4>4. PICK mn \in Nat, mb \in Nat : n = mn * A /\ B = mb * A /\ mb = max_cache_hit_length \div A
        <5>1. PICK mn \in Nat : mn = n \div A
          BY <1>1, DivBounds
        <5>2. mn * A = n
          BY <5>1, <1>1, <1>2, SMT
        <5>3. max_cache_hit_length \div A \in Nat
          BY DivBounds
        <5> QED
          BY <5>2, <5>3, <3>3
      <4>5. (n \div A) <= (max_cache_hit_length \div A)
        BY <4>3, DivMonotone
      <4>6. n \div A = mn
        BY <4>4, DivOfProduct
      <4>7. mn <= mb
        BY <4>4, <4>5, <4>6
      <4>8. mn * A <= mb * A
        BY <4>7, ProductMonotone
      <4> QED
        BY <4>3, <4>4, <4>8, <3>3
    <3>6. ReplayBoundary \div Groups[g].block_size + Shift(g) = k
      BY <3>2, <3>4, <3>5, <1>1, <1>3, <2>2 DEF Size
    <3>7. i \in k - Need(g) .. k - 1
      BY <2>3, <2>4, <3>2, <1>3, <1>4, <2>1
    <3>8. InReplayTail(g, i)
      BY <2>7, <3>6, <3>7, Zenon DEF InReplayTail
    <3> QED
      BY <3>8 DEF reachable_block_mask
  <2> QED
    BY <2>6, <2>7
<1> QED
  BY <1>6, <1>7

\* Once the prompt is computed as far as an aligned length, its blocks were offered; once it is
\* computed one block further, the block after it was offered to an EAGLE group.
LEMMA OfferedBlocks ==
  ASSUME WellFormed(layout), NEW g \in Ids, NEW num_tokens \in Nat,
         NEW n \in Nat, n % Alignment = 0, n <= num_tokens
  PROVE  /\ NumFullBlocks(g, num_tokens) \in Nat
         /\ n \div Size(g) <= NumFullBlocks(g, num_tokens)
         /\ Groups[g].use_eagle /\ n > 0 /\ n + Size(g) <= num_tokens =>
              n \div Size(g) + 1 <= NumFullBlocks(g, num_tokens)
<1>1. PICK b \in Nat \ {0}, A \in Nat \ {0} : b = Size(g) /\ A = Alignment /\ b = Groups[g].block_size
  BY GroupFacts DEF Size
<1>2. PICK aligned \in Nat : aligned = (num_tokens \div A) * A
  BY DivBounds
<1>3. n <= aligned
  <2>1. PICK m \in Nat : m = n \div A
    BY DivBounds
  <2>2. m * A = n
    BY <2>1, <1>1, SMT
  <2>3. m <= num_tokens \div A /\ num_tokens \div A \in Nat
    BY <2>1, DivMonotone, DivBounds
  <2>4. m * A <= (num_tokens \div A) * A
    BY <2>3, ProductMonotone
  <2> QED
    BY <2>2, <2>4, <1>2
<1>4. PICK x \in Nat : x = aligned + b
  BY <1>1, <1>2
<1>5. PICK lo : lo = Min({num_tokens, x})
  OBVIOUS
<1>6. lo \in {num_tokens, x}
  <2>1. \E z \in {num_tokens, x} : \A y \in {num_tokens, x} : z =< y
    BY <1>4
  <2> QED
    BY <1>5, <2>1, Zenon DEF Min
<1>7. NumTokensToCache(g, num_tokens) =
        IF Groups[g].use_eagle /\ aligned > 0 THEN lo ELSE aligned
  BY <1>1, <1>2, <1>4, <1>5, Zenon DEF NumTokensToCache
<1>8. PICK t \in Nat : t = NumTokensToCache(g, num_tokens)
  BY <1>2, <1>4, <1>6, <1>7
<1>9. n <= t /\ (Groups[g].use_eagle /\ n > 0 /\ n + b <= num_tokens => n + b <= t)
  <2>1. CASE Groups[g].use_eagle /\ aligned > 0
    <3>1. t = lo
      BY <2>1, <1>7, <1>8
    <3> QED
      BY <3>1, <1>2, <1>3, <1>4, <1>6
  <2>2. CASE ~ (Groups[g].use_eagle /\ aligned > 0)
    <3>1. t = aligned
      BY <2>2, <1>7, <1>8
    <3> QED
      BY <3>1, <2>2, <1>2, <1>3
  <2> QED
    BY <2>1, <2>2
<1>10. NumFullBlocks(g, num_tokens) = t \div b
  BY <1>1, <1>8 DEF NumFullBlocks
<1>11. t \div b \in Nat
  BY <1>1, <1>8, DivBounds
<1>12. n \div b <= t \div b
  BY <1>9, <1>8, DivMonotone
<1>13. ASSUME n + b <= t PROVE n \div b + 1 <= t \div b
  <2>1. (n + b) \div b = (n \div b) + 1
    BY DivPlusOne
  <2>2. (n + b) \div b <= t \div b
    BY <1>13, <1>8, DivMonotone
  <2> QED
    BY <2>1, <2>2
<1> QED
  BY <1>1, <1>9, <1>10, <1>11, <1>12, <1>13

\* The prefill reaches the blocks of the longest hit before its window has left them behind.
LEMMA WantedIsNotSkipped ==
  ASSUME WellFormed(layout), max_cache_hit_length \in Nat, num_computed_tokens \in Nat,
         NEW g \in Ids, NEW i \in Wanted(g), NumFullBlocks(g, num_computed_tokens) <= i
  PROVE  ~ Skipped(g, i)
<1>1. PICK b \in Nat \ {0} : b = Size(g) /\ b = Groups[g].block_size
  BY GroupFacts DEF Size
<1>2. PICK n \in Nat : n = LongestHit /\ n % Alignment = 0
  BY LongestHitOf DEF MayHit
<1>3. PICK k \in Nat : k = LastBlock(g) /\ k = n \div b /\ k * b = n
  BY <1>1, <1>2, LastBlockOf DEF LastBlock
<1>4. i \in Nat /\ i <= k
  BY <1>3 DEF Wanted
<1>5. \/ i < k /\ (Groups[g].full \/ i >= k - WindowBlocks(g))
      \/ i = k /\ Groups[g].use_eagle /\ n > 0
  BY <1>2, <1>3 DEF Wanted
<1>6. PICK t \in Nat : t = num_computed_tokens
  OBVIOUS
<1>7. SUFFICES ASSUME ~ Groups[g].full, (i + 1) * b <= t - Groups[g].window + 1
               PROVE  FALSE
  BY <1>1, <1>6 DEF Skipped
<1>8. PICK w \in Nat \ {0} : w = Groups[g].window
  <2>1. Groups[g].full \/ Groups[g].window > 0
    BY DEF WellFormed, Groups, Ids
  <2> QED
    BY <2>1, <1>7, GroupFacts
<1>9. PICK f \in Nat : f = NumFullBlocks(g, t) /\ f <= i
  BY <1>2, <1>6, NumFullBlocksOf
<1>10. n <= t => k <= f
  BY <1>1, <1>2, <1>3, <1>6, <1>9, OfferedBlocks
<1>11. n + b <= t /\ Groups[g].use_eagle /\ n > 0 => k + 1 <= f
  <2>1. n + b <= t => n <= t
    BY <1>1
  <2> QED
    BY <2>1, <1>1, <1>2, <1>3, <1>6, <1>9, OfferedBlocks
<1>12. PICK y \in Nat : y = (i + 1) * b
  BY <1>4, <1>1, DivOfProduct
<1>13. CASE i < k
  <2>1. t < n
    BY <1>13, <1>9, <1>10, <1>4
  <2>2. PICK c \in Nat : c = WindowBlocks(g) /\ i >= k - c
    BY <1>5, <1>7, <1>13, GroupFacts
  <2>3. c = (w - 1 + b - 1) \div b
    BY <2>2, <1>1, <1>8 DEF WindowBlocks, cdiv
  <2>4. w - 1 + b - 1 \in Nat
    BY <1>8
  <2>5. c * b \in Nat /\ c * b <= w - 1 + b - 1
    BY <2>3, <2>4, DivBounds
  <2>6. k <= (i + c) /\ i + c \in Nat
    BY <2>2, <1>4
  <2>7. k * b <= (i + c) * b
    BY <2>6, ProductMonotone
  <2>8. (i + c) * b = (i + 1) * b - b + c * b
    BY <1>4, <2>2, SMT
  <2> QED
    BY <2>1, <2>5, <2>7, <2>8, <1>3, <1>7, <1>8, <1>12
<1>14. CASE i = k
  <2>1. (i + 1) * b = n + b
    BY <1>3, <1>14, SMT
  <2>2. n + b <= t
    BY <2>1, <1>7, <1>8
  <2> QED
    BY <2>2, <1>4, <1>5, <1>9, <1>11, <1>14
<1> QED
  BY <1>4, <1>13, <1>14

LEMMA SameLayout ==
  ASSUME layout' = layout, max_cache_hit_length' = max_cache_hit_length
  PROVE  /\ Groups' = Groups /\ Ids' = Ids /\ Alignment' = Alignment
         /\ num_prompt_tokens' = num_prompt_tokens /\ LongestHit' = LongestHit
         /\ KeepsTails' = KeepsTails
         /\ \A g : Size(g)' = Size(g) /\ Wanted(g)' = Wanted(g)
         /\ \A g, n : NumFullBlocks(g, n)' = NumFullBlocks(g, n)
<1>1. Groups' = Groups /\ Alignment' = Alignment /\ Retention' = Retention
        /\ num_prompt_tokens' = num_prompt_tokens
  BY DEF Groups, Alignment, Retention, num_prompt_tokens
<1>2. Ids' = Ids
  BY <1>1 DEF Ids
<1>3. LongestHit' = LongestHit
  BY <1>1, <1>2, Zenon DEF LongestHit
<1>4. \A g : Size(g)' = Size(g) /\ WindowBlocks(g)' = WindowBlocks(g)
  BY <1>1, Zenon DEF Size, WindowBlocks
<1>5. \A g : LastBlock(g)' = LastBlock(g)
  BY <1>3, <1>4, Zenon DEF LastBlock
<1>6. \A g : Wanted(g)' = Wanted(g)
  BY <1>1, <1>3, <1>4, <1>5, Zenon DEF Wanted
<1>7. KeepsTails' = KeepsTails
  BY <1>1, <1>2, Zenon DEF KeepsTails, Dense
<1>8. \A g, n : NumFullBlocks(g, n)' = NumFullBlocks(g, n)
  BY <1>1, Zenon DEF NumFullBlocks, NumTokensToCache
<1> QED
  BY <1>1, <1>2, <1>3, <1>4, <1>6, <1>7, <1>8

LEMMA AllocateSlotsKeepsFilled ==
  ASSUME BaseInv, FilledInv, AllocateSlots
  PROVE  FilledInv'
<1>1. /\ pc = "prefill" /\ layout' = layout /\ max_cache_hit_length' = max_cache_hit_length
  BY DEF AllocateSlots
<1>2. PICK n \in Chunks :
        LET num_tokens == num_computed_tokens + n
        IN /\ num_tokens <= num_prompt_tokens
           /\ num_computed_tokens' = num_tokens
           /\ cached' = [g \in Ids |-> cached[g] \cup
                {i \in num_cached_block[g] .. NumFullBlocks(g, num_tokens) - 1 :
                   reachable_block_mask(g, i) /\ ~ Skipped(g, i)}]
           /\ num_cached_block' = [g \in Ids |->
                Max({num_cached_block[g], NumFullBlocks(g, num_tokens)})]
  BY Zenon DEF AllocateSlots
<1>3. /\ num_computed_tokens \in Nat /\ num_cached_block \in [Ids -> Nat] /\ n \in Nat
      /\ max_cache_hit_length \in Nat /\ WellFormed(layout)
  BY ReplayAssumption DEF BaseInv, PrefillInv, num_prompt_tokens
<1>4. PICK t \in Nat : t = num_computed_tokens + n
  BY <1>3
<1>5. num_computed_tokens' = t
  BY <1>2, <1>4
<1>6. cached' = [g \in Ids |-> cached[g] \cup
         {i \in num_cached_block[g] .. NumFullBlocks(g, t) - 1 :
            reachable_block_mask(g, i) /\ ~ Skipped(g, i)}]
  BY <1>2, <1>4
<1>7. num_cached_block' = [g \in Ids |-> Max({num_cached_block[g], NumFullBlocks(g, t)})]
  BY <1>2, <1>4
<1>8. ASSUME NEW g \in Ids
      PROVE  /\ NumFullBlocks(g, t) <= num_cached_block'[g]
             /\ KeepsTails => \A i \in Wanted(g) : i < num_cached_block'[g] => i \in cached'[g]
  <2>1. PICK x \in Nat, y \in Nat : x = num_cached_block[g] /\ y = NumFullBlocks(g, t)
    BY <1>3, <1>4, NumFullBlocksOf
  <2>2. PICK z : z = Max({x, y})
    OBVIOUS
  <2>3. z \in {x, y} /\ x <= z /\ y <= z
    <3>1. \E v \in {x, y} : \A w \in {x, y} : v >= w
      OBVIOUS
    <3>2. z \in {x, y} /\ \A w \in {x, y} : z >= w
      BY <2>2, <3>1, Zenon DEF Max
    <3> QED
      BY <3>2
  <2>4. num_cached_block'[g] = z
    BY <1>7, <2>1, <2>2
  <2>5. ASSUME KeepsTails, NEW i \in Wanted(g), i < z
        PROVE  i \in cached'[g]
    <3>1. i \in Nat
      BY <1>3, LastBlockOf DEF Wanted
    <3>2. NumFullBlocks(g, num_computed_tokens) <= x /\ (i < x => i \in cached[g])
      BY <1>1, <2>1, <2>5 DEF FilledInv
    <3>3. cached'[g] = cached[g] \cup
            {j \in x .. y - 1 : reachable_block_mask(g, j) /\ ~ Skipped(g, j)}
      BY <1>6, <2>1, Zenon
    <3>4. CASE i < x
      BY <3>2, <3>3, <3>4
    <3>5. CASE ~ (i < x)
      <4>1. i \in x .. y - 1
        BY <3>1, <3>5, <2>1, <2>3, <2>5
      <4>2. NumFullBlocks(g, num_computed_tokens) <= i
        <5>1. NumFullBlocks(g, num_computed_tokens) \in Nat
          BY <1>3, NumFullBlocksOf
        <5> QED
          BY <5>1, <3>1, <3>2, <3>5, <2>1
      <4>3. reachable_block_mask(g, i) /\ ~ Skipped(g, i)
        BY <4>2, <2>5, <1>3, WantedIsReachable, WantedIsNotSkipped
      <4> QED
        BY <4>1, <4>3, <3>3
    <3> QED
      BY <3>4, <3>5
  <2> QED
    BY <2>1, <2>3, <2>4, <2>5
<1>9. /\ Ids' = Ids /\ KeepsTails' = KeepsTails /\ \A g : Wanted(g)' = Wanted(g)
      /\ \A g, m : NumFullBlocks(g, m)' = NumFullBlocks(g, m)
  BY <1>1, SameLayout
<1>10. \A g \in Ids : NumFullBlocks(g, num_computed_tokens)' = NumFullBlocks(g, t)
  BY <1>1, <1>5, SameLayout, Zenon DEF NumFullBlocks, NumTokensToCache
<1> QED
  BY <1>8, <1>9, <1>10, Zenon DEF FilledInv

LEMMA StepKeepsFilled ==
  ASSUME BaseInv, FilledInv, [ReplayNext]_replayVars
  PROVE  FilledInv'
<1>1. CASE AllocateSlots
  BY <1>1, AllocateSlotsKeepsFilled
<1>2. CASE Replay \/ (Next /\ UNCHANGED <<num_computed_tokens, num_cached_block>>) \/ UNCHANGED replayVars
  <2>1. /\ UNCHANGED given
        /\ num_computed_tokens' = num_computed_tokens /\ num_cached_block' = num_cached_block
        /\ pc' = "prefill" => pc = "prefill"
    <3>1. CASE Replay
      BY <3>1 DEF Replay
    <3>2. CASE LookUp /\ UNCHANGED <<num_computed_tokens, num_cached_block>>
      BY <3>2 DEF LookUp
    <3>3. CASE EndRound /\ UNCHANGED <<num_computed_tokens, num_cached_block>>
      BY <3>3 DEF EndRound
    <3>4. CASE UNCHANGED replayVars
      BY <3>4, SameVars
    <3> QED
      BY <1>2, <3>1, <3>2, <3>3, <3>4 DEF Next
  <2>2. cached' = cached /\ layout' = layout /\ max_cache_hit_length' = max_cache_hit_length
    BY <2>1, SameGiven
  <2>3. /\ Ids' = Ids /\ KeepsTails' = KeepsTails /\ num_prompt_tokens' = num_prompt_tokens
        /\ \A g : Wanted(g)' = Wanted(g)
    BY <2>2, SameLayout
  <2>4. \A g : NumFullBlocks(g, num_computed_tokens)' = NumFullBlocks(g, num_computed_tokens)
    BY <2>1, <2>2, SameLayout, Zenon DEF NumFullBlocks, NumTokensToCache
  <2> QED
    BY <2>1, <2>2, <2>3, <2>4, Zenon DEF FilledInv
<1> QED
  BY <1>1, <1>2 DEF ReplayNext

\* After the prefill the longest hit is usable by every group.
LEMMA LongestHitIsUsable ==
  ASSUME BaseInv, FilledInv, KeepsTails, num_computed_tokens = num_prompt_tokens
  PROVE  UsableByAll(LongestHit)
<1>1. WellFormed(layout) /\ max_cache_hit_length \in Nat
  BY BaseFacts
<1>2. PICK n \in Nat : n = LongestHit /\ n % Alignment = 0 /\ n <= max_cache_hit_length /\ MayHit(n)
  BY <1>1, LongestHitOf DEF MayHit
<1>3. PICK t \in Nat : t = num_computed_tokens /\ t = max_cache_hit_length + 1
  BY <1>1 DEF num_prompt_tokens
<1>4. SUFFICES ASSUME NEW g \in Ids
               PROVE  /\ Usable(g, n)
                      /\ Groups[g].use_eagle /\ n > 0 =>
                           Peeked(g, n) \in cached[g] \cap BlocksOf(g, max_cache_hit_length)
  BY <1>2 DEF UsableByAll
<1>5. PICK b \in Nat \ {0} : b = Size(g) /\ b = Groups[g].block_size
  BY <1>1, GroupFacts DEF Size
<1>6. PICK k \in Nat : k = LastBlock(g) /\ k = n \div b /\ k * b = n
  BY <1>1, <1>2, <1>5, LastBlockOf DEF LastBlock
<1>7. PICK f \in Nat : f = NumFullBlocks(g, t)
  BY <1>1, NumFullBlocksOf
<1>8. k <= f /\ (Groups[g].use_eagle /\ n > 0 /\ n + b <= t => k + 1 <= f)
  <2>1. n <= t
    BY <1>1, <1>2, <1>3
  <2> QED
    BY <2>1, <1>1, <1>2, <1>5, <1>6, <1>7, OfferedBlocks
<1>9. PICK x \in Nat : x = num_cached_block[g]
  BY DEF BaseInv, PrefillInv
<1>10. f <= x /\ \A i \in Wanted(g) : i < x => i \in cached[g]
  BY <1>3, <1>7, <1>9 DEF FilledInv
<1>11. Usable(g, n)
  <2>1. \A i : i \in Window(g, n) <=>
          i \in 0 .. k - 1 /\ (Groups[g].full \/ i >= k - WindowBlocks(g))
    BY <1>1, <1>5, <1>6, WindowOf
  <2>2. ASSUME NEW i \in Window(g, n) PROVE i \in cached[g]
    <3>1. i \in 0 .. k - 1 /\ (Groups[g].full \/ i >= k - WindowBlocks(g))
      BY <2>1, <2>2
    <3>2. i \in 0 .. k /\ i < k /\ i < x
      BY <3>1, <1>6, <1>7, <1>8, <1>9, <1>10
    <3>3. i \in Wanted(g)
      BY <3>1, <3>2, <1>6, Zenon DEF Wanted
    <3> QED
      BY <3>2, <3>3, <1>10
  <2> QED
    BY <2>2, <1>2 DEF Usable
<1>12. ASSUME Groups[g].use_eagle, n > 0
       PROVE  Peeked(g, n) \in cached[g] \cap BlocksOf(g, max_cache_hit_length)
  <2>1. Peeked(g, n) = k
    BY <1>5, <1>6 DEF Peeked
  <2>2. n + b <= max_cache_hit_length
    BY <1>2, <1>5, <1>12 DEF MayHit
  <2>3. n + b <= t
    BY <2>2, <1>1, <1>3
  <2>4. k + 1 <= f
    BY <2>3, <1>8, <1>12
  <2>5. k < x /\ k \in 0 .. k
    BY <2>4, <1>6, <1>7, <1>9, <1>10
  <2>6. k \in Wanted(g)
    BY <2>5, <1>2, <1>6, <1>12, Zenon DEF Wanted
  <2>7. k \in cached[g]
    BY <2>5, <2>6, <1>10
  <2>8. k \in 0 .. (max_cache_hit_length \div b) - 1
    <3>1. (n + b) \div b = k + 1
      BY <1>6, DivPlusOne
    <3>2. (n + b) \div b <= max_cache_hit_length \div b
      BY <2>2, <1>1, DivMonotone
    <3>3. max_cache_hit_length \div b \in Nat
      BY <1>1, DivBounds
    <3> QED
      BY <3>1, <3>2, <3>3, <1>6
  <2>9. BlocksOf(g, max_cache_hit_length) = 0 .. (max_cache_hit_length \div b) - 1
    BY <1>5 DEF BlocksOf
  <2> QED
    BY <2>1, <2>7, <2>8, <2>9
<1> QED
  BY <1>11, <1>12

\* The lookup of an EAGLE group leaves room for the block after its hit.
LEMMA LookupLeavesRoom ==
  ASSUME WellFormed(layout), NEW g \in Ids, curr_hit_length \in Nat, max_cache_hit_length \in Nat,
         DropsEagle(g), NewLength(g) > 0
  PROVE  NewLength(g) + Size(g) <= max_cache_hit_length
<1>1. PICK b \in Nat \ {0} : b = Size(g)
  BY GroupFacts
<1>2. PICK max_length \in Nat : max_length = Max_length(g)
  BY MaxLengthOf
<1>3. max_length <= max_cache_hit_length
  <2>1. PICK x \in Nat : x = curr_hit_length + b
    BY <1>1
  <2>2. \E z \in {x, max_cache_hit_length} : \A w \in {x, max_cache_hit_length} : z =< w
    BY <2>1
  <2>3. Min({x, max_cache_hit_length}) <= max_cache_hit_length
    BY <2>2, Zenon DEF Min
  <2> QED
    BY <2>1, <2>3, <1>1, <1>2 DEF Max_length, Size
<1>4. PICK r : r = Find(g, max_length, TRUE)
  OBVIOUS
<1>5. PICK cap \in Nat : cap = max_length \div b
  BY <1>1, DivBounds
<1>6. FindSound(g, cap, TRUE, r)
  BY <1>1, <1>4, <1>5, FindOf
<1>7. PICK n \in Nat : n = r.len
  BY <1>6 DEF FindSound
<1>8. n > 0 => n + 1 <= cap
  BY <1>6, <1>7 DEF FindSound
<1>9. NewLength(g) = n * b
  <2>1. DropsEagle(g) = TRUE
    BY MaxLengthOf
  <2>2. NewLength(g) = Find(g, max_length, TRUE).len * b
    BY <2>1, <1>1, <1>2, Zenon DEF NewLength, Size
  <2> QED
    BY <2>2, <1>4, <1>7
<1>10. n > 0
  <2>1. 0 * b = 0
    BY <1>1
  <2> QED
    BY <2>1, <1>7, <1>9
<1>11. (n + 1) * b <= cap * b
  BY <1>1, <1>5, <1>7, <1>8, <1>10, ProductMonotone
<1>12. cap * b <= max_length /\ cap * b \in Nat
  BY <1>1, <1>2, <1>5, DivBounds
<1>13. (n + 1) * b = n * b + b /\ n * b \in Nat
  BY <1>1, <1>7, SMT
<1> QED
  BY <1>1, <1>2, <1>3, <1>9, <1>11, <1>12, <1>13

LEMMA StepKeepsPeek ==
  ASSUME BaseInv, PeekInv, [ReplayNext]_replayVars
  PROVE  PeekInv'
<1>1. CASE AllocateSlots
  BY <1>1, AllocateSlotsKeepsBase DEF PeekInv
<1>2. CASE Replay
  <2>1. /\ pc = "prefill" /\ pc' = "search" /\ UNCHANGED given
        /\ hit_blocks' = hit_blocks /\ eagle_verified' = eagle_verified
    BY <1>2 DEF Replay
  <2>2. eagle_verified = {} /\ \A g \in Ids : ~ (hit_blocks[g].len >= 0)
    BY <2>1 DEF BaseInv, PrefillInv, None
  <2>3. Ids' = Ids
    BY <2>1, SameGiven
  <2> QED
    BY <2>1, <2>2, <2>3 DEF PeekInv
<1>3. CASE LookUp
  <2>1. UNCHANGED given /\ pc = "search" /\ pc' = "search" /\ group \in Ids
    BY <1>3 DEF LookUp
  <2>2. /\ Ids' = Ids /\ Groups' = Groups /\ max_cache_hit_length' = max_cache_hit_length
        /\ \A g : Size(g)' = Size(g)
    BY <2>1, SameGiven
  <2>3. PICK curr \in Nat, most \in Nat : curr = curr_hit_length /\ most = max_cache_hit_length
    BY BaseFacts
  <2>4. \A g \in Ids :
          /\ g \in eagle_verified => hit_blocks[g].len >= 0
          /\ Groups[g].use_eagle /\ hit_blocks[g].len >= 0 /\ curr > 0 => curr + Size(g) <= most
    BY <2>1, <2>3 DEF PeekInv
  <2>5. CASE LookedStep
    BY <2>1, <2>2, <2>3, <2>4, <2>5 DEF LookedStep, PeekInv
  <2>6. ASSUME NEW r, FoundStep(r) PROVE PeekInv'
    <3>1. /\ r.len \in Nat /\ hit_blocks' = [hit_blocks EXCEPT ![group] = r]
          /\ curr_hit_length' = NewLength(group) /\ eagle_verified' = Verified(group)
      BY <2>6 DEF FoundStep, LookupSound
    <3>2. PICK L \in Nat : L = curr_hit_length' /\ L <= curr
      BY <2>6, <2>3 DEF FoundStep, LookupSound
    <3>3. eagle_verified' \subseteq eagle_verified \cup {group}
      BY <3>1, Zenon DEF Verified
    <3>4. \A g \in Ids : g # group => hit_blocks'[g] = hit_blocks[g]
      BY <3>1 DEF BaseInv, PrefillInv
    <3>5. hit_blocks'[group].len >= 0
      BY <3>1, <2>1 DEF BaseInv, PrefillInv
    <3>6. ASSUME NEW g \in Ids
          PROVE  /\ g \in eagle_verified' => hit_blocks'[g].len >= 0
                 /\ Groups[g].use_eagle /\ hit_blocks'[g].len >= 0 /\ L > 0 => L + Size(g) <= most
      <4>1. PICK b \in Nat \ {0} : b = Size(g)
        BY BaseFacts, GroupFacts
      <4>2. CASE g # group
        BY <4>1, <4>2, <3>2, <3>3, <3>4, <2>3, <2>4
      <4>3. CASE g = group /\ DropsEagle(g)
        <5>1. L > 0 => L + Size(g) <= most
          BY <4>3, <3>1, <3>2, <2>3, BaseFacts, LookupLeavesRoom
        <5> QED
          BY <5>1, <4>3, <3>5
      <4>4. CASE g = group /\ ~ DropsEagle(g)
        <5>1. Groups[g].use_eagle => g \in eagle_verified
          BY <4>4 DEF DropsEagle
        <5>2. Groups[g].use_eagle /\ curr > 0 => curr + b <= most
          BY <5>1, <4>1, <2>4
        <5> QED
          BY <5>2, <4>1, <4>4, <3>2, <3>5, <2>3
      <4> QED
        BY <4>2, <4>3, <4>4
    <3> QED
      BY <2>1, <2>2, <2>3, <3>2, <3>6 DEF PeekInv
  <2> QED
    BY <1>3, <2>5, <2>6, LookUpCases
<1>4. CASE EndRound
  <2>1. EndStep
    BY <1>4, EndRoundIsEndStep
  <2>2. /\ pc = "search" /\ group = Len(Groups) + 1 /\ hit_length' = curr_hit_length
        /\ UNCHANGED given /\ eagle_verified' = eagle_verified
    BY <2>1 DEF EndStep
  <2>3. /\ Ids' = Ids /\ Groups' = Groups /\ max_cache_hit_length' = max_cache_hit_length
        /\ Alignment' = Alignment /\ \A g : Size(g)' = Size(g)
    BY <2>2, SameGiven
  <2>4. \A g \in Ids :
          /\ g \in eagle_verified => hit_blocks[g].len >= 0
          /\ Groups[g].use_eagle /\ hit_blocks[g].len >= 0 /\ curr_hit_length > 0 =>
               curr_hit_length + Size(g) <= max_cache_hit_length
    BY <2>2 DEF PeekInv
  <2>5. CASE pc' = "done"
    <3>1. group # 1 /\ \A g \in Ids : g < group
      <4>1. Len(Groups) > 1
        BY BaseFacts DEF WellFormed, Groups
      <4> QED
        BY <4>1, <2>2, BaseFacts
    <3>2. curr_hit_length % Alignment = 0 /\ \A g \in Ids : hit_blocks[g].len >= 0
      BY <2>2, <3>1 DEF BaseInv, RoundInv
    <3> QED
      BY <2>2, <2>3, <2>4, <2>5, <3>2 DEF PeekInv
  <2>6. CASE pc' = "search"
    <3>1. hit_blocks' = hit_blocks /\ curr_hit_length' = curr_hit_length
      BY <2>1, <2>6 DEF EndStep
    <3> QED
      BY <2>2, <2>3, <2>4, <2>6, <3>1 DEF PeekInv
  <2> QED
    BY <2>1, <2>5, <2>6 DEF EndStep
<1>5. CASE UNCHANGED replayVars
  <2>1. /\ hit_length' = hit_length /\ curr_hit_length' = curr_hit_length
        /\ hit_blocks' = hit_blocks /\ eagle_verified' = eagle_verified /\ pc' = pc /\ UNCHANGED given
    BY <1>5, SameVars
  <2>2. /\ Ids' = Ids /\ Groups' = Groups /\ max_cache_hit_length' = max_cache_hit_length
        /\ Alignment' = Alignment /\ \A g : Size(g)' = Size(g)
    BY <2>1, SameGiven
  <2> QED
    BY <2>1, <2>2, Zenon DEF PeekInv
<1> QED
  BY <1>1, <1>2, <1>3, <1>4, <1>5 DEF ReplayNext, Next

(***************************************************************************)
(* ReplaysAlwaysHit: for every layout whose scans are exact and whose      *)
(* masks keep the tails of all boundaries, every prompt and every way to   *)
(* cut its prefill into chunks, find_longest_cache_hit returns for the     *)
(* same prompt the longest hit there can be: nothing that it needs was     *)
(* masked out by reachable_block_mask or freed by remove_skipped_blocks    *)
(* before cache_blocks reached it.                                         *)
(***************************************************************************)
THEOREM ReplaysAlwaysHit == ReplaySpec => [](ExactScans /\ KeepsTails => ReplayHits)
<1> DEFINE Inv == BaseInv /\ (ExactScans => LongestInv) /\ FilledInv /\ PeekInv
<1>1. ReplayInit => Inv
  <2>1. SUFFICES ASSUME ReplayInit PROVE Inv
    OBVIOUS
  <2>2. BaseInv /\ pc \in {"prefill", "search"} /\ eagle_verified = {}
          /\ \A g \in Ids : hit_blocks[g] = None
    BY <2>1, InitBase
  <2>3. \A n \in 1 .. max_cache_hit_length : n <= max_cache_hit_length
    BY <2>2, BaseFacts
  <2>4. LongestInv
    BY <2>1, <2>3, InitBase DEF LongestInv
  <2>5. FilledInv
    <3>1. num_computed_tokens = 0 /\ num_cached_block = [g \in Ids |-> 0]
      BY <2>1 DEF ReplayInit
    <3>2. \A g \in Ids : \A i \in Wanted(g) : ~ (i < 0)
      <4>1. ASSUME NEW g \in Ids, NEW i \in Wanted(g) PROVE ~ (i < 0)
        BY <4>1, <2>2, BaseFacts, LastBlockOf DEF Wanted
      <4> QED
        BY <4>1
    <3>3. ASSUME NEW g \in Ids PROVE NumFullBlocks(g, 0) <= 0
      <4>1. NumFullBlocks(g, 0) \in 0 .. 0
        BY <2>2, BaseFacts, NumFullBlocksOf
      <4> QED
        BY <4>1
    <3> QED
      BY <3>1, <3>2, <3>3 DEF FilledInv
  <2>6. PeekInv
    <3>1. \A g \in Ids : ~ (hit_blocks[g].len >= 0)
      BY <2>2 DEF None
    <3> QED
      BY <2>2, <3>1 DEF PeekInv
  <2> QED
    BY <2>2, <2>4, <2>5, <2>6
<1>2. Inv /\ [ReplayNext]_replayVars => Inv'
  BY StepKeepsBase, StepKeepsLongest, StepKeepsFilled, StepKeepsPeek
<1>3. Inv => (ExactScans /\ KeepsTails => ReplayHits)
  <2>1. SUFFICES ASSUME Inv, ExactScans, KeepsTails, pc = "done",
                        num_computed_tokens = num_prompt_tokens
                 PROVE  hit_length = LongestHit
    BY DEF ReplayHits
  <2>2. hit_length \in 0 .. max_cache_hit_length /\ max_cache_hit_length \in Nat /\ WellFormed(layout)
    BY <2>1, BaseFacts DEF BaseInv, TypeOK
  <2>3. /\ LongestHit \in 0 .. max_cache_hit_length
        /\ \A n \in 0 .. max_cache_hit_length : MayHit(n) => n <= LongestHit
    BY <2>2, LongestHitOf
  <2>4. MayHit(hit_length)
    BY <2>1 DEF PeekInv, MayHit
  <2>5. hit_length <= LongestHit
    BY <2>2, <2>3, <2>4
  <2>6. UsableByAll(LongestHit)
    BY <2>1, LongestHitIsUsable
  <2>7. LongestHit > 0 => LongestHit <= hit_length
    <3>1. SUFFICES ASSUME LongestHit > 0 PROVE LongestHit <= hit_length
      OBVIOUS
    <3>2. LongestHit \in 1 .. max_cache_hit_length
      BY <3>1, <2>2, <2>3
    <3> QED
      BY <3>2, <2>1, <2>6 DEF LongestInv
  <2> QED
    BY <2>2, <2>3, <2>5, <2>7
<1> QED
  BY <1>1, <1>2, <1>3, PTL DEF ReplaySpec
=============================================================================
