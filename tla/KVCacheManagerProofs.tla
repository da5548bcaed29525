------------------------ MODULE KVCacheManagerProofs ------------------------
(***************************************************************************)
(* Proofs about KVCacheManager, for every number and size of blocks, every *)
(* finite set of requests with any prompts, any number of drafts and every *)
(* configuration: the pool's books are exact, the pool never runs out of   *)
(* blocks behind a successful check, and what a prefix lookup or a block   *)
(* table leads to is the entry of the right tokens.                        *)
(***************************************************************************)
EXTENDS KVCacheManager, SeqFilterProofs

\* Quotients and their bounds.
LEMMA DivBounds ==
  ASSUME NEW x \in Nat, NEW b \in Nat \ {0}
  PROVE  x \div b \in Nat /\ (x \div b) * b <= x /\ x < (x \div b) * b + b
OBVIOUS

\* Products with the block size keep the order.
LEMMA TimesOrder ==
  ASSUME NEW i \in Nat, NEW j \in Nat, NEW b \in Nat \ {0}
  PROVE  /\ i * b \in Nat
         /\ i <= j => i * b <= j * b
         /\ i < j => i * b + b <= j * b
         /\ i * b < j * b + b => i <= j
         /\ i * b < j * b => i < j
         /\ i * b = j * b => i = j
         /\ (i + 1) * b = i * b + b
OBVIOUS

\* A product below the next one.
LEMMA TimesBelow ==
  ASSUME NEW i \in Nat, NEW j \in Nat, NEW b \in Nat \ {0}, i * b < j * b + b
  PROVE  i <= j
BY TimesOrder

\* cdiv(q, b) is the block of position q.
LEMMA CdivBounds ==
  ASSUME NEW q \in Nat, NEW b \in Nat \ {0}
  PROVE  /\ cdiv(q, b) \in Nat
         /\ q <= cdiv(q, b) * b
         /\ cdiv(q, b) * b < q + b
         /\ q > 0 => cdiv(q, b) >= 1
BY DEF cdiv

\* The slot of position q in its block.
LEMMA SlotOf ==
  ASSUME NEW q \in Nat \ {0}, NEW b \in Nat \ {0}
  PROVE  /\ ((q - 1) % b) + 1 \in 1 .. b
         /\ q = (cdiv(q, b) - 1) * b + ((q - 1) % b) + 1
<1>1. PICK k, m : k = (q - 1) \div b /\ m = (q - 1) % b
  OBVIOUS
<1>2. k \in Nat /\ m \in 0 .. b - 1
  BY <1>1
<1>3. q - 1 = k * b + m
  BY <1>1
<1>4. cdiv(q, b) = k + 1
  <2>1. PICK c : c = cdiv(q, b)
    OBVIOUS
  <2>2. c \in Nat /\ q <= c * b /\ c * b < q + b
    BY <2>1, CdivBounds
  <2>3. (k + 1) * b = k * b + b /\ k * b \in Nat
    BY <1>2, TimesOrder
  <2>4. c * b < (k + 1) * b + b /\ k * b < c * b
    BY <1>2, <1>3, <2>2, <2>3
  <2>5. c <= k + 1 /\ k < c
    BY <1>2, <2>2, <2>4, TimesOrder
  <2> QED
    BY <1>2, <2>1, <2>2, <2>5
<1>5. (k + 1) - 1 = k
  BY <1>2
<1>6. q = k * b + m + 1
  <2>1. k * b \in Nat
    BY <1>2
  <2> QED
    BY <1>2, <1>3, <2>1
<1>7. m + 1 \in 1 .. b
  BY <1>2
<1> QED
  BY <1>1, <1>4, <1>5, <1>6, <1>7
-----------------------------------------------------------------------------
(* The pool: what each of its operations does to exact books.              *)

Entries == Seq(Token) \X Blocks
Pools == [ref_cnt : [Blocks -> Nat], block_hash : [Blocks -> Seq(Token)],
          free : Seq(Blocks), cached : Seq(Entries)]

\* The free queue holds the blocks without references, each once.
FreeExact(p) ==
  /\ IsInjective(p.free)
  /\ ToSet(p.free) = {b \in Blocks \ {NullBlock} : p.ref_cnt[b] = 0}

\* The hash map has the blocks with a hash, each once.
HashedEntries(p) == {<<p.block_hash[b], b>> : b \in {c \in Blocks : p.block_hash[c] # NoHash}}
HashExact(p) == IsInjective(p.cached) /\ ToSet(p.cached) = HashedEntries(p)

\* touch takes the blocks of a hit off the free queue and counts a reference more; the queue
\* loses no more blocks than get_num_blocks_to_allocate counts.
LEMMA TouchPool ==
  ASSUME NEW p \in Pools, FreeExact(p), NEW bs \in Seq(Blocks),
         NEW q, q = touch(p, bs)
  PROVE  /\ q \in Pools /\ FreeExact(q)
         /\ q.block_hash = p.block_hash /\ q.cached = p.cached
         /\ \A b \in Blocks :
              q.ref_cnt[b] = IF b \in ToSet(bs) THEN p.ref_cnt[b] + 1 ELSE p.ref_cnt[b]
         /\ ToSet(q.free) = ToSet(p.free) \ ToSet(bs)
         /\ Len(q.free) >= Len(p.free) - Cardinality({i \in DOMAIN bs : p.ref_cnt[bs[i]] = 0})
         /\ bs = << >> => Len(q.free) = Len(p.free)
<1>1. PICK Z : Z = {b \in ToSet(bs) : p.ref_cnt[b] = 0}
  OBVIOUS
<1>2. PICK f, cnt : /\ f = Keep(p.free, ToSet(p.free) \ Z)
                    /\ cnt = [b \in Blocks |-> IF b \in ToSet(bs) THEN p.ref_cnt[b] + 1
                                               ELSE p.ref_cnt[b]]
  OBVIOUS
<1>3. q = [p EXCEPT !.free = f, !.ref_cnt = cnt]
  BY <1>1, <1>2 DEF touch
<1>4. p.free \in Seq(Blocks) /\ p.ref_cnt \in [Blocks -> Nat]
  BY DEF Pools
<1>5. f \in Seq(Blocks) /\ ToSet(f) = ToSet(p.free) \cap (ToSet(p.free) \ Z) /\ IsInjective(f)
  BY <1>2, <1>4, KeepProperties DEF FreeExact
<1>6. cnt \in [Blocks -> Nat]
  BY <1>2, <1>4
<1>7. /\ q \in Pools /\ q.free = f /\ q.ref_cnt = cnt
      /\ q.block_hash = p.block_hash /\ q.cached = p.cached
  BY <1>3, <1>5, <1>6 DEF Pools
<1>8. ToSet(f) = ToSet(p.free) \ Z
  BY <1>5
<1>9. ToSet(bs) \subseteq Blocks
  BY InToSet
<1>10. ToSet(p.free) \ Z = ToSet(p.free) \ ToSet(bs)
  BY <1>1, <1>9 DEF FreeExact
<1>11. ToSet(f) = {b \in Blocks \ {NullBlock} : cnt[b] = 0}
  <2>1. ASSUME NEW b \in Blocks
        PROVE  cnt[b] = 0 <=> p.ref_cnt[b] = 0 /\ b \notin ToSet(bs)
    BY <1>2, <1>4
  <2> QED
    BY <1>8, <1>10, <2>1 DEF FreeExact
<1>12. FreeExact(q)
  BY <1>5, <1>7, <1>11 DEF FreeExact
<1>13. Len(f) >= Len(p.free) - Cardinality({i \in DOMAIN bs : p.ref_cnt[bs[i]] = 0})
  <2>1. PICK I : I = {i \in DOMAIN bs : p.ref_cnt[bs[i]] = 0}
    OBVIOUS
  <2>2. DOMAIN bs = 1 .. Len(bs) /\ Len(bs) \in Nat
    OBVIOUS
  <2>3. I \subseteq 1 .. Len(bs)
    BY <2>1, <2>2
  <2>4. IsFiniteSet(1 .. Len(bs))
    BY <2>2, FS_Interval
  <2>5. IsFiniteSet(I)
    BY <2>3, <2>4, FS_Subset
  <2>6. [i \in I |-> bs[i]] \in Surjection(I, Z)
    <3>1. \A i \in I : bs[i] \in Z
      BY <1>1, <2>1 DEF ToSet
    <3>2. \A z \in Z : \E i \in I : bs[i] = z
      BY <1>1, <2>1 DEF ToSet
    <3> QED
      BY <3>1, <3>2 DEF Surjection
  <2>7. IsFiniteSet(Z) /\ Cardinality(Z) <= Cardinality(I)
    BY <2>5, <2>6, FS_Surjection
  <2>8. /\ IsFiniteSet(ToSet(p.free)) /\ Cardinality(ToSet(p.free)) = Len(p.free)
        /\ IsFiniteSet(ToSet(f)) /\ Cardinality(ToSet(f)) = Len(f)
    BY <1>4, <1>5, InjectiveLength DEF FreeExact
  <2>9. Z \subseteq ToSet(p.free) \cup {NullBlock}
    BY <1>1, <1>9 DEF FreeExact
  <2>10. IsFiniteSet(ToSet(f) \cup Z)
    BY <2>7, <2>8, FS_Union
  <2>11. Cardinality(ToSet(f) \cup Z)
           = Cardinality(ToSet(f)) + Cardinality(Z) - Cardinality(ToSet(f) \cap Z)
    BY <2>7, <2>8, FS_Union
  <2>12. ToSet(f) \cap Z = {} /\ ToSet(p.free) \subseteq ToSet(f) \cup Z
    BY <1>8
  <2>13. Cardinality(ToSet(p.free)) <= Cardinality(ToSet(f) \cup Z)
    BY <2>10, <2>12, FS_Subset
  <2>14. Cardinality(ToSet(f) \cap Z) = 0
    BY <2>12, FS_EmptySet
  <2>15. Cardinality(I) \in Nat /\ Cardinality(Z) \in Nat /\ Len(f) \in Nat /\ Len(p.free) \in Nat
    BY <1>4, <1>5, <2>5, <2>7, FS_CardinalityType
  <2> QED
    BY <2>1, <2>7, <2>8, <2>11, <2>13, <2>14, <2>15
<1>14. ASSUME bs = << >>
       PROVE  Len(f) = Len(p.free)
  <2>1. ToSet(bs) = {}
    BY <1>14 DEF ToSet
  <2>2. ToSet(f) = ToSet(p.free)
    BY <1>8, <1>10, <2>1
  <2> QED
    BY <1>4, <1>5, <2>2, InjectiveLength DEF FreeExact
<1>15. \A b \in Blocks :
         cnt[b] = IF b \in ToSet(bs) THEN p.ref_cnt[b] + 1 ELSE p.ref_cnt[b]
  BY <1>2
<1> QED
  BY <1>7, <1>8, <1>10, <1>12, <1>13, <1>14, <1>15

\* _maybe_evict_cached_block takes the hash of a block and its entry of the map.
LEMMA EvictPool ==
  ASSUME NEW p \in Pools, HashExact(p), NEW bs, bs \subseteq Blocks, NEW q, q = Evict(p, bs)
  PROVE  /\ q \in Pools /\ HashExact(q)
         /\ q.free = p.free /\ q.ref_cnt = p.ref_cnt
         /\ \A b \in Blocks : q.block_hash[b] = IF b \in bs THEN NoHash ELSE p.block_hash[b]
<1>1. PICK gone : gone = {b \in bs : \E i \in DOMAIN p.cached : p.cached[i] = <<p.block_hash[b], b>>}
  OBVIOUS
<1>2. PICK h, c : /\ h = [b \in Blocks |-> IF b \in gone THEN NoHash ELSE p.block_hash[b]]
                  /\ c = Keep(p.cached, ToSet(p.cached) \ {<<p.block_hash[b], b>> : b \in gone})
  OBVIOUS
<1>3. q = [p EXCEPT !.block_hash = h, !.cached = c]
  BY <1>1, <1>2 DEF Evict
<1>4. p.cached \in Seq(Entries) /\ p.block_hash \in [Blocks -> Seq(Token)]
  BY DEF Pools
<1>5. /\ c \in Seq(Entries) /\ IsInjective(c)
      /\ ToSet(c) = ToSet(p.cached) \ {<<p.block_hash[b], b>> : b \in gone}
  BY <1>2, <1>4, KeepProperties DEF HashExact
<1>6. NoHash \in Seq(Token)
  BY DEF NoHash
<1>7. h \in [Blocks -> Seq(Token)]
  BY <1>2, <1>4, <1>6
<1>8. /\ q \in Pools /\ q.block_hash = h /\ q.cached = c
      /\ q.free = p.free /\ q.ref_cnt = p.ref_cnt
  BY <1>3, <1>5, <1>7 DEF Pools
<1>9. ASSUME NEW b \in bs
      PROVE  b \in gone <=> p.block_hash[b] # NoHash
  <2>1. b \in gone <=> <<p.block_hash[b], b>> \in ToSet(p.cached)
    BY <1>1 DEF ToSet
  <2>2. <<p.block_hash[b], b>> \in HashedEntries(p) <=> p.block_hash[b] # NoHash
    BY DEF HashedEntries
  <2> QED
    BY <2>1, <2>2 DEF HashExact
<1>10. ASSUME NEW b \in Blocks
       PROVE  h[b] = IF b \in bs THEN NoHash ELSE p.block_hash[b]
  BY <1>1, <1>2, <1>9
<1>11. ToSet(c) = HashedEntries(q)
  <2>1. ASSUME NEW e \in ToSet(c)
        PROVE  e \in HashedEntries(q)
    <3>1. e \in HashedEntries(p) /\ e \notin {<<p.block_hash[b], b>> : b \in gone}
      BY <1>5 DEF HashExact
    <3>2. PICK b \in Blocks : p.block_hash[b] # NoHash /\ e = <<p.block_hash[b], b>>
      BY <3>1 DEF HashedEntries
    <3>3. b \notin gone
      BY <3>1, <3>2
    <3>4. q.block_hash[b] = p.block_hash[b]
      BY <1>2, <1>8, <3>3
    <3> QED
      BY <3>2, <3>4 DEF HashedEntries
  <2>2. ASSUME NEW e \in HashedEntries(q)
        PROVE  e \in ToSet(c)
    <3>1. PICK b \in Blocks : q.block_hash[b] # NoHash /\ e = <<q.block_hash[b], b>>
      BY DEF HashedEntries
    <3>2. b \notin gone /\ q.block_hash[b] = p.block_hash[b]
      BY <1>2, <1>8, <3>1
    <3>3. e \in ToSet(p.cached)
      BY <3>1, <3>2 DEF HashedEntries, HashExact
    <3>4. ASSUME NEW d \in gone, e = <<p.block_hash[d], d>>
          PROVE  FALSE
      BY <3>1, <3>2, <3>4
    <3> QED
      BY <1>5, <3>3, <3>4
  <2> QED
    BY <2>1, <2>2
<1> QED
  BY <1>5, <1>8, <1>10, <1>11 DEF HashExact

\* get_new_blocks takes the first n blocks of the queue, evicts them and counts one reference.
LEMMA NewBlocksPool ==
  ASSUME NEW p \in Pools, FreeExact(p), HashExact(p), NEW n \in 0 .. Len(p.free),
         NEW q, q = get_new_blocks(p, n), NEW ret, ret = ToSet(Prefix(p.free, n))
  PROVE  /\ q \in Pools /\ FreeExact(q) /\ HashExact(q)
         /\ ret \subseteq {b \in Blocks \ {NullBlock} : p.ref_cnt[b] = 0}
         /\ \A b \in Blocks :
              /\ q.ref_cnt[b] = IF b \in ret THEN p.ref_cnt[b] + 1 ELSE p.ref_cnt[b]
              /\ q.block_hash[b] = IF b \in ret THEN NoHash ELSE p.block_hash[b]
<1>1. PICK e : e = Evict(p, ret)
  OBVIOUS
<1>2. p.free \in Seq(Blocks) /\ p.ref_cnt \in [Blocks -> Nat]
  BY DEF Pools
<1>3. PICK f : f = SubSeq(p.free, n + 1, Len(p.free))
  OBVIOUS
<1>4. /\ f \in Seq(Blocks) /\ IsInjective(f)
      /\ ToSet(p.free) = ret \cup ToSet(f) /\ ret \cap ToSet(f) = {}
  BY <1>2, <1>3, SplitSets DEF FreeExact, Prefix
<1>5. ret \subseteq {b \in Blocks \ {NullBlock} : p.ref_cnt[b] = 0}
  BY <1>4 DEF FreeExact
<1>6. /\ e \in Pools /\ HashExact(e) /\ e.free = p.free /\ e.ref_cnt = p.ref_cnt
      /\ \A b \in Blocks : e.block_hash[b] = IF b \in ret THEN NoHash ELSE p.block_hash[b]
  <2>1. ret \subseteq Blocks
    BY <1>5
  <2> QED
    BY <1>1, <2>1, EvictPool
<1>7. PICK cnt : cnt = [b \in Blocks |-> IF b \in ret THEN p.ref_cnt[b] + 1 ELSE p.ref_cnt[b]]
  OBVIOUS
<1>8. q = [e EXCEPT !.free = f, !.ref_cnt = cnt]
  BY <1>1, <1>3, <1>6, <1>7 DEF get_new_blocks
<1>9. cnt \in [Blocks -> Nat]
  BY <1>2, <1>7
<1>10. /\ q \in Pools /\ q.free = f /\ q.ref_cnt = cnt
       /\ q.block_hash = e.block_hash /\ q.cached = e.cached
  BY <1>4, <1>6, <1>8, <1>9 DEF Pools
<1>11. HashExact(q)
  BY <1>6, <1>10 DEF HashExact, HashedEntries
<1>12. ToSet(f) = {b \in Blocks \ {NullBlock} : cnt[b] = 0}
  <2>1. ASSUME NEW b \in Blocks
        PROVE  cnt[b] = 0 <=> p.ref_cnt[b] = 0 /\ b \notin ret
    BY <1>2, <1>7
  <2> QED
    BY <1>4, <2>1 DEF FreeExact
<1>13. FreeExact(q)
  BY <1>4, <1>10, <1>12 DEF FreeExact
<1> QED
  BY <1>5, <1>6, <1>7, <1>10, <1>11, <1>13

\* Pool q is p with a reference less to each of the blocks bs.
FreedPool(p, bs, q) ==
  /\ q \in Pools /\ FreeExact(q)
  /\ q.block_hash = p.block_hash /\ q.cached = p.cached
  /\ \A b \in Blocks :
       q.ref_cnt[b] = IF b \in ToSet(bs) THEN p.ref_cnt[b] - 1 ELSE p.ref_cnt[b]

\* free_blocks drops one reference of every block and queues those without references.
LEMMA FreePool ==
  ASSUME NEW p \in Pools, FreeExact(p), NEW bs \in Seq(Blocks), IsInjective(bs),
         \A b \in ToSet(bs) : b # NullBlock /\ p.ref_cnt[b] >= 1,
         NEW q, q = free_blocks(p, bs)
  PROVE  FreedPool(p, bs, q)
<1>1. PICK cnt : cnt = [b \in Blocks |-> p.ref_cnt[b] - Cardinality({i \in DOMAIN bs : bs[i] = b})]
  OBVIOUS
<1>2. PICK k : k = Keep(bs, {b \in Blocks \ {NullBlock} : cnt[b] = 0})
  OBVIOUS
<1>3. q = [p EXCEPT !.ref_cnt = cnt, !.free = p.free \o k]
  BY <1>1, <1>2 DEF free_blocks
<1>4. p.free \in Seq(Blocks) /\ p.ref_cnt \in [Blocks -> Nat]
  BY DEF Pools
<1>5. ASSUME NEW b \in Blocks
      PROVE  /\ cnt[b] = IF b \in ToSet(bs) THEN p.ref_cnt[b] - 1 ELSE p.ref_cnt[b]
             /\ cnt[b] \in Nat
  <2>1. cnt[b] = p.ref_cnt[b] - Cardinality({i \in DOMAIN bs : bs[i] = b})
    BY <1>1
  <2>2. p.ref_cnt[b] \in Nat
    BY <1>4
  <2>3. CASE b \in ToSet(bs)
    <3>1. PICK j \in DOMAIN bs : bs[j] = b
      BY <2>3 DEF ToSet
    <3>2. {i \in DOMAIN bs : bs[i] = b} = {j}
      BY <3>1 DEF IsInjective
    <3>3. Cardinality({i \in DOMAIN bs : bs[i] = b}) = 1
      BY <3>2, FS_Singleton
    <3>4. p.ref_cnt[b] >= 1
      BY <2>3
    <3> QED
      BY <2>1, <2>2, <2>3, <3>3, <3>4
  <2>4. CASE b \notin ToSet(bs)
    <3>1. {i \in DOMAIN bs : bs[i] = b} = {}
      BY <2>4 DEF ToSet
    <3>2. Cardinality({i \in DOMAIN bs : bs[i] = b}) = 0
      BY <3>1, FS_EmptySet
    <3> QED
      BY <2>1, <2>2, <2>4, <3>2
  <2> QED
    BY <2>3, <2>4
<1>6. cnt \in [Blocks -> Nat]
  BY <1>1, <1>5
<1>7. /\ k \in Seq(Blocks) /\ IsInjective(k)
      /\ ToSet(k) = ToSet(bs) \cap {b \in Blocks \ {NullBlock} : cnt[b] = 0}
  BY <1>2, KeepProperties
<1>8. ToSet(p.free) \cap ToSet(k) = {}
  BY <1>7 DEF FreeExact
<1>9. /\ p.free \o k \in Seq(Blocks) /\ IsInjective(p.free \o k)
      /\ ToSet(p.free \o k) = ToSet(p.free) \cup ToSet(k)
  BY <1>4, <1>7, <1>8, ConcatSets DEF FreeExact
<1>10. ToSet(p.free \o k) = {b \in Blocks \ {NullBlock} : cnt[b] = 0}
  <2>1. ToSet(bs) \subseteq Blocks
    BY InToSet
  <2>2. ASSUME NEW b \in Blocks \ {NullBlock}
        PROVE  b \in ToSet(p.free) \cup ToSet(k) <=> cnt[b] = 0
    <3>1. CASE b \in ToSet(bs)
      <4>1. b \notin ToSet(p.free)
        BY <1>4, <3>1 DEF FreeExact
      <4> QED
        BY <1>7, <3>1, <4>1
    <3>2. CASE b \notin ToSet(bs)
      BY <1>5, <1>7, <3>2 DEF FreeExact
    <3> QED
      BY <3>1, <3>2
  <2>3. ToSet(p.free) \cup ToSet(k) \subseteq Blocks \ {NullBlock}
    BY <1>7 DEF FreeExact
  <2> QED
    BY <1>9, <2>2, <2>3
<1>11. /\ q \in Pools /\ q.free = p.free \o k /\ q.ref_cnt = cnt
       /\ q.block_hash = p.block_hash /\ q.cached = p.cached
  BY <1>3, <1>6, <1>9 DEF Pools
<1>12. FreeExact(q)
  BY <1>9, <1>10, <1>11 DEF FreeExact
<1> QED
  BY <1>5, <1>11, <1>12 DEF FreedPool

\* A prefix of at most as many tokens as there are.
LEMMA PrefixType ==
  ASSUME NEW toks \in Seq(Token), NEW n \in 0 .. Len(toks)
  PROVE  /\ Prefix(toks, n) \in Seq(Token) /\ Len(Prefix(toks, n)) = n
         /\ \A i \in 1 .. n : Prefix(toks, n)[i] = toks[i]
BY SplitSets DEF Prefix

\* Pool q is p with the blocks from + 1 .. to of a table hashed and in the map.
CachedPool(p, table, toks, from, to, q) ==
  /\ q \in Pools /\ HashExact(q)
  /\ q.free = p.free /\ q.ref_cnt = p.ref_cnt
  /\ \A j \in from + 1 .. to :
       /\ q.block_hash[table[j]] = Prefix(toks, j * BlockSize)
       /\ q.block_hash[table[j]] # NoHash
  /\ \A b \in Blocks : (\A j \in from + 1 .. to : table[j] # b) =>
       q.block_hash[b] = p.block_hash[b]

\* cache_full_blocks yields that pool, if the blocks had no hash.
LEMMA CachePool ==
  ASSUME NEW p \in Pools, HashExact(p), NEW table \in Seq(Blocks), IsInjective(table),
         NEW toks \in Seq(Token), NEW from \in Nat, NEW to \in Nat,
         to <= Len(table), to * BlockSize <= Len(toks),
         \A j \in from + 1 .. to : p.block_hash[table[j]] = NoHash,
         NEW q, q = cache_full_blocks(p, table, toks, from, to)
  PROVE  CachedPool(p, table, toks, from, to, q)
<1>0. BlockSize \in Nat \ {0} /\ Len(table) \in Nat /\ Len(toks) \in Nat
  BY KVAssumption
<1>1. CASE from >= to
  <2>1. q = p
    BY <1>1 DEF cache_full_blocks
  <2>2. \A j \in Int : ~ (j \in from + 1 .. to)
    BY <1>1
  <2>3. \A j \in from + 1 .. to : FALSE
    BY <2>2
  <2> QED
    BY <2>1, <2>3 DEF CachedPool
<1>2. CASE from < to
  <2> DEFINE Named(j) == <<Prefix(toks, j * BlockSize), table[j]>>
  <2>1. PICK new : new = [i \in 1 .. to - from |->
                           <<Prefix(toks, (from + i) * BlockSize), table[from + i]>>]
    OBVIOUS
  <2>2. ASSUME NEW j \in from + 1 .. to
        PROVE  /\ j \in 1 .. Len(table) /\ table[j] \in Blocks
               /\ Prefix(toks, j * BlockSize) \in Seq(Token)
               /\ Prefix(toks, j * BlockSize) # NoHash
    <3>1. j \in Nat /\ j <= to /\ 0 < j /\ j \in 1 .. Len(table)
      BY <1>0
    <3>2. j * BlockSize \in Nat /\ j * BlockSize <= to * BlockSize /\ 0 * BlockSize + BlockSize <= j * BlockSize
      BY <1>0, <3>1, TimesOrder
    <3>2a. to * BlockSize \in Nat
      BY <1>0
    <3>3. j * BlockSize \in 0 .. Len(toks) /\ j * BlockSize > 0
      BY <1>0, <3>2, <3>2a
    <3>4. /\ Prefix(toks, j * BlockSize) \in Seq(Token)
          /\ Len(Prefix(toks, j * BlockSize)) = j * BlockSize
      BY <3>3, PrefixType
    <3>5. Len(NoHash) = 0
      BY DEF NoHash
    <3> QED
      BY <3>1, <3>3, <3>4, <3>5
  <2>3. ASSUME NEW i \in 1 .. to - from
        PROVE  from + i \in from + 1 .. to /\ new[i] = Named(from + i)
    BY <1>0, <2>1
  <2>4. ASSUME NEW j \in from + 1 .. to
        PROVE  \E i \in 1 .. to - from : new[i] = Named(j)
    <3>1. j - from \in 1 .. to - from /\ from + (j - from) = j
      BY <1>0
    <3> QED
      BY <2>3, <3>1
  <2>5. \A j \in from + 1 .. to : Named(j) \in Entries
    BY <2>2 DEF Entries
  <2>6. to - from \in Nat
    BY <1>2
  <2>7. new \in Seq(Entries) /\ Len(new) = to - from
    BY <2>1, <2>3, <2>5, <2>6
  <2>8. ToSet(new) = {Named(j) : j \in from + 1 .. to}
    <3>1. \A x : x \in ToSet(new) <=> \E i \in 1 .. to - from : new[i] = x
      BY <2>7, InToSet
    <3>2. ASSUME NEW x \in ToSet(new)
          PROVE  x \in {Named(j) : j \in from + 1 .. to}
      <4>1. PICK i \in 1 .. to - from : new[i] = x
        BY <3>1
      <4> QED
        BY <2>3, <4>1
    <3>3. ASSUME NEW j \in from + 1 .. to
          PROVE  Named(j) \in ToSet(new)
      BY <2>4, <3>1
    <3> QED
      BY <3>2, <3>3
  <2>9. \A j, k \in from + 1 .. to : table[j] = table[k] => j = k
    BY <2>2, InToSet
  <2>10. IsInjective(new)
    <3>1. ASSUME NEW i \in 1 .. to - from, NEW k \in 1 .. to - from, new[i] = new[k]
          PROVE  i = k
      <4>1. table[from + i] = table[from + k]
        BY <2>3, <3>1
      <4>2. from + i = from + k
        BY <2>3, <2>9, <4>1
      <4> QED
        BY <1>0, <4>2
    <3> QED
      BY <2>7, <3>1, InToSet
  <2>11. PICK h : h = [b \in Blocks |->
                        IF \E e \in ToSet(new) : e[2] = b
                        THEN (CHOOSE e \in ToSet(new) : e[2] = b)[1] ELSE p.block_hash[b]]
    OBVIOUS
  <2>12. q = [p EXCEPT !.block_hash = h, !.cached = p.cached \o new]
    <3>1. ~ (from >= to)
      BY <1>2
    <3> QED
      BY <2>1, <2>11, <3>1 DEF cache_full_blocks
  <2>13. ASSUME NEW j \in from + 1 .. to
         PROVE  h[table[j]] = Prefix(toks, j * BlockSize)
    <3>1. Named(j) \in ToSet(new) /\ Named(j)[2] = table[j]
      BY <2>8
    <3>2. PICK e : e = CHOOSE x \in ToSet(new) : x[2] = table[j]
      OBVIOUS
    <3>3. e \in ToSet(new) /\ e[2] = table[j]
      BY <3>1, <3>2
    <3>4. PICK k \in from + 1 .. to : e = Named(k)
      BY <2>8, <3>3
    <3>5. k = j
      BY <2>9, <3>3, <3>4
    <3>6. h[table[j]] = e[1]
      BY <2>2, <2>11, <3>1, <3>2
    <3> QED
      BY <3>4, <3>5, <3>6
  <2>14. ASSUME NEW b \in Blocks, \A j \in from + 1 .. to : table[j] # b
         PROVE  h[b] = p.block_hash[b]
    <3>1. ~ \E e \in ToSet(new) : e[2] = b
      BY <2>8, <2>14
    <3> QED
      BY <2>11, <3>1
  <2>15. p.cached \in Seq(Entries) /\ p.block_hash \in [Blocks -> Seq(Token)]
    BY DEF Pools
  <2>16. h \in [Blocks -> Seq(Token)]
    <3>1. ASSUME NEW b \in Blocks
          PROVE  h[b] \in Seq(Token)
      <4>1. CASE \E j \in from + 1 .. to : table[j] = b
        BY <2>2, <2>13, <4>1
      <4>2. CASE \A j \in from + 1 .. to : table[j] # b
        BY <2>14, <2>15, <4>2
      <4> QED
        BY <4>1, <4>2
    <3> QED
      BY <2>11, <3>1
  <2>17. ToSet(p.cached) \cap ToSet(new) = {}
    <3>1. ASSUME NEW e \in ToSet(p.cached) \cap ToSet(new)
          PROVE  FALSE
      <4>1. PICK j \in from + 1 .. to : e = Named(j)
        BY <2>8
      <4>2. PICK b \in Blocks : p.block_hash[b] # NoHash /\ e = <<p.block_hash[b], b>>
        BY DEF HashExact, HashedEntries
      <4>3. b = table[j]
        BY <4>1, <4>2
      <4> QED
        BY <4>2, <4>3
    <3> QED
      BY <3>1
  <2>18. /\ p.cached \o new \in Seq(Entries) /\ IsInjective(p.cached \o new)
         /\ ToSet(p.cached \o new) = ToSet(p.cached) \cup ToSet(new)
    BY <2>7, <2>10, <2>15, <2>17, ConcatSets DEF HashExact
  <2>19. /\ q \in Pools /\ q.block_hash = h /\ q.cached = p.cached \o new
         /\ q.free = p.free /\ q.ref_cnt = p.ref_cnt
    BY <2>12, <2>16, <2>18 DEF Pools
  <2>20. ToSet(p.cached) \cup ToSet(new) = HashedEntries(q)
    <3>1. ASSUME NEW e \in ToSet(p.cached)
          PROVE  e \in HashedEntries(q)
      <4>1. PICK b \in Blocks : p.block_hash[b] # NoHash /\ e = <<p.block_hash[b], b>>
        BY DEF HashExact, HashedEntries
      <4>2. h[b] = p.block_hash[b]
        BY <2>14, <4>1
      <4> QED
        BY <2>19, <4>1, <4>2 DEF HashedEntries
    <3>2. ASSUME NEW e \in ToSet(new)
          PROVE  e \in HashedEntries(q)
      <4>1. PICK j \in from + 1 .. to : e = Named(j)
        BY <2>8
      <4>2. table[j] \in Blocks /\ h[table[j]] = Prefix(toks, j * BlockSize) /\ h[table[j]] # NoHash
        BY <2>2, <2>13
      <4> QED
        BY <2>19, <4>1, <4>2 DEF HashedEntries
    <3>3. ASSUME NEW e \in HashedEntries(q)
          PROVE  e \in ToSet(p.cached) \cup ToSet(new)
      <4>1. PICK b \in Blocks : h[b] # NoHash /\ e = <<h[b], b>>
        BY <2>19 DEF HashedEntries
      <4>2. CASE \E j \in from + 1 .. to : table[j] = b
        <5>1. PICK j \in from + 1 .. to : table[j] = b
          BY <4>2
        <5>2. e = Named(j)
          BY <2>13, <4>1, <5>1
        <5> QED
          BY <2>8, <5>2
      <4>3. CASE \A j \in from + 1 .. to : table[j] # b
        <5>1. h[b] = p.block_hash[b]
          BY <2>14, <4>3
        <5> QED
          BY <4>1, <5>1 DEF HashExact, HashedEntries
      <4> QED
        BY <4>2, <4>3
    <3> QED
      BY <3>1, <3>2, <3>3
  <2>21. HashExact(q)
    BY <2>18, <2>19, <2>20 DEF HashExact
  <2> QED
    BY <2>2, <2>13, <2>14, <2>19, <2>21 DEF CachedPool
<1> QED
  BY <1>1, <1>2

-----------------------------------------------------------------------------
(* Lookup and allocation.                                                  *)

\* What the hash map returns for a hash is a block with that hash.
LEMMA CachedBlock ==
  ASSUME NEW p \in Pools, HashExact(p), NEW h, NEW b, b = get_cached_block(p, h), b # NullBlock
  PROVE  b \in Blocks /\ p.block_hash[b] = h /\ h # NoHash
<1>1. PICK hits : hits = {i \in DOMAIN p.cached : p.cached[i][1] = h}
  OBVIOUS
<1>2. hits # {} /\ b = p.cached[Min(hits)][2]
  BY <1>1 DEF get_cached_block
<1>3. p.cached \in Seq(Entries)
  BY DEF Pools
<1>4. hits \subseteq Nat
  BY <1>1, <1>3
<1>5. PICK m \in hits : m = Min(hits)
  BY <1>2, <1>4, MinOfNumbers
<1>6. m \in DOMAIN p.cached /\ p.cached[m][1] = h /\ p.cached[m][2] = b
  BY <1>1, <1>2, <1>5
<1>7. p.cached[m] \in HashedEntries(p)
  BY <1>6 DEF ToSet, HashExact
<1>8. PICK c \in Blocks : p.block_hash[c] # NoHash /\ p.cached[m] = <<p.block_hash[c], c>>
  BY <1>7 DEF HashedEntries
<1> QED
  BY <1>6, <1>8

\* A prefix of a prefix.
LEMMA PrefixOfPrefix ==
  ASSUME NEW toks \in Seq(Token), NEW m \in 0 .. Len(toks), NEW n \in 0 .. m
  PROVE  Prefix(Prefix(toks, m), n) = Prefix(toks, n)
<1>1. PICK a : a = Prefix(toks, m)
  OBVIOUS
<1>2. a \in Seq(Token) /\ Len(a) = m /\ \A i \in 1 .. m : a[i] = toks[i]
  BY <1>1, PrefixType
<1>3. n \in 0 .. Len(a) /\ n \in 0 .. Len(toks) /\ \A i \in 1 .. n : i \in 1 .. m
  BY <1>2
<1>4. Prefix(a, n) \in Seq(Token) /\ Len(Prefix(a, n)) = n /\ \A i \in 1 .. n : Prefix(a, n)[i] = a[i]
  BY <1>2, <1>3, PrefixType
<1>5. /\ Prefix(toks, n) \in Seq(Token) /\ Len(Prefix(toks, n)) = n
      /\ \A i \in 1 .. n : Prefix(toks, n)[i] = toks[i]
  BY <1>3, PrefixType
<1>6. \A i \in 1 .. n : Prefix(a, n)[i] = Prefix(toks, n)[i]
  BY <1>2, <1>3, <1>4, <1>5
<1> QED
  BY <1>1, <1>4, <1>5, <1>6, SeqEqual

\* A prefix of a sequence that goes on.
LEMMA PrefixOfConcat ==
  ASSUME NEW toks \in Seq(Token), NEW more \in Seq(Token), NEW n \in 0 .. Len(toks)
  PROVE  Prefix(toks \o more, n) = Prefix(toks, n)
<1>1. PICK a : a = toks \o more
  OBVIOUS
<1>2. /\ a \in Seq(Token) /\ Len(a) = Len(toks) + Len(more)
      /\ \A i \in 1 .. Len(toks) + Len(more) : a[i] = IF i <= Len(toks) THEN toks[i] ELSE more[i - Len(toks)]
  BY <1>1, ConcatProperties
<1>3. Len(toks) \in Nat /\ Len(more) \in Nat
  OBVIOUS
<1>4. n \in 0 .. Len(a) /\ \A i \in 1 .. n : a[i] = toks[i]
  BY <1>2, <1>3
<1>5. Prefix(a, n) \in Seq(Token) /\ Len(Prefix(a, n)) = n /\ \A i \in 1 .. n : Prefix(a, n)[i] = a[i]
  BY <1>2, <1>4, PrefixType
<1>6. /\ Prefix(toks, n) \in Seq(Token) /\ Len(Prefix(toks, n)) = n
      /\ \A i \in 1 .. n : Prefix(toks, n)[i] = toks[i]
  BY PrefixType
<1>7. \A i \in 1 .. n : Prefix(a, n)[i] = Prefix(toks, n)[i]
  BY <1>4, <1>5, <1>6
<1> QED
  BY <1>1, <1>5, <1>6, <1>7, SeqEqual

\* The blocks of a hit are distinct, and each has the hash of the prefix it stands for.
LEMMA LongestHit ==
  ASSUME NEW p \in Pools, HashExact(p), NEW toks \in Seq(Token),
         NEW maxLength \in 0 .. Len(toks),
         NEW hits, hits = find_longest_cache_hit(p, toks, maxLength)
  PROVE  /\ hits \in Seq(Blocks) /\ IsInjective(hits)
         /\ Len(hits) * BlockSize <= maxLength
         /\ \A i \in 1 .. Len(hits) :
              /\ hits[i] # NullBlock
              /\ p.block_hash[hits[i]] = Prefix(toks, i * BlockSize)
              /\ p.block_hash[hits[i]] # NoHash
<1>0. BlockSize \in Nat \ {0} /\ Len(toks) \in Nat /\ maxLength \in Nat
  BY KVAssumption
<1> DEFINE hit(i) == get_cached_block(p, Prefix(toks, i * BlockSize))
<1>1. PICK all : all = maxLength \div BlockSize
  OBVIOUS
<1>2. all \in Nat /\ all * BlockSize <= maxLength
  BY <1>0, <1>1, DivBounds
<1>3. PICK N : N = {k \in 0 .. all : \A i \in 1 .. k : hit(i) # NullBlock}
  OBVIOUS
<1>4. 0 \in N /\ N \subseteq 0 .. all
  BY <1>2, <1>3
<1>5. PICK n : n = Max(N)
  OBVIOUS
<1>6. n \in N
  BY <1>2, <1>4, <1>5, MaxOfNumbers
<1>7. PICK m : m = IF config.eagle /\ n > 0 THEN n - 1 ELSE n
  OBVIOUS
<1>8. m \in 0 .. all /\ \A i \in 1 .. m : hit(i) # NullBlock
  BY <1>2, <1>3, <1>6, <1>7
<1>9. hits = [i \in 1 .. m |-> hit(i)]
  BY <1>1, <1>3, <1>5, <1>7 DEF find_longest_cache_hit
<1>10. ASSUME NEW i \in 1 .. m
       PROVE  /\ hit(i) \in Blocks /\ p.block_hash[hit(i)] = Prefix(toks, i * BlockSize)
              /\ p.block_hash[hit(i)] # NoHash /\ hit(i) # NullBlock
  BY <1>8, CachedBlock
<1>11. m \in Nat
  BY <1>2, <1>8
<1>12. hits \in Seq(Blocks) /\ Len(hits) = m /\ \A i \in 1 .. m : hits[i] = hit(i)
  BY <1>9, <1>10, <1>11
<1>13. m * BlockSize <= maxLength
  <2>1. m <= all /\ m * BlockSize \in Nat /\ all * BlockSize \in Nat
    BY <1>0, <1>2, <1>8
  <2>2. m * BlockSize <= all * BlockSize
    BY <1>0, <1>2, <1>11, <2>1, TimesOrder
  <2> QED
    BY <1>0, <1>2, <2>1, <2>2
<1>14. IsInjective(hits)
  <2>1. ASSUME NEW i \in 1 .. m, NEW j \in 1 .. m, hits[i] = hits[j]
        PROVE  i = j
    <3>1. Prefix(toks, i * BlockSize) = Prefix(toks, j * BlockSize)
      BY <1>10, <1>12, <2>1
    <3>2. ASSUME NEW k \in 1 .. m
          PROVE  k * BlockSize \in 0 .. Len(toks)
      <4>1. k \in Nat /\ k <= m
        BY <1>11
      <4>2. k * BlockSize \in Nat /\ k * BlockSize <= m * BlockSize /\ m * BlockSize \in Nat
        BY <1>0, <1>11, <4>1, TimesOrder
      <4> QED
        BY <1>0, <1>13, <4>2
    <3>3. i * BlockSize = j * BlockSize
      BY <3>1, <3>2, PrefixType
    <3> QED
      BY <1>0, <1>11, <3>3, TimesOrder
  <2> QED
    BY <1>12, <2>1, InToSet
<1> QED
  BY <1>10, <1>12, <1>13, <1>14

\* Two tables that have no block in common, one behind the other.
LEMMA DisjointTables ==
  ASSUME NEW u \in Seq(Blocks), NEW v \in Seq(Blocks), IsInjective(u), IsInjective(v),
         ToSet(u) \cap ToSet(v) = {}, NEW w, w = u \o v
  PROVE  /\ w \in Seq(Blocks) /\ Len(w) = Len(u) + Len(v) /\ IsInjective(w)
         /\ ToSet(w) = ToSet(u) \cup ToSet(v)
BY ConcatSets

\* The pool and the table after touch and get_new_blocks.
AllocatedPool(p, old, hits, n, t, base, table, fresh, g) ==
  /\ n <= Len(t.free)
  /\ g \in Pools /\ FreeExact(g) /\ HashExact(g)
  /\ base \in Seq(Blocks) /\ Len(base) = Len(old) + Len(hits)
  /\ ToSet(base) = ToSet(old) \cup ToSet(hits)
  /\ table \in Seq(Blocks) /\ Len(table) = Len(base) + n /\ IsInjective(table)
  /\ ToSet(table) = ToSet(base) \cup fresh /\ ToSet(base) \cap fresh = {}
  /\ \A j \in 1 .. Len(base) : table[j] = base[j]
  /\ \A j \in 1 .. Len(table) : j > Len(base) => table[j] \in fresh
  /\ fresh \subseteq {b \in Blocks \ {NullBlock} : p.ref_cnt[b] = 0}
  /\ \A b \in Blocks :
       /\ g.ref_cnt[b] = IF b \in ToSet(table) /\ b \notin ToSet(old)
                         THEN p.ref_cnt[b] + 1 ELSE p.ref_cnt[b]
       /\ g.block_hash[b] = IF b \in fresh THEN NoHash ELSE p.block_hash[b]

\* That is so where the check counted the hits that sit in the free queue.
LEMMA AllocatePool ==
  ASSUME NEW p \in Pools, FreeExact(p), HashExact(p),
         NEW old \in Seq(Blocks), NEW hits \in Seq(Blocks),
         IsInjective(old), IsInjective(hits), ToSet(old) \cap ToSet(hits) = {},
         \A b \in ToSet(old) : p.ref_cnt[b] >= 1,
         NEW n \in Nat,
         n + Cardinality({i \in DOMAIN hits : p.ref_cnt[hits[i]] = 0}) <= Len(p.free),
         NEW t, t = touch(p, hits), NEW g, g = get_new_blocks(t, n),
         NEW base, base = old \o hits,
         NEW table, table = WithNewBlocks(base, t, n),
         NEW fresh, fresh = ToSet(Prefix(t.free, n))
  PROVE  AllocatedPool(p, old, hits, n, t, base, table, fresh, g)
<1>1. /\ t \in Pools /\ FreeExact(t)
      /\ t.block_hash = p.block_hash /\ t.cached = p.cached
      /\ \A b \in Blocks :
           t.ref_cnt[b] = IF b \in ToSet(hits) THEN p.ref_cnt[b] + 1 ELSE p.ref_cnt[b]
      /\ ToSet(t.free) = ToSet(p.free) \ ToSet(hits)
      /\ Len(t.free) >= Len(p.free) - Cardinality({i \in DOMAIN hits : p.ref_cnt[hits[i]] = 0})
  BY TouchPool
<1>2. /\ t.free \in Seq(Blocks) /\ Len(t.free) \in Nat /\ Len(p.free) \in Nat
      /\ p.ref_cnt \in [Blocks -> Nat] /\ t.ref_cnt \in [Blocks -> Nat]
  BY <1>1 DEF Pools
<1>3. n \in 0 .. Len(t.free)
  <2>1. PICK I : I = {i \in DOMAIN hits : p.ref_cnt[hits[i]] = 0}
    OBVIOUS
  <2>2. DOMAIN hits = 1 .. Len(hits) /\ Len(hits) \in Nat
    OBVIOUS
  <2>3. IsFiniteSet(1 .. Len(hits)) /\ I \subseteq 1 .. Len(hits)
    BY <2>1, <2>2, FS_Interval
  <2>4. Cardinality(I) \in Nat
    BY <2>3, FS_Subset, FS_CardinalityType
  <2> QED
    BY <1>1, <1>2, <2>1, <2>4
<1>4. HashExact(t)
  BY <1>1 DEF HashExact, HashedEntries
<1>5. /\ g \in Pools /\ FreeExact(g) /\ HashExact(g)
      /\ fresh \subseteq {b \in Blocks \ {NullBlock} : t.ref_cnt[b] = 0}
      /\ \A b \in Blocks :
           /\ g.ref_cnt[b] = IF b \in fresh THEN t.ref_cnt[b] + 1 ELSE t.ref_cnt[b]
           /\ g.block_hash[b] = IF b \in fresh THEN NoHash ELSE t.block_hash[b]
  BY <1>1, <1>3, <1>4, NewBlocksPool
<1>6. /\ base \in Seq(Blocks) /\ Len(base) = Len(old) + Len(hits)
      /\ ToSet(base) = ToSet(old) \cup ToSet(hits) /\ IsInjective(base)
  BY ConcatSets
<1>7. PICK f : f = Prefix(t.free, n)
  OBVIOUS
<1>8. f \in Seq(Blocks) /\ Len(f) = n /\ IsInjective(f) /\ ToSet(f) = fresh
  BY <1>1, <1>2, <1>3, <1>7, SplitSets DEF Prefix, FreeExact
<1>9. ASSUME NEW b \in fresh
      PROVE  b \in Blocks /\ p.ref_cnt[b] = 0 /\ b \notin ToSet(hits) /\ b \notin ToSet(old) /\ b # NullBlock
  <2>1. b \in Blocks /\ b # NullBlock /\ t.ref_cnt[b] = 0
    BY <1>5
  <2>2. p.ref_cnt[b] = 0 /\ b \notin ToSet(hits)
    BY <1>1, <1>2, <2>1
  <2> QED
    BY <2>1, <2>2
<1>10. ToSet(base) \cap ToSet(f) = {}
  BY <1>6, <1>8, <1>9
<1>11. table = base \o f
  BY <1>7 DEF WithNewBlocks
<1>12. /\ table \in Seq(Blocks) /\ Len(table) = Len(base) + n /\ IsInjective(table)
       /\ ToSet(table) = ToSet(base) \cup fresh
  <2>1. base \in Seq(Blocks) /\ f \in Seq(Blocks) /\ IsInjective(base) /\ IsInjective(f)
    BY <1>6, <1>8
  <2>2. /\ table \in Seq(Blocks) /\ Len(table) = Len(base) + Len(f) /\ IsInjective(table)
        /\ ToSet(table) = ToSet(base) \cup ToSet(f)
    BY <1>10, <1>11, <2>1, DisjointTables, Zenon
  <2> QED
    BY <1>8, <2>2
<1>13. \A j \in 1 .. Len(base) + n : table[j] = IF j <= Len(base) THEN base[j] ELSE f[j - Len(base)]
  BY <1>6, <1>8, <1>11, ConcatProperties
<1>14. Len(base) \in Nat
  BY <1>6
<1>15. ASSUME NEW j \in 1 .. Len(base)
       PROVE  table[j] = base[j]
  BY <1>13, <1>14
<1>16. ASSUME NEW j \in 1 .. Len(table), j > Len(base)
       PROVE  table[j] \in fresh
  <2>1. j - Len(base) \in 1 .. n /\ table[j] = f[j - Len(base)]
    BY <1>12, <1>13, <1>14, <1>16
  <2>2. f[j - Len(base)] \in ToSet(f)
    BY <1>8, <2>1, InToSet
  <2> QED
    BY <1>8, <2>1, <2>2
<1>17. ASSUME NEW b \in Blocks
       PROVE  g.ref_cnt[b] = IF b \in ToSet(table) /\ b \notin ToSet(old)
                             THEN p.ref_cnt[b] + 1 ELSE p.ref_cnt[b]
  <2>1. b \in ToSet(table) <=> b \in ToSet(old) \/ b \in ToSet(hits) \/ b \in fresh
    BY <1>6, <1>12
  <2>2. b \in ToSet(hits) => b \notin ToSet(old)
    OBVIOUS
  <2>3. CASE b \in fresh
    BY <1>1, <1>5, <1>9, <2>1, <2>3
  <2>4. CASE b \notin fresh
    BY <1>1, <1>5, <2>1, <2>2, <2>4
  <2> QED
    BY <2>3, <2>4
<1>18. fresh \subseteq {b \in Blocks \ {NullBlock} : p.ref_cnt[b] = 0}
  BY <1>9
<1>19. \A b \in Blocks : g.block_hash[b] = IF b \in fresh THEN NoHash ELSE p.block_hash[b]
  BY <1>1, <1>5
<1> QED
  BY <1>3, <1>5, <1>6, <1>8, <1>10, <1>12, <1>15, <1>16, <1>17, <1>18, <1>19 DEF AllocatedPool
-----------------------------------------------------------------------------
(* The block tables.                                                       *)

HoldersIn(T, b) == {r \in Requests : b \in ToSet(T[r])}

\* The reference count of a block is the number of tables it is in.
Counts(p, T) == \A b \in Blocks : p.ref_cnt[b] = Cardinality(HoldersIn(T, b))

\* A table has no block twice and never the null block, and the blocks that were not yet offered
\* to the cache have no hash; a block in two tables has one.
Tables(p, T, cached) ==
  /\ \A r \in Requests :
       /\ IsInjective(T[r])
       /\ NullBlock \notin ToSet(T[r])
       /\ \A j \in 1 .. Len(T[r]) : j > cached[r] => p.block_hash[T[r][j]] = NoHash
  /\ \A r, s \in Requests : r # s =>
       \A b \in ToSet(T[r]) \cap ToSet(T[s]) : p.block_hash[b] # NoHash

\* A block of a table is counted.
LEMMA HeldIsCounted ==
  ASSUME NEW p \in Pools, NEW T \in [Requests -> Seq(Blocks)], Counts(p, T),
         NEW r \in Requests, NEW b \in ToSet(T[r])
  PROVE  b \in Blocks /\ p.ref_cnt[b] >= 1
<1>1. b \in Blocks
  BY InToSet
<1>2. HoldersIn(T, b) \subseteq Requests /\ r \in HoldersIn(T, b)
  BY DEF HoldersIn
<1>3. IsFiniteSet(HoldersIn(T, b))
  BY <1>2, KVAssumption, FS_Subset
<1>4. Cardinality(HoldersIn(T, b)) \in Nat /\ Cardinality(HoldersIn(T, b)) # 0
  BY <1>2, <1>3, FS_CardinalityType, FS_EmptySet
<1> QED
  BY <1>1, <1>4 DEF Counts

\* Counts that follow a table stay exact.
LEMMA CountsStep ==
  ASSUME NEW p \in Pools, NEW T \in [Requests -> Seq(Blocks)], Counts(p, T),
         NEW r \in Requests, NEW table \in Seq(Blocks), NEW q,
         \A b \in Blocks :
           q.ref_cnt[b] = IF b \in ToSet(table) /\ b \notin ToSet(T[r]) THEN p.ref_cnt[b] + 1
                          ELSE IF b \in ToSet(T[r]) /\ b \notin ToSet(table) THEN p.ref_cnt[b] - 1
                          ELSE p.ref_cnt[b],
         NEW U, U = [T EXCEPT ![r] = table]
  PROVE  Counts(q, U)
<1>1. SUFFICES ASSUME NEW b \in Blocks
               PROVE  q.ref_cnt[b] = Cardinality(HoldersIn(U, b))
  BY DEF Counts
<1>2. \A s \in Requests : U[s] = IF s = r THEN table ELSE T[s]
  OBVIOUS
<1>3. PICK H : H = HoldersIn(T, b)
  OBVIOUS
<1>4. H \subseteq Requests /\ (r \in H <=> b \in ToSet(T[r])) /\ p.ref_cnt[b] = Cardinality(H)
  BY <1>3 DEF HoldersIn, Counts
<1>5. IsFiniteSet(H)
  BY <1>4, KVAssumption, FS_Subset
<1>6. CASE b \in ToSet(table)
  <2>1. HoldersIn(U, b) = H \cup {r}
    BY <1>2, <1>3, <1>6 DEF HoldersIn
  <2>2. Cardinality(H \cup {r}) = IF r \in H THEN Cardinality(H) ELSE Cardinality(H) + 1
    BY <1>5, FS_AddElement
  <2> QED
    BY <1>4, <1>6, <2>1, <2>2
<1>7. CASE b \notin ToSet(table)
  <2>1. HoldersIn(U, b) = H \ {r}
    BY <1>2, <1>3, <1>7 DEF HoldersIn
  <2>2. Cardinality(H \ {r}) = IF r \in H THEN Cardinality(H) - 1 ELSE Cardinality(H)
    BY <1>5, FS_RemoveElement
  <2> QED
    BY <1>4, <1>7, <2>1, <2>2
<1> QED
  BY <1>6, <1>7

\* The blocks of a table behind the n-th have no hash.
Unhashed(q, table, n) == \A j \in 1 .. Len(table) : j > n => q.block_hash[table[j]] = NoHash

\* The blocks of the requests other than r keep their hash, and have one if r has them too.
OthersKept(p, q, T, r, table) ==
  \A s \in Requests \ {r} : \A b \in ToSet(T[s]) :
    q.block_hash[b] = p.block_hash[b] /\ (b \in ToSet(table) => p.block_hash[b] # NoHash)

\* A new table for r, and hashes that change only in blocks no other request has.
LEMMA TablesStep ==
  ASSUME NEW T \in [Requests -> Seq(Blocks)], NEW cached \in [Requests -> Nat],
         NEW p, Tables(p, T, cached), NEW q,
         NEW r \in Requests, NEW table \in Seq(Blocks), NEW n \in Nat,
         IsInjective(table), NullBlock \notin ToSet(table),
         Unhashed(q, table, n), OthersKept(p, q, T, r, table),
         NEW U, U = [T EXCEPT ![r] = table],
         NEW d, d = [cached EXCEPT ![r] = n]
  PROVE  Tables(q, U, d)
<1>1. \A s \in Requests : U[s] = (IF s = r THEN table ELSE T[s])
                          /\ d[s] = (IF s = r THEN n ELSE cached[s])
  OBVIOUS
<1>2. ASSUME NEW s \in Requests
      PROVE  /\ IsInjective(U[s])
             /\ NullBlock \notin ToSet(U[s])
             /\ \A j \in 1 .. Len(U[s]) : j > d[s] => q.block_hash[U[s][j]] = NoHash
  <2>1. CASE s = r
    <3>1. U[s] = table /\ d[s] = n
      BY <1>1, <2>1
    <3> QED
      BY <3>1 DEF Unhashed
  <2>2. CASE s # r
    <3>1. U[s] = T[s] /\ d[s] = cached[s]
      BY <1>1, <2>2
    <3>2. \A j \in 1 .. Len(T[s]) : T[s][j] \in ToSet(T[s])
      BY InToSet
    <3>3. \A j \in 1 .. Len(T[s]) : q.block_hash[T[s][j]] = p.block_hash[T[s][j]]
      BY <2>2, <3>2 DEF OthersKept
    <3> QED
      BY <3>1, <3>3 DEF Tables
  <2> QED
    BY <2>1, <2>2
<1>3. ASSUME NEW s \in Requests, NEW u \in Requests, s # u,
             NEW b \in ToSet(U[s]) \cap ToSet(U[u])
      PROVE  q.block_hash[b] # NoHash
  <2>1. CASE s = r
    <3>1. b \in ToSet(table) /\ b \in ToSet(T[u]) /\ u \in Requests \ {r}
      BY <1>1, <1>3, <2>1
    <3> QED
      BY <3>1 DEF OthersKept
  <2>2. CASE u = r
    <3>1. b \in ToSet(table) /\ b \in ToSet(T[s]) /\ s \in Requests \ {r}
      BY <1>1, <1>3, <2>2
    <3> QED
      BY <3>1 DEF OthersKept
  <2>3. CASE s # r /\ u # r
    <3>1. b \in ToSet(T[s]) /\ b \in ToSet(T[u]) /\ s \in Requests \ {r}
      BY <1>1, <1>3, <2>3
    <3>2. p.block_hash[b] # NoHash
      BY <1>3, <3>1 DEF Tables
    <3> QED
      BY <3>1, <3>2 DEF OthersKept
  <2> QED
    BY <2>1, <2>2, <2>3
<1> QED
  BY <1>2, <1>3 DEF Tables

-----------------------------------------------------------------------------
(* What the slots hold.                                                    *)

Entry(e, prefix) == [epoch |-> e, prefix |-> prefix]

\* Position i of the j-th block of a table.
Position(j, i) == (j - 1) * BlockSize + i

\* The slots of table tb hold the entries of the first c of toks.
Readable(k, e, tb, toks, c) ==
  \A j \in 1 .. Len(tb), i \in 1 .. BlockSize :
    Position(j, i) <= c => k[tb[j]][i] = Entry(e, Prefix(toks, Position(j, i)))

\* The blocks with a hash hold the entries of the tokens the hash stands for.
HashedHold(k, e, p) ==
  \A b \in Blocks : p.block_hash[b] # NoHash =>
    \A i \in 1 .. BlockSize :
      k[b][i] = Entry(e, Prefix(p.block_hash[b], Len(p.block_hash[b]) - BlockSize + i))

\* The slots after a step that computes the positions computed + 1 .. computed + new.
Written(k, e, table, fresh, toks, computed, new) ==
  LET into(b, i) == {q \in computed + 1 .. computed + new :
                       table[cdiv(q, BlockSize)] = b /\ (q - 1) % BlockSize = i - 1}
  IN  [b \in Blocks |-> [i \in 1 .. BlockSize |->
        IF into(b, i) = {} THEN IF b \in fresh THEN Garbage ELSE k[b][i]
        ELSE [epoch |-> e, prefix |-> Prefix(toks, Max(into(b, i)))]]]

\* Block and slot of a position, and back.
LEMMA PositionOf ==
  ASSUME NEW j \in Nat \ {0}, NEW i \in 1 .. BlockSize
  PROVE  /\ Position(j, i) \in Nat \ {0}
         /\ cdiv(Position(j, i), BlockSize) = j
         /\ (Position(j, i) - 1) % BlockSize = i - 1
         /\ j * BlockSize \in Nat /\ j * BlockSize = (j - 1) * BlockSize + BlockSize
         /\ Position(j, i) <= j * BlockSize
         /\ j * BlockSize - BlockSize + i = Position(j, i)
<1>0. BlockSize \in Nat \ {0} /\ i \in Nat \ {0} /\ i <= BlockSize
  BY KVAssumption
<1>1. PICK m \in Nat : m = j - 1
  OBVIOUS
<1>2. PICK q : q = Position(j, i)
  OBVIOUS
<1>3. m * BlockSize \in Nat /\ (m + 1) * BlockSize = m * BlockSize + BlockSize /\ j = m + 1
  BY <1>0, <1>1, TimesOrder
<1>4. q = m * BlockSize + i
  BY <1>1, <1>2 DEF Position
<1>5. q \in Nat \ {0}
  BY <1>0, <1>3, <1>4
<1>6. PICK c, s : c = cdiv(q, BlockSize) /\ s = (q - 1) % BlockSize
  OBVIOUS
<1>7. s + 1 \in 1 .. BlockSize /\ q = (c - 1) * BlockSize + s + 1
  BY <1>0, <1>5, <1>6, SlotOf
<1>8. c \in Nat /\ c >= 1
  BY <1>0, <1>5, <1>6, CdivBounds
<1>8a. s \in Int
  BY <1>0, <1>5, <1>6
<1>9. PICK d \in Nat : d = c - 1
  BY <1>8
<1>10. d * BlockSize \in Nat /\ q = d * BlockSize + s + 1
  BY <1>0, <1>7, <1>9
<1>11. d * BlockSize < m * BlockSize + BlockSize /\ m * BlockSize < d * BlockSize + BlockSize
  BY <1>0, <1>3, <1>4, <1>7, <1>8a, <1>10
<1>12. d = m
  <2>1. d <= m /\ m <= d
    BY <1>0, <1>11, TimesOrder
  <2> QED
    BY <2>1
<1>13. s + 1 = i
  BY <1>0, <1>3, <1>4, <1>8a, <1>10, <1>12
<1>14. c = j /\ s = i - 1
  BY <1>0, <1>1, <1>8, <1>8a, <1>9, <1>12, <1>13
<1>15. j * BlockSize \in Nat /\ j * BlockSize = m * BlockSize + BlockSize
  <2>1. j * BlockSize = m * BlockSize + BlockSize
    BY <1>3, Zenon
  <2> QED
    BY <1>0, <1>3, <2>1
<1>16. q <= j * BlockSize /\ j * BlockSize - BlockSize + i = q
  BY <1>0, <1>3, <1>4, <1>15
<1> QED
  BY <1>1, <1>2, <1>5, <1>6, <1>14, <1>15, <1>16

\* Every position of a table is the slot of one of its blocks.
LEMMA SlotOfTable ==
  ASSUME NEW n \in Nat, NEW q \in Nat \ {0}, q <= n * BlockSize
  PROVE  /\ cdiv(q, BlockSize) \in 1 .. n
         /\ ((q - 1) % BlockSize) + 1 \in 1 .. BlockSize
         /\ q = Position(cdiv(q, BlockSize), ((q - 1) % BlockSize) + 1)
<1>0. BlockSize \in Nat \ {0}
  BY KVAssumption
<1>1. PICK c, s : c = cdiv(q, BlockSize) /\ s = (q - 1) % BlockSize
  OBVIOUS
<1>2. c \in Nat /\ c * BlockSize < q + BlockSize /\ c >= 1
  BY <1>0, <1>1, CdivBounds
<1>3. s + 1 \in 1 .. BlockSize /\ q = (c - 1) * BlockSize + s + 1 /\ s \in Int
  BY <1>0, <1>1, SlotOf
<1>4. (c - 1) * BlockSize \in Int
  BY <1>0, <1>2
<1>5. q = (c - 1) * BlockSize + (s + 1)
  BY <1>3, <1>4
<1>6. c * BlockSize < n * BlockSize + BlockSize
  <2>1. n * BlockSize \in Nat /\ c * BlockSize \in Nat
    BY <1>0, <1>2
  <2> QED
    BY <1>0, <1>2, <2>1
<1>7. c <= n
  BY <1>0, <1>2, <1>6, TimesOrder
<1> QED
  BY <1>1, <1>2, <1>3, <1>5, <1>7 DEF Position

\* A step writes the slots of its positions, blanks the others of new blocks, and nothing else.
SlotsWritten(k2, k, e, table, fresh, toks, computed, new) ==
  /\ \A j \in 1 .. Len(table), i \in 1 .. BlockSize :
       k2[table[j]][i] =
         IF computed < Position(j, i) /\ Position(j, i) <= computed + new
         THEN Entry(e, Prefix(toks, Position(j, i)))
         ELSE IF table[j] \in fresh THEN Garbage ELSE k[table[j]][i]
  /\ \A b \in Blocks \ ToSet(table), i \in 1 .. BlockSize :
       k2[b][i] = IF b \in fresh THEN Garbage ELSE k[b][i]

\* That is what Written does.
LEMMA WrittenSlots ==
  ASSUME NEW k, NEW e, NEW table \in Seq(Blocks), IsInjective(table), NEW fresh, NEW toks,
         NEW computed \in Nat, NEW new \in Nat, computed + new <= Len(table) * BlockSize,
         NEW k2, k2 = Written(k, e, table, fresh, toks, computed, new)
  PROVE  SlotsWritten(k2, k, e, table, fresh, toks, computed, new)
<1> DEFINE into(b, i) == {q \in computed + 1 .. computed + new :
                            table[cdiv(q, BlockSize)] = b /\ (q - 1) % BlockSize = i - 1}
<1>0. BlockSize \in Nat \ {0} /\ Len(table) \in Nat
  BY KVAssumption
<1>1. ASSUME NEW b \in Blocks, NEW i \in 1 .. BlockSize
      PROVE  k2[b][i] = IF into(b, i) = {} THEN IF b \in fresh THEN Garbage ELSE k[b][i]
                        ELSE Entry(e, Prefix(toks, Max(into(b, i))))
  BY DEF Written, Entry
<1>2. ASSUME NEW q \in computed + 1 .. computed + new
      PROVE  /\ q \in Nat \ {0} /\ computed < q /\ q <= computed + new
             /\ cdiv(q, BlockSize) \in 1 .. Len(table)
             /\ ((q - 1) % BlockSize) + 1 \in 1 .. BlockSize
             /\ q = Position(cdiv(q, BlockSize), ((q - 1) % BlockSize) + 1)
  <2>1. q \in Nat \ {0} /\ computed < q /\ q <= computed + new
    OBVIOUS
  <2>2. Len(table) * BlockSize \in Nat
    BY <1>0
  <2>3. q <= Len(table) * BlockSize
    BY <2>1, <2>2
  <2> QED
    BY <1>0, <2>1, <2>3, SlotOfTable
<1>3. ASSUME NEW j \in 1 .. Len(table), NEW i \in 1 .. BlockSize
      PROVE  into(table[j], i) =
               IF computed < Position(j, i) /\ Position(j, i) <= computed + new
               THEN {Position(j, i)} ELSE {}
  <2>1. j \in Nat \ {0} /\ i \in Nat
    BY <1>0
  <2>2. PICK x : x = Position(j, i)
    OBVIOUS
  <2>3. x \in Nat \ {0} /\ cdiv(x, BlockSize) = j /\ (x - 1) % BlockSize = i - 1
    BY <2>1, <2>2, PositionOf
  <2>4. ASSUME NEW q \in into(table[j], i)
        PROVE  q = x /\ computed < x /\ x <= computed + new
    <3>1. /\ q \in computed + 1 .. computed + new
          /\ table[cdiv(q, BlockSize)] = table[j] /\ (q - 1) % BlockSize = i - 1
      OBVIOUS
    <3>2. cdiv(q, BlockSize) \in 1 .. Len(table)
      BY <1>2, <3>1
    <3>3. cdiv(q, BlockSize) = j
      BY <3>1, <3>2, InToSet
    <3>4. (i - 1) + 1 = i
      BY <2>1
    <3>5. q = x
      BY <1>2, <2>2, <3>1, <3>3, <3>4
    <3> QED
      BY <1>2, <3>1, <3>5
  <2>5. ASSUME computed < x, x <= computed + new
        PROVE  x \in into(table[j], i)
    <3>1. x \in computed + 1 .. computed + new
      BY <2>3, <2>5
    <3> QED
      BY <2>3, <3>1
  <2> HIDE DEF into
  <2>6. CASE computed < x /\ x <= computed + new
    <3>1. into(table[j], i) = {x}
      BY <2>4, <2>5, <2>6
    <3> QED
      BY <2>2, <2>6, <3>1
  <2>7. CASE ~ (computed < x /\ x <= computed + new)
    <3>1. into(table[j], i) = {}
      BY <2>4, <2>7
    <3> QED
      BY <2>2, <2>7, <3>1
  <2> QED
    BY <2>6, <2>7
<1>4. ASSUME NEW j \in 1 .. Len(table), NEW i \in 1 .. BlockSize
      PROVE  k2[table[j]][i] =
                IF computed < Position(j, i) /\ Position(j, i) <= computed + new
                THEN Entry(e, Prefix(toks, Position(j, i)))
                ELSE IF table[j] \in fresh THEN Garbage ELSE k[table[j]][i]
  <2>1. table[j] \in Blocks
    OBVIOUS
  <2>2. PICK x : x = Position(j, i)
    OBVIOUS
  <2>3. x \in Nat
    <3>1. j \in Nat \ {0}
      BY <1>0
    <3> QED
      BY <2>2, <3>1, PositionOf
  <2>4. Max({x}) = x
    <3>1. {x, x} = {x}
      OBVIOUS
    <3> QED
      BY <2>3, <3>1, MaxOfTwo
  <2> HIDE DEF into
  <2>5. CASE computed < x /\ x <= computed + new
    <3>1. into(table[j], i) = {x}
      BY <1>3, <2>2, <2>5
    <3>2. into(table[j], i) # {}
      BY <3>1
    <3>3. k2[table[j]][i] = Entry(e, Prefix(toks, Max(into(table[j], i))))
      BY <1>1, <2>1, <3>2
    <3> QED
      BY <2>2, <2>4, <2>5, <3>1, <3>3
  <2>6. CASE ~ (computed < x /\ x <= computed + new)
    <3>1. into(table[j], i) = {}
      BY <1>3, <2>2, <2>6
    <3> QED
      BY <1>1, <2>1, <2>2, <2>6, <3>1
  <2> QED
    BY <2>5, <2>6
<1>5. ASSUME NEW b \in Blocks \ ToSet(table), NEW i \in 1 .. BlockSize
      PROVE  k2[b][i] = IF b \in fresh THEN Garbage ELSE k[b][i]
  <2>1. \A j \in 1 .. Len(table) : table[j] # b
    BY InToSet
  <2>2. \A q \in computed + 1 .. computed + new : table[cdiv(q, BlockSize)] # b
    BY <1>2, <2>1
  <2>3. into(b, i) = {}
    BY <2>2
  <2> HIDE DEF into
  <2> QED
    BY <1>1, <2>3
<1> QED
  BY <1>4, <1>5 DEF SlotsWritten

\* Entries of a longer sequence are entries of one that begins alike.
LEMMA ReadableShorter ==
  ASSUME NEW k, NEW e, NEW tb \in Seq(Blocks), NEW toks, NEW c \in Nat, Readable(k, e, tb, toks, c),
         NEW more, NEW d \in Nat, d <= c,
         \A q \in 1 .. d : Prefix(toks, q) = Prefix(more, q)
  PROVE  Readable(k, e, tb, more, d)
<1>1. SUFFICES ASSUME NEW j \in 1 .. Len(tb), NEW i \in 1 .. BlockSize, Position(j, i) <= d
               PROVE  k[tb[j]][i] = Entry(e, Prefix(more, Position(j, i)))
  BY DEF Readable
<1>2. Position(j, i) \in Nat \ {0}
  <2>1. j \in Nat \ {0}
    OBVIOUS
  <2> QED
    BY <2>1, PositionOf
<1>3. Position(j, i) \in 1 .. d /\ Position(j, i) <= c
  BY <1>1, <1>2
<1> QED
  BY <1>3 DEF Readable

\* Only the blocks from + 1 .. to of a table get new hashes, those of their tokens.
HashesAdded(p, q, table, toks, from, to) ==
  /\ \A j \in from + 1 .. to : q.block_hash[table[j]] = Prefix(toks, j * BlockSize)
  /\ \A b \in Blocks : (\A j \in from + 1 .. to : table[j] # b) => q.block_hash[b] = p.block_hash[b]

\* Caching full blocks whose slots hold their tokens.
LEMMA CacheHolds ==
  ASSUME NEW k, NEW e, NEW p, HashedHold(k, e, p), NEW table \in Seq(Blocks), NEW toks \in Seq(Token),
         NEW c \in Nat, Readable(k, e, table, toks, c),
         NEW from \in Nat, NEW to \in Nat, to <= Len(table),
         to * BlockSize <= c, to * BlockSize <= Len(toks), NEW q,
         HashesAdded(p, q, table, toks, from, to)
  PROVE  HashedHold(k, e, q)
<1>0. BlockSize \in Nat \ {0} /\ Len(table) \in Nat /\ Len(toks) \in Nat
  BY KVAssumption
<1>1. SUFFICES ASSUME NEW b \in Blocks, q.block_hash[b] # NoHash, NEW i \in 1 .. BlockSize
               PROVE  k[b][i] = Entry(e, Prefix(q.block_hash[b], Len(q.block_hash[b]) - BlockSize + i))
  BY DEF HashedHold
<1>2. CASE \A j \in from + 1 .. to : table[j] # b
  BY <1>1, <1>2 DEF HashedHold, HashesAdded
<1>3. CASE \E j \in from + 1 .. to : table[j] = b
  <2>1. PICK j \in from + 1 .. to : table[j] = b
    BY <1>3
  <2>2. j \in Nat \ {0} /\ j \in 1 .. Len(table) /\ j <= to
    BY <1>0
  <2>3. /\ Position(j, i) \in Nat \ {0} /\ j * BlockSize \in Nat
        /\ Position(j, i) <= j * BlockSize /\ j * BlockSize - BlockSize + i = Position(j, i)
    BY <2>2, PositionOf
  <2>4. j * BlockSize <= to * BlockSize /\ to * BlockSize \in Nat
    BY <1>0, <2>2, TimesOrder
  <2>5. Position(j, i) <= c /\ j * BlockSize \in 0 .. Len(toks) /\ Position(j, i) \in 0 .. j * BlockSize
    <3>1. PICK x, y, z : x = Position(j, i) /\ y = j * BlockSize /\ z = to * BlockSize
      OBVIOUS
    <3>2. /\ x \in Nat /\ y \in Nat /\ z \in Nat /\ x <= y /\ y <= z
          /\ z <= c /\ z <= Len(toks)
      BY <2>3, <2>4, <3>1
    <3>3. x <= c /\ y \in 0 .. Len(toks) /\ x \in 0 .. y
      BY <1>0, <3>2
    <3> QED
      BY <3>1, <3>3
  <2>6. PICK h : h = Prefix(toks, j * BlockSize)
    OBVIOUS
  <2>7. Len(h) = j * BlockSize /\ Prefix(h, Position(j, i)) = Prefix(toks, Position(j, i))
    BY <2>5, <2>6, PrefixType, PrefixOfPrefix
  <2>8. k[b][i] = Entry(e, Prefix(toks, Position(j, i)))
    BY <2>1, <2>2, <2>5 DEF Readable
  <2>9. q.block_hash[b] = h
    BY <2>1, <2>6 DEF HashesAdded
  <2> QED
    BY <2>3, <2>7, <2>8, <2>9
<1> QED
  BY <1>2, <1>3

\* The blocks of a hit hold the tokens looked up.
LEMMA HitReadable ==
  ASSUME NEW k, NEW e, NEW p, HashedHold(k, e, p), NEW hits \in Seq(Blocks), NEW toks \in Seq(Token),
         Len(hits) * BlockSize <= Len(toks),
         \A i \in 1 .. Len(hits) : /\ p.block_hash[hits[i]] = Prefix(toks, i * BlockSize)
                                   /\ p.block_hash[hits[i]] # NoHash
  PROVE  Readable(k, e, hits, toks, Len(hits) * BlockSize)
<1>0. BlockSize \in Nat \ {0} /\ Len(hits) \in Nat /\ Len(toks) \in Nat
  BY KVAssumption
<1>1. SUFFICES ASSUME NEW j \in 1 .. Len(hits), NEW i \in 1 .. BlockSize
               PROVE  k[hits[j]][i] = Entry(e, Prefix(toks, Position(j, i)))
  BY DEF Readable
<1>2. j \in Nat \ {0} /\ j <= Len(hits) /\ hits[j] \in Blocks
  BY <1>0
<1>3. /\ Position(j, i) \in Nat \ {0} /\ j * BlockSize \in Nat
      /\ Position(j, i) <= j * BlockSize /\ j * BlockSize - BlockSize + i = Position(j, i)
  BY <1>2, PositionOf
<1>4. j * BlockSize <= Len(hits) * BlockSize /\ Len(hits) * BlockSize \in Nat
  BY <1>0, <1>2, TimesOrder
<1>5. j * BlockSize \in 0 .. Len(toks) /\ Position(j, i) \in 0 .. j * BlockSize
  BY <1>0, <1>3, <1>4
<1>6. PICK h : h = Prefix(toks, j * BlockSize)
  OBVIOUS
<1>7. Len(h) = j * BlockSize /\ Prefix(h, Position(j, i)) = Prefix(toks, Position(j, i))
  BY <1>5, <1>6, PrefixType, PrefixOfPrefix
<1>8. p.block_hash[hits[j]] = h /\ p.block_hash[hits[j]] # NoHash
  BY <1>6
<1>9. k[hits[j]][i] = Entry(e, Prefix(h, Len(h) - BlockSize + i))
  BY <1>2, <1>8 DEF HashedHold
<1> QED
  BY <1>3, <1>7, <1>9

\* The situation of a step: the table goes on behind base with new blocks, base can be read so
\* far, and its blocks with a hash are full.
WriteSetup(p, k, e, base, table, fresh, toks, computed, new) ==
  /\ base \in Seq(Blocks) /\ table \in Seq(Blocks) /\ IsInjective(table)
  /\ Len(base) <= Len(table) /\ \A j \in 1 .. Len(base) : table[j] = base[j]
  /\ ToSet(base) \cap fresh = {} /\ \A j \in 1 .. Len(table) : j > Len(base) => table[j] \in fresh
  /\ Readable(k, e, base, toks, computed)
  /\ computed <= Len(base) * BlockSize /\ computed + new <= Len(table) * BlockSize
  /\ \A j \in 1 .. Len(base) : p.block_hash[base[j]] # NoHash => j * BlockSize <= computed

\* The slots of blocks that others have or that have a hash.
SlotsKept(p, k, k2, table, fresh) ==
  \A b \in Blocks \ fresh : (b \notin ToSet(table) \/ p.block_hash[b] # NoHash) =>
    \A i \in 1 .. BlockSize : k2[b][i] = k[b][i]

\* The step leaves a table that can be read up to its last position, and every other block of a
\* request or of the cache as it was.
LEMMA WriteHolds ==
  ASSUME NEW p, NEW k, NEW e, NEW base, NEW table, NEW fresh, NEW toks,
         NEW computed \in Nat, NEW new \in Nat,
         WriteSetup(p, k, e, base, table, fresh, toks, computed, new),
         NEW k2, k2 = Written(k, e, table, fresh, toks, computed, new)
  PROVE  Readable(k2, e, table, toks, computed + new) /\ SlotsKept(p, k, k2, table, fresh)
<1>s. /\ base \in Seq(Blocks) /\ table \in Seq(Blocks) /\ IsInjective(table)
      /\ Len(base) <= Len(table) /\ \A j \in 1 .. Len(base) : table[j] = base[j]
      /\ ToSet(base) \cap fresh = {} /\ \A j \in 1 .. Len(table) : j > Len(base) => table[j] \in fresh
      /\ Readable(k, e, base, toks, computed)
      /\ computed <= Len(base) * BlockSize /\ computed + new <= Len(table) * BlockSize
      /\ \A j \in 1 .. Len(base) : p.block_hash[base[j]] # NoHash => j * BlockSize <= computed
  BY DEF WriteSetup
<1>0. BlockSize \in Nat \ {0} /\ Len(base) \in Nat /\ Len(table) \in Nat
  BY <1>s, KVAssumption
<1>w. SlotsWritten(k2, k, e, table, fresh, toks, computed, new)
  BY <1>s, WrittenSlots
<1>1. ASSUME NEW j \in 1 .. Len(table), NEW i \in 1 .. BlockSize
      PROVE  k2[table[j]][i] =
                IF computed < Position(j, i) /\ Position(j, i) <= computed + new
                THEN Entry(e, Prefix(toks, Position(j, i)))
                ELSE IF table[j] \in fresh THEN Garbage ELSE k[table[j]][i]
  BY <1>w DEF SlotsWritten
<1>2. ASSUME NEW b \in Blocks \ ToSet(table), NEW i \in 1 .. BlockSize
      PROVE  k2[b][i] = IF b \in fresh THEN Garbage ELSE k[b][i]
  BY <1>w DEF SlotsWritten
<1>3. ASSUME NEW j \in 1 .. Len(table), NEW i \in 1 .. BlockSize, Position(j, i) <= computed + new
      PROVE  k2[table[j]][i] = Entry(e, Prefix(toks, Position(j, i)))
  <2>1. j \in Nat \ {0} /\ i \in Nat \ {0}
    BY <1>0
  <2>2. Position(j, i) \in Nat \ {0}
    BY <2>1, PositionOf
  <2>3. CASE computed < Position(j, i)
    BY <1>1, <1>3, <2>3
  <2>4. CASE ~ (computed < Position(j, i))
    <3>1. Position(j, i) <= computed
      BY <2>2, <2>4
    <3>2. Position(j, i) <= Len(base) * BlockSize
      <4>1. Len(base) * BlockSize \in Nat
        BY <1>0
      <4> QED
        BY <1>s, <2>2, <3>1, <4>1
    <3>3. cdiv(Position(j, i), BlockSize) \in 1 .. Len(base)
      BY <1>0, <2>2, <3>2, SlotOfTable
    <3>4. j \in 1 .. Len(base)
      BY <2>1, <3>3, PositionOf
    <3>5. table[j] = base[j] /\ base[j] \notin fresh
      BY <1>s, <3>4, InToSet
    <3>6. k2[table[j]][i] = k[base[j]][i]
      BY <1>1, <2>4, <3>5
    <3>7. k[base[j]][i] = Entry(e, Prefix(toks, Position(j, i)))
      BY <1>s, <3>1, <3>4 DEF Readable
    <3> QED
      BY <3>6, <3>7
  <2> QED
    BY <2>3, <2>4
<1>4. ASSUME NEW b \in Blocks \ fresh, b \notin ToSet(table) \/ p.block_hash[b] # NoHash,
             NEW i \in 1 .. BlockSize
      PROVE  k2[b][i] = k[b][i]
  <2>1. CASE b \notin ToSet(table)
    BY <1>2, <2>1
  <2>2. CASE b \in ToSet(table) /\ p.block_hash[b] # NoHash
    <3>1. PICK j \in 1 .. Len(table) : table[j] = b
      BY <1>s, <2>2, InToSet
    <3>2. j \in 1 .. Len(base) /\ base[j] = b
      BY <1>0, <1>s, <3>1
    <3>3. j * BlockSize <= computed
      BY <1>s, <2>2, <3>2
    <3>4. j \in Nat \ {0}
      BY <1>0
    <3>5. Position(j, i) \in Nat /\ j * BlockSize \in Nat /\ Position(j, i) <= j * BlockSize
      BY <3>4, PositionOf
    <3>6. ~ (computed < Position(j, i))
      BY <3>3, <3>5
    <3> QED
      BY <1>1, <3>1, <3>6
  <2> QED
    BY <1>4, <2>1, <2>2
<1> QED
  BY <1>3, <1>4 DEF Readable, SlotsKept

-----------------------------------------------------------------------------
(* The invariant.                                                          *)

\* A request's counters: computed tokens are known or are the drafts of the step in flight, have
\* slots, and cover the blocks offered to the cache; a waiting request has no blocks.
RequestOK(tb, cached, toks, c, st, s, max) ==
  /\ Len(toks) \in 1 .. max
  /\ st = "waiting" => /\ tb = << >> /\ cached = 0 /\ c = 0
                       /\ s = Idle /\ Len(toks) < max
  /\ s # Idle => Len(toks) + Len(s.drafts) < max
  /\ c <= Len(toks) + Len(s.drafts)
  /\ s.drafts # << >> => c = Len(toks) + Len(s.drafts)
  /\ c <= Len(tb) * BlockSize
  /\ cached * BlockSize <= c
  /\ cached * BlockSize <= Len(toks)

RequestInv ==
  \A r \in Requests : RequestOK(req_to_blocks[r], num_cached_block[r], tokens[r],
                                num_computed_tokens[r], status[r], step[r], config.max_len)

\* Every computed position of a request, the drafts in flight included, can be read.
ReadInv ==
  \A r \in Requests : Readable(kv, epoch, req_to_blocks[r], tokens[r] \o step[r].drafts,
                               num_computed_tokens[r])

PoolInv == FreeExact(pool) /\ HashExact(pool) /\ Counts(pool, req_to_blocks)
TableInv == Tables(pool, req_to_blocks, num_cached_block)
HashedInv == HashedHold(kv, epoch, pool)

CacheInv == TypeOK /\ PoolInv /\ TableInv /\ HashedInv /\ RequestInv /\ ReadInv

\* The types, one by one.
LEMMA Types ==
  ASSUME TypeOK
  PROVE  /\ config \in Configs
         /\ config.max_len \in Nat /\ config.watermark \in Nat /\ config.max_epoch \in Nat
         /\ pool \in Pools
         /\ req_to_blocks \in [Requests -> Seq(Blocks)]
         /\ num_cached_block \in [Requests -> Nat]
         /\ tokens \in [Requests -> Seq(Token)]
         /\ num_computed_tokens \in [Requests -> 0 .. config.max_len]
         /\ status \in [Requests -> {"waiting", "running"}]
         /\ step \in [Requests -> [new : 0 .. config.max_len, drafts : Seq(Token)]]
         /\ epoch \in 0 .. config.max_epoch
<1>1. config \in [max_len : Nat, watermark : Nat, full : BOOLEAN, eagle : BOOLEAN,
                  async : BOOLEAN, max_epoch : Nat]
  BY KVAssumption DEF TypeOK
<1>2. config.max_len \in Nat /\ config.watermark \in Nat /\ config.max_epoch \in Nat
  BY <1>1
<1>3. pool \in Pools
  BY DEF TypeOK, Pools, Entries
<1> QED
  BY <1>2, <1>3 DEF TypeOK, MaxLen

\* The check of allocate_slots counts what touch and get_new_blocks will take.
LEMMA EnoughBlocks ==
  ASSUME TypeOK, NEW r \in Requests, NEW computed \in Nat, NEW new \in Nat,
         NEW hits \in Seq(Blocks), NEW hasScheduled,
         CanAllocate(r, computed, new, hits, hasScheduled),
         NEW n, n = NumNewBlocks(r, computed, new, hits)
  PROVE  /\ n \in Nat
         /\ n + Cardinality({i \in DOMAIN hits : pool.ref_cnt[hits[i]] = 0}) <= Len(pool.free)
         /\ NeedSlot(computed, new) \in Nat
         /\ cdiv(NeedSlot(computed, new), BlockSize) <= Len(req_to_blocks[r]) + Len(hits) + n
<1>1. /\ config.max_len \in Nat /\ config.watermark \in Nat /\ pool \in Pools
      /\ req_to_blocks[r] \in Seq(Blocks)
  BY Types
<1>2. BlockSize \in Nat \ {0} /\ Lookahead \in Nat
  BY KVAssumption
<1>3. PICK m : m = NeedSlot(computed, new)
  OBVIOUS
<1>4. m \in Nat
  BY <1>1, <1>2, <1>3 DEF NeedSlot, MaxLen
<1>5. PICK x : x = cdiv(m, BlockSize) - Len(req_to_blocks[r]) - Len(hits)
  OBVIOUS
<1>6. cdiv(m, BlockSize) \in Nat /\ Len(req_to_blocks[r]) \in Nat /\ Len(hits) \in Nat
  <2>1. cdiv(m, BlockSize) \in Nat
    BY <1>2, <1>4, CdivBounds
  <2>2. Len(req_to_blocks[r]) \in Nat /\ Len(hits) \in Nat
    BY <1>1
  <2> QED
    BY <2>1, <2>2
<1>7. x \in Int
  BY <1>5, <1>6
<1>8. Max({x, 0}) = IF x >= 0 THEN x ELSE 0
  BY <1>7, MaxOfTwo
<1>9. n = Max({x, 0})
  BY <1>3, <1>5 DEF NumNewBlocks
<1>10. n \in Nat /\ n >= x
  BY <1>7, <1>8, <1>9
<1>11. PICK I : I = {i \in DOMAIN hits : pool.ref_cnt[hits[i]] = 0}
  OBVIOUS
<1>12. Cardinality(I) \in Nat
  <2>1. DOMAIN hits = 1 .. Len(hits)
    OBVIOUS
  <2>2. IsFiniteSet(1 .. Len(hits)) /\ I \subseteq 1 .. Len(hits)
    BY <1>6, <1>11, <2>1, FS_Interval
  <2> QED
    BY <2>2, FS_Subset, FS_CardinalityType
<1>13. get_num_blocks_to_allocate(r, m, hits) = n + Cardinality(I)
  BY <1>5, <1>9, <1>11 DEF get_num_blocks_to_allocate
<1>14. PICK spare : spare = IF hasScheduled /\ status[r] = "waiting" THEN config.watermark ELSE 0
  OBVIOUS
<1>15. spare \in Nat
  BY <1>1, <1>14
<1>16. get_num_blocks_to_allocate(r, m, hits) + spare <= Len(pool.free)
  BY <1>3, <1>14 DEF CanAllocate
<1>17. pool.free \in Seq(Blocks)
  BY <1>1 DEF Pools
<1>18. n + Cardinality(I) <= Len(pool.free)
  <2>1. Len(pool.free) \in Nat
    BY <1>17
  <2> QED
    BY <1>10, <1>12, <1>13, <1>15, <1>16, <2>1
<1>19. cdiv(m, BlockSize) <= Len(req_to_blocks[r]) + Len(hits) + n
  BY <1>5, <1>6, <1>10
<1> QED
  BY <1>3, <1>4, <1>10, <1>11, <1>18, <1>19

\* A request may be given slots behind `computed` tokens: the blocks it has and the hits are
\* apart, can be read so far, and those not yet offered to the cache have no hash.
Ready(r, computed, new, hits, drafts) ==
  LET base == req_to_blocks[r] \o hits
      start == num_cached_block[r] + Len(hits)
  IN  /\ IsInjective(hits) /\ ToSet(req_to_blocks[r]) \cap ToSet(hits) = {}
      /\ \A j \in 1 .. Len(hits) : hits[j] # NullBlock /\ pool.block_hash[hits[j]] # NoHash
      /\ \A j \in 1 .. Len(base) : j > start => pool.block_hash[base[j]] = NoHash
      /\ computed <= Len(base) * BlockSize
      /\ Readable(kv, epoch, base, tokens[r] \o drafts, computed)
      /\ start * BlockSize <= computed /\ start * BlockSize <= Len(tokens[r])
      /\ computed + new <= Len(tokens[r]) + Len(drafts)
      /\ drafts # << >> => computed + new = Len(tokens[r]) + Len(drafts)
      /\ Len(tokens[r]) + Len(drafts) < config.max_len

\* What the request's variables become.
Allocated(r, computed, new, hits, drafts) ==
  /\ AllocateSlots(r, computed, new, hits)
  /\ WriteKV(r, hits, computed, new, drafts)
  /\ num_computed_tokens' = [num_computed_tokens EXCEPT ![r] = computed + new]
  /\ step' = [step EXCEPT ![r] = [new |-> new, drafts |-> drafts]]
  /\ status' = [status EXCEPT ![r] = "running"]
  /\ UNCHANGED <<config, tokens, epoch>>

\* The pool, the tables and the slots after allocate_slots, in terms of the values before.
AllocResult(r, computed, new, hits, drafts, base, table, fresh, g, start, full) ==
  /\ base = req_to_blocks[r] \o hits
  /\ base \in Seq(Blocks) /\ table \in Seq(Blocks) /\ IsInjective(table)
  /\ Len(base) <= Len(table)
  /\ ToSet(base) = ToSet(req_to_blocks[r]) \cup ToSet(hits)
  /\ ToSet(table) = ToSet(base) \cup fresh /\ ToSet(base) \cap fresh = {}
  /\ \A j \in 1 .. Len(base) : table[j] = base[j]
  /\ \A j \in 1 .. Len(table) : j > Len(base) => table[j] \in fresh
  /\ fresh \subseteq {b \in Blocks \ {NullBlock} : pool.ref_cnt[b] = 0}
  /\ g \in Pools /\ FreeExact(g) /\ HashExact(g)
  /\ \A b \in Blocks :
       /\ g.ref_cnt[b] = IF b \in ToSet(table) /\ b \notin ToSet(req_to_blocks[r])
                         THEN pool.ref_cnt[b] + 1 ELSE pool.ref_cnt[b]
       /\ g.block_hash[b] = IF b \in fresh THEN NoHash ELSE pool.block_hash[b]
  /\ start = num_cached_block[r] + Len(hits) /\ full \in Nat
  /\ full * BlockSize <= computed + new /\ full * BlockSize <= Len(tokens[r])
  /\ full <= Len(table) /\ computed + new <= Len(table) * BlockSize
  /\ req_to_blocks' = [req_to_blocks EXCEPT ![r] = table]
  /\ pool' = cache_full_blocks(g, table, tokens[r], start, full)
  /\ num_cached_block' = [num_cached_block EXCEPT ![r] = Max({start, full})]
  /\ kv' = Written(kv, epoch, table, fresh, tokens[r] \o drafts, computed, new)

\* The numbers of allocate_slots: the table has room, and no more blocks are cached than are full.
LEMMA AllocNumbers ==
  ASSUME TypeOK, RequestInv, NEW r \in Requests, NEW computed \in Nat, NEW new \in Nat,
         NEW hits \in Seq(Blocks), NEW drafts \in Seq(Token), NEW hasScheduled,
         CanAllocate(r, computed, new, hits, hasScheduled), Ready(r, computed, new, hits, drafts),
         NEW len \in Nat,
         len = Len(req_to_blocks[r]) + Len(hits) + NumNewBlocks(r, computed, new, hits),
         NEW full, full = FullBlocks(r, computed, new)
  PROVE  /\ full \in Nat /\ full <= len
         /\ full * BlockSize <= computed + new /\ full * BlockSize <= Len(tokens[r])
         /\ computed + new <= len * BlockSize
<1>1. config.max_len \in Nat /\ tokens[r] \in Seq(Token)
  BY Types
<1>2. BlockSize \in Nat \ {0} /\ Lookahead \in Nat
  BY KVAssumption
<1>3. PICK m : m = NeedSlot(computed, new)
  OBVIOUS
<1>4. m \in Nat /\ cdiv(m, BlockSize) <= len
  BY <1>3, EnoughBlocks
<1>5. Len(tokens[r]) \in Nat /\ Len(drafts) \in Nat
  BY <1>1
<1>6. computed + new <= config.max_len
  BY <1>1, <1>5 DEF Ready
<1>7. m = IF computed + new + Lookahead < config.max_len THEN computed + new + Lookahead ELSE config.max_len
  BY <1>3 DEF NeedSlot, MaxLen
<1>8. computed + new <= m
  BY <1>1, <1>2, <1>6, <1>7
<1>9. cdiv(m, BlockSize) \in Nat /\ m <= cdiv(m, BlockSize) * BlockSize
  BY <1>2, <1>4, CdivBounds
<1>10. /\ cdiv(m, BlockSize) * BlockSize <= len * BlockSize
       /\ cdiv(m, BlockSize) * BlockSize \in Nat /\ len * BlockSize \in Nat
  BY <1>2, <1>4, <1>9, TimesOrder
<1>11. computed + new <= len * BlockSize
  BY <1>4, <1>8, <1>9, <1>10
<1>12. PICK x : x = Min({computed + new, Len(tokens[r])})
  OBVIOUS
<1>13. x = IF computed + new <= Len(tokens[r]) THEN computed + new ELSE Len(tokens[r])
  <2>1. computed + new \in Int /\ Len(tokens[r]) \in Int
    BY <1>5
  <2> QED
    BY <1>12, <2>1, MinOfTwo, Zenon
<1>14. x \in Nat /\ x <= computed + new /\ x <= Len(tokens[r])
  BY <1>5, <1>13
<1>15. full = x \div BlockSize
  BY <1>12 DEF FullBlocks
<1>16. full \in Nat /\ full * BlockSize <= x
  BY <1>2, <1>14, <1>15, DivBounds
<1>17. full * BlockSize \in Nat
  BY <1>2, <1>16
<1>18. full * BlockSize <= computed + new /\ full * BlockSize <= Len(tokens[r])
  BY <1>5, <1>14, <1>16, <1>17
<1>19. full * BlockSize < len * BlockSize + BlockSize
  <2>1. PICK a, b : a = full * BlockSize /\ b = len * BlockSize
    OBVIOUS
  <2>2. a \in Nat /\ b \in Nat /\ a <= computed + new /\ computed + new <= b
    BY <1>10, <1>11, <1>17, <1>18, <2>1
  <2>3. a < b + BlockSize
    BY <1>2, <2>2
  <2> QED
    BY <2>1, <2>3
<1>20. full <= len
  <2>1. full \in Nat /\ BlockSize \in Nat \ {0}
    BY <1>2, <1>16
  <2> QED
    BY <1>19, <2>1, TimesBelow
<1> QED
  BY <1>11, <1>16, <1>18, <1>20

\* allocate_slots does what AllocResult says.
LEMMA AllocFacts ==
  ASSUME CacheInv, NEW r \in Requests, NEW computed \in Nat, NEW new \in Nat,
         NEW hits \in Seq(Blocks), NEW drafts \in Seq(Token), NEW hasScheduled,
         CanAllocate(r, computed, new, hits, hasScheduled), Ready(r, computed, new, hits, drafts),
         Allocated(r, computed, new, hits, drafts)
  PROVE  \E base, table, fresh, g, start, full :
           AllocResult(r, computed, new, hits, drafts, base, table, fresh, g, start, full)
<1>0. TypeOK /\ PoolInv /\ TableInv /\ RequestInv
  BY DEF CacheInv
<1>1. /\ pool \in Pools /\ req_to_blocks \in [Requests -> Seq(Blocks)]
      /\ num_cached_block \in [Requests -> Nat] /\ tokens \in [Requests -> Seq(Token)]
  BY <1>0, Types
<1>2. PICK old, n, t, g, base, table, fresh, start, full :
        /\ old = req_to_blocks[r] /\ n = NumNewBlocks(r, computed, new, hits)
        /\ t = touch(pool, hits) /\ g = get_new_blocks(t, n)
        /\ base = old \o hits /\ table = WithNewBlocks(base, t, n)
        /\ fresh = ToSet(Prefix(t.free, n))
        /\ start = num_cached_block[r] + Len(hits) /\ full = FullBlocks(r, computed, new)
  OBVIOUS
<1>3. old \in Seq(Blocks) /\ IsInjective(old)
  BY <1>0, <1>1, <1>2 DEF TableInv, Tables
<1>4. /\ IsInjective(hits) /\ ToSet(old) \cap ToSet(hits) = {}
  BY <1>2 DEF Ready
<1>5. \A b \in ToSet(old) : pool.ref_cnt[b] >= 1
  BY <1>0, <1>1, <1>2, HeldIsCounted DEF PoolInv
<1>6. n \in Nat /\ n + Cardinality({i \in DOMAIN hits : pool.ref_cnt[hits[i]] = 0}) <= Len(pool.free)
  BY <1>0, <1>2, EnoughBlocks
<1>7. FreeExact(pool) /\ HashExact(pool)
  BY <1>0 DEF PoolInv
<1>8. /\ g \in Pools /\ FreeExact(g) /\ HashExact(g)
      /\ base \in Seq(Blocks) /\ Len(base) = Len(old) + Len(hits)
      /\ ToSet(base) = ToSet(old) \cup ToSet(hits)
      /\ table \in Seq(Blocks) /\ Len(table) = Len(base) + n /\ IsInjective(table)
      /\ ToSet(table) = ToSet(base) \cup fresh /\ ToSet(base) \cap fresh = {}
      /\ \A j \in 1 .. Len(base) : table[j] = base[j]
      /\ \A j \in 1 .. Len(table) : j > Len(base) => table[j] \in fresh
      /\ fresh \subseteq {b \in Blocks \ {NullBlock} : pool.ref_cnt[b] = 0}
      /\ \A b \in Blocks :
           /\ g.ref_cnt[b] = IF b \in ToSet(table) /\ b \notin ToSet(old)
                             THEN pool.ref_cnt[b] + 1 ELSE pool.ref_cnt[b]
           /\ g.block_hash[b] = IF b \in fresh THEN NoHash ELSE pool.block_hash[b]
  <2>1. AllocatedPool(pool, old, hits, n, t, base, table, fresh, g)
    BY <1>1, <1>2, <1>3, <1>4, <1>5, <1>6, <1>7, AllocatePool
  <2> QED
    BY <2>1 DEF AllocatedPool
<1>9. Len(table) \in Nat /\ Len(base) \in Nat /\ Len(base) <= Len(table)
  BY <1>6, <1>8
<1>10. Len(table) = Len(req_to_blocks[r]) + Len(hits) + NumNewBlocks(r, computed, new, hits)
  BY <1>2, <1>8
<1>11. /\ full \in Nat /\ full <= Len(table)
       /\ full * BlockSize <= computed + new /\ full * BlockSize <= Len(tokens[r])
       /\ computed + new <= Len(table) * BlockSize
  BY <1>0, <1>2, <1>9, <1>10, AllocNumbers
<1>12. /\ req_to_blocks' = [req_to_blocks EXCEPT ![r] = table]
       /\ pool' = cache_full_blocks(g, req_to_blocks'[r], tokens[r], start, full)
       /\ num_cached_block' = [num_cached_block EXCEPT ![r] = Max({start, full})]
  BY <1>2 DEF Allocated, AllocateSlots, cache_blocks
<1>13. req_to_blocks'[r] = table
  BY <1>1, <1>12
<1>14. pool' = cache_full_blocks(g, table, tokens[r], start, full)
  BY <1>12, <1>13
<1>15. fresh = ToSet(table) \ (ToSet(req_to_blocks[r]) \cup ToSet(hits))
  BY <1>2, <1>8
<1>16. kv' = Written(kv, epoch, table, fresh, tokens[r] \o drafts, computed, new)
  BY <1>13, <1>15 DEF Allocated, WriteKV, Written
<1>17. AllocResult(r, computed, new, hits, drafts, base, table, fresh, g, start, full)
  BY <1>2, <1>8, <1>9, <1>11, <1>12, <1>14, <1>16 DEF AllocResult
<1> QED
  BY <1>17

\* The pool after cache_full_blocks at the end of allocate_slots, and the blocks of others.
PoolResult(r, base, table, fresh, g, start, full, q) ==
  /\ q \in Pools /\ HashExact(q) /\ q.free = g.free /\ q.ref_cnt = g.ref_cnt
  /\ \A j \in 1 .. Len(table) : j > start => g.block_hash[table[j]] = NoHash
  /\ \A j \in start + 1 .. full : q.block_hash[table[j]] = Prefix(tokens[r], j * BlockSize)
  /\ \A b \in Blocks : (\A j \in start + 1 .. full : table[j] # b) =>
       q.block_hash[b] = g.block_hash[b]
  /\ \A s \in Requests \ {r} : \A b \in ToSet(req_to_blocks[s]) :
       /\ b \in Blocks /\ b \notin fresh /\ q.block_hash[b] = pool.block_hash[b]
       /\ b \in ToSet(table) => pool.block_hash[b] # NoHash

\* That is the pool allocate_slots leaves.
LEMMA AllocCache ==
  ASSUME CacheInv, NEW r \in Requests, NEW computed \in Nat, NEW new \in Nat,
         NEW hits \in Seq(Blocks), NEW drafts \in Seq(Token), Ready(r, computed, new, hits, drafts),
         NEW base, NEW table, NEW fresh, NEW g, NEW start, NEW full,
         AllocResult(r, computed, new, hits, drafts, base, table, fresh, g, start, full),
         NEW q, q = pool'
  PROVE  PoolResult(r, base, table, fresh, g, start, full, q)
<1>0. TypeOK /\ PoolInv /\ TableInv
  BY DEF CacheInv
<1>1. /\ pool \in Pools /\ req_to_blocks \in [Requests -> Seq(Blocks)]
      /\ num_cached_block \in [Requests -> Nat] /\ tokens \in [Requests -> Seq(Token)]
  BY <1>0, Types
<1>2. /\ base = req_to_blocks[r] \o hits
      /\ base \in Seq(Blocks) /\ table \in Seq(Blocks) /\ IsInjective(table)
      /\ ToSet(base) = ToSet(req_to_blocks[r]) \cup ToSet(hits)
      /\ ToSet(table) = ToSet(base) \cup fresh
      /\ \A j \in 1 .. Len(base) : table[j] = base[j]
      /\ \A j \in 1 .. Len(table) : j > Len(base) => table[j] \in fresh
      /\ fresh \subseteq {b \in Blocks \ {NullBlock} : pool.ref_cnt[b] = 0}
      /\ g \in Pools /\ HashExact(g)
      /\ \A b \in Blocks : g.block_hash[b] = IF b \in fresh THEN NoHash ELSE pool.block_hash[b]
      /\ start = num_cached_block[r] + Len(hits) /\ full \in Nat
      /\ full * BlockSize <= Len(tokens[r]) /\ full <= Len(table)
      /\ q = cache_full_blocks(g, table, tokens[r], start, full)
  BY DEF AllocResult
<1>3. Len(base) \in Nat /\ Len(table) \in Nat /\ start \in Nat
  BY <1>1, <1>2
<1>4. /\ \A j \in 1 .. Len(hits) : hits[j] # NullBlock /\ pool.block_hash[hits[j]] # NoHash
      /\ \A j \in 1 .. Len(base) : j > start => pool.block_hash[base[j]] = NoHash
  BY <1>2 DEF Ready
<1>5. ASSUME NEW j \in 1 .. Len(table), j > start
      PROVE  g.block_hash[table[j]] = NoHash
  <2>1. table[j] \in Blocks
    BY <1>2
  <2>2. CASE table[j] \in fresh
    BY <1>2, <2>1, <2>2
  <2>3. CASE table[j] \notin fresh
    <3>1. j \in 1 .. Len(base) /\ table[j] = base[j]
      BY <1>2, <1>3, <2>3
    <3>2. pool.block_hash[table[j]] = NoHash
      BY <1>4, <1>5, <3>1
    <3>3. g.block_hash[table[j]] = pool.block_hash[table[j]]
      BY <1>2, <2>1, <2>3
    <3> QED
      BY <3>2, <3>3
  <2> QED
    BY <2>2, <2>3
<1>6. \A j \in start + 1 .. full : j \in 1 .. Len(table) /\ j > start
  BY <1>2, <1>3
<1>7. /\ q \in Pools /\ HashExact(q) /\ q.free = g.free /\ q.ref_cnt = g.ref_cnt
      /\ \A j \in start + 1 .. full : q.block_hash[table[j]] = Prefix(tokens[r], j * BlockSize)
      /\ \A b \in Blocks : (\A j \in start + 1 .. full : table[j] # b) =>
           q.block_hash[b] = g.block_hash[b]
  <2>1. \A j \in start + 1 .. full : g.block_hash[table[j]] = NoHash
    BY <1>5, <1>6
  <2>2. tokens[r] \in Seq(Token)
    BY <1>1
  <2>3. CachedPool(g, table, tokens[r], start, full, q)
    BY <1>2, <1>3, <2>1, <2>2, CachePool
  <2> QED
    BY <2>3 DEF CachedPool
<1>8. ASSUME NEW s \in Requests \ {r}, NEW b \in ToSet(req_to_blocks[s])
      PROVE  /\ b \in Blocks /\ b \notin fresh /\ q.block_hash[b] = pool.block_hash[b]
             /\ b \in ToSet(table) => pool.block_hash[b] # NoHash
  <2>1. b \in Blocks /\ pool.ref_cnt[b] >= 1
    BY <1>0, <1>1, HeldIsCounted DEF PoolInv
  <2>2. b \notin fresh
    BY <1>2, <2>1
  <2>3. ASSUME b \in ToSet(table)
        PROVE  pool.block_hash[b] # NoHash
    <3>1. CASE b \in ToSet(req_to_blocks[r])
      BY <1>0, <3>1 DEF TableInv, Tables
    <3>2. CASE b \in ToSet(hits)
      <4>1. PICK j \in 1 .. Len(hits) : hits[j] = b
        BY <3>2, InToSet
      <4> QED
        BY <1>4, <4>1
    <3> QED
      BY <1>2, <2>2, <2>3, <3>1, <3>2
  <2>4. ASSUME NEW j \in start + 1 .. full, table[j] = b
        PROVE  FALSE
    <3>1. b \in ToSet(table)
      BY <1>2, <1>6, <2>4, InToSet
    <3>2. g.block_hash[b] = NoHash
      BY <1>5, <1>6, <2>4
    <3> QED
      BY <1>2, <2>1, <2>2, <2>3, <3>1, <3>2
  <2>5. q.block_hash[b] = g.block_hash[b]
    BY <1>7, <2>1, <2>4
  <2> QED
    BY <1>2, <2>1, <2>2, <2>3, <2>5
<1> QED
  BY <1>5, <1>7, <1>8 DEF PoolResult

\* allocate_slots keeps the pool's books and the tables.
LEMMA AllocTables ==
  ASSUME CacheInv, NEW r \in Requests, NEW computed \in Nat, NEW new \in Nat,
         NEW hits \in Seq(Blocks), NEW drafts \in Seq(Token), Ready(r, computed, new, hits, drafts),
         NEW base, NEW table, NEW fresh, NEW g, NEW start, NEW full,
         AllocResult(r, computed, new, hits, drafts, base, table, fresh, g, start, full)
  PROVE  PoolInv' /\ TableInv'
<1>0. TypeOK /\ PoolInv /\ TableInv
  BY DEF CacheInv
<1>1. /\ pool \in Pools /\ req_to_blocks \in [Requests -> Seq(Blocks)]
      /\ num_cached_block \in [Requests -> Nat] /\ tokens \in [Requests -> Seq(Token)]
  BY <1>0, Types
<1>2. PICK q, T, U, c : q = pool' /\ T = req_to_blocks /\ U = req_to_blocks' /\ c = num_cached_block'
  OBVIOUS
<1>3. PoolResult(r, base, table, fresh, g, start, full, q)
  BY <1>2, AllocCache
<1>4. /\ base \in Seq(Blocks) /\ table \in Seq(Blocks) /\ IsInjective(table)
      /\ ToSet(base) = ToSet(T[r]) \cup ToSet(hits)
      /\ ToSet(table) = ToSet(base) \cup fresh
      /\ fresh \subseteq {b \in Blocks \ {NullBlock} : pool.ref_cnt[b] = 0}
      /\ FreeExact(g)
      /\ \A b \in Blocks : g.ref_cnt[b] = IF b \in ToSet(table) /\ b \notin ToSet(T[r])
                                          THEN pool.ref_cnt[b] + 1 ELSE pool.ref_cnt[b]
      /\ start = num_cached_block[r] + Len(hits) /\ full \in Nat
      /\ U = [T EXCEPT ![r] = table]
      /\ c = [num_cached_block EXCEPT ![r] = Max({start, full})]
  BY <1>2 DEF AllocResult
<1>5. /\ q \in Pools /\ HashExact(q) /\ q.free = g.free /\ q.ref_cnt = g.ref_cnt
  BY <1>3 DEF PoolResult
<1>6. FreeExact(q)
  BY <1>4, <1>5 DEF FreeExact
<1>7. ToSet(T[r]) \subseteq ToSet(table)
  BY <1>4
<1>8. Counts(q, U)
  <2>1. Counts(pool, T)
    BY <1>0, <1>2 DEF PoolInv
  <2>2. \A b \in Blocks :
           q.ref_cnt[b] = IF b \in ToSet(table) /\ b \notin ToSet(T[r]) THEN pool.ref_cnt[b] + 1
                          ELSE IF b \in ToSet(T[r]) /\ b \notin ToSet(table) THEN pool.ref_cnt[b] - 1
                          ELSE pool.ref_cnt[b]
    BY <1>4, <1>5, <1>7
  <2>3. T \in [Requests -> Seq(Blocks)]
    BY <1>1, <1>2
  <2> QED
    BY <1>1, <1>4, <2>1, <2>2, <2>3, CountsStep
<1>9. PICK n : n = Max({start, full})
  OBVIOUS
<1>10. start \in Nat
  BY <1>1, <1>4
<1>11. n \in Nat /\ n >= start /\ n >= full
  <2>1. start \in Int /\ full \in Int
    BY <1>4, <1>10
  <2>2. n = IF start >= full THEN start ELSE full
    BY <1>9, <2>1, MaxOfTwo, Zenon
  <2> QED
    BY <1>4, <1>10, <2>2
<1>12. ASSUME NEW j \in 1 .. Len(table), j > n
       PROVE  q.block_hash[table[j]] = NoHash
  <2>0. Len(table) \in Nat /\ table[j] \in Blocks
    BY <1>4
  <2>1. j > start /\ \A i \in start + 1 .. full : i # j /\ i \in Nat
    BY <1>4, <1>10, <1>11, <1>12, <2>0
  <2>2. g.block_hash[table[j]] = NoHash
    BY <1>3, <2>1 DEF PoolResult
  <2>3. ASSUME NEW i \in start + 1 .. full, table[i] = table[j]
        PROVE  FALSE
    <3>1. full <= Len(table)
      BY DEF AllocResult
    <3>2. i \in 1 .. Len(table)
      BY <1>4, <1>10, <2>0, <3>1
    <3>3. i = j
      BY <1>4, <2>3, <3>2, InToSet
    <3> QED
      BY <2>1, <3>3
  <2> QED
    BY <1>3, <2>0, <2>2, <2>3 DEF PoolResult
<1>13. NullBlock \notin ToSet(table)
  <2>1. NullBlock \notin ToSet(T[r])
    BY <1>0, <1>2 DEF TableInv, Tables
  <2>2. NullBlock \notin ToSet(hits)
    <3>1. \A j \in 1 .. Len(hits) : hits[j] # NullBlock
      BY DEF Ready
    <3> QED
      BY <3>1, InToSet
  <2> QED
    BY <1>4, <2>1, <2>2
<1>14. Tables(q, U, c)
  <2>1. OthersKept(pool, q, T, r, table) /\ Unhashed(q, table, n)
    BY <1>2, <1>3, <1>12 DEF PoolResult, OthersKept, Unhashed
  <2>2. T \in [Requests -> Seq(Blocks)] /\ Tables(pool, T, num_cached_block)
    BY <1>0, <1>1, <1>2 DEF TableInv
  <2>3. c = [num_cached_block EXCEPT ![r] = n]
    BY <1>4, <1>9
  <2>4. table \in Seq(Blocks) /\ IsInjective(table) /\ U = [T EXCEPT ![r] = table]
    BY <1>4
  <2>5. n \in Nat /\ num_cached_block \in [Requests -> Nat]
    BY <1>1, <1>11
  <2> QED
    BY <1>13, <2>1, <2>2, <2>3, <2>4, <2>5, TablesStep
<1> QED
  BY <1>2, <1>5, <1>6, <1>8, <1>14 DEF PoolInv, TableInv

\* allocate_slots and the step keep what is cached and what other requests read.
LEMMA AllocSlots ==
  ASSUME CacheInv, NEW r \in Requests, NEW computed \in Nat, NEW new \in Nat,
         NEW hits \in Seq(Blocks), NEW drafts \in Seq(Token), Ready(r, computed, new, hits, drafts),
         NEW base, NEW table, NEW fresh, NEW g, NEW start, NEW full,
         AllocResult(r, computed, new, hits, drafts, base, table, fresh, g, start, full),
         Allocated(r, computed, new, hits, drafts)
  PROVE  HashedInv' /\ ReadInv'
<1>0. TypeOK /\ HashedInv /\ RequestInv /\ ReadInv
  BY DEF CacheInv
<1>1. /\ req_to_blocks \in [Requests -> Seq(Blocks)] /\ num_cached_block \in [Requests -> Nat]
      /\ tokens \in [Requests -> Seq(Token)]
      /\ step \in [Requests -> [new : 0 .. config.max_len, drafts : Seq(Token)]]
      /\ num_computed_tokens \in [Requests -> 0 .. config.max_len]
  BY <1>0, Types
<1>b. BlockSize \in Nat \ {0}
  BY KVAssumption
<1>2. PICK q, k, k2, e, toks : /\ q = pool' /\ k = kv /\ k2 = kv' /\ e = epoch
                               /\ toks = tokens[r] \o drafts
  OBVIOUS
<1>3. PoolResult(r, base, table, fresh, g, start, full, q)
  BY <1>2, AllocCache
<1>4. /\ base = req_to_blocks[r] \o hits
      /\ base \in Seq(Blocks) /\ table \in Seq(Blocks) /\ IsInjective(table)
      /\ Len(base) <= Len(table) /\ \A j \in 1 .. Len(base) : table[j] = base[j]
      /\ ToSet(base) \cap fresh = {} /\ \A j \in 1 .. Len(table) : j > Len(base) => table[j] \in fresh
      /\ \A b \in Blocks : g.block_hash[b] = IF b \in fresh THEN NoHash ELSE pool.block_hash[b]
      /\ start = num_cached_block[r] + Len(hits) /\ full \in Nat
      /\ full * BlockSize <= computed + new /\ full * BlockSize <= Len(tokens[r])
      /\ full <= Len(table) /\ computed + new <= Len(table) * BlockSize
      /\ req_to_blocks' = [req_to_blocks EXCEPT ![r] = table]
      /\ k2 = Written(k, e, table, fresh, toks, computed, new)
  BY <1>2 DEF AllocResult
<1>5. /\ computed <= Len(base) * BlockSize /\ Readable(k, e, base, toks, computed)
      /\ start * BlockSize <= computed
      /\ \A j \in 1 .. Len(base) : j > start => pool.block_hash[base[j]] = NoHash
  BY <1>2, <1>4 DEF Ready
<1>6. start \in Nat /\ Len(base) \in Nat /\ Len(table) \in Nat
  <2>1. base \in Seq(Blocks) /\ table \in Seq(Blocks) /\ start = num_cached_block[r] + Len(hits)
    BY <1>4
  <2>2. num_cached_block[r] \in Nat /\ Len(hits) \in Nat
    BY <1>1
  <2> QED
    BY <2>1, <2>2
<1>7. ASSUME NEW j \in 1 .. Len(base), pool.block_hash[base[j]] # NoHash
      PROVE  j * BlockSize <= computed
  <2>1. j \in Nat /\ j <= start
    BY <1>5, <1>6, <1>7
  <2>2. j * BlockSize <= start * BlockSize /\ j * BlockSize \in Nat /\ start * BlockSize \in Nat
    BY <1>b, <1>6, <2>1, TimesOrder
  <2> QED
    BY <1>5, <2>2
<1>8. WriteSetup(pool, k, e, base, table, fresh, toks, computed, new)
  BY <1>4, <1>5, <1>7 DEF WriteSetup
<1>9. Readable(k2, e, table, toks, computed + new) /\ SlotsKept(pool, k, k2, table, fresh)
  BY <1>4, <1>8, WriteHolds
<1>10. tokens[r] \in Seq(Token) /\ Len(tokens[r]) \in Nat
  BY <1>1
<1>11. HashedHold(k2, e, q)
  <2>1. HashedHold(k2, e, g)
    <3>1. SUFFICES ASSUME NEW b \in Blocks, g.block_hash[b] # NoHash, NEW i \in 1 .. BlockSize
                   PROVE  k2[b][i] = Entry(e, Prefix(g.block_hash[b], Len(g.block_hash[b]) - BlockSize + i))
      BY DEF HashedHold
    <3>2. b \notin fresh /\ g.block_hash[b] = pool.block_hash[b]
      BY <1>4, <3>1
    <3>3. k2[b][i] = k[b][i]
      BY <1>9, <3>1, <3>2 DEF SlotsKept
    <3>4. k[b][i] = Entry(e, Prefix(pool.block_hash[b], Len(pool.block_hash[b]) - BlockSize + i))
      BY <1>0, <1>2, <3>1, <3>2 DEF HashedInv, HashedHold
    <3> QED
      BY <3>2, <3>3, <3>4
  <2>2. PICK c : c = full * BlockSize
    OBVIOUS
  <2>3. c \in Nat /\ c <= computed + new /\ c <= Len(tokens[r]) /\ computed + new \in Nat
    <3>1. full \in Nat /\ full * BlockSize <= computed + new /\ full * BlockSize <= Len(tokens[r])
      BY DEF AllocResult
    <3>2. c <= computed + new /\ c <= Len(tokens[r])
      BY <2>2, <3>1, Zenon
    <3>3. c \in Nat
      BY <1>b, <2>2, <3>1
    <3>4. computed + new \in Nat
      OBVIOUS
    <3> QED
      BY <3>2, <3>3, <3>4
  <2>4. Readable(k2, e, table, tokens[r], c)
    <3>1. \A n \in 1 .. c : n \in 0 .. Len(tokens[r])
      BY <1>10, <2>3
    <3>2. \A n \in 1 .. c : Prefix(toks, n) = Prefix(tokens[r], n)
      BY <1>2, <1>10, <3>1, PrefixOfConcat
    <3>3. PICK m : m = computed + new
      OBVIOUS
    <3>4. m \in Nat /\ c \in Nat /\ c <= m /\ Readable(k2, e, table, toks, m)
      BY <1>9, <2>3, <3>3
    <3>5. table \in Seq(Blocks)
      BY <1>4
    <3> QED
      BY <3>2, <3>4, <3>5, ReadableShorter
  <2>5. HashesAdded(g, q, table, tokens[r], start, full)
    BY <1>3 DEF PoolResult, HashesAdded
  <2>6. full * BlockSize <= c /\ full * BlockSize <= Len(tokens[r])
    <3>1. c <= c
      BY <2>3
    <3> QED
      BY <2>2, <2>3, <3>1, Zenon
  <2>7. table \in Seq(Blocks) /\ full \in Nat /\ full <= Len(table) /\ start \in Nat /\ c \in Nat
    BY <1>4, <1>6, <2>3
  <2>8. tokens[r] \in Seq(Token)
    BY <1>10
  <2> QED
    BY <2>1, <2>4, <2>5, <2>6, <2>7, <2>8, CacheHolds
<1>12. epoch' = e /\ tokens' = tokens
  BY <1>2 DEF Allocated
<1>13. ASSUME NEW s \in Requests
       PROVE  Readable(k2, e, req_to_blocks'[s], tokens[s] \o step'[s].drafts, num_computed_tokens'[s])
  <2>1. CASE s = r
    <3>1. /\ req_to_blocks'[s] = table /\ step'[s].drafts = drafts
          /\ num_computed_tokens'[s] = computed + new
      BY <1>1, <1>4, <2>1 DEF Allocated
    <3> QED
      BY <1>2, <1>9, <2>1, <3>1
  <2>2. CASE s # r
    <3>1. /\ req_to_blocks'[s] = req_to_blocks[s] /\ step'[s] = step[s]
          /\ num_computed_tokens'[s] = num_computed_tokens[s]
      BY <1>1, <1>4, <2>2 DEF Allocated
    <3>2. Readable(k, e, req_to_blocks[s], tokens[s] \o step[s].drafts, num_computed_tokens[s])
      BY <1>0, <1>2 DEF ReadInv
    <3>3. ASSUME NEW j \in 1 .. Len(req_to_blocks[s]), NEW i \in 1 .. BlockSize
          PROVE  k2[req_to_blocks[s][j]][i] = k[req_to_blocks[s][j]][i]
      <4>1. PICK b : b = req_to_blocks[s][j]
        OBVIOUS
      <4>2. b \in ToSet(req_to_blocks[s]) /\ s \in Requests \ {r}
        BY <1>1, <2>2, <4>1, InToSet
      <4>3. b \in Blocks /\ b \notin fresh /\ (b \in ToSet(table) => pool.block_hash[b] # NoHash)
        BY <1>3, <4>2 DEF PoolResult
      <4>4. k2[b][i] = k[b][i]
        BY <1>9, <4>3 DEF SlotsKept
      <4> QED
        BY <4>1, <4>4
    <3>4. Readable(k2, e, req_to_blocks[s], tokens[s] \o step[s].drafts, num_computed_tokens[s])
      BY <3>2, <3>3 DEF Readable
    <3> QED
      BY <3>1, <3>4
  <2> QED
    BY <2>1, <2>2
<1>14. ReadInv'
  <2>1. \A s \in Requests :
          Readable(kv', epoch', req_to_blocks'[s], tokens'[s] \o step'[s].drafts, num_computed_tokens'[s])
    BY <1>2, <1>12, <1>13
  <2> QED
    BY <2>1 DEF ReadInv, Readable, Position, Entry, Prefix
<1>15. HashedInv'
  <2>1. HashedHold(kv', epoch', pool')
    BY <1>2, <1>11, <1>12
  <2> QED
    BY <2>1 DEF HashedInv
<1> QED
  BY <1>14, <1>15

-----------------------------------------------------------------------------
(* One request changes.                                                    *)

\* A step gives the variables of request r these values.
Becomes(r, tb, n, t, c, st, s) ==
  /\ req_to_blocks' = [req_to_blocks EXCEPT ![r] = tb]
  /\ num_cached_block' = [num_cached_block EXCEPT ![r] = n]
  /\ tokens' = [tokens EXCEPT ![r] = t]
  /\ num_computed_tokens' = [num_computed_tokens EXCEPT ![r] = c]
  /\ status' = [status EXCEPT ![r] = st]
  /\ step' = [step EXCEPT ![r] = s]
  /\ config' = config

\* The counters of the other requests are as they were.
LEMMA RequestsStep ==
  ASSUME TypeOK, RequestInv, NEW r \in Requests,
         NEW tb, NEW n, NEW t, NEW c, NEW st, NEW s, Becomes(r, tb, n, t, c, st, s),
         RequestOK(tb, n, t, c, st, s, config.max_len)
  PROVE  RequestInv'
<1>1. ASSUME NEW o \in Requests
      PROVE  RequestOK(req_to_blocks'[o], num_cached_block'[o], tokens'[o],
                       num_computed_tokens'[o], status'[o], step'[o], config'.max_len)
  <2>1. /\ req_to_blocks \in [Requests -> Seq(Blocks)] /\ num_cached_block \in [Requests -> Nat]
        /\ tokens \in [Requests -> Seq(Token)]
        /\ num_computed_tokens \in [Requests -> 0 .. config.max_len]
        /\ status \in [Requests -> {"waiting", "running"}]
        /\ step \in [Requests -> [new : 0 .. config.max_len, drafts : Seq(Token)]]
    BY Types
  <2>2. CASE o = r
    <3>1. /\ req_to_blocks'[o] = tb /\ num_cached_block'[o] = n /\ tokens'[o] = t
          /\ num_computed_tokens'[o] = c /\ status'[o] = st /\ step'[o] = s /\ config' = config
      BY <2>1, <2>2 DEF Becomes
    <3> QED
      BY <3>1
  <2>3. CASE o # r
    <3>1. /\ req_to_blocks'[o] = req_to_blocks[o] /\ num_cached_block'[o] = num_cached_block[o]
          /\ tokens'[o] = tokens[o] /\ num_computed_tokens'[o] = num_computed_tokens[o]
          /\ status'[o] = status[o] /\ step'[o] = step[o] /\ config' = config
      BY <2>1, <2>3 DEF Becomes
    <3>2. RequestOK(req_to_blocks[o], num_cached_block[o], tokens[o],
                    num_computed_tokens[o], status[o], step[o], config.max_len)
      BY DEF RequestInv
    <3> QED
      BY <3>1, <3>2
  <2> QED
    BY <2>2, <2>3
<1> QED
  BY <1>1 DEF RequestInv, RequestOK, Idle

\* So are their types.
LEMMA TypesStep ==
  ASSUME TypeOK, NEW r \in Requests, NEW tb \in Seq(Blocks), NEW n \in Nat, NEW t \in Seq(Token),
         NEW c \in 0 .. config.max_len, NEW st \in {"waiting", "running"},
         NEW s \in [new : 0 .. config.max_len, drafts : Seq(Token)], Becomes(r, tb, n, t, c, st, s),
         pool' \in Pools, epoch' = epoch
  PROVE  TypeOK'
<1>1. /\ req_to_blocks \in [Requests -> Seq(Blocks)] /\ num_cached_block \in [Requests -> Nat]
      /\ tokens \in [Requests -> Seq(Token)]
      /\ num_computed_tokens \in [Requests -> 0 .. config.max_len]
      /\ status \in [Requests -> {"waiting", "running"}]
      /\ step \in [Requests -> [new : 0 .. config.max_len, drafts : Seq(Token)]]
      /\ config \in Configs /\ epoch \in 0 .. config.max_epoch
  BY Types
<1>2. /\ req_to_blocks' \in [Requests -> Seq(Blocks)] /\ num_cached_block' \in [Requests -> Nat]
      /\ tokens' \in [Requests -> Seq(Token)]
  BY <1>1 DEF Becomes
<1>3. /\ num_computed_tokens' \in [Requests -> 0 .. config.max_len]
      /\ status' \in [Requests -> {"waiting", "running"}]
      /\ config' = config
  BY <1>1 DEF Becomes
<1>4. step' \in [Requests -> [new : 0 .. config.max_len, drafts : Seq(Token)]]
  BY <1>1 DEF Becomes
<1>5. pool' \in [ref_cnt : [Blocks -> Nat], block_hash : [Blocks -> Seq(Token)],
                 free : Seq(Blocks), cached : Seq(Seq(Token) \X Blocks)]
  BY DEF Pools, Entries
<1> QED
  BY <1>1, <1>2, <1>3, <1>4, <1>5 DEF TypeOK, MaxLen, Blocks

\* allocate_slots keeps the counters in bounds.
LEMMA AllocRequests ==
  ASSUME CacheInv, NEW r \in Requests, NEW computed \in Nat, NEW new \in Nat,
         NEW hits \in Seq(Blocks), NEW drafts \in Seq(Token), Ready(r, computed, new, hits, drafts),
         NEW base, NEW table, NEW fresh, NEW g, NEW start, NEW full,
         AllocResult(r, computed, new, hits, drafts, base, table, fresh, g, start, full),
         Allocated(r, computed, new, hits, drafts)
  PROVE  TypeOK' /\ RequestInv'
<1>0. TypeOK /\ RequestInv
  BY DEF CacheInv
<1>1. /\ num_cached_block[r] \in Nat /\ tokens \in [Requests -> Seq(Token)]
      /\ tokens[r] \in Seq(Token) /\ config.max_len \in Nat
  BY <1>0, Types
<1>b. BlockSize \in Nat \ {0} /\ Len(tokens[r]) \in Nat /\ Len(drafts) \in Nat
  BY <1>1, KVAssumption
<1>2. /\ table \in Seq(Blocks)
      /\ start = num_cached_block[r] + Len(hits) /\ full \in Nat
      /\ full * BlockSize <= computed + new /\ full * BlockSize <= Len(tokens[r])
      /\ computed + new <= Len(table) * BlockSize
      /\ req_to_blocks' = [req_to_blocks EXCEPT ![r] = table]
      /\ num_cached_block' = [num_cached_block EXCEPT ![r] = Max({start, full})]
  BY DEF AllocResult
<1>3. /\ start * BlockSize <= computed /\ start * BlockSize <= Len(tokens[r])
      /\ computed + new <= Len(tokens[r]) + Len(drafts)
      /\ drafts # << >> => computed + new = Len(tokens[r]) + Len(drafts)
      /\ Len(tokens[r]) + Len(drafts) < config.max_len
  BY <1>2 DEF Ready
<1>4. start \in Nat
  BY <1>1, <1>2
<1>5. PICK n, s : n = Max({start, full}) /\ s = [new |-> new, drafts |-> drafts]
  OBVIOUS
<1>6. n = start \/ n = full
  <2>1. start \in Int /\ full \in Int
    BY <1>2, <1>4
  <2>2. n = IF start >= full THEN start ELSE full
    BY <1>5, <2>1, MaxOfTwo, Zenon
  <2> QED
    BY <2>2, Zenon
<1>7. n \in Nat
  BY <1>2, <1>4, <1>6
<1>8. n * BlockSize <= computed + new /\ n * BlockSize <= Len(tokens[r])
  <2>1. start * BlockSize <= computed + new
    <3>1. PICK x : x = start * BlockSize
      OBVIOUS
    <3>2. x \in Nat /\ x <= computed
      BY <1>b, <1>3, <1>4, <3>1
    <3>3. x <= computed + new
      BY <3>2
    <3> QED
      BY <3>1, <3>3
  <2> QED
    BY <1>2, <1>3, <1>6, <2>1, Zenon
<1>9. computed + new \in 0 .. config.max_len /\ new \in 0 .. config.max_len
  BY <1>1, <1>b, <1>3
<1>10. s \in [new : 0 .. config.max_len, drafts : Seq(Token)] /\ s.drafts = drafts
  BY <1>5, <1>9
<1>11. tokens' = [tokens EXCEPT ![r] = tokens[r]]
  BY <1>1 DEF Allocated
<1>12. Becomes(r, table, n, tokens[r], computed + new, "running", s)
  BY <1>2, <1>5, <1>11 DEF Allocated, Becomes
<1>13. Len(tokens[r]) \in 1 .. config.max_len
  BY <1>0 DEF RequestInv, RequestOK
<1>14. RequestOK(table, n, tokens[r], computed + new, "running", s, config.max_len)
  BY <1>2, <1>3, <1>8, <1>10, <1>13 DEF RequestOK
<1>15. pool' \in Pools
  <2>1. PICK q : q = pool'
    OBVIOUS
  <2>2. PoolResult(r, base, table, fresh, g, start, full, q)
    BY <2>1, AllocCache
  <2> QED
    BY <2>1, <2>2 DEF PoolResult
<1>16. epoch' = epoch
  BY DEF Allocated
<1>17. TypeOK'
  BY <1>0, <1>1, <1>2, <1>7, <1>9, <1>10, <1>12, <1>15, <1>16, TypesStep
<1>18. RequestInv'
  BY <1>0, <1>12, <1>14, RequestsStep
<1> QED
  BY <1>17, <1>18

\* allocate_slots and the step keep the invariant.
LEMMA AllocateStep ==
  ASSUME CacheInv, NEW r \in Requests, NEW computed \in Nat, NEW new \in Nat,
         NEW hits \in Seq(Blocks), NEW drafts \in Seq(Token), NEW hasScheduled,
         CanAllocate(r, computed, new, hits, hasScheduled), Ready(r, computed, new, hits, drafts),
         Allocated(r, computed, new, hits, drafts)
  PROVE  CacheInv'
<1>1. PICK base, table, fresh, g, start, full :
        AllocResult(r, computed, new, hits, drafts, base, table, fresh, g, start, full)
  BY AllocFacts
<1>2. PoolInv' /\ TableInv'
  BY <1>1, AllocTables
<1>3. HashedInv' /\ ReadInv'
  BY <1>1, AllocSlots
<1>4. TypeOK' /\ RequestInv'
  BY <1>1, AllocRequests
<1> QED
  BY <1>2, <1>3, <1>4 DEF CacheInv

-----------------------------------------------------------------------------
(* The actions keep the invariant.                                         *)

\* Sequences with nothing before or behind them.
LEMMA EmptyConcat ==
  ASSUME NEW S, NEW s \in Seq(S)
  PROVE  << >> \o s = s /\ s \o << >> = s /\ << >> \in Seq(S) /\ Len(<< >>) = 0
OBVIOUS

\* A lookup for a waiting request finds blocks that can be read and leave a token to compute.
LEMMA Lookup ==
  ASSUME CacheInv, NEW r \in Requests, status[r] = "waiting", NEW hits, hits = get_computed_blocks(r)
  PROVE  /\ hits \in Seq(Blocks) /\ IsInjective(hits)
         /\ Len(hits) \in Nat /\ Len(hits) * BlockSize \in Nat
         /\ Len(hits) * BlockSize <= Len(tokens[r]) - 1
         /\ \A j \in 1 .. Len(hits) : hits[j] # NullBlock /\ pool.block_hash[hits[j]] # NoHash
         /\ Readable(kv, epoch, hits, tokens[r], Len(hits) * BlockSize)
<1>0. TypeOK /\ PoolInv /\ HashedInv /\ RequestInv
  BY DEF CacheInv
<1>1. pool \in Pools /\ tokens[r] \in Seq(Token) /\ BlockSize \in Nat \ {0}
  BY <1>0, Types, KVAssumption
<1>2. Len(tokens[r]) \in 1 .. config.max_len /\ config.max_len \in Nat
  BY <1>0, Types DEF RequestInv, RequestOK
<1>3. PICK m \in Nat : m = Len(tokens[r]) - 1
  BY <1>2
<1>4. m \in 0 .. Len(tokens[r])
  BY <1>2, <1>3
<1>5. hits = find_longest_cache_hit(pool, tokens[r], m)
  BY <1>3 DEF get_computed_blocks
<1>6. HashExact(pool)
  BY <1>0 DEF PoolInv
<1>7. /\ hits \in Seq(Blocks) /\ IsInjective(hits)
      /\ Len(hits) * BlockSize <= m
      /\ \A i \in 1 .. Len(hits) :
           /\ hits[i] # NullBlock
           /\ pool.block_hash[hits[i]] = Prefix(tokens[r], i * BlockSize)
           /\ pool.block_hash[hits[i]] # NoHash
  BY <1>1, <1>4, <1>5, <1>6, LongestHit
<1>8. Len(hits) \in Nat
  BY <1>7
<1>9. PICK x : x = Len(hits) * BlockSize
  OBVIOUS
<1>10. x \in Nat
  BY <1>1, <1>8, <1>9
<1>11. x <= Len(tokens[r])
  BY <1>2, <1>3, <1>7, <1>9, <1>10
<1>12. HashedHold(kv, epoch, pool)
  BY <1>0 DEF HashedInv
<1>13. Readable(kv, epoch, hits, tokens[r], Len(hits) * BlockSize)
  BY <1>1, <1>7, <1>9, <1>11, <1>12, HitReadable
<1> QED
  BY <1>3, <1>7, <1>8, <1>9, <1>10, <1>13

\* Admission keeps the invariant.
LEMMA AdmitKeeps ==
  ASSUME CacheInv, NEW r \in Requests, NEW new \in 1 .. MaxLen, NEW b \in BOOLEAN, Admit(r, new, b)
  PROVE  CacheInv'
<1>0. TypeOK /\ RequestInv
  BY DEF CacheInv
<1>1. PICK hits, computed : hits = get_computed_blocks(r) /\ computed = Len(hits) * BlockSize
  OBVIOUS
<1>2. /\ status[r] = "waiting"
      /\ new \in 1 .. Len(tokens[r]) - computed
      /\ CanAllocate(r, computed, new, hits, b)
      /\ AllocateSlots(r, computed, new, hits)
      /\ WriteKV(r, hits, computed, new, << >>)
      /\ status' = [status EXCEPT ![r] = "running"]
      /\ num_computed_tokens' = [num_computed_tokens EXCEPT ![r] = computed + new]
      /\ step' = [step EXCEPT ![r] = [new |-> new, drafts |-> << >>]]
      /\ UNCHANGED <<config, tokens, epoch>>
  BY <1>1 DEF Admit
<1>3. Allocated(r, computed, new, hits, << >>)
  BY <1>2 DEF Allocated
<1>4. /\ hits \in Seq(Blocks) /\ IsInjective(hits)
      /\ Len(hits) \in Nat /\ computed \in Nat /\ computed <= Len(tokens[r]) - 1
      /\ \A j \in 1 .. Len(hits) : hits[j] # NullBlock /\ pool.block_hash[hits[j]] # NoHash
      /\ Readable(kv, epoch, hits, tokens[r], computed)
  BY <1>1, <1>2, Lookup
<1>5. /\ tokens[r] \in Seq(Token) /\ Len(tokens[r]) \in Nat /\ config.max_len \in Nat
      /\ req_to_blocks[r] = << >> /\ num_cached_block[r] = 0 /\ Len(tokens[r]) < config.max_len
  <2>1. tokens[r] \in Seq(Token) /\ config.max_len \in Nat
    BY <1>0, Types
  <2>2. req_to_blocks[r] = << >> /\ num_cached_block[r] = 0 /\ Len(tokens[r]) < config.max_len
    BY <1>0, <1>2 DEF RequestInv, RequestOK
  <2> QED
    BY <2>1, <2>2
<1>6. new \in Nat /\ computed + new <= Len(tokens[r])
  BY <1>2, <1>4, <1>5
<1>7. Ready(r, computed, new, hits, << >>)
  <2>1. PICK base, start : base = req_to_blocks[r] \o hits /\ start = num_cached_block[r] + Len(hits)
    OBVIOUS
  <2>2. base = hits /\ start = Len(hits)
    BY <1>4, <1>5, <2>1, EmptyConcat
  <2>3. tokens[r] \o << >> = tokens[r] /\ Len(<< >>) = 0
    BY <1>5, EmptyConcat
  <2>4. ToSet(req_to_blocks[r]) \cap ToSet(hits) = {}
    BY <1>5 DEF ToSet
  <2>5. \A j \in 1 .. Len(base) : j > start => pool.block_hash[base[j]] = NoHash
    BY <1>4, <2>2
  <2>6. /\ computed <= Len(base) * BlockSize /\ start * BlockSize <= computed
        /\ start * BlockSize <= Len(tokens[r])
    <3>1. computed <= computed /\ computed <= Len(tokens[r])
      BY <1>4, <1>5
    <3> QED
      BY <1>1, <2>2, <3>1, Zenon
  <2>7. Readable(kv, epoch, base, tokens[r] \o << >>, computed)
    BY <1>4, <2>2, <2>3
  <2>8. computed + new <= Len(tokens[r]) + Len(<< >>) /\ Len(tokens[r]) + Len(<< >>) < config.max_len
    BY <1>5, <1>6, <2>3
  <2> QED
    BY <1>4, <2>1, <2>4, <2>5, <2>6, <2>7, <2>8 DEF Ready
<1>8. << >> \in Seq(Token)
  OBVIOUS
<1> QED
  BY <1>2, <1>3, <1>4, <1>6, <1>7, <1>8, AllocateStep

\* A step of a running request keeps the invariant.
LEMMA ScheduleKeeps ==
  ASSUME CacheInv, NEW r \in Requests, NEW new \in 1 .. MaxLen, NEW drafts \in Seq(Token),
         Schedule(r, new, drafts)
  PROVE  CacheInv'
<1>0. TypeOK /\ TableInv /\ RequestInv /\ ReadInv
  BY DEF CacheInv
<1>1. PICK computed : computed = num_computed_tokens[r]
  OBVIOUS
<1>2. /\ status[r] = "running" /\ step[r] = Idle
      /\ IF drafts = << >> THEN new \in 1 .. Len(tokens[r]) - computed
         ELSE Len(tokens[r]) - computed = 1 /\ new = 1 + Len(drafts)
      /\ Len(tokens[r]) + Len(drafts) < config.max_len
      /\ CanAllocate(r, computed, new, << >>, TRUE)
      /\ AllocateSlots(r, computed, new, << >>)
      /\ WriteKV(r, << >>, computed, new, drafts)
      /\ num_computed_tokens' = [num_computed_tokens EXCEPT ![r] = computed + new]
      /\ step' = [step EXCEPT ![r] = [new |-> new, drafts |-> drafts]]
      /\ UNCHANGED <<config, tokens, status, epoch>>
  BY <1>1 DEF Schedule, MaxLen
<1>3. /\ status \in [Requests -> {"waiting", "running"}] /\ config.max_len \in Nat
      /\ tokens[r] \in Seq(Token) /\ Len(tokens[r]) \in Nat /\ Len(drafts) \in Nat
      /\ req_to_blocks[r] \in Seq(Blocks) /\ num_cached_block[r] \in Nat /\ computed \in Nat
  <2>1. num_computed_tokens[r] \in 0 .. config.max_len
    BY <1>0, Types
  <2>2. computed \in Nat
    BY <1>1, <2>1
  <2>3. /\ status \in [Requests -> {"waiting", "running"}] /\ config.max_len \in Nat
        /\ tokens[r] \in Seq(Token) /\ req_to_blocks[r] \in Seq(Blocks) /\ num_cached_block[r] \in Nat
    BY <1>0, Types
  <2> QED
    BY <2>2, <2>3
<1>4. status' = [status EXCEPT ![r] = "running"]
  BY <1>2, <1>3
<1>5. Allocated(r, computed, new, << >>, drafts)
  BY <1>2, <1>4 DEF Allocated
<1>6. new \in Nat
  BY <1>0, Types DEF MaxLen
<1>7. /\ computed + new <= Len(tokens[r]) + Len(drafts)
      /\ drafts # << >> => computed + new = Len(tokens[r]) + Len(drafts)
  <2>1. CASE drafts = << >>
    BY <1>2, <1>3, <1>6, <2>1
  <2>2. CASE drafts # << >>
    <3>1. Len(tokens[r]) - computed = 1 /\ new = 1 + Len(drafts)
      BY <1>2, <2>2, Zenon
    <3>2. PICK x, y : x = Len(tokens[r]) /\ y = Len(drafts)
      OBVIOUS
    <3>3. x \in Nat /\ y \in Nat /\ computed \in Nat /\ x - computed = 1 /\ new = 1 + y
      BY <1>3, <3>1, <3>2
    <3>4. computed + new = x + y /\ computed + new <= x + y
      BY <3>3
    <3> QED
      BY <3>2, <3>4
  <2> QED
    BY <2>1, <2>2
<1>8. << >> \in Seq(Blocks) /\ << >> \in Seq(Token)
  OBVIOUS
<1>9. Ready(r, computed, new, << >>, drafts)
  <2>1. PICK base, start : base = req_to_blocks[r] \o << >> /\ start = num_cached_block[r] + Len(<< >>)
    OBVIOUS
  <2>2. base = req_to_blocks[r] /\ start = num_cached_block[r]
    BY <1>3, <2>1, EmptyConcat
  <2>3. /\ ToSet(req_to_blocks[r]) \cap ToSet(<< >>) = {} /\ IsInjective(<< >>)
        /\ \A j \in 1 .. Len(<< >>) : << >>[j] # NullBlock /\ pool.block_hash[<< >>[j]] # NoHash
    BY DEF ToSet, IsInjective
  <2>4. \A j \in 1 .. Len(base) : j > start => pool.block_hash[base[j]] = NoHash
    BY <1>0, <2>2 DEF TableInv, Tables
  <2>5. step[r].drafts = << >>
    BY <1>2 DEF Idle
  <2>6. /\ computed <= Len(tokens[r]) + Len(step[r].drafts) /\ computed <= Len(base) * BlockSize
        /\ start * BlockSize <= computed /\ start * BlockSize <= Len(tokens[r])
    BY <1>0, <1>1, <2>2 DEF RequestInv, RequestOK
  <2>7. computed <= Len(tokens[r])
    BY <1>3, <2>5, <2>6
  <2>8. Readable(kv, epoch, base, tokens[r] \o drafts, computed)
    <3>1. Readable(kv, epoch, base, tokens[r], computed)
      <4>1. Readable(kv, epoch, base, tokens[r] \o step[r].drafts, computed)
        BY <1>0, <1>1, <2>2 DEF ReadInv
      <4>2. tokens[r] \o step[r].drafts = tokens[r]
        BY <1>3, <2>5, EmptyConcat
      <4> QED
        BY <4>1, <4>2
    <3>2. \A n \in 1 .. computed : n \in 0 .. Len(tokens[r])
      BY <1>3, <2>7
    <3>3. PICK toks : toks = tokens[r] \o drafts
      OBVIOUS
    <3>4. \A n \in 1 .. computed : Prefix(tokens[r], n) = Prefix(toks, n)
      BY <1>3, <3>2, <3>3, PrefixOfConcat
    <3>5. computed <= computed /\ base \in Seq(Blocks)
      BY <1>3, <2>2
    <3>6. Readable(kv, epoch, base, toks, computed)
      BY <1>3, <3>1, <3>4, <3>5, ReadableShorter
    <3> QED
      BY <3>3, <3>6
  <2> QED
    BY <1>2, <1>7, <2>1, <2>3, <2>4, <2>6, <2>8 DEF Ready
<1> QED
  BY <1>2, <1>3, <1>5, <1>6, <1>8, <1>9, AllocateStep

\* Sequences that begin alike have the same prefixes.
LEMMA PrefixAgree ==
  ASSUME NEW u \in Seq(Token), NEW v \in Seq(Token), NEW n \in Nat, n <= Len(u), n <= Len(v),
         \A i \in 1 .. n : u[i] = v[i]
  PROVE  Prefix(u, n) = Prefix(v, n)
<1>1. n \in 0 .. Len(u) /\ n \in 0 .. Len(v)
  OBVIOUS
<1>2. Prefix(u, n) \in Seq(Token) /\ Len(Prefix(u, n)) = n /\ \A i \in 1 .. n : Prefix(u, n)[i] = u[i]
  BY <1>1, PrefixType
<1>3. Prefix(v, n) \in Seq(Token) /\ Len(Prefix(v, n)) = n /\ \A i \in 1 .. n : Prefix(v, n)[i] = v[i]
  BY <1>1, PrefixType
<1>4. \A i \in 1 .. n : Prefix(u, n)[i] = Prefix(v, n)[i]
  BY <1>2, <1>3
<1> QED
  BY <1>2, <1>3, <1>4, SeqEqual

\* Tokens behind tokens.
LEMMA TokenConcat ==
  ASSUME NEW u \in Seq(Token), NEW v \in Seq(Token), NEW w, w = u \o v
  PROVE  /\ w \in Seq(Token) /\ Len(w) = Len(u) + Len(v)
         /\ \A i \in 1 .. Len(u) + Len(v) : w[i] = IF i <= Len(u) THEN u[i] ELSE v[i - Len(u)]
BY ConcatProperties

\* Tokens t2 are t, the first a of the drafts d, and one more.
BeginAlike(t, d, a, t2) ==
  /\ t2 \in Seq(Token) /\ Len(t2) = Len(t) + a + 1
  /\ \A n \in 1 .. Len(t) + a : Prefix(t \o d, n) = Prefix(t2, n)

\* The known tokens behind the accepted drafts begin as the tokens of the step did.
LEMMA AcceptedTokens ==
  ASSUME NEW t \in Seq(Token), NEW d \in Seq(Token), NEW a \in 0 .. Len(d),
         NEW w \in Seq(Token), Len(w) = 1, NEW t2, t2 = t \o Prefix(d, a) \o w
  PROVE  BeginAlike(t, d, a, t2)
<1>0. Len(t) \in Nat /\ Len(d) \in Nat /\ a \in Nat /\ a <= Len(d)
  OBVIOUS
<1>1. PICK p, u, v : p = Prefix(d, a) /\ u = t \o p /\ v = t \o d
  OBVIOUS
<1>2. p \in Seq(Token) /\ Len(p) = a /\ \A i \in 1 .. a : p[i] = d[i]
  BY <1>1, PrefixType
<1>c. /\ u \in Seq(Token) /\ Len(u) = Len(t) + Len(p)
      /\ \A i \in 1 .. Len(t) + Len(p) : u[i] = IF i <= Len(t) THEN t[i] ELSE p[i - Len(t)]
  <2>1. u = t \o p
    BY <1>1
  <2>2. p \in Seq(Token)
    BY <1>2
  <2> QED
    BY <2>1, <2>2, TokenConcat
<1>3. /\ u \in Seq(Token) /\ Len(u) = Len(t) + a
      /\ \A i \in 1 .. Len(t) + a : u[i] = IF i <= Len(t) THEN t[i] ELSE p[i - Len(t)]
  BY <1>2, <1>c
<1>4. /\ v \in Seq(Token) /\ Len(v) = Len(t) + Len(d)
      /\ \A i \in 1 .. Len(t) + Len(d) : v[i] = IF i <= Len(t) THEN t[i] ELSE d[i - Len(t)]
  BY <1>1, TokenConcat
<1>6. t2 = u \o w
  BY <1>1
<1>7. t2 \in Seq(Token) /\ Len(t2) = Len(u) + Len(w)
  <2>1. u \in Seq(Token)
    BY <1>3
  <2> QED
    BY <1>6, <2>1, TokenConcat
<1>8. ASSUME NEW i \in 1 .. Len(t) + a
      PROVE  u[i] = v[i]
  <2>1. i \in 1 .. Len(t) + Len(d) /\ i \in Nat
    BY <1>0
  <2>2. CASE i <= Len(t)
    BY <1>3, <1>4, <2>1, <2>2
  <2>3. CASE i > Len(t)
    <3>1. PICK j : j = i - Len(t)
      OBVIOUS
    <3>2. j \in 1 .. a
      BY <1>0, <2>1, <2>3, <3>1
    <3>3. ~ (i <= Len(t))
      BY <1>0, <2>1, <2>3
    <3>4. u[i] = p[j] /\ v[i] = d[j]
      BY <1>3, <1>4, <2>1, <3>1, <3>3
    <3> QED
      BY <1>2, <3>2, <3>4
  <2> QED
    BY <1>0, <2>1, <2>2, <2>3
<1>9. ASSUME NEW n \in 1 .. Len(t) + a
      PROVE  Prefix(v, n) = Prefix(t2, n)
  <2>1. n \in 0 .. Len(u) /\ n \in Nat /\ n <= Len(u) /\ n <= Len(v)
    BY <1>0, <1>3, <1>4
  <2>2. \A i \in 1 .. n : i \in 1 .. Len(t) + a
    BY <1>0
  <2>3. Prefix(u, n) = Prefix(v, n)
    BY <1>3, <1>4, <1>8, <2>1, <2>2, PrefixAgree
  <2>4. Prefix(u \o w, n) = Prefix(u, n)
    BY <1>3, <2>1, PrefixOfConcat
  <2> QED
    BY <1>6, <2>3, <2>4
<1>10. Len(t2) = Len(t) + a + 1
  <2>1. Len(t2) = Len(u) + 1 /\ Len(u) = Len(t) + a
    BY <1>3, <1>7
  <2> QED
    BY <2>1
<1> QED
  BY <1>1, <1>7, <1>9, <1>10 DEF BeginAlike

\* The tokens and the count of computed ones after an output: all of those computed are known and
\* can be read.
Accepted(r, t2, c2) ==
  /\ t2 \in Seq(Token) /\ Len(t2) \in 1 .. config.max_len
  /\ c2 \in Nat /\ c2 <= Len(t2) /\ c2 <= num_computed_tokens[r]
  /\ num_cached_block[r] * BlockSize <= c2
  /\ tokens' = [tokens EXCEPT ![r] = t2]
  /\ num_computed_tokens' = [num_computed_tokens EXCEPT ![r] = c2]
  /\ Readable(kv, epoch, req_to_blocks[r], t2, c2)

\* An output does that: what is given back are the rejected drafts.
LEMMA OutputTokens ==
  ASSUME CacheInv, NEW r \in Requests, NEW accepted, NEW sampled \in Token, Output(r, accepted, sampled)
  PROVE  status[r] = "running" /\ \E t2, c2 : Accepted(r, t2, c2)
<1>0. TypeOK /\ RequestInv /\ ReadInv
  BY DEF CacheInv
<1>1. /\ tokens \in [Requests -> Seq(Token)] /\ config.max_len \in Nat
      /\ num_computed_tokens \in [Requests -> 0 .. config.max_len]
      /\ step[r] \in [new : 0 .. config.max_len, drafts : Seq(Token)]
      /\ req_to_blocks[r] \in Seq(Blocks) /\ num_cached_block[r] \in Nat
      /\ status \in [Requests -> {"waiting", "running"}] /\ BlockSize \in Nat \ {0}
  BY <1>0, Types, KVAssumption
<1>2. PICK t, c, d, tb, x : /\ t = tokens[r] /\ c = num_computed_tokens[r] /\ d = step[r].drafts
                            /\ tb = req_to_blocks[r] /\ x = num_cached_block[r] * BlockSize
  OBVIOUS
<1>3. /\ t \in Seq(Token) /\ c \in Nat /\ d \in Seq(Token) /\ tb \in Seq(Blocks) /\ x \in Nat
      /\ Len(t) \in Nat /\ Len(d) \in Nat
  BY <1>1, <1>2
<1>4. RequestOK(tb, num_cached_block[r], t, c, status[r], step[r], config.max_len)
  BY <1>0, <1>2 DEF RequestInv
<1>5. step[r] # Idle
  BY DEF Output
<1>6. /\ status[r] = "running" /\ Len(t) \in 1 .. config.max_len
      /\ Len(t) + Len(d) < config.max_len /\ c <= Len(t) + Len(d)
      /\ d # << >> => c = Len(t) + Len(d)
      /\ x <= c /\ x <= Len(t)
  BY <1>1, <1>2, <1>4, <1>5 DEF RequestOK
<1>7. /\ accepted \in 0 .. Len(d)
      /\ num_computed_tokens' = [num_computed_tokens EXCEPT ![r] = c - (Len(d) - accepted)]
      /\ tokens' = IF c >= Len(t) THEN [tokens EXCEPT ![r] = t \o Prefix(d, accepted) \o <<sampled>>]
                   ELSE tokens
  BY <1>2 DEF Output, num_rejected
<1>8. PICK c2 : c2 = c - (Len(d) - accepted)
  OBVIOUS
<1>9. accepted \in Nat /\ accepted <= Len(d)
  BY <1>3, <1>7
<1>10. Readable(kv, epoch, tb, t \o d, c)
  BY <1>0, <1>2 DEF ReadInv
<1>11. CASE c >= Len(t)
  <2>0. PICK w : w = <<sampled>>
    OBVIOUS
  <2>1. PICK t2 : t2 = t \o Prefix(d, accepted) \o w
    OBVIOUS
  <2>w. w \in Seq(Token) /\ Len(w) = 1
    BY <2>0
  <2>2. /\ t2 \in Seq(Token) /\ Len(t2) = Len(t) + accepted + 1
        /\ \A n \in 1 .. Len(t) + accepted : Prefix(t \o d, n) = Prefix(t2, n)
    <3>1. t \in Seq(Token) /\ d \in Seq(Token) /\ accepted \in 0 .. Len(d)
      BY <1>3, <1>7
    <3>2. BeginAlike(t, d, accepted, t2)
      BY <2>1, <2>w, <3>1, AcceptedTokens
    <3> QED
      BY <3>2 DEF BeginAlike
  <2>3. c = Len(t) + Len(d)
    <3>1. CASE d = << >>
      <4>1. Len(d) = 0
        BY <3>1
      <4> QED
        BY <1>3, <1>6, <1>11, <4>1
    <3> QED
      BY <1>6, <3>1
  <2>4. c2 = Len(t) + accepted /\ c2 \in Nat /\ c2 <= c
    BY <1>3, <1>8, <1>9, <2>3
  <2>5. Len(t2) \in 1 .. config.max_len /\ c2 <= Len(t2) /\ x <= c2
    <3>1. PICK l, m, n : l = Len(t) /\ m = Len(t2) /\ n = Len(d)
      OBVIOUS
    <3>2. /\ l \in Nat /\ n \in Nat /\ m = l + accepted + 1 /\ l + n < config.max_len
          /\ c2 = l + accepted /\ x <= l
      BY <1>3, <1>6, <2>2, <2>4, <3>1
    <3>3. accepted \in Nat /\ accepted <= n
      BY <1>9, <3>1
    <3>4. m \in 1 .. config.max_len /\ c2 <= m /\ x <= c2
      <4>1. PICK max : max = config.max_len
        OBVIOUS
      <4>2. max \in Nat /\ l + n < max /\ x \in Nat
        BY <1>1, <1>3, <3>2, <4>1
      <4>3. m \in 1 .. max /\ c2 <= m /\ x <= c2
        BY <3>2, <3>3, <4>2
      <4> QED
        BY <4>1, <4>3
    <3> QED
      BY <3>1, <3>4
  <2>6. Readable(kv, epoch, tb, t2, c2)
    BY <1>3, <1>10, <2>2, <2>4, ReadableShorter
  <2>7. tokens' = [tokens EXCEPT ![r] = t2] /\ num_computed_tokens' = [num_computed_tokens EXCEPT ![r] = c2]
    BY <1>7, <1>8, <1>11, <2>0, <2>1
  <2>8. Accepted(r, t2, c2)
    BY <1>2, <2>2, <2>4, <2>5, <2>6, <2>7 DEF Accepted
  <2> QED
    BY <1>6, <2>8
<1>12. CASE ~ (c >= Len(t))
  <2>1. d = << >>
    BY <1>3, <1>6, <1>12
  <2>2. Len(d) = 0 /\ accepted = 0
    <3>1. Len(d) = 0
      BY <2>1
    <3> QED
      BY <1>9, <3>1
  <2>3. c2 = c /\ c2 <= Len(t)
    BY <1>3, <1>8, <1>12, <2>2
  <2>4. t \o d = t
    BY <1>3, <2>1, EmptyConcat
  <2>5. tokens' = [tokens EXCEPT ![r] = t]
    BY <1>1, <1>2, <1>7, <1>12
  <2>6. Readable(kv, epoch, tb, t, c2)
    BY <1>10, <2>3, <2>4
  <2>7. c2 \in Nat /\ c2 <= c /\ x <= c2
    BY <1>3, <1>6, <2>3
  <2>8. num_computed_tokens' = [num_computed_tokens EXCEPT ![r] = c2]
    BY <1>7, <1>8
  <2>9. Accepted(r, t, c2)
    BY <1>2, <1>3, <1>6, <2>3, <2>5, <2>6, <2>7, <2>8 DEF Accepted
  <2> QED
    BY <1>6, <2>9
<1> QED
  BY <1>11, <1>12

\* The pool after an output, and how many blocks of r have now been offered to the cache.
PoolAfterOutput(r, c2, q, n) ==
  /\ q \in Pools /\ FreeExact(q) /\ HashExact(q) /\ Counts(q, req_to_blocks)
  /\ n \in Nat /\ n * BlockSize <= c2
  /\ Tables(q, req_to_blocks, [num_cached_block EXCEPT ![r] = n])
  /\ HashedHold(kv, epoch, q)

\* Caching the blocks that became full keeps the books, the tables and what cached blocks hold.
LEMMA OutputCache ==
  ASSUME CacheInv, NEW r \in Requests, NEW t2, NEW c2, Accepted(r, t2, c2),
         NEW full, full = c2 \div BlockSize,
         NEW q, q = cache_full_blocks(pool, req_to_blocks[r], t2, num_cached_block[r], full),
         NEW n, n = Max({num_cached_block[r], full})
  PROVE  PoolAfterOutput(r, c2, q, n)
<1>0. TypeOK /\ PoolInv /\ TableInv /\ HashedInv /\ RequestInv
  BY DEF CacheInv
<1>1. /\ pool \in Pools /\ req_to_blocks \in [Requests -> Seq(Blocks)]
      /\ num_cached_block \in [Requests -> Nat] /\ num_computed_tokens[r] \in 0 .. config.max_len
      /\ BlockSize \in Nat \ {0}
  BY <1>0, Types, KVAssumption
<1>2. PICK T, tb, start : T = req_to_blocks /\ tb = T[r] /\ start = num_cached_block[r]
  OBVIOUS
<1>3. /\ T \in [Requests -> Seq(Blocks)] /\ tb \in Seq(Blocks) /\ start \in Nat /\ Len(tb) \in Nat
  BY <1>1, <1>2
<1>4. /\ t2 \in Seq(Token) /\ c2 \in Nat /\ c2 <= Len(t2) /\ c2 <= num_computed_tokens[r]
      /\ start * BlockSize <= c2 /\ Readable(kv, epoch, tb, t2, c2) /\ Len(t2) \in Nat
  BY <1>2 DEF Accepted
<1>5. /\ FreeExact(pool) /\ HashExact(pool) /\ Counts(pool, T)
      /\ Tables(pool, T, num_cached_block) /\ HashedHold(kv, epoch, pool)
  BY <1>0, <1>2 DEF PoolInv, TableInv, HashedInv
<1>6. full \in Nat /\ full * BlockSize <= c2
  BY <1>1, <1>4, DivBounds
<1>7. full * BlockSize \in Nat
  BY <1>1, <1>6
<1>8. full * BlockSize <= Len(t2)
  BY <1>4, <1>6, <1>7
<1>9. full <= Len(tb)
  <2>1. num_computed_tokens[r] <= Len(tb) * BlockSize
    BY <1>0, <1>2 DEF RequestInv, RequestOK
  <2>2. PICK x, y, c : x = full * BlockSize /\ y = Len(tb) * BlockSize /\ c = num_computed_tokens[r]
    OBVIOUS
  <2>3. x \in Nat /\ y \in Nat /\ x <= c2 /\ c2 <= c /\ c <= y /\ c \in Nat
    <3>1. c \in Nat
      BY <1>1, <2>2
    <3>2. y \in Nat
      BY <1>1, <1>3, <2>2
    <3> QED
      BY <1>4, <1>6, <1>7, <2>1, <2>2, <3>1, <3>2, Zenon
  <2>4. x < y + BlockSize
    BY <1>1, <1>4, <2>3
  <2>5. full * BlockSize < Len(tb) * BlockSize + BlockSize
    BY <2>2, <2>4
  <2> QED
    BY <1>1, <1>3, <1>6, <2>5, TimesBelow
<1>10. /\ IsInjective(tb) /\ NullBlock \notin ToSet(tb)
       /\ \A j \in 1 .. Len(tb) : j > start => pool.block_hash[tb[j]] = NoHash
  BY <1>2, <1>5 DEF Tables
<1>11. \A j \in start + 1 .. full : j \in 1 .. Len(tb) /\ j > start
  BY <1>3, <1>6, <1>9
<1>12. CachedPool(pool, tb, t2, start, full, q)
  <2>1. \A j \in start + 1 .. full : pool.block_hash[tb[j]] = NoHash
    BY <1>10, <1>11
  <2>2. q = cache_full_blocks(pool, tb, t2, start, full)
    BY <1>2
  <2>3. HashExact(pool) /\ t2 \in Seq(Token) /\ IsInjective(tb)
    BY <1>4, <1>5, <1>10
  <2> QED
    BY <1>1, <1>3, <1>6, <1>8, <1>9, <2>1, <2>2, <2>3, CachePool
<1>13. /\ q \in Pools /\ HashExact(q) /\ q.free = pool.free /\ q.ref_cnt = pool.ref_cnt
       /\ HashesAdded(pool, q, tb, t2, start, full)
  BY <1>12 DEF CachedPool, HashesAdded
<1>14. FreeExact(q) /\ Counts(q, T)
  BY <1>5, <1>13 DEF FreeExact, Counts
<1>15. HashedHold(kv, epoch, q)
  <2>1. HashedHold(kv, epoch, pool) /\ Readable(kv, epoch, tb, t2, c2)
    BY <1>4, <1>5
  <2>2. tb \in Seq(Blocks) /\ t2 \in Seq(Token) /\ c2 \in Nat /\ start \in Nat /\ full \in Nat
    BY <1>3, <1>4, <1>6
  <2> QED
    BY <1>6, <1>8, <1>9, <1>13, <2>1, <2>2, CacheHolds
<1>16. n = start \/ n = full
  <2>1. start \in Int /\ full \in Int
    BY <1>3, <1>6
  <2>2. n = IF start >= full THEN start ELSE full
    BY <1>2, <2>1, MaxOfTwo, Zenon
  <2> QED
    BY <2>2, Zenon
<1>17. n \in Nat /\ n * BlockSize <= c2
  <2>1. n \in Nat
    BY <1>3, <1>6, <1>16
  <2>2. n * BlockSize <= c2
    BY <1>4, <1>6, <1>16, Zenon
  <2> QED
    BY <2>1, <2>2
<1>18. n >= start /\ n >= full
  <2>1. start \in Int /\ full \in Int
    BY <1>3, <1>6
  <2>2. n = IF start >= full THEN start ELSE full
    BY <1>2, <2>1, MaxOfTwo, Zenon
  <2> QED
    BY <2>1, <2>2
<1>19. Unhashed(q, tb, n)
  <2>1. SUFFICES ASSUME NEW j \in 1 .. Len(tb), j > n
                 PROVE  q.block_hash[tb[j]] = NoHash
    BY DEF Unhashed
  <2>2. j > start /\ \A i \in start + 1 .. full : i # j
    BY <1>3, <1>6, <1>17, <1>18, <2>1
  <2>3. tb[j] \in Blocks /\ pool.block_hash[tb[j]] = NoHash
    BY <1>3, <1>10, <2>2
  <2>4. \A i \in start + 1 .. full : tb[i] # tb[j]
    BY <1>3, <1>10, <1>11, <2>2, InToSet
  <2> QED
    BY <1>13, <2>3, <2>4 DEF HashesAdded
<1>20. OthersKept(pool, q, T, r, tb)
  <2>1. SUFFICES ASSUME NEW s \in Requests \ {r}, NEW b \in ToSet(T[s])
                 PROVE  q.block_hash[b] = pool.block_hash[b] /\ (b \in ToSet(tb) => pool.block_hash[b] # NoHash)
    BY DEF OthersKept
  <2>2. b \in ToSet(tb) => pool.block_hash[b] # NoHash
    BY <1>2, <1>5 DEF Tables
  <2>3. b \in Blocks
    BY <1>3, InToSet
  <2>4. ASSUME NEW i \in start + 1 .. full, tb[i] = b
        PROVE  FALSE
    <3>1. b \in ToSet(tb)
      BY <1>3, <1>11, <2>4, InToSet
    <3>2. pool.block_hash[b] = NoHash
      BY <1>10, <1>11, <2>4
    <3> QED
      BY <2>2, <3>1, <3>2
  <2>5. q.block_hash[b] = pool.block_hash[b]
    BY <1>13, <2>3, <2>4 DEF HashesAdded
  <2> QED
    BY <2>2, <2>5
<1>21. Tables(q, T, [num_cached_block EXCEPT ![r] = n])
  <2>1. PICK U : U = [T EXCEPT ![r] = tb]
    OBVIOUS
  <2>2. PICK d : d = [num_cached_block EXCEPT ![r] = n]
    OBVIOUS
  <2>3. Tables(pool, T, num_cached_block) /\ IsInjective(tb) /\ NullBlock \notin ToSet(tb)
    BY <1>5, <1>10
  <2>4. num_cached_block \in [Requests -> Nat] /\ T \in [Requests -> Seq(Blocks)] /\ tb \in Seq(Blocks)
    BY <1>1, <1>3
  <2>5. n \in Nat
    BY <1>17
  <2>6. Tables(q, U, d)
    BY <1>19, <1>20, <2>1, <2>2, <2>3, <2>4, <2>5, TablesStep
  <2>7. U = T
    BY <1>2, <1>3, <2>1
  <2> QED
    BY <2>2, <2>6, <2>7
<1> QED
  BY <1>2, <1>13, <1>14, <1>15, <1>17, <1>21 DEF PoolAfterOutput

\* An output keeps the invariant, whether its blocks are cached now or with the next step.
LEMMA OutputKeeps ==
  ASSUME CacheInv, NEW r \in Requests, NEW accepted, NEW sampled \in Token, Output(r, accepted, sampled)
  PROVE  CacheInv'
<1>0. TypeOK /\ PoolInv /\ TableInv /\ HashedInv /\ RequestInv /\ ReadInv
  BY DEF CacheInv
<1>1. /\ pool \in Pools /\ req_to_blocks \in [Requests -> Seq(Blocks)]
      /\ num_cached_block \in [Requests -> Nat] /\ tokens \in [Requests -> Seq(Token)]
      /\ num_computed_tokens \in [Requests -> 0 .. config.max_len] /\ config.max_len \in Nat
      /\ status \in [Requests -> {"waiting", "running"}]
      /\ step \in [Requests -> [new : 0 .. config.max_len, drafts : Seq(Token)]]
  BY <1>0, Types
<1>2. status[r] = "running"
  BY OutputTokens
<1>3. PICK t2, c2 : Accepted(r, t2, c2)
  BY OutputTokens
<1>4. /\ t2 \in Seq(Token) /\ Len(t2) \in 1 .. config.max_len
      /\ c2 \in Nat /\ c2 <= Len(t2) /\ c2 <= num_computed_tokens[r]
      /\ num_cached_block[r] * BlockSize <= c2
      /\ tokens' = [tokens EXCEPT ![r] = t2]
      /\ num_computed_tokens' = [num_computed_tokens EXCEPT ![r] = c2]
      /\ Readable(kv, epoch, req_to_blocks[r], t2, c2)
  BY <1>3 DEF Accepted
<1>5. /\ step' = [step EXCEPT ![r] = Idle]
      /\ config' = config /\ req_to_blocks' = req_to_blocks /\ status' = status
      /\ kv' = kv /\ epoch' = epoch
      /\ \/ cache_blocks(r, pool, tokens'[r], num_cached_block[r], num_computed_tokens'[r] \div BlockSize)
         \/ pool' = pool /\ num_cached_block' = num_cached_block
  BY DEF Output
<1>6. tokens'[r] = t2 /\ num_computed_tokens'[r] = c2
  BY <1>1, <1>4
<1>7. \E n : PoolAfterOutput(r, c2, pool', n) /\ num_cached_block' = [num_cached_block EXCEPT ![r] = n]
  <2>1. CASE cache_blocks(r, pool, tokens'[r], num_cached_block[r], num_computed_tokens'[r] \div BlockSize)
    <3>1. PICK full, n, q : /\ full = c2 \div BlockSize /\ n = Max({num_cached_block[r], full})
                            /\ q = cache_full_blocks(pool, req_to_blocks[r], t2, num_cached_block[r], full)
      OBVIOUS
    <3>2. pool' = q /\ num_cached_block' = [num_cached_block EXCEPT ![r] = n]
      BY <1>5, <1>6, <2>1, <3>1 DEF cache_blocks
    <3>3. PoolAfterOutput(r, c2, q, n)
      BY <1>3, <3>1, OutputCache
    <3> QED
      BY <3>2, <3>3
  <2>2. CASE pool' = pool /\ num_cached_block' = num_cached_block
    <3>1. PICK n : n = num_cached_block[r]
      OBVIOUS
    <3>2. num_cached_block = [num_cached_block EXCEPT ![r] = n] /\ n \in Nat
      BY <1>1, <3>1
    <3>3. n * BlockSize <= c2
      BY <1>4, <3>1
    <3>4. PoolAfterOutput(r, c2, pool, n)
      BY <1>0, <1>1, <3>2, <3>3 DEF PoolAfterOutput, PoolInv, TableInv, HashedInv
    <3> QED
      BY <2>2, <3>2, <3>4
  <2> QED
    BY <1>5, <2>1, <2>2
<1>8. PICK n : PoolAfterOutput(r, c2, pool', n) /\ num_cached_block' = [num_cached_block EXCEPT ![r] = n]
  BY <1>7
<1>9. PICK q : q = pool'
  OBVIOUS
<1>10. /\ q \in Pools /\ FreeExact(q) /\ HashExact(q) /\ Counts(q, req_to_blocks)
       /\ n \in Nat /\ n * BlockSize <= c2
       /\ Tables(q, req_to_blocks, num_cached_block')
       /\ HashedHold(kv, epoch, q)
  BY <1>8, <1>9 DEF PoolAfterOutput
<1>11. PoolInv' /\ TableInv' /\ HashedInv'
  BY <1>5, <1>9, <1>10 DEF PoolInv, TableInv, HashedInv
<1>12. Becomes(r, req_to_blocks[r], n, t2, c2, "running", Idle)
  <2>1. req_to_blocks' = [req_to_blocks EXCEPT ![r] = req_to_blocks[r]]
    BY <1>1, <1>5
  <2>2. status' = [status EXCEPT ![r] = "running"]
    BY <1>1, <1>2, <1>5
  <2> QED
    BY <1>4, <1>5, <1>8, <2>1, <2>2 DEF Becomes
<1>13. RequestInv'
  <2>1. PICK c, y : c = num_computed_tokens[r] /\ y = Len(req_to_blocks[r]) * BlockSize
    OBVIOUS
  <2>2. c <= y
    BY <1>0, <2>1 DEF RequestInv, RequestOK
  <2>3. c \in Nat /\ y \in Nat
    <3>1. c \in Nat
      BY <1>1, <2>1
    <3>2. Len(req_to_blocks[r]) \in Nat /\ BlockSize \in Nat
      BY <1>1, KVAssumption
    <3> QED
      BY <2>1, <3>1, <3>2
  <2>4. c2 <= y
    BY <1>4, <2>1, <2>2, <2>3
  <2>5. n * BlockSize <= Len(t2)
    <3>1. PICK x : x = n * BlockSize
      OBVIOUS
    <3>2. x \in Nat /\ x <= c2
      BY <1>10, <3>1, KVAssumption
    <3>3. x <= Len(t2)
      BY <1>4, <3>2
    <3> QED
      BY <3>1, <3>3
  <2>6. Idle.drafts = << >> /\ Len(Idle.drafts) = 0
    BY DEF Idle
  <2>7. c2 <= Len(t2) + Len(Idle.drafts)
    BY <1>4, <2>6
  <2>8. RequestOK(req_to_blocks[r], n, t2, c2, "running", Idle, config.max_len)
    BY <1>4, <1>10, <2>1, <2>4, <2>5, <2>6, <2>7 DEF RequestOK
  <2> QED
    BY <1>0, <1>12, <2>8, RequestsStep
<1>14. TypeOK'
  <2>1. c2 \in 0 .. config.max_len
    BY <1>1, <1>4
  <2>2. Idle \in [new : 0 .. config.max_len, drafts : Seq(Token)]
    BY <1>1 DEF Idle
  <2>3. req_to_blocks[r] \in Seq(Blocks) /\ n \in Nat /\ t2 \in Seq(Token) /\ pool' \in Pools /\ epoch' = epoch
    BY <1>1, <1>4, <1>5, <1>9, <1>10
  <2> QED
    BY <1>0, <1>12, <2>1, <2>2, <2>3, TypesStep
<1>15. ReadInv'
  <2>1. ASSUME NEW s \in Requests
        PROVE  Readable(kv, epoch, req_to_blocks[s], tokens'[s] \o step'[s].drafts, num_computed_tokens'[s])
    <3>1. CASE s = r
      <4>1. step'[s].drafts = << >>
        BY <1>1, <1>5, <3>1 DEF Idle
      <4>2. tokens'[s] \o step'[s].drafts = t2
        BY <1>4, <1>6, <3>1, <4>1, EmptyConcat
      <4> QED
        BY <1>4, <1>6, <3>1, <4>2
    <3>2. CASE s # r
      <4>1. /\ tokens'[s] = tokens[s] /\ step'[s] = step[s]
            /\ num_computed_tokens'[s] = num_computed_tokens[s]
        BY <1>1, <1>4, <1>5, <3>2
      <4>2. Readable(kv, epoch, req_to_blocks[s], tokens[s] \o step[s].drafts, num_computed_tokens[s])
        BY <1>0 DEF ReadInv
      <4> QED
        BY <4>1, <4>2
    <3> QED
      BY <3>1, <3>2
  <2>2. \A s \in Requests :
          Readable(kv', epoch', req_to_blocks'[s], tokens'[s] \o step'[s].drafts, num_computed_tokens'[s])
    BY <1>5, <2>1
  <2> QED
    BY <2>2 DEF ReadInv, Readable, Position, Entry, Prefix
<1> QED
  BY <1>11, <1>13, <1>14, <1>15 DEF CacheInv

\* A request gives its blocks back and waits with tokens t.
Freed(r, t) ==
  /\ FreeTable(r)
  /\ t \in Seq(Token) /\ Len(t) \in 1 .. config.max_len /\ Len(t) < config.max_len
  /\ tokens' = [tokens EXCEPT ![r] = t]
  /\ num_computed_tokens' = [num_computed_tokens EXCEPT ![r] = 0]
  /\ status' = [status EXCEPT ![r] = "waiting"]
  /\ step' = [step EXCEPT ![r] = Idle]
  /\ UNCHANGED <<config, epoch>>

\* Freeing keeps the books, the other tables, and what cached blocks and other tables hold.
LEMMA FreeKeeps ==
  ASSUME CacheInv, NEW r \in Requests, NEW t, Freed(r, t)
  PROVE  CacheInv'
<1>0. TypeOK /\ PoolInv /\ TableInv /\ HashedInv /\ RequestInv /\ ReadInv
  BY DEF CacheInv
<1>1. /\ pool \in Pools /\ req_to_blocks \in [Requests -> Seq(Blocks)]
      /\ num_cached_block \in [Requests -> Nat] /\ tokens \in [Requests -> Seq(Token)]
      /\ num_computed_tokens \in [Requests -> 0 .. config.max_len] /\ config.max_len \in Nat
      /\ step \in [Requests -> [new : 0 .. config.max_len, drafts : Seq(Token)]]
  BY <1>0, Types
<1>2. PICK T, U, tb, q, d : /\ T = req_to_blocks /\ U = [T EXCEPT ![r] = << >>] /\ tb = T[r]
                            /\ q = free_blocks(pool, Reverse(tb))
                            /\ d = [num_cached_block EXCEPT ![r] = 0]
  OBVIOUS
<1>3. /\ pool' = q /\ req_to_blocks' = U /\ num_cached_block' = d
      /\ kv' = [b \in Blocks |-> IF q.ref_cnt[b] = 0 /\ q.block_hash[b] = NoHash THEN Blank ELSE kv[b]]
      /\ config' = config /\ epoch' = epoch
  BY <1>2 DEF Freed, FreeTable, ForgetUnreachable
<1>4. T \in [Requests -> Seq(Blocks)] /\ tb \in Seq(Blocks)
  BY <1>1, <1>2
<1>5. IsInjective(tb) /\ NullBlock \notin ToSet(tb) /\ Tables(pool, T, num_cached_block)
  BY <1>0, <1>2 DEF TableInv, Tables
<1>6. FreeExact(pool) /\ HashExact(pool) /\ Counts(pool, T)
  BY <1>0, <1>2 DEF PoolInv
<1>7. PICK bs : bs = Reverse(tb)
  OBVIOUS
<1>8. bs \in Seq(Blocks) /\ IsInjective(bs) /\ ToSet(bs) = ToSet(tb)
  BY <1>4, <1>5, <1>7, ReverseSets
<1>9. \A b \in ToSet(tb) : b # NullBlock /\ pool.ref_cnt[b] >= 1
  <2>1. \A b \in ToSet(T[r]) : pool.ref_cnt[b] >= 1
    BY <1>1, <1>4, <1>6, HeldIsCounted
  <2> QED
    BY <1>2, <1>5, <2>1
<1>10. /\ q \in Pools /\ FreeExact(q)
       /\ q.block_hash = pool.block_hash /\ q.cached = pool.cached
       /\ \A b \in Blocks : q.ref_cnt[b] = IF b \in ToSet(bs) THEN pool.ref_cnt[b] - 1 ELSE pool.ref_cnt[b]
  <2>1. q = free_blocks(pool, bs)
    BY <1>2, <1>7
  <2>2. \A b \in ToSet(bs) : b # NullBlock /\ pool.ref_cnt[b] >= 1
    BY <1>8, <1>9
  <2>3. bs \in Seq(Blocks) /\ IsInjective(bs) /\ FreeExact(pool) /\ pool \in Pools
    BY <1>1, <1>6, <1>8
  <2>4. FreedPool(pool, bs, q)
    BY <2>1, <2>2, <2>3, FreePool
  <2> QED
    BY <2>4 DEF FreedPool
<1>11. HashExact(q)
  BY <1>6, <1>10 DEF HashExact, HashedEntries
<1>12. << >> \in Seq(Blocks) /\ ToSet(<< >>) = {} /\ IsInjective(<< >>) /\ Len(<< >>) = 0
  BY DEF ToSet, IsInjective
<1>13. PICK none : none = << >>
  OBVIOUS
<1>14. /\ none \in Seq(Blocks) /\ ToSet(none) = {} /\ IsInjective(none) /\ Len(none) = 0
       /\ U = [T EXCEPT ![r] = none]
  BY <1>2, <1>12, <1>13
<1>15. Counts(q, U)
  <2>1. \A b \in Blocks :
          q.ref_cnt[b] = IF b \in ToSet(none) /\ b \notin ToSet(T[r]) THEN pool.ref_cnt[b] + 1
                         ELSE IF b \in ToSet(T[r]) /\ b \notin ToSet(none) THEN pool.ref_cnt[b] - 1
                         ELSE pool.ref_cnt[b]
    BY <1>2, <1>8, <1>10, <1>14
  <2> QED
    BY <1>1, <1>4, <1>6, <1>14, <2>1, CountsStep
<1>16. Tables(q, U, d)
  <2>1. Unhashed(q, none, 0)
    BY <1>14 DEF Unhashed
  <2>2. OthersKept(pool, q, T, r, none)
    BY <1>10, <1>14 DEF OthersKept
  <2>3. none \in Seq(Blocks) /\ IsInjective(none) /\ NullBlock \notin ToSet(none)
    BY <1>14
  <2>4. num_cached_block \in [Requests -> Nat] /\ T \in [Requests -> Seq(Blocks)]
        /\ Tables(pool, T, num_cached_block) /\ U = [T EXCEPT ![r] = none] /\ 0 \in Nat
    BY <1>1, <1>4, <1>5, <1>14
  <2> QED
    BY <1>2, <2>1, <2>2, <2>3, <2>4, TablesStep
<1>17. PoolInv' /\ TableInv'
  BY <1>3, <1>10, <1>11, <1>15, <1>16 DEF PoolInv, TableInv
<1>18. PICK k2 : k2 = kv'
  OBVIOUS
<1>19. \A b \in Blocks : q.ref_cnt[b] # 0 \/ q.block_hash[b] # NoHash => k2[b] = kv[b]
  BY <1>3, <1>18
<1>20. HashedInv'
  <2>1. HashedHold(kv, epoch, pool)
    BY <1>0 DEF HashedInv
  <2>2. HashedHold(k2, epoch, q)
    BY <1>10, <1>19, <2>1 DEF HashedHold
  <2> QED
    BY <1>3, <1>18, <2>2 DEF HashedInv
<1>21. /\ t \in Seq(Token) /\ Len(t) \in 1 .. config.max_len /\ Len(t) < config.max_len
       /\ tokens' = [tokens EXCEPT ![r] = t]
       /\ num_computed_tokens' = [num_computed_tokens EXCEPT ![r] = 0]
       /\ status' = [status EXCEPT ![r] = "waiting"]
       /\ step' = [step EXCEPT ![r] = Idle]
  BY DEF Freed
<1>22. Becomes(r, << >>, 0, t, 0, "waiting", Idle)
  BY <1>2, <1>3, <1>21 DEF Becomes
<1>23. RequestInv'
  <2>1. Idle.drafts = << >> /\ Len(<< >>) = 0
    BY DEF Idle
  <2>2. 0 <= Len(t) + Len(Idle.drafts) /\ 0 * BlockSize = 0 /\ 0 <= 0 /\ 0 <= Len(t)
    BY <1>21, <2>1, KVAssumption
  <2>3. RequestOK(<< >>, 0, t, 0, "waiting", Idle, config.max_len)
    BY <1>21, <2>1, <2>2 DEF RequestOK
  <2> QED
    BY <1>0, <1>22, <2>3, RequestsStep
<1>24. TypeOK'
  <2>1. 0 \in 0 .. config.max_len /\ Idle \in [new : 0 .. config.max_len, drafts : Seq(Token)]
    BY <1>1 DEF Idle
  <2>2. << >> \in Seq(Blocks) /\ 0 \in Nat /\ t \in Seq(Token) /\ pool' \in Pools /\ epoch' = epoch
    BY <1>3, <1>10, <1>21
  <2> QED
    BY <1>0, <1>22, <2>1, <2>2, TypesStep
<1>25. ReadInv'
  <2>1. ASSUME NEW s \in Requests
        PROVE  Readable(k2, epoch, U[s], tokens'[s] \o step'[s].drafts, num_computed_tokens'[s])
    <3>1. CASE s = r
      <4>1. U[s] = << >>
        BY <1>2, <1>4, <3>1
      <4> QED
        BY <4>1 DEF Readable
    <3>2. CASE s # r
      <4>1. /\ tokens'[s] = tokens[s] /\ step'[s] = step[s] /\ U[s] = T[s]
            /\ num_computed_tokens'[s] = num_computed_tokens[s]
        BY <1>1, <1>2, <1>4, <1>21, <3>2
      <4>2. Readable(kv, epoch, T[s], tokens[s] \o step[s].drafts, num_computed_tokens[s])
        BY <1>0, <1>2 DEF ReadInv
      <4>3. ASSUME NEW j \in 1 .. Len(T[s]), NEW i \in 1 .. BlockSize
            PROVE  k2[T[s][j]][i] = kv[T[s][j]][i]
        <5>1. PICK b : b = T[s][j]
          OBVIOUS
        <5>2. b \in ToSet(U[s])
          BY <1>4, <4>1, <5>1, InToSet
        <5>3. U \in [Requests -> Seq(Blocks)]
          BY <1>4, <1>14
        <5>4. b \in Blocks /\ q.ref_cnt[b] >= 1
          BY <1>10, <1>15, <5>2, <5>3, HeldIsCounted
        <5>5. k2[b] = kv[b]
          BY <1>19, <5>4
        <5> QED
          BY <5>1, <5>5
      <4>4. Readable(k2, epoch, T[s], tokens[s] \o step[s].drafts, num_computed_tokens[s])
        BY <4>2, <4>3 DEF Readable
      <4> QED
        BY <4>1, <4>4
    <3> QED
      BY <3>1, <3>2
  <2>2. \A s \in Requests :
          Readable(kv', epoch', req_to_blocks'[s], tokens'[s] \o step'[s].drafts, num_computed_tokens'[s])
    BY <1>3, <1>18, <2>1
  <2> QED
    BY <2>2 DEF ReadInv, Readable, Position, Entry, Prefix
<1> QED
  BY <1>17, <1>20, <1>23, <1>24, <1>25 DEF CacheInv

\* Preemption keeps the invariant.
LEMMA PreemptKeeps ==
  ASSUME CacheInv, NEW r \in Requests, Preempt(r)
  PROVE  CacheInv'
<1>0. TypeOK /\ RequestInv
  BY DEF CacheInv
<1>1. /\ tokens \in [Requests -> Seq(Token)]
      /\ step \in [Requests -> [new : 0 .. config.max_len, drafts : Seq(Token)]]
  BY <1>0, Types
<1>2. Len(tokens[r]) \in 1 .. config.max_len
  BY <1>0 DEF RequestInv, RequestOK
<1>3. /\ step[r] = Idle /\ Len(tokens[r]) < config.max_len /\ FreeTable(r)
      /\ status' = [status EXCEPT ![r] = "waiting"]
      /\ num_computed_tokens' = [num_computed_tokens EXCEPT ![r] = 0]
      /\ UNCHANGED <<config, tokens, step, epoch>>
  BY DEF Preempt, MaxLen
<1>4. tokens' = [tokens EXCEPT ![r] = tokens[r]] /\ step' = [step EXCEPT ![r] = Idle]
  BY <1>1, <1>3
<1>5. Freed(r, tokens[r])
  BY <1>1, <1>2, <1>3, <1>4 DEF Freed
<1> QED
  BY <1>5, FreeKeeps

\* The end of a request keeps the invariant.
LEMMA FinishKeeps ==
  ASSUME CacheInv, NEW r \in Requests, Finish(r)
  PROVE  CacheInv'
<1>0. TypeOK
  BY DEF CacheInv
<1>1. config \in Configs /\ config.max_len \in Nat
  BY <1>0, Types
<1>2. Prompt[r] \in Seq(Token) /\ Len(Prompt[r]) \in 1 .. config.max_len - 1
  BY <1>1, KVAssumption
<1>3. Len(Prompt[r]) \in 1 .. config.max_len /\ Len(Prompt[r]) < config.max_len
  BY <1>1, <1>2
<1>4. Freed(r, Prompt[r])
  BY <1>2, <1>3 DEF Freed, Finish
<1> QED
  BY <1>4, FreeKeeps

\* The reset of the cache succeeds only when no request has a block.
LEMMA ResetMeansIdle ==
  ASSUME CacheInv, Len(pool.free) = NumBlocks - 1, NEW r \in Requests
  PROVE  req_to_blocks[r] = << >>
<1>0. TypeOK /\ PoolInv /\ TableInv
  BY DEF CacheInv
<1>1. pool \in Pools /\ req_to_blocks \in [Requests -> Seq(Blocks)] /\ NumBlocks \in Nat \ {0}
  BY <1>0, Types, KVAssumption
<1>2. FreeExact(pool) /\ Counts(pool, req_to_blocks)
  BY <1>0 DEF PoolInv
<1>3. PICK F, N : F = ToSet(pool.free) /\ N = 1 .. NumBlocks - 1
  OBVIOUS
<1>4. pool.free \in Seq(Blocks)
  BY <1>1 DEF Pools
<1>5. Cardinality(F) = NumBlocks - 1
  BY <1>2, <1>3, <1>4, InjectiveLength DEF FreeExact
<1>6. F \subseteq N
  BY <1>1, <1>2, <1>3 DEF FreeExact, Blocks, NullBlock
<1>7. IsFiniteSet(N) /\ Cardinality(N) = NumBlocks - 1
  <2>1. 1 \in Int /\ NumBlocks - 1 \in Int
    BY <1>1
  <2>2. IsFiniteSet(N) /\ Cardinality(N) = IF 1 > NumBlocks - 1 THEN 0 ELSE (NumBlocks - 1) - 1 + 1
    BY <1>3, <2>1, FS_Interval
  <2> QED
    BY <1>1, <2>2
<1>8. N = F
  BY <1>5, <1>6, <1>7, FS_Subset
<1>9. ASSUME NEW b \in ToSet(req_to_blocks[r])
      PROVE  FALSE
  <2>1. b \in Blocks /\ pool.ref_cnt[b] >= 1
    BY <1>1, <1>2, HeldIsCounted
  <2>2. b # NullBlock
    BY <1>0 DEF TableInv, Tables
  <2>3. b \in N
    BY <1>1, <1>3, <2>1, <2>2 DEF Blocks, NullBlock
  <2>4. pool.ref_cnt[b] = 0
    BY <1>2, <1>3, <1>8, <2>3 DEF FreeExact
  <2> QED
    BY <2>1, <2>4
<1>10. req_to_blocks[r] \in Seq(Blocks)
  BY <1>1
<1>11. Len(req_to_blocks[r]) = 0
  <2>1. Len(req_to_blocks[r]) \in Nat
    BY <1>10
  <2>2. ASSUME Len(req_to_blocks[r]) > 0
        PROVE  FALSE
    <3>1. 1 \in 1 .. Len(req_to_blocks[r])
      BY <2>1, <2>2
    <3>2. req_to_blocks[r][1] \in ToSet(req_to_blocks[r])
      BY <1>10, <3>1, InToSet
    <3> QED
      BY <1>9, <3>2
  <2> QED
    BY <2>1, <2>2
<1> QED
  BY <1>10, <1>11

\* A reset keeps the invariant: nothing cached, nothing read.
LEMMA ResetKeeps ==
  ASSUME CacheInv, ResetPrefixCache
  PROVE  CacheInv'
<1>0. TypeOK /\ PoolInv /\ TableInv /\ HashedInv /\ RequestInv /\ ReadInv
  BY DEF CacheInv
<1>1. /\ pool \in Pools /\ epoch \in 0 .. config.max_epoch /\ config.max_epoch \in Nat
  BY <1>0, Types
<1>2. PICK q : q = [pool EXCEPT !.block_hash = [b \in Blocks |-> NoHash], !.cached = << >>]
  OBVIOUS
<1>3. /\ pool' = q /\ epoch < config.max_epoch /\ epoch' = epoch + 1
      /\ Len(pool.free) = NumBlocks - 1
      /\ UNCHANGED <<config, req_to_blocks, num_cached_block, tokens, num_computed_tokens, status, step>>
  BY <1>2 DEF ResetPrefixCache, pool_reset_prefix_cache
<1>4. \A r \in Requests : req_to_blocks[r] = << >>
  BY <1>3, ResetMeansIdle
<1>5. NoHash \in Seq(Token) /\ << >> \in Seq(Entries) /\ NoHash = << >>
  BY DEF NoHash
<1>6. /\ q \in Pools /\ q.free = pool.free /\ q.ref_cnt = pool.ref_cnt /\ q.cached = << >>
      /\ \A b \in Blocks : q.block_hash[b] = NoHash
  BY <1>1, <1>2, <1>5 DEF Pools
<1>7. ToSet(<< >>) = {} /\ IsInjective(<< >>) /\ Len(<< >>) = 0
  BY DEF ToSet, IsInjective
<1>8. HashExact(q)
  BY <1>6, <1>7 DEF HashExact, HashedEntries
<1>9. FreeExact(q) /\ Counts(q, req_to_blocks)
  BY <1>0, <1>6 DEF PoolInv, FreeExact, Counts
<1>10. Tables(q, req_to_blocks, num_cached_block)
  BY <1>4, <1>7 DEF Tables
<1>11. HashedHold(kv', epoch', q)
  BY <1>6 DEF HashedHold
<1>12. PoolInv' /\ TableInv' /\ HashedInv'
  BY <1>3, <1>8, <1>9, <1>10, <1>11 DEF PoolInv, TableInv, HashedInv
<1>13. RequestInv'
  BY <1>0, <1>3 DEF RequestInv
<1>14. ReadInv'
  <2>1. \A r \in Requests : req_to_blocks'[r] = << >>
    BY <1>3, <1>4
  <2> QED
    BY <2>1 DEF ReadInv, Readable
<1>15. TypeOK'
  <2>1. epoch' \in 0 .. config.max_epoch
    BY <1>1, <1>3
  <2>2. pool' \in [ref_cnt : [Blocks -> Nat], block_hash : [Blocks -> Seq(Token)],
                   free : Seq(Blocks), cached : Seq(Seq(Token) \X Blocks)]
    BY <1>3, <1>6 DEF Pools, Entries
  <2> QED
    BY <1>0, <1>3, <2>1, <2>2 DEF TypeOK, MaxLen
<1> QED
  BY <1>12, <1>13, <1>14, <1>15 DEF CacheInv

\* The invariant holds initially.
LEMMA InitCache ==
  Init => CacheInv
<1> SUFFICES ASSUME Init
             PROVE  CacheInv
  OBVIOUS
<1>1. /\ config \in Configs /\ pool = NewPool
      /\ req_to_blocks = [r \in Requests |-> << >>] /\ num_cached_block = [r \in Requests |-> 0]
      /\ tokens = Prompt /\ num_computed_tokens = [r \in Requests |-> 0]
      /\ status = [r \in Requests |-> "waiting"] /\ step = [r \in Requests |-> Idle] /\ epoch = 0
  BY DEF Init
<1>2. /\ NumBlocks \in Nat \ {0} /\ BlockSize \in Nat \ {0}
      /\ config \in [max_len : Nat, watermark : Nat, full : BOOLEAN, eagle : BOOLEAN,
                     async : BOOLEAN, max_epoch : Nat]
  BY <1>1, KVAssumption
<1>3. config.max_len \in Nat /\ config.max_epoch \in Nat
  BY <1>2
<1>4. PICK f : f = [i \in 1 .. NumBlocks - 1 |-> i]
  OBVIOUS
<1>5. NumBlocks - 1 \in Nat /\ \A i \in 1 .. NumBlocks - 1 : i \in Blocks
  BY <1>2 DEF Blocks
<1>6. f \in Seq(Blocks) /\ DOMAIN f = 1 .. NumBlocks - 1 /\ \A i \in 1 .. NumBlocks - 1 : f[i] = i
  BY <1>4, <1>5
<1>7. IsInjective(f) /\ ToSet(f) = 1 .. NumBlocks - 1
  BY <1>6 DEF IsInjective, ToSet
<1>8. NoHash \in Seq(Token) /\ << >> \in Seq(Entries)
  BY DEF NoHash
<1>9. /\ pool \in Pools /\ pool.free = f /\ pool.cached = << >>
      /\ \A b \in Blocks : pool.ref_cnt[b] = 0 /\ pool.block_hash[b] = NoHash
  BY <1>1, <1>4, <1>6, <1>8 DEF NewPool, Pools
<1>10. ToSet(<< >>) = {} /\ IsInjective(<< >>) /\ Len(<< >>) = 0
  BY DEF ToSet, IsInjective
<1>11. \A r \in Requests : req_to_blocks[r] = << >>
  BY <1>1
<1>12. PoolInv
  <2>1. 1 .. NumBlocks - 1 = {b \in Blocks \ {NullBlock} : pool.ref_cnt[b] = 0}
    BY <1>2, <1>9 DEF Blocks, NullBlock
  <2>2. FreeExact(pool)
    BY <1>7, <1>9, <2>1 DEF FreeExact
  <2>3. HashExact(pool)
    BY <1>9, <1>10 DEF HashExact, HashedEntries
  <2>4. \A b \in Blocks : HoldersIn(req_to_blocks, b) = {}
    BY <1>10, <1>11 DEF HoldersIn
  <2>5. Counts(pool, req_to_blocks)
    BY <1>9, <2>4, FS_EmptySet DEF Counts
  <2> QED
    BY <2>2, <2>3, <2>5 DEF PoolInv
<1>13. TableInv
  BY <1>10, <1>11 DEF TableInv, Tables
<1>14. HashedInv
  BY <1>9 DEF HashedInv, HashedHold
<1>15. ReadInv
  BY <1>10, <1>11 DEF ReadInv, Readable
<1>16. ASSUME NEW r \in Requests
       PROVE  RequestOK(req_to_blocks[r], num_cached_block[r], tokens[r],
                        num_computed_tokens[r], status[r], step[r], config.max_len)
  <2>1. /\ req_to_blocks[r] = << >> /\ num_cached_block[r] = 0 /\ tokens[r] = Prompt[r]
        /\ num_computed_tokens[r] = 0 /\ status[r] = "waiting" /\ step[r] = Idle
    BY <1>1
  <2>2. Len(Prompt[r]) \in 1 .. config.max_len - 1
    BY <1>1, KVAssumption
  <2>3. Len(Prompt[r]) \in 1 .. config.max_len /\ Len(Prompt[r]) < config.max_len /\ 0 <= Len(Prompt[r])
    BY <1>3, <2>2
  <2>4. Idle.drafts = << >>
    BY DEF Idle
  <2>5. 0 <= Len(Prompt[r]) + Len(Idle.drafts) /\ 0 * BlockSize = 0 /\ 0 <= 0
    BY <1>2, <1>10, <2>3, <2>4
  <2>6. RequestOK(<< >>, 0, Prompt[r], 0, "waiting", Idle, config.max_len)
    BY <1>10, <2>3, <2>4, <2>5 DEF RequestOK
  <2> QED
    BY <2>1, <2>6
<1>17. RequestInv
  BY <1>16 DEF RequestInv
<1>18. TypeOK
  <2>1. pool \in [ref_cnt : [Blocks -> Nat], block_hash : [Blocks -> Seq(Token)],
                  free : Seq(Blocks), cached : Seq(Seq(Token) \X Blocks)]
    BY <1>9 DEF Pools, Entries
  <2>2. Idle \in [new : 0 .. config.max_len, drafts : Seq(Token)]
    BY <1>3 DEF Idle
  <2>3. /\ req_to_blocks \in [Requests -> Seq(Blocks)] /\ num_cached_block \in [Requests -> Nat]
        /\ tokens \in [Requests -> Seq(Token)]
    BY <1>1, KVAssumption
  <2>4. /\ num_computed_tokens \in [Requests -> 0 .. config.max_len]
        /\ status \in [Requests -> {"waiting", "running"}]
        /\ step \in [Requests -> [new : 0 .. config.max_len, drafts : Seq(Token)]]
        /\ epoch \in 0 .. config.max_epoch
    BY <1>1, <1>3, <2>2
  <2> QED
    BY <1>1, <2>1, <2>3, <2>4 DEF TypeOK, MaxLen
<1> QED
  BY <1>12, <1>13, <1>14, <1>15, <1>17, <1>18 DEF CacheInv

\* Every step keeps the invariant.
LEMMA NextCache ==
  CacheInv /\ [Next]_vars => CacheInv'
<1> SUFFICES ASSUME CacheInv, [Next]_vars
             PROVE  CacheInv'
  OBVIOUS
<1>1. ASSUME NEW r \in Requests, NEW new \in 1 .. MaxLen, NEW b \in BOOLEAN, Admit(r, new, b)
      PROVE  CacheInv'
  BY <1>1, AdmitKeeps
<1>2. ASSUME NEW r \in Requests, NEW new \in 1 .. MaxLen, NEW d \in SeqOf(Token, MaxDrafts),
             Schedule(r, new, d)
      PROVE  CacheInv'
  <2>1. d \in Seq(Token)
    BY KVAssumption DEF SeqOf
  <2> QED
    BY <1>2, <2>1, ScheduleKeeps
<1>3. ASSUME NEW r \in Requests, NEW a \in 0 .. MaxDrafts, NEW t \in Token, Output(r, a, t)
      PROVE  CacheInv'
  BY <1>3, OutputKeeps
<1>4. ASSUME NEW r \in Requests, Preempt(r)
      PROVE  CacheInv'
  BY <1>4, PreemptKeeps
<1>5. ASSUME NEW r \in Requests, Finish(r)
      PROVE  CacheInv'
  BY <1>5, FinishKeeps
<1>6. CASE ResetPrefixCache
  BY <1>6, ResetKeeps
<1>7. CASE UNCHANGED vars
  BY <1>7 DEF vars, CacheInv, TypeOK, MaxLen, PoolInv, TableInv, HashedInv, RequestInv, ReadInv
<1> QED
  BY <1>1, <1>2, <1>3, <1>4, <1>5, <1>6, <1>7 DEF Next

\* CacheInvariance: the books of the pool, the tables, the counters and the slots stay as CacheInv
\* says, whatever is admitted, scheduled, preempted, finished or reset.
THEOREM CacheInvariance ==
  Spec => []CacheInv
BY InitCache, NextCache, PTL DEF Spec

\* PoolAlwaysExact: reference counts, free queue, hashes and hash map always agree with each other
\* and with the block tables (block_pool.py, for every number of blocks and requests).
THEOREM PoolAlwaysExact ==
  Spec => []PoolExact
<1>1. CacheInv => PoolExact
  <2> SUFFICES ASSUME CacheInv
               PROVE  PoolExact
    OBVIOUS
  <2>1. TypeOK /\ PoolInv /\ TableInv
    BY DEF CacheInv
  <2>2. RefCountsExact
    BY <2>1 DEF RefCountsExact, PoolInv, TableInv, FreeExact, Counts, Tables, HoldersIn, Holders
  <2>3. HashMapExact
    BY <2>1 DEF HashMapExact, PoolInv, HashExact, HashedEntries
  <2> QED
    BY <2>1, <2>2, <2>3 DEF PoolExact
<1> QED
  BY <1>1, CacheInvariance, PTL

\* CachedBlocksAlwaysHold: a block a prefix lookup can return always holds the entries of exactly
\* the tokens its hash stands for, computed with the current weights.
THEOREM CachedBlocksAlwaysHold ==
  Spec => []CachedBlocksHoldTheirPrefix
<1>1. CacheInv => CachedBlocksHoldTheirPrefix
  <2> SUFFICES ASSUME CacheInv, NEW e \in ToSet(pool.cached), NEW i \in 1 .. BlockSize
               PROVE  Holds(e[2], i, Prefix(e[1], Len(e[1]) - BlockSize + i))
    BY DEF CachedBlocksHoldTheirPrefix
  <2>1. HashExact(pool) /\ HashedHold(kv, epoch, pool)
    BY DEF CacheInv, PoolInv, HashedInv
  <2>2. PICK b \in Blocks : pool.block_hash[b] # NoHash /\ e = <<pool.block_hash[b], b>>
    BY <2>1 DEF HashExact, HashedEntries
  <2>3. e[1] = pool.block_hash[b] /\ e[2] = b
    BY <2>2
  <2>4. kv[b][i] = Entry(epoch, Prefix(pool.block_hash[b], Len(pool.block_hash[b]) - BlockSize + i))
    BY <2>1, <2>2 DEF HashedHold
  <2> QED
    BY <2>3, <2>4 DEF Holds, Entry
<1> QED
  BY <1>1, CacheInvariance, PTL

\* ComputedTokensAlwaysHaveTheirKV: for every known token that counts as computed the request's
\* block table always leads to its entry.
THEOREM ComputedTokensAlwaysHaveTheirKV ==
  Spec => []ComputedTokensHaveTheirKV
<1>1. CacheInv => ComputedTokensHaveTheirKV
  <2> SUFFICES ASSUME CacheInv, NEW r \in Requests,
                      NEW q \in 1 .. Min({num_computed_tokens[r], Len(tokens[r])})
               PROVE  Holds(req_to_blocks[r][cdiv(q, BlockSize)], ((q - 1) % BlockSize) + 1,
                            Prefix(tokens[r], q))
    BY DEF ComputedTokensHaveTheirKV
  <2>0. TypeOK /\ RequestInv /\ ReadInv
    BY DEF CacheInv
  <2>1. PICK t, d, c, tb : /\ t = tokens[r] /\ d = step[r].drafts /\ c = num_computed_tokens[r]
                           /\ tb = req_to_blocks[r]
    OBVIOUS
  <2>2. t \in Seq(Token) /\ d \in Seq(Token) /\ c \in Nat /\ tb \in Seq(Blocks)
    <3>1. num_computed_tokens[r] \in 0 .. config.max_len
      BY <2>0, Types
    <3>2. step[r] \in [new : 0 .. config.max_len, drafts : Seq(Token)]
      BY <2>0, Types
    <3>3. tokens[r] \in Seq(Token) /\ req_to_blocks[r] \in Seq(Blocks)
      BY <2>0, Types
    <3> QED
      BY <2>1, <3>1, <3>2, <3>3
  <2>3. Len(t) \in Nat /\ Len(tb) \in Nat /\ BlockSize \in Nat \ {0}
    BY <2>2, KVAssumption
  <2>4. PICK m : m = Min({c, Len(t)})
    OBVIOUS
  <2>5. m = IF c <= Len(t) THEN c ELSE Len(t)
    <3>1. c \in Int /\ Len(t) \in Int
      BY <2>2, <2>3
    <3> QED
      BY <2>4, <3>1, MinOfTwo, Zenon
  <2>6. q \in 1 .. m
    BY <2>1, <2>4
  <2>7. q \in Nat \ {0} /\ q <= c /\ q <= Len(t)
    BY <2>2, <2>3, <2>5, <2>6
  <2>8. c <= Len(tb) * BlockSize
    BY <2>0, <2>1 DEF RequestInv, RequestOK
  <2>9. q <= Len(tb) * BlockSize
    <3>1. PICK x : x = Len(tb) * BlockSize
      OBVIOUS
    <3>2. x \in Nat /\ c <= x
      BY <2>3, <2>8, <3>1
    <3>3. q <= x
      BY <2>2, <2>7, <3>2
    <3> QED
      BY <3>1, <3>3
  <2>10. PICK j, i : j = cdiv(q, BlockSize) /\ i = ((q - 1) % BlockSize) + 1
    OBVIOUS
  <2>11. j \in 1 .. Len(tb) /\ i \in 1 .. BlockSize /\ q = Position(j, i)
    BY <2>3, <2>7, <2>9, <2>10, SlotOfTable
  <2>12. Readable(kv, epoch, tb, t \o d, c)
    BY <2>0, <2>1 DEF ReadInv
  <2>13. kv[tb[j]][i] = Entry(epoch, Prefix(t \o d, q))
    BY <2>7, <2>11, <2>12 DEF Readable
  <2>14. q \in 0 .. Len(t)
    BY <2>3, <2>7
  <2>15. Prefix(t \o d, q) = Prefix(t, q)
    BY <2>2, <2>14, PrefixOfConcat
  <2>16. Holds(tb[j], i, Prefix(t, q))
    BY <2>13, <2>15 DEF Holds, Entry
  <2> QED
    BY <2>1, <2>10, <2>16
<1> QED
  BY <1>1, CacheInvariance, PTL

\* The blocks the check counted are still there once the hits are off the free queue.
LEMMA EnoughAfterTouch ==
  ASSUME TypeOK, FreeExact(pool), NEW r \in Requests, NEW computed \in Nat, NEW new \in Nat,
         NEW hits \in Seq(Blocks), NEW hasScheduled, CanAllocate(r, computed, new, hits, hasScheduled)
  PROVE  NumNewBlocks(r, computed, new, hits) <= Len(touch(pool, hits).free)
<1>1. pool \in Pools
  BY Types
<1>2. PICK n, t, I : /\ n = NumNewBlocks(r, computed, new, hits) /\ t = touch(pool, hits)
                     /\ I = {i \in DOMAIN hits : pool.ref_cnt[hits[i]] = 0}
  OBVIOUS
<1>3. n \in Nat /\ n + Cardinality(I) <= Len(pool.free)
  BY <1>2, EnoughBlocks
<1>4. t \in Pools /\ Len(t.free) >= Len(pool.free) - Cardinality(I)
  BY <1>1, <1>2, TouchPool
<1>5. Cardinality(I) \in Nat
  <2>1. Len(hits) \in Nat /\ DOMAIN hits = 1 .. Len(hits)
    OBVIOUS
  <2>2. IsFiniteSet(1 .. Len(hits)) /\ I \subseteq 1 .. Len(hits)
    BY <1>2, <2>1, FS_Interval
  <2> QED
    BY <2>2, FS_Subset, FS_CardinalityType
<1>6. Len(t.free) \in Nat /\ Len(pool.free) \in Nat
  BY <1>1, <1>4 DEF Pools
<1>7. n <= Len(t.free)
  BY <1>3, <1>4, <1>5, <1>6
<1> QED
  BY <1>2, <1>7

\* BlocksNeverRunOut: whenever the check of allocate_slots passes, get_new_blocks finds the blocks
\* it is asked for, the hits taken off the free queue included.
THEOREM BlocksNeverRunOut ==
  Spec => []NeverOutOfBlocks
<1>1. CacheInv => NeverOutOfBlocks
  <2> SUFFICES ASSUME CacheInv, NEW r \in Requests,
                      NEW hits, hits = IF status[r] = "waiting" THEN get_computed_blocks(r) ELSE << >>,
                      NEW computed, computed = num_computed_tokens[r] + Len(hits) * BlockSize,
                      NEW new \in 1 .. MaxLen - computed, NEW hasScheduled \in BOOLEAN,
                      CanAllocate(r, computed, new, hits, hasScheduled)
               PROVE  NumNewBlocks(r, computed, new, hits) <= Len(touch(pool, hits).free)
    BY DEF NeverOutOfBlocks
  <2>0. TypeOK /\ PoolInv
    BY DEF CacheInv
  <2>1. pool \in Pools /\ config.max_len \in Nat /\ BlockSize \in Nat \ {0} /\ FreeExact(pool)
    BY <2>0, Types, KVAssumption DEF PoolInv
  <2>2. hits \in Seq(Blocks)
    <3>1. CASE status[r] = "waiting"
      <4>1. hits = get_computed_blocks(r)
        BY <3>1
      <4> QED
        BY <3>1, <4>1, Lookup
    <3>2. CASE status[r] # "waiting"
      BY <3>2
    <3> QED
      BY <3>1, <3>2
  <2>3. computed \in Nat
    <3>1. num_computed_tokens[r] \in 0 .. config.max_len
      BY <2>0, Types
    <3>2. Len(hits) \in Nat
      BY <2>2
    <3>3. Len(hits) * BlockSize \in Nat
      BY <2>1, <3>2
    <3> QED
      BY <2>1, <3>1, <3>3
  <2>4. new \in Nat
    BY <2>1, <2>3 DEF MaxLen
  <2> QED
    BY <2>0, <2>1, <2>2, <2>3, <2>4, EnoughAfterTouch
<1> QED
  BY <1>1, CacheInvariance, PTL
=============================================================================
