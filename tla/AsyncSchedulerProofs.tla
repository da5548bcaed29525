------------------------ MODULE AsyncSchedulerProofs ------------------------
(***************************************************************************)
(* Proofs about AsyncScheduler, for every finite set of requests, every    *)
(* number and size of blocks, every length, budget and number of drafts.   *)
(* Scheduler, frames in flight and worker keep three accounts of the same  *)
(* tokens; the invariant says how they add up for each request, according  *)
(* to whether it waits, is being prefilled or decodes, and what can be in  *)
(* flight for it then.                                                     *)
(***************************************************************************)
EXTENDS AsyncScheduler, SeqFilterProofs
-----------------------------------------------------------------------------
(* Sums over finite sets, as SumFunctionOnSet of the community modules     *)
(* computes them.                                                          *)

\* The element a sum takes next.
Chosen(s) == CHOOSE x \in s : TRUE

\* The element a sum takes next from a set, and the set it leaves.
LEMMA ChosenOf ==
  ASSUME NEW S, IsFiniteSet(S), NEW s \in SUBSET S, s # {}
  PROVE  /\ Chosen(s) \in s /\ s \ {Chosen(s)} \in SUBSET S
         /\ Cardinality(s) \in Nat /\ Cardinality(s \ {Chosen(s)}) = Cardinality(s) - 1
<1>1. Chosen(s) \in s
  BY Zenon DEF Chosen
<1>2. IsFiniteSet(s)
  BY FS_Subset
<1>3. Cardinality(s) \in Nat /\ Cardinality(s \ {Chosen(s)}) = Cardinality(s) - 1
  BY <1>1, <1>2, FS_CardinalityType, FS_RemoveElement, Zenon
<1> QED
  BY <1>1, <1>3

\* Induction over the subsets of a finite set, in the order a sum takes their elements.
LEMMA SubsetInduction ==
  ASSUME NEW S, IsFiniteSet(S), NEW Q, {} \in Q,
         \A s \in SUBSET S : s # {} /\ s \ {Chosen(s)} \in Q => s \in Q
  PROVE  \A s \in SUBSET S : s \in Q
<1> DEFINE Bad == {Cardinality(s) : s \in {u \in SUBSET S : u \notin Q}}
<1>1. SUFFICES ASSUME NEW u \in SUBSET S, u \notin Q
               PROVE  FALSE
  OBVIOUS
<1>2. \A s \in SUBSET S : Cardinality(s) \in Nat
  BY FS_Subset, FS_CardinalityType
<1>3. Bad \subseteq Nat /\ Bad # {}
  BY <1>1, <1>2
<1>4. PICK m \in Bad : \A k \in Bad : m <= k
  BY <1>3, LeastNumber
<1>5. PICK s \in SUBSET S : s \notin Q /\ m = Cardinality(s)
  BY <1>4
<1>6. s # {}
  BY <1>5
<1>7. /\ s \ {Chosen(s)} \in SUBSET S
      /\ Cardinality(s) \in Nat /\ Cardinality(s \ {Chosen(s)}) = Cardinality(s) - 1
  BY <1>5, <1>6, ChosenOf
<1>8. s \ {Chosen(s)} \notin Q
  BY <1>5, <1>6
<1>9. Cardinality(s \ {Chosen(s)}) \in Bad
  BY <1>7, <1>8
<1>10. m <= Cardinality(s \ {Chosen(s)})
  BY <1>4, <1>9, Zenon
<1> QED
  BY <1>5, <1>7, <1>10

\* F is the function SumFunctionOnSet builds for the subsets of at most n elements.
Adds(F, f, S, n) ==
  F = [s \in {u \in SUBSET S : Cardinality(u) <= n} |->
         IF s = {} THEN 0 ELSE f[Chosen(s)] + F[s \ {Chosen(s)}]]

\* The partial sums of f over the subsets of S with at most n elements exist.
LEMMA AddsExist ==
  ASSUME NEW f, NEW S, IsFiniteSet(S), NEW n \in Nat
  PROVE  \E F : Adds(F, f, S, n)
<1> DEFINE Bad == {k \in Nat : ~ \E F : Adds(F, f, S, k)}
           Small(k) == {u \in SUBSET S : Cardinality(u) <= k}
<1>1. SUFFICES ASSUME Bad # {}
               PROVE  FALSE
  OBVIOUS
<1>2. PICK m \in Bad : \A k \in Bad : m <= k
  BY <1>1, LeastNumber
<1>3. m \in Nat /\ ~ \E F : Adds(F, f, S, m)
  OBVIOUS
<1>4. m # 0
  <2>1. ASSUME NEW u \in Small(0)
        PROVE  u = {}
    <3>1. IsFiniteSet(u)
      BY FS_Subset
    <3>2. Cardinality(u) \in Nat /\ Cardinality(u) <= 0
      BY <3>1, FS_CardinalityType
    <3>3. Cardinality(u) = 0
      BY <3>2
    <3> QED
      BY <3>1, <3>3, FS_EmptySet
  <2> DEFINE Z == [s \in Small(0) |-> 0]
  <2>2. Z = [s \in Small(0) |-> IF s = {} THEN 0 ELSE f[Chosen(s)] + Z[s \ {Chosen(s)}]]
    BY <2>1
  <2>3. Adds(Z, f, S, 0)
    BY <2>2 DEF Adds
  <2> QED
    BY <1>3, <2>3
<1>5. m - 1 \in Nat /\ m - 1 \notin Bad
  BY <1>2, <1>3, <1>4
<1>6. PICK F : Adds(F, f, S, m - 1)
  BY <1>5
<1> DEFINE B(s) == IF s = {} THEN 0 ELSE f[Chosen(s)] + F[s \ {Chosen(s)}]
           G == [s \in Small(m) |-> B(s)]
<1>7. ASSUME NEW s \in Small(m - 1)
      PROVE  F[s] = B(s)
  BY <1>6 DEF Adds
<1>8. ASSUME NEW s \in Small(m), s # {}
      PROVE  s \ {Chosen(s)} \in Small(m - 1) /\ s \ {Chosen(s)} \in Small(m)
  <2>1. /\ s \ {Chosen(s)} \in SUBSET S
        /\ Cardinality(s) \in Nat /\ Cardinality(s \ {Chosen(s)}) = Cardinality(s) - 1
    BY <1>8, ChosenOf
  <2> QED
    BY <2>1, <1>3
<1>9. ASSUME NEW s \in Small(m), s # {}
      PROVE  G[s \ {Chosen(s)}] = F[s \ {Chosen(s)}]
  <2>1. PICK u : u = s \ {Chosen(s)}
    OBVIOUS
  <2>2. u \in Small(m - 1) /\ u \in Small(m)
    BY <1>8, <1>9, <2>1
  <2>3. F[u] = B(u) /\ G[u] = B(u)
    BY <1>7, <2>2, Zenon
  <2> QED
    BY <2>1, <2>3, Zenon
<1>10. G = [s \in Small(m) |-> IF s = {} THEN 0 ELSE f[Chosen(s)] + G[s \ {Chosen(s)}]]
  <2> DEFINE H == [s \in Small(m) |-> IF s = {} THEN 0 ELSE f[Chosen(s)] + G[s \ {Chosen(s)}]]
  <2>1. ASSUME NEW s \in Small(m)
        PROVE  G[s] = H[s]
    <3>1. G[s] = B(s) /\ H[s] = IF s = {} THEN 0 ELSE f[Chosen(s)] + G[s \ {Chosen(s)}]
      BY Zenon
    <3> HIDE DEF G, H
    <3> QED
      BY <3>1, <1>9, Zenon
  <2> QED
    BY <2>1, Zenon
<1>11. Adds(G, f, S, m)
  BY <1>10, Zenon DEF Adds
<1> QED
  BY <1>3, <1>11

\* The function SumFunctionOnSet builds: the sum over every subset.
Sums(f, S) ==
  CHOOSE F : F = [s \in SUBSET S |-> IF s = {} THEN 0 ELSE f[Chosen(s)] + F[s \ {Chosen(s)}]]

\* A sum is 0 over no elements and unfolds one element at a time.
LEMMA SumUnfolds ==
  ASSUME NEW f, NEW S, IsFiniteSet(S)
  PROVE  /\ SumFunctionOnSet(f, S) = Sums(f, S)[S]
         /\ Sums(f, S)[{}] = 0
         /\ \A s \in SUBSET S : s # {} =>
              Sums(f, S)[s] = f[Chosen(s)] + Sums(f, S)[s \ {Chosen(s)}]
<1>1. SumFunctionOnSet(f, S) = Sums(f, S)[S]
  BY Zenon DEF SumFunctionOnSet, FoldFunctionOnSet, MapThenFoldSet, Sums, Chosen
<1>2. Cardinality(S) \in Nat
  BY FS_CardinalityType
<1>3. PICK F : Adds(F, f, S, Cardinality(S))
  BY <1>2, AddsExist
<1>4. \A u \in SUBSET S : Cardinality(u) <= Cardinality(S)
  BY FS_Subset, Zenon
<1>5. {u \in SUBSET S : Cardinality(u) <= Cardinality(S)} = SUBSET S
  BY <1>4, Zenon
<1>6. F = [s \in SUBSET S |-> IF s = {} THEN 0 ELSE f[Chosen(s)] + F[s \ {Chosen(s)}]]
  BY <1>3, <1>5, Zenon DEF Adds
<1>7. PICK T : T = Sums(f, S)
  OBVIOUS
<1>8. T = [s \in SUBSET S |-> IF s = {} THEN 0 ELSE f[Chosen(s)] + T[s \ {Chosen(s)}]]
  BY <1>6, <1>7, Zenon DEF Sums
<1>9. {} \in SUBSET S
  OBVIOUS
<1>10. T[{}] = 0 /\ \A s \in SUBSET S : s # {} => T[s] = f[Chosen(s)] + T[s \ {Chosen(s)}]
  <2>1. \A s \in SUBSET S : T[s] = IF s = {} THEN 0 ELSE f[Chosen(s)] + T[s \ {Chosen(s)}]
    BY <1>8, Zenon
  <2> QED
    BY <1>9, <2>1, Zenon
<1> QED
  BY <1>1, <1>7, <1>10, Zenon

\* Sums of integers are integers.
LEMMA SumIsInt ==
  ASSUME NEW f, NEW S, IsFiniteSet(S), \A x \in S : f[x] \in Int
  PROVE  \A s \in SUBSET S : Sums(f, S)[s] \in Int
<1> DEFINE Q == {s \in SUBSET S : Sums(f, S)[s] \in Int}
<1>u. \A s \in SUBSET S : s # {} => Sums(f, S)[s] = f[Chosen(s)] + Sums(f, S)[s \ {Chosen(s)}]
  BY SumUnfolds
<1>1. {} \in Q
  BY SumUnfolds
<1>2. ASSUME NEW s \in SUBSET S, s # {}, s \ {Chosen(s)} \in Q
      PROVE  s \in Q
  <2>1. Chosen(s) \in S
    BY <1>2, ChosenOf
  <2>2. Sums(f, S)[s] = f[Chosen(s)] + Sums(f, S)[s \ {Chosen(s)}]
    BY <1>2, <1>u
  <2>3. f[Chosen(s)] \in Int /\ Sums(f, S)[s \ {Chosen(s)}] \in Int
    BY <1>2, <2>1
  <2> QED
    BY <2>2, <2>3
<1>3. \A s \in SUBSET S : s \in Q
  BY <1>1, <1>2, SubsetInduction, Zenon
<1> QED
  BY <1>3

\* A sum of zeros is 0.
LEMMA SumOfZeros ==
  ASSUME NEW f, NEW S, IsFiniteSet(S), \A x \in S : f[x] = 0
  PROVE  SumFunctionOnSet(f, S) = 0
<1> DEFINE Q == {s \in SUBSET S : Sums(f, S)[s] = 0}
<1>u. \A s \in SUBSET S : s # {} => Sums(f, S)[s] = f[Chosen(s)] + Sums(f, S)[s \ {Chosen(s)}]
  BY SumUnfolds
<1>1. {} \in Q
  BY SumUnfolds
<1>2. ASSUME NEW s \in SUBSET S, s # {}, s \ {Chosen(s)} \in Q
      PROVE  s \in Q
  <2>1. Chosen(s) \in S
    BY <1>2, ChosenOf
  <2>2. Sums(f, S)[s] = f[Chosen(s)] + Sums(f, S)[s \ {Chosen(s)}]
    BY <1>2, <1>u
  <2>3. f[Chosen(s)] = 0 /\ Sums(f, S)[s \ {Chosen(s)}] = 0
    BY <1>2, <2>1
  <2> QED
    BY <2>2, <2>3
<1>3. \A s \in SUBSET S : s \in Q
  BY <1>1, <1>2, SubsetInduction, Zenon
<1> QED
  BY <1>3, SumUnfolds

\* Where no term is larger, the sum is not.
LEMMA SumMonotone ==
  ASSUME NEW f, NEW g, NEW S, IsFiniteSet(S),
         \A x \in S : f[x] \in Int /\ g[x] \in Int /\ g[x] <= f[x]
  PROVE  /\ SumFunctionOnSet(f, S) \in Int /\ SumFunctionOnSet(g, S) \in Int
         /\ SumFunctionOnSet(g, S) <= SumFunctionOnSet(f, S)
<1> DEFINE Q == {s \in SUBSET S : Sums(g, S)[s] <= Sums(f, S)[s]}
<1>0. \A s \in SUBSET S : Sums(f, S)[s] \in Int /\ Sums(g, S)[s] \in Int
  BY SumIsInt
<1>1. {} \in Q
  <2>1. Sums(f, S)[{}] = 0 /\ Sums(g, S)[{}] = 0
    BY SumUnfolds
  <2> QED
    BY <2>1
<1>2. ASSUME NEW s \in SUBSET S, s # {}, s \ {Chosen(s)} \in Q
      PROVE  s \in Q
  <2>1. Chosen(s) \in S /\ s \ {Chosen(s)} \in SUBSET S
    BY <1>2, ChosenOf
  <2>2. /\ Sums(f, S)[s] = f[Chosen(s)] + Sums(f, S)[s \ {Chosen(s)}]
        /\ Sums(g, S)[s] = g[Chosen(s)] + Sums(g, S)[s \ {Chosen(s)}]
    BY <1>2, SumUnfolds
  <2>3. /\ f[Chosen(s)] \in Int /\ g[Chosen(s)] \in Int /\ g[Chosen(s)] <= f[Chosen(s)]
        /\ Sums(g, S)[s \ {Chosen(s)}] <= Sums(f, S)[s \ {Chosen(s)}]
        /\ Sums(f, S)[s \ {Chosen(s)}] \in Int /\ Sums(g, S)[s \ {Chosen(s)}] \in Int
    BY <1>0, <1>2, <2>1
  <2> QED
    BY <2>2, <2>3
<1>3. \A s \in SUBSET S : s \in Q
  BY <1>1, <1>2, SubsetInduction, Zenon
<1>4. S \in SUBSET S
  OBVIOUS
<1> QED
  BY <1>0, <1>3, <1>4, SumUnfolds

\* Changing one term changes the sum by the difference.
LEMMA SumOfOneMore ==
  ASSUME NEW f, NEW S, IsFiniteSet(S), NEW x \in S, NEW v \in Int, NEW g,
         \A y \in S : f[y] \in Int, g[x] = v, \A y \in S : y # x => g[y] = f[y]
  PROVE  /\ SumFunctionOnSet(f, S) \in Int
         /\ SumFunctionOnSet(g, S) = SumFunctionOnSet(f, S) + (v - f[x])
<1> DEFINE Q == {s \in SUBSET S : Sums(g, S)[s] = Sums(f, S)[s] + (IF x \in s THEN v - f[x] ELSE 0)}
<1>0. \A y \in S : g[y] \in Int
  OBVIOUS
<1>a. \A s \in SUBSET S : Sums(f, S)[s] \in Int /\ Sums(g, S)[s] \in Int
  BY <1>0, SumIsInt
<1>1. {} \in Q
  <2>1. Sums(f, S)[{}] = 0 /\ Sums(g, S)[{}] = 0
    BY SumUnfolds
  <2> QED
    BY <2>1
<1>2. ASSUME NEW s \in SUBSET S, s # {}, s \ {Chosen(s)} \in Q
      PROVE  s \in Q
  <2>0. PICK a, u : a = Chosen(s) /\ u = s \ {a}
    OBVIOUS
  <2>1. a \in s /\ a \in S /\ u \in SUBSET S
    BY <1>2, <2>0, ChosenOf
  <2>2. Sums(f, S)[s] = f[a] + Sums(f, S)[u] /\ Sums(g, S)[s] = g[a] + Sums(g, S)[u]
    BY <1>2, <2>0, SumUnfolds
  <2>3. /\ f[a] \in Int /\ g[a] \in Int /\ f[x] \in Int
        /\ Sums(f, S)[u] \in Int /\ Sums(g, S)[u] \in Int
    BY <1>0, <1>a, <2>1
  <2>4. Sums(g, S)[u] = Sums(f, S)[u] + (IF x \in u THEN v - f[x] ELSE 0)
    BY <1>2, <2>0
  <2>5. CASE a = x
    <3>1. x \in s /\ x \notin u
      BY <2>0, <2>1, <2>5
    <3> QED
      BY <2>2, <2>3, <2>4, <2>5, <3>1
  <2>6. CASE a # x
    <3>1. g[a] = f[a] /\ (x \in s <=> x \in u)
      BY <2>0, <2>1, <2>6
    <3> QED
      BY <2>2, <2>3, <2>4, <3>1
  <2> QED
    BY <2>5, <2>6
<1> HIDE DEF Q
<1>3. \A s \in SUBSET S : s \in Q
  BY <1>1, <1>2, SubsetInduction, Zenon
<1> USE DEF Q
<1>4. S \in SUBSET S
  OBVIOUS
<1>5. Sums(g, S)[S] = Sums(f, S)[S] + (v - f[x])
  BY <1>3, <1>4
<1> QED
  BY <1>a, <1>4, <1>5, SumUnfolds

\* With at most two batches in flight a sum over them has two summands.
LEMMA SumOfTwo ==
  ASSUME NEW f, DOMAIN f \subseteq {1, 2}, \A i \in DOMAIN f : f[i] \in Int
  PROVE  SumFunction(f) = (IF 1 \in DOMAIN f THEN f[1] ELSE 0)
                            + (IF 2 \in DOMAIN f THEN f[2] ELSE 0)
<1>1. PICK S : S = DOMAIN f
  OBVIOUS
<1>2. IsFiniteSet(S)
  <2>1. IsFiniteSet(1 .. 2)
    BY 1 \in Int, 2 \in Int, FS_Interval, Zenon
  <2>2. S \subseteq 1 .. 2
    BY <1>1
  <2> QED
    BY <2>1, <2>2, FS_Subset
<1>3. /\ SumFunction(f) = Sums(f, S)[S] /\ Sums(f, S)[{}] = 0
      /\ \A s \in SUBSET S : s # {} =>
              Sums(f, S)[s] = f[Chosen(s)] + Sums(f, S)[s \ {Chosen(s)}]
  <2>1. SumFunction(f) = SumFunctionOnSet(f, S)
    BY <1>1, Zenon DEF SumFunction
  <2>2. SumFunctionOnSet(f, S) = Sums(f, S)[S] /\ Sums(f, S)[{}] = 0
    BY <1>2, SumUnfolds
  <2>3. \A s \in SUBSET S : s # {} => Sums(f, S)[s] = f[Chosen(s)] + Sums(f, S)[s \ {Chosen(s)}]
    BY <1>2, SumUnfolds
  <2> QED
    BY <2>1, <2>2, <2>3, Zenon
<1>4. \A s \in SUBSET S : s # {} => Chosen(s) \in s
  BY Zenon DEF Chosen
<1>5. S = {} \/ S = {1} \/ S = {2} \/ S = {1, 2}
  BY <1>1
<1>6. \A x \in S : Sums(f, S)[{x}] = f[x]
  <2> TAKE x \in S
  <2>1. {x} \in SUBSET S /\ {x} # {}
    OBVIOUS
  <2>2. Chosen({x}) = x
    BY <1>4, <2>1
  <2>3. {x} \ {x} = {}
    OBVIOUS
  <2> QED
    BY <1>1, <1>3, <2>1, <2>2, <2>3
<1>7. CASE S = {1, 2}
  <2>1. Chosen(S) = 1 \/ Chosen(S) = 2
    BY <1>4, <1>7
  <2>2. S \ {1} = {2} /\ S \ {2} = {1} /\ S \in SUBSET S /\ S # {}
    BY <1>7
  <2>3. Sums(f, S)[S] = f[Chosen(S)] + Sums(f, S)[S \ {Chosen(S)}]
    BY <1>3, <2>2
  <2>4. Sums(f, S)[{1}] = f[1] /\ Sums(f, S)[{2}] = f[2] /\ f[1] \in Int /\ f[2] \in Int
    BY <1>1, <1>6, <1>7
  <2>5. Sums(f, S)[S] = f[1] + f[2]
    <3>1. CASE Chosen(S) = 1
      BY <2>2, <2>3, <2>4, <3>1
    <3>2. CASE Chosen(S) = 2
      <4>1. Sums(f, S)[S] = f[2] + f[1]
        BY <2>2, <2>3, <2>4, <3>2
      <4> QED
        BY <2>4, <4>1
    <3> QED
      BY <2>1, <3>1, <3>2
  <2> QED
    BY <1>1, <1>3, <1>7, <2>5
<1>8. CASE S = {}
  BY <1>1, <1>3, <1>8
<1>9. CASE S = {1}
  BY <1>1, <1>3, <1>6, <1>9
<1>10. CASE S = {2}
  BY <1>1, <1>3, <1>6, <1>10
<1> QED
  BY <1>5, <1>7, <1>8, <1>9, <1>10
-----------------------------------------------------------------------------
(* Queues.                                                                 *)

\* Filtering a queue does not make it longer.
LEMMA KeepShorter ==
  ASSUME NEW T, NEW s \in Seq(T), NEW S, IsInjective(s)
  PROVE  Len(Keep(s, S)) <= Len(s)
<1>1. PICK k : k = Keep(s, S)
  OBVIOUS
<1>2. k \in Seq(T) /\ IsInjective(k) /\ ToSet(k) \subseteq ToSet(s)
  BY <1>1, KeepProperties
<1>3. IsFiniteSet(ToSet(s)) /\ Cardinality(ToSet(s)) = Len(s)
  BY InjectiveLength
<1>4. Cardinality(ToSet(k)) = Len(k)
  BY <1>2, InjectiveLength
<1>5. Cardinality(ToSet(k)) <= Cardinality(ToSet(s))
  BY <1>2, <1>3, FS_Subset
<1> QED
  BY <1>1, <1>3, <1>4, <1>5

\* A queue without its last element (what _preempt_request leaves of running).
LEMMA FrontLast ==
  ASSUME NEW T, NEW s \in Seq(T), s # << >>, IsInjective(s)
  PROVE  /\ Front(s) \in Seq(T) /\ Len(Front(s)) = Len(s) - 1 /\ Len(s) \in Nat \ {0}
         /\ \A i \in 1 .. Len(s) - 1 : Front(s)[i] = s[i]
         /\ Last(s) \in ToSet(s) /\ Last(s) = s[Len(s)]
         /\ ToSet(Front(s)) = ToSet(s) \ {Last(s)}
         /\ IsInjective(Front(s))
<1>1. Len(s) \in Nat \ {0} /\ Len(s) - 1 \in 0 .. Len(s)
  OBVIOUS
<1>2. PICK u : u = Front(s)
  OBVIOUS
<1>3. u = SubSeq(s, 1, Len(s) - 1)
  BY <1>2 DEF Front
<1>4. /\ u \in Seq(T) /\ Len(u) = Len(s) - 1
      /\ \A i \in 1 .. Len(s) - 1 : u[i] = s[i]
      /\ IsInjective(u)
  <2>1. PICK n \in 0 .. Len(s) : n = Len(s) - 1
    BY <1>1
  <2>2. SubSeq(s, 1, n) \in Seq(T) /\ Len(SubSeq(s, 1, n)) = n
    BY SplitSets
  <2>3. \A i \in 1 .. n : SubSeq(s, 1, n)[i] = s[i]
    BY SplitSets
  <2>4. IsInjective(SubSeq(s, 1, n))
    BY SplitSets, Zenon
  <2>5. u = SubSeq(s, 1, n)
    BY <1>3, <2>1
  <2> QED
    BY <2>1, <2>2, <2>3, <2>4, <2>5
<1>5. \A x : x \in ToSet(s) <=> \E i \in 1 .. Len(s) : s[i] = x
  BY InToSet
<1>6. \A x : x \in ToSet(u) <=> \E i \in 1 .. Len(u) : u[i] = x
  BY <1>4, InToSet
<1>7. \A i, j \in 1 .. Len(s) : s[i] = s[j] => i = j
  BY InToSet
<1>8. Last(s) = s[Len(s)] /\ Last(s) \in ToSet(s)
  BY <1>1, <1>5 DEF Last
<1>9. ASSUME NEW x
      PROVE  x \in ToSet(u) <=> x \in ToSet(s) \ {Last(s)}
  <2>1. ASSUME x \in ToSet(u)
        PROVE  x \in ToSet(s) \ {Last(s)}
    <3>1. PICK i \in 1 .. Len(s) - 1 : u[i] = x
      BY <1>4, <1>6, <2>1
    <3>2. s[i] = x /\ i \in 1 .. Len(s) /\ i # Len(s) /\ Len(s) \in 1 .. Len(s)
      BY <1>1, <1>4, <3>1
    <3>3. x \in ToSet(s)
      BY <1>5, <3>2
    <3>4. x # s[Len(s)]
      BY <1>7, <3>2
    <3> QED
      BY <1>8, <3>3, <3>4
  <2>2. ASSUME x \in ToSet(s) \ {Last(s)}
        PROVE  x \in ToSet(u)
    <3>1. PICK i \in 1 .. Len(s) : s[i] = x
      BY <1>5, <2>2
    <3>2. i # Len(s)
      BY <1>8, <2>2, <3>1
    <3>3. i \in 1 .. Len(s) - 1
      BY <1>1, <3>1, <3>2
    <3>4. u[i] = x /\ i \in 1 .. Len(u)
      BY <1>4, <3>1, <3>3
    <3> QED
      BY <1>6, <3>4
  <2> QED
    BY <2>1, <2>2
<1>10. ToSet(u) = ToSet(s) \ {Last(s)}
  BY <1>9
<1> QED
  BY <1>1, <1>2, <1>4, <1>8, <1>10

\* A queue without its first element (what admission leaves of waiting).
LEMMA HeadTailSets ==
  ASSUME NEW T, NEW s \in Seq(T), s # << >>, IsInjective(s)
  PROVE  /\ Tail(s) \in Seq(T) /\ Len(Tail(s)) = Len(s) - 1 /\ Len(s) \in Nat \ {0}
         /\ Head(s) \in ToSet(s) /\ Head(s) = s[1]
         /\ ToSet(Tail(s)) = ToSet(s) \ {Head(s)}
         /\ IsInjective(Tail(s))
<1>1. Len(s) \in Nat \ {0}
  OBVIOUS
<1>2. PICK u : u = Tail(s)
  OBVIOUS
<1>3. /\ u \in Seq(T) /\ Len(u) = Len(s) - 1
      /\ \A i \in 1 .. Len(s) - 1 : u[i] = s[i + 1]
  BY <1>1, <1>2
<1>5. \A x : x \in ToSet(s) <=> \E i \in 1 .. Len(s) : s[i] = x
  BY InToSet
<1>6. \A x : x \in ToSet(u) <=> \E i \in 1 .. Len(u) : u[i] = x
  BY <1>3, InToSet
<1>7. \A i, j \in 1 .. Len(s) : s[i] = s[j] => i = j
  BY InToSet
<1>8. Head(s) = s[1] /\ Head(s) \in ToSet(s)
  BY <1>1, <1>5
<1>9. ASSUME NEW x
      PROVE  x \in ToSet(u) <=> x \in ToSet(s) \ {Head(s)}
  <2>1. ASSUME x \in ToSet(u)
        PROVE  x \in ToSet(s) \ {Head(s)}
    <3>1. PICK i \in 1 .. Len(s) - 1 : u[i] = x
      BY <1>3, <1>6, <2>1
    <3>2. s[i + 1] = x /\ i + 1 \in 1 .. Len(s) /\ i + 1 # 1 /\ 1 \in 1 .. Len(s)
      BY <1>1, <1>3, <3>1
    <3>3. x \in ToSet(s)
      BY <1>5, <3>2
    <3>4. x # s[1]
      BY <1>7, <3>2
    <3> QED
      BY <1>8, <3>3, <3>4
  <2>2. ASSUME x \in ToSet(s) \ {Head(s)}
        PROVE  x \in ToSet(u)
    <3>1. PICK i \in 1 .. Len(s) : s[i] = x
      BY <1>5, <2>2
    <3>2. i # 1
      BY <1>8, <2>2, <3>1
    <3>3. i - 1 \in 1 .. Len(s) - 1 /\ i - 1 \in 1 .. Len(u) /\ (i - 1) + 1 = i
      BY <1>1, <1>3, <3>1, <3>2
    <3>4. u[i - 1] = x
      BY <1>3, <3>1, <3>3
    <3> QED
      BY <1>6, <3>3, <3>4
  <2> QED
    BY <2>1, <2>2
<1>10. ToSet(u) = ToSet(s) \ {Head(s)}
  BY <1>9
<1>11. IsInjective(u)
  <2>1. ASSUME NEW i \in 1 .. Len(u), NEW j \in 1 .. Len(u), u[i] = u[j]
        PROVE  i = j
    <3>1. i + 1 \in 1 .. Len(s) /\ j + 1 \in 1 .. Len(s) /\ u[i] = s[i + 1] /\ u[j] = s[j + 1]
      BY <1>1, <1>3
    <3>2. i + 1 = j + 1
      BY <1>7, <2>1, <3>1
    <3> QED
      BY <3>2
  <2> QED
    BY <1>3, <2>1, InToSet
<1> QED
  BY <1>1, <1>2, <1>3, <1>8, <1>10, <1>11

\* A request put in front of a queue (prepend_request).
LEMMA PushFront ==
  ASSUME NEW T, NEW s \in Seq(T), IsInjective(s), NEW x \in T, x \notin ToSet(s)
  PROVE  /\ <<x>> \o s \in Seq(T)
         /\ ToSet(<<x>> \o s) = ToSet(s) \cup {x}
         /\ IsInjective(<<x>> \o s)
<1>1. PICK u : u = <<x>>
  OBVIOUS
<1>2. u \in Seq(T) /\ Len(u) = 1 /\ u[1] = x
  BY <1>1
<1>3. ToSet(u) = {x}
  BY <1>2, InToSet
<1>4. IsInjective(u)
  BY <1>2, InToSet
<1>5. /\ u \o s \in Seq(T) /\ ToSet(u \o s) = ToSet(u) \cup ToSet(s) /\ IsInjective(u \o s)
  BY <1>2, <1>3, <1>4, ConcatSets
<1> QED
  BY <1>1, <1>3, <1>5
-----------------------------------------------------------------------------
(***************************************************************************)
(* The queues and the batch being built.  Only requests in front of index  *)
(* are in the batch, so that the victim of a preemption, the last running  *)
(* request, never is; no request is admitted after a preemption.           *)
(***************************************************************************)
BatchPlaces ==
  /\ phase \in {"idle", "running", "waiting", "dispatch"}
  /\ index \in Nat \ {0} /\ index <= Len(running) + 1
  /\ DOMAIN batch \subseteq ToSet(running)
  /\ admitted \subseteq DOMAIN batch
  /\ \A r \in preempted : r \in Requests /\ status[r] = "preempted"
  /\ \A r \in finished_req_ids : r \in Requests /\ status[r] = "finished"
  /\ phase = "idle" => DOMAIN batch = {} /\ admitted = {} /\ preempted = {} /\ index = 1
  /\ phase = "running" =>
       admitted = {} /\ \A s \in DOMAIN batch : \E j \in 1 .. index - 1 : running[j] = s
  /\ phase = "waiting" => preempted = {}

Statuses == {"new", "waiting", "preempted", "running", "finished"}

QueueTypes ==
  /\ config \in Configs
  /\ status \in [Requests -> Statuses]
  /\ running \in Seq(Requests) /\ waiting \in Seq(Requests)

QueueInv == QueueTypes /\ QueuesMatchStatus /\ BatchPlaces

\* The queues are empty at first.
LEMMA InitQueue == Init => QueueInv
<1> SUFFICES ASSUME Init
             PROVE  QueueInv
  OBVIOUS
<1>1. QueueTypes
  BY DEF Init, QueueTypes, Statuses
<1>2. ToSet(running) = {} /\ ToSet(waiting) = {} /\ Len(running) = 0
  BY DEF Init, ToSet
<1>3. IsInjective(running) /\ IsInjective(waiting)
  BY DEF Init, IsInjective
<1>4. QueuesMatchStatus
  BY <1>2, <1>3, SchedulerAssumption DEF Init, QueuesMatchStatus
<1>5. BatchPlaces
  BY <1>2 DEF Init, BatchPlaces
<1> QED
  BY <1>1, <1>4, <1>5 DEF QueueInv

\* Steps that leave the queues and the finished requests alone.
LEMMA SameQueues ==
  ASSUME QueueInv, UNCHANGED <<config, status, running, waiting>>, BatchPlaces'
  PROVE  QueueInv'
<1>1. QueueTypes'
  BY DEF QueueInv, QueueTypes
<1>2. QueuesMatchStatus'
  BY DEF QueueInv, QueuesMatchStatus
<1> QED
  BY <1>1, <1>2 DEF QueueInv

\* add_request puts a new request at the end of waiting.
LEMMA AddQueue ==
  ASSUME QueueInv, NEW r \in Requests, add_request(r)
  PROVE  QueueInv'
<1> USE DEF add_request
<1>1. QueueTypes /\ QueuesMatchStatus /\ BatchPlaces
  BY DEF QueueInv
<1>2. r \notin ToSet(waiting) /\ r \notin ToSet(running) /\ waiting \in Seq(Requests)
  BY <1>1 DEF QueueTypes, QueuesMatchStatus
<1>3. /\ waiting' \in Seq(Requests) /\ ToSet(waiting') = ToSet(waiting) \cup {r}
      /\ IsInjective(waiting')
  BY <1>1, <1>2, AppendToSet DEF QueuesMatchStatus
<1>4. \A x \in Requests : status'[x] = IF x = r THEN "waiting" ELSE status[x]
  BY <1>1 DEF QueueTypes
<1>5. QueueTypes'
  BY <1>1, <1>3 DEF QueueTypes, Statuses
<1>6. QueuesMatchStatus'
  BY <1>1, <1>3, <1>4 DEF QueuesMatchStatus
<1>7. BatchPlaces'
  BY <1>1, <1>4 DEF BatchPlaces, schedVars
<1> QED
  BY <1>5, <1>6, <1>7 DEF QueueInv

\* Removing a set of requests from both queues, once they are finished.
LEMMA RemoveQueue ==
  ASSUME QueueInv, phase = "idle", NEW S \in SUBSET Unfinished,
         running' = Without(running, S), waiting' = Without(waiting, S),
         status' = [x \in Requests |-> IF x \in S THEN "finished" ELSE status[x]],
         finished_req_ids' = finished_req_ids \cup S,
         UNCHANGED <<config, schedVars>>
  PROVE  QueueInv'
<1>1. QueueTypes /\ QueuesMatchStatus /\ BatchPlaces
  BY DEF QueueInv
<1>2. running \in Seq(Requests) /\ waiting \in Seq(Requests)
  BY <1>1 DEF QueueTypes
<1>3. /\ running' \in Seq(Requests) /\ ToSet(running') = ToSet(running) \cap (Requests \ S)
      /\ IsInjective(running') /\ Len(running') <= Len(running)
  BY <1>1, <1>2, KeepProperties, KeepShorter DEF Without, QueuesMatchStatus
<1>4. /\ waiting' \in Seq(Requests) /\ ToSet(waiting') = ToSet(waiting) \cap (Requests \ S)
      /\ IsInjective(waiting')
  BY <1>1, <1>2, KeepProperties DEF Without, QueuesMatchStatus
<1>5. \A x \in Requests : status'[x] = IF x \in S THEN "finished" ELSE status[x]
  OBVIOUS
<1>6. QueueTypes'
  BY <1>1, <1>3, <1>4 DEF QueueTypes, Statuses
<1>7. QueuesMatchStatus'
  <2>1. ToSet(running') = {x \in Requests : status'[x] = "running"}
    BY <1>1, <1>3, <1>5 DEF QueuesMatchStatus
  <2>2. ToSet(waiting') = {x \in Requests : status'[x] \in {"waiting", "preempted"}}
    BY <1>1, <1>4, <1>5 DEF QueuesMatchStatus
  <2>3. Len(running') <= MaxRunning
    <3>1. Len(running) \in Nat /\ Len(running') \in Nat
      BY <1>2, <1>3
    <3> QED
      BY <1>1, <1>3, <3>1, SchedulerAssumption DEF QueuesMatchStatus
  <2> QED
    BY <1>3, <1>4, <2>1, <2>2, <2>3 DEF QueuesMatchStatus
<1>8. BatchPlaces'
  <2>1. Len(running') \in Nat
    BY <1>3
  <2>2. S \subseteq Requests
    BY DEF Unfinished
  <2> QED
    BY <1>1, <1>5, <2>1, <2>2 DEF BatchPlaces, schedVars
<1> QED
  BY <1>6, <1>7, <1>8 DEF QueueInv

\* finish_requests takes an aborted request from its queue.
LEMMA AbortQueue ==
  ASSUME QueueInv, NEW r \in Requests, abort_request(r)
  PROVE  QueueInv'
<1>1. status \in [Requests -> Statuses]
  BY DEF QueueInv, QueueTypes
<1>2. status' = [x \in Requests |-> IF x \in {r} THEN "finished" ELSE status[x]]
  BY <1>1 DEF abort_request
<1>3. {r} \in SUBSET Unfinished
  BY DEF abort_request
<1> QED
  BY <1>2, <1>3, RemoveQueue DEF abort_request

\* update_from_output takes the stopped requests from both queues.
LEMMA OutputQueue ==
  ASSUME QueueInv, NEW stopAt, NEW counts, update_from_output(stopAt, counts)
  PROVE  QueueInv'
<1> DEFINE S == {r \in {q \in DOMAIN Frame : q \in Unfinished} : Stops(r, stopAt[r])}
<1>1. S \in SUBSET Unfinished
  OBVIOUS
<1>2. /\ phase = "idle" /\ running' = Without(running, S) /\ waiting' = Without(waiting, S)
      /\ status' = [x \in Requests |-> IF x \in S THEN "finished" ELSE status[x]]
      /\ finished_req_ids' = finished_req_ids \cup S
      /\ UNCHANGED <<config, schedVars>>
  BY Zenon DEF update_from_output
<1> HIDE DEF S
<1> QED
  BY <1>1, <1>2, RemoveQueue

\* reset_prefix_cache moves every running request to the front of waiting.
LEMMA ResetQueue ==
  ASSUME QueueInv, reset_prefix_cache
  PROVE  QueueInv'
<1> USE DEF reset_prefix_cache
<1>1. QueueTypes /\ QueuesMatchStatus /\ BatchPlaces
  BY DEF QueueInv
<1>2. running \in Seq(Requests) /\ waiting \in Seq(Requests) /\ phase = "idle"
  BY <1>1 DEF QueueTypes, BetweenSteps
<1>3. ToSet(running) \cap ToSet(waiting) = {}
  BY <1>1 DEF QueuesMatchStatus
<1>4. /\ running \o waiting \in Seq(Requests)
      /\ ToSet(running \o waiting) = ToSet(running) \cup ToSet(waiting)
      /\ IsInjective(running \o waiting)
  <2>1. PICK s, t : s = running /\ t = waiting
    OBVIOUS
  <2>2. /\ s \in Seq(Requests) /\ t \in Seq(Requests) /\ ToSet(s) \cap ToSet(t) = {}
        /\ IsInjective(s) /\ IsInjective(t)
    BY <1>1, <1>2, <1>3, <2>1 DEF QueuesMatchStatus
  <2>3. s \o t \in Seq(Requests) /\ ToSet(s \o t) = ToSet(s) \cup ToSet(t) /\ IsInjective(s \o t)
    BY <2>2, ConcatSets, Zenon
  <2> QED
    BY <2>1, <2>3
<1>5. /\ waiting' \in Seq(Requests) /\ ToSet(waiting') = ToSet(running) \cup ToSet(waiting)
      /\ IsInjective(waiting')
  BY <1>4
<1>6. /\ running' = << >> /\ ToSet(running') = {} /\ Len(running') = 0
      /\ running' \in Seq(Requests)
  BY DEF ToSet
<1>7. IsInjective(running')
  BY <1>6 DEF IsInjective
<1>8. \A x \in Requests : status'[x] = IF x \in ToSet(running) THEN "preempted" ELSE status[x]
  OBVIOUS
<1>9. QueueTypes'
  BY <1>1, <1>5, <1>6 DEF QueueTypes, Statuses
<1>10. QueuesMatchStatus'
  <2>1. ToSet(running') = {x \in Requests : status'[x] = "running"}
    BY <1>1, <1>6, <1>8 DEF QueuesMatchStatus
  <2>2. ToSet(waiting') = {x \in Requests : status'[x] \in {"waiting", "preempted"}}
    BY <1>1, <1>5, <1>8 DEF QueuesMatchStatus
  <2>3. Len(running') <= MaxRunning
    BY <1>6, SchedulerAssumption
  <2> QED
    BY <1>5, <1>7, <2>1, <2>2, <2>3, Zenon DEF QueuesMatchStatus
<1>11. BatchPlaces'
  <2>1. \A x \in finished_req_ids : x \notin ToSet(running)
    BY <1>1 DEF BatchPlaces, QueuesMatchStatus
  <2> QED
    BY <1>1, <1>2, <1>6, <1>8, <2>1 DEF BatchPlaces, schedVars
<1> QED
  BY <1>9, <1>10, <1>11 DEF QueueInv

\* The start of schedule() moves nothing.
LEMMA StartQueue ==
  ASSUME QueueInv, StartSchedule
  PROVE  QueueInv'
<1>1. BatchPlaces'
  BY DEF QueueInv, BatchPlaces, StartSchedule, BetweenSteps
<1> QED
  BY <1>1, SameQueues DEF StartSchedule

\* Nor does a request that is passed over.
LEMMA SkipQueue ==
  ASSUME QueueInv, SkipRunning
  PROVE  QueueInv'
<1>1. Len(running) \in Nat
  BY DEF QueueInv, QueueTypes
<1>2. BatchPlaces'
  <2>1. \A s \in DOMAIN batch : \E j \in 1 .. index' - 1 : running[j] = s
    BY DEF QueueInv, BatchPlaces, SkipRunning, Scanning
  <2> QED
    BY <1>1, <2>1 DEF QueueInv, BatchPlaces, SkipRunning, Scanning
<1> QED
  BY <1>2, SameQueues DEF SkipRunning

\* A scheduled request stays where it is and joins the batch.
LEMMA ScheduleRunningQueue ==
  ASSUME QueueInv, ScheduleRunning
  PROVE  QueueInv'
<1>1. running \in Seq(Requests) /\ Len(running) \in Nat
  BY DEF QueueInv, QueueTypes
<1>2. BatchPlaces /\ Scanning /\ phase' = phase
  BY DEF QueueInv, ScheduleRunning
<1>3. index \in 1 .. Len(running) /\ running[index] \in ToSet(running) /\ index' = index + 1
  BY <1>1, <1>2, InToSet DEF BatchPlaces, Scanning, ScheduleRunning
<1>4. DOMAIN batch' = DOMAIN batch \cup {running[index]}
  BY DEF ScheduleRunning, AddToBatch
<1>5. ASSUME NEW s \in DOMAIN batch'
      PROVE  \E j \in 1 .. index' - 1 : running[j] = s
  <2>1. CASE s = running[index]
    BY <1>3, <2>1
  <2>2. CASE s \in DOMAIN batch
    BY <1>2, <1>3, <2>2 DEF BatchPlaces, Scanning
  <2> QED
    BY <1>4, <2>1, <2>2
<1>6. BatchPlaces'
  BY <1>1, <1>2, <1>3, <1>4, <1>5 DEF BatchPlaces, ScheduleRunning, Scanning
<1> QED
  BY <1>6, SameQueues DEF ScheduleRunning

\* The end of the first loop moves nothing.
LEMMA EndRunningQueue ==
  ASSUME QueueInv, EndRunning
  PROVE  QueueInv'
<1>1. BatchPlaces'
  BY DEF QueueInv, BatchPlaces, EndRunning
<1> QED
  BY <1>1, SameQueues DEF EndRunning

\* Nor does the end of the second.
LEMMA EndWaitingQueue ==
  ASSUME QueueInv, EndWaiting
  PROVE  QueueInv'
<1>1. BatchPlaces'
  BY DEF QueueInv, BatchPlaces, EndWaiting
<1> QED
  BY <1>1, SameQueues DEF EndWaiting

\* _update_after_schedule moves nothing; the batch is empty again.
LEMMA DispatchQueue ==
  ASSUME QueueInv, NEW accepted, Dispatch(accepted)
  PROVE  QueueInv'
<1>0. /\ UNCHANGED <<config, status, running, waiting>>
      /\ finished_req_ids' = {} /\ phase' = "idle" /\ index' = 1
      /\ batch' = << >> /\ admitted' = {} /\ preempted' = {}
  BY DEF Dispatch
<1>1. BatchPlaces'
  BY <1>0 DEF QueueInv, BatchPlaces
<1> QED
  BY <1>0, <1>1, SameQueues

\* _preempt_request moves the last running request to the front of waiting; it is not in the
\* batch, whose members come before it.
LEMMA PreemptQueue ==
  ASSUME QueueInv, PreemptLast
  PROVE  QueueInv'
<1>1. QueueTypes /\ QueuesMatchStatus /\ BatchPlaces
  BY DEF QueueInv
<1>2. running \in Seq(Requests) /\ waiting \in Seq(Requests) /\ Len(running) \in Nat
  BY <1>1 DEF QueueTypes
<1>3. /\ phase = "running" /\ index \in Nat \ {0} /\ index <= Len(running)
  BY <1>1 DEF BatchPlaces, PreemptLast, Scanning
<1>4. running # << >>
  BY <1>2, <1>3
<1>5. PICK p : p = Last(running)
  OBVIOUS
<1>6. /\ Front(running) \in Seq(Requests) /\ Len(Front(running)) = Len(running) - 1
      /\ \A i \in 1 .. Len(running) - 1 : Front(running)[i] = running[i]
      /\ p \in ToSet(running) /\ p = running[Len(running)]
      /\ ToSet(Front(running)) = ToSet(running) \ {p}
      /\ IsInjective(Front(running))
  BY <1>1, <1>2, <1>4, <1>5, FrontLast DEF QueuesMatchStatus
<1>7. /\ running' = Front(running) /\ waiting' = <<p>> \o waiting
      /\ status' = [status EXCEPT ![p] = "preempted"]
      /\ preempted' = preempted \cup {p}
      /\ phase' \in {"running", "dispatch"}
      /\ UNCHANGED <<config, finished_req_ids, index, batch, admitted>>
  BY <1>3, <1>5 DEF PreemptLast
<1>8. p \in Requests /\ status[p] = "running" /\ p \notin ToSet(waiting)
  BY <1>1, <1>6 DEF QueuesMatchStatus
<1>9. /\ waiting' \in Seq(Requests) /\ ToSet(waiting') = ToSet(waiting) \cup {p}
      /\ IsInjective(waiting')
  BY <1>1, <1>2, <1>7, <1>8, PushFront DEF QueuesMatchStatus
<1>10. \A x \in Requests : status'[x] = IF x = p THEN "preempted" ELSE status[x]
  BY <1>1, <1>7 DEF QueueTypes
<1>11. QueueTypes'
  BY <1>1, <1>6, <1>7, <1>9 DEF QueueTypes, Statuses
<1>12. QueuesMatchStatus'
  <2>1. ToSet(running') = {x \in Requests : status'[x] = "running"}
    BY <1>1, <1>6, <1>7, <1>10 DEF QueuesMatchStatus
  <2>2. ToSet(waiting') = {x \in Requests : status'[x] \in {"waiting", "preempted"}}
    BY <1>1, <1>8, <1>9, <1>10 DEF QueuesMatchStatus
  <2>3. Len(running') <= MaxRunning
    BY <1>1, <1>2, <1>6, <1>7, SchedulerAssumption DEF QueuesMatchStatus
  <2> QED
    BY <1>6, <1>7, <1>9, <2>1, <2>2, <2>3 DEF QueuesMatchStatus
<1>13. p \notin DOMAIN batch
  <2>1. SUFFICES ASSUME p \in DOMAIN batch
                 PROVE  FALSE
    OBVIOUS
  <2>2. PICK j \in 1 .. index - 1 : running[j] = p
    BY <1>1, <1>3, <2>1 DEF BatchPlaces
  <2>3. j \in 1 .. Len(running) /\ Len(running) \in 1 .. Len(running) /\ j # Len(running)
    BY <1>2, <1>3, <2>2
  <2>4. \A a, b \in 1 .. Len(running) : running[a] = running[b] => a = b
    BY <1>1, <1>2, InToSet DEF QueuesMatchStatus
  <2> QED
    BY <1>6, <2>2, <2>3, <2>4
<1>14. BatchPlaces'
  <2>1. DOMAIN batch \subseteq ToSet(running')
    BY <1>1, <1>6, <1>7, <1>13 DEF BatchPlaces
  <2>2. \A s \in DOMAIN batch : \E j \in 1 .. index - 1 : running'[j] = s
    <3> TAKE s \in DOMAIN batch
    <3>1. PICK j \in 1 .. index - 1 : running[j] = s
      BY <1>1, <1>3 DEF BatchPlaces
    <3>2. j \in 1 .. Len(running) - 1
      BY <1>2, <1>3, <3>1
    <3>3. running'[j] = s
      BY <1>6, <1>7, <3>1, <3>2
    <3> QED
      BY <3>1, <3>3
  <2>3. \A x \in preempted' : x \in Requests /\ status'[x] = "preempted"
    BY <1>1, <1>7, <1>8, <1>10 DEF BatchPlaces
  <2>4. \A x \in finished_req_ids : x \in Requests /\ status'[x] = "finished"
    BY <1>1, <1>8, <1>10 DEF BatchPlaces
  <2>5. index <= Len(running') + 1
    BY <1>2, <1>3, <1>6, <1>7
  <2>6. admitted = {}
    BY <1>1, <1>3 DEF BatchPlaces
  <2> QED
    BY <1>1, <1>3, <1>7, <2>1, <2>2, <2>3, <2>4, <2>5, <2>6 DEF BatchPlaces
<1> QED
  BY <1>11, <1>12, <1>14 DEF QueueInv

\* An admitted request moves from the front of waiting to the end of running.
LEMMA AdmitQueue ==
  ASSUME QueueInv, NEW hit, ScheduleWaiting(hit)
  PROVE  QueueInv'
<1>1. QueueTypes /\ QueuesMatchStatus /\ BatchPlaces
  BY DEF QueueInv
<1>2. running \in Seq(Requests) /\ waiting \in Seq(Requests) /\ Len(running) \in Nat
  BY <1>1 DEF QueueTypes
<1>3. phase = "waiting" /\ waiting # << >> /\ Len(running) < MaxRunning
  BY DEF ScheduleWaiting, CanAdmit
<1>4. PICK p : p = Head(waiting)
  OBVIOUS
<1>5. /\ Tail(waiting) \in Seq(Requests) /\ p \in ToSet(waiting)
      /\ ToSet(Tail(waiting)) = ToSet(waiting) \ {p} /\ IsInjective(Tail(waiting))
  BY <1>1, <1>2, <1>3, <1>4, HeadTailSets DEF QueuesMatchStatus
<1>6. p \in Requests /\ status[p] \in {"waiting", "preempted"} /\ p \notin ToSet(running)
  BY <1>1, <1>5 DEF QueuesMatchStatus
<1>7. /\ running' = Append(running, p) /\ waiting' = Tail(waiting)
      /\ status' = [status EXCEPT ![p] = "running"]
      /\ admitted' = admitted \cup {p}
      /\ DOMAIN batch' = DOMAIN batch \cup {p}
      /\ UNCHANGED <<config, finished_req_ids, index, phase, preempted>>
  BY <1>4 DEF ScheduleWaiting, AddToBatch
<1>8. /\ running' \in Seq(Requests) /\ ToSet(running') = ToSet(running) \cup {p}
      /\ IsInjective(running')
  BY <1>1, <1>2, <1>6, <1>7, AppendToSet DEF QueuesMatchStatus
<1>9. Len(running') = Len(running) + 1
  BY <1>2, <1>7
<1>10. \A x \in Requests : status'[x] = IF x = p THEN "running" ELSE status[x]
  BY <1>1, <1>7 DEF QueueTypes
<1>11. QueueTypes'
  BY <1>1, <1>5, <1>7, <1>8 DEF QueueTypes, Statuses
<1>12. QueuesMatchStatus'
  <2>1. ToSet(running') = {x \in Requests : status'[x] = "running"}
    BY <1>1, <1>6, <1>8, <1>10 DEF QueuesMatchStatus
  <2>2. ToSet(waiting') = {x \in Requests : status'[x] \in {"waiting", "preempted"}}
    BY <1>1, <1>5, <1>7, <1>10 DEF QueuesMatchStatus
  <2>3. Len(running') <= MaxRunning
    BY <1>2, <1>3, <1>9, SchedulerAssumption
  <2> QED
    BY <1>5, <1>7, <1>8, <2>1, <2>2, <2>3 DEF QueuesMatchStatus
<1>13. BatchPlaces'
  <2>1. \A x \in finished_req_ids : x \in Requests /\ status'[x] = "finished"
    BY <1>1, <1>6, <1>10 DEF BatchPlaces
  <2>2. preempted = {}
    BY <1>1, <1>3 DEF BatchPlaces
  <2>3. DOMAIN batch' \subseteq ToSet(running') /\ admitted' \subseteq DOMAIN batch'
    BY <1>1, <1>7, <1>8 DEF BatchPlaces
  <2> QED
    BY <1>1, <1>2, <1>3, <1>7, <1>9, <2>1, <2>2, <2>3 DEF BatchPlaces
<1> QED
  BY <1>11, <1>12, <1>13 DEF QueueInv

\* Every step keeps the queues in order.
LEMMA StepQueue ==
  ASSUME QueueInv, [Next]_vars
  PROVE  QueueInv'
<1>1. CASE \E r \in Requests : add_request(r)
  BY <1>1, AddQueue
<1>2. CASE \E r \in Requests : abort_request(r)
  BY <1>2, AbortQueue
<1>3. CASE reset_prefix_cache
  BY <1>3, ResetQueue
<1>4. CASE StartSchedule
  BY <1>4, StartQueue
<1>5. CASE SkipRunning
  BY <1>5, SkipQueue
<1>6. CASE ScheduleRunning
  BY <1>6, ScheduleRunningQueue
<1>7. CASE PreemptLast
  BY <1>7, PreemptQueue
<1>8. CASE EndRunning
  BY <1>8, EndRunningQueue
<1>9. CASE \E hit \in 0 .. MaxModelLen \div BlockSize : ScheduleWaiting(hit)
  BY <1>9, AdmitQueue, Zenon
<1>10. CASE EndWaiting
  BY <1>10, EndWaitingQueue
<1>11. CASE \E accepted \in [DOMAIN batch -> 0 .. NumSpecTokens] : Dispatch(accepted)
  BY <1>11, DispatchQueue, Zenon
<1>12. CASE ProcessOutput
  BY <1>12, OutputQueue, Zenon DEF ProcessOutput
<1>13. CASE UNCHANGED vars
  BY <1>13, SameQueues DEF vars, schedVars, QueueInv, BatchPlaces
<1> QED
  BY <1>1, <1>2, <1>3, <1>4, <1>5, <1>6, <1>7, <1>8, <1>9, <1>10, <1>11, <1>12, <1>13, Zenon
     DEF Next, Schedule

\* QueuesAlwaysMatch: with any number of batches in flight, every request is in the queue its
\* status names, once, and in no other (schedule, _preempt_request, finish_requests,
\* update_from_output, reset_prefix_cache of scheduler.py).
THEOREM QueuesAlwaysMatch == Spec => []QueuesMatchStatus
<1>1. QueueInv /\ [Next]_vars => QueueInv'
  BY StepQueue
<1>2. QueueInv => QueuesMatchStatus
  BY DEF QueueInv
<1> QED
  BY <1>1, <1>2, InitQueue, PTL DEF Spec
-----------------------------------------------------------------------------
(***************************************************************************)
(* The premise of what follows.  At most two batches are in flight (no     *)
(* pipeline parallelism); min_tokens can be reached within max_model_len;  *)
(* drafts and resets of the prefix cache do not come together.             *)
(***************************************************************************)
Regular ==
  /\ BatchQueueSize <= 2
  /\ \A r \in Requests : PromptLen[r] + MinTokens[r] <= MaxModelLen
  /\ config.spec = 0 \/ config.max_resets = 0

\* Frame i has a share of r; it will be delivered; it will be dropped.
At(i, r) == i \in 1 .. Len(batch_queue) /\ r \in DOMAIN batch_queue[i]

Live(i, r) == At(i, r) /\ ~ batch_queue[i][r].stale

Old(i, r) == At(i, r) /\ batch_queue[i][r].stale

\* What frame i may bring r, what of it is rejected, and what it does bring.
Owes(i, r) == IF Live(i, r) THEN Expected(i, r) ELSE 0

Lost(i, r) == IF Live(i, r) THEN Undone(i, r) ELSE 0

Brings(i, r) == IF Live(i, r) THEN Sampled(i, r) ELSE 0

Share == [new : Nat, drafts : Nat, start : Nat, sampled : Nat, decode : BOOLEAN,
          stale : BOOLEAN]

Frames == UNION {[S -> Share] : S \in SUBSET Requests}

\* A worker samples at most one token per draft and one more; only the oldest frame can
\* be stale, and only where there are no drafts.
ShareOK(i, e) ==
  /\ e.new \in 1 .. TokenBudget /\ e.drafts <= NumSpecTokens
  /\ e.start <= MaxModelLen + NumSpecTokens + 1
  /\ e.sampled <= 1 + e.drafts
  /\ e.stale => i = 1 /\ NumSpecTokens = 0
  /\ ~ config.confidence /\ e.drafts > 0 => e.decode

WorkerStates == [num_computed : Nat, prefill_len : Nat, total_len : Nat]

NumberTypes ==
  /\ num_tokens \in [Requests -> Nat]
  /\ num_computed_tokens \in [Requests -> Nat]
  /\ num_output_placeholders \in [Requests -> Nat]
  /\ spec_tokens \in [Requests -> Nat]
  /\ async_tokens_to_discard \in [Requests -> Nat]
  /\ is_prefill_chunk \in [Requests -> BOOLEAN]
  /\ worker \in [Requests -> WorkerStates]
  /\ budget \in Nat /\ budget <= TokenBudget
  /\ resets \in Nat /\ resets <= config.max_resets

FramesOK ==
  /\ batch_queue \in Seq(Frames)
  /\ Len(batch_queue) <= BatchQueueSize
  /\ phase # "idle" => Len(batch_queue) < BatchQueueSize
  /\ \A i \in 1 .. Len(batch_queue) : \A r \in DOMAIN batch_queue[i] :
       ShareOK(i, batch_queue[i][r])

Bounds(r) ==
  /\ 1 <= num_tokens[r] /\ num_tokens[r] <= MaxModelLen
  /\ num_computed_tokens[r] <= MaxModelLen
  /\ spec_tokens[r] <= NumSpecTokens

NewInv(r) ==
  status[r] = "new" =>
    /\ num_output_placeholders[r] = 0 /\ spec_tokens[r] = 0
    /\ async_tokens_to_discard[r] = 0 /\ num_computed_tokens[r] = 0
    /\ num_tokens[r] = PromptLen[r]
    /\ ~ At(1, r) /\ ~ At(2, r)

\* An unfinished request: its placeholders, its length and the frames that continue it.
OpenInv(r) ==
  status[r] \in {"waiting", "preempted", "running"} =>
    /\ num_output_placeholders[r] = Owes(1, r) + Owes(2, r)
    /\ PromptLen[r] <= num_tokens[r] /\ num_tokens[r] < LengthCap(r)
    /\ Live(1, r) => batch_queue[1][r].start = num_tokens[r]
    /\ Live(2, r) => batch_queue[2][r].start = num_tokens[r] + Brings(1, r)
    /\ Old(1, r) /\ batch_queue[1][r].sampled > 0 => async_tokens_to_discard[r] = 1
    /\ ~ (Old(1, r) /\ batch_queue[1][r].sampled > 0) => async_tokens_to_discard[r] = 0

\* A request in the waiting queue: an output it was preempted with returns before the
\* next batch is built, so that it is resumed with none in flight.
QueuedInv(r) ==
  status[r] \in {"waiting", "preempted"} =>
    /\ num_computed_tokens[r] = 0
    /\ ~ config.confidence => spec_tokens[r] = 0
    /\ r \notin preempted => ~ Live(2, r) /\ (Live(1, r) => Len(batch_queue) = 2)

AdmittedInv(r) ==
  r \in admitted =>
    /\ ~ Live(1, r) /\ ~ Live(2, r)
    /\ num_computed_tokens[r] + batch[r].new <= num_tokens[r]
    /\ batch[r].drafts = 0
    /\ ~ config.confidence => spec_tokens[r] = 0

\* The worker has not sampled for r since it was admitted.
Prefilling(r) ==
  /\ worker[r].prefill_len = num_tokens[r] /\ num_computed_tokens[r] < num_tokens[r]
  /\ Owes(1, r) = 0 /\ Owes(2, r) = 0
  /\ ~ config.confidence => spec_tokens[r] = 0

\* All but the last token of r, placeholders included, are computed.
Decoding(r) ==
  /\ worker[r].prefill_len <= worker[r].num_computed
  /\ num_tokens[r] + num_output_placeholders[r] = num_computed_tokens[r] + 1

\* A running request the worker knows.
ActiveInv(r) ==
  status[r] = "running" /\ r \notin admitted =>
    /\ worker[r].num_computed + (Lost(1, r) + Lost(2, r)) = num_computed_tokens[r]
    /\ worker[r].total_len = num_tokens[r] + (Brings(1, r) + Brings(2, r))
    /\ Old(1, r) => Len(batch_queue) = 2
    /\ Prefilling(r) \/ Decoding(r)
    /\ num_computed_tokens[r] < MaxModelLen

\* A request in the batch: a chunk of a prefill, or all its tokens and some drafts.
BatchInv(r) ==
  r \in DOMAIN batch =>
    /\ batch[r].new \in Nat \ {0} /\ batch[r].new <= TokenBudget
    /\ batch[r].drafts \in Nat /\ batch[r].drafts <= NumSpecTokens
    /\ num_computed_tokens[r] + batch[r].new < MaxModelLen
    /\ r \notin admitted =>
         \/ /\ batch[r].drafts = 0
            /\ num_computed_tokens[r] + batch[r].new
                 < num_tokens[r] + num_output_placeholders[r]
         \/ num_computed_tokens[r] + batch[r].new
              = num_tokens[r] + num_output_placeholders[r] + batch[r].drafts
    /\ ~ config.confidence /\ batch[r].drafts > 0 => Decoding(r)

ReqInv(r) ==
  /\ Bounds(r) /\ NewInv(r) /\ OpenInv(r) /\ QueuedInv(r)
  /\ AdmittedInv(r) /\ ActiveInv(r) /\ BatchInv(r)

FlightInv == NumberTypes /\ FramesOK /\ \A r \in Requests : ReqInv(r)

Inv == QueueInv /\ FlightInv

\* What the configuration and the constants are.
LEMMA ConfigTypes ==
  ASSUME QueueInv
  PROVE  /\ NumSpecTokens \in Nat /\ TokenBudget \in Nat \ {0}
         /\ config.spec = NumSpecTokens /\ config.budget = TokenBudget
         /\ config.max_resets \in Nat /\ config.confidence \in BOOLEAN
         /\ config.watermark \in Nat
         /\ MaxModelLen \in Nat /\ BatchQueueSize \in Nat \ {0}
<1>1. config \in [requests : SUBSET Requests, spec : Nat, budget : Nat \ {0},
                  watermark : Nat, confidence : BOOLEAN, max_resets : Nat]
  BY SchedulerAssumption DEF QueueInv, QueueTypes
<1> QED
  BY <1>1, SchedulerAssumption DEF NumSpecTokens, TokenBudget

\* A frame has a share for each of some requests.
LEMMA FramesAre ==
  /\ \A f \in Frames : DOMAIN f \subseteq Requests /\ \A r \in DOMAIN f : f[r] \in Share
  /\ \A S \in SUBSET Requests : \A f \in [S -> Share] : f \in Frames
BY DEF Frames

\* A share of a frame, and the three counts of it.
LEMMA Shares ==
  ASSUME QueueInv, FlightInv, Regular, NEW i \in {1, 2}, NEW r
  PROVE  /\ At(i, r) => /\ r \in Requests /\ batch_queue[i][r] \in Share
                        /\ ShareOK(i, batch_queue[i][r]) /\ i <= Len(batch_queue)
         /\ Owes(i, r) \in Nat /\ Lost(i, r) \in Nat /\ Brings(i, r) \in Nat
         /\ Owes(i, r) = Lost(i, r) + Brings(i, r)
         /\ Owes(i, r) = 0 <=> Brings(i, r) = 0
         /\ ~ Live(i, r) => Owes(i, r) = 0
         /\ Len(batch_queue) \in 0 .. 2
         /\ Brings(i, r) <= NumSpecTokens + 1
<1>1. batch_queue \in Seq(Frames) /\ Len(batch_queue) \in Nat /\ Len(batch_queue) <= 2
  BY ConfigTypes DEF FlightInv, FramesOK, Regular
<1>2. ASSUME At(i, r)
      PROVE  /\ r \in Requests /\ batch_queue[i][r] \in Share
             /\ ShareOK(i, batch_queue[i][r]) /\ i <= Len(batch_queue)
  <2>1. i \in 1 .. Len(batch_queue) /\ r \in DOMAIN batch_queue[i]
    BY <1>2 DEF At
  <2>2. batch_queue[i] \in Frames
    BY <1>1, <2>1
  <2>3. r \in Requests /\ batch_queue[i][r] \in Share
    BY <2>1, <2>2, FramesAre
  <2>4. ShareOK(i, batch_queue[i][r])
    BY <2>1 DEF FlightInv, FramesOK
  <2> QED
    BY <2>1, <2>3, <2>4
<1> DEFINE Counts == /\ Owes(i, r) \in Nat /\ Lost(i, r) \in Nat /\ Brings(i, r) \in Nat
                     /\ Owes(i, r) = Lost(i, r) + Brings(i, r)
                     /\ Owes(i, r) = 0 <=> Brings(i, r) = 0
                     /\ ~ Live(i, r) => Owes(i, r) = 0
                     /\ Brings(i, r) <= NumSpecTokens + 1
<1>3. ASSUME ~ Live(i, r)
      PROVE  Counts
  <2>1. Owes(i, r) = 0 /\ Lost(i, r) = 0 /\ Brings(i, r) = 0
    BY <1>3 DEF Owes, Lost, Brings
  <2> QED
    BY <2>1, ConfigTypes
<1>4. ASSUME Live(i, r)
      PROVE  Counts
  <2>1. PICK e : e = batch_queue[i][r]
    OBVIOUS
  <2>2. e \in Share /\ ShareOK(i, e) /\ NumSpecTokens \in Nat
    BY <1>2, <1>4, <2>1, ConfigTypes DEF Live
  <2>3. e.drafts \in Nat /\ e.sampled \in Nat /\ e.sampled <= 1 + e.drafts
        /\ e.drafts <= NumSpecTokens
    BY <2>2 DEF Share, ShareOK
  <2>4. /\ Owes(i, r) = IF e.sampled > 0 THEN 1 + e.drafts ELSE 0
        /\ Lost(i, r) = IF e.sampled > 0 THEN e.drafts - (e.sampled - 1) ELSE 0
        /\ Brings(i, r) = e.sampled
    BY <1>4, <2>1 DEF Owes, Lost, Brings, Expected, Undone, Sampled
  <2> QED
    BY <1>4, <2>2, <2>3, <2>4
<1>5. Counts
  BY <1>3, <1>4
<1>6. Len(batch_queue) \in 0 .. 2
  <2>1. PICK n \in Nat : n = Len(batch_queue)
    BY <1>1
  <2>2. n <= 2
    BY <1>1, <2>1
  <2>3. n \in 0 .. 2
    BY <2>2
  <2> QED
    BY <2>1, <2>3
<1> QED
  BY <1>2, <1>5, <1>6

\* The shares of frames that a step leaves alone.
LEMMA SameShares ==
  ASSUME batch_queue' = batch_queue, NEW i, NEW r
  PROVE  /\ At(i, r)' = At(i, r) /\ Live(i, r)' = Live(i, r) /\ Old(i, r)' = Old(i, r)
         /\ Owes(i, r)' = Owes(i, r) /\ Lost(i, r)' = Lost(i, r)
         /\ Brings(i, r)' = Brings(i, r)
BY DEF At, Live, Old, Owes, Lost, Brings, Expected, Undone, Sampled

\* A request that a step does not touch.
LEMMA Untouched ==
  ASSUME QueueInv, NEW r, ReqInv(r), UNCHANGED <<config, batch_queue>>,
         status'[r] = status[r], num_tokens'[r] = num_tokens[r],
         num_computed_tokens'[r] = num_computed_tokens[r],
         num_output_placeholders'[r] = num_output_placeholders[r],
         spec_tokens'[r] = spec_tokens[r],
         async_tokens_to_discard'[r] = async_tokens_to_discard[r],
         worker'[r] = worker[r],
         r \in admitted' <=> r \in admitted,
         r \in preempted' <=> r \in preempted,
         r \in DOMAIN batch' <=> r \in DOMAIN batch,
         r \in DOMAIN batch => batch'[r] = batch[r]
  PROVE  ReqInv(r)'
<1>0. ReqInv(r)
  OBVIOUS
<1>s. /\ At(1, r)' = At(1, r) /\ Live(1, r)' = Live(1, r) /\ Old(1, r)' = Old(1, r)
      /\ Owes(1, r)' = Owes(1, r) /\ Lost(1, r)' = Lost(1, r) /\ Brings(1, r)' = Brings(1, r)
      /\ At(2, r)' = At(2, r) /\ Live(2, r)' = Live(2, r) /\ Old(2, r)' = Old(2, r)
      /\ Owes(2, r)' = Owes(2, r) /\ Lost(2, r)' = Lost(2, r) /\ Brings(2, r)' = Brings(2, r)
  BY SameShares
<1>c. NumSpecTokens' = NumSpecTokens /\ TokenBudget' = TokenBudget
  BY DEF NumSpecTokens, TokenBudget
<1>d. (Prefilling(r)' <=> Prefilling(r)) /\ (Decoding(r)' <=> Decoding(r))
  BY <1>s DEF Prefilling, Decoding
<1>1. Bounds(r)'
  BY <1>0, <1>c DEF ReqInv, Bounds
<1>2. NewInv(r)'
  BY <1>0, <1>s DEF ReqInv, NewInv
<1>3. OpenInv(r)'
  BY <1>0, <1>s DEF ReqInv, OpenInv, LengthCap
<1>4. QueuedInv(r)'
  BY <1>0, <1>s DEF ReqInv, QueuedInv
<1>5. AdmittedInv(r)'
  <2>1. r \in admitted => r \in DOMAIN batch
    BY DEF QueueInv, BatchPlaces
  <2> QED
    BY <1>0, <1>s, <2>1 DEF ReqInv, AdmittedInv
<1>6. ActiveInv(r)'
  BY <1>0, <1>s, <1>d DEF ReqInv, ActiveInv
<1>7. BatchInv(r)'
  BY <1>0, <1>s, <1>c, <1>d DEF ReqInv, BatchInv
<1> QED
  BY <1>1, <1>2, <1>3, <1>4, <1>5, <1>6, <1>7 DEF ReqInv

\* The frames of a step that sends and receives none.
LEMMA SameFrames ==
  ASSUME FramesOK, UNCHANGED <<config, batch_queue>>,
         phase' # "idle" => Len(batch_queue) < BatchQueueSize
  PROVE  FramesOK'
<1>1. NumSpecTokens' = NumSpecTokens /\ TokenBudget' = TokenBudget
  BY DEF NumSpecTokens, TokenBudget
<1> QED
  BY <1>1 DEF FramesOK, ShareOK

\* Steps that change no request and no frame.
LEMMA NoRequestTouched ==
  ASSUME Inv, UNCHANGED <<config, status, reqVars, batch_queue, worker, resets>>,
         budget' \in Nat /\ budget' <= TokenBudget,
         phase' # "idle" => Len(batch_queue) < BatchQueueSize,
         \A r \in Requests : /\ r \in admitted' <=> r \in admitted
                             /\ r \in preempted' <=> r \in preempted
                             /\ r \in DOMAIN batch' <=> r \in DOMAIN batch
                             /\ r \in DOMAIN batch => batch'[r] = batch[r]
  PROVE  FlightInv'
<1>1. UNCHANGED <<config, status, batch_queue, worker, resets, num_tokens,
                  num_computed_tokens, num_output_placeholders, spec_tokens,
                  async_tokens_to_discard, is_prefill_chunk>>
  BY DEF reqVars
<1>2. NumberTypes'
  BY <1>1 DEF Inv, FlightInv, NumberTypes, TokenBudget
<1>3. FramesOK'
  BY <1>1, SameFrames DEF Inv, FlightInv
<1>4. ASSUME NEW r \in Requests
      PROVE  ReqInv(r)'
  BY <1>1, Untouched DEF Inv, FlightInv
<1> QED
  BY <1>2, <1>3, <1>4 DEF FlightInv

\* schedule() starts with an empty batch and changes no request.
LEMMA StartFlight ==
  ASSUME Inv, StartSchedule
  PROVE  FlightInv'
<1>1. phase = "idle" /\ Len(batch_queue) < BatchQueueSize
  BY DEF StartSchedule, BetweenSteps
<1>2. DOMAIN batch = {} /\ admitted = {} /\ preempted = {}
  BY <1>1 DEF Inv, QueueInv, BatchPlaces
<1>3. TokenBudget \in Nat /\ budget' = TokenBudget
  BY ConfigTypes DEF Inv, StartSchedule
<1>4. DOMAIN batch' = {} /\ admitted' = {} /\ preempted' = {}
  BY DEF StartSchedule
<1> QED
  BY <1>1, <1>2, <1>3, <1>4, NoRequestTouched DEF StartSchedule

\* A step from one phase of schedule() to the next changes no request.
LEMMA PhaseFlight ==
  ASSUME Inv, SkipRunning \/ EndRunning \/ EndWaiting \/ UNCHANGED vars
  PROVE  FlightInv'
<1>1. /\ UNCHANGED <<config, status, reqVars, batch_queue, worker, resets>>
      /\ UNCHANGED <<budget, batch, admitted, preempted>>
  BY DEF SkipRunning, EndRunning, EndWaiting, vars, schedVars
<1>2. phase' # "idle" => Len(batch_queue) < BatchQueueSize
  BY DEF Inv, FlightInv, FramesOK, SkipRunning, EndRunning, EndWaiting, Scanning, vars, schedVars
<1>3. budget \in Nat /\ budget <= TokenBudget
  BY DEF Inv, FlightInv, NumberTypes
<1> QED
  BY <1>1, <1>2, <1>3, NoRequestTouched

\* A new request has nothing in flight.
LEMMA AddFlight ==
  ASSUME Inv, Regular, NEW r \in Requests, add_request(r)
  PROVE  FlightInv'
<1>1. /\ UNCHANGED <<config, batch_queue, worker, resets, num_tokens,
                  num_computed_tokens, num_output_placeholders, spec_tokens,
                  async_tokens_to_discard, is_prefill_chunk, phase, budget, batch, admitted,
                  preempted>>
      /\ phase = "idle" /\ status[r] = "new"
      /\ status' = [status EXCEPT ![r] = "waiting"]
  BY DEF add_request, BetweenSteps, reqVars, schedVars
<1>2. NumberTypes'
  BY <1>1 DEF Inv, FlightInv, NumberTypes, TokenBudget
<1>3. FramesOK'
  BY <1>1, SameFrames DEF Inv, FlightInv
<1>4. QueueInv /\ FlightInv /\ \A x \in Requests : ReqInv(x)
  BY DEF Inv, FlightInv
<1>5. \A x \in Requests : status'[x] = IF x = r THEN "waiting" ELSE status[x]
  BY <1>1, <1>4 DEF QueueInv, QueueTypes
<1>6. ASSUME NEW x \in Requests, x # r
      PROVE  ReqInv(x)'
  BY <1>1, <1>4, <1>5, <1>6, Untouched
<1>7. ReqInv(r)'
  <2>1. ReqInv(r) /\ status'[r] = "waiting"
    BY <1>4, <1>5
  <2>2. DOMAIN batch = {} /\ admitted = {} /\ preempted = {}
    BY <1>1, <1>4 DEF QueueInv, BatchPlaces
  <2>3. /\ At(1, r)' = At(1, r) /\ Live(1, r)' = Live(1, r) /\ Old(1, r)' = Old(1, r)
        /\ Owes(1, r)' = Owes(1, r)
        /\ At(2, r)' = At(2, r) /\ Live(2, r)' = Live(2, r) /\ Old(2, r)' = Old(2, r)
        /\ Owes(2, r)' = Owes(2, r)
    BY <1>1, SameShares
  <2>4. ~ At(1, r) /\ ~ At(2, r)
    BY <1>1, <2>1 DEF ReqInv, NewInv
  <2>5. ~ Live(1, r) /\ ~ Live(2, r) /\ ~ Old(1, r) /\ ~ Old(2, r)
    BY <2>4 DEF Live, Old
  <2>6. Owes(1, r) = 0 /\ Owes(2, r) = 0
    BY <2>5 DEF Owes
  <2>7. /\ num_output_placeholders[r] = 0 /\ spec_tokens[r] = 0
        /\ async_tokens_to_discard[r] = 0 /\ num_computed_tokens[r] = 0
        /\ num_tokens[r] = PromptLen[r]
    BY <1>1, <2>1 DEF ReqInv, NewInv
  <2>8. PromptLen[r] <= num_tokens[r] /\ num_tokens[r] < LengthCap(r)
    BY <2>7, SchedulerAssumption DEF LengthCap, MinOf
  <2>9. Bounds(r)'
    BY <1>1, <2>1 DEF ReqInv, Bounds, NumSpecTokens
  <2>10. NewInv(r)' /\ AdmittedInv(r)' /\ ActiveInv(r)' /\ BatchInv(r)'
    BY <1>1, <2>1, <2>2 DEF NewInv, AdmittedInv, ActiveInv, BatchInv
  <2>11. OpenInv(r)'
    BY <1>1, <2>3, <2>5, <2>6, <2>7, <2>8 DEF OpenInv, LengthCap
  <2>12. QueuedInv(r)'
    BY <1>1, <2>3, <2>5, <2>7 DEF QueuedInv
  <2> QED
    BY <2>9, <2>10, <2>11, <2>12 DEF ReqInv
<1> QED
  BY <1>2, <1>3, <1>6, <1>7 DEF FlightInv

\* An aborted request is no longer spoken of; its frames return to nobody.
LEMMA AbortFlight ==
  ASSUME Inv, NEW r \in Requests, abort_request(r)
  PROVE  FlightInv'
<1>1. /\ UNCHANGED <<config, batch_queue, worker, resets, num_tokens,
                  num_computed_tokens, num_output_placeholders, spec_tokens,
                  async_tokens_to_discard, is_prefill_chunk, phase, budget, batch, admitted,
                  preempted>>
      /\ phase = "idle"
      /\ status' = [status EXCEPT ![r] = "finished"]
  BY DEF abort_request, reqVars, schedVars
<1>2. NumberTypes'
  BY <1>1 DEF Inv, FlightInv, NumberTypes, TokenBudget
<1>3. FramesOK'
  BY <1>1, SameFrames DEF Inv, FlightInv
<1>4. QueueInv /\ FlightInv /\ \A x \in Requests : ReqInv(x)
  BY DEF Inv, FlightInv
<1>5. \A x \in Requests : status'[x] = IF x = r THEN "finished" ELSE status[x]
  BY <1>1, <1>4 DEF QueueInv, QueueTypes
<1>6. ASSUME NEW x \in Requests, x # r
      PROVE  ReqInv(x)'
  BY <1>1, <1>4, <1>5, <1>6, Untouched
<1>7. ReqInv(r)'
  <2>1. ReqInv(r) /\ status'[r] = "finished"
    BY <1>4, <1>5
  <2>2. DOMAIN batch = {} /\ admitted = {} /\ preempted = {}
    BY <1>1, <1>4 DEF QueueInv, BatchPlaces
  <2>3. Bounds(r)'
    BY <1>1, <2>1 DEF ReqInv, Bounds, NumSpecTokens
  <2>4. NewInv(r)' /\ AdmittedInv(r)' /\ ActiveInv(r)' /\ BatchInv(r)'
    BY <1>1, <2>1, <2>2 DEF NewInv, AdmittedInv, ActiveInv, BatchInv
  <2>5. OpenInv(r)' /\ QueuedInv(r)'
    BY <2>1 DEF OpenInv, QueuedInv
  <2> QED
    BY <2>3, <2>4, <2>5 DEF ReqInv
<1> QED
  BY <1>2, <1>3, <1>6, <1>7 DEF FlightInv

\* The step that schedule() plans for a running request: it has tokens to compute, ends
\* below max_model_len, and has drafts only behind all the tokens of the request.
LEMMA PlannedStep ==
  ASSUME Inv, Scanning, NEW r, r = running[index], Schedulable(r)
  PROVE  /\ r \in Requests /\ status[r] = "running" /\ admitted = {}
         /\ num_new_tokens(r) \in Nat \ {0} /\ num_new_tokens(r) <= budget
         /\ num_computed_tokens[r] + num_new_tokens(r) < MaxModelLen
         /\ ScheduledDrafts(r, num_new_tokens(r)) \in Nat
         /\ ScheduledDrafts(r, num_new_tokens(r)) <= NumSpecTokens
         /\ \/ /\ ScheduledDrafts(r, num_new_tokens(r)) = 0
               /\ num_computed_tokens[r] + num_new_tokens(r)
                    < num_tokens[r] + num_output_placeholders[r]
            \/ num_computed_tokens[r] + num_new_tokens(r)
                 = num_tokens[r] + num_output_placeholders[r]
                     + ScheduledDrafts(r, num_new_tokens(r))
         /\ ~ config.confidence /\ ScheduledDrafts(r, num_new_tokens(r)) > 0 => Decoding(r)
<1>1. QueueInv /\ FlightInv /\ NumberTypes
  BY DEF Inv, FlightInv
<1>2. phase = "running" /\ index \in 1 .. Len(running) /\ budget > 0
  BY <1>1 DEF Scanning, QueueInv, BatchPlaces, QueueTypes
<1>3. r \in ToSet(running)
  BY <1>1, <1>2, InToSet DEF QueueInv, QueueTypes
<1>4. r \in Requests /\ status[r] = "running" /\ admitted = {}
  BY <1>1, <1>2, <1>3 DEF QueueInv, QueuesMatchStatus, BatchPlaces
<1>5. ReqInv(r)
  BY <1>1, <1>4 DEF FlightInv
<1>6. PICK c, nt, p, s, b : /\ c = num_computed_tokens[r] /\ nt = num_tokens[r]
                           /\ p = num_output_placeholders[r] /\ s = spec_tokens[r]
                           /\ b = budget
  OBVIOUS
<1>7. c \in Nat /\ nt \in Nat /\ p \in Nat /\ s \in Nat /\ b \in Nat /\ b > 0
  BY <1>1, <1>2, <1>4, <1>6 DEF NumberTypes
<1>8. c < MaxModelLen /\ (Prefilling(r) \/ Decoding(r)) /\ MaxModelLen \in Nat
  BY <1>4, <1>5, <1>6, SchedulerAssumption DEF ReqInv, ActiveInv
<1>9. c + 1 <= nt + p
  BY <1>6, <1>7, <1>8 DEF Prefilling, Decoding
<1>10. PICK n : n = num_new_tokens(r)
  OBVIOUS
<1>11. n = MinOf(MinOf(nt + s + p - c, b), MaxModelLen - c - 1) /\ n # 0
  BY <1>6, <1>10 DEF num_new_tokens, Schedulable
<1>12. n \in Nat \ {0} /\ n <= b /\ c + n < MaxModelLen /\ c + n <= nt + p + s
  BY <1>7, <1>8, <1>9, <1>11 DEF MinOf
<1>13. PICK d : d = ScheduledDrafts(r, n)
  OBVIOUS
<1>14. d = MinOf(s, MaxOf(n + c - nt - p, 0))
  BY <1>6, <1>13 DEF ScheduledDrafts
<1>15. d \in Nat /\ d <= s /\ (\/ d = 0 /\ c + n < nt + p
                               \/ c + n = nt + p + d)
  BY <1>7, <1>12, <1>14 DEF MinOf, MaxOf
<1>16. s <= NumSpecTokens /\ NumSpecTokens \in Nat
  BY <1>1, <1>5, <1>6, ConfigTypes DEF ReqInv, Bounds
<1>17. ~ config.confidence /\ d > 0 => Decoding(r)
  BY <1>6, <1>7, <1>8, <1>15 DEF Prefilling
<1>18. d <= NumSpecTokens
  BY <1>7, <1>15, <1>16
<1> QED
  BY <1>4, <1>6, <1>10, <1>12, <1>13, <1>15, <1>17, <1>18

\* Planning a step for a running request keeps its counts.
LEMMA ScheduleRunningFlight ==
  ASSUME Inv, ScheduleRunning
  PROVE  FlightInv'
<1>1. PICK r, n, d : /\ r = running[index] /\ n = num_new_tokens(r)
                     /\ d = ScheduledDrafts(r, n)
  OBVIOUS
<1>2. /\ Scanning /\ Schedulable(r)
      /\ batch' = [s \in DOMAIN batch \cup {r} |->
              IF s = r THEN [new |-> n, drafts |-> d] ELSE batch[s]]
      /\ spec_tokens' = [spec_tokens EXCEPT ![r] = 0]
      /\ budget' = budget - n
      /\ UNCHANGED <<config, status, num_tokens, num_computed_tokens,
                     num_output_placeholders, async_tokens_to_discard,
                     is_prefill_chunk, batch_queue, phase,
                     admitted, preempted, worker, resets>>
  BY <1>1 DEF ScheduleRunning, AddToBatch
<1>3. /\ r \in Requests /\ status[r] = "running" /\ admitted = {}
      /\ n \in Nat \ {0} /\ n <= budget
      /\ num_computed_tokens[r] + n < MaxModelLen
      /\ d \in Nat /\ d <= NumSpecTokens
      /\ \/ d = 0 /\ num_computed_tokens[r] + n < num_tokens[r] + num_output_placeholders[r]
         \/ num_computed_tokens[r] + n = num_tokens[r] + num_output_placeholders[r] + d
      /\ ~ config.confidence /\ d > 0 => Decoding(r)
  BY <1>1, <1>2, PlannedStep
<1>4. QueueInv /\ FlightInv /\ NumberTypes /\ \A x \in Requests : ReqInv(x)
  BY DEF Inv, FlightInv
<1>5. TokenBudget' = TokenBudget /\ NumSpecTokens' = NumSpecTokens /\ TokenBudget \in Nat
      /\ NumSpecTokens \in Nat
  BY <1>2, <1>4, ConfigTypes DEF TokenBudget, NumSpecTokens
<1>6. NumberTypes'
  BY <1>2, <1>3, <1>4, <1>5 DEF NumberTypes
<1>7. FramesOK'
  BY <1>2, <1>4, SameFrames DEF FlightInv, FramesOK
<1>8. ASSUME NEW x \in Requests, x # r
      PROVE  ReqInv(x)'
  <2>1. spec_tokens'[x] = spec_tokens[x] /\ (x \in DOMAIN batch' <=> x \in DOMAIN batch)
    BY <1>2, <1>4, <1>8 DEF NumberTypes
  <2>2. x \in DOMAIN batch => batch'[x] = batch[x]
    BY <1>2, <1>8
  <2> QED
    BY <1>2, <1>4, <2>1, <2>2, Untouched
<1>9. ReqInv(r)'
  <2>1. ReqInv(r) /\ r \notin admitted /\ r \notin admitted' /\ status'[r] = "running"
    BY <1>2, <1>3, <1>4
  <2>2. /\ At(1, r)' = At(1, r) /\ Live(1, r)' = Live(1, r) /\ Old(1, r)' = Old(1, r)
        /\ Owes(1, r)' = Owes(1, r) /\ Lost(1, r)' = Lost(1, r) /\ Brings(1, r)' = Brings(1, r)
        /\ At(2, r)' = At(2, r) /\ Live(2, r)' = Live(2, r) /\ Old(2, r)' = Old(2, r)
        /\ Owes(2, r)' = Owes(2, r) /\ Lost(2, r)' = Lost(2, r) /\ Brings(2, r)' = Brings(2, r)
    BY <1>2, SameShares
  <2>3. spec_tokens'[r] = 0
    BY <1>2, <1>3, <1>4 DEF NumberTypes
  <2>4. (Decoding(r)' <=> Decoding(r)) /\ (Prefilling(r) => Prefilling(r)')
    BY <1>2, <2>2, <2>3 DEF Decoding, Prefilling
  <2>5. Bounds(r)'
    BY <1>2, <1>5, <2>1, <2>3 DEF ReqInv, Bounds
  <2>6. NewInv(r)' /\ QueuedInv(r)' /\ AdmittedInv(r)'
    BY <2>1 DEF NewInv, QueuedInv, AdmittedInv
  <2>7. OpenInv(r)'
    BY <1>2, <1>3, <2>1, <2>2 DEF ReqInv, OpenInv, LengthCap
  <2>8. ActiveInv(r)'
    BY <1>2, <1>3, <2>1, <2>2, <2>4 DEF ReqInv, ActiveInv
  <2>9. batch'[r].new = n /\ batch'[r].drafts = d
    BY <1>2
  <2>10. budget \in Nat /\ budget <= TokenBudget
    BY <1>4 DEF NumberTypes
  <2>11. n <= TokenBudget
    BY <1>3, <1>5, <2>10
  <2>12. BatchInv(r)'
    BY <1>2, <1>3, <1>5, <2>4, <2>9, <2>11 DEF BatchInv
  <2> QED
    BY <2>5, <2>6, <2>7, <2>8, <2>12 DEF ReqInv
<1> QED
  BY <1>6, <1>7, <1>8, <1>9 DEF FlightInv

\* A preempted request keeps its placeholders: its frames will still be delivered.
LEMMA PreemptFlight ==
  ASSUME Inv, PreemptLast
  PROVE  FlightInv'
<1>1. PICK r : r = Last(running)
  OBVIOUS
<1>2. /\ Scanning
      /\ status' = [status EXCEPT ![r] = "preempted"]
      /\ num_computed_tokens' = [num_computed_tokens EXCEPT ![r] = 0]
      /\ spec_tokens' = [spec_tokens EXCEPT ![r] = 0]
      /\ preempted' = preempted \cup {r}
      /\ phase' \in {"running", "dispatch"}
      /\ UNCHANGED <<config, num_tokens, num_output_placeholders, async_tokens_to_discard,
                     is_prefill_chunk, batch_queue, budget, batch, admitted, worker, resets>>
  BY <1>1 DEF PreemptLast, Scanning
<1>3. QueueInv /\ FlightInv /\ NumberTypes /\ \A x \in Requests : ReqInv(x)
  BY DEF Inv, FlightInv
<1>4. phase = "running" /\ admitted = {}
  BY <1>2, <1>3 DEF Scanning, QueueInv, BatchPlaces
<1>5. running \in Seq(Requests) /\ running # << >> /\ IsInjective(running)
  BY <1>2, <1>3 DEF Scanning, QueueInv, BatchPlaces, QueueTypes, QueuesMatchStatus
<1>6. r \in ToSet(running)
  BY <1>1, <1>5, FrontLast
<1>7. r \in Requests /\ status[r] = "running"
  BY <1>3, <1>6 DEF QueueInv, QueuesMatchStatus
<1>8. NumSpecTokens' = NumSpecTokens /\ TokenBudget' = TokenBudget /\ NumSpecTokens \in Nat
  BY <1>2, <1>3, ConfigTypes DEF NumSpecTokens, TokenBudget
<1>9. NumberTypes'
  BY <1>2, <1>3, <1>8 DEF NumberTypes
<1>10. FramesOK'
  BY <1>2, <1>3, <1>4, SameFrames DEF FlightInv, FramesOK
<1>11. ASSUME NEW x \in Requests, x # r
      PROVE  ReqInv(x)'
  <2>1. /\ spec_tokens'[x] = spec_tokens[x] /\ num_computed_tokens'[x] = num_computed_tokens[x]
        /\ status'[x] = status[x]
    BY <1>2, <1>3, <1>11 DEF NumberTypes, QueueInv, QueueTypes
  <2> QED
    BY <1>2, <1>3, <1>11, <2>1, Untouched
<1>12. r \notin DOMAIN batch
  <2>1. QueueInv'
    BY <1>3, PreemptQueue
  <2>2. DOMAIN batch \subseteq ToSet(running') /\ status'[r] = "preempted"
    BY <1>2, <1>3, <1>7, <2>1 DEF QueueInv, BatchPlaces, QueueTypes
  <2>3. r \notin ToSet(running')
    BY <2>1, <2>2 DEF QueueInv, QueuesMatchStatus
  <2> QED
    BY <2>2, <2>3
<1>13. ReqInv(r)'
  <2>1. ReqInv(r) /\ status'[r] = "preempted" /\ num_computed_tokens'[r] = 0 /\ spec_tokens'[r] = 0
    BY <1>2, <1>3, <1>7 DEF NumberTypes, QueueInv, QueueTypes
  <2>2. /\ At(1, r)' = At(1, r) /\ Live(1, r)' = Live(1, r) /\ Old(1, r)' = Old(1, r)
        /\ Owes(1, r)' = Owes(1, r) /\ Lost(1, r)' = Lost(1, r) /\ Brings(1, r)' = Brings(1, r)
        /\ At(2, r)' = At(2, r) /\ Live(2, r)' = Live(2, r) /\ Old(2, r)' = Old(2, r)
        /\ Owes(2, r)' = Owes(2, r) /\ Lost(2, r)' = Lost(2, r) /\ Brings(2, r)' = Brings(2, r)
    BY <1>2, SameShares
  <2>5. Bounds(r)'
    BY <1>2, <1>8, <2>1, SchedulerAssumption DEF ReqInv, Bounds
  <2>6. NewInv(r)' /\ AdmittedInv(r)' /\ ActiveInv(r)' /\ BatchInv(r)'
    BY <1>2, <1>4, <1>12, <2>1 DEF NewInv, ActiveInv, AdmittedInv, BatchInv
  <2>7. OpenInv(r)'
    BY <1>2, <1>7, <2>1, <2>2 DEF ReqInv, OpenInv, LengthCap
  <2>8. QueuedInv(r)'
    BY <1>2, <2>1 DEF QueuedInv
  <2> QED
    BY <2>5, <2>6, <2>7, <2>8 DEF ReqInv
<1> QED
  BY <1>9, <1>10, <1>11, <1>13 DEF FlightInv

\* The share of the prompt that schedule() plans for an admitted request.
LEMMA AdmittedStep ==
  ASSUME NEW n \in Nat \ {0}, NEW hit \in 0 .. (n - 1) \div BlockSize, NEW b \in Nat \ {0}
  PROVE  /\ hit * BlockSize \in Nat /\ hit * BlockSize < n
         /\ MinOf(n - hit * BlockSize, b) \in Nat \ {0} /\ MinOf(n - hit * BlockSize, b) <= b
         /\ hit * BlockSize + MinOf(n - hit * BlockSize, b) <= n
<1>1. BlockSize \in Nat \ {0} /\ hit \in Nat /\ hit <= (n - 1) \div BlockSize
  BY SchedulerAssumption
<1>2. PICK q : q = (n - 1) \div BlockSize
  OBVIOUS
<1>3. q \in Nat /\ q * BlockSize <= n - 1
  BY <1>1, <1>2
<1>4. hit * BlockSize \in Nat /\ hit * BlockSize <= q * BlockSize /\ q * BlockSize \in Nat
  BY <1>1, <1>2, <1>3
<1>5. PICK m : m = hit * BlockSize
  OBVIOUS
<1>6. m \in Nat /\ m < n
  BY <1>3, <1>4, <1>5
<1>7. MinOf(n - m, b) \in Nat \ {0} /\ MinOf(n - m, b) <= b /\ m + MinOf(n - m, b) <= n
  BY <1>6 DEF MinOf
<1> QED
  BY <1>5, <1>6, <1>7

\* An admitted request has nothing in flight and starts behind its prefix-cache hit.
LEMMA AdmitFlight ==
  ASSUME Inv, Regular, NEW hit, ScheduleWaiting(hit)
  PROVE  FlightInv'
<1>1. PICK r, n, c : /\ r = Head(waiting) /\ c = hit * BlockSize
                     /\ n = MinOf(num_tokens[r] - c, budget)
  OBVIOUS
<1>2. /\ CanAdmit /\ hit \in 0 .. (num_tokens[r] - 1) \div BlockSize
      /\ status' = [status EXCEPT ![r] = "running"]
      /\ num_computed_tokens' = [num_computed_tokens EXCEPT ![r] = c]
      /\ batch' = [s \in DOMAIN batch \cup {r} |->
              IF s = r THEN [new |-> n, drafts |-> 0] ELSE batch[s]]
      /\ admitted' = admitted \cup {r}
      /\ budget' = budget - n
      /\ UNCHANGED <<config, num_tokens, num_output_placeholders, spec_tokens,
                     async_tokens_to_discard, is_prefill_chunk,
                     batch_queue, phase, preempted, worker, resets>>
  BY <1>1 DEF ScheduleWaiting, AddToBatch
<1>3. QueueInv /\ FlightInv /\ NumberTypes /\ FramesOK /\ \A x \in Requests : ReqInv(x)
  BY DEF Inv, FlightInv
<1>4. phase = "waiting" /\ waiting # << >> /\ budget > 0 /\ preempted = {}
  BY <1>2, <1>3 DEF CanAdmit, QueueInv, BatchPlaces
<1>5. waiting \in Seq(Requests) /\ IsInjective(waiting)
  BY <1>3 DEF QueueInv, QueueTypes, QueuesMatchStatus
<1>6. r \in ToSet(waiting)
  BY <1>1, <1>4, <1>5, HeadTailSets
<1>7. r \in Requests /\ status[r] \in {"waiting", "preempted"}
  BY <1>3, <1>6 DEF QueueInv, QueuesMatchStatus
<1>8. ReqInv(r) /\ num_tokens[r] \in Nat /\ 1 <= num_tokens[r] /\ budget \in Nat
  BY <1>3, <1>7 DEF NumberTypes, ReqInv, Bounds
<1>9. num_tokens[r] \in Nat \ {0} /\ budget \in Nat \ {0}
  BY <1>4, <1>8
<1>10. c \in Nat /\ c < num_tokens[r] /\ n \in Nat \ {0} /\ n <= budget /\ c + n <= num_tokens[r]
  BY <1>1, <1>2, <1>9, AdmittedStep
<1>11. /\ NumSpecTokens' = NumSpecTokens /\ TokenBudget' = TokenBudget
       /\ NumSpecTokens \in Nat /\ TokenBudget \in Nat /\ MaxModelLen \in Nat
  BY <1>2, <1>3, ConfigTypes DEF NumSpecTokens, TokenBudget
<1>12. NumberTypes'
  <2>1. budget' \in Nat /\ budget' <= TokenBudget
    BY <1>2, <1>3, <1>8, <1>10, <1>11 DEF NumberTypes
  <2>2. num_computed_tokens' \in [Requests -> Nat]
    BY <1>2, <1>3, <1>10 DEF NumberTypes
  <2> QED
    BY <1>2, <1>3, <1>11, <2>1, <2>2 DEF NumberTypes
<1>13. FramesOK'
  BY <1>2, <1>3, SameFrames DEF FramesOK
<1>14. ASSUME NEW x \in Requests, x # r
       PROVE  ReqInv(x)'
  <2>1. /\ num_computed_tokens'[x] = num_computed_tokens[x]
        /\ status'[x] = status[x]
        /\ (x \in DOMAIN batch' <=> x \in DOMAIN batch)
    BY <1>2, <1>3, <1>14 DEF NumberTypes, QueueInv, QueueTypes
  <2>2. x \in DOMAIN batch => batch'[x] = batch[x]
    BY <1>2, <1>14
  <2>3. x \in admitted' <=> x \in admitted
    BY <1>2, <1>14
  <2> QED
    BY <1>2, <1>3, <2>1, <2>2, <2>3, Untouched
<1>15. ReqInv(r)'
  <2>1. ReqInv(r) /\ status'[r] = "running" /\ num_computed_tokens'[r] = c
    BY <1>2, <1>3, <1>7 DEF NumberTypes, QueueInv, QueueTypes
  <2>2. /\ At(1, r)' = At(1, r) /\ Live(1, r)' = Live(1, r) /\ Old(1, r)' = Old(1, r)
        /\ Owes(1, r)' = Owes(1, r) /\ Lost(1, r)' = Lost(1, r) /\ Brings(1, r)' = Brings(1, r)
        /\ At(2, r)' = At(2, r) /\ Live(2, r)' = Live(2, r) /\ Old(2, r)' = Old(2, r)
        /\ Owes(2, r)' = Owes(2, r) /\ Lost(2, r)' = Lost(2, r) /\ Brings(2, r)' = Brings(2, r)
    BY <1>2, SameShares
  <2>3. r \in admitted' /\ batch'[r].new = n /\ batch'[r].drafts = 0
    BY <1>2
  <2>4. Len(batch_queue) < 2 /\ Len(batch_queue) # 2
    <3>1. BatchQueueSize \in Nat /\ BatchQueueSize <= 2
      BY <1>3, ConfigTypes DEF Regular
    <3>2. batch_queue \in Seq(Frames) /\ Len(batch_queue) < BatchQueueSize
      BY <1>3, <1>4 DEF FramesOK
    <3>3. Len(batch_queue) \in Nat
      BY <3>2, LenProperties
    <3> QED
      BY <3>1, <3>2, <3>3
  <2>5. ~ Live(1, r) /\ ~ Live(2, r) /\ (~ config.confidence => spec_tokens[r] = 0)
    <3>1. QueuedInv(r) /\ r \notin preempted
      BY <1>4, <2>1 DEF ReqInv
    <3> QED
      BY <1>7, <2>4, <3>1 DEF QueuedInv
  <2>6. num_tokens[r] < LengthCap(r) /\ LengthCap(r) <= MaxModelLen /\ LengthCap(r) \in Int
    BY <1>7, <2>1, SchedulerAssumption DEF ReqInv, OpenInv, LengthCap, MinOf
  <2>7. c + n < MaxModelLen /\ n <= TokenBudget /\ c <= MaxModelLen
    BY <1>3, <1>8, <1>10, <1>11, <2>6 DEF NumberTypes
  <2>8. Bounds(r)'
    BY <1>2, <1>11, <2>1, <2>7 DEF ReqInv, Bounds
  <2>9. NewInv(r)' /\ QueuedInv(r)' /\ ActiveInv(r)'
    BY <2>1, <2>3 DEF NewInv, QueuedInv, ActiveInv
  <2>10. OpenInv(r)'
    BY <1>2, <1>7, <2>1, <2>2 DEF ReqInv, OpenInv, LengthCap
  <2>11. AdmittedInv(r)'
    BY <1>2, <1>10, <2>1, <2>2, <2>3, <2>5 DEF AdmittedInv
  <2>12. BatchInv(r)'
    BY <1>2, <1>10, <1>11, <2>1, <2>3, <2>7 DEF BatchInv
  <2> QED
    BY <2>8, <2>9, <2>10, <2>11, <2>12 DEF ReqInv
<1> QED
  BY <1>12, <1>13, <1>14, <1>15 DEF FlightInv

\* reset_prefix_cache moves the placeholders of a running request to its discard counter; with
\* no drafts in flight that is one frame, which is then the oldest and stale.
LEMMA ResetFlight ==
  ASSUME Inv, Regular, reset_prefix_cache
  PROVE  FlightInv'
<1>1. PICK S : S = ToSet(running)
  OBVIOUS
<1>2. /\ BetweenSteps /\ resets < config.max_resets /\ resets' = resets + 1
      /\ status' = [r \in Requests |-> IF r \in S THEN "preempted" ELSE status[r]]
      /\ num_computed_tokens' =
           [r \in Requests |-> IF r \in S THEN 0 ELSE num_computed_tokens[r]]
      /\ spec_tokens' = [r \in Requests |-> IF r \in S THEN 0 ELSE spec_tokens[r]]
      /\ async_tokens_to_discard' = [r \in Requests |->
           IF r \in S THEN num_output_placeholders[r] ELSE async_tokens_to_discard[r]]
      /\ num_output_placeholders' =
           [r \in Requests |-> IF r \in S THEN 0 ELSE num_output_placeholders[r]]
      /\ batch_queue' = [i \in DOMAIN batch_queue |->
           [r \in DOMAIN batch_queue[i] |->
              [batch_queue[i][r] EXCEPT !.stale = @ \/ r \in S]]]
      /\ UNCHANGED <<config, num_tokens, is_prefill_chunk, worker, phase, budget, batch,
                     admitted, preempted>>
  BY <1>1 DEF reset_prefix_cache, schedVars
<1>3. QueueInv /\ FlightInv /\ NumberTypes /\ FramesOK /\ \A x \in Requests : ReqInv(x)
  BY DEF Inv, FlightInv
<1>4. /\ NumSpecTokens' = NumSpecTokens /\ TokenBudget' = TokenBudget
      /\ NumSpecTokens \in Nat /\ TokenBudget \in Nat /\ MaxModelLen \in Nat
      /\ config.max_resets \in Nat
  BY <1>2, <1>3, ConfigTypes DEF NumSpecTokens, TokenBudget
<1>5. phase = "idle" /\ DOMAIN batch = {} /\ admitted = {} /\ preempted = {}
  BY <1>2, <1>3 DEF BetweenSteps, QueueInv, BatchPlaces
<1>6. NumSpecTokens = 0
  BY <1>2, <1>3, <1>4 DEF Regular, NumberTypes, NumSpecTokens
<1>7. batch_queue \in Seq(Frames) /\ Len(batch_queue) \in Nat
      /\ DOMAIN batch_queue = 1 .. Len(batch_queue)
  BY <1>3 DEF FramesOK
<1>8. Len(batch_queue) < 2
  BY <1>2, <1>3, <1>7, ConfigTypes DEF BetweenSteps, Regular
<1>9. ASSUME NEW i \in 1 .. Len(batch_queue)
      PROVE  /\ batch_queue[i] \in Frames /\ DOMAIN batch_queue[i] \subseteq Requests
             /\ \A r \in DOMAIN batch_queue[i] : batch_queue[i][r] \in Share
  BY <1>7, FramesAre
<1>10. ASSUME NEW i \in 1 .. Len(batch_queue)
       PROVE  /\ DOMAIN batch_queue'[i] = DOMAIN batch_queue[i]
              /\ \A r \in DOMAIN batch_queue[i] :
                   batch_queue'[i][r] = [batch_queue[i][r] EXCEPT !.stale = @ \/ r \in S]
  BY <1>2, <1>7
<1>11. ASSUME NEW i \in 1 .. Len(batch_queue), NEW r \in DOMAIN batch_queue[i]
       PROVE  /\ batch_queue'[i][r] \in Share
              /\ batch_queue'[i][r].new = batch_queue[i][r].new
              /\ batch_queue'[i][r].drafts = batch_queue[i][r].drafts
              /\ batch_queue'[i][r].start = batch_queue[i][r].start
              /\ batch_queue'[i][r].sampled = batch_queue[i][r].sampled
              /\ batch_queue'[i][r].decode = batch_queue[i][r].decode
              /\ batch_queue'[i][r].stale = (batch_queue[i][r].stale \/ r \in S)
  <2>1. PICK e, f : e = batch_queue[i][r] /\ f = batch_queue'[i][r]
    OBVIOUS
  <2>2. e \in Share /\ f = [e EXCEPT !.stale = @ \/ r \in S]
    BY <1>9, <1>10, <2>1
  <2>3. /\ f \in Share /\ f.new = e.new /\ f.drafts = e.drafts /\ f.start = e.start
        /\ f.sampled = e.sampled /\ f.decode = e.decode /\ f.stale = (e.stale \/ r \in S)
    BY <2>2 DEF Share
  <2> QED
    BY <2>1, <2>3
<1>12. ASSUME NEW i \in 1 .. Len(batch_queue)
       PROVE  batch_queue'[i] \in Frames
  <2>1. PICK D, f : D = DOMAIN batch_queue[i] /\ f = batch_queue'[i]
    OBVIOUS
  <2>2. f = [r \in D |-> [batch_queue[i][r] EXCEPT !.stale = @ \/ r \in S]]
    BY <1>2, <1>7, <2>1
  <2>3. f \in [D -> Share]
    BY <1>11, <2>1, <2>2
  <2>4. D \in SUBSET Requests
    BY <1>9, <2>1
  <2> QED
    BY <2>1, <2>3, <2>4, FramesAre
<1>13. batch_queue' \in Seq(Frames) /\ Len(batch_queue') = Len(batch_queue)
  <2>1. PICK q, n : q = batch_queue' /\ n = Len(batch_queue) /\ n \in Nat
    BY <1>7
  <2>2. DOMAIN q = 1 .. n /\ \A i \in 1 .. n : q[i] \in Frames
    BY <1>2, <1>7, <1>12, <2>1
  <2>3. q = [i \in 1 .. n |-> q[i]]
    BY <1>2, <1>7, <2>1
  <2>4. q \in [1 .. n -> Frames]
    BY <2>2, <2>3
  <2>5. q \in Seq(Frames)
    BY <2>1, <2>4, SeqDef, Zenon
  <2>6. Len(q) \in Nat /\ 1 .. Len(q) = 1 .. n
    BY <2>2, <2>5, LenProperties
  <2>7. Len(q) = n
    BY <2>1, <2>6
  <2> QED
    BY <2>1, <2>5, <2>7
<1>14. FramesOK'
  <2>1. ASSUME NEW i \in 1 .. Len(batch_queue), NEW r \in DOMAIN batch_queue[i]
        PROVE  ShareOK(i, batch_queue[i][r])'
    <3>1. ShareOK(i, batch_queue[i][r])
      BY <1>3 DEF FramesOK
    <3>2. i = 1
      BY <1>7, <1>8
    <3> QED
      BY <1>2, <1>4, <1>6, <1>11, <3>1, <3>2 DEF ShareOK
  <2> QED
    BY <1>2, <1>3, <1>5, <1>10, <1>13, <2>1 DEF FramesOK
<1>15. NumberTypes'
  BY <1>2, <1>3, <1>4 DEF NumberTypes
<1>16. ASSUME NEW r
       PROVE  /\ At(1, r)' <=> At(1, r)
              /\ ~ At(2, r)' /\ ~ At(2, r)
              /\ At(1, r) => /\ Old(1, r)' <=> Old(1, r) \/ r \in S
                             /\ batch_queue'[1][r].sampled = batch_queue[1][r].sampled
                             /\ batch_queue'[1][r].drafts = batch_queue[1][r].drafts
                             /\ batch_queue'[1][r].start = batch_queue[1][r].start
  <2>1. At(1, r)' <=> At(1, r)
    BY <1>10, <1>13 DEF At
  <2>2. ~ At(2, r)' /\ ~ At(2, r)
    BY <1>7, <1>8, <1>13 DEF At
  <2>3. ASSUME At(1, r)
        PROVE  1 \in 1 .. Len(batch_queue) /\ r \in DOMAIN batch_queue[1]
    BY <2>3 DEF At
  <2>4. ASSUME At(1, r)
        PROVE  /\ Old(1, r)' <=> Old(1, r) \/ r \in S
               /\ batch_queue'[1][r].sampled = batch_queue[1][r].sampled
               /\ batch_queue'[1][r].drafts = batch_queue[1][r].drafts
               /\ batch_queue'[1][r].start = batch_queue[1][r].start
    BY <1>11, <2>1, <2>3, <2>4 DEF Old
  <2> QED
    BY <2>1, <2>2, <2>4
<1>17. ASSUME NEW r
       PROVE  ~ Live(2, r)' /\ ~ Live(2, r) /\ ~ Old(2, r)' /\ ~ Old(2, r)
              /\ Owes(2, r)' = 0 /\ Owes(2, r) = 0 /\ Lost(2, r)' = 0 /\ Lost(2, r) = 0
              /\ Brings(2, r)' = 0 /\ Brings(2, r) = 0
  BY <1>16 DEF Live, Old, Owes, Lost, Brings
<1>18. ASSUME NEW r \in Requests, r \notin S
       PROVE  ReqInv(r)'
  <2>1. /\ Live(1, r)' <=> Live(1, r)
        /\ Old(1, r)' <=> Old(1, r)
    BY <1>16, <1>18 DEF Live, Old
  <2>2. /\ Live(1, r) => At(1, r)
    BY DEF Live
  <2>3. /\ Owes(1, r)' = Owes(1, r) /\ Lost(1, r)' = Lost(1, r) /\ Brings(1, r)' = Brings(1, r)
    BY <1>16, <2>1, <2>2 DEF Owes, Lost, Brings, Expected, Undone, Sampled
  <2>4. /\ status'[r] = status[r] /\ num_computed_tokens'[r] = num_computed_tokens[r]
        /\ spec_tokens'[r] = spec_tokens[r]
        /\ async_tokens_to_discard'[r] = async_tokens_to_discard[r]
        /\ num_output_placeholders'[r] = num_output_placeholders[r]
        /\ num_tokens'[r] = num_tokens[r] /\ worker' = worker /\ config' = config
    BY <1>2, <1>18
  <2>5. ReqInv(r)
    BY <1>3
  <2>6. status[r] # "running"
    BY <1>1, <1>3, <1>18 DEF QueueInv, QueuesMatchStatus
  <2>7. Bounds(r)'
    BY <1>4, <2>4, <2>5 DEF ReqInv, Bounds
  <2>8. NewInv(r)'
    BY <1>16, <2>4, <2>5 DEF ReqInv, NewInv
  <2>9. OpenInv(r)'
    <3>1. Old(1, r) => At(1, r)
      BY DEF Old
    <3> QED
      BY <1>16, <1>17, <2>1, <2>2, <2>3, <2>4, <2>5, <3>1 DEF ReqInv, OpenInv, LengthCap
  <2>10. QueuedInv(r)'
    BY <1>2, <1>13, <1>17, <2>1, <2>4, <2>5 DEF ReqInv, QueuedInv
  <2>11. AdmittedInv(r)' /\ ActiveInv(r)' /\ BatchInv(r)'
    BY <1>2, <1>5, <2>4, <2>6 DEF AdmittedInv, ActiveInv, BatchInv
  <2> QED
    BY <2>7, <2>8, <2>9, <2>10, <2>11 DEF ReqInv
<1>19. ASSUME NEW r \in Requests, r \in S
       PROVE  ReqInv(r)'
  <2>1. /\ status'[r] = "preempted" /\ num_computed_tokens'[r] = 0 /\ spec_tokens'[r] = 0
        /\ async_tokens_to_discard'[r] = num_output_placeholders[r]
        /\ num_output_placeholders'[r] = 0
        /\ num_tokens'[r] = num_tokens[r]
    BY <1>2, <1>19
  <2>2. ReqInv(r) /\ status[r] = "running" /\ r \notin admitted
    BY <1>1, <1>3, <1>5, <1>19 DEF QueueInv, QueuesMatchStatus
  <2>3. ~ Old(1, r)
    BY <1>7, <1>8, <2>2 DEF ReqInv, ActiveInv
  <2>4. ~ Live(1, r)' /\ (Old(1, r)' <=> At(1, r)) /\ (Live(1, r) <=> At(1, r))
    BY <1>16, <1>19, <2>3 DEF Live, Old
  <2>5. Owes(1, r)' = 0
    BY <2>4 DEF Owes
  <2>6. num_output_placeholders[r] = Owes(1, r)
    <3>1. Owes(1, r) \in Nat
      BY <1>3, Shares
    <3> QED
      BY <1>17, <2>2, <3>1 DEF ReqInv, OpenInv
  <2>7. /\ At(1, r) /\ batch_queue[1][r].sampled > 0 => num_output_placeholders[r] = 1
        /\ ~ (At(1, r) /\ batch_queue[1][r].sampled > 0) => num_output_placeholders[r] = 0
    <3>1. At(1, r) => batch_queue[1][r] \in Share /\ ShareOK(1, batch_queue[1][r])
      BY <1>3, Shares
    <3>2. At(1, r) => batch_queue[1][r].drafts = 0
      BY <1>6, <3>1 DEF Share, ShareOK
    <3> QED
      BY <2>4, <2>6, <3>2 DEF Owes, Expected
  <2>8. Bounds(r)'
    BY <1>4, <2>1, <2>2 DEF ReqInv, Bounds
  <2>9. NewInv(r)' /\ AdmittedInv(r)' /\ ActiveInv(r)' /\ BatchInv(r)'
    BY <1>2, <1>5, <2>1 DEF NewInv, AdmittedInv, ActiveInv, BatchInv
  <2>10. QueuedInv(r)'
    BY <1>17, <2>1, <2>4 DEF QueuedInv
  <2>11. OpenInv(r)'
    <3>1. PromptLen[r] <= num_tokens[r] /\ num_tokens[r] < LengthCap(r)
      BY <2>2 DEF ReqInv, OpenInv
    <3>2. Old(1, r)' => batch_queue'[1][r].sampled = batch_queue[1][r].sampled
      BY <1>16, <2>4
    <3> QED
      BY <1>16, <1>17, <2>1, <2>4, <2>5, <2>7, <3>1, <3>2 DEF OpenInv, LengthCap
  <2> QED
    BY <2>8, <2>9, <2>10, <2>11 DEF ReqInv
<1> QED
  BY <1>14, <1>15, <1>18, <1>19 DEF FlightInv

\* The worker's state of a request of the batch, when it executes the batch: what the
\* scheduler counts, outputs in flight aside.
LEMMA WorkerBefore ==
  ASSUME Inv, Regular, NEW r \in Requests
  PROVE  /\ WorkerState(r) \in WorkerStates
         /\ r \in DOMAIN batch =>
              /\ WorkerState(r).num_computed + (Lost(1, r) + Lost(2, r)) = num_computed_tokens[r]
              /\ WorkerState(r).total_len = num_tokens[r] + (Brings(1, r) + Brings(2, r))
              /\ \/ /\ WorkerState(r).prefill_len = num_tokens[r]
                    /\ num_computed_tokens[r] < num_tokens[r]
                    /\ Owes(1, r) = 0 /\ Owes(2, r) = 0
                    /\ ~ config.confidence => spec_tokens[r] = 0
                 \/ /\ WorkerState(r).prefill_len <= WorkerState(r).num_computed
                    /\ num_tokens[r] + num_output_placeholders[r] = num_computed_tokens[r] + 1
                    /\ r \notin admitted
              /\ status[r] = "running"
              /\ ~ config.confidence /\ batch[r].drafts > 0 =>
                   WorkerState(r).prefill_len <= WorkerState(r).num_computed
         /\ status[r] = "running" /\ r \notin admitted => WorkerState(r) = worker[r]
<1>1. QueueInv /\ FlightInv /\ NumberTypes /\ ReqInv(r)
  BY DEF Inv, FlightInv
<1>2. worker[r] \in WorkerStates /\ num_tokens[r] \in Nat /\ num_computed_tokens[r] \in Nat
  BY <1>1 DEF NumberTypes
<1>3. WorkerState(r) \in WorkerStates
  BY <1>2 DEF WorkerState, WorkerStates, Unknown
<1>4. status[r] = "running" /\ r \notin admitted => WorkerState(r) = worker[r]
  BY <1>1 DEF WorkerState, QueueInv, BatchPlaces
<1>5. r \in DOMAIN batch => status[r] = "running"
  BY <1>1 DEF QueueInv, BatchPlaces, QueuesMatchStatus
<1>6. ASSUME r \in DOMAIN batch, r \notin admitted
      PROVE  /\ WorkerState(r).num_computed + (Lost(1, r) + Lost(2, r)) = num_computed_tokens[r]
             /\ WorkerState(r).total_len = num_tokens[r] + (Brings(1, r) + Brings(2, r))
             /\ \/ /\ WorkerState(r).prefill_len = num_tokens[r]
                   /\ num_computed_tokens[r] < num_tokens[r]
                   /\ Owes(1, r) = 0 /\ Owes(2, r) = 0
                   /\ ~ config.confidence => spec_tokens[r] = 0
                \/ /\ WorkerState(r).prefill_len <= WorkerState(r).num_computed
                   /\ num_tokens[r] + num_output_placeholders[r] = num_computed_tokens[r] + 1
                   /\ r \notin admitted
             /\ ~ config.confidence /\ batch[r].drafts > 0 =>
                  WorkerState(r).prefill_len <= WorkerState(r).num_computed
  BY <1>1, <1>4, <1>5, <1>6 DEF ReqInv, ActiveInv, BatchInv, Prefilling, Decoding
<1>7. ASSUME r \in DOMAIN batch, r \in admitted
      PROVE  /\ WorkerState(r).num_computed + (Lost(1, r) + Lost(2, r)) = num_computed_tokens[r]
             /\ WorkerState(r).total_len = num_tokens[r] + (Brings(1, r) + Brings(2, r))
             /\ WorkerState(r).prefill_len = num_tokens[r]
             /\ num_computed_tokens[r] < num_tokens[r]
             /\ Owes(1, r) = 0 /\ Owes(2, r) = 0
             /\ ~ config.confidence => spec_tokens[r] = 0
             /\ batch[r].drafts = 0
  <2>1. /\ ~ Live(1, r) /\ ~ Live(2, r) /\ batch[r].drafts = 0
        /\ ~ config.confidence => spec_tokens[r] = 0
        /\ num_computed_tokens[r] + batch[r].new <= num_tokens[r]
        /\ batch[r].new \in Nat \ {0}
    BY <1>1, <1>7 DEF ReqInv, AdmittedInv, BatchInv
  <2>2. /\ Owes(1, r) = 0 /\ Owes(2, r) = 0 /\ Lost(1, r) = 0 /\ Lost(2, r) = 0
        /\ Brings(1, r) = 0 /\ Brings(2, r) = 0
    BY <2>1 DEF Owes, Lost, Brings
  <2>3. WorkerState(r) = [num_computed |-> num_computed_tokens[r], prefill_len |-> num_tokens[r],
                          total_len |-> num_tokens[r]]
    BY <1>7 DEF WorkerState
  <2> QED
    BY <1>2, <2>1, <2>2, <2>3
<1>8. ASSUME r \in DOMAIN batch, r \in admitted
      PROVE  ~ (~ config.confidence /\ batch[r].drafts > 0)
  BY <1>7, <1>8
<1> QED
  BY <1>3, <1>4, <1>5, <1>6, <1>7, <1>8

\* What the worker does with it: it samples exactly for the requests that the scheduler
\* does not count as chunks of a prefill.
LEMMA WorkerAfter ==
  ASSUME Inv, Regular, NEW r \in DOMAIN batch, NEW a \in Nat, a <= batch[r].drafts,
         NEW w, w = WorkerState(r), NEW v, v = PostUpdate(w, batch[r], a),
         NEW chunk \in BOOLEAN,
         chunk <=> num_computed_tokens[r] + batch[r].new < num_tokens[r] + num_output_placeholders[r]
  PROVE  /\ v \in WorkerStates /\ v.prefill_len = w.prefill_len
         /\ v.total_len - w.total_len = IF chunk THEN 0 ELSE 1 + a
         /\ v.num_computed = w.num_computed + batch[r].new
                               - (IF chunk THEN 0 ELSE batch[r].drafts - a)
         /\ chunk => /\ w.prefill_len = num_tokens[r]
                     /\ num_computed_tokens[r] + batch[r].new < num_tokens[r]
                     /\ Owes(1, r) = 0 /\ Owes(2, r) = 0
                     /\ ~ config.confidence => spec_tokens[r] = 0
                     /\ batch[r].drafts = 0
         /\ ~ chunk => /\ v.prefill_len <= v.num_computed
                       /\ num_computed_tokens[r] + batch[r].new
                            = num_tokens[r] + num_output_placeholders[r] + batch[r].drafts
<1>1. QueueInv /\ FlightInv /\ NumberTypes /\ r \in Requests
  BY DEF Inv, FlightInv, QueueInv, BatchPlaces, QueuesMatchStatus
<1>2. ReqInv(r)
  BY <1>1 DEF FlightInv
<1>3. PICK c, nt, p, n, d : /\ c = num_computed_tokens[r] /\ nt = num_tokens[r]
                           /\ p = num_output_placeholders[r]
                           /\ n = batch[r].new /\ d = batch[r].drafts
  OBVIOUS
<1>4. /\ c \in Nat /\ nt \in Nat /\ p \in Nat /\ n \in Nat \ {0} /\ d \in Nat /\ a <= d
  BY <1>1, <1>2, <1>3 DEF NumberTypes, ReqInv, BatchInv
<1>5. PICK o1, o2, l1, l2, b1, b2 : /\ o1 = Owes(1, r) /\ o2 = Owes(2, r)
                                    /\ l1 = Lost(1, r) /\ l2 = Lost(2, r)
                                    /\ b1 = Brings(1, r) /\ b2 = Brings(2, r)
  OBVIOUS
<1>6. /\ o1 \in Nat /\ l1 \in Nat /\ b1 \in Nat /\ o1 = l1 + b1
      /\ o2 \in Nat /\ l2 \in Nat /\ b2 \in Nat /\ o2 = l2 + b2
  BY <1>1, <1>5, Shares
<1>7. /\ w \in WorkerStates
      /\ w.num_computed + (l1 + l2) = c /\ w.total_len = nt + (b1 + b2)
      /\ \/ /\ w.prefill_len = nt /\ c < nt /\ o1 = 0 /\ o2 = 0
            /\ ~ config.confidence => spec_tokens[r] = 0
         \/ w.prefill_len <= w.num_computed /\ nt + p = c + 1 /\ r \notin admitted
      /\ status[r] = "running"
  BY <1>1, <1>3, <1>5, WorkerBefore
<1>8. w.num_computed \in Nat /\ w.prefill_len \in Nat /\ w.total_len \in Nat
  BY <1>7 DEF WorkerStates
<1>9. p = o1 + o2
  BY <1>2, <1>3, <1>5, <1>7 DEF ReqInv, OpenInv
<1>10. (d = 0 /\ c + n < nt + p) \/ c + n = nt + p + d
  <2>1. CASE r \notin admitted
    BY <1>2, <1>3, <2>1 DEF ReqInv, BatchInv
  <2>2. CASE r \in admitted
    <3>1. d = 0 /\ c + n <= nt
      BY <1>2, <1>3, <2>2 DEF ReqInv, AdmittedInv
    <3>2. p = 0
      BY <1>6, <1>7, <1>9, <2>2
    <3> QED
      BY <1>4, <3>1, <3>2
  <2> QED
    BY <2>1, <2>2
<1>11. chunk <=> c + n < nt + p
  BY <1>3
<1>12. ASSUME chunk
       PROVE  w.prefill_len = nt /\ c + n < nt /\ o1 = 0 /\ o2 = 0 /\ d = 0
              /\ (~ config.confidence => spec_tokens[r] = 0)
              /\ w.num_computed = c
  BY <1>4, <1>6, <1>7, <1>8, <1>9, <1>10, <1>11, <1>12
<1>13. ASSUME ~ chunk
       PROVE  /\ c + n = nt + p + d /\ w.num_computed + n >= w.prefill_len
              /\ w.prefill_len <= w.num_computed + n - (d - a)
              /\ w.num_computed + n - (d - a) \in Nat
  BY <1>4, <1>6, <1>7, <1>8, <1>9, <1>10, <1>11, <1>13
<1>14. Samples(w, batch[r]) <=> ~ chunk
  BY <1>3, <1>4, <1>8, <1>12, <1>13 DEF Samples
<1>15. CASE chunk
  <2>1. v = [w EXCEPT !.num_computed = @ + n]
    BY <1>3, <1>14, <1>15 DEF PostUpdate
  <2>2. /\ v.num_computed = w.num_computed + n /\ v.prefill_len = w.prefill_len
        /\ v.total_len = w.total_len /\ v \in WorkerStates
    BY <1>4, <1>7, <1>8, <2>1 DEF WorkerStates
  <2> QED
    BY <1>3, <1>4, <1>5, <1>8, <1>12, <1>15, <2>2
<1>16. CASE ~ chunk
  <2>0. PICK x, y : x = w.num_computed + n - (d - a) /\ y = w.total_len + 1 + a
    OBVIOUS
  <2>a. x \in Nat /\ y \in Nat
    BY <1>8, <1>13, <1>16, <2>0
  <2>1. v = [w EXCEPT !.num_computed = x, !.total_len = y]
    BY <1>3, <1>14, <1>16, <2>0 DEF PostUpdate
  <2>2. /\ v.num_computed = x /\ v.prefill_len = w.prefill_len
        /\ v.total_len = y /\ v \in WorkerStates
    BY <1>7, <2>a, <2>1 DEF WorkerStates
  <2> QED
    BY <1>3, <1>4, <1>5, <1>8, <1>13, <1>16, <2>0, <2>2
<1> QED
  BY <1>15, <1>16

\* The frame that a dispatch sends.
NewShare(r, v) ==
  [new |-> batch[r].new, drafts |-> batch[r].drafts, start |-> WorkerState(r).total_len,
   sampled |-> v.total_len - WorkerState(r).total_len,
   decode |-> WorkerState(r).num_computed >= WorkerState(r).prefill_len, stale |-> FALSE]

Chunk(r) ==
  num_computed_tokens[r] + batch[r].new < num_tokens[r] + num_output_placeholders[r]

\* What a dispatch with accepted[r] = a does to a request r of the batch.
Sent(r, a) ==
  /\ num_computed_tokens'[r] = num_computed_tokens[r] + batch[r].new
  /\ num_output_placeholders'[r] =
       num_output_placeholders[r] + (IF Chunk(r) THEN 0 ELSE 1 + batch[r].drafts)
  /\ spec_tokens'[r] = IF Chunk(r) THEN spec_tokens[r] ELSE NumSpecTokens
  /\ worker'[r] = PostUpdate(WorkerState(r), batch[r], a)

\* What the end of schedule() does to the variables, request by request.
LEMMA DispatchSteps ==
  ASSUME Inv, NEW accepted, Dispatch(accepted)
  PROVE  /\ phase = "dispatch" /\ \A r \in DOMAIN batch : accepted[r] <= batch[r].drafts
         /\ batch_queue' = Append(batch_queue, [r \in DOMAIN batch |-> NewShare(r, worker'[r])])
         /\ phase' = "idle" /\ budget' = 0 /\ batch' = << >> /\ admitted' = {} /\ preempted' = {}
         /\ UNCHANGED <<config, status, num_tokens, async_tokens_to_discard, resets>>
         /\ \A r \in DOMAIN batch : Sent(r, accepted[r])
         /\ \A r \in Requests : r \notin DOMAIN batch =>
              /\ num_computed_tokens'[r] = num_computed_tokens[r]
              /\ num_output_placeholders'[r] = num_output_placeholders[r]
              /\ spec_tokens'[r] = spec_tokens[r]
              /\ worker'[r] = WorkerState(r)
         /\ DOMAIN num_computed_tokens' = Requests /\ DOMAIN num_output_placeholders' = Requests
         /\ DOMAIN spec_tokens' = Requests /\ DOMAIN worker' = Requests
         /\ num_computed_tokens' = [r \in Requests |-> num_computed_tokens'[r]]
         /\ num_output_placeholders' = [r \in Requests |-> num_output_placeholders'[r]]
         /\ spec_tokens' = [r \in Requests |-> spec_tokens'[r]]
         /\ worker' = [r \in Requests |-> worker'[r]]
         /\ is_prefill_chunk' \in [Requests -> BOOLEAN]
<1>1. /\ phase = "dispatch" /\ \A r \in DOMAIN batch : accepted[r] <= batch[r].drafts
      /\ num_computed_tokens' =
           [r \in Requests |-> IF r \in DOMAIN batch THEN num_computed_tokens[r] + batch[r].new
                               ELSE num_computed_tokens[r]]
      /\ is_prefill_chunk' =
           [r \in Requests |-> IF r \in DOMAIN batch THEN Chunk(r) ELSE is_prefill_chunk[r]]
      /\ num_output_placeholders' = [r \in Requests |->
           IF r \in DOMAIN batch /\ ~ Chunk(r)
           THEN num_output_placeholders[r] + 1 + batch[r].drafts
           ELSE num_output_placeholders[r]]
      /\ spec_tokens' = [r \in Requests |->
           IF r \in DOMAIN batch THEN (IF Chunk(r) THEN spec_tokens[r] ELSE NumSpecTokens)
           ELSE spec_tokens[r]]
      /\ worker' = [r \in Requests |->
           IF r \in DOMAIN batch
           THEN PostUpdate([x \in Requests |-> WorkerState(x)][r], batch[r], accepted[r])
           ELSE [x \in Requests |-> WorkerState(x)][r]]
      /\ batch_queue' = Append(batch_queue, [r \in DOMAIN batch |->
           [new |-> batch[r].new,
            drafts |-> batch[r].drafts,
            start |-> [x \in Requests |-> WorkerState(x)][r].total_len,
            sampled |-> worker'[r].total_len - [x \in Requests |-> WorkerState(x)][r].total_len,
            decode |-> [x \in Requests |-> WorkerState(x)][r].num_computed
                         >= [x \in Requests |-> WorkerState(x)][r].prefill_len,
            stale |-> FALSE]])
      /\ phase' = "idle" /\ budget' = 0 /\ batch' = << >> /\ admitted' = {} /\ preempted' = {}
      /\ UNCHANGED <<config, status, num_tokens, async_tokens_to_discard, resets>>
  BY Zenon DEF Dispatch, Chunk, NextSpecTokens
<1>2. DOMAIN batch \subseteq Requests
  BY DEF Inv, QueueInv, BatchPlaces, QueuesMatchStatus
<1>3. \A r \in Requests : [x \in Requests |-> WorkerState(x)][r] = WorkerState(r)
  BY Zenon
<1>4. batch_queue' = Append(batch_queue, [r \in DOMAIN batch |-> NewShare(r, worker'[r])])
  <2>1. \A r \in DOMAIN batch : [x \in Requests |-> WorkerState(x)][r] = WorkerState(r)
    BY <1>2, <1>3, Zenon
  <2> QED
    BY <1>1, <2>1, Zenon DEF NewShare
<1>5. ASSUME NEW r \in Requests
      PROVE  worker'[r] = IF r \in DOMAIN batch
                          THEN PostUpdate(WorkerState(r), batch[r], accepted[r])
                          ELSE WorkerState(r)
  BY <1>1, <1>3, Zenon
<1>6. ASSUME NEW r \in DOMAIN batch
      PROVE  Sent(r, accepted[r])
  <2>1. r \in Requests
    BY <1>2
  <2>2. worker'[r] = PostUpdate(WorkerState(r), batch[r], accepted[r])
    BY <1>5, <2>1
  <2>3. num_computed_tokens'[r] = num_computed_tokens[r] + batch[r].new
    BY <1>1, <2>1
  <2>4. spec_tokens'[r] = IF Chunk(r) THEN spec_tokens[r] ELSE NumSpecTokens
    BY <1>1, <2>1
  <2>5. num_output_placeholders[r] \in Nat /\ batch[r].drafts \in Nat
    BY <2>1 DEF Inv, FlightInv, NumberTypes, ReqInv, BatchInv
  <2>6. num_output_placeholders'[r] =
          IF ~ Chunk(r) THEN num_output_placeholders[r] + 1 + batch[r].drafts
          ELSE num_output_placeholders[r]
    BY <1>1, <2>1
  <2>7. num_output_placeholders'[r] =
       num_output_placeholders[r] + (IF Chunk(r) THEN 0 ELSE 1 + batch[r].drafts)
    BY <2>5, <2>6
  <2> QED
    BY <2>2, <2>3, <2>4, <2>7 DEF Sent
<1>7. \A r \in Requests : r \notin DOMAIN batch =>
              /\ num_computed_tokens'[r] = num_computed_tokens[r]
              /\ num_output_placeholders'[r] = num_output_placeholders[r]
              /\ spec_tokens'[r] = spec_tokens[r]
              /\ worker'[r] = WorkerState(r)
  BY <1>1, <1>5
<1>8. is_prefill_chunk' \in [Requests -> BOOLEAN]
  <2>1. is_prefill_chunk \in [Requests -> BOOLEAN]
    BY DEF Inv, FlightInv, NumberTypes
  <2>2. \A r \in Requests : Chunk(r) \in BOOLEAN
    BY DEF Chunk
  <2> QED
    BY <1>1, <2>1, <2>2, Zenon
<1>9. /\ DOMAIN num_computed_tokens' = Requests /\ DOMAIN num_output_placeholders' = Requests
      /\ DOMAIN spec_tokens' = Requests /\ DOMAIN worker' = Requests
      /\ num_computed_tokens' = [r \in Requests |-> num_computed_tokens'[r]]
      /\ num_output_placeholders' = [r \in Requests |-> num_output_placeholders'[r]]
      /\ spec_tokens' = [r \in Requests |-> spec_tokens'[r]]
      /\ worker' = [r \in Requests |-> worker'[r]]
  BY <1>1, Zenon
<1> QED
  BY <1>1, <1>4, <1>6, <1>7, <1>8, <1>9, Zenon

\* The share a dispatch sends for r, and what the worker makes of it.
LEMMA SentShare ==
  ASSUME Inv, Regular, NEW accepted \in [DOMAIN batch -> 0 .. NumSpecTokens],
         Dispatch(accepted), NEW r \in DOMAIN batch
  PROVE  /\ NewShare(r, worker'[r]) \in Share
         /\ ShareOK(Len(batch_queue) + 1, NewShare(r, worker'[r]))
         /\ NewShare(r, worker'[r]).drafts = batch[r].drafts
         /\ NewShare(r, worker'[r]).sampled = (IF Chunk(r) THEN 0 ELSE 1 + accepted[r])
         /\ NewShare(r, worker'[r]).start = num_tokens[r] + Brings(1, r)
         /\ NewShare(r, worker'[r]).stale = FALSE
         /\ worker'[r] \in WorkerStates
         /\ worker'[r].prefill_len = WorkerState(r).prefill_len
         /\ worker'[r].total_len =
              WorkerState(r).total_len + (IF Chunk(r) THEN 0 ELSE 1 + accepted[r])
         /\ worker'[r].num_computed = WorkerState(r).num_computed + batch[r].new
                               - (IF Chunk(r) THEN 0 ELSE batch[r].drafts - accepted[r])
<1>1. QueueInv /\ FlightInv /\ NumberTypes /\ FramesOK /\ r \in Requests
  BY DEF Inv, FlightInv, QueueInv, BatchPlaces, QueuesMatchStatus
<1>2. ReqInv(r)
  BY <1>1 DEF FlightInv
<1>3. NumSpecTokens \in Nat /\ TokenBudget \in Nat /\ MaxModelLen \in Nat
  BY <1>1, ConfigTypes
<1>4. PICK w, v, a, e : /\ w = WorkerState(r) /\ v = worker'[r] /\ a = accepted[r]
                        /\ e = NewShare(r, worker'[r])
  OBVIOUS
<1>c. PICK c \in BOOLEAN : c <=> Chunk(r)
  OBVIOUS
<1>5. a \in Nat /\ a <= batch[r].drafts /\ v = PostUpdate(w, batch[r], a)
  <2>1. Sent(r, accepted[r])
    BY DispatchSteps, Zenon
  <2>2. accepted[r] <= batch[r].drafts
    BY DispatchSteps, Zenon
  <2> QED
    BY <1>3, <1>4, <2>1, <2>2 DEF Sent
<1>6. c \in BOOLEAN /\ (c <=> num_computed_tokens[r] + batch[r].new
                            < num_tokens[r] + num_output_placeholders[r])
  BY <1>c DEF Chunk
<1>7. /\ v \in WorkerStates /\ v.prefill_len = w.prefill_len
      /\ v.total_len - w.total_len = (IF c THEN 0 ELSE 1 + a)
      /\ v.num_computed = w.num_computed + batch[r].new - (IF c THEN 0 ELSE batch[r].drafts - a)
  BY <1>4, <1>5, <1>6, WorkerAfter
<1>8. /\ w \in WorkerStates /\ w.total_len = num_tokens[r] + (Brings(1, r) + Brings(2, r))
      /\ ~ config.confidence /\ batch[r].drafts > 0 => w.prefill_len <= w.num_computed
      /\ status[r] = "running"
  BY <1>1, <1>4, WorkerBefore
<1>9. w.total_len \in Nat /\ v.total_len \in Nat /\ w.num_computed \in Nat /\ w.prefill_len \in Nat
  BY <1>7, <1>8 DEF WorkerStates
<1>10. /\ batch[r].new \in Nat \ {0} /\ batch[r].new <= TokenBudget
       /\ batch[r].drafts \in Nat /\ batch[r].drafts <= NumSpecTokens
  BY <1>2 DEF ReqInv, BatchInv
<1>11. /\ e.new = batch[r].new /\ e.drafts = batch[r].drafts /\ e.start = w.total_len
       /\ e.sampled = v.total_len - w.total_len
       /\ e.decode = (w.num_computed >= w.prefill_len) /\ e.stale = FALSE
       /\ e = [new |-> batch[r].new, drafts |-> batch[r].drafts, start |-> w.total_len,
               sampled |-> v.total_len - w.total_len,
               decode |-> w.num_computed >= w.prefill_len, stale |-> FALSE]
  BY <1>4 DEF NewShare
<1>12. (IF c THEN 0 ELSE 1 + a) \in Nat /\ (IF c THEN 0 ELSE 1 + a) <= 1 + batch[r].drafts
  BY <1>5, <1>6, <1>10
<1>13. e \in Share
  <2>1. v.total_len - w.total_len \in Nat /\ (w.num_computed >= w.prefill_len) \in BOOLEAN
    BY <1>7, <1>12
  <2> QED
    BY <1>9, <1>10, <1>11, <2>1 DEF Share
<1>14. Brings(2, r) = 0
  <2>1. phase = "dispatch"
    BY DispatchSteps
  <2>2. Len(batch_queue) < 2
    BY <1>1, <2>1, ConfigTypes DEF FramesOK, Regular
  <2>3. ~ Live(2, r)
    BY <1>1, <2>2 DEF Live, At, FramesOK
  <2> QED
    BY <2>3 DEF Brings
<1>15. Brings(1, r) \in Nat /\ Brings(1, r) <= NumSpecTokens + 1
  BY <1>1, Shares
<1>16. num_tokens[r] \in Nat /\ num_tokens[r] <= MaxModelLen
  BY <1>1, <1>2 DEF NumberTypes, ReqInv, Bounds
<1>17. e.start = num_tokens[r] + Brings(1, r)
  BY <1>8, <1>11, <1>14, <1>15, <1>16
<1>18. ShareOK(Len(batch_queue) + 1, e)
  <2>1. e.new \in 1 .. TokenBudget /\ e.drafts <= NumSpecTokens
    BY <1>3, <1>10, <1>11
  <2>2. e.start <= MaxModelLen + NumSpecTokens + 1
    BY <1>3, <1>15, <1>16, <1>17
  <2>3. e.sampled <= 1 + e.drafts
    BY <1>7, <1>11, <1>12
  <2>4. ~ config.confidence /\ e.drafts > 0 => e.decode
    BY <1>8, <1>9, <1>11
  <2> QED
    BY <1>11, <2>1, <2>2, <2>3, <2>4 DEF ShareOK
<1>19. v.total_len = w.total_len + (IF c THEN 0 ELSE 1 + a)
  BY <1>7, <1>9, <1>12
<1>20. (IF c THEN 0 ELSE 1 + a) = (IF Chunk(r) THEN 0 ELSE 1 + accepted[r])
  BY <1>4, <1>c
<1>21. (IF c THEN 0 ELSE batch[r].drafts - a)
         = (IF Chunk(r) THEN 0 ELSE batch[r].drafts - accepted[r])
  BY <1>4, <1>c
<1> QED
  BY <1>4, <1>7, <1>11, <1>13, <1>17, <1>18, <1>19, <1>20, <1>21

\* The frames after a dispatch: those before it, and the new one.
LEMMA SentFrames ==
  ASSUME Inv, Regular, NEW accepted \in [DOMAIN batch -> 0 .. NumSpecTokens],
         Dispatch(accepted)
  PROVE  /\ FramesOK' /\ Len(batch_queue) \in {0, 1} /\ Len(batch_queue') = Len(batch_queue) + 1
         /\ Len(batch_queue) = 1 => batch_queue'[1] = batch_queue[1]
         /\ DOMAIN batch_queue'[Len(batch_queue) + 1] = DOMAIN batch
         /\ \A r \in DOMAIN batch :
              batch_queue'[Len(batch_queue) + 1][r] = NewShare(r, worker'[r])
<1>1. QueueInv /\ FlightInv /\ FramesOK /\ DOMAIN batch \subseteq Requests
  BY DEF Inv, FlightInv, QueueInv, BatchPlaces, QueuesMatchStatus
<1>2. PICK f : f = [r \in DOMAIN batch |-> NewShare(r, worker'[r])]
  OBVIOUS
<1>3. phase = "dispatch" /\ phase' = "idle" /\ batch_queue' = Append(batch_queue, f)
      /\ config' = config
  BY <1>2, DispatchSteps
<1>4. f \in [DOMAIN batch -> Share]
  BY <1>2, SentShare
<1>5. f \in Frames
  BY <1>1, <1>4, FramesAre
<1>6. batch_queue \in Seq(Frames) /\ Len(batch_queue) \in Nat /\ Len(batch_queue) < BatchQueueSize
  BY <1>1, <1>3 DEF FramesOK
<1>7. /\ batch_queue' \in Seq(Frames) /\ Len(batch_queue') = Len(batch_queue) + 1
      /\ \A i \in 1 .. Len(batch_queue) : batch_queue'[i] = batch_queue[i]
      /\ batch_queue'[Len(batch_queue) + 1] = f
  BY <1>3, <1>5, <1>6
<1>8. Len(batch_queue) \in {0, 1} /\ Len(batch_queue') <= BatchQueueSize
  <2>1. PICK n \in Nat : n = Len(batch_queue)
    BY <1>6
  <2>2. n < BatchQueueSize /\ BatchQueueSize \in Nat /\ BatchQueueSize <= 2
    BY <1>6, <2>1, SchedulerAssumption DEF Regular
  <2>3. n \in {0, 1} /\ n + 1 <= BatchQueueSize
    BY <2>2
  <2> QED
    BY <1>7, <2>1, <2>3
<1>9. ASSUME NEW i \in 1 .. Len(batch_queue'), NEW r \in DOMAIN batch_queue'[i]
      PROVE  ShareOK(i, batch_queue[i][r])'
  <2>0. NumSpecTokens' = NumSpecTokens /\ TokenBudget' = TokenBudget /\ config' = config
    BY <1>3 DEF NumSpecTokens, TokenBudget
  <2>1. CASE i \in 1 .. Len(batch_queue)
    <3>1. batch_queue'[i] = batch_queue[i] /\ ShareOK(i, batch_queue[i][r])
      BY <1>1, <1>7, <1>9, <2>1 DEF FramesOK
    <3> QED
      BY <2>0, <3>1 DEF ShareOK
  <2>2. CASE i = Len(batch_queue) + 1
    <3>1. r \in DOMAIN batch /\ batch_queue'[i][r] = NewShare(r, worker'[r])
      BY <1>2, <1>7, <1>9, <2>2
    <3>2. ShareOK(i, NewShare(r, worker'[r]))
      BY <2>2, <3>1, SentShare
    <3>3. PICK e : e = NewShare(r, worker'[r])
      OBVIOUS
    <3> QED
      BY <2>0, <3>1, <3>2, <3>3 DEF ShareOK
  <2> QED
    BY <1>6, <1>7, <2>1, <2>2
<1>10. FramesOK'
  BY <1>3, <1>7, <1>8, <1>9 DEF FramesOK
<1> QED
  BY <1>2, <1>6, <1>7, <1>8, <1>10

\* The counts of r over the frames, after a dispatch.
LEMMA SentCounts ==
  ASSUME Inv, Regular, NEW accepted \in [DOMAIN batch -> 0 .. NumSpecTokens],
         Dispatch(accepted), NEW r \in Requests
  PROVE  /\ r \notin DOMAIN batch =>
              /\ (Live(1, r)' <=> Live(1, r)) /\ ~ Live(2, r) /\ ~ Live(2, r)'
              /\ Owes(1, r)' = Owes(1, r) /\ Owes(2, r)' = Owes(2, r)
              /\ Lost(1, r)' = Lost(1, r) /\ Lost(2, r)' = Lost(2, r)
              /\ Brings(1, r)' = Brings(1, r) /\ Brings(2, r)' = Brings(2, r)
              /\ (At(1, r) \/ At(2, r))' => At(1, r)
         /\ (Old(1, r)' <=> Old(1, r)) /\ (Old(1, r) => Len(batch_queue) = 1)
         /\ Old(1, r) => batch_queue'[1][r] = batch_queue[1][r]
         /\ Live(1, r) => Len(batch_queue) = 1 /\ batch_queue'[1][r] = batch_queue[1][r]
         /\ r \in DOMAIN batch =>
              /\ Owes(1, r)' \in Nat /\ Owes(2, r)' \in Nat
              /\ Owes(1, r)' + Owes(2, r)' = (Owes(1, r) + Owes(2, r))
                   + (IF Chunk(r) THEN 0 ELSE 1 + batch[r].drafts)
              /\ Lost(1, r)' + Lost(2, r)' = (Lost(1, r) + Lost(2, r))
                   + (IF Chunk(r) THEN 0 ELSE batch[r].drafts - accepted[r])
              /\ Brings(1, r)' + Brings(2, r)' = (Brings(1, r) + Brings(2, r))
                   + (IF Chunk(r) THEN 0 ELSE 1 + accepted[r])
              /\ Live(1, r)' => batch_queue'[1][r].start =
                   IF Live(1, r) THEN batch_queue[1][r].start ELSE num_tokens[r]
              /\ Live(2, r)' => batch_queue'[2][r].start = num_tokens[r] + Brings(1, r)'
<1>1. QueueInv /\ FlightInv
  BY DEF Inv
<1>2. /\ Len(batch_queue) \in {0, 1} /\ Len(batch_queue') = Len(batch_queue) + 1
      /\ Len(batch_queue) = 1 => batch_queue'[1] = batch_queue[1]
      /\ DOMAIN batch_queue'[Len(batch_queue) + 1] = DOMAIN batch
      /\ \A x \in DOMAIN batch :
           batch_queue'[Len(batch_queue) + 1][x] = NewShare(x, worker'[x])
  BY SentFrames
<1>3. /\ Owes(1, r) \in Nat /\ Lost(1, r) \in Nat /\ Brings(1, r) \in Nat
      /\ Owes(2, r) \in Nat /\ Lost(2, r) \in Nat /\ Brings(2, r) \in Nat
  BY <1>1, Shares
<1>4. ~ At(2, r) /\ ~ Live(2, r)
  BY <1>2 DEF At, Live
<1>5. Owes(2, r) = 0 /\ Lost(2, r) = 0 /\ Brings(2, r) = 0
  BY <1>4 DEF Owes, Lost, Brings
<1>6. ASSUME Len(batch_queue) = 1
      PROVE  /\ (At(1, r)' <=> At(1, r)) /\ (Live(1, r)' <=> Live(1, r)) /\ (Old(1, r)' <=> Old(1, r))
             /\ Owes(1, r)' = Owes(1, r) /\ Lost(1, r)' = Lost(1, r)
             /\ Brings(1, r)' = Brings(1, r)
             /\ batch_queue'[1][r] = batch_queue[1][r]
             /\ (At(2, r)' <=> r \in DOMAIN batch)
  BY <1>2, <1>6 DEF At, Live, Old, Owes, Lost, Brings, Expected, Undone, Sampled
<1>7. ASSUME Len(batch_queue) = 0
      PROVE  /\ ~ At(1, r) /\ ~ Live(1, r) /\ ~ Old(1, r)
             /\ Owes(1, r) = 0 /\ Lost(1, r) = 0 /\ Brings(1, r) = 0
             /\ ~ At(2, r)' /\ ~ Live(2, r)'
             /\ Owes(2, r)' = 0 /\ Lost(2, r)' = 0 /\ Brings(2, r)' = 0
             /\ (At(1, r)' <=> r \in DOMAIN batch)
  BY <1>2, <1>7 DEF At, Live, Old, Owes, Lost, Brings
<1>8. ASSUME r \notin DOMAIN batch
      PROVE  /\ (Live(1, r)' <=> Live(1, r)) /\ ~ Live(2, r) /\ ~ Live(2, r)'
             /\ Owes(1, r)' = Owes(1, r) /\ Owes(2, r)' = Owes(2, r)
             /\ Lost(1, r)' = Lost(1, r) /\ Lost(2, r)' = Lost(2, r)
             /\ Brings(1, r)' = Brings(1, r) /\ Brings(2, r)' = Brings(2, r)
             /\ (At(1, r) \/ At(2, r))' => At(1, r)
             /\ (Old(1, r)' <=> Old(1, r))
  <2>1. CASE Len(batch_queue) = 1
    <3>1. ~ At(2, r)' /\ ~ Live(2, r)'
      BY <1>6, <1>8, <2>1 DEF Live
    <3>2. Owes(2, r)' = 0 /\ Lost(2, r)' = 0 /\ Brings(2, r)' = 0
      BY <3>1 DEF Owes, Lost, Brings
    <3> QED
      BY <1>4, <1>5, <1>6, <2>1, <3>1, <3>2
  <2>2. CASE Len(batch_queue) = 0
    <3>1. ~ At(1, r)' /\ ~ Live(1, r)' /\ ~ Old(1, r)'
      BY <1>7, <1>8, <2>2 DEF Live, Old
    <3>2. Owes(1, r)' = 0 /\ Lost(1, r)' = 0 /\ Brings(1, r)' = 0
      BY <3>1 DEF Owes, Lost, Brings
    <3> QED
      BY <1>4, <1>5, <1>7, <2>2, <3>1, <3>2
  <2> QED
    BY <1>2, <2>1, <2>2
<1>9. ASSUME r \in DOMAIN batch
      PROVE  /\ NewShare(r, worker'[r]).drafts = batch[r].drafts
             /\ NewShare(r, worker'[r]).sampled = (IF Chunk(r) THEN 0 ELSE 1 + accepted[r])
             /\ NewShare(r, worker'[r]).start = num_tokens[r] + Brings(1, r)
             /\ NewShare(r, worker'[r]).stale = FALSE
             /\ batch[r].drafts \in Nat /\ accepted[r] \in Nat /\ num_tokens[r] \in Nat
  <2>1. NumSpecTokens \in Nat
    BY <1>1, ConfigTypes
  <2>2. accepted[r] \in Nat
    BY <1>9, <2>1
  <2>3. batch[r].drafts \in Nat /\ num_tokens[r] \in Nat
    BY <1>1, <1>9 DEF FlightInv, ReqInv, BatchInv, NumberTypes
  <2> QED
    BY <1>9, <2>2, <2>3, SentShare
<1>10. ASSUME r \in DOMAIN batch, NEW k, k = Len(batch_queue) + 1
       PROVE  /\ Live(k, r)' /\ ~ Old(k, r)'
              /\ Owes(k, r)' = (IF Chunk(r) THEN 0 ELSE 1 + batch[r].drafts)
              /\ Lost(k, r)' = (IF Chunk(r) THEN 0 ELSE batch[r].drafts - accepted[r])
              /\ Brings(k, r)' = (IF Chunk(r) THEN 0 ELSE 1 + accepted[r])
              /\ batch_queue'[k][r].start = num_tokens[r] + Brings(1, r)
  <2>1. PICK e : e = NewShare(r, worker'[r])
    OBVIOUS
  <2>2. batch_queue'[k][r] = e /\ r \in DOMAIN batch_queue'[k] /\ k \in 1 .. Len(batch_queue')
    BY <1>2, <1>10, <2>1
  <2>3. /\ e.drafts = batch[r].drafts /\ e.sampled = (IF Chunk(r) THEN 0 ELSE 1 + accepted[r])
        /\ e.start = num_tokens[r] + Brings(1, r) /\ e.stale = FALSE
    BY <1>9, <1>10, <2>1
  <2>4. Live(k, r)' /\ ~ Old(k, r)'
    BY <2>2, <2>3 DEF Live, Old, At
  <2>5. /\ Owes(k, r)' = (IF e.sampled > 0 THEN 1 + e.drafts ELSE 0)
        /\ Lost(k, r)' = (IF e.sampled > 0 THEN e.drafts - (e.sampled - 1) ELSE 0)
        /\ Brings(k, r)' = e.sampled
    BY <2>2, <2>4 DEF Owes, Lost, Brings, Expected, Undone, Sampled
  <2>6. CASE Chunk(r)
    BY <2>2, <2>3, <2>4, <2>5, <2>6
  <2>7. CASE ~ Chunk(r)
    <3>1. e.sampled = 1 + accepted[r] /\ batch[r].drafts \in Nat /\ accepted[r] \in Nat
      BY <1>9, <1>10, <2>3, <2>7
    <3> QED
      BY <2>2, <2>3, <2>4, <2>5, <2>7, <3>1
  <2> QED
    BY <2>6, <2>7
<1>11. ASSUME r \in DOMAIN batch
       PROVE  /\ (Old(1, r)' <=> Old(1, r))
              /\ Owes(1, r)' \in Nat /\ Owes(2, r)' \in Nat
              /\ Owes(1, r)' + Owes(2, r)' = (Owes(1, r) + Owes(2, r))
                   + (IF Chunk(r) THEN 0 ELSE 1 + batch[r].drafts)
              /\ Lost(1, r)' + Lost(2, r)' = (Lost(1, r) + Lost(2, r))
                   + (IF Chunk(r) THEN 0 ELSE batch[r].drafts - accepted[r])
              /\ Brings(1, r)' + Brings(2, r)' = (Brings(1, r) + Brings(2, r))
                   + (IF Chunk(r) THEN 0 ELSE 1 + accepted[r])
              /\ Live(1, r)' => batch_queue'[1][r].start =
                   IF Live(1, r) THEN batch_queue[1][r].start ELSE num_tokens[r]
              /\ Live(2, r)' => batch_queue'[2][r].start = num_tokens[r] + Brings(1, r)'
  <2>1. CASE Len(batch_queue) = 1
    <3>1. /\ Owes(2, r)' = (IF Chunk(r) THEN 0 ELSE 1 + batch[r].drafts)
          /\ Lost(2, r)' = (IF Chunk(r) THEN 0 ELSE batch[r].drafts - accepted[r])
          /\ Brings(2, r)' = (IF Chunk(r) THEN 0 ELSE 1 + accepted[r])
          /\ batch_queue'[2][r].start = num_tokens[r] + Brings(1, r)
      BY <1>10, <1>11, <2>1
    <3>2. batch[r].drafts \in Nat /\ accepted[r] \in Nat
      BY <1>9, <1>11
    <3> QED
      BY <1>3, <1>5, <1>6, <2>1, <3>1, <3>2
  <2>2. CASE Len(batch_queue) = 0
    <3>1. /\ Owes(1, r)' = (IF Chunk(r) THEN 0 ELSE 1 + batch[r].drafts)
          /\ Lost(1, r)' = (IF Chunk(r) THEN 0 ELSE batch[r].drafts - accepted[r])
          /\ Brings(1, r)' = (IF Chunk(r) THEN 0 ELSE 1 + accepted[r])
          /\ batch_queue'[1][r].start = num_tokens[r] + Brings(1, r)
          /\ ~ Old(1, r)'
      BY <1>10, <1>11, <2>2
    <3>2. batch[r].drafts \in Nat /\ accepted[r] \in Nat /\ num_tokens[r] \in Nat
      BY <1>9, <1>11
    <3>3. Brings(1, r) = 0
      BY <1>7, <2>2
    <3>4. batch_queue'[1][r].start = num_tokens[r]
      BY <3>1, <3>2, <3>3
    <3>5. PICK o, l, b : /\ o = (IF Chunk(r) THEN 0 ELSE 1 + batch[r].drafts)
                         /\ l = (IF Chunk(r) THEN 0 ELSE batch[r].drafts - accepted[r])
                         /\ b = (IF Chunk(r) THEN 0 ELSE 1 + accepted[r])
      OBVIOUS
    <3>6. o \in Nat /\ l \in Int /\ b \in Nat
      BY <3>2, <3>5
    <3>7. /\ Owes(1, r)' = o /\ Lost(1, r)' = l /\ Brings(1, r)' = b
          /\ Owes(2, r)' = 0 /\ Lost(2, r)' = 0 /\ Brings(2, r)' = 0
          /\ Owes(1, r) = 0 /\ Lost(1, r) = 0 /\ Brings(1, r) = 0
          /\ Owes(2, r) = 0 /\ Lost(2, r) = 0 /\ Brings(2, r) = 0
      BY <1>5, <1>7, <2>2, <3>1, <3>5
    <3>8. ~ Live(1, r) /\ ~ Live(2, r)' /\ ~ Old(1, r) /\ ~ Old(1, r)'
      BY <1>7, <2>2, <3>1
    <3> QED
      BY <3>4, <3>5, <3>6, <3>7, <3>8
  <2> QED
    BY <1>2, <2>1, <2>2
<1>12. Old(1, r) \/ Live(1, r) => Len(batch_queue) = 1
  BY <1>2, <1>7
<1> QED
  BY <1>6, <1>8, <1>11, <1>12

\* Sending a batch: both sides advance by the same tokens, the scheduler as if every draft were
\* accepted, and the frame accounts for the difference.
LEMMA DispatchFlight ==
  ASSUME Inv, Regular, NEW accepted \in [DOMAIN batch -> 0 .. NumSpecTokens],
         Dispatch(accepted)
  PROVE  FlightInv'
<1>1. QueueInv /\ FlightInv /\ NumberTypes /\ FramesOK /\ \A x \in Requests : ReqInv(x)
  BY DEF Inv, FlightInv
<1>2. /\ phase = "dispatch" /\ phase' = "idle" /\ budget' = 0 /\ batch' = << >>
      /\ admitted' = {} /\ preempted' = {}
      /\ UNCHANGED <<config, status, num_tokens, async_tokens_to_discard, resets>>
  BY DispatchSteps
<1>3. /\ NumSpecTokens' = NumSpecTokens /\ TokenBudget' = TokenBudget
      /\ NumSpecTokens \in Nat /\ TokenBudget \in Nat /\ MaxModelLen \in Nat
  BY <1>1, <1>2, ConfigTypes DEF NumSpecTokens, TokenBudget
<1>4. DOMAIN batch \subseteq Requests /\ admitted \subseteq DOMAIN batch
  BY <1>1 DEF QueueInv, BatchPlaces, QueuesMatchStatus
<1>5. FramesOK' /\ Len(batch_queue) \in {0, 1} /\ Len(batch_queue') = Len(batch_queue) + 1
  BY SentFrames
<1>6. ASSUME NEW r \in Requests
      PROVE  /\ num_computed_tokens[r] \in Nat /\ num_tokens[r] \in Nat
             /\ num_output_placeholders[r] \in Nat /\ spec_tokens[r] \in Nat
             /\ worker[r] \in WorkerStates /\ WorkerState(r) \in WorkerStates
  BY <1>1, WorkerBefore DEF NumberTypes
<1>7. ASSUME NEW r \in DOMAIN batch
      PROVE  /\ batch[r].new \in Nat \ {0} /\ batch[r].drafts \in Nat
             /\ batch[r].new <= TokenBudget /\ accepted[r] \in Nat /\ accepted[r] <= batch[r].drafts
             /\ num_computed_tokens[r] + batch[r].new < MaxModelLen
             /\ Sent(r, accepted[r])
  <2>1. ReqInv(r)
    BY <1>1, <1>4
  <2>2. accepted[r] <= batch[r].drafts /\ Sent(r, accepted[r])
    BY DispatchSteps, Zenon
  <2>3. accepted[r] \in Nat
    BY <1>3
  <2> QED
    BY <2>1, <2>2, <2>3 DEF ReqInv, BatchInv
<1>8. ASSUME NEW r \in Requests
      PROVE  /\ num_computed_tokens'[r] \in Nat /\ num_output_placeholders'[r] \in Nat
             /\ spec_tokens'[r] \in Nat /\ worker'[r] \in WorkerStates
  <2>1. CASE r \in DOMAIN batch
    <3>1. Sent(r, accepted[r]) /\ batch[r].new \in Nat /\ batch[r].drafts \in Nat
      BY <1>7, <2>1
    <3>2. worker'[r] \in WorkerStates
      BY <2>1, SentShare, Zenon
    <3>3. PICK p, d : p = num_output_placeholders[r] /\ d = batch[r].drafts
      OBVIOUS
    <3>4. num_output_placeholders'[r] = p + (IF Chunk(r) THEN 0 ELSE 1 + d) /\ p \in Nat
          /\ d \in Nat
      BY <1>6, <3>1, <3>3 DEF Sent
    <3>5. num_output_placeholders'[r] \in Nat
      BY <3>4
    <3>6. num_computed_tokens'[r] \in Nat /\ spec_tokens'[r] \in Nat
      BY <1>3, <1>6, <3>1 DEF Sent
    <3> QED
      BY <3>2, <3>5, <3>6
  <2>2. CASE r \notin DOMAIN batch
    BY <1>6, <2>2, DispatchSteps
  <2> QED
    BY <2>1, <2>2
<1>9. NumberTypes'
  <2>1. /\ num_computed_tokens' = [r \in Requests |-> num_computed_tokens'[r]]
        /\ num_output_placeholders' = [r \in Requests |-> num_output_placeholders'[r]]
        /\ spec_tokens' = [r \in Requests |-> spec_tokens'[r]]
        /\ worker' = [r \in Requests |-> worker'[r]]
        /\ is_prefill_chunk' \in [Requests -> BOOLEAN]
    BY DispatchSteps
  <2>2. num_computed_tokens' \in [Requests -> Nat] /\ num_output_placeholders' \in [Requests -> Nat]
        /\ spec_tokens' \in [Requests -> Nat] /\ worker' \in [Requests -> WorkerStates]
    BY <1>8, <2>1
  <2> QED
    BY <1>1, <1>2, <1>3, <2>1, <2>2 DEF NumberTypes
<1>10. ASSUME NEW r \in Requests, r \notin DOMAIN batch
       PROVE  ReqInv(r)'
  <2>1. /\ num_computed_tokens'[r] = num_computed_tokens[r]
        /\ num_output_placeholders'[r] = num_output_placeholders[r]
        /\ spec_tokens'[r] = spec_tokens[r]
        /\ worker'[r] = WorkerState(r)
    BY <1>10, DispatchSteps
  <2>2. ReqInv(r) /\ r \notin admitted
    BY <1>1, <1>4, <1>10
  <2>3. /\ Live(1, r)' <=> Live(1, r)
        /\ ~ Live(2, r) /\ ~ Live(2, r)'
        /\ Owes(1, r)' = Owes(1, r) /\ Owes(2, r)' = Owes(2, r)
        /\ Lost(1, r)' = Lost(1, r) /\ Lost(2, r)' = Lost(2, r)
        /\ Brings(1, r)' = Brings(1, r) /\ Brings(2, r)' = Brings(2, r)
        /\ (At(1, r) \/ At(2, r))' => At(1, r)
        /\ Old(1, r)' <=> Old(1, r)
        /\ Old(1, r) => Len(batch_queue) = 1
        /\ Old(1, r) => batch_queue'[1][r] = batch_queue[1][r]
        /\ Live(1, r) => Len(batch_queue) = 1 /\ batch_queue'[1][r] = batch_queue[1][r]
    BY <1>10, SentCounts
  <2>4. status[r] = "running" => worker'[r] = worker[r]
    BY <2>1, <2>2, WorkerBefore
  <2>5. Bounds(r)'
    BY <1>2, <1>3, <2>1, <2>2 DEF ReqInv, Bounds
  <2>6. NewInv(r)'
    BY <1>2, <2>1, <2>2, <2>3 DEF ReqInv, NewInv
  <2>7. OpenInv(r)'
    BY <1>2, <2>1, <2>2, <2>3 DEF ReqInv, OpenInv, LengthCap
  <2>8. Len(batch_queue) = 1 => Len(batch_queue') = 2
    BY <1>5
  <2>9. QueuedInv(r)'
    BY <1>2, <2>1, <2>2, <2>3, <2>8 DEF ReqInv, QueuedInv
  <2>10. AdmittedInv(r)' /\ BatchInv(r)'
    BY <1>2 DEF AdmittedInv, BatchInv
  <2>11. ActiveInv(r)'
    BY <1>2, <2>1, <2>2, <2>3, <2>4, <2>8 DEF ReqInv, ActiveInv, Prefilling, Decoding
  <2> QED
    BY <2>5, <2>6, <2>7, <2>9, <2>10, <2>11 DEF ReqInv
<1>11. ASSUME NEW r \in DOMAIN batch
       PROVE  ReqInv(r)'
  <2>0. r \in Requests /\ ReqInv(r)
    BY <1>1, <1>4
  <2>1. PICK c, nt, p, n, d, a, w, v : /\ c = num_computed_tokens[r] /\ nt = num_tokens[r]
           /\ p = num_output_placeholders[r] /\ n = batch[r].new /\ d = batch[r].drafts
           /\ a = accepted[r] /\ w = WorkerState(r) /\ v = worker'[r]
    OBVIOUS
  <2>2. /\ c \in Nat /\ nt \in Nat /\ p \in Nat /\ n \in Nat \ {0} /\ d \in Nat
        /\ a \in Nat /\ a <= d /\ c + n < MaxModelLen /\ MaxModelLen \in Nat
    BY <1>3, <1>6, <1>7, <2>0, <2>1
  <2>3. /\ num_computed_tokens'[r] = c + n
        /\ num_output_placeholders'[r] = p + (IF Chunk(r) THEN 0 ELSE 1 + d)
        /\ spec_tokens'[r] = (IF Chunk(r) THEN spec_tokens[r] ELSE NumSpecTokens)
        /\ num_tokens'[r] = nt /\ status'[r] = status[r]
        /\ async_tokens_to_discard'[r] = async_tokens_to_discard[r]
    BY <1>2, <1>7, <2>1 DEF Sent
  <2>4. PICK k \in BOOLEAN : k <=> Chunk(r)
    OBVIOUS
  <2>5. k <=> num_computed_tokens[r] + batch[r].new < num_tokens[r] + num_output_placeholders[r]
    BY <2>4 DEF Chunk
  <2>6. v = PostUpdate(w, batch[r], a)
    BY <1>7, <2>1 DEF Sent
  <2>7. /\ v \in WorkerStates /\ v.prefill_len = w.prefill_len
        /\ v.total_len - w.total_len = (IF k THEN 0 ELSE 1 + a)
        /\ v.num_computed = w.num_computed + n - (IF k THEN 0 ELSE d - a)
        /\ k => /\ w.prefill_len = nt /\ c + n < nt
                /\ Owes(1, r) = 0 /\ Owes(2, r) = 0
                /\ ~ config.confidence => spec_tokens[r] = 0
                /\ d = 0
        /\ ~ k => v.prefill_len <= v.num_computed /\ c + n = nt + p + d
    BY <2>1, <2>2, <2>5, <2>6, WorkerAfter
  <2>8. /\ w \in WorkerStates
        /\ w.num_computed + (Lost(1, r) + Lost(2, r)) = c
        /\ w.total_len = nt + (Brings(1, r) + Brings(2, r))
        /\ status[r] = "running"
    BY <2>0, <2>1, WorkerBefore
  <2>9. PICK b, l, o : /\ b = Brings(1, r) + Brings(2, r) /\ l = Lost(1, r) + Lost(2, r)
                       /\ o = Owes(1, r) + Owes(2, r)
    OBVIOUS
  <2>10. b \in Nat /\ l \in Nat /\ o \in Nat
    <3>1. /\ Owes(1, r) \in Nat /\ Lost(1, r) \in Nat /\ Brings(1, r) \in Nat
          /\ Owes(2, r) \in Nat /\ Lost(2, r) \in Nat /\ Brings(2, r) \in Nat
      BY <1>1, Shares
    <3> QED
      BY <2>9, <3>1
  <2>11. /\ Owes(1, r)' \in Nat /\ Owes(2, r)' \in Nat
         /\ Owes(1, r)' + Owes(2, r)' = o + (IF k THEN 0 ELSE 1 + d)
         /\ Lost(1, r)' + Lost(2, r)' = l + (IF k THEN 0 ELSE d - a)
         /\ Brings(1, r)' + Brings(2, r)' = b + (IF k THEN 0 ELSE 1 + a)
    BY <2>0, <2>1, <2>4, <2>9, SentCounts
  <2>12. /\ Live(1, r)' => batch_queue'[1][r].start =
              IF Live(1, r) THEN batch_queue[1][r].start ELSE num_tokens[r]
         /\ Live(2, r)' => batch_queue'[2][r].start = num_tokens[r] + Brings(1, r)'
         /\ Old(1, r)' <=> Old(1, r)
         /\ Old(1, r) => Len(batch_queue) = 1
         /\ Old(1, r) => batch_queue'[1][r] = batch_queue[1][r]
    BY <2>0, SentCounts
  <2>13. o = p /\ PromptLen[r] <= nt /\ nt < LengthCap(r)
    BY <2>0, <2>1, <2>8, <2>9 DEF ReqInv, OpenInv
  <2>14. w.num_computed \in Nat /\ w.total_len \in Nat /\ v.num_computed \in Nat
         /\ v.total_len \in Nat /\ v.prefill_len \in Nat
    BY <2>7, <2>8 DEF WorkerStates
  <2>15. num_output_placeholders'[r] = p + (IF k THEN 0 ELSE 1 + d)
         /\ spec_tokens'[r] = (IF k THEN spec_tokens[r] ELSE NumSpecTokens)
    BY <2>3, <2>4
  <2>16. Bounds(r)'
    <3>1. 1 <= nt /\ nt <= MaxModelLen /\ spec_tokens[r] <= NumSpecTokens
      BY <2>0, <2>1 DEF ReqInv, Bounds
    <3>2. spec_tokens'[r] <= NumSpecTokens
      BY <1>3, <2>15, <3>1
    <3>3. c + n <= MaxModelLen
      BY <2>2
    <3> QED
      BY <1>3, <2>3, <3>1, <3>2, <3>3 DEF Bounds
  <2>17. NewInv(r)' /\ QueuedInv(r)' /\ AdmittedInv(r)' /\ BatchInv(r)'
    BY <1>2, <2>3, <2>8 DEF NewInv, QueuedInv, AdmittedInv, BatchInv
  <2>18. OpenInv(r)'
    <3>1. num_output_placeholders'[r] = Owes(1, r)' + Owes(2, r)'
      BY <2>2, <2>11, <2>13, <2>15
    <3>2. Live(1, r)' => batch_queue'[1][r].start = num_tokens'[r]
      BY <2>0, <2>1, <2>3, <2>8, <2>12 DEF ReqInv, OpenInv
    <3>3. Live(2, r)' => batch_queue'[2][r].start = num_tokens'[r] + Brings(1, r)'
      BY <2>1, <2>3, <2>12
    <3>4. /\ Old(1, r)' /\ batch_queue'[1][r].sampled > 0 => async_tokens_to_discard'[r] = 1
          /\ ~ (Old(1, r)' /\ batch_queue'[1][r].sampled > 0) => async_tokens_to_discard'[r] = 0
      BY <2>0, <2>3, <2>8, <2>12 DEF ReqInv, OpenInv
    <3> QED
      BY <2>3, <2>13, <3>1, <3>2, <3>3, <3>4 DEF OpenInv, LengthCap
  <2>19. ActiveInv(r)'
    <3>1. v.num_computed + (Lost(1, r)' + Lost(2, r)') = c + n
      BY <2>2, <2>7, <2>8, <2>9, <2>10, <2>11, <2>14
    <3>2. v.total_len = nt + (Brings(1, r)' + Brings(2, r)')
      BY <2>2, <2>7, <2>8, <2>9, <2>10, <2>11, <2>14
    <3>3. Old(1, r)' => Len(batch_queue') = 2
      <4>1. Len(batch_queue) = 1 => Len(batch_queue') = 2
        BY <1>5
      <4> QED
        BY <2>12, <4>1, Zenon
    <3>4. k => Prefilling(r)'
      <4>1. ASSUME k
            PROVE  Owes(1, r)' = 0 /\ Owes(2, r)' = 0
        BY <2>7, <2>9, <2>10, <2>11, <4>1
      <4> QED
        BY <1>2, <2>1, <2>3, <2>7, <2>15, <4>1 DEF Prefilling
    <3>5. ~ k => Decoding(r)'
      BY <2>1, <2>2, <2>3, <2>7, <2>15 DEF Decoding
    <3> QED
      BY <2>1, <2>2, <2>3, <3>1, <3>2, <3>3, <3>4, <3>5 DEF ActiveInv
  <2> QED
    BY <2>16, <2>17, <2>18, <2>19 DEF ReqInv
<1> QED
  BY <1>5, <1>9, <1>10, <1>11 DEF FlightInv

\* The tokens of a frame that are appended: some of them only if the request stops, and
\* then no more than max_model_len has room for.
LEMMA KeptTokens ==
  ASSUME Regular, NEW r \in Requests, num_tokens[r] \in Nat, PromptLen[r] <= num_tokens[r],
         num_tokens[r] < LengthCap(r), Delivered(r) \in Nat, NEW stopAt
  PROVE  /\ Kept(r, stopAt) \in Nat /\ Kept(r, stopAt) <= Delivered(r)
         /\ Delivered(r) > 0 => Kept(r, stopAt) > 0
         /\ num_tokens[r] + Kept(r, stopAt) <= MaxModelLen
         /\ ~ Stops(r, stopAt) => /\ Kept(r, stopAt) = Delivered(r)
                                  /\ num_tokens[r] + Kept(r, stopAt) < LengthCap(r)
<1> DEFINE K == {k \in 1 .. Delivered(r) : check_stop(r, k, stopAt)}
<1>1. PICK nt, cap, d, m : /\ nt = num_tokens[r] /\ cap = LengthCap(r) /\ d = Delivered(r)
                          /\ m = PromptLen[r] + MinTokens[r]
  OBVIOUS
<1>2. /\ PromptLen[r] \in Nat /\ MinTokens[r] \in Nat /\ MaxTokens[r] \in Nat
      /\ MinTokens[r] <= MaxTokens[r] /\ MaxModelLen \in Nat
  BY SchedulerAssumption
<1>3. /\ nt \in Nat /\ nt < cap /\ d \in Nat /\ m \in Nat
      /\ cap = MinOf(MaxModelLen, PromptLen[r] + MaxTokens[r])
  BY <1>1, <1>2 DEF LengthCap
<1>4. m <= MaxModelLen /\ m <= PromptLen[r] + MaxTokens[r]
  BY <1>1, <1>2 DEF Regular
<1>5. m <= cap /\ cap <= MaxModelLen /\ cap \in Nat
  BY <1>2, <1>3, <1>4 DEF MinOf
<1>6. ASSUME NEW k \in 1 .. d
      PROVE  k \in Nat /\ (~ check_stop(r, k, stopAt) => nt + k < cap)
  <2>1. check_stop(r, k, stopAt) <=> nt + k - PromptLen[r] >= MinTokens[r]
                                       /\ (k = stopAt \/ nt + k >= cap)
    BY <1>1 DEF check_stop
  <2>2. nt + k - PromptLen[r] >= MinTokens[r] <=> nt + k >= m
    BY <1>1, <1>2, <1>3
  <2> QED
    BY <1>3, <1>5, <2>1, <2>2
<1>7. CASE ~ Stops(r, stopAt)
  <2>1. Kept(r, stopAt) = d
    BY <1>1, <1>7 DEF Kept
  <2>2. nt + d < cap
    <3>1. CASE d = 0
      BY <1>3, <3>1
    <3>2. CASE d # 0
      <4>1. d \in 1 .. d
        BY <1>3, <3>2
      <4>2. ~ check_stop(r, d, stopAt)
        BY <1>1, <1>7, <4>1 DEF Stops
      <4> QED
        BY <1>6, <4>1, <4>2
    <3> QED
      BY <3>1, <3>2
  <2> QED
    BY <1>1, <1>2, <1>3, <1>5, <1>7, <2>1, <2>2
<1>8. CASE Stops(r, stopAt)
  <2>1. K # {} /\ K \subseteq Nat
    BY <1>1, <1>3, <1>8 DEF Stops
  <2>2. Kept(r, stopAt) = Min(K)
    BY <1>8 DEF Kept
  <2>3. Min(K) \in K /\ \A k \in K : Min(K) <= k
    BY <2>1, MinOfNumbers
  <2>4. PICK x : x = Kept(r, stopAt)
    OBVIOUS
  <2>5. x \in 1 .. d /\ \A k \in 1 .. d : check_stop(r, k, stopAt) => x <= k
    BY <1>1, <2>2, <2>3, <2>4
  <2>6. nt + x <= MaxModelLen
    <3>1. CASE x = 1
      BY <1>2, <1>3, <1>5, <3>1
    <3>2. CASE x # 1
      <4>1. x - 1 \in 1 .. d /\ ~ (x <= x - 1)
        BY <1>3, <2>5, <3>2
      <4>2. ~ check_stop(r, x - 1, stopAt)
        BY <2>5, <4>1
      <4>3. nt + (x - 1) < cap
        BY <1>6, <4>1, <4>2
      <4> QED
        BY <1>2, <1>3, <1>5, <2>5, <4>3
    <3> QED
      BY <3>1, <3>2
  <2>7. x \in Nat /\ x <= d /\ x > 0
    BY <1>3, <2>5
  <2> QED
    BY <1>1, <1>8, <2>4, <2>6, <2>7
<1> QED
  BY <1>7, <1>8

\* What the output of the oldest frame does to request r, stopped at stopAt.
Updated(r, stopAt) ==
  /\ num_computed_tokens'[r] = IF num_computed_tokens[r] > 0
                               THEN num_computed_tokens[r] - Rejected(r)
                               ELSE num_computed_tokens[r]
  /\ num_output_placeholders'[r] =
       (num_output_placeholders[r] - (IF num_output_placeholders[r] > 0 THEN Rejected(r) ELSE 0))
         - Kept(r, stopAt)
  /\ async_tokens_to_discard'[r] = IF Discarded(r) THEN async_tokens_to_discard[r] - 1
                                   ELSE async_tokens_to_discard[r]
  /\ num_tokens'[r] = num_tokens[r] + Kept(r, stopAt)
  /\ status'[r] = IF Stops(r, stopAt) THEN "finished" ELSE status[r]

Same(r) ==
  /\ num_computed_tokens'[r] = num_computed_tokens[r]
  /\ num_output_placeholders'[r] = num_output_placeholders[r]
  /\ async_tokens_to_discard'[r] = async_tokens_to_discard[r]
  /\ num_tokens'[r] = num_tokens[r] /\ status'[r] = status[r]
  /\ spec_tokens'[r] = spec_tokens[r]

OutputCounts(counts) ==
  counts \in [DOMAIN Frame -> IF config.confidence THEN 0 .. NumSpecTokens ELSE {NumSpecTokens}]

\* What update_from_output does to the variables, request by request.
LEMMA OutputSteps ==
  ASSUME Inv, NEW stopAt, NEW counts, OutputCounts(counts), update_from_output(stopAt, counts)
  PROVE  /\ phase = "idle" /\ batch_queue # << >> /\ batch_queue' = Tail(batch_queue)
         /\ UNCHANGED <<config, is_prefill_chunk, phase, budget, batch, admitted, preempted,
                        worker, resets>>
         /\ \A r \in Requests : IF r \in DOMAIN Frame /\ r \in Unfinished
                                THEN Updated(r, stopAt[r]) ELSE Same(r)
         /\ \A r \in Requests : /\ spec_tokens'[r] \in Nat /\ spec_tokens'[r] <= NumSpecTokens
                                /\ ~ config.confidence => spec_tokens'[r] = spec_tokens[r]
         /\ num_computed_tokens' = [r \in Requests |-> num_computed_tokens'[r]]
         /\ num_output_placeholders' = [r \in Requests |-> num_output_placeholders'[r]]
         /\ async_tokens_to_discard' = [r \in Requests |-> async_tokens_to_discard'[r]]
         /\ num_tokens' = [r \in Requests |-> num_tokens'[r]]
         /\ spec_tokens' = [r \in Requests |-> spec_tokens'[r]]
<1> DEFINE B == {r \in DOMAIN Frame : r \in Unfinished}
           stopped == {r \in B : Stops(r, stopAt[r])}
<1>1. /\ phase = "idle" /\ batch_queue # << >> /\ batch_queue' = Tail(batch_queue)
      /\ num_computed_tokens' = [r \in Requests |->
           IF r \in B /\ num_computed_tokens[r] > 0
           THEN num_computed_tokens[r] - Rejected(r) ELSE num_computed_tokens[r]]
      /\ num_output_placeholders' = [r \in Requests |->
           IF r \in B
           THEN (num_output_placeholders[r]
                    - (IF num_output_placeholders[r] > 0 THEN Rejected(r) ELSE 0))
                  - Kept(r, stopAt[r])
           ELSE num_output_placeholders[r]]
      /\ async_tokens_to_discard' = [r \in Requests |->
           IF r \in B /\ Discarded(r) THEN async_tokens_to_discard[r] - 1
           ELSE async_tokens_to_discard[r]]
      /\ num_tokens' = [r \in Requests |->
           IF r \in B THEN num_tokens[r] + Kept(r, stopAt[r]) ELSE num_tokens[r]]
      /\ status' = [r \in Requests |-> IF r \in stopped THEN "finished" ELSE status[r]]
      /\ spec_tokens' = [r \in Requests |->
           IF config.confidence /\ r \in B \ stopped /\ ~ is_prefill_chunk[r]
           THEN counts[r] ELSE spec_tokens[r]]
      /\ UNCHANGED <<config, is_prefill_chunk, schedVars, worker, resets>>
  BY Zenon DEF update_from_output
<1>2. UNCHANGED <<phase, budget, batch, admitted, preempted>>
  BY <1>1 DEF schedVars
<1>3. ASSUME NEW r \in Requests, r \in DOMAIN Frame, r \in Unfinished
      PROVE  Updated(r, stopAt[r])
  <2>1. r \in B /\ (r \in stopped <=> Stops(r, stopAt[r]))
    BY <1>3, Zenon
  <2> HIDE DEF B, stopped
  <2> QED
    BY <1>1, <2>1 DEF Updated
<1>4. ASSUME NEW r \in Requests, ~ (r \in DOMAIN Frame /\ r \in Unfinished)
      PROVE  Same(r)
  <2>1. r \notin B /\ r \notin stopped
    BY <1>4, Zenon
  <2> HIDE DEF B, stopped
  <2> QED
    BY <1>1, <2>1 DEF Same
<1>5. ASSUME NEW r \in Requests
      PROVE  /\ spec_tokens'[r] \in Nat /\ spec_tokens'[r] <= NumSpecTokens
             /\ ~ config.confidence => spec_tokens'[r] = spec_tokens[r]
  <2>1. spec_tokens[r] \in Nat /\ spec_tokens[r] <= NumSpecTokens /\ NumSpecTokens \in Nat
    BY ConfigTypes DEF Inv, FlightInv, NumberTypes, ReqInv, Bounds
  <2>2. spec_tokens'[r] = spec_tokens[r]
          \/ (config.confidence /\ r \in B /\ spec_tokens'[r] = counts[r])
    <3> HIDE DEF B, stopped
    <3> QED
      BY <1>1
  <2>3. r \in B => r \in DOMAIN Frame
    OBVIOUS
  <2> HIDE DEF B
  <2>4. config.confidence /\ r \in B => counts[r] \in 0 .. NumSpecTokens
    BY <2>3 DEF OutputCounts
  <2>5. CASE spec_tokens'[r] = spec_tokens[r]
    BY <2>1, <2>5
  <2>6. CASE config.confidence /\ r \in B /\ spec_tokens'[r] = counts[r]
    BY <2>1, <2>4, <2>6
  <2> QED
    BY <2>2, <2>5, <2>6
<1>6. /\ num_computed_tokens' = [r \in Requests |-> num_computed_tokens'[r]]
      /\ num_output_placeholders' = [r \in Requests |-> num_output_placeholders'[r]]
      /\ async_tokens_to_discard' = [r \in Requests |-> async_tokens_to_discard'[r]]
      /\ num_tokens' = [r \in Requests |-> num_tokens'[r]]
      /\ spec_tokens' = [r \in Requests |-> spec_tokens'[r]]
  BY <1>1, Zenon
<1>7. \A r \in Requests : IF r \in DOMAIN Frame /\ r \in Unfinished
                          THEN Updated(r, stopAt[r]) ELSE Same(r)
  BY <1>3, <1>4, Zenon
<1> HIDE DEF B, stopped
<1> QED
  BY <1>1, <1>2, <1>5, <1>6, <1>7, Zenon

\* The frames after an output: all but the oldest.
LEMMA OutputFrames ==
  ASSUME Inv, Regular, phase = "idle", batch_queue # << >>, batch_queue' = Tail(batch_queue),
         UNCHANGED <<config, phase>>
  PROVE  /\ FramesOK' /\ Len(batch_queue) \in {1, 2} /\ Frame = batch_queue[1]
         /\ Len(batch_queue') = Len(batch_queue) - 1
         /\ \A r : /\ At(1, r) <=> r \in DOMAIN Frame
                   /\ (At(1, r)' <=> At(2, r)) /\ ~ At(2, r)'
                   /\ (Live(1, r)' <=> Live(2, r)) /\ ~ Live(2, r)' /\ ~ Old(1, r)'
                   /\ Owes(1, r)' = Owes(2, r) /\ Lost(1, r)' = Lost(2, r)
                   /\ Brings(1, r)' = Brings(2, r)
                   /\ Owes(2, r)' = 0 /\ Lost(2, r)' = 0 /\ Brings(2, r)' = 0
                   /\ Live(2, r) => batch_queue'[1][r] = batch_queue[2][r]
<1>1. QueueInv /\ FlightInv /\ FramesOK
  BY DEF Inv, FlightInv
<1>2. batch_queue \in Seq(Frames) /\ Len(batch_queue) \in Nat \ {0} /\ Len(batch_queue) <= 2
  BY <1>1, SchedulerAssumption DEF FramesOK, Regular
<1>3. Len(batch_queue) \in {1, 2}
  <2>1. PICK n \in Nat : n = Len(batch_queue)
    BY <1>2
  <2>2. n # 0 /\ n <= 2
    BY <1>2, <2>1
  <2>3. n \in {1, 2}
    BY <2>2
  <2> QED
    BY <2>1, <2>3
<1>4. /\ batch_queue' \in Seq(Frames) /\ Len(batch_queue') = Len(batch_queue) - 1
      /\ \A i \in 1 .. Len(batch_queue) - 1 : batch_queue'[i] = batch_queue[i + 1]
      /\ Frame = batch_queue[1]
  BY <1>2 DEF Frame
<1>5. Len(batch_queue) = 2 => batch_queue'[1] = batch_queue[2]
  BY <1>4
<1>6. ASSUME NEW i \in 1 .. Len(batch_queue'), NEW r \in DOMAIN batch_queue'[i]
      PROVE  ShareOK(i, batch_queue[i][r])'
  <2>1. i = 1 /\ Len(batch_queue) = 2 /\ batch_queue'[1] = batch_queue[2]
    BY <1>3, <1>4, <1>5
  <2>2. ShareOK(2, batch_queue[2][r])
    BY <1>1, <1>6, <2>1 DEF FramesOK
  <2>3. NumSpecTokens' = NumSpecTokens /\ TokenBudget' = TokenBudget
    BY DEF NumSpecTokens, TokenBudget
  <2> QED
    BY <2>1, <2>2, <2>3 DEF ShareOK
<1>7. FramesOK'
  <2>1. Len(batch_queue') <= BatchQueueSize
    BY <1>1, <1>2, <1>4, SchedulerAssumption DEF FramesOK
  <2> QED
    BY <1>4, <1>6, <2>1 DEF FramesOK
<1>8. ASSUME NEW r
      PROVE  /\ At(1, r) <=> r \in DOMAIN Frame
             /\ (At(1, r)' <=> At(2, r)) /\ ~ At(2, r)'
             /\ At(2, r) => batch_queue'[1][r] = batch_queue[2][r]
  <2>1. At(1, r) <=> r \in DOMAIN Frame
    BY <1>3, <1>4 DEF At
  <2>2. CASE Len(batch_queue) = 2
    BY <1>4, <1>5, <2>1, <2>2 DEF At
  <2>3. CASE Len(batch_queue) = 1
    BY <1>4, <2>1, <2>3 DEF At
  <2> QED
    BY <1>3, <2>2, <2>3
<1>9. ASSUME NEW r
      PROVE  At(2, r) => ~ batch_queue[2][r].stale
  BY <1>1, Shares DEF ShareOK
<1>10. ASSUME NEW r
       PROVE  /\ (Live(1, r)' <=> Live(2, r)) /\ ~ Live(2, r)' /\ ~ Old(1, r)'
  BY <1>8, <1>9 DEF Live, Old
<1>11. ASSUME NEW r
       PROVE  /\ Owes(1, r)' = Owes(2, r) /\ Lost(1, r)' = Lost(2, r)
              /\ Brings(1, r)' = Brings(2, r)
              /\ Owes(2, r)' = 0 /\ Lost(2, r)' = 0 /\ Brings(2, r)' = 0
              /\ Live(2, r) => batch_queue'[1][r] = batch_queue[2][r]
  <2>1. Live(2, r) => batch_queue'[1][r] = batch_queue[2][r]
    BY <1>8 DEF Live
  <2> QED
    BY <1>10, <2>1 DEF Owes, Lost, Brings, Expected, Undone, Sampled
<1> QED
  BY <1>3, <1>4, <1>7, <1>8, <1>10, <1>11

\* What the oldest frame brings an open request: all the tokens of a live share and none of
\* a stale one, whatever the counters that update_from_output consults.
LEMMA HeadShare ==
  ASSUME Inv, Regular, Frame = batch_queue[1], NEW r \in Requests,
         status[r] \in {"waiting", "preempted", "running"}, At(1, r)
  PROVE  /\ Delivered(r) = Brings(1, r)
         /\ (IF num_output_placeholders[r] > 0 THEN Rejected(r) ELSE 0) = Lost(1, r)
         /\ (IF num_computed_tokens[r] > 0 THEN num_computed_tokens[r] - Rejected(r)
             ELSE num_computed_tokens[r])
              = (IF num_computed_tokens[r] > 0 THEN num_computed_tokens[r] - Lost(1, r) ELSE 0)
         /\ (IF Discarded(r) THEN async_tokens_to_discard[r] - 1
             ELSE async_tokens_to_discard[r]) = 0
<1>1. QueueInv /\ FlightInv /\ NumberTypes /\ OpenInv(r)
  BY DEF Inv, FlightInv, ReqInv
<1>2. PICK e : e = batch_queue[1][r]
  OBVIOUS
<1>3. e \in Share /\ ShareOK(1, e)
  BY <1>1, <1>2, Shares
<1>4. e.drafts \in Nat /\ e.sampled \in Nat /\ e.sampled <= 1 + e.drafts
  BY <1>3 DEF Share, ShareOK
<1>5. PICK p, c, d : /\ p = num_output_placeholders[r] /\ c = num_computed_tokens[r]
                     /\ d = async_tokens_to_discard[r]
  OBVIOUS
<1>6. p \in Nat /\ c \in Nat /\ d \in Nat
  BY <1>1, <1>5 DEF NumberTypes
<1>7. /\ Rejected(r) = IF e.drafts > 0 /\ e.sampled > 0 THEN e.drafts - (e.sampled - 1) ELSE 0
      /\ Discarded(r) <=> e.sampled > 0 /\ d > 0
      /\ Delivered(r) = IF Discarded(r) THEN 0 ELSE e.sampled
  BY <1>2, <1>5 DEF Rejected, Discarded, Delivered
<1>8. CASE Live(1, r)
  <2>1. ~ Old(1, r)
    BY <1>8 DEF Live, Old
  <2>2. d = 0
    BY <1>1, <1>5, <2>1 DEF OpenInv
  <2>3. ~ Discarded(r)
    BY <1>6, <1>7, <2>2
  <2>4. /\ Brings(1, r) = e.sampled
        /\ Owes(1, r) = IF e.sampled > 0 THEN 1 + e.drafts ELSE 0
        /\ Lost(1, r) = IF e.sampled > 0 THEN e.drafts - (e.sampled - 1) ELSE 0
    BY <1>2, <1>8 DEF Brings, Lost, Owes, Sampled, Undone, Expected
  <2>5. Rejected(r) = Lost(1, r)
    BY <1>4, <1>7, <2>4
  <2>6. p = Owes(1, r) + Owes(2, r) /\ Owes(2, r) \in Nat
    BY <1>1, <1>5, Shares DEF OpenInv
  <2>7. p = 0 => Lost(1, r) = 0
    BY <1>4, <2>4, <2>6
  <2> QED
    BY <1>5, <1>6, <1>7, <2>2, <2>3, <2>4, <2>5, <2>7
<1>9. CASE ~ Live(1, r)
  <2>1. Old(1, r)
    BY <1>9 DEF Live, Old
  <2>2. e.drafts = 0
    BY <1>1, <1>2, <1>3, <1>4, <2>1, ConfigTypes DEF Old, ShareOK
  <2>3. Rejected(r) = 0 /\ Lost(1, r) = 0 /\ Brings(1, r) = 0
    BY <1>4, <1>7, <1>9, <2>2 DEF Lost, Brings
  <2>4. (e.sampled > 0 => d = 1) /\ (~ (e.sampled > 0) => d = 0)
    BY <1>1, <1>2, <1>5, <2>1 DEF OpenInv
  <2>5. Delivered(r) = 0
    BY <1>4, <1>7, <2>4
  <2>6. (IF Discarded(r) THEN d - 1 ELSE d) = 0
    BY <1>4, <1>7, <2>4
  <2> QED
    BY <1>5, <1>6, <2>3, <2>5, <2>6
<1> QED
  BY <1>8, <1>9

\* The new numbers of a request that the oldest frame has a share of.
LEMMA UpdatedRequest ==
  ASSUME Inv, Regular, Frame = batch_queue[1], NEW r \in Requests,
         status[r] \in {"waiting", "preempted", "running"}, At(1, r),
         admitted = {}, NEW k, Updated(r, k)
  PROVE  /\ num_tokens'[r] \in Nat /\ num_tokens[r] <= num_tokens'[r]
         /\ num_tokens'[r] <= MaxModelLen
         /\ num_output_placeholders'[r] \in Nat
         /\ num_computed_tokens'[r] \in Nat
         /\ num_computed_tokens'[r] <= num_computed_tokens[r]
         /\ async_tokens_to_discard'[r] = 0
         /\ status'[r] = "finished" \/
              /\ status'[r] = status[r]
              /\ num_tokens'[r] = num_tokens[r] + Brings(1, r)
              /\ num_tokens'[r] < LengthCap(r)
              /\ num_output_placeholders'[r] = Owes(2, r)
              /\ num_computed_tokens'[r] =
                   (IF num_computed_tokens[r] > 0 THEN num_computed_tokens[r] - Lost(1, r) ELSE 0)
<1>1. QueueInv /\ FlightInv /\ NumberTypes /\ ReqInv(r)
  BY DEF Inv, FlightInv
<1>2. PICK p, c, nt, o1, o2, l1, l2, b1, b2 :
        /\ p = num_output_placeholders[r] /\ c = num_computed_tokens[r] /\ nt = num_tokens[r]
        /\ o1 = Owes(1, r) /\ o2 = Owes(2, r) /\ l1 = Lost(1, r) /\ l2 = Lost(2, r)
        /\ b1 = Brings(1, r) /\ b2 = Brings(2, r)
  OBVIOUS
<1>3. p \in Nat /\ c \in Nat /\ nt \in Nat /\ MaxModelLen \in Nat
  BY <1>1, <1>2, ConfigTypes DEF NumberTypes
<1>4. o1 \in Nat /\ o2 \in Nat /\ l1 \in Nat /\ l2 \in Nat /\ b1 \in Nat /\ b2 \in Nat
      /\ o1 = l1 + b1 /\ o2 = l2 + b2
  BY <1>1, <1>2, Shares
<1>5. p = o1 + o2 /\ PromptLen[r] <= nt /\ nt < LengthCap(r)
  BY <1>1, <1>2 DEF ReqInv, OpenInv
<1>6. PICK x : x = Kept(r, k)
  OBVIOUS
<1>7. /\ x \in Nat /\ x <= b1 /\ nt + x <= MaxModelLen
      /\ ~ Stops(r, k) => x = b1 /\ nt + x < LengthCap(r)
  <2>1. Delivered(r) = b1
    BY <1>2, HeadShare
  <2> QED
    BY <1>2, <1>3, <1>4, <1>5, <1>6, <2>1, KeptTokens
<1>8. /\ num_tokens'[r] = nt + x
      /\ num_output_placeholders'[r] = (p - l1) - x
      /\ num_computed_tokens'[r] = (IF c > 0 THEN c - l1 ELSE 0)
      /\ async_tokens_to_discard'[r] = 0
      /\ status'[r] = IF Stops(r, k) THEN "finished" ELSE status[r]
  BY <1>2, <1>6, HeadShare DEF Updated
<1>9. (IF c > 0 THEN c - l1 ELSE 0) \in Nat /\ (IF c > 0 THEN c - l1 ELSE 0) <= c
  <2>1. CASE status[r] = "running"
    <3>1. worker[r].num_computed + (l1 + l2) = c /\ worker[r].num_computed \in Nat
      BY <1>1, <1>2, <2>1 DEF ReqInv, ActiveInv, NumberTypes, WorkerStates
    <3> QED
      BY <1>3, <1>4, <3>1
  <2>2. CASE status[r] # "running"
    <3>1. c = 0
      BY <1>1, <1>2, <2>2 DEF ReqInv, QueuedInv
    <3> QED
      BY <3>1
  <2> QED
    BY <2>1, <2>2
<1>10. (p - l1) - x \in Nat /\ (x = b1 => (p - l1) - x = o2)
  BY <1>3, <1>4, <1>5, <1>7
<1> QED
  BY <1>2, <1>3, <1>7, <1>8, <1>9, <1>10

\* An output that returns: what it brings leaves the placeholders and joins the tokens, what it
\* lost is taken back, and the younger frame becomes the oldest.
LEMMA OutputFlight ==
  ASSUME Inv, Regular, NEW stopAt, NEW counts, OutputCounts(counts),
         update_from_output(stopAt, counts)
  PROVE  FlightInv'
<1>1. QueueInv /\ FlightInv /\ NumberTypes /\ \A x \in Requests : ReqInv(x)
  BY DEF Inv, FlightInv
<1>2. /\ phase = "idle" /\ batch_queue # << >> /\ batch_queue' = Tail(batch_queue)
      /\ UNCHANGED <<config, is_prefill_chunk, phase, budget, batch, admitted, preempted,
                     worker, resets>>
  BY OutputSteps
<1>3. /\ NumSpecTokens' = NumSpecTokens /\ TokenBudget' = TokenBudget
      /\ NumSpecTokens \in Nat /\ TokenBudget \in Nat /\ MaxModelLen \in Nat
  BY <1>1, <1>2, ConfigTypes DEF NumSpecTokens, TokenBudget
<1>4. DOMAIN batch = {} /\ admitted = {} /\ preempted = {}
  BY <1>1, <1>2 DEF QueueInv, BatchPlaces
<1>5. FramesOK' /\ Len(batch_queue) \in {1, 2} /\ Frame = batch_queue[1]
  BY <1>2, OutputFrames
<1>6. \A r : /\ At(1, r) <=> r \in DOMAIN Frame
             /\ (At(1, r)' <=> At(2, r)) /\ ~ At(2, r)'
             /\ (Live(1, r)' <=> Live(2, r)) /\ ~ Live(2, r)' /\ ~ Old(1, r)'
             /\ Owes(1, r)' = Owes(2, r) /\ Lost(1, r)' = Lost(2, r)
             /\ Brings(1, r)' = Brings(2, r)
             /\ Owes(2, r)' = 0 /\ Lost(2, r)' = 0 /\ Brings(2, r)' = 0
             /\ Live(2, r) => batch_queue'[1][r] = batch_queue[2][r]
  BY <1>2, OutputFrames
<1>7. ASSUME NEW r \in Requests
      PROVE  /\ num_tokens[r] \in Nat /\ num_computed_tokens[r] \in Nat
             /\ num_output_placeholders[r] \in Nat /\ async_tokens_to_discard[r] \in Nat
             /\ worker[r].num_computed \in Nat /\ worker[r].total_len \in Nat
             /\ spec_tokens'[r] \in Nat /\ spec_tokens'[r] <= NumSpecTokens
             /\ ~ config.confidence => spec_tokens'[r] = spec_tokens[r]
  <2>1. /\ spec_tokens'[r] \in Nat /\ spec_tokens'[r] <= NumSpecTokens
        /\ ~ config.confidence => spec_tokens'[r] = spec_tokens[r]
    BY OutputSteps
  <2> QED
    BY <1>1, <2>1 DEF NumberTypes, WorkerStates
<1>8. ASSUME NEW r \in Requests, status[r] \in {"waiting", "preempted", "running"},
             r \in DOMAIN Frame
      PROVE  Updated(r, stopAt[r]) /\ At(1, r)
  <2>1. r \in Unfinished
    BY <1>8 DEF Unfinished
  <2>2. Updated(r, stopAt[r])
    BY <1>8, <2>1, OutputSteps, Zenon
  <2> QED
    BY <1>6, <1>8, <2>2
<1>9. ASSUME NEW r \in Requests,
             ~ (status[r] \in {"waiting", "preempted", "running"} /\ r \in DOMAIN Frame)
      PROVE  Same(r)
  <2>1. ~ (r \in DOMAIN Frame /\ r \in Unfinished)
    BY <1>9 DEF Unfinished
  <2> QED
    BY <2>1, OutputSteps, Zenon
<1>10. ASSUME NEW r \in Requests
       PROVE  /\ num_tokens'[r] \in Nat /\ num_computed_tokens'[r] \in Nat
              /\ num_output_placeholders'[r] \in Nat /\ async_tokens_to_discard'[r] \in Nat
              /\ num_tokens[r] <= num_tokens'[r] /\ num_tokens'[r] <= MaxModelLen
              /\ num_computed_tokens'[r] <= num_computed_tokens[r]
  <2>1. CASE status[r] \in {"waiting", "preempted", "running"} /\ r \in DOMAIN Frame
    <3>1. Updated(r, stopAt[r]) /\ At(1, r)
      BY <1>8, <2>1
    <3>2. /\ num_tokens'[r] \in Nat /\ num_computed_tokens'[r] \in Nat
          /\ num_output_placeholders'[r] \in Nat /\ async_tokens_to_discard'[r] = 0
          /\ num_tokens[r] <= num_tokens'[r] /\ num_tokens'[r] <= MaxModelLen
          /\ num_computed_tokens'[r] <= num_computed_tokens[r]
      BY <1>4, <1>5, <2>1, <3>1, UpdatedRequest, Zenon
    <3> QED
      BY <3>2
  <2>2. CASE ~ (status[r] \in {"waiting", "preempted", "running"} /\ r \in DOMAIN Frame)
    BY <1>1, <1>7, <1>9, <2>2 DEF Same, ReqInv, Bounds
  <2> QED
    BY <2>1, <2>2
<1>11. NumberTypes'
  <2>1. /\ num_computed_tokens' = [r \in Requests |-> num_computed_tokens'[r]]
        /\ num_output_placeholders' = [r \in Requests |-> num_output_placeholders'[r]]
        /\ async_tokens_to_discard' = [r \in Requests |-> async_tokens_to_discard'[r]]
        /\ num_tokens' = [r \in Requests |-> num_tokens'[r]]
        /\ spec_tokens' = [r \in Requests |-> spec_tokens'[r]]
    BY OutputSteps
  <2>2. /\ num_computed_tokens' \in [Requests -> Nat]
        /\ num_output_placeholders' \in [Requests -> Nat]
        /\ async_tokens_to_discard' \in [Requests -> Nat]
        /\ num_tokens' \in [Requests -> Nat] /\ spec_tokens' \in [Requests -> Nat]
    BY <1>7, <1>10, <2>1
  <2> QED
    BY <1>1, <1>2, <1>3, <2>2 DEF NumberTypes
<1>12. ASSUME NEW r \in Requests
       PROVE  Bounds(r)' /\ AdmittedInv(r)' /\ BatchInv(r)'
  <2>1. AdmittedInv(r)' /\ BatchInv(r)'
    BY <1>2, <1>4 DEF AdmittedInv, BatchInv
  <2>2. 1 <= num_tokens[r] /\ num_computed_tokens[r] <= MaxModelLen
    BY <1>1 DEF ReqInv, Bounds
  <2>3. Bounds(r)'
    BY <1>3, <1>7, <1>10, <2>2 DEF Bounds
  <2> QED
    BY <2>1, <2>3
<1>13. ASSUME NEW r \in Requests, status'[r] = "finished"
       PROVE  ReqInv(r)'
  <2>1. NewInv(r)' /\ OpenInv(r)' /\ QueuedInv(r)' /\ ActiveInv(r)'
    BY <1>13 DEF NewInv, OpenInv, QueuedInv, ActiveInv
  <2> QED
    BY <1>12, <2>1 DEF ReqInv
<1>14. ASSUME NEW r \in Requests, status[r] = "new"
       PROVE  ReqInv(r)'
  <2>1. Same(r)
    BY <1>9, <1>14
  <2>2. NewInv(r)'
    BY <1>1, <1>6, <1>14, <2>1 DEF Same, ReqInv, NewInv
  <2>3. OpenInv(r)' /\ QueuedInv(r)' /\ ActiveInv(r)'
    BY <1>14, <2>1 DEF Same, OpenInv, QueuedInv, ActiveInv
  <2> QED
    BY <1>12, <2>2, <2>3 DEF ReqInv
<1>15. ASSUME NEW r \in Requests, status[r] \in {"waiting", "preempted", "running"},
              status'[r] # "finished"
       PROVE  ReqInv(r)'
  <2>1. PICK nt, c, p, b1, b2, l1, l2, o2 :
          /\ nt = num_tokens[r] /\ c = num_computed_tokens[r]
          /\ p = num_output_placeholders[r] /\ b1 = Brings(1, r) /\ b2 = Brings(2, r)
          /\ l1 = Lost(1, r) /\ l2 = Lost(2, r) /\ o2 = Owes(2, r)
    OBVIOUS
  <2>2. nt \in Nat /\ c \in Nat /\ p \in Nat /\ b1 \in Nat /\ b2 \in Nat
        /\ l1 \in Nat /\ l2 \in Nat /\ o2 \in Nat /\ Owes(1, r) = l1 + b1 /\ o2 = l2 + b2
    BY <1>1, <1>7, <2>1, Shares
  <2>3. ReqInv(r) /\ p = l1 + b1 + o2 /\ PromptLen[r] <= nt
    BY <1>1, <1>15, <2>1, <2>2 DEF ReqInv, OpenInv
  <2>4. /\ status'[r] = status[r]
        /\ num_tokens'[r] = nt + b1 /\ num_tokens'[r] < LengthCap(r)
        /\ num_output_placeholders'[r] = o2
        /\ num_computed_tokens'[r] = (IF c > 0 THEN c - l1 ELSE 0)
        /\ async_tokens_to_discard'[r] = 0
    <3>1. CASE r \in DOMAIN Frame
      <4>1. Updated(r, stopAt[r]) /\ At(1, r)
        BY <1>8, <1>15, <3>1
      <4> QED
        BY <1>4, <1>5, <1>15, <2>1, <4>1, UpdatedRequest, Zenon
    <3>2. CASE r \notin DOMAIN Frame
      <4>1. Same(r) /\ ~ At(1, r)
        BY <1>6, <1>9, <3>2
      <4>2. ~ Live(1, r) /\ ~ Old(1, r)
        BY <4>1 DEF Live, Old
      <4>3. b1 = 0 /\ l1 = 0
        BY <2>1, <4>2 DEF Brings, Lost
      <4>4. async_tokens_to_discard[r] = 0 /\ nt < LengthCap(r)
        BY <1>15, <2>1, <2>3, <4>2 DEF ReqInv, OpenInv
      <4>5. /\ status'[r] = status[r] /\ num_tokens'[r] = nt
            /\ num_output_placeholders'[r] = p /\ num_computed_tokens'[r] = c
            /\ async_tokens_to_discard'[r] = 0
        BY <2>1, <4>1, <4>4 DEF Same
      <4>6. nt + b1 = nt /\ p = o2 /\ c = (IF c > 0 THEN c - l1 ELSE 0)
        BY <2>2, <2>3, <4>3
      <4> QED
        BY <4>4, <4>5, <4>6
    <3> QED
      BY <3>1, <3>2
  <2>5. NewInv(r)'
    BY <1>15, <2>4 DEF NewInv
  <2>6. OpenInv(r)'
    <3>1. num_output_placeholders'[r] = Owes(1, r)' + Owes(2, r)'
      BY <1>6, <2>1, <2>2, <2>4
    <3>2. Live(1, r)' => batch_queue'[1][r].start = num_tokens'[r]
      <4>1. Live(2, r) => batch_queue[2][r].start = num_tokens[r] + Brings(1, r)
        BY <1>15, <2>3 DEF ReqInv, OpenInv
      <4> QED
        BY <1>6, <2>1, <2>4, <4>1
    <3>3. PromptLen[r] <= num_tokens'[r]
      <4>1. PromptLen[r] \in Nat
        BY SchedulerAssumption
      <4> QED
        BY <2>2, <2>3, <2>4, <4>1
    <3> QED
      BY <1>6, <2>4, <3>1, <3>2, <3>3 DEF OpenInv, LengthCap
  <2>7. QueuedInv(r)'
    <3> SUFFICES ASSUME status[r] \in {"waiting", "preempted"}
                 PROVE  QueuedInv(r)'
      BY <2>4 DEF QueuedInv
    <3>1. c = 0 /\ ~ Live(2, r) /\ (~ config.confidence => spec_tokens[r] = 0)
      BY <1>4, <2>1, <2>3 DEF ReqInv, QueuedInv
    <3> QED
      BY <1>2, <1>6, <1>7, <2>4, <3>1 DEF QueuedInv
  <2>8. ActiveInv(r)'
    <3> SUFFICES ASSUME status[r] = "running"
                 PROVE  ActiveInv(r)'
      BY <2>4 DEF ActiveInv
    <3>1. /\ worker[r].num_computed + (l1 + l2) = c
          /\ worker[r].total_len = nt + (b1 + b2)
          /\ Prefilling(r) \/ Decoding(r)
          /\ c < MaxModelLen
      BY <1>4, <2>1, <2>3 DEF ReqInv, ActiveInv
    <3>2. num_computed_tokens'[r] = c - l1
      BY <1>7, <2>2, <2>4, <3>1
    <3>3. worker[r].num_computed + (l2 + 0) = c - l1 /\ worker[r].total_len = (nt + b1) + (b2 + 0)
          /\ c - l1 < MaxModelLen
      BY <1>3, <1>7, <2>2, <3>1
    <3>4. ASSUME Prefilling(r)
          PROVE  Prefilling(r)'
      <4>1. Owes(1, r) = 0 /\ Owes(2, r) = 0
        BY <3>4 DEF Prefilling
      <4>2. b1 = 0 /\ l1 = 0
        BY <2>2, <4>1
      <4>3. num_tokens'[r] = nt /\ num_computed_tokens'[r] = c
        BY <2>2, <2>4, <3>2, <4>2
      <4> QED
        BY <1>2, <1>6, <1>7, <2>1, <3>4, <4>1, <4>3 DEF Prefilling
    <3>5. ASSUME Decoding(r)
          PROVE  Decoding(r)'
      <4>1. nt + p = c + 1 /\ worker[r].prefill_len <= worker[r].num_computed
        BY <2>1, <3>5 DEF Decoding
      <4>2. (nt + b1) + o2 = (c - l1) + 1
        BY <2>2, <2>3, <4>1
      <4> QED
        BY <1>2, <2>4, <3>2, <4>1, <4>2 DEF Decoding
    <3>6. Prefilling(r)' \/ Decoding(r)'
      BY <3>1, <3>4, <3>5
    <3> QED
      BY <1>2, <1>6, <2>1, <2>4, <3>2, <3>3, <3>6 DEF ActiveInv
  <2> QED
    BY <1>12, <2>5, <2>6, <2>7, <2>8 DEF ReqInv
<1>16. ASSUME NEW r \in Requests
       PROVE  ReqInv(r)'
  <2>1. status[r] \in Statuses
    BY <1>1 DEF QueueInv, QueueTypes
  <2>2. CASE status[r] = "finished"
    <3>1. Same(r)
      BY <1>9, <2>2
    <3> QED
      BY <1>13, <2>2, <3>1 DEF Same
  <2> QED
    BY <1>13, <1>14, <1>15, <2>1, <2>2 DEF Statuses
<1> QED
  BY <1>5, <1>11, <1>16 DEF FlightInv

\* Nothing is in flight at first.
LEMMA InitFlight ==
  ASSUME Init
  PROVE  FlightInv
<1>1. QueueInv
  BY InitQueue
<1>2. NumSpecTokens \in Nat /\ TokenBudget \in Nat /\ MaxModelLen \in Nat
      /\ config.max_resets \in Nat /\ BatchQueueSize \in Nat
  BY <1>1, ConfigTypes
<1>3. num_tokens = PromptLen /\ batch_queue = << >> /\ phase = "idle"
  BY DEF Init
<1>4. \A r \in Requests :
        /\ status[r] = "new" /\ num_computed_tokens[r] = 0 /\ num_output_placeholders[r] = 0
        /\ spec_tokens[r] = 0 /\ async_tokens_to_discard[r] = 0
        /\ PromptLen[r] \in 1 .. MaxModelLen - 1
  BY SchedulerAssumption DEF Init
<1>5. NumberTypes
  <2>1. Unknown \in WorkerStates
    BY DEF Unknown, WorkerStates
  <2>2. num_tokens \in [Requests -> Nat]
    BY <1>3, <1>4, SchedulerAssumption
  <2>3. worker \in [Requests -> WorkerStates]
    BY <2>1 DEF Init
  <2>4. /\ num_computed_tokens \in [Requests -> Nat]
        /\ num_output_placeholders \in [Requests -> Nat]
        /\ spec_tokens \in [Requests -> Nat]
        /\ async_tokens_to_discard \in [Requests -> Nat]
        /\ is_prefill_chunk \in [Requests -> BOOLEAN]
        /\ budget = 0 /\ resets = 0
    BY DEF Init
  <2> QED
    BY <1>2, <2>2, <2>3, <2>4 DEF NumberTypes
<1>6. FramesOK
  <2>1. batch_queue \in Seq(Frames) /\ Len(batch_queue) = 0
    BY <1>3
  <2> QED
    BY <1>2, <1>3, <2>1 DEF FramesOK
<1>7. ASSUME NEW r \in Requests
      PROVE  ReqInv(r)
  <2>1. ~ At(1, r) /\ ~ At(2, r)
    BY <1>3 DEF At
  <2>2. r \notin DOMAIN batch /\ r \notin admitted
    BY <1>1, <1>3 DEF QueueInv, BatchPlaces
  <2>3. Bounds(r)
    BY <1>2, <1>3, <1>4 DEF Bounds
  <2>4. NewInv(r)
    BY <1>3, <1>4, <2>1 DEF NewInv
  <2> QED
    BY <1>4, <2>2, <2>3, <2>4
       DEF ReqInv, OpenInv, QueuedInv, AdmittedInv, ActiveInv, BatchInv
<1> QED
  BY <1>5, <1>6, <1>7 DEF FlightInv

\* Every step keeps the counts of scheduler, frames and worker in agreement.
LEMMA StepFlight ==
  ASSUME Inv, Regular, [Next]_vars
  PROVE  FlightInv'
<1>1. CASE \E r \in Requests : add_request(r)
  BY <1>1, AddFlight
<1>2. CASE \E r \in Requests : abort_request(r)
  BY <1>2, AbortFlight
<1>3. CASE reset_prefix_cache
  BY <1>3, ResetFlight
<1>4. CASE StartSchedule
  BY <1>4, StartFlight
<1>5. CASE SkipRunning \/ EndRunning \/ EndWaiting \/ UNCHANGED vars
  BY <1>5, PhaseFlight
<1>6. CASE ScheduleRunning
  BY <1>6, ScheduleRunningFlight
<1>7. CASE PreemptLast
  BY <1>7, PreemptFlight
<1>8. CASE \E hit \in 0 .. MaxModelLen \div BlockSize : ScheduleWaiting(hit)
  BY <1>8, AdmitFlight, Zenon
<1>9. CASE \E accepted \in [DOMAIN batch -> 0 .. NumSpecTokens] : Dispatch(accepted)
  BY <1>9, DispatchFlight, Zenon
<1>10. CASE ProcessOutput
  BY <1>10, OutputFlight, Zenon DEF ProcessOutput, OutputCounts
<1> QED
  BY <1>1, <1>2, <1>3, <1>4, <1>5, <1>6, <1>7, <1>8, <1>9, <1>10, Zenon
     DEF Next, Schedule

\* No step changes the configuration.
LEMMA SameConfig ==
  ASSUME [Next]_vars
  PROVE  config' = config
<1>1. CASE UNCHANGED vars
  BY <1>1 DEF vars
<1>2. CASE Next
  BY <1>2 DEF Next, add_request, abort_request, reset_prefix_cache, Schedule, StartSchedule,
              SkipRunning, ScheduleRunning, PreemptLast, EndRunning, ScheduleWaiting,
              EndWaiting, Dispatch, ProcessOutput, update_from_output
<1> QED
  BY <1>1, <1>2

\* An output never raises the number of computed tokens.
LEMMA OutputComputed ==
  ASSUME Inv, Regular, NEW stopAt, NEW counts, OutputCounts(counts),
         update_from_output(stopAt, counts), NEW r \in Requests
  PROVE  num_computed_tokens'[r] \in Nat /\ num_computed_tokens'[r] <= num_computed_tokens[r]
<1>1. /\ phase = "idle" /\ batch_queue # << >> /\ batch_queue' = Tail(batch_queue)
      /\ UNCHANGED <<config, phase>>
  BY OutputSteps
<1>2. admitted = {} /\ num_computed_tokens[r] \in Nat
  BY <1>1 DEF Inv, QueueInv, BatchPlaces, FlightInv, NumberTypes
<1>3. CASE r \in DOMAIN Frame /\ r \in Unfinished
  <2>1. status[r] \in {"waiting", "preempted", "running"}
    BY <1>3 DEF Unfinished
  <2>2. At(1, r) /\ Frame = batch_queue[1]
    BY <1>1, <1>3, OutputFrames
  <2>3. Updated(r, stopAt[r])
    BY <1>3, OutputSteps, Zenon
  <2> QED
    BY <1>2, <2>1, <2>2, <2>3, UpdatedRequest, Zenon
<1>4. CASE ~ (r \in DOMAIN Frame /\ r \in Unfinished)
  <2>1. Same(r)
    BY <1>4, OutputSteps, Zenon
  <2> QED
    BY <1>2, <2>1 DEF Same
<1> QED
  BY <1>3, <1>4
-----------------------------------------------------------------------------
(* The blocks: allocate_slots never takes more than are free, and what it  *)
(* takes covers the step it is for.                                        *)

Held == SumFunctionOnSet(num_blocks, Requests)

\* The positions written so far and by the step that is being planned.
Need(r) == num_computed_tokens[r] + (IF r \in DOMAIN batch THEN batch[r].new ELSE 0)

Covered(r) ==
  status[r] = "running" =>
    MinOf(Need(r) + NumSpecTokens, MaxModelLen) <= num_blocks[r] * BlockSize

BlocksInv ==
  /\ num_blocks \in [Requests -> Nat]
  /\ Held <= NumBlocks
  /\ \A r \in Requests : Covered(r)

\* The positions of a request are a number.
LEMMA NeedIsNat ==
  ASSUME Inv, NEW r \in Requests
  PROVE  Need(r) \in Nat
<1>1. num_computed_tokens[r] \in Nat /\ BatchInv(r)
  BY DEF Inv, FlightInv, NumberTypes, ReqInv
<1>2. r \in DOMAIN batch => batch[r].new \in Nat
  BY <1>1 DEF BatchInv
<1> QED
  BY <1>1, <1>2 DEF Need

\* Rounded up to blocks, a number of positions fits.
LEMMA RoundedUp ==
  ASSUME NEW a \in Nat, NEW n \in Nat, cdiv(a, BlockSize) <= n
  PROVE  cdiv(a, BlockSize) \in Nat /\ a <= n * BlockSize
<1>1. BlockSize \in Nat \ {0}
  BY SchedulerAssumption
<1>2. PICK q : q = (a + BlockSize - 1) \div BlockSize
  OBVIOUS
<1>3. PICK m \in Nat : m = a + BlockSize - 1
  BY <1>1
<1>4. q \in Nat /\ m < q * BlockSize + BlockSize /\ q * BlockSize \in Nat
  BY <1>1, <1>2, <1>3
<1>5. a <= q * BlockSize
  BY <1>1, <1>3, <1>4
<1>6. q <= n
  BY <1>2 DEF cdiv
<1>7. q * BlockSize <= n * BlockSize /\ n * BlockSize \in Nat
  BY <1>1, <1>4, <1>6
<1> QED
  BY <1>2, <1>4, <1>5, <1>7 DEF cdiv

\* cdiv of a number is a number.
LEMMA BlocksForIsNat ==
  ASSUME NEW a \in Nat
  PROVE  cdiv(a, BlockSize) \in Nat
<1>1. BlockSize \in Nat \ {0}
  BY SchedulerAssumption
<1>2. PICK m \in Nat : m = a + BlockSize - 1
  BY <1>1
<1>3. m \div BlockSize \in Nat
  BY <1>1
<1> QED
  BY <1>2, <1>3 DEF cdiv

\* Giving blocks back.
LEMMA HeldShrinks ==
  ASSUME BlocksInv, num_blocks' \in [Requests -> Nat],
         \A r \in Requests : num_blocks'[r] <= num_blocks[r]
  PROVE  Held' <= NumBlocks
<1>1. PICK f, g : f = num_blocks /\ g = num_blocks'
  OBVIOUS
<1>2. \A r \in Requests : f[r] \in Int /\ g[r] \in Int /\ g[r] <= f[r]
  BY <1>1 DEF BlocksInv
<1>3. /\ SumFunctionOnSet(f, Requests) \in Int /\ SumFunctionOnSet(g, Requests) \in Int
      /\ SumFunctionOnSet(g, Requests) <= SumFunctionOnSet(f, Requests)
  BY <1>2, SumMonotone, SchedulerAssumption
<1>4. Held = SumFunctionOnSet(f, Requests) /\ Held' = SumFunctionOnSet(g, Requests)
  BY <1>1 DEF Held
<1> QED
  BY <1>3, <1>4, SchedulerAssumption DEF BlocksInv

\* Taking no more blocks than are free.
LEMMA HeldGrows ==
  ASSUME BlocksInv, NEW r \in Requests, NEW more \in Nat, more <= FreeBlocks,
         num_blocks' = [num_blocks EXCEPT ![r] = @ + more]
  PROVE  num_blocks' \in [Requests -> Nat] /\ Held' <= NumBlocks
<1>1. PICK f, g : f = num_blocks /\ g = num_blocks'
  OBVIOUS
<1>2. /\ f \in [Requests -> Nat] /\ g \in [Requests -> Nat]
      /\ g[r] = f[r] + more /\ \A x \in Requests : x # r => g[x] = f[x]
  BY <1>1 DEF BlocksInv
<1>3. PICK v \in Int : v = f[r] + more
  BY <1>2
<1>4. /\ SumFunctionOnSet(f, Requests) \in Int
      /\ SumFunctionOnSet(g, Requests) = SumFunctionOnSet(f, Requests) + (v - f[r])
  <2>1. g[r] = v /\ \A x \in Requests : f[x] \in Int
    BY <1>2, <1>3
  <2> QED
    BY <1>2, <2>1, SumOfOneMore, SchedulerAssumption
<1>5. Held = SumFunctionOnSet(f, Requests) /\ Held' = SumFunctionOnSet(g, Requests)
      /\ FreeBlocks = NumBlocks - SumFunctionOnSet(f, Requests)
  BY <1>1 DEF Held, FreeBlocks
<1>6. v - f[r] = more
  BY <1>2, <1>3
<1> QED
  BY <1>1, <1>2, <1>4, <1>5, <1>6, SchedulerAssumption

\* A request that keeps its blocks and needs no more of them.
LEMMA StaysCovered ==
  ASSUME Inv, NEW r \in Requests, Covered(r), config' = config, BlocksInv,
         status'[r] = "running" => /\ status[r] = "running" /\ num_blocks'[r] = num_blocks[r]
                                   /\ Need(r)' \in Nat /\ Need(r)' <= Need(r)
  PROVE  Covered(r)'
<1> SUFFICES ASSUME status'[r] = "running"
             PROVE  Covered(r)'
  BY DEF Covered
<1>1. PICK a, b, s, m : /\ a = Need(r) /\ b = Need(r)' /\ s = NumSpecTokens
                        /\ m = num_blocks[r] * BlockSize
  OBVIOUS
<1>2. a \in Nat /\ b \in Nat /\ b <= a /\ s \in Nat /\ MaxModelLen \in Nat /\ m \in Nat
  BY <1>1, NeedIsNat, ConfigTypes, SchedulerAssumption DEF Inv, BlocksInv
<1>3. MinOf(a + s, MaxModelLen) <= m
  BY <1>1 DEF Covered
<1>4. MinOf(b + s, MaxModelLen) <= m
  BY <1>2, <1>3 DEF MinOf
<1>5. NumSpecTokens' = s /\ num_blocks'[r] * BlockSize = m
  BY <1>1 DEF NumSpecTokens
<1> QED
  BY <1>1, <1>4, <1>5 DEF Covered

\* A request whose missing blocks were allocated.
LEMMA BecomesCovered ==
  ASSUME Inv, BlocksInv, NEW r \in Requests, NEW c \in Nat, NEW n \in Nat, config' = config,
         num_blocks'[r] = num_blocks[r] + MissingBlocks(r, c, n), Need(r)' = c + n
  PROVE  MissingBlocks(r, c, n) \in Nat /\ Covered(r)'
<1>1. PICK b, s, a, k : /\ b = num_blocks[r] /\ s = NumSpecTokens
                        /\ a = MinOf(c + n + s, MaxModelLen) /\ k = cdiv(a, BlockSize)
  OBVIOUS
<1>2. b \in Nat /\ s \in Nat /\ MaxModelLen \in Nat
  BY <1>1, ConfigTypes DEF Inv, BlocksInv
<1>3. a \in Nat
  BY <1>1, <1>2 DEF MinOf
<1>4. k \in Nat
  BY <1>1, <1>3, BlocksForIsNat
<1>5. MissingBlocks(r, c, n) = MaxOf(k - b, 0)
  BY <1>1 DEF MissingBlocks, BlocksFor
<1>6. MaxOf(k - b, 0) \in Nat /\ b + MaxOf(k - b, 0) \in Nat /\ k <= b + MaxOf(k - b, 0)
  BY <1>2, <1>4 DEF MaxOf
<1>7. a <= (b + MaxOf(k - b, 0)) * BlockSize
  BY <1>1, <1>3, <1>6, RoundedUp
<1>8. num_blocks'[r] = b + MaxOf(k - b, 0) /\ NumSpecTokens' = s /\ Need(r)' + s = c + n + s
  BY <1>1, <1>5 DEF NumSpecTokens
<1> QED
  BY <1>1, <1>5, <1>6, <1>7, <1>8 DEF Covered

\* Steps that take no blocks.
LEMMA FreedBlocks ==
  ASSUME Inv, BlocksInv, config' = config, num_blocks' \in [Requests -> Nat],
         \A r \in Requests : num_blocks'[r] <= num_blocks[r],
         \A r \in Requests : status'[r] = "running" =>
           /\ status[r] = "running" /\ num_blocks'[r] = num_blocks[r]
           /\ Need(r)' \in Nat /\ Need(r)' <= Need(r)
  PROVE  BlocksInv'
<1>1. Held' <= NumBlocks
  BY HeldShrinks
<1>2. ASSUME NEW r \in Requests
      PROVE  Covered(r)'
  <2>1. Covered(r)
    BY DEF BlocksInv
  <2> QED
    BY <2>1, StaysCovered
<1> QED
  BY <1>1, <1>2 DEF BlocksInv

\* A step that allocates what request r misses for n more tokens behind c.
LEMMA TakenBlocks ==
  ASSUME Inv, BlocksInv, config' = config, NEW r \in Requests, NEW c \in Nat, NEW n \in Nat,
         num_blocks' = [num_blocks EXCEPT ![r] = @ + MissingBlocks(r, c, n)],
         MissingBlocks(r, c, n) <= FreeBlocks, Need(r)' = c + n,
         \A x \in Requests : x # r => status'[x] = status[x] /\ Need(x)' = Need(x)
  PROVE  BlocksInv'
<1>1. num_blocks \in [Requests -> Nat] /\ \A x \in Requests : Covered(x)
  BY DEF BlocksInv
<1>2. num_blocks'[r] = num_blocks[r] + MissingBlocks(r, c, n)
      /\ \A x \in Requests : x # r => num_blocks'[x] = num_blocks[x]
  BY <1>1
<1>3. MissingBlocks(r, c, n) \in Nat /\ Covered(r)'
  BY <1>2, BecomesCovered
<1>4. num_blocks' \in [Requests -> Nat] /\ Held' <= NumBlocks
  BY <1>3, HeldGrows
<1>5. ASSUME NEW x \in Requests, x # r
      PROVE  Covered(x)'
  <2>1. status'[x] = status[x] /\ num_blocks'[x] = num_blocks[x] /\ Need(x)' = Need(x)
        /\ Need(x) \in Nat
    BY <1>2, <1>5, NeedIsNat
  <2>2. Need(x)' \in Nat /\ Need(x)' <= Need(x)
    BY <2>1
  <2> QED
    BY <1>1, <2>1, <2>2, StaysCovered
<1> QED
  BY <1>3, <1>4, <1>5 DEF BlocksInv

\* add_request takes no blocks; an abort frees them.
LEMMA ClientBlocks ==
  ASSUME Inv, BlocksInv, NEW r \in Requests, add_request(r) \/ abort_request(r)
  PROVE  BlocksInv'
<1>1. num_blocks \in [Requests -> Nat] /\ status \in [Requests -> Statuses]
  BY DEF BlocksInv, Inv, QueueInv, QueueTypes
<1>2. ASSUME NEW x \in Requests
      PROVE  Need(x)' = Need(x) /\ Need(x) \in Nat
  BY NeedIsNat DEF add_request, abort_request, reqVars, schedVars, Need
<1>3. ASSUME NEW x \in Requests
      PROVE  Need(x)' \in Nat /\ Need(x)' <= Need(x)
  BY <1>2
<1>4. config' = config
  BY DEF add_request, abort_request
<1>5. CASE add_request(r)
  <2>1. num_blocks' = num_blocks /\ \A x \in Requests : status'[x] = "running" => status[x] = "running"
    BY <1>1, <1>5 DEF add_request
  <2> QED
    BY <1>1, <1>3, <1>4, <2>1, FreedBlocks
<1>6. CASE abort_request(r)
  <2>1. num_blocks' = [num_blocks EXCEPT ![r] = 0] /\ status' = [status EXCEPT ![r] = "finished"]
    BY <1>6 DEF abort_request
  <2>2. /\ num_blocks' \in [Requests -> Nat]
        /\ \A x \in Requests : num_blocks'[x] <= num_blocks[x]
        /\ \A x \in Requests : status'[x] = "running" => status[x] = "running" /\ num_blocks'[x] = num_blocks[x]
    BY <1>1, <2>1
  <2> QED
    BY <1>3, <1>4, <2>2, FreedBlocks
<1> QED
  BY <1>5, <1>6

\* reset_prefix_cache frees the blocks of every running request.
LEMMA ResetBlocks ==
  ASSUME Inv, BlocksInv, reset_prefix_cache
  PROVE  BlocksInv'
<1>1. PICK S : S = ToSet(running)
  OBVIOUS
<1>2. /\ num_blocks' = [r \in Requests |-> IF r \in S THEN 0 ELSE num_blocks[r]]
      /\ status' = [r \in Requests |-> IF r \in S THEN "preempted" ELSE status[r]]
      /\ config' = config
  BY <1>1 DEF reset_prefix_cache
<1>3. num_blocks \in [Requests -> Nat] /\ \A r \in Requests : status[r] = "running" => r \in S
  BY <1>1 DEF BlocksInv, Inv, QueueInv, QueuesMatchStatus
<1>4. /\ num_blocks' \in [Requests -> Nat]
      /\ \A r \in Requests : num_blocks'[r] <= num_blocks[r] /\ status'[r] # "running"
  BY <1>2, <1>3
<1> QED
  BY <1>2, <1>4, FreedBlocks

\* Steps of schedule() that take no blocks.
LEMMA PhaseBlocks ==
  ASSUME Inv, BlocksInv,
         StartSchedule \/ SkipRunning \/ EndRunning \/ EndWaiting \/ UNCHANGED vars
  PROVE  BlocksInv'
<1>1. UNCHANGED <<config, status, num_blocks, num_computed_tokens>>
  BY DEF StartSchedule, SkipRunning, EndRunning, EndWaiting, vars, reqVars
<1>2. UNCHANGED batch \/ (DOMAIN batch = {} /\ DOMAIN batch' = {})
  BY DEF StartSchedule, SkipRunning, EndRunning, EndWaiting, vars, schedVars, BetweenSteps,
         Inv, QueueInv, BatchPlaces
<1>3. ASSUME NEW x \in Requests
      PROVE  Need(x)' = Need(x) /\ Need(x) \in Nat
  BY <1>1, <1>2, NeedIsNat DEF Need
<1>4. ASSUME NEW x \in Requests
      PROVE  Need(x)' \in Nat /\ Need(x)' <= Need(x)
  BY <1>3
<1>5. num_blocks \in [Requests -> Nat]
  BY DEF BlocksInv
<1> QED
  BY <1>1, <1>4, <1>5, FreedBlocks

\* allocate_slots for a running request.
LEMMA ScheduleRunningBlocks ==
  ASSUME Inv, BlocksInv, ScheduleRunning
  PROVE  BlocksInv'
<1>1. PICK r, n, c : /\ r = running[index] /\ n = num_new_tokens(r) /\ c = num_computed_tokens[r]
  OBVIOUS
<1>2. /\ Scanning /\ Schedulable(r)
      /\ MissingBlocks(r, c, n) <= FreeBlocks
      /\ num_blocks' = [num_blocks EXCEPT ![r] = @ + MissingBlocks(r, c, n)]
      /\ UNCHANGED <<config, status, num_computed_tokens>>
  BY <1>1 DEF ScheduleRunning
<1>3. PICK e : e.new = n /\ batch' = [s \in DOMAIN batch \cup {r} |-> IF s = r THEN e ELSE batch[s]]
  <2>1. batch' = [s \in DOMAIN batch \cup {r} |->
              IF s = r THEN [new |-> n, drafts |-> ScheduledDrafts(r, n)] ELSE batch[s]]
    BY <1>1 DEF ScheduleRunning, AddToBatch
  <2>2. [new |-> n, drafts |-> ScheduledDrafts(r, n)].new = n
    OBVIOUS
  <2> QED
    BY <2>1, <2>2
<1>4. r \in Requests /\ n \in Nat
  BY <1>1, <1>2, PlannedStep
<1>5. c \in Nat
  BY <1>1, <1>4 DEF Inv, FlightInv, NumberTypes
<1>6. Need(r)' = c + n
  BY <1>1, <1>2, <1>3 DEF Need
<1>7. ASSUME NEW x \in Requests, x # r
      PROVE  status'[x] = status[x] /\ Need(x)' = Need(x)
  BY <1>2, <1>3, <1>7 DEF Need
<1> QED
  BY <1>2, <1>4, <1>5, <1>6, <1>7, TakenBlocks

\* A preemption frees blocks.
LEMMA PreemptBlocks ==
  ASSUME Inv, BlocksInv, PreemptLast
  PROVE  BlocksInv'
<1>1. PICK p : p = Last(running)
  OBVIOUS
<1>2. /\ num_blocks' = [num_blocks EXCEPT ![p] = 0]
      /\ num_computed_tokens' = [num_computed_tokens EXCEPT ![p] = 0]
      /\ status' = [status EXCEPT ![p] = "preempted"]
      /\ UNCHANGED <<config, batch>>
  BY <1>1 DEF PreemptLast
<1>3. num_blocks \in [Requests -> Nat] /\ status \in [Requests -> Statuses]
      /\ num_computed_tokens \in [Requests -> Nat]
  BY DEF BlocksInv, Inv, QueueInv, QueueTypes, FlightInv, NumberTypes
<1>4. ASSUME NEW x \in Requests, status'[x] = "running"
      PROVE  /\ status[x] = "running" /\ num_blocks'[x] = num_blocks[x]
             /\ Need(x)' = Need(x) /\ Need(x) \in Nat
  <2>1. x # p
    BY <1>2, <1>3, <1>4
  <2> QED
    BY <1>2, <1>3, <1>4, <2>1, NeedIsNat DEF Need
<1>5. ASSUME NEW x \in Requests, status'[x] = "running"
      PROVE  /\ status[x] = "running" /\ num_blocks'[x] = num_blocks[x]
             /\ Need(x)' \in Nat /\ Need(x)' <= Need(x)
  BY <1>4, <1>5
<1>6. num_blocks' \in [Requests -> Nat] /\ \A x \in Requests : num_blocks'[x] <= num_blocks[x]
  <2>1. num_blocks' = [x \in Requests |-> IF x = p THEN 0 ELSE num_blocks[x]]
    BY <1>2, <1>3
  <2>2. \A x \in Requests : num_blocks'[x] \in Nat /\ num_blocks'[x] <= num_blocks[x]
    BY <1>3, <2>1
  <2> QED
    BY <2>1, <2>2
<1> QED
  BY <1>2, <1>5, <1>6, FreedBlocks

\* allocate_slots for an admitted request, the blocks of its prefix-cache hit included.
LEMMA AdmitBlocks ==
  ASSUME Inv, BlocksInv, NEW hit, ScheduleWaiting(hit)
  PROVE  BlocksInv'
<1>1. PICK r, n, c : /\ r = Head(waiting) /\ c = hit * BlockSize
                     /\ n = MinOf(num_tokens[r] - c, budget)
  OBVIOUS
<1>2. /\ CanAdmit /\ hit \in 0 .. (num_tokens[r] - 1) \div BlockSize
      /\ FitsWithWatermark(MissingForAdmission(r, hit))
      /\ status' = [status EXCEPT ![r] = "running"]
      /\ num_blocks' = [num_blocks EXCEPT ![r] = @ + MissingForAdmission(r, hit)]
      /\ num_computed_tokens' = [num_computed_tokens EXCEPT ![r] = c]
      /\ AddToBatch(r, n, 0) /\ config' = config
  BY <1>1 DEF ScheduleWaiting
<1>3. PICK e : e.new = n /\ batch' = [s \in DOMAIN batch \cup {r} |-> IF s = r THEN e ELSE batch[s]]
  <2>1. batch' = [s \in DOMAIN batch \cup {r} |->
              IF s = r THEN [new |-> n, drafts |-> 0] ELSE batch[s]]
    BY <1>2 DEF AddToBatch
  <2>2. [new |-> n, drafts |-> 0].new = n
    OBVIOUS
  <2> QED
    BY <2>1, <2>2
<1>4. QueueInv /\ FlightInv /\ NumberTypes /\ num_blocks \in [Requests -> Nat]
  BY DEF Inv, FlightInv, BlocksInv
<1>5. r \in Requests
  <2>1. waiting \in Seq(Requests) /\ waiting # << >>
    BY <1>2, <1>4 DEF CanAdmit, QueueInv, QueueTypes
  <2> QED
    BY <1>1, <2>1
<1>6. num_tokens[r] \in Nat \ {0} /\ budget \in Nat \ {0}
  <2>1. num_tokens[r] \in Nat /\ 1 <= num_tokens[r] /\ budget \in Nat /\ budget > 0
    BY <1>2, <1>4, <1>5 DEF FlightInv, NumberTypes, ReqInv, Bounds, CanAdmit
  <2> QED
    BY <2>1
<1>7. c \in Nat /\ n \in Nat
  BY <1>1, <1>2, <1>6, AdmittedStep
<1>8. MissingForAdmission(r, hit) = MissingBlocks(r, c, n)
  BY <1>1 DEF MissingForAdmission
<1>9. /\ \A x \in Requests : x # r => /\ status'[x] = status[x]
                                      /\ num_computed_tokens'[x] = num_computed_tokens[x]
      /\ num_computed_tokens'[r] = c /\ num_blocks'[r] = num_blocks[r] + MissingBlocks(r, c, n)
  BY <1>2, <1>4, <1>5, <1>8 DEF QueueInv, QueueTypes, NumberTypes
<1>10. Need(r)' = c + n
  BY <1>3, <1>9 DEF Need
<1>11. ASSUME NEW x \in Requests, x # r
       PROVE  status'[x] = status[x] /\ Need(x)' = Need(x)
  BY <1>3, <1>9, <1>11 DEF Need
<1>12. MissingBlocks(r, c, n) \in Nat
  BY <1>2, <1>5, <1>7, <1>9, <1>10, BecomesCovered
<1>13. MissingBlocks(r, c, n) <= FreeBlocks
  <2>1. FreeBlocks \in Int
    <3>1. \A x \in Requests : num_blocks[x] \in Int
      BY <1>4
    <3>2. SumFunctionOnSet(num_blocks, Requests) \in Int
      BY <3>1, SumMonotone, SchedulerAssumption
    <3> QED
      BY <3>2, SchedulerAssumption DEF FreeBlocks
  <2>2. config.watermark \in Nat
    BY <1>4, ConfigTypes
  <2>3. PICK w \in Nat : MissingBlocks(r, c, n) + w <= FreeBlocks
    BY <1>2, <1>8, <2>2 DEF FitsWithWatermark
  <2> QED
    BY <1>12, <2>1, <2>3
<1>14. num_blocks' = [num_blocks EXCEPT ![r] = @ + MissingBlocks(r, c, n)]
  BY <1>2, <1>8
<1> QED
  BY <1>2, <1>5, <1>7, <1>10, <1>11, <1>13, <1>14, TakenBlocks

\* What was planned is counted as computed: the need stays.
LEMMA DispatchBlocks ==
  ASSUME Inv, BlocksInv, NEW accepted \in [DOMAIN batch -> 0 .. NumSpecTokens],
         Dispatch(accepted)
  PROVE  BlocksInv'
<1>1. UNCHANGED <<config, status, num_blocks>> /\ batch' = << >>
  BY DEF Dispatch
<1>2. num_computed_tokens' = [r \in Requests |->
        IF r \in DOMAIN batch THEN num_computed_tokens[r] + batch[r].new
        ELSE num_computed_tokens[r]]
  BY Zenon DEF Dispatch
<1>3. ASSUME NEW x \in Requests
      PROVE  Need(x)' = Need(x) /\ Need(x) \in Nat
  <2>1. num_computed_tokens[x] \in Nat
    BY DEF Inv, FlightInv, NumberTypes
  <2>2. x \notin DOMAIN batch'
    BY <1>1
  <2>3. Need(x) \in Nat
    BY NeedIsNat
  <2>4. Need(x)' = num_computed_tokens'[x] + 0
    BY <2>2 DEF Need
  <2>5. num_computed_tokens'[x] = Need(x)
    BY <1>2, <2>1 DEF Need
  <2> QED
    BY <2>3, <2>4, <2>5
<1>4. ASSUME NEW x \in Requests
      PROVE  Need(x)' \in Nat /\ Need(x)' <= Need(x)
  BY <1>3
<1>5. num_blocks \in [Requests -> Nat]
  BY DEF BlocksInv
<1> QED
  BY <1>1, <1>4, <1>5, FreedBlocks

\* An output only lowers the need, and frees the blocks of what it stops.
LEMMA OutputBlocks ==
  ASSUME Inv, Regular, BlocksInv, NEW stopAt, NEW counts, OutputCounts(counts),
         update_from_output(stopAt, counts)
  PROVE  BlocksInv'
<1>1. phase = "idle" /\ UNCHANGED <<config, batch>>
  BY OutputSteps
<1>2. PICK S : /\ num_blocks' = [r \in Requests |-> IF r \in S THEN 0 ELSE num_blocks[r]]
               /\ status' = [r \in Requests |-> IF r \in S THEN "finished" ELSE status[r]]
  BY Zenon DEF update_from_output
<1>3. num_blocks \in [Requests -> Nat] /\ DOMAIN batch = {}
  BY <1>1 DEF BlocksInv, Inv, QueueInv, BatchPlaces
<1>4. num_blocks' \in [Requests -> Nat] /\ \A x \in Requests : num_blocks'[x] <= num_blocks[x]
  BY <1>2, <1>3
<1>5. ASSUME NEW x \in Requests
      PROVE  Need(x)' \in Nat /\ Need(x)' <= Need(x)
  <2>1. num_computed_tokens'[x] \in Nat /\ num_computed_tokens'[x] <= num_computed_tokens[x]
    BY OutputComputed
  <2>2. num_computed_tokens[x] \in Nat
    BY DEF Inv, FlightInv, NumberTypes
  <2>3. Need(x) = num_computed_tokens[x] + 0 /\ Need(x)' = num_computed_tokens'[x] + 0
    BY <1>1, <1>3 DEF Need
  <2> QED
    BY <2>1, <2>2, <2>3
<1>6. ASSUME NEW x \in Requests, status'[x] = "running"
      PROVE  status[x] = "running" /\ num_blocks'[x] = num_blocks[x]
  BY <1>2, <1>6
<1> QED
  BY <1>1, <1>4, <1>5, <1>6, FreedBlocks

\* No blocks are held at first.
LEMMA InitBlocks ==
  ASSUME Init
  PROVE  BlocksInv
<1>1. num_blocks = [r \in Requests |-> 0] /\ status = [r \in Requests |-> "new"]
  BY DEF Init
<1>2. SumFunctionOnSet(num_blocks, Requests) = 0
  <2>1. \A x \in Requests : num_blocks[x] = 0
    BY <1>1
  <2> QED
    BY <2>1, SumOfZeros, SchedulerAssumption
<1>3. Held <= NumBlocks
  BY <1>2, SchedulerAssumption DEF Held
<1>4. num_blocks \in [Requests -> Nat] /\ \A r \in Requests : status[r] # "running"
  BY <1>1
<1> QED
  BY <1>3, <1>4 DEF BlocksInv, Covered

\* Every step keeps the slots of the running requests and the number of free blocks in order.
LEMMA StepBlocks ==
  ASSUME Inv, Regular, BlocksInv, [Next]_vars
  PROVE  BlocksInv'
<1>1. CASE \E r \in Requests : add_request(r) \/ abort_request(r)
  BY <1>1, ClientBlocks
<1>3. CASE reset_prefix_cache
  BY <1>3, ResetBlocks
<1>5. CASE StartSchedule \/ SkipRunning \/ EndRunning \/ EndWaiting \/ UNCHANGED vars
  BY <1>5, PhaseBlocks
<1>6. CASE ScheduleRunning
  BY <1>6, ScheduleRunningBlocks
<1>7. CASE PreemptLast
  BY <1>7, PreemptBlocks
<1>8. CASE \E hit \in 0 .. MaxModelLen \div BlockSize : ScheduleWaiting(hit)
  BY <1>8, AdmitBlocks, Zenon
<1>9. CASE \E accepted \in [DOMAIN batch -> 0 .. NumSpecTokens] : Dispatch(accepted)
  BY <1>9, DispatchBlocks, Zenon
<1>10. CASE ProcessOutput
  BY <1>10, OutputBlocks, Zenon DEF ProcessOutput, OutputCounts
<1> QED
  BY <1>1, <1>3, <1>5, <1>6, <1>7, <1>8, <1>9, <1>10, Zenon DEF Next, Schedule
-----------------------------------------------------------------------------
(* What the invariant says of the frames in flight and of the counters.    *)

\* The frames that continue r are its live ones.
LEMMA FreshAre ==
  ASSUME QueueInv, FlightInv, Regular, NEW r
  PROVE  /\ Fresh(r) \subseteq {1, 2}
         /\ \A i \in {1, 2} : i \in Fresh(r) <=> Live(i, r)
<1>1. batch_queue \in Seq(Frames) /\ Len(batch_queue) \in 0 .. 2
  BY Shares DEF FlightInv, FramesOK
<1>2. DOMAIN batch_queue = 1 .. Len(batch_queue)
  BY <1>1
<1>3. \A i : i \in Fresh(r) <=> Live(i, r)
  BY <1>2 DEF Fresh, Live, At
<1>4. \A i : Live(i, r) => i \in {1, 2}
  BY <1>1 DEF Live, At
<1> QED
  BY <1>3, <1>4

\* A sum over the frames that continue r.
LEMMA FreshSum ==
  ASSUME NEW f, NEW a \in Int, NEW b \in Int, DOMAIN f \subseteq {1, 2},
         IF 1 \in DOMAIN f THEN f[1] = a ELSE a = 0,
         IF 2 \in DOMAIN f THEN f[2] = b ELSE b = 0
  PROVE  SumFunction(f) = a + b
<1>1. \A i \in DOMAIN f : f[i] \in Int
  OBVIOUS
<1>2. SumFunction(f) = (IF 1 \in DOMAIN f THEN f[1] ELSE 0) + (IF 2 \in DOMAIN f THEN f[2] ELSE 0)
  BY <1>1, SumOfTwo
<1> QED
  BY <1>2

\* What the frames in flight owe, lose and bring, as the properties sum it up.
LEMMA FreshSums ==
  ASSUME QueueInv, FlightInv, Regular, NEW r
  PROVE  /\ SumFunction([i \in Fresh(r) |-> Expected(i, r)]) = Owes(1, r) + Owes(2, r)
         /\ SumFunction([i \in Fresh(r) |-> Undone(i, r)]) = Lost(1, r) + Lost(2, r)
         /\ SumFunction([i \in Fresh(r) |-> Sampled(i, r)]) = Brings(1, r) + Brings(2, r)
<1>1. PICK S : S = Fresh(r)
  OBVIOUS
<1>2. S \subseteq {1, 2} /\ (1 \in S <=> Live(1, r)) /\ (2 \in S <=> Live(2, r))
  BY <1>1, FreshAre
<1>3. /\ Owes(1, r) \in Int /\ Lost(1, r) \in Int /\ Brings(1, r) \in Int
      /\ Owes(2, r) \in Int /\ Lost(2, r) \in Int /\ Brings(2, r) \in Int
  <2>1. /\ Owes(1, r) \in Nat /\ Lost(1, r) \in Nat /\ Brings(1, r) \in Nat
        /\ Owes(2, r) \in Nat /\ Lost(2, r) \in Nat /\ Brings(2, r) \in Nat
    BY Shares
  <2> QED
    BY <2>1
<1>4. SumFunction([i \in S |-> Expected(i, r)]) = Owes(1, r) + Owes(2, r)
  <2>1. PICK f : f = [i \in S |-> Expected(i, r)]
    OBVIOUS
  <2>2. /\ DOMAIN f = S /\ (1 \in S => f[1] = Owes(1, r)) /\ (1 \notin S => Owes(1, r) = 0)
        /\ (2 \in S => f[2] = Owes(2, r)) /\ (2 \notin S => Owes(2, r) = 0)
    BY <1>2, <2>1 DEF Owes
  <2>3. PICK a, b : a = Owes(1, r) /\ b = Owes(2, r)
    OBVIOUS
  <2>4. a \in Int /\ b \in Int
    BY <1>3, <2>3
  <2>5. /\ DOMAIN f \subseteq {1, 2}
        /\ IF 1 \in DOMAIN f THEN f[1] = a ELSE a = 0
        /\ IF 2 \in DOMAIN f THEN f[2] = b ELSE b = 0
    BY <1>2, <2>2, <2>3
  <2>6. SumFunction(f) = a + b
    BY <2>4, <2>5, FreshSum
  <2> QED
    BY <2>1, <2>3, <2>6
<1>5. SumFunction([i \in S |-> Undone(i, r)]) = Lost(1, r) + Lost(2, r)
  <2>1. PICK f : f = [i \in S |-> Undone(i, r)]
    OBVIOUS
  <2>2. /\ DOMAIN f = S /\ (1 \in S => f[1] = Lost(1, r)) /\ (1 \notin S => Lost(1, r) = 0)
        /\ (2 \in S => f[2] = Lost(2, r)) /\ (2 \notin S => Lost(2, r) = 0)
    BY <1>2, <2>1 DEF Lost
  <2>3. PICK a, b : a = Lost(1, r) /\ b = Lost(2, r)
    OBVIOUS
  <2>4. a \in Int /\ b \in Int
    BY <1>3, <2>3
  <2>5. /\ DOMAIN f \subseteq {1, 2}
        /\ IF 1 \in DOMAIN f THEN f[1] = a ELSE a = 0
        /\ IF 2 \in DOMAIN f THEN f[2] = b ELSE b = 0
    BY <1>2, <2>2, <2>3
  <2>6. SumFunction(f) = a + b
    BY <2>4, <2>5, FreshSum
  <2> QED
    BY <2>1, <2>3, <2>6
<1>6. SumFunction([i \in S |-> Sampled(i, r)]) = Brings(1, r) + Brings(2, r)
  <2>1. PICK f : f = [i \in S |-> Sampled(i, r)]
    OBVIOUS
  <2>2. /\ DOMAIN f = S /\ (1 \in S => f[1] = Brings(1, r)) /\ (1 \notin S => Brings(1, r) = 0)
        /\ (2 \in S => f[2] = Brings(2, r)) /\ (2 \notin S => Brings(2, r) = 0)
    BY <1>2, <2>1 DEF Brings
  <2>3. PICK a, b : a = Brings(1, r) /\ b = Brings(2, r)
    OBVIOUS
  <2>4. a \in Int /\ b \in Int
    BY <1>3, <2>3
  <2>5. /\ DOMAIN f \subseteq {1, 2}
        /\ IF 1 \in DOMAIN f THEN f[1] = a ELSE a = 0
        /\ IF 2 \in DOMAIN f THEN f[2] = b ELSE b = 0
    BY <1>2, <2>2, <2>3
  <2>6. SumFunction(f) = a + b
    BY <2>4, <2>5, FreshSum
  <2> QED
    BY <2>1, <2>3, <2>6
<1> QED
  BY <1>1, <1>4, <1>5, <1>6

\* The invariant gives PlaceholdersExact.
LEMMA InvPlaceholders ==
  ASSUME Inv, Regular
  PROVE  PlaceholdersExact
<1> SUFFICES ASSUME NEW r \in Unfinished
             PROVE  num_output_placeholders[r]
                      = SumFunction([i \in Fresh(r) |-> Expected(i, r)])
  BY DEF PlaceholdersExact
<1>1. r \in Requests /\ status[r] \in {"waiting", "preempted", "running"}
  BY DEF Unfinished
<1>2. num_output_placeholders[r] = Owes(1, r) + Owes(2, r)
  BY <1>1 DEF Inv, FlightInv, ReqInv, OpenInv
<1>3. SumFunction([i \in Fresh(r) |-> Expected(i, r)]) = Owes(1, r) + Owes(2, r)
  BY FreshSums DEF Inv
<1> QED
  BY <1>2, <1>3

\* The invariant gives CountsAgree.
LEMMA InvCounts ==
  ASSUME Inv, Regular
  PROVE  CountsAgree
<1> SUFFICES ASSUME NEW r \in ToSet(running) \ admitted
             PROVE  /\ worker[r].num_computed = num_computed_tokens[r]
                         - SumFunction([i \in Fresh(r) |-> Undone(i, r)])
                    /\ worker[r].total_len = num_tokens[r]
                         + SumFunction([i \in Fresh(r) |-> Sampled(i, r)])
  BY DEF CountsAgree
<1>1. r \in Requests /\ status[r] = "running" /\ r \notin admitted
  BY DEF Inv, QueueInv, QueuesMatchStatus
<1>2. PICK l, b, n, c : /\ l = Lost(1, r) + Lost(2, r) /\ b = Brings(1, r) + Brings(2, r)
                        /\ n = worker[r].num_computed /\ c = num_computed_tokens[r]
  OBVIOUS
<1>3. n + l = c /\ worker[r].total_len = num_tokens[r] + b
  BY <1>1, <1>2 DEF Inv, FlightInv, ReqInv, ActiveInv
<1>4. n \in Nat /\ c \in Nat
  BY <1>1, <1>2 DEF Inv, FlightInv, NumberTypes, WorkerStates
<1>5. l \in Nat
  <2>1. Lost(1, r) \in Nat /\ Lost(2, r) \in Nat
    BY Shares DEF Inv
  <2> QED
    BY <1>2, <2>1
<1>6. /\ SumFunction([i \in Fresh(r) |-> Undone(i, r)]) = l
      /\ SumFunction([i \in Fresh(r) |-> Sampled(i, r)]) = b
  BY <1>2, FreshSums DEF Inv
<1> QED
  BY <1>2, <1>3, <1>4, <1>5, <1>6

\* Without the confidence schedule, the invariant gives DraftsFollowADecode.
LEMMA InvDrafts ==
  ASSUME Inv, Regular, ~ config.confidence
  PROVE  DraftsFollowADecode
<1>1. FramesOK /\ DOMAIN batch_queue = 1 .. Len(batch_queue)
  BY DEF Inv, FlightInv, FramesOK
<1> QED
  BY <1>1 DEF DraftsFollowADecode, FramesOK, ShareOK

\* The invariant gives OutputsContinue.
LEMMA InvContinues ==
  ASSUME Inv, Regular
  PROVE  OutputsContinue
<1> SUFFICES ASSUME NEW r \in Unfinished, NEW i \in Fresh(r)
             PROVE  batch_queue[i][r].start = num_tokens[r]
                      + SumFunction([j \in {k \in Fresh(r) : k < i} |-> Sampled(j, r)])
  BY DEF OutputsContinue
<1>1. r \in Requests /\ status[r] \in {"waiting", "preempted", "running"}
  BY DEF Unfinished
<1>2. PICK S : S = {k \in Fresh(r) : k < i}
  OBVIOUS
<1>3. /\ i \in {1, 2} /\ Live(i, r) /\ Fresh(r) \subseteq {1, 2}
      /\ (1 \in Fresh(r) <=> Live(1, r))
  BY FreshAre DEF Inv
<1>4. S \subseteq {1} /\ (1 \in S <=> i = 2 /\ Live(1, r))
  BY <1>2, <1>3
<1>5. PICK f : f = [j \in S |-> Sampled(j, r)]
  OBVIOUS
<1>6. PICK b : b = (IF i = 2 THEN Brings(1, r) ELSE 0)
  OBVIOUS
<1>7. b \in Int /\ num_tokens[r] \in Nat
  <2>1. Brings(1, r) \in Nat
    BY Shares DEF Inv
  <2> QED
    BY <1>1, <1>6, <2>1 DEF Inv, FlightInv, NumberTypes
<1>8. (1 \in S => f[1] = b) /\ (1 \notin S => b = 0)
  BY <1>3, <1>4, <1>5, <1>6 DEF Brings
<1>9. S \subseteq {1, 2} /\ DOMAIN f = S /\ 2 \notin S /\ 0 \in Int
  BY <1>4, <1>5
<1>10. SumFunction(f) = b + 0
  <2>1. /\ DOMAIN f \subseteq {1, 2}
        /\ IF 1 \in DOMAIN f THEN f[1] = b ELSE b = 0
        /\ IF 2 \in DOMAIN f THEN f[2] = 0 ELSE 0 = 0
    BY <1>8, <1>9
  <2> QED
    BY <1>7, <1>9, <2>1, FreshSum
<1>11. batch_queue[i][r].start = num_tokens[r] + b
  <2>1. OpenInv(r)
    BY <1>1 DEF Inv, FlightInv, ReqInv
  <2>2. CASE i = 1
    BY <1>1, <1>3, <1>6, <1>7, <2>1, <2>2 DEF OpenInv
  <2>3. CASE i = 2
    BY <1>1, <1>3, <1>6, <2>1, <2>3 DEF OpenInv
  <2> QED
    BY <1>3, <2>2, <2>3
<1> QED
  BY <1>2, <1>5, <1>7, <1>10, <1>11

\* The invariant gives StepsAreNeeded: while a batch is built at most one is in flight, and a
\* request with an output in it is decoding, so that ReachesMaxTokens compares its length.
LEMMA InvNeeded ==
  ASSUME Inv, Regular
  PROVE  StepsAreNeeded
<1>1. QueueInv /\ FlightInv /\ NumberTypes /\ \A x \in Requests : ReqInv(x)
  BY DEF Inv, FlightInv
<1>2. ASSUME NEW r, r = running[index], Scanning, Schedulable(r)
      PROVE  /\ num_new_tokens(r) > 0
             /\ num_tokens[r] + Cardinality({i \in Fresh(r) : batch_queue[i][r].sampled > 0})
                  < PromptLen[r] + MaxTokens[r]
  <2>1. /\ r \in Requests /\ status[r] = "running" /\ admitted = {}
        /\ num_new_tokens(r) \in Nat \ {0}
    BY <1>2, PlannedStep
  <2>2. PICK S : S = {i \in Fresh(r) : batch_queue[i][r].sampled > 0}
    OBVIOUS
  <2>3. Len(batch_queue) \in 0 .. 1
    <3>1. Len(batch_queue) < BatchQueueSize /\ Len(batch_queue) \in 0 .. 2
      BY <1>1, <1>2, Shares DEF Scanning, FlightInv, FramesOK
    <3>2. PICK n \in 0 .. 2 : n = Len(batch_queue)
      BY <3>1
    <3>3. n < 2
      BY <3>1, <3>2, SchedulerAssumption DEF Regular
    <3> QED
      BY <3>2, <3>3
  <2>4. ~ Live(2, r) /\ Fresh(r) \subseteq {1, 2} /\ (1 \in Fresh(r) <=> Live(1, r))
        /\ (2 \in Fresh(r) <=> Live(2, r))
    <3>1. ~ Live(2, r)
      BY <2>3 DEF Live, At
    <3> QED
      BY <1>1, <3>1, FreshAre
  <2>5. S \subseteq {1} /\ (1 \in S <=> Live(1, r) /\ batch_queue[1][r].sampled > 0)
    BY <2>2, <2>4
  <2>6. PICK nt, c, p, m : /\ nt = num_tokens[r] /\ c = num_computed_tokens[r]
                           /\ p = num_output_placeholders[r]
                           /\ m = PromptLen[r] + MaxTokens[r]
    OBVIOUS
  <2>7. nt \in Nat /\ c \in Nat /\ p \in Nat /\ m \in Nat
    BY <1>1, <2>1, <2>6, SchedulerAssumption DEF NumberTypes
  <2>8. nt < m
    <3>1. nt < LengthCap(r)
      BY <1>1, <2>1, <2>6 DEF ReqInv, OpenInv
    <3> QED
      BY <2>6, <2>7, <3>1, SchedulerAssumption DEF LengthCap, MinOf
  <2>9. CASE S = {}
    <3>1. Cardinality(S) = 0
      BY <2>9, FS_EmptySet
    <3> QED
      BY <2>1, <2>2, <2>6, <2>7, <2>8, <3>1
  <2>10. CASE S = {1}
    <3>1. Cardinality(S) = 1
      BY <2>10, FS_Singleton
    <3>2. Live(1, r) /\ batch_queue[1][r].sampled > 0
      BY <2>5, <2>10
    <3>3. Owes(1, r) # 0 /\ Owes(1, r) \in Nat /\ Owes(2, r) \in Nat
      <4>1. Brings(1, r) = batch_queue[1][r].sampled
        BY <3>2 DEF Brings, Sampled
      <4>2. Brings(1, r) \in Nat /\ (Owes(1, r) = 0 <=> Brings(1, r) = 0)
            /\ Owes(1, r) \in Nat /\ Owes(2, r) \in Nat
        BY <1>1, Shares
      <4> QED
        BY <3>2, <4>1, <4>2
    <3>4. p > 0
      <4>1. p = Owes(1, r) + Owes(2, r)
        BY <1>1, <2>1, <2>6 DEF ReqInv, OpenInv
      <4> QED
        BY <3>3, <4>1
    <3>5. Decoding(r)
      BY <1>1, <2>1, <3>3 DEF ReqInv, ActiveInv, Prefilling
    <3>6. nt + p = c + 1
      BY <2>6, <3>5 DEF Decoding
    <3>7. ~ (c + 2 - p >= m)
      BY <1>2, <2>6, <3>4 DEF Schedulable, ReachesMaxTokens
    <3>8. nt + 1 < m
      BY <2>7, <3>6, <3>7
    <3> QED
      BY <2>1, <2>2, <2>6, <3>1, <3>8
  <2> QED
    BY <2>5, <2>9, <2>10
<1>3. \A r \in Unfinished : num_tokens[r] < LengthCap(r)
  BY <1>1 DEF Unfinished, ReqInv, OpenInv
<1>4. ASSUME NEW r \in ToSet(running)
      PROVE  num_computed_tokens[r] < MaxModelLen
  <2>1. r \in Requests /\ status[r] = "running"
    BY <1>1 DEF QueueInv, QueuesMatchStatus
  <2>2. CASE r \notin admitted
    BY <1>1, <2>1, <2>2 DEF ReqInv, ActiveInv
  <2>3. CASE r \in admitted
    <3>1. r \in DOMAIN batch
      BY <1>1, <2>3 DEF QueueInv, BatchPlaces
    <3>2. num_computed_tokens[r] + batch[r].new < MaxModelLen /\ batch[r].new \in Nat
          /\ num_computed_tokens[r] \in Nat
      BY <1>1, <2>1, <3>1 DEF ReqInv, BatchInv, NumberTypes
    <3> QED
      BY <3>2, SchedulerAssumption
  <2> QED
    BY <2>2, <2>3
<1> QED
  BY <1>2, <1>3, <1>4 DEF StepsAreNeeded

\* The invariant gives SlotsCoverComputed.
LEMMA InvSlots ==
  ASSUME Inv, BlocksInv
  PROVE  SlotsCoverComputed
<1>1. FreeBlocks >= 0
  <2>1. \A x \in Requests : num_blocks[x] \in Int
    BY DEF BlocksInv
  <2>2. SumFunctionOnSet(num_blocks, Requests) \in Int
    BY <2>1, SumMonotone, SchedulerAssumption
  <2> QED
    BY <2>2, SchedulerAssumption DEF FreeBlocks, BlocksInv, Held
<1>2. ASSUME NEW r \in ToSet(running)
      PROVE  MinOf(num_computed_tokens[r] + NumSpecTokens
                     + (IF r \in DOMAIN batch THEN batch[r].new ELSE 0), MaxModelLen)
               <= num_blocks[r] * BlockSize
  <2>1. r \in Requests /\ status[r] = "running"
    BY DEF Inv, QueueInv, QueuesMatchStatus
  <2>2. PICK c, n, s : /\ c = num_computed_tokens[r] /\ s = NumSpecTokens
                       /\ n = (IF r \in DOMAIN batch THEN batch[r].new ELSE 0)
    OBVIOUS
  <2>3. c \in Nat /\ s \in Nat
    BY <2>1, <2>2, ConfigTypes DEF Inv, FlightInv, NumberTypes
  <2>4. n \in Nat
    BY <2>1, <2>2 DEF Inv, FlightInv, ReqInv, BatchInv
  <2>5. Need(r) = c + n
    BY <2>2 DEF Need
  <2>6. MinOf(Need(r) + s, MaxModelLen) <= num_blocks[r] * BlockSize
    BY <2>1, <2>2 DEF BlocksInv, Covered
  <2>7. Need(r) + s = c + s + n
    BY <2>3, <2>4, <2>5
  <2> QED
    BY <2>2, <2>6, <2>7
<1> QED
  BY <1>1, <1>2 DEF SlotsCoverComputed

\* No request holds more blocks than there are.
LEMMA BlocksBounded ==
  ASSUME BlocksInv, NEW r \in Requests
  PROVE  num_blocks[r] \in 0 .. NumBlocks
<1>1. PICK f, g : f = num_blocks /\ g = [num_blocks EXCEPT ![r] = 0]
  OBVIOUS
<1>2. f \in [Requests -> Nat] /\ g \in [Requests -> Nat] /\ g[r] = 0
      /\ \A x \in Requests : x # r => g[x] = f[x]
  BY <1>1 DEF BlocksInv
<1>3. PICK z : z = [x \in Requests |-> 0]
  OBVIOUS
<1>4. PICK F, G : F = SumFunctionOnSet(f, Requests) /\ G = SumFunctionOnSet(g, Requests)
  OBVIOUS
<1>5. SumFunctionOnSet(z, Requests) = 0
  <2>1. \A x \in Requests : z[x] = 0
    BY <1>3
  <2> QED
    BY <2>1, SumOfZeros, SchedulerAssumption
<1>6. SumFunctionOnSet(z, Requests) <= G /\ G \in Int
  <2>1. \A x \in Requests : g[x] \in Int /\ z[x] \in Int /\ z[x] <= g[x]
    BY <1>2, <1>3
  <2> QED
    BY <1>4, <2>1, SumMonotone, SchedulerAssumption
<1>7. F \in Int /\ G = F + (0 - f[r])
  <2>1. 0 \in Int /\ \A x \in Requests : f[x] \in Int
    BY <1>2
  <2> QED
    BY <1>2, <1>4, <2>1, SumOfOneMore, SchedulerAssumption
<1>8. F <= NumBlocks /\ NumBlocks \in Nat /\ f[r] \in Nat
  BY <1>1, <1>2, <1>4, SchedulerAssumption DEF BlocksInv, Held
<1>9. f[r] \in 0 .. NumBlocks
  BY <1>5, <1>6, <1>7, <1>8
<1> QED
  BY <1>1, <1>9

\* The invariant gives the types.
LEMMA InvTypes ==
  ASSUME Inv, Regular, BlocksInv
  PROVE  TypeOK
<1>1. QueueInv /\ QueueTypes /\ QueuesMatchStatus /\ BatchPlaces /\ FlightInv /\ NumberTypes
      /\ FramesOK /\ \A r \in Requests : ReqInv(r)
  BY DEF Inv, QueueInv, FlightInv
<1>2. /\ NumSpecTokens \in Nat /\ TokenBudget \in Nat \ {0} /\ MaxModelLen \in Nat
      /\ config.max_resets \in Nat
  BY <1>1, ConfigTypes
<1>3. /\ config \in Configs
      /\ status \in [Requests -> {"new", "waiting", "preempted", "running", "finished"}]
      /\ running \in Seq(Requests) /\ waiting \in Seq(Requests)
  BY <1>1 DEF QueueTypes, Statuses
<1>4. /\ num_tokens \in [Requests -> 1 .. MaxModelLen]
      /\ num_computed_tokens \in [Requests -> 0 .. MaxModelLen]
      /\ num_output_placeholders \in [Requests -> Nat]
      /\ spec_tokens \in [Requests -> 0 .. NumSpecTokens]
      /\ async_tokens_to_discard \in [Requests -> Nat]
      /\ is_prefill_chunk \in [Requests -> BOOLEAN]
  <2>1. \A r \in Requests : Bounds(r)
    BY <1>1 DEF ReqInv
  <2>2. /\ num_tokens \in [Requests -> Nat] /\ num_computed_tokens \in [Requests -> Nat]
        /\ num_output_placeholders \in [Requests -> Nat] /\ spec_tokens \in [Requests -> Nat]
        /\ async_tokens_to_discard \in [Requests -> Nat]
        /\ is_prefill_chunk \in [Requests -> BOOLEAN]
    BY <1>1 DEF NumberTypes
  <2>3. ASSUME NEW r \in Requests
        PROVE  /\ num_tokens[r] \in 1 .. MaxModelLen
               /\ num_computed_tokens[r] \in 0 .. MaxModelLen
               /\ spec_tokens[r] \in 0 .. NumSpecTokens
    BY <1>2, <2>1, <2>2 DEF Bounds
  <2> QED
    BY <2>2, <2>3
<1>5. num_blocks \in [Requests -> 0 .. NumBlocks]
  BY BlocksBounded DEF BlocksInv
<1>6. finished_req_ids \subseteq Requests /\ preempted \subseteq Requests
      /\ admitted \subseteq DOMAIN batch /\ phase \in {"idle", "running", "waiting", "dispatch"}
  BY <1>1 DEF BatchPlaces
<1>7. Len(batch_queue) <= BatchQueueSize
  BY <1>1 DEF FramesOK
<1>8. ASSUME NEW f \in ToSet(batch_queue)
      PROVE  DOMAIN f \subseteq Requests /\ Range(f) \subseteq Entry
  <2>1. batch_queue \in Seq(Frames)
    BY <1>1 DEF FramesOK
  <2>2. PICK i \in 1 .. Len(batch_queue) : f = batch_queue[i]
    BY <2>1, InToSet
  <2>3. f \in Frames
    BY <2>1, <2>2
  <2>4. DOMAIN f \subseteq Requests /\ \A r \in DOMAIN f : f[r] \in Share
    BY <2>3, FramesAre
  <2>5. ASSUME NEW r \in DOMAIN f
        PROVE  f[r] \in Entry
    <3>1. ShareOK(i, f[r])
      BY <1>1, <2>2 DEF FramesOK
    <3>2. PICK e : e = f[r]
      OBVIOUS
    <3>3. e \in Share /\ ShareOK(i, e)
      BY <2>4, <3>1, <3>2
    <3>4. /\ e.new \in 1 .. TokenBudget /\ e.drafts \in 0 .. NumSpecTokens
          /\ e.start \in 0 .. MaxModelLen + NumSpecTokens + 1
          /\ e.sampled \in 0 .. NumSpecTokens + 1 /\ e.decode \in BOOLEAN /\ e.stale \in BOOLEAN
      BY <1>2, <3>3 DEF Share, ShareOK
    <3>5. e = [new |-> e.new, drafts |-> e.drafts, start |-> e.start, sampled |-> e.sampled,
               decode |-> e.decode, stale |-> e.stale]
      BY <3>3 DEF Share
    <3>6. e \in Entry
      BY <3>4, <3>5 DEF Entry
    <3> QED
      BY <3>2, <3>6
  <2>6. Range(f) \subseteq Entry
    BY <2>5, Zenon DEF Range
  <2> QED
    BY <2>4, <2>6
<1>9. index \in 1 .. Cardinality(Requests) + 1
  <2>1. IsInjective(running) /\ running \in Seq(Requests) /\ ToSet(running) \subseteq Requests
    BY <1>1 DEF QueueTypes, QueuesMatchStatus
  <2>2. IsFiniteSet(ToSet(running)) /\ Cardinality(ToSet(running)) = Len(running)
    BY <2>1, InjectiveLength
  <2>3. Cardinality(ToSet(running)) <= Cardinality(Requests) /\ Cardinality(Requests) \in Nat
    BY <2>1, FS_Subset, FS_CardinalityType, SchedulerAssumption
  <2>4. index \in Nat \ {0} /\ index <= Len(running) + 1 /\ Len(running) \in Nat
    BY <1>1, <2>1 DEF BatchPlaces
  <2>5. PICK n, m : n = Len(running) /\ m = Cardinality(Requests)
    OBVIOUS
  <2>6. n \in Nat /\ m \in Nat /\ n <= m /\ index <= n + 1
    BY <2>2, <2>3, <2>4, <2>5
  <2>7. index \in 1 .. m + 1
    BY <2>4, <2>6
  <2> QED
    BY <2>5, <2>7
<1>10. budget \in 0 .. TokenBudget /\ resets \in 0 .. config.max_resets
  BY <1>1, <1>2 DEF NumberTypes
<1> QED
  BY <1>3, <1>4, <1>5, <1>6, <1>7, <1>8, <1>9, <1>10, Zenon DEF TypeOK

\* An output that returns is delivered if its frame is live, and dropped if it is stale;
\* no other step takes a frame from the queue.
LEMMA StepDelivers ==
  ASSUME Inv, Regular, [Next]_vars, batch_queue # << >>, batch_queue' = Tail(batch_queue),
         NEW r \in Unfinished \cap DOMAIN Frame, Frame[r].sampled > 0
  PROVE  (num_tokens'[r] > num_tokens[r]) = ~ Frame[r].stale
<1>1. QueueInv /\ FlightInv /\ NumberTypes /\ batch_queue \in Seq(Frames)
  BY DEF Inv, FlightInv, FramesOK
<1>2. Len(batch_queue) \in Nat \ {0} /\ Len(batch_queue') = Len(batch_queue) - 1
  BY <1>1
<1>3. batch_queue' # batch_queue /\ Len(batch_queue') # Len(batch_queue)
      /\ Len(batch_queue') # Len(batch_queue) + 1
  <2>1. PICK n, m : n = Len(batch_queue) /\ m = Len(batch_queue')
    OBVIOUS
  <2>2. n \in Nat /\ m = n - 1
    BY <1>2, <2>1
  <2>3. m # n /\ m # n + 1
    BY <2>2
  <2> QED
    BY <2>1, <2>3
<1>4. ASSUME reset_prefix_cache
      PROVE  FALSE
  <2>1. DOMAIN batch_queue' = DOMAIN batch_queue
    BY <1>4 DEF reset_prefix_cache
  <2>2. batch_queue' \in Seq(Frames)
    BY <1>1, <1>2
  <2>3. PICK n, m : n = Len(batch_queue) /\ m = Len(batch_queue')
    OBVIOUS
  <2>4. n \in Nat \ {0} /\ m = n - 1
    BY <1>2, <2>3
  <2>5. DOMAIN batch_queue = 1 .. n /\ DOMAIN batch_queue' = 1 .. m
    BY <1>1, <2>2, <2>3
  <2>6. n \in 1 .. n /\ n \notin 1 .. m
    BY <2>4
  <2> QED
    BY <2>1, <2>5, <2>6
<1>5. ASSUME NEW accepted, Dispatch(accepted)
      PROVE  FALSE
  <2>1. PICK e : batch_queue' = Append(batch_queue, e)
    BY <1>5 DEF Dispatch
  <2>2. Len(Append(batch_queue, e)) = Len(batch_queue) + 1
    BY <1>1
  <2> QED
    BY <1>3, <2>1, <2>2
<1>6. PICK stopAt, counts : OutputCounts(counts) /\ update_from_output(stopAt, counts)
  <2>1. CASE ProcessOutput
    BY <2>1, Zenon DEF ProcessOutput, OutputCounts
  <2>2. CASE UNCHANGED vars
    BY <1>3, <2>2 DEF vars
  <2>3. CASE Next /\ ~ ProcessOutput
    <3>1. CASE \E x \in Requests : add_request(x) \/ abort_request(x)
      BY <1>3, <3>1 DEF add_request, abort_request
    <3>2. CASE reset_prefix_cache
      BY <1>4, <3>2
    <3>3. CASE Schedule
      <4>1. CASE \E accepted \in [DOMAIN batch -> 0 .. NumSpecTokens] : Dispatch(accepted)
        BY <1>5, <4>1, Zenon
      <4>2. CASE \/ StartSchedule \/ SkipRunning \/ ScheduleRunning \/ PreemptLast \/ EndRunning
                 \/ EndWaiting
        BY <1>3, <4>2 DEF StartSchedule, SkipRunning, ScheduleRunning, PreemptLast, EndRunning,
                          EndWaiting
      <4>3. CASE \E hit \in 0 .. MaxModelLen \div BlockSize : ScheduleWaiting(hit)
        BY <1>3, <4>3, Zenon DEF ScheduleWaiting
      <4> QED
        BY <3>3, <4>1, <4>2, <4>3, Zenon DEF Schedule
    <3> QED
      BY <2>3, <3>1, <3>2, <3>3, Zenon DEF Next
  <2> QED
    BY <2>1, <2>2, <2>3, Zenon
<1>7. /\ phase = "idle" /\ UNCHANGED <<config, phase>>
  BY <1>6, OutputSteps
<1>8. r \in Requests /\ status[r] \in {"waiting", "preempted", "running"} /\ r \in DOMAIN Frame
      /\ r \in Unfinished
  BY DEF Unfinished
<1>9. At(1, r) /\ Frame = batch_queue[1]
  BY <1>7, <1>8, OutputFrames
<1>10. Updated(r, stopAt[r])
  BY <1>6, <1>8, OutputSteps, Zenon
<1>11. PICK x, nt, b : x = Kept(r, stopAt[r]) /\ nt = num_tokens[r] /\ b = Brings(1, r)
  OBVIOUS
<1>12. nt \in Nat /\ b \in Nat /\ num_tokens'[r] = nt + x
  BY <1>1, <1>8, <1>10, <1>11, Shares DEF NumberTypes, Updated
<1>13. x \in Nat /\ x <= b /\ (b > 0 => x > 0)
  <2>1. Delivered(r) = b
    BY <1>8, <1>9, <1>11, HeadShare
  <2>2. PromptLen[r] <= nt /\ nt < LengthCap(r)
    BY <1>8, <1>11 DEF Inv, FlightInv, ReqInv, OpenInv
  <2> QED
    BY <1>8, <1>11, <1>12, <2>1, <2>2, KeptTokens
<1>14. num_tokens'[r] > nt <=> b > 0
  BY <1>12, <1>13
<1>15. b > 0 <=> ~ Frame[r].stale
  <2>1. b = IF Live(1, r) THEN Frame[r].sampled ELSE 0
    BY <1>9, <1>11 DEF Brings, Sampled
  <2>2. Live(1, r) <=> ~ Frame[r].stale
    BY <1>9 DEF Live
  <2> QED
    BY <2>1, <2>2
<1>16. Frame[r].stale \in BOOLEAN
  <2>1. batch_queue[1][r] \in Share
    BY <1>1, <1>9, Shares
  <2> QED
    BY <1>9, <2>1 DEF Share
<1>17. PICK k \in BOOLEAN : k = Frame[r].stale
  BY <1>16
<1>18. (num_tokens'[r] > num_tokens[r]) <=> ~ k
  BY <1>11, <1>14, <1>15, <1>17
<1> QED
  BY <1>17, <1>18
-----------------------------------------------------------------------------
(* The theorems.  Regular speaks of the constants and of the               *)
(* configuration, which no step changes: it is a premise on the initial    *)
(* state.                                                                  *)

AllInv == Inv /\ BlocksInv /\ Regular

\* The three invariants hold throughout.
LEMMA AllInvIsInvariant == Spec /\ Regular => []AllInv
<1>1. Init /\ Regular => AllInv
  BY InitQueue, InitFlight, InitBlocks DEF AllInv, Inv
<1>2. AllInv /\ [Next]_vars => AllInv'
  <2> SUFFICES ASSUME AllInv, [Next]_vars
               PROVE  AllInv'
    OBVIOUS
  <2>1. Inv /\ BlocksInv /\ Regular /\ QueueInv
    BY DEF AllInv, Inv
  <2>2. Regular'
    BY <2>1, SameConfig DEF Regular
  <2>3. QueueInv' /\ FlightInv' /\ BlocksInv'
    BY <2>1, StepQueue, StepFlight, StepBlocks
  <2> QED
    BY <2>2, <2>3 DEF AllInv, Inv
<1> QED
  BY <1>1, <1>2, PTL DEF Spec

\* BookkeepingAlwaysExact: queues, placeholders, slots and types of scheduler.py and
\* async_scheduler.py agree in every state, for all numbers of requests, blocks, tokens and drafts.
THEOREM BookkeepingAlwaysExact == Spec /\ Regular => []BookkeepingExact
<1>1. AllInv => BookkeepingExact
  BY InvTypes, InvPlaceholders, InvSlots DEF AllInv, Inv, QueueInv, BookkeepingExact
<1> QED
  BY <1>1, AllInvIsInvariant, PTL

\* WorkerAlwaysAgrees: the worker's num_computed and total_len are those of the scheduler once the
\* frames in flight are accounted for; without the confidence schedule, drafts are verified only
\* behind a token the worker sampled.
THEOREM WorkerAlwaysAgrees ==
  Spec /\ Regular => [](CountsAgree /\ (~ config.confidence => WorkerAgrees))
<1>1. AllInv => CountsAgree /\ (~ config.confidence => WorkerAgrees)
  BY InvCounts, InvDrafts DEF AllInv, WorkerAgrees
<1> QED
  BY <1>1, AllInvIsInvariant, PTL

\* OutputsAlwaysContinue: every output in flight that will be delivered was sampled for the
\* positions right behind the tokens its request will have then.
THEOREM OutputsAlwaysContinue == Spec /\ Regular => []OutputsContinue
<1>1. AllInv => OutputsContinue
  BY InvContinues DEF AllInv
<1> QED
  BY <1>1, AllInvIsInvariant, PTL

\* StepsAlwaysNeeded: schedule() plans only steps with tokens to compute, below max_model_len, for
\* requests that the outputs in flight do not end.
THEOREM StepsAlwaysNeeded == Spec /\ Regular => []StepsAreNeeded
<1>1. AllInv => StepsAreNeeded
  BY InvNeeded DEF AllInv
<1> QED
  BY <1>1, AllInvIsInvariant, PTL

\* FramesAlwaysDeliveredOrDropped: update_from_output appends the tokens of an output unless a
\* reset_prefix_cache preempted its request meanwhile, and then drops all of them.
THEOREM FramesAlwaysDeliveredOrDropped == Spec /\ Regular => FramesDeliveredOrDropped
<1> DEFINE Delivers ==
      batch_queue # << >> /\ batch_queue' = Tail(batch_queue) =>
        \A r \in Unfinished \cap DOMAIN Frame :
          Frame[r].sampled > 0 => (num_tokens'[r] > num_tokens[r]) = ~ Frame[r].stale
<1>1. AllInv /\ [Next]_vars => Delivers
  BY StepDelivers DEF AllInv
<1>2. AllInv /\ [Next]_vars => [Delivers]_vars
  BY <1>1
<1> HIDE DEF Delivers
<1>3. Spec /\ Regular => [][Delivers]_vars
  BY <1>2, AllInvIsInvariant, PTL DEF Spec
<1> QED
  BY <1>3, PTL DEF FramesDeliveredOrDropped, Delivers
=============================================================================
