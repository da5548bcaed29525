-------------------------- MODULE SeqFilterProofs --------------------------
(***************************************************************************)
(* What Keep computes, for every sequence and set: the kept elements and   *)
(* no others, none of them twice when the sequence had none twice.  Facts  *)
(* that need induction are proved from a least counterexample.             *)
(***************************************************************************)
EXTENDS SeqFilter, SequencesExt, FiniteSetsExt, Functions, SequenceTheorems,
        FiniteSetTheorems, WellFoundedInduction, TLAPS

\* A set of naturals that is not empty has a least element.
LEMMA LeastNumber ==
  ASSUME NEW T, T \subseteq Nat, T # {}
  PROVE  \E m \in T : \A k \in T : m <= k
<1>1. PICK m \in T : \A k \in T : ~ (<<k, m>> \in OpToRel(<, Nat))
  BY WFMin, NatLessThanWellFounded
<1>2. ASSUME NEW k \in T
      PROVE  m <= k
  <2>1. <<k, m>> \in OpToRel(<, Nat) <=> k < m
    BY DEF OpToRel
  <2>2. ~ (k < m)
    BY <1>1, <2>1, Zenon
  <2> QED
    BY <2>2
<1> QED
  BY <1>2

\* Where every element of a set of naturals is at most n, the set has a greatest element,
\* and Max is that element.
LEMMA MaxOfNumbers ==
  ASSUME NEW n \in Nat, NEW T, T \subseteq 0 .. n, T # {}
  PROVE  Max(T) \in T /\ \A k \in T : Max(T) >= k
<1> DEFINE U == {n - k : k \in T}
<1>1. \A k \in T : k \in Nat /\ n - k \in Nat
  OBVIOUS
<1>2. U \subseteq Nat /\ U # {}
  BY <1>1, Zenon
<1>3. PICK u \in U : \A v \in U : u <= v
  BY <1>2, LeastNumber, Zenon
<1>4. PICK m \in T : u = n - m
  BY <1>3, Zenon
<1>5. ASSUME NEW k \in T
      PROVE  m >= k
  <2>1. n - k \in U
    OBVIOUS
  <2>2. n - m <= n - k
    BY <1>3, <1>4, <2>1, Zenon
  <2> QED
    BY <1>1, <2>2
<1> QED
  BY <1>4, <1>5 DEF Max

\* Min of a set of naturals that is not empty.
LEMMA MinOfNumbers ==
  ASSUME NEW T, T \subseteq Nat, T # {}
  PROVE  Min(T) \in T /\ \A k \in T : Min(T) <= k
<1>1. \E m \in T : \A k \in T : m <= k
  BY LeastNumber
<1> QED
  BY <1>1 DEF Min

\* The larger of two numbers.
LEMMA MaxOfTwo ==
  ASSUME NEW a \in Int, NEW b \in Int
  PROVE  Max({a, b}) = IF a >= b THEN a ELSE b
<1>1. \E x \in {a, b} : \A y \in {a, b} : x >= y
  OBVIOUS
<1>2. Max({a, b}) \in {a, b} /\ \A y \in {a, b} : Max({a, b}) >= y
  BY <1>1 DEF Max
<1> QED
  BY <1>2

\* The smaller of two numbers.
LEMMA MinOfTwo ==
  ASSUME NEW a \in Int, NEW b \in Int
  PROVE  Min({a, b}) = IF a <= b THEN a ELSE b
<1>1. \E x \in {a, b} : \A y \in {a, b} : x <= y
  OBVIOUS
<1>2. Min({a, b}) \in {a, b} /\ \A y \in {a, b} : Min({a, b}) <= y
  BY <1>1 DEF Min
<1> QED
  BY <1>2

\* F is the function that Keep builds for the first n elements.
Stage(F, s, S, n) ==
  F = [i \in 0 .. n |-> IF i = 0 THEN << >>
                        ELSE IF s[i] \in S THEN Append(F[i - 1], s[i]) ELSE F[i - 1]]

\* The recursion has a solution.
LEMMA StagesExist ==
  ASSUME NEW s, NEW S, NEW n \in Nat
  PROVE  \E F : Stage(F, s, S, n)
<1> DEFINE Bad == {k \in Nat : ~ \E F : Stage(F, s, S, k)}
<1>1. SUFFICES ASSUME Bad # {}
               PROVE  FALSE
  OBVIOUS
<1>2. PICK m \in Bad : \A k \in Bad : m <= k
  BY <1>1, LeastNumber
<1>3. m \in Nat /\ ~ \E F : Stage(F, s, S, m)
  OBVIOUS
<1>4. m # 0
  <2>1. Stage([i \in 0 .. 0 |-> << >>], s, S, 0)
    BY DEF Stage
  <2> QED
    BY <1>3, <2>1
<1>5. m - 1 \in Nat /\ m - 1 \notin Bad
  BY <1>2, <1>3, <1>4
<1>6. PICK F : Stage(F, s, S, m - 1)
  BY <1>5
<1> DEFINE x == IF s[m] \in S THEN Append(F[m - 1], s[m]) ELSE F[m - 1]
           G == [i \in 0 .. m |-> IF i = m THEN x ELSE F[i]]
<1> HIDE DEF x
<1>7. ASSUME NEW i \in 0 .. m
      PROVE  G[i] = IF i = 0 THEN << >>
                    ELSE IF s[i] \in S THEN Append(G[i - 1], s[i]) ELSE G[i - 1]
  <2>1. CASE i = m
    <3>1. G[i] = x /\ G[i - 1] = F[m - 1]
      BY <1>3, <1>4, <2>1
    <3> QED
      BY <1>4, <2>1, <3>1 DEF x
  <2>2. CASE i # m
    <3>1. i \in 0 .. m - 1 /\ G[i] = F[i]
      BY <1>3, <2>2
    <3>2. i # 0 => G[i - 1] = F[i - 1]
      BY <1>3, <2>2
    <3>3. F[i] = IF i = 0 THEN << >>
                 ELSE IF s[i] \in S THEN Append(F[i - 1], s[i]) ELSE F[i - 1]
      BY <1>6, <3>1 DEF Stage
    <3> QED
      BY <3>1, <3>2, <3>3
  <2> QED
    BY <2>1, <2>2
<1>8. Stage(G, s, S, m)
  BY <1>7 DEF Stage
<1> QED
  BY <1>3, <1>8

\* The function that Keep builds: the kept elements of every prefix of s.
Stages(s, S) == CHOOSE F : Stage(F, s, S, Len(s))

\* Keep unfolds to its stages.
LEMMA KeepStages ==
  ASSUME NEW T, NEW s \in Seq(T), NEW S
  PROVE  /\ Keep(s, S) = Stages(s, S)[Len(s)]
         /\ Stages(s, S)[0] = << >>
         /\ \A i \in 1 .. Len(s) : Stages(s, S)[i] =
              IF s[i] \in S THEN Append(Stages(s, S)[i - 1], s[i]) ELSE Stages(s, S)[i - 1]
<1>0. Len(s) \in Nat
  BY LenProperties
<1>1. Stage(Stages(s, S), s, S, Len(s))
  BY <1>0, StagesExist DEF Stages
<1>2. Keep(s, S) = Stages(s, S)[Len(s)]
  BY DEF Keep, Stages, Stage
<1>3. Stages(s, S)[0] = << >>
  BY <1>0, <1>1 DEF Stage
<1>4. ASSUME NEW i \in 1 .. Len(s)
      PROVE  Stages(s, S)[i] =
               IF s[i] \in S THEN Append(Stages(s, S)[i - 1], s[i]) ELSE Stages(s, S)[i - 1]
  <2>1. PICK F : F = Stages(s, S)
    OBVIOUS
  <2>2. i \in 0 .. Len(s) /\ i # 0
    BY <1>0
  <2>3. F = [k \in 0 .. Len(s) |-> IF k = 0 THEN << >>
                ELSE IF s[k] \in S THEN Append(F[k - 1], s[k]) ELSE F[k - 1]]
    BY <1>1, <2>1 DEF Stage
  <2>4. F[i] = IF s[i] \in S THEN Append(F[i - 1], s[i]) ELSE F[i - 1]
    BY <2>2, <2>3
  <2> QED
    BY <2>1, <2>4
<1> QED
  BY <1>2, <1>3, <1>4

\* The stages of the filter: sequences of kept elements of s, in every prefix.
StageOK(s, S, T, i) ==
  /\ Stages(s, S)[i] \in Seq(T)
  /\ ToSet(Stages(s, S)[i]) = {s[k] : k \in 1 .. i} \cap S
  /\ IsInjective(s) => IsInjective(Stages(s, S)[i])

\* Appending one element adds that element.
LEMMA AppendToSet ==
  ASSUME NEW T, NEW s \in Seq(T), NEW x \in T
  PROVE  /\ Append(s, x) \in Seq(T)
         /\ ToSet(Append(s, x)) = ToSet(s) \cup {x}
         /\ IsInjective(s) /\ x \notin ToSet(s) => IsInjective(Append(s, x))
<1>1. /\ Append(s, x) \in Seq(T)
      /\ Len(Append(s, x)) = Len(s) + 1
      /\ DOMAIN Append(s, x) = 1 .. Len(s) + 1
      /\ \A i \in 1 .. Len(s) : Append(s, x)[i] = s[i]
      /\ Append(s, x)[Len(s) + 1] = x
  OBVIOUS
<1>2. Len(s) \in Nat /\ DOMAIN s = 1 .. Len(s)
  OBVIOUS
<1>3. ToSet(Append(s, x)) = ToSet(s) \cup {x}
  <2>1. ASSUME NEW y \in ToSet(Append(s, x))
        PROVE  y \in ToSet(s) \cup {x}
    <3>1. PICK i \in 1 .. Len(s) + 1 : y = Append(s, x)[i]
      BY <1>1 DEF ToSet
    <3>2. CASE i = Len(s) + 1
      BY <1>1, <3>1, <3>2
    <3>3. CASE i \in 1 .. Len(s)
      BY <1>1, <1>2, <3>1, <3>3 DEF ToSet
    <3> QED
      BY <1>2, <3>2, <3>3
  <2>2. ASSUME NEW y \in ToSet(s)
        PROVE  y \in ToSet(Append(s, x))
    <3>1. PICK i \in 1 .. Len(s) : y = s[i]
      BY <1>2 DEF ToSet
    <3>2. i \in 1 .. Len(s) + 1 /\ y = Append(s, x)[i]
      BY <1>1, <1>2, <3>1
    <3> QED
      BY <1>1, <3>2 DEF ToSet
  <2>3. x \in ToSet(Append(s, x))
    <3>1. Len(s) + 1 \in 1 .. Len(s) + 1
      BY <1>2
    <3> QED
      BY <1>1, <3>1 DEF ToSet
  <2> QED
    BY <2>1, <2>2, <2>3
<1>4. ASSUME IsInjective(s), x \notin ToSet(s)
      PROVE  IsInjective(Append(s, x))
  <2>1. SUFFICES ASSUME NEW i \in 1 .. Len(s) + 1, NEW j \in 1 .. Len(s) + 1,
                        Append(s, x)[i] = Append(s, x)[j]
                 PROVE  i = j
    BY <1>1 DEF IsInjective
  <2>2. \A k \in 1 .. Len(s) : s[k] # x
    BY <1>2, <1>4 DEF ToSet
  <2>3. \A k, l \in 1 .. Len(s) : s[k] = s[l] => k = l
    BY <1>2, <1>4 DEF IsInjective
  <2> QED
    BY <1>1, <1>2, <2>1, <2>2, <2>3
<1> QED
  BY <1>1, <1>3, <1>4

\* Every stage of the filter is as it should be.
LEMMA StagesOK ==
  ASSUME NEW T, NEW s \in Seq(T), NEW S, NEW n \in 0 .. Len(s)
  PROVE  StageOK(s, S, T, n)
<1> DEFINE Bad == {k \in 0 .. Len(s) : ~ StageOK(s, S, T, k)}
<1>0. Len(s) \in Nat /\ DOMAIN s = 1 .. Len(s)
  OBVIOUS
<1>1. SUFFICES ASSUME Bad # {}
               PROVE  FALSE
  OBVIOUS
<1>2. Bad \subseteq Nat
  BY <1>0
<1>3. PICK m \in Bad : \A k \in Bad : m <= k
  BY <1>1, <1>2, LeastNumber
<1>4. m \in 0 .. Len(s) /\ ~ StageOK(s, S, T, m)
  OBVIOUS
<1> HIDE DEF Bad
<1>5. m # 0
  <2>1. Stages(s, S)[0] = << >>
    BY KeepStages
  <2>2. ToSet(<< >>) = {} /\ {s[k] : k \in 1 .. 0} = {} /\ IsInjective(<< >>)
    BY DEF ToSet, IsInjective
  <2>3. StageOK(s, S, T, 0)
    BY <2>1, <2>2 DEF StageOK
  <2> QED
    BY <1>4, <2>3
<1>6. m - 1 \in 0 .. Len(s) /\ m \in 1 .. Len(s)
  BY <1>0, <1>4, <1>5
<1>7. StageOK(s, S, T, m - 1)
  <2>1. ~ (m <= m - 1)
    BY <1>0, <1>4
  <2>2. m - 1 \notin Bad
    BY <1>3, <2>1
  <2> QED
    BY <1>6, <2>2 DEF Bad
<1>8. PICK F : F = Stages(s, S)[m - 1]
  OBVIOUS
<1>9. /\ F \in Seq(T)
      /\ ToSet(F) = {s[k] : k \in 1 .. m - 1} \cap S
      /\ IsInjective(s) => IsInjective(F)
  BY <1>7, <1>8 DEF StageOK
<1>10. Stages(s, S)[m] = IF s[m] \in S THEN Append(F, s[m]) ELSE F
  BY <1>6, <1>8, KeepStages
<1>11. {s[k] : k \in 1 .. m} = {s[k] : k \in 1 .. m - 1} \cup {s[m]}
  <2>1. 1 .. m = (1 .. m - 1) \cup {m}
    BY <1>6
  <2> QED
    BY <2>1
<1>12. s[m] \in T
  BY <1>6
<1>13. CASE s[m] \in S
  <2>1. ToSet(Append(F, s[m])) = {s[k] : k \in 1 .. m} \cap S
    <3>1. ToSet(Append(F, s[m])) = ToSet(F) \cup {s[m]}
      BY <1>9, <1>12, AppendToSet
    <3> QED
      BY <1>9, <1>11, <1>13, <3>1, Zenon
  <2>2. ASSUME IsInjective(s)
        PROVE  IsInjective(Append(F, s[m]))
    <3>1. \A k \in 1 .. m - 1 : s[k] # s[m]
      BY <1>0, <1>6, <2>2 DEF IsInjective
    <3>2. s[m] \notin ToSet(F)
      BY <1>9, <3>1
    <3> QED
      BY <1>9, <1>12, <2>2, <3>2, AppendToSet
  <2>3. Append(F, s[m]) \in Seq(T)
    BY <1>9, <1>12
  <2> QED
    BY <1>4, <1>10, <1>13, <2>1, <2>2, <2>3 DEF StageOK
<1>14. CASE s[m] \notin S
  <2>1. ToSet(F) = {s[k] : k \in 1 .. m} \cap S
    BY <1>9, <1>11, <1>14
  <2> QED
    BY <1>4, <1>9, <1>10, <1>14, <2>1 DEF StageOK
<1> QED
  BY <1>13, <1>14

\* Keep yields the elements of s that are in S, none twice when s has none twice.
LEMMA KeepProperties ==
  ASSUME NEW T, NEW s \in Seq(T), NEW S
  PROVE  /\ Keep(s, S) \in Seq(T)
         /\ ToSet(Keep(s, S)) = ToSet(s) \cap S
         /\ IsInjective(s) => IsInjective(Keep(s, S))
<1>1. Len(s) \in 0 .. Len(s) /\ DOMAIN s = 1 .. Len(s)
  OBVIOUS
<1>2. StageOK(s, S, T, Len(s))
  BY <1>1, StagesOK
<1>3. Keep(s, S) = Stages(s, S)[Len(s)]
  BY KeepStages
<1>4. ToSet(s) = {s[k] : k \in 1 .. Len(s)}
  BY <1>1 DEF ToSet
<1> QED
  BY <1>2, <1>3, <1>4 DEF StageOK

\* A sequence without repetitions is as long as its set of elements is large.
LEMMA InjectiveLength ==
  ASSUME NEW T, NEW s \in Seq(T), IsInjective(s)
  PROVE  IsFiniteSet(ToSet(s)) /\ Cardinality(ToSet(s)) = Len(s)
<1>1. Len(s) \in Nat /\ DOMAIN s = 1 .. Len(s) /\ s \in [1 .. Len(s) -> T]
  OBVIOUS
<1>2. ToSet(s) = {s[k] : k \in 1 .. Len(s)}
  BY <1>1 DEF ToSet
<1>3. s \in [1 .. Len(s) -> ToSet(s)]
  BY <1>1, <1>2
<1>4. IsFiniteSet(1 .. Len(s)) /\ Cardinality(1 .. Len(s)) = Len(s)
  BY <1>1, FS_Interval
<1>5. ExistsBijection(1 .. Len(s), ToSet(s))
  <2>1. \A a, b \in 1 .. Len(s) : s[a] = s[b] => a = b
    BY <1>1 DEF IsInjective
  <2>2. \A t \in ToSet(s) : \E a \in 1 .. Len(s) : s[a] = t
    BY <1>2
  <2> QED
    BY <1>3, <2>1, <2>2 DEF ExistsBijection, Bijection, Injection, Surjection, IsInjective
<1> QED
  BY <1>4, <1>5, FS_Bijection

-----------------------------------------------------------------------------
\* The elements of a sequence and their positions.
LEMMA InToSet ==
  ASSUME NEW T, NEW s \in Seq(T)
  PROVE  /\ Len(s) \in Nat /\ DOMAIN s = 1 .. Len(s)
         /\ ToSet(s) \subseteq T
         /\ \A x : x \in ToSet(s) <=> \E i \in 1 .. Len(s) : s[i] = x
         /\ IsInjective(s) <=> \A i, j \in 1 .. Len(s) : s[i] = s[j] => i = j
<1>1. Len(s) \in Nat /\ DOMAIN s = 1 .. Len(s) /\ \A i \in 1 .. Len(s) : s[i] \in T
  OBVIOUS
<1> QED
  BY <1>1 DEF ToSet, IsInjective

\* Two sequences one behind the other.
LEMMA ConcatSets ==
  ASSUME NEW T, NEW s \in Seq(T), NEW t \in Seq(T)
  PROVE  /\ s \o t \in Seq(T)
         /\ Len(s \o t) = Len(s) + Len(t)
         /\ ToSet(s \o t) = ToSet(s) \cup ToSet(t)
         /\ IsInjective(s) /\ IsInjective(t) /\ ToSet(s) \cap ToSet(t) = {} =>
              IsInjective(s \o t)
<1>1. PICK u : u = s \o t
  OBVIOUS
<1>2. /\ u \in Seq(T) /\ Len(u) = Len(s) + Len(t)
      /\ \A i \in 1 .. Len(s) + Len(t) : u[i] = IF i <= Len(s) THEN s[i] ELSE t[i - Len(s)]
  BY <1>1, ConcatProperties
<1>3. /\ Len(s) \in Nat /\ Len(t) \in Nat
      /\ \A x : x \in ToSet(s) <=> \E i \in 1 .. Len(s) : s[i] = x
      /\ \A x : x \in ToSet(t) <=> \E i \in 1 .. Len(t) : t[i] = x
      /\ \A x : x \in ToSet(u) <=> \E i \in 1 .. Len(u) : u[i] = x
  BY <1>2, InToSet
<1>4. ASSUME NEW i \in 1 .. Len(u)
      PROVE  \/ i \in 1 .. Len(s) /\ u[i] = s[i] /\ u[i] \in ToSet(s)
             \/ i - Len(s) \in 1 .. Len(t) /\ u[i] = t[i - Len(s)] /\ u[i] \in ToSet(t)
  <2>1. CASE i <= Len(s)
    <3>1. i \in 1 .. Len(s) /\ u[i] = s[i]
      BY <1>2, <1>3, <2>1
    <3> QED
      BY <1>3, <3>1
  <2>2. CASE ~ (i <= Len(s))
    <3>1. i - Len(s) \in 1 .. Len(t) /\ u[i] = t[i - Len(s)]
      BY <1>2, <1>3, <2>2
    <3> QED
      BY <1>3, <3>1
  <2> QED
    BY <2>1, <2>2
<1>5. ToSet(u) = ToSet(s) \cup ToSet(t)
  <2>1. ASSUME NEW x \in ToSet(u)
        PROVE  x \in ToSet(s) \cup ToSet(t)
    BY <1>3, <1>4
  <2>2. ASSUME NEW x \in ToSet(s)
        PROVE  x \in ToSet(u)
    <3>1. PICK i \in 1 .. Len(s) : s[i] = x
      BY <1>3
    <3>2. i \in 1 .. Len(u) /\ u[i] = x
      BY <1>2, <1>3, <3>1
    <3> QED
      BY <1>3, <3>2
  <2>3. ASSUME NEW x \in ToSet(t)
        PROVE  x \in ToSet(u)
    <3>1. PICK i \in 1 .. Len(t) : t[i] = x
      BY <1>3
    <3>2. i + Len(s) \in 1 .. Len(u) /\ ~ (i + Len(s) <= Len(s)) /\ (i + Len(s)) - Len(s) = i
      BY <1>2, <1>3
    <3>3. u[i + Len(s)] = x
      BY <1>2, <3>1, <3>2
    <3> QED
      BY <1>3, <3>2, <3>3
  <2> QED
    BY <2>1, <2>2, <2>3
<1>6. ASSUME IsInjective(s), IsInjective(t), ToSet(s) \cap ToSet(t) = {}
      PROVE  IsInjective(u)
  <2>1. SUFFICES ASSUME NEW i \in 1 .. Len(u), NEW j \in 1 .. Len(u), u[i] = u[j]
                 PROVE  i = j
    BY <1>2, InToSet
  <2>2. /\ \A k, l \in 1 .. Len(s) : s[k] = s[l] => k = l
        /\ \A k, l \in 1 .. Len(t) : t[k] = t[l] => k = l
    BY <1>6, InToSet
  <2>3. u[i] \notin ToSet(s) \/ u[i] \notin ToSet(t)
    BY <1>6
  <2>4. CASE i \in 1 .. Len(s) /\ u[i] = s[i] /\ u[i] \in ToSet(s)
    <3>1. j \in 1 .. Len(s) /\ u[j] = s[j]
      BY <1>4, <2>1, <2>3, <2>4
    <3> QED
      BY <2>1, <2>2, <2>4, <3>1
  <2>5. CASE i - Len(s) \in 1 .. Len(t) /\ u[i] = t[i - Len(s)] /\ u[i] \in ToSet(t)
    <3>1. j - Len(s) \in 1 .. Len(t) /\ u[j] = t[j - Len(s)]
      BY <1>4, <2>1, <2>3, <2>5
    <3>2. i - Len(s) = j - Len(s)
      BY <2>1, <2>2, <2>5, <3>1
    <3> QED
      BY <1>3, <3>2
  <2> QED
    BY <1>4, <2>4, <2>5
<1> QED
  BY <1>1, <1>2, <1>5, <1>6

\* A sequence cut in two.
LEMMA SplitSets ==
  ASSUME NEW T, NEW s \in Seq(T), NEW n \in 0 .. Len(s)
  PROVE  /\ SubSeq(s, 1, n) \in Seq(T) /\ Len(SubSeq(s, 1, n)) = n
         /\ \A i \in 1 .. n : SubSeq(s, 1, n)[i] = s[i]
         /\ SubSeq(s, n + 1, Len(s)) \in Seq(T)
         /\ Len(SubSeq(s, n + 1, Len(s))) = Len(s) - n
         /\ ToSet(s) = ToSet(SubSeq(s, 1, n)) \cup ToSet(SubSeq(s, n + 1, Len(s)))
         /\ IsInjective(s) => /\ IsInjective(SubSeq(s, 1, n))
                              /\ IsInjective(SubSeq(s, n + 1, Len(s)))
                              /\ ToSet(SubSeq(s, 1, n)) \cap ToSet(SubSeq(s, n + 1, Len(s))) = {}
<1>1. PICK a, b : a = SubSeq(s, 1, n) /\ b = SubSeq(s, n + 1, Len(s))
  OBVIOUS
<1>2. Len(s) \in Nat /\ n \in Nat /\ n <= Len(s) /\ \A i \in 1 .. Len(s) : s[i] \in T
  OBVIOUS
<1>3. a \in Seq(T) /\ Len(a) = n /\ \A i \in 1 .. n : a[i] = s[i]
  <2>1. \A i \in 1 .. n : s[i] \in T
    BY <1>2
  <2> QED
    BY <1>1, <1>2, <2>1, SubSeqProperties
<1>4. b \in Seq(T) /\ Len(b) = Len(s) - n /\ \A i \in 1 .. Len(s) - n : b[i] = s[n + i]
  <2>1. \A i \in n + 1 .. Len(s) : s[i] \in T
    BY <1>2
  <2>2. /\ b \in Seq(T) /\ Len(b) = IF n + 1 <= Len(s) THEN Len(s) - (n + 1) + 1 ELSE 0
        /\ \A i \in 1 .. Len(s) - (n + 1) + 1 : b[i] = s[(n + 1) + i - 1]
    BY <1>1, <1>2, <2>1, SubSeqProperties
  <2>3. Len(s) - (n + 1) + 1 = Len(s) - n
    BY <1>2
  <2>4. Len(b) = Len(s) - n
    BY <1>2, <2>2
  <2>5. ASSUME NEW i \in 1 .. Len(s) - n
        PROVE  b[i] = s[n + i]
    <3>1. (n + 1) + i - 1 = n + i
      BY <1>2
    <3>2. i \in 1 .. Len(s) - (n + 1) + 1
      BY <2>3
    <3> QED
      BY <2>2, <3>1, <3>2
  <2> QED
    BY <2>2, <2>4, <2>5
<1>5. s = a \o b
  <2>1. /\ a \o b \in Seq(T) /\ Len(a \o b) = Len(s)
        /\ \A i \in 1 .. Len(s) : (a \o b)[i] = IF i <= n THEN a[i] ELSE b[i - n]
    <3>1. n + (Len(s) - n) = Len(s)
      BY <1>2
    <3> QED
      BY <1>3, <1>4, <3>1, ConcatProperties
  <2>2. ASSUME NEW i \in 1 .. Len(s)
        PROVE  (a \o b)[i] = s[i]
    <3>1. CASE i <= n
      <4>1. i \in 1 .. n
        BY <1>2, <3>1
      <4>2. (a \o b)[i] = a[i]
        BY <2>1, <3>1
      <4> QED
        BY <1>3, <4>1, <4>2
    <3>2. CASE ~ (i <= n)
      <4>1. i - n \in 1 .. Len(s) - n /\ n + (i - n) = i
        BY <1>2, <3>2
      <4>2. (a \o b)[i] = b[i - n]
        BY <2>1, <3>2
      <4> QED
        BY <1>4, <4>1, <4>2
    <3> QED
      BY <3>1, <3>2
  <2> QED
    BY <2>1, <2>2, SeqEqual
<1>6. ToSet(s) = ToSet(a) \cup ToSet(b)
  BY <1>3, <1>4, <1>5, ConcatSets
<1>7. ASSUME IsInjective(s)
      PROVE  IsInjective(a) /\ IsInjective(b) /\ ToSet(a) \cap ToSet(b) = {}
  <2>1. \A i, j \in 1 .. Len(s) : s[i] = s[j] => i = j
    BY <1>7, InToSet
  <2>2. IsInjective(a)
    BY <1>2, <1>3, <2>1, InToSet
  <2>3. IsInjective(b)
    <3>1. ASSUME NEW i \in 1 .. Len(b), NEW j \in 1 .. Len(b), b[i] = b[j]
          PROVE  i = j
      <4>1. n + i \in 1 .. Len(s) /\ n + j \in 1 .. Len(s)
        BY <1>2, <1>4
      <4>2. s[n + i] = s[n + j]
        BY <1>4, <3>1
      <4>3. n + i = n + j
        BY <2>1, <4>1, <4>2
      <4> QED
        BY <1>2, <4>3
    <3> QED
      BY <1>4, <3>1, InToSet
  <2>4. ASSUME NEW x \in ToSet(a) \cap ToSet(b)
        PROVE  FALSE
    <3>1. PICK i \in 1 .. n, j \in 1 .. Len(s) - n : a[i] = x /\ b[j] = x
      BY <1>3, <1>4, InToSet
    <3>2. i \in 1 .. Len(s) /\ n + j \in 1 .. Len(s) /\ s[i] = s[n + j] /\ i # n + j
      BY <1>2, <1>3, <1>4, <3>1
    <3> QED
      BY <2>1, <3>2
  <2> QED
    BY <2>2, <2>3, <2>4
<1> QED
  BY <1>1, <1>3, <1>4, <1>6, <1>7

\* A sequence read backwards.
LEMMA ReverseSets ==
  ASSUME NEW T, NEW s \in Seq(T)
  PROVE  /\ Reverse(s) \in Seq(T)
         /\ ToSet(Reverse(s)) = ToSet(s)
         /\ IsInjective(s) => IsInjective(Reverse(s))
<1>1. PICK u : u = Reverse(s)
  OBVIOUS
<1>2. Len(s) \in Nat /\ \A i \in 1 .. Len(s) : s[i] \in T /\ (Len(s) - i) + 1 \in 1 .. Len(s)
  OBVIOUS
<1>3. u \in Seq(T) /\ Len(u) = Len(s) /\ \A i \in 1 .. Len(s) : u[i] = s[(Len(s) - i) + 1]
  BY <1>1, <1>2 DEF Reverse
<1>4. /\ \A x : x \in ToSet(s) <=> \E i \in 1 .. Len(s) : s[i] = x
      /\ \A x : x \in ToSet(u) <=> \E i \in 1 .. Len(s) : u[i] = x
  BY <1>3, InToSet
<1>5. ASSUME NEW x \in ToSet(u)
      PROVE  x \in ToSet(s)
  BY <1>2, <1>3, <1>4
<1>6. ASSUME NEW x \in ToSet(s)
      PROVE  x \in ToSet(u)
  <2>1. PICK i \in 1 .. Len(s) : s[i] = x
    BY <1>4
  <2>2. PICK j \in 1 .. Len(s) : j = (Len(s) - i) + 1
    BY <1>2
  <2>3. (Len(s) - j) + 1 = i
    BY <1>2, <2>2
  <2>4. u[j] = x
    BY <1>3, <2>1, <2>3
  <2> QED
    BY <1>4, <2>4
<1>7. ASSUME IsInjective(s)
      PROVE  IsInjective(u)
  <2>1. \A i, j \in 1 .. Len(s) : s[i] = s[j] => i = j
    BY <1>7, InToSet
  <2>2. ASSUME NEW i \in 1 .. Len(u), NEW j \in 1 .. Len(u), u[i] = u[j]
        PROVE  i = j
    <3>1. s[(Len(s) - i) + 1] = s[(Len(s) - j) + 1]
      BY <1>3, <2>2
    <3>2. (Len(s) - i) + 1 = (Len(s) - j) + 1
      BY <1>2, <1>3, <2>1, <3>1
    <3>3. i \in Nat /\ j \in Nat
      OBVIOUS
    <3> QED
      BY <1>2, <3>2, <3>3
  <2> QED
    BY <1>3, <2>2, InToSet
<1> QED
  BY <1>1, <1>3, <1>5, <1>6, <1>7
=============================================================================
