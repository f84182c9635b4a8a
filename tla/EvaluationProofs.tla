-------------------------- MODULE EvaluationProofs --------------------------
(***************************************************************************)
(* What is proved of Evaluation for every number of buckets, set of        *)
(* conditions, subjects and payloads: a stored configuration is always     *)
(* sound, is read back as it was stored, always evaluates and to what      *)
(* docs/EVALUATION.md says, and neither growth nor time takes a variation  *)
(* from a subject.                                                         *)
(*                                                                         *)
(* The invariant, EInv, says of the stored rows that their allocations     *)
(* have different ends, the last of them BucketCount, that no two rules    *)
(* share a priority, that a rule does one thing, and that all that can be  *)
(* served is a variation of the flag.  Everything else follows from it in  *)
(* one state: what a load returns lists the rows (LoadsAreLoaded), shares  *)
(* and ends are inverse to each other (SharesTile, TilesShare), and the    *)
(* first element that fits in a sorted list is the least that fits in the  *)
(* set.  Where a fact needs induction over the length of a list, it is     *)
(* shown for a least counterexample (Least).                               *)
(***************************************************************************)
EXTENDS Evaluation, FiniteSetTheorems, WellFoundedInduction, TLAPS

-----------------------------------------------------------------------------
(* Numbers.                                                                *)

LEMMA Least ==
    ASSUME NEW T \in SUBSET Nat, T # {}
    PROVE  \E m \in T : \A n \in T : m <= n
<1> DEFINE R == {p \in Nat \X Nat : p[1] < p[2]}
<1>1. IsWellFoundedOn(R, Nat)
  BY NatLessThanWellFounded DEF OpToRel
<1> HIDE DEF R
<1>2. PICK m \in T : \A n \in T : <<n, m>> \notin R
  BY <1>1, WFMin
<1>3. ASSUME NEW n \in T
      PROVE  m <= n
  <2>1. ~ (n < m)
    BY <1>2 DEF R
  <2> QED BY <2>1
<1> QED BY <1>3

-----------------------------------------------------------------------------
(* Sorting.                                                                *)

(* A sequence lists a set if it has each element once.                     *)
Lists(q, S) ==
    /\ Len(q) \in Nat /\ q \in [1 .. Len(q) -> S]
    /\ \A x \in S : \E i \in 1 .. Len(q) : q[i] = x
    /\ \A i, j \in 1 .. Len(q) : q[i] = q[j] => i = j

Distinct(S, key) == \A x, y \in S : key[x] = key[y] => x = y

(* How many elements of S have a key up to that of x.                      *)
UpTo(S, key, x) == {y \in S : key[y] <= key[x]}

LEMMA SortedExists ==
    ASSUME NEW S, IsFiniteSet(S), NEW key, \A x \in S : key[x] \in Int, Distinct(S, key)
    PROVE  \E q \in SetToSeqs(S) :
             \A i, j \in DOMAIN q : i < j => key[q[i]] < key[q[j]]
<1> DEFINE n == Cardinality(S)
           place == [x \in S |-> Cardinality(UpTo(S, key, x))]
<1>1. n \in Nat
  BY FS_CardinalityType
<1>2. ASSUME NEW x \in S
      PROVE  IsFiniteSet(UpTo(S, key, x)) /\ place[x] \in 1 .. n
  <2>1. UpTo(S, key, x) \in SUBSET S /\ x \in UpTo(S, key, x)
    BY DEF UpTo
  <2>2. IsFiniteSet(UpTo(S, key, x)) /\ Cardinality(UpTo(S, key, x)) <= n
    BY <2>1, FS_Subset
  <2>3. Cardinality(UpTo(S, key, x)) \in Nat /\ Cardinality(UpTo(S, key, x)) # 0
    BY <2>1, <2>2, FS_CardinalityType, FS_EmptySet
  <2> QED BY <1>1, <2>2, <2>3
<1>3. ASSUME NEW x \in S, NEW y \in S, key[x] < key[y]
      PROVE  place[x] < place[y]
  <2>1. UpTo(S, key, x) \in SUBSET UpTo(S, key, y)
    BY <1>3 DEF UpTo
  <2>2. UpTo(S, key, x) # UpTo(S, key, y)
    <3>1. y \in UpTo(S, key, y) /\ y \notin UpTo(S, key, x)
      BY <1>3 DEF UpTo
    <3> QED BY <3>1
  <2>3. /\ Cardinality(UpTo(S, key, x)) <= Cardinality(UpTo(S, key, y))
        /\ Cardinality(UpTo(S, key, x)) # Cardinality(UpTo(S, key, y))
    BY <1>2, <2>1, <2>2, FS_Subset
  <2>4. place[x] \in 1 .. n /\ place[y] \in 1 .. n
    BY <1>2
  <2> QED BY <1>1, <2>3, <2>4
<1> HIDE DEF n, place
<1>4. \A x, y \in S : place[x] = place[y] => x = y
  <2>1. ASSUME NEW x \in S, NEW y \in S, place[x] = place[y], x # y
        PROVE  FALSE
    <3>1. key[x] < key[y] \/ key[y] < key[x]
      BY <2>1 DEF Distinct
    <3>2. place[x] < place[y] \/ place[y] < place[x]
      BY <1>3, <3>1
    <3> QED BY <1>1, <1>2, <2>1, <3>2
  <2> QED BY <2>1
<1>5. place \in [S -> 1 .. n]
  BY <1>2 DEF place
<1>6. \A i \in 1 .. n : \E x \in S : place[x] = i
  <2>1. place \in Injection(S, 1 .. n)
    BY <1>4, <1>5 DEF Injection, IsInjective
  <2>2. IsFiniteSet(1 .. n) /\ Cardinality(1 .. n) = n
    BY <1>1, FS_Interval
  <2>3. place \in Surjection(S, 1 .. n)
    BY <2>1, <2>2, FS_Injection DEF n
  <2> QED BY <2>3 DEF Surjection
<1> DEFINE q == [i \in 1 .. n |-> CHOOSE x \in S : place[x] = i]
<1>7. ASSUME NEW i \in 1 .. n
      PROVE  q[i] \in S /\ place[q[i]] = i
  BY <1>6
<1> HIDE DEF q
<1>8. q \in [1 .. n -> S]
  BY <1>7 DEF q
<1>9. \A i, j \in 1 .. n : i # j => q[i] # q[j]
  BY <1>7
<1>10. ASSUME NEW i \in 1 .. n, NEW j \in 1 .. n, i < j
       PROVE  key[q[i]] < key[q[j]]
  <2>1. ~ (key[q[j]] < key[q[i]])
    <3>1. CASE key[q[j]] < key[q[i]]
      <4>1. place[q[j]] < place[q[i]]
        BY <1>3, <1>7, <3>1
      <4> QED BY <1>1, <1>7, <1>10, <4>1
    <3> QED BY <3>1
  <2>2. key[q[i]] # key[q[j]]
    BY <1>1, <1>7, <1>9, <1>10 DEF Distinct
  <2> QED BY <1>7, <2>1, <2>2
<1> QED BY <1>8, <1>9, <1>10 DEF SetToSeqs, n

LEMMA Sorted ==
    ASSUME NEW S, IsFiniteSet(S), NEW key, \A x \in S : key[x] \in Int, Distinct(S, key)
    PROVE  /\ Lists(SortedBy(S, key), S)
           /\ \A i, j \in 1 .. Len(SortedBy(S, key)) :
                i < j => key[SortedBy(S, key)[i]] < key[SortedBy(S, key)[j]]
<1> DEFINE n == Cardinality(S)
           q == SortedBy(S, key)
<1>1. /\ q \in SetToSeqs(S)
      /\ \A i, j \in DOMAIN q : i < j => key[q[i]] < key[q[j]]
  BY SortedExists DEF SortedBy
<1>2. n \in Nat
  BY FS_CardinalityType
<1>3. q \in [1 .. n -> S] /\ \A i, j \in 1 .. n : q[i] = q[j] => i = j
  BY <1>1 DEF SetToSeqs
<1>4. \A x \in S : \E i \in 1 .. n : q[i] = x
  <2>1. q \in Injection(1 .. n, S)
    BY <1>3 DEF Injection, IsInjective
  <2>2. Cardinality(1 .. n) = n
    BY <1>2, FS_Interval
  <2>3. q \in Surjection(1 .. n, S)
    BY <2>1, <2>2, FS_Injection
  <2> QED BY <2>3 DEF Surjection
<1> HIDE DEF n, q
<1>5. Len(q) = n
  BY <1>2, <1>3
<1> QED BY <1>1, <1>2, <1>3, <1>4, <1>5 DEF Lists, q

LEMMA ListIsSeq ==
    ASSUME NEW S, NEW q, Lists(q, S)
    PROVE  /\ q \in Seq(S) /\ DOMAIN q = 1 .. Len(q) /\ ToSet(q) = S
           /\ q = <<>> <=> S = {}
<1>1. q \in Seq(S) /\ DOMAIN q = 1 .. Len(q)
  BY DEF Lists
<1>2. ToSet(q) = S
  BY <1>1 DEF Lists, ToSet
<1>3. q = <<>> <=> S = {}
  BY <1>1 DEF Lists
<1> QED BY <1>1, <1>2, <1>3

-----------------------------------------------------------------------------
(* Shares and ends.                                                        *)

Allocation == [variation : Variation, end : Int]

Sums(u, s, n) == u = [i \in 0 .. n |-> IF i = 0 THEN 0 ELSE u[i - 1] + s[i].share]

LEMMA SumsExist ==
    ASSUME NEW s, NEW n \in Nat
    PROVE  \E u : Sums(u, s, n)
<1> DEFINE Bad == {m \in Nat : ~ \E u : Sums(u, s, m)}
<1>1. SUFFICES ASSUME Bad # {}
               PROVE  FALSE
  OBVIOUS
<1>2. PICK m \in Bad : \A k \in Bad : m <= k
  BY <1>1, Least
<1>3. m # 0
  <2>1. Sums([i \in 0 .. 0 |-> 0], s, 0)
    BY DEF Sums
  <2> QED BY <1>2, <2>1
<1>4. m - 1 \in Nat /\ m - 1 \notin Bad
  BY <1>2, <1>3
<1>5. PICK u : Sums(u, s, m - 1)
  BY <1>4
<1> DEFINE v == [i \in 0 .. m |-> IF i = m THEN u[m - 1] + s[m].share ELSE u[i]]
<1>6. ASSUME NEW i \in 0 .. m
      PROVE  v[i] = IF i = 0 THEN 0 ELSE v[i - 1] + s[i].share
  <2>1. CASE i = m
    BY <1>3, <1>4, <2>1
  <2>2. CASE i # m
    <3>1. i \in 0 .. m - 1 /\ (i # 0 => i - 1 \in 0 .. m - 1)
      BY <1>4, <2>2
    <3>2. u[i] = IF i = 0 THEN 0 ELSE u[i - 1] + s[i].share
      BY <1>5, <3>1 DEF Sums
    <3>3. i # 0 => v[i - 1] = u[i - 1]
      BY <1>4, <3>1
    <3> QED BY <2>2, <3>2, <3>3
  <2> QED BY <2>1, <2>2
<1>7. Sums(v, s, m)
  BY <1>6 DEF Sums
<1> QED BY <1>2, <1>7

LEMMA Cumulative ==
    ASSUME NEW s \in Seq(RolloutInput)
    PROVE  /\ Allocations(s) \in Seq(Allocation) /\ Len(Allocations(s)) = Len(s)
           /\ \A i \in 1 .. Len(s) :
                /\ Allocations(s)[i].variation = s[i].variation
                /\ Allocations(s)[i].end =
                     s[i].share + (IF i = 1 THEN 0 ELSE Allocations(s)[i - 1].end)
<1> DEFINE upto == CHOOSE u : Sums(u, s, Len(s))
           n == Len(s)
<1>1. n \in Nat /\ DOMAIN s = 1 .. n /\ \A i \in 1 .. n : s[i] \in RolloutInput
  OBVIOUS
<1>2. Sums(upto, s, n)
  BY <1>1, SumsExist
<1>3. Allocations(s) = [i \in 1 .. n |-> [variation |-> s[i].variation, end |-> upto[i]]]
  BY <1>1 DEF Allocations, Sums
<1> HIDE DEF upto, n
<1>4. /\ upto[0] = 0
      /\ \A i \in 1 .. n : upto[i] = upto[i - 1] + s[i].share
  BY <1>1, <1>2 DEF Sums
<1>5. \A i \in 0 .. n : upto[i] \in Int
  <2> DEFINE Bad == {i \in Nat : i \in 0 .. n /\ upto[i] \notin Int}
  <2>1. SUFFICES ASSUME Bad # {}
                 PROVE  FALSE
    OBVIOUS
  <2>2. PICK m \in Bad : \A k \in Bad : m <= k
    BY <1>1, <2>1, Least
  <2>3. m \in 1 .. n /\ m - 1 \in 0 .. n /\ m - 1 \notin Bad
    BY <1>1, <1>4, <2>2
  <2>4. upto[m - 1] \in Int /\ s[m].share \in Int
    BY <1>1, <2>3 DEF RolloutInput
  <2> QED BY <1>4, <2>2, <2>3, <2>4
<1>6. \A i \in 1 .. n : [variation |-> s[i].variation, end |-> upto[i]] \in Allocation
  BY <1>1, <1>5 DEF Allocation, RolloutInput
<1>7. Allocations(s) \in [1 .. n -> Allocation]
  BY <1>3, <1>6
<1>8. Len(Allocations(s)) = n /\ Allocations(s) \in Seq(Allocation)
  BY <1>1, <1>7
<1>9. ASSUME NEW i \in 1 .. n
      PROVE  /\ Allocations(s)[i].variation = s[i].variation
             /\ Allocations(s)[i].end =
                  s[i].share + (IF i = 1 THEN 0 ELSE Allocations(s)[i - 1].end)
  <2>1. upto[i] = s[i].share + upto[i - 1]
    BY <1>1, <1>4, <1>5 DEF RolloutInput
  <2>2. IF i = 1 THEN upto[i - 1] = 0 ELSE Allocations(s)[i - 1].end = upto[i - 1]
    BY <1>1, <1>3, <1>4
  <2>3. Allocations(s)[i].variation = s[i].variation /\ Allocations(s)[i].end = upto[i]
    BY <1>3
  <2> QED BY <2>1, <2>2, <2>3
<1> QED BY <1>8, <1>9 DEF n

(* What grows from one to the next grows over any distance.                *)
LEMMA EndsGrow ==
    ASSUME NEW A \in Seq(Allocation),
           \A i \in 2 .. Len(A) : A[i - 1].end < A[i].end
    PROVE  \A i, j \in 1 .. Len(A) : i < j => A[i].end < A[j].end
<1>1. \A i \in 1 .. Len(A) : A[i].end \in Int
  <2>1. \A i \in 1 .. Len(A) : A[i] \in Allocation
    OBVIOUS
  <2> QED BY <2>1 DEF Allocation
<1>2. SUFFICES ASSUME NEW i \in 1 .. Len(A)
               PROVE  \A j \in 1 .. Len(A) : i < j => A[i].end < A[j].end
  OBVIOUS
<1> DEFINE Bad == {j \in Nat : j \in 1 .. Len(A) /\ i < j /\ ~ (A[i].end < A[j].end)}
<1>3. SUFFICES ASSUME Bad # {}
               PROVE  FALSE
  OBVIOUS
<1>4. PICK j \in Bad : \A k \in Bad : j <= k
  BY <1>3, Least
<1>5. j - 1 \in 1 .. Len(A) /\ j \in 2 .. Len(A) /\ j - 1 \notin Bad
  BY <1>4
<1>6. j - 1 = i \/ A[i].end < A[j - 1].end
  BY <1>4, <1>5
<1> QED BY <1>1, <1>4, <1>5, <1>6

-----------------------------------------------------------------------------
(* What is stored.                                                         *)

RuleRow ==
    [priority : Int, when : SUBSET Condition, variation : Variation \cup {NoVariation},
     rollout : SUBSET Allocation, stages : SUBSET ProgressiveStage]
FlagRow ==
    [enabled : BOOLEAN, default : Variation, variations : SUBSET Variation,
     rules : SUBSET RuleRow, rollout : SUBSET Allocation,
     stages : SUBSET ProgressiveStage, salt : Salt]

(* Allocations that leave no bucket out.                                   *)
Tiled(A) ==
    /\ IsFiniteSet(A) /\ A \subseteq Allocation
    /\ \A a \in A : a.end \in 1 .. BucketCount
    /\ \A a, b \in A : a.end = b.end => a = b
    /\ A # {} => \E a \in A : a.end = BucketCount

(* The rollout and the stages of a flag or rule, which serve variations V. *)
Sound(x, V) ==
    /\ Tiled(x.rollout) /\ IsFiniteSet(x.stages)
    /\ \A a \in x.rollout : a.variation \in V
    /\ \A st \in x.stages : st.variation \in V /\ st.fallback \in V

SoundRule(rule, V) ==
    /\ Sound(rule, V)
    /\ \/ rule.variation \in V /\ rule.rollout = {} /\ rule.stages = {}
       \/ rule.variation = NoVariation /\ (rule.rollout = {}) # (rule.stages = {})

LEMMA SeqFinite ==
    ASSUME NEW S, NEW q \in Seq(S)
    PROVE  IsFiniteSet(ToSet(q)) /\ ToSet(q) \subseteq S /\ (ToSet(q) = {} <=> q = <<>>)
<1>1. Len(q) \in Nat /\ DOMAIN q = 1 .. Len(q) /\ q \in [1 .. Len(q) -> S]
  OBVIOUS
<1>2. q \in Surjection(1 .. Len(q), ToSet(q))
  BY <1>1 DEF Surjection, ToSet
<1>3. IsFiniteSet(1 .. Len(q))
  BY <1>1, FS_Interval
<1>4. IsFiniteSet(ToSet(q))
  BY <1>2, <1>3, FS_Surjection
<1>5. ToSet(q) \subseteq S
  BY <1>1 DEF ToSet
<1>6. ASSUME q # <<>>
      PROVE  ToSet(q) # {}
  <2>1. 1 \in DOMAIN q
    BY <1>1, <1>6
  <2> QED BY <2>1 DEF ToSet
<1>7. ToSet(<<>>) = {}
  BY DEF ToSet
<1> QED BY <1>4, <1>5, <1>6, <1>7

LEMMA SameAllocation ==
    ASSUME NEW a \in Allocation, NEW b \in Allocation,
           a.variation = b.variation, a.end = b.end
    PROVE  a = b
BY DEF Allocation

(* Complete shares become allocations that leave no bucket out.            *)
LEMMA SharesTile ==
    ASSUME EvaluationAssumption, NEW s \in Seq(RolloutInput), CompleteRollout(s)
    PROVE  /\ Tiled(ToSet(Allocations(s)))
           /\ Allocations(s) = <<>> <=> s = <<>>
           /\ ToSet(Allocations(s)) = {} <=> s = <<>>
           /\ \A a \in ToSet(Allocations(s)) : a.variation \in Allotted(s)
<1> DEFINE A == Allocations(s)
           n == Len(s)
<1>1. /\ A \in Seq(Allocation) /\ Len(A) = n
      /\ \A i \in 1 .. n :
           /\ A[i].variation = s[i].variation
           /\ A[i].end = s[i].share + (IF i = 1 THEN 0 ELSE A[i - 1].end)
  BY Cumulative
<1> HIDE DEF A
<1>2. n \in Nat /\ DOMAIN s = 1 .. n /\ DOMAIN A = 1 .. n /\ \A i \in 1 .. n : A[i] \in Allocation
  BY <1>1
<1>3. \A i \in 1 .. n : A[i].end \in Int /\ s[i].share \in 1 .. BucketCount
  BY <1>2 DEF Allocation, CompleteRollout
<1>4. \A i, j \in 1 .. n : i < j => A[i].end < A[j].end
  <2>1. ASSUME NEW i \in 2 .. n
        PROVE  A[i - 1].end < A[i].end
    <3>1. i \in 1 .. n /\ i - 1 \in 1 .. n /\ i # 1
      BY <1>2
    <3> QED BY <1>1, <1>3, <3>1
  <2> QED BY <1>1, <2>1, EndsGrow
<1>5. n > 0 => A[n].end = BucketCount
  BY <1>1, <1>2 DEF CompleteRollout, Last, A
<1>6. ASSUME NEW i \in 1 .. n
      PROVE  A[i].end \in 1 .. BucketCount
  <2>1. A[1].end >= 1 /\ (i = 1 \/ A[1].end < A[i].end)
    BY <1>1, <1>2, <1>3, <1>4
  <2>3. 1 \in 1 .. n /\ n \in 1 .. n /\ n > 0 /\ (i = n \/ i < n)
    <3>1. n \in Nat
      BY <1>2
    <3> HIDE DEF n
    <3> QED BY <3>1
  <2>2. i = n \/ A[i].end < A[n].end
    BY <1>4, <2>3
  <2>4. A[i].end \in Int /\ A[n].end \in Int /\ A[1].end \in Int
    BY <1>3, <2>3
  <2>5. BucketCount \in Nat
    BY DEF EvaluationAssumption
  <2> QED BY <1>5, <2>1, <2>2, <2>3, <2>4, <2>5
<1>7. \A i, j \in 1 .. n : A[i].end = A[j].end => i = j
  BY <1>2, <1>3, <1>4
<1>8. IsFiniteSet(ToSet(A)) /\ ToSet(A) \subseteq Allocation /\ (ToSet(A) = {} <=> A = <<>>)
  BY <1>1, SeqFinite
<1>9. \A a \in ToSet(A) : \E i \in 1 .. n : a = A[i]
  BY <1>2 DEF ToSet
<1>10. A = <<>> <=> s = <<>>
  BY <1>1, <1>2
<1>11. ASSUME ToSet(A) # {}
       PROVE  \E a \in ToSet(A) : a.end = BucketCount
  <2>1. n > 0
    BY <1>2, <1>9, <1>11
  <2>2. A[n] \in ToSet(A)
    BY <1>2, <2>1 DEF ToSet
  <2> QED BY <1>5, <2>1, <2>2
<1>12. ASSUME NEW a \in ToSet(A)
       PROVE  a.variation \in Allotted(s)
  <2>1. PICK i \in 1 .. n : a = A[i]
    BY <1>9
  <2>2. i \in DOMAIN s /\ a.variation = s[i].variation
    BY <1>1, <1>2, <2>1
  <2> QED BY <2>2 DEF Allotted
<1>13. Tiled(ToSet(A))
  BY <1>6, <1>7, <1>8, <1>9, <1>11 DEF Tiled
<1> QED BY <1>8, <1>10, <1>12, <1>13 DEF A

(* Allocations that leave no bucket out become complete shares, and these  *)
(* the same allocations.                                                   *)
LEMMA TilesShare ==
    ASSUME EvaluationAssumption, NEW R, Tiled(R)
    PROVE  /\ Lists(ByEnd(R), R)
           /\ \A i, j \in 1 .. Len(ByEnd(R)) : i < j => ByEnd(R)[i].end < ByEnd(R)[j].end
           /\ Shares(ByEnd(R)) \in Seq(RolloutInput) /\ CompleteRollout(Shares(ByEnd(R)))
           /\ Allocations(Shares(ByEnd(R))) = ByEnd(R)
           /\ Shares(ByEnd(R)) = <<>> <=> R = {}
           /\ \A v \in Allotted(Shares(ByEnd(R))) : \E a \in R : a.variation = v
<1> DEFINE key == [a \in R |-> a.end]
           q == ByEnd(R)
           s == Shares(q)
           n == Len(q)
<1>0. BucketCount \in Nat \ {0}
  BY DEF EvaluationAssumption
<1>1. /\ Lists(q, R)
      /\ \A i, j \in 1 .. n : i < j => key[q[i]] < key[q[j]]
  <2>1. (\A x \in R : key[x] \in Int) /\ Distinct(R, key) /\ IsFiniteSet(R)
    BY DEF Tiled, Distinct
  <2> QED BY <2>1, Sorted DEF ByEnd
<1> HIDE DEF q, key
<1>2. /\ n \in Nat /\ DOMAIN q = 1 .. n
      /\ \A i \in 1 .. n : /\ q[i] \in R /\ q[i] \in Allocation
                           /\ q[i].end \in 1 .. BucketCount /\ q[i].variation \in Variation
  BY <1>1, ListIsSeq DEF Lists, Tiled, Allocation
<1>3. \A i, j \in 1 .. n : i < j => q[i].end < q[j].end
  BY <1>1, <1>2 DEF key
<1>4. s = [i \in 1 .. n |-> [variation |-> q[i].variation,
                             share |-> q[i].end - (IF i = 1 THEN 0 ELSE q[i - 1].end)]]
  BY <1>2 DEF Shares
<1> HIDE DEF s
<1>5. ASSUME NEW i \in 1 .. n
      PROVE  /\ s[i].variation = q[i].variation
             /\ s[i].share = q[i].end - (IF i = 1 THEN 0 ELSE q[i - 1].end)
             /\ s[i].share \in 1 .. BucketCount
             /\ s[i] \in RolloutInput
  <2>1. i # 1 => i - 1 \in 1 .. n /\ q[i - 1].end < q[i].end /\ q[i - 1].end \in 1 .. BucketCount
    BY <1>2, <1>3
  <2>2. /\ s[i].variation = q[i].variation
        /\ s[i].share = q[i].end - (IF i = 1 THEN 0 ELSE q[i - 1].end)
    BY <1>4
  <2>3. s[i].share \in 1 .. BucketCount
    BY <1>0, <1>2, <2>1, <2>2
  <2>4. s[i] \in RolloutInput
    BY <1>2, <1>4, <2>2, <2>3 DEF RolloutInput
  <2> QED BY <2>2, <2>3, <2>4
<1>6. s \in Seq(RolloutInput) /\ Len(s) = n /\ DOMAIN s = 1 .. n
  <2>1. s \in [1 .. n -> RolloutInput]
    BY <1>4, <1>5
  <2> QED BY <1>2, <2>1
<1>7. /\ Allocations(s) \in Seq(Allocation) /\ Len(Allocations(s)) = n
      /\ \A i \in 1 .. n :
           /\ Allocations(s)[i].variation = s[i].variation
           /\ Allocations(s)[i].end =
                s[i].share + (IF i = 1 THEN 0 ELSE Allocations(s)[i - 1].end)
  BY <1>6, Cumulative
<1> DEFINE A == Allocations(s)
<1> HIDE DEF A
<1>8. \A i \in 1 .. n : A[i].end = q[i].end
  <2> DEFINE Bad == {i \in Nat : i \in 1 .. n /\ A[i].end # q[i].end}
  <2>1. SUFFICES ASSUME Bad # {}
                 PROVE  FALSE
    BY <1>2
  <2>2. PICK m \in Bad : \A k \in Bad : m <= k
    BY <2>1, Least
  <2>3. m = 1 \/ (m - 1 \in 1 .. n /\ A[m - 1].end = q[m - 1].end)
    BY <1>2, <2>2
  <2>4. A[m].end = s[m].share + (IF m = 1 THEN 0 ELSE A[m - 1].end)
    BY <1>7, <2>2 DEF A
  <2>5. s[m].share = q[m].end - (IF m = 1 THEN 0 ELSE q[m - 1].end)
    BY <1>5, <2>2
  <2>6. q[m].end \in Int /\ (m # 1 => q[m - 1].end \in Int)
    BY <1>2, <2>2, <2>3
  <2> QED BY <2>2, <2>3, <2>4, <2>5, <2>6
<1>9. A = q
  <2>1. \A i \in 1 .. n : A[i] \in Allocation
    BY <1>2, <1>7 DEF A
  <2>2. ASSUME NEW i \in 1 .. n
        PROVE  A[i] = q[i]
    <3>1. A[i].variation = q[i].variation /\ A[i].end = q[i].end
      BY <1>5, <1>7, <1>8 DEF A
    <3> QED BY <1>2, <2>1, <3>1, SameAllocation
  <2>3. A = [i \in 1 .. n |-> A[i]] /\ q = [i \in 1 .. n |-> q[i]]
    BY <1>1, <1>2, <1>7 DEF A, Lists
  <2> QED BY <2>2, <2>3
<1>10. s = <<>> <=> R = {}
  BY <1>1, <1>2, <1>6 DEF Lists
<1>11. CompleteRollout(s)
  <2>1. \A i \in DOMAIN s : s[i].share \in 1 .. BucketCount
    BY <1>5, <1>6
  <2>2. ASSUME s # <<>>
        PROVE  Last(A).end = BucketCount
    <3>1. n > 0 /\ R # {}
      BY <1>2, <1>6, <1>10, <2>2
    <3>2. PICK a \in R : a.end = BucketCount
      BY <3>1 DEF Tiled
    <3>3. PICK i \in 1 .. n : q[i] = a
      BY <1>1 DEF Lists
    <3>4. n \in Nat /\ n \in 1 .. n /\ (i = n \/ i < n)
      <4>1. n \in Nat
        BY <1>2
      <4> HIDE DEF n
      <4> QED BY <3>1, <4>1
    <3>5. q[n].end = BucketCount
      <4>1. q[n].end \in 1 .. BucketCount /\ q[i].end = BucketCount
        BY <1>2, <3>2, <3>3, <3>4
      <4>2. i = n \/ q[i].end < q[n].end
        BY <1>3, <3>4
      <4> QED BY <1>0, <4>1, <4>2
    <3>6. Len(A) = n
      BY <1>7 DEF A
    <3> QED BY <1>9, <3>5, <3>6 DEF Last
  <2> QED BY <2>1, <2>2 DEF CompleteRollout, A
<1>12. \A v \in Allotted(s) : \E a \in R : a.variation = v
  BY <1>2, <1>5, <1>6 DEF Allotted
<1> QED BY <1>1, <1>3, <1>6, <1>9, <1>10, <1>11, <1>12 DEF A, s, q

-----------------------------------------------------------------------------
(* The row of a flag: what Persist(Build(..)) makes of an accepted payload.*)

SoundFlag(r) ==
    /\ r \in FlagRow /\ Sound(r, r.variations) /\ r.default \in r.variations
    /\ r.rollout = {} \/ r.stages = {}
    /\ IsFiniteSet(r.rules)
    /\ \A rule \in r.rules : SoundRule(rule, r.variations)
    /\ \A one, two \in r.rules : one.priority = two.priority => one = two

StoredRule(rule) ==
    [priority |-> rule.priority, when |-> rule.when, variation |-> rule.variation,
     rollout |-> ToSet(Allocations(rule.rollout)), stages |-> ToSet(rule.stages)]

LEMMA StoredFlag ==
    ASSUME NEW p \in FlagInput, NEW salt
    PROVE  Persist(Build(p, salt)) =
             [enabled |-> p.enabled, default |-> p.default, variations |-> p.variations,
              rules |-> {StoredRule(p.rules[i]) : i \in DOMAIN p.rules},
              rollout |-> ToSet(Allocations(p.rollout)), stages |-> ToSet(p.stages),
              salt |-> salt]
<1> DEFINE c == Build(p, salt)
           stored == {[c.rules[i] EXCEPT !.rollout = ToSet(@), !.stages = ToSet(@)] :
                        i \in DOMAIN c.rules}
<1>1. DOMAIN p.rules = DOMAIN c.rules /\ \A i \in DOMAIN p.rules : p.rules[i] \in RuleInput
  BY DEF FlagInput, Build
<1>2. ASSUME NEW i \in DOMAIN p.rules
      PROVE  [c.rules[i] EXCEPT !.rollout = ToSet(@), !.stages = ToSet(@)]
               = StoredRule(p.rules[i])
  <2>1. c.rules[i] = [p.rules[i] EXCEPT !.rollout = Allocations(@)]
    BY DEF Build
  <2>2. p.rules[i] \in RuleInput
    BY <1>1
  <2> DEFINE rule == p.rules[i]
             A == Allocations(rule.rollout)
             b == c.rules[i]
  <2> HIDE DEF rule, A, b, c
  <2>3. rule = [priority |-> rule.priority, when |-> rule.when, variation |-> rule.variation,
                rollout |-> rule.rollout, stages |-> rule.stages]
    BY <2>2 DEF RuleInput, rule
  <2>4. b = [priority |-> rule.priority, when |-> rule.when, variation |-> rule.variation,
             rollout |-> A, stages |-> rule.stages]
    <3>1. b = [rule EXCEPT !.rollout = A]
      BY <2>1 DEF rule, A, b
    <3> QED BY <2>3, <3>1
  <2>5. b.rollout = A /\ b.stages = rule.stages
    BY <2>4
  <2> DEFINE d == [b EXCEPT !.rollout = ToSet(A)]
  <2>6. d = [priority |-> rule.priority, when |-> rule.when, variation |-> rule.variation,
             rollout |-> ToSet(A), stages |-> rule.stages]
    BY <2>4
  <2>7. [b EXCEPT !.rollout = ToSet(b.rollout), !.stages = ToSet(b.stages)] =
          [d EXCEPT !.stages = ToSet(rule.stages)]
    BY <2>5
  <2> HIDE DEF d
  <2>8. [d EXCEPT !.stages = ToSet(rule.stages)] =
          [priority |-> rule.priority, when |-> rule.when, variation |-> rule.variation,
           rollout |-> ToSet(A), stages |-> ToSet(rule.stages)]
    BY <2>6
  <2> QED BY <2>7, <2>8 DEF StoredRule, rule, A, b
<1>3. stored = {StoredRule(p.rules[i]) : i \in DOMAIN p.rules}
  BY <1>1, <1>2
<1>4. Persist(c) = [c EXCEPT !.rules = stored, !.rollout = ToSet(@), !.stages = ToSet(@)]
  BY DEF Persist
<1> HIDE DEF stored
<1> QED BY <1>3, <1>4 DEF Build

LEMMA RuleIsStored ==
    ASSUME EvaluationAssumption, NEW rule \in RuleInput, NEW V \in SUBSET Variation,
           OneAction(rule), CompleteRollout(rule.rollout),
           {rule.variation} \ {NoVariation} \subseteq V,
           Allotted(rule.rollout) \subseteq V, Served(rule.stages) \subseteq V
    PROVE  StoredRule(rule) \in RuleRow /\ SoundRule(StoredRule(rule), V)
<1>1. rule.rollout \in Seq(RolloutInput) /\ rule.stages \in Seq(ProgressiveStage)
  BY DEF RuleInput
<1> DEFINE A == ToSet(Allocations(rule.rollout))
           T == ToSet(rule.stages)
<1>2. /\ Tiled(A) /\ (A = {} <=> rule.rollout = <<>>)
      /\ \A a \in A : a.variation \in V
  BY <1>1, SharesTile
<1>3. IsFiniteSet(T) /\ T \subseteq ProgressiveStage /\ (T = {} <=> rule.stages = <<>>)
  BY <1>1, SeqFinite
<1>4. \A st \in T : st.variation \in V /\ st.fallback \in V
  BY DEF Served, ToSet
<1> HIDE DEF A, T
<1>5. StoredRule(rule) = [priority |-> rule.priority, when |-> rule.when,
                          variation |-> rule.variation, rollout |-> A, stages |-> T]
  BY DEF StoredRule, A, T
<1>6. A \subseteq Allocation
  BY <1>2 DEF Tiled
<1>7. StoredRule(rule) \in RuleRow
  BY <1>3, <1>5, <1>6 DEF RuleRow, RuleInput
<1>8. Sound(StoredRule(rule), V)
  BY <1>2, <1>3, <1>4, <1>5 DEF Sound
<1>9. SoundRule(StoredRule(rule), V)
  BY <1>2, <1>3, <1>5, <1>8 DEF SoundRule, OneAction
<1> QED BY <1>7, <1>9

LEMMA AcceptedIsSound ==
    ASSUME EvaluationAssumption, NEW p \in FlagInput, Accepted(p), NEW salt \in Salt
    PROVE  SoundFlag(Persist(Build(p, salt)))
<1> DEFINE r == Persist(Build(p, salt))
           n == Len(p.rules)
           A == ToSet(Allocations(p.rollout))
           T == ToSet(p.stages)
           V == p.variations
           R == {StoredRule(p.rules[i]) : i \in DOMAIN p.rules}
<1>1. r = [enabled |-> p.enabled, default |-> p.default, variations |-> V,
           rules |-> R, rollout |-> A, stages |-> T, salt |-> salt]
  BY StoredFlag
<1>2. /\ p.rollout \in Seq(RolloutInput) /\ p.stages \in Seq(ProgressiveStage)
      /\ p.rules \in Seq(RuleInput) /\ V \in SUBSET Variation
      /\ p.enabled \in BOOLEAN /\ p.default \in Variation
  BY DEF FlagInput
<1>3. /\ p.default \in V /\ Allotted(p.rollout) \subseteq V /\ Served(p.stages) \subseteq V
      /\ \A i \in DOMAIN p.rules :
           /\ {p.rules[i].variation} \ {NoVariation} \subseteq V
           /\ Allotted(p.rules[i].rollout) \subseteq V /\ Served(p.rules[i].stages) \subseteq V
  BY DEF Accepted, References
<1>4. /\ Tiled(A) /\ (A = {} <=> p.rollout = <<>>)
      /\ \A a \in A : a.variation \in V
  BY <1>2, <1>3, SharesTile DEF Accepted
<1>5. /\ IsFiniteSet(T) /\ T \subseteq ProgressiveStage /\ (T = {} <=> p.stages = <<>>)
  BY <1>2, SeqFinite
<1>6. \A st \in T : st.variation \in V /\ st.fallback \in V
  BY <1>3 DEF Served, ToSet
<1>7. n \in Nat /\ DOMAIN p.rules = 1 .. n /\ \A i \in 1 .. n : p.rules[i] \in RuleInput
  BY <1>2
<1>8. ASSUME NEW i \in 1 .. n
      PROVE  StoredRule(p.rules[i]) \in RuleRow /\ SoundRule(StoredRule(p.rules[i]), V)
  <2>1. OneAction(p.rules[i]) /\ CompleteRollout(p.rules[i].rollout)
    BY <1>7 DEF Accepted
  <2> QED BY <1>2, <1>3, <1>7, <2>1, RuleIsStored
<1>9. IsFiniteSet(R)
  <2> DEFINE f == [i \in 1 .. n |-> StoredRule(p.rules[i])]
  <2>1. f \in Surjection(1 .. n, R)
    BY <1>7 DEF Surjection
  <2>2. IsFiniteSet(1 .. n)
    BY <1>7, FS_Interval
  <2> QED BY <2>1, <2>2, FS_Surjection
<1>10. \A rule \in R : rule \in RuleRow /\ SoundRule(rule, V)
  BY <1>7, <1>8
<1>11. ASSUME NEW rule \in R, NEW other \in R, rule.priority = other.priority
       PROVE  rule = other
  <2>1. PICK i \in 1 .. n : rule = StoredRule(p.rules[i])
    BY <1>7
  <2>2. PICK j \in 1 .. n : other = StoredRule(p.rules[j])
    BY <1>7
  <2>3. p.rules[i].priority = p.rules[j].priority
    BY <1>11, <2>1, <2>2 DEF StoredRule
  <2>4. i = j
    BY <1>7, <2>3 DEF Accepted
  <2> QED BY <2>1, <2>2, <2>4
<1>12. A = {} \/ T = {}
  BY <1>4, <1>5 DEF Accepted
<1> HIDE DEF r, A, T, R
<1>13. r \in FlagRow
  BY <1>1, <1>2, <1>4, <1>5, <1>10 DEF FlagRow, Tiled
<1>14. Sound(r, r.variations)
  BY <1>1, <1>4, <1>5, <1>6 DEF Sound
<1>15. SoundFlag(r)
  BY <1>1, <1>3, <1>9, <1>10, <1>11, <1>12, <1>13, <1>14 DEF SoundFlag
<1> QED BY <1>15 DEF r

-----------------------------------------------------------------------------
(* What a load gives, in whatever order the rows come.                     *)

LoadedRule(c, rule) ==
    /\ c = [priority |-> rule.priority, when |-> rule.when, variation |-> rule.variation,
            rollout |-> ByEnd(rule.rollout), stages |-> c.stages]
    /\ Lists(c.stages, rule.stages)

LoadedFlag(c, r) ==
    /\ c = [enabled |-> r.enabled, default |-> r.default, variations |-> r.variations,
            rules |-> c.rules, rollout |-> ByEnd(r.rollout), stages |-> c.stages,
            salt |-> r.salt]
    /\ Lists(c.stages, r.stages)
    /\ Len(c.rules) \in Nat /\ DOMAIN c.rules = 1 .. Len(c.rules)
    /\ c.rules = [i \in 1 .. Len(c.rules) |-> c.rules[i]]
    /\ \A i \in 1 .. Len(c.rules) : \E rule \in r.rules : LoadedRule(c.rules[i], rule)
    /\ \A rule \in r.rules : \E i \in 1 .. Len(c.rules) : LoadedRule(c.rules[i], rule)
    /\ \A i, j \in 1 .. Len(c.rules) : i < j => c.rules[i].priority < c.rules[j].priority

CompiledRule(rule, rank) ==
    [priority |-> rule.priority, when |-> rule.when, variation |-> rule.variation,
     rollout |-> ByEnd(rule.rollout), stages |-> SortedBy(rule.stages, rank)]

LEMMA CompiledFlag ==
    ASSUME NEW r \in FlagRow, NEW rank
    PROVE  Compile(r, rank) =
             [enabled |-> r.enabled, default |-> r.default, variations |-> r.variations,
              rules |-> ByPriority({CompiledRule(rule, rank) : rule \in r.rules}),
              rollout |-> ByEnd(r.rollout), stages |-> SortedBy(r.stages, rank),
              salt |-> r.salt]
<1>1. ASSUME NEW rule \in r.rules
      PROVE  [rule EXCEPT !.rollout = ByEnd(@), !.stages = SortedBy(@, rank)]
               = CompiledRule(rule, rank)
  <2>1. rule \in RuleRow
    BY DEF FlagRow
  <2>2. rule = [priority |-> rule.priority, when |-> rule.when, variation |-> rule.variation,
                rollout |-> rule.rollout, stages |-> rule.stages]
    BY <2>1 DEF RuleRow
  <2> DEFINE d == [rule EXCEPT !.rollout = ByEnd(rule.rollout)]
  <2>3. d = [priority |-> rule.priority, when |-> rule.when, variation |-> rule.variation,
             rollout |-> ByEnd(rule.rollout), stages |-> rule.stages]
    BY <2>2
  <2>4. [rule EXCEPT !.rollout = ByEnd(rule.rollout), !.stages = SortedBy(rule.stages, rank)]
          = [d EXCEPT !.stages = SortedBy(rule.stages, rank)]
    OBVIOUS
  <2> HIDE DEF d
  <2>5. [d EXCEPT !.stages = SortedBy(rule.stages, rank)] = CompiledRule(rule, rank)
    BY <2>3 DEF CompiledRule
  <2> QED BY <2>4, <2>5
<1> DEFINE R == {[rule EXCEPT !.rollout = ByEnd(@), !.stages = SortedBy(@, rank)] :
                   rule \in r.rules}
<1>2. R = {CompiledRule(rule, rank) : rule \in r.rules}
  BY <1>1
<1>3. Compile(r, rank) = [r EXCEPT !.rules = ByPriority(R), !.rollout = ByEnd(r.rollout),
                                   !.stages = SortedBy(r.stages, rank)]
  BY DEF Compile
<1> HIDE DEF R
<1>4. r = [enabled |-> r.enabled, default |-> r.default, variations |-> r.variations,
           rules |-> r.rules, rollout |-> r.rollout, stages |-> r.stages, salt |-> r.salt]
  BY DEF FlagRow
<1> DEFINE d == [r EXCEPT !.rules = ByPriority(R)]
           e == [d EXCEPT !.rollout = ByEnd(r.rollout)]
<1>5. d = [enabled |-> r.enabled, default |-> r.default, variations |-> r.variations,
           rules |-> ByPriority(R), rollout |-> r.rollout, stages |-> r.stages,
           salt |-> r.salt]
  BY <1>4
<1>6. Compile(r, rank) = [e EXCEPT !.stages = SortedBy(r.stages, rank)]
  BY <1>3
<1> HIDE DEF d
<1>7. e = [enabled |-> r.enabled, default |-> r.default, variations |-> r.variations,
           rules |-> ByPriority(R), rollout |-> ByEnd(r.rollout), stages |-> r.stages,
           salt |-> r.salt]
  BY <1>5
<1> HIDE DEF e
<1>8. [e EXCEPT !.stages = SortedBy(r.stages, rank)] =
          [enabled |-> r.enabled, default |-> r.default, variations |-> r.variations,
           rules |-> ByPriority(R), rollout |-> ByEnd(r.rollout),
           stages |-> SortedBy(r.stages, rank), salt |-> r.salt]
  BY <1>7
<1> QED BY <1>2, <1>6, <1>8

LEMMA LoadsAreLoaded ==
    ASSUME NEW r, SoundFlag(r), NEW c \in Loads(r)
    PROVE  LoadedFlag(c, r)
<1>1. PICK rank \in Ranks(r) : c = Compile(r, rank)
  BY DEF Loads
<1> DEFINE R == {CompiledRule(rule, rank) : rule \in r.rules}
           key == [rule \in R |-> rule.priority]
<1>2. c = [enabled |-> r.enabled, default |-> r.default, variations |-> r.variations,
           rules |-> ByPriority(R), rollout |-> ByEnd(r.rollout),
           stages |-> SortedBy(r.stages, rank), salt |-> r.salt]
  BY <1>1, CompiledFlag DEF SoundFlag
<1>3. /\ \A st \in Stages(r) : rank[st] \in Int
      /\ \A s, t \in Stages(r) : rank[s] = rank[t] => s = t
  BY DEF Ranks
<1>4. ASSUME NEW S \in SUBSET Stages(r), IsFiniteSet(S)
      PROVE  Lists(SortedBy(S, rank), S)
  BY <1>3, <1>4, Sorted DEF Distinct
<1>5. Lists(c.stages, r.stages)
  BY <1>2, <1>4 DEF Stages, SoundFlag, Sound
<1>6. ASSUME NEW rule \in r.rules
      PROVE  /\ LoadedRule(CompiledRule(rule, rank), rule)
             /\ CompiledRule(rule, rank).priority = rule.priority /\ rule.priority \in Int
  <2>1. Lists(SortedBy(rule.stages, rank), rule.stages)
    BY <1>4 DEF Stages, SoundFlag, SoundRule, Sound
  <2>2. rule.priority \in Int
    BY DEF SoundFlag, FlagRow, RuleRow
  <2> QED BY <2>1, <2>2 DEF LoadedRule, CompiledRule
<1>7. IsFiniteSet(R)
  <2> DEFINE f == [rule \in r.rules |-> CompiledRule(rule, rank)]
  <2>1. f \in Surjection(r.rules, R)
    BY DEF Surjection
  <2> QED BY <2>1, FS_Surjection DEF SoundFlag
<1>8. \A rule \in R : key[rule] \in Int /\ key[rule] = rule.priority
  BY <1>6
<1>9. Distinct(R, key)
  <2>1. ASSUME NEW x \in R, NEW y \in R, key[x] = key[y]
        PROVE  x = y
    <3>1. PICK s \in r.rules : x = CompiledRule(s, rank)
      OBVIOUS
    <3>2. PICK t \in r.rules : y = CompiledRule(t, rank)
      OBVIOUS
    <3>3. s.priority = t.priority
      BY <1>6, <1>8, <2>1, <3>1, <3>2
    <3> QED BY <3>1, <3>2, <3>3 DEF SoundFlag
  <2> QED BY <2>1 DEF Distinct
<1> DEFINE q == c.rules
<1>10. q = SortedBy(R, key)
  BY <1>2 DEF ByPriority
<1> HIDE DEF key, q
<1>11. /\ Lists(q, R)
       /\ \A i, j \in 1 .. Len(q) : i < j => key[q[i]] < key[q[j]]
  BY <1>7, <1>8, <1>9, <1>10, Sorted
<1>12. \A i, j \in 1 .. Len(q) : i < j => q[i].priority < q[j].priority
  BY <1>8, <1>11 DEF Lists
<1>13. \A i \in 1 .. Len(q) : \E rule \in r.rules : LoadedRule(q[i], rule)
  BY <1>6, <1>11 DEF Lists
<1>14. \A rule \in r.rules : \E i \in 1 .. Len(q) : LoadedRule(q[i], rule)
  BY <1>6, <1>11 DEF Lists
<1>15. Len(q) \in Nat /\ DOMAIN q = 1 .. Len(q) /\ q = [i \in 1 .. Len(q) |-> q[i]]
  BY <1>11 DEF Lists
<1>16. c = [enabled |-> r.enabled, default |-> r.default, variations |-> r.variations,
            rules |-> c.rules, rollout |-> ByEnd(r.rollout), stages |-> c.stages,
            salt |-> r.salt]
  BY <1>2
<1> QED BY <1>5, <1>12, <1>13, <1>14, <1>15, <1>16 DEF LoadedFlag, q

-----------------------------------------------------------------------------
(* What is read back is accepted, and stored as it was.                    *)

LEMMA RuleReturns ==
    ASSUME EvaluationAssumption, NEW V \in SUBSET Variation,
           NEW rule \in RuleRow, SoundRule(rule, V), NEW c, LoadedRule(c, rule)
    PROVE  LET u == [c EXCEPT !.rollout = Shares(@)]
           IN  /\ u \in RuleInput /\ u.priority = rule.priority
               /\ OneAction(u) /\ CompleteRollout(u.rollout)
               /\ {u.variation} \ {NoVariation} \subseteq V
               /\ Allotted(u.rollout) \subseteq V /\ Served(u.stages) \subseteq V
               /\ StoredRule(u) = rule
<1> DEFINE u == [c EXCEPT !.rollout = Shares(@)]
           R == rule.rollout
           s == Shares(ByEnd(R))
<1>1. /\ rule = [priority |-> rule.priority, when |-> rule.when,
                 variation |-> rule.variation, rollout |-> R, stages |-> rule.stages]
      /\ rule.priority \in Int /\ rule.when \in SUBSET Condition
      /\ rule.variation \in Variation \cup {NoVariation}
      /\ rule.stages \subseteq ProgressiveStage
  BY DEF RuleRow
<1>2. /\ c = [priority |-> rule.priority, when |-> rule.when, variation |-> rule.variation,
              rollout |-> ByEnd(R), stages |-> c.stages]
      /\ Lists(c.stages, rule.stages)
  BY DEF LoadedRule
<1> HIDE DEF R
<1>3. u = [priority |-> rule.priority, when |-> rule.when, variation |-> rule.variation,
           rollout |-> s, stages |-> c.stages]
  <2>1. c.rollout = ByEnd(R)
    BY <1>2
  <2>2. u = [c EXCEPT !.rollout = s]
    BY <2>1
  <2> HIDE DEF s, u
  <2> QED BY <1>2, <2>2
<1> HIDE DEF u, s
<1>4. Sound(rule, V) /\ Tiled(R)
  BY DEF SoundRule, Sound, R
<1>5. /\ s \in Seq(RolloutInput) /\ CompleteRollout(s)
      /\ Lists(ByEnd(R), R) /\ Allocations(s) = ByEnd(R)
      /\ s = <<>> <=> R = {}
      /\ \A v \in Allotted(s) : \E a \in R : a.variation = v
  BY <1>4, TilesShare DEF s
<1>6. /\ c.stages \in Seq(rule.stages) /\ ToSet(c.stages) = rule.stages
      /\ c.stages = <<>> <=> rule.stages = {}
  BY <1>2, ListIsSeq
<1>7. c.stages \in Seq(ProgressiveStage)
  BY <1>1, <1>6
<1>8. u \in RuleInput /\ u.priority = rule.priority
  BY <1>1, <1>3, <1>5, <1>7 DEF RuleInput
<1>9. CompleteRollout(u.rollout)
  BY <1>3, <1>5
<1>10. Allotted(u.rollout) \subseteq V
  BY <1>3, <1>4, <1>5 DEF Sound, R
<1>11. Served(u.stages) \subseteq V
  <2>1. \A i \in DOMAIN c.stages : c.stages[i] \in rule.stages
    BY <1>6 DEF ToSet
  <2>2. \A i \in DOMAIN c.stages : c.stages[i].variation \in V /\ c.stages[i].fallback \in V
    BY <1>4, <2>1 DEF Sound
  <2>3. u.stages = c.stages
    BY <1>3
  <2> QED BY <2>2, <2>3 DEF Served
<1>12. OneAction(u)
  <2>1. /\ u.variation = rule.variation /\ (u.rollout = <<>> <=> R = {})
        /\ (u.stages = <<>> <=> rule.stages = {})
    BY <1>3, <1>5, <1>6
  <2>2. rule.variation \in V => rule.variation # NoVariation
    BY DEF EvaluationAssumption
  <2> QED BY <2>1, <2>2 DEF OneAction, SoundRule, R
<1>13. {u.variation} \ {NoVariation} \subseteq V
  BY <1>3 DEF SoundRule
<1>14. StoredRule(u) = rule
  <2>1. ToSet(ByEnd(R)) = R
    BY <1>5, ListIsSeq
  <2>2. StoredRule(u) = [priority |-> rule.priority, when |-> rule.when,
                         variation |-> rule.variation, rollout |-> R,
                         stages |-> rule.stages]
    BY <1>3, <1>5, <1>6, <2>1 DEF StoredRule
  <2> QED BY <1>1, <2>2
<1> QED BY <1>8, <1>9, <1>10, <1>11, <1>12, <1>13, <1>14 DEF u

LEMMA FlagReturns ==
    ASSUME EvaluationAssumption, NEW r, SoundFlag(r), NEW c, LoadedFlag(c, r)
    PROVE  /\ UpdateOf(c) \in FlagInput /\ Accepted(UpdateOf(c))
           /\ Persist(Build(UpdateOf(c), r.salt)) = r
<1> DEFINE u == UpdateOf(c)
           V == r.variations
           n == Len(c.rules)
           s == Shares(ByEnd(r.rollout))
           returned == [i \in 1 .. n |-> [c.rules[i] EXCEPT !.rollout = Shares(@)]]
<1>1. /\ r = [enabled |-> r.enabled, default |-> r.default, variations |-> V,
              rules |-> r.rules, rollout |-> r.rollout, stages |-> r.stages,
              salt |-> r.salt]
      /\ r.enabled \in BOOLEAN /\ r.default \in Variation /\ V \in SUBSET Variation
      /\ r.rules \subseteq RuleRow /\ r.stages \subseteq ProgressiveStage
  BY DEF SoundFlag, FlagRow
<1>2. /\ c = [enabled |-> r.enabled, default |-> r.default, variations |-> V,
              rules |-> c.rules, rollout |-> ByEnd(r.rollout), stages |-> c.stages,
              salt |-> r.salt]
      /\ Lists(c.stages, r.stages)
      /\ n \in Nat /\ DOMAIN c.rules = 1 .. n
  BY DEF LoadedFlag
<1>3. u = [enabled |-> r.enabled, default |-> r.default, variations |-> V,
           rules |-> returned, rollout |-> s, stages |-> c.stages]
  <2>1. c.enabled = r.enabled /\ c.default = r.default /\ c.variations = V
        /\ c.rollout = ByEnd(r.rollout)
    BY <1>2
  <2> QED BY <1>2, <2>1 DEF UpdateOf
<1>4. Tiled(r.rollout) /\ Sound(r, V)
  BY DEF SoundFlag, Sound
<1>5. /\ s \in Seq(RolloutInput) /\ CompleteRollout(s)
      /\ Lists(ByEnd(r.rollout), r.rollout) /\ Allocations(s) = ByEnd(r.rollout)
      /\ s = <<>> <=> r.rollout = {}
      /\ \A v \in Allotted(s) : \E a \in r.rollout : a.variation = v
  BY <1>4, TilesShare
<1>6. /\ c.stages \in Seq(r.stages) /\ ToSet(c.stages) = r.stages
      /\ c.stages = <<>> <=> r.stages = {}
  BY <1>2, ListIsSeq
<1>7. c.stages \in Seq(ProgressiveStage)
  BY <1>1, <1>6
<1> HIDE DEF s
<1>8. ASSUME NEW i \in 1 .. n, NEW rule \in r.rules, LoadedRule(c.rules[i], rule)
      PROVE  /\ returned[i] \in RuleInput /\ returned[i].priority = rule.priority
             /\ OneAction(returned[i]) /\ CompleteRollout(returned[i].rollout)
             /\ {returned[i].variation} \ {NoVariation} \subseteq V
             /\ Allotted(returned[i].rollout) \subseteq V /\ Served(returned[i].stages) \subseteq V
             /\ StoredRule(returned[i]) = rule
  <2>1. rule \in RuleRow /\ SoundRule(rule, V)
    BY <1>1 DEF SoundFlag
  <2>2. returned[i] = [c.rules[i] EXCEPT !.rollout = Shares(@)]
    OBVIOUS
  <2> QED BY <1>1, <1>8, <2>1, <2>2, RuleReturns
<1>9. /\ \A i \in 1 .. n : \E rule \in r.rules : LoadedRule(c.rules[i], rule)
      /\ \A rule \in r.rules : \E i \in 1 .. n : LoadedRule(c.rules[i], rule)
      /\ \A i, j \in 1 .. n : i < j => c.rules[i].priority < c.rules[j].priority
  BY DEF LoadedFlag
<1>10. ASSUME NEW i \in 1 .. n
       PROVE  /\ returned[i] \in RuleInput
              /\ OneAction(returned[i]) /\ CompleteRollout(returned[i].rollout)
              /\ {returned[i].variation} \ {NoVariation} \subseteq V
              /\ Allotted(returned[i].rollout) \subseteq V /\ Served(returned[i].stages) \subseteq V
              /\ returned[i].priority = c.rules[i].priority /\ c.rules[i].priority \in Int
              /\ StoredRule(returned[i]) \in r.rules
  <2>1. PICK rule \in r.rules : LoadedRule(c.rules[i], rule)
    BY <1>9
  <2>2. c.rules[i].priority = rule.priority
    BY <2>1 DEF LoadedRule
  <2>3. rule.priority \in Int
    BY <1>1 DEF RuleRow
  <2> HIDE DEF returned
  <2> QED BY <1>8, <2>1, <2>2, <2>3
<1>11. \A i, j \in 1 .. n : returned[i].priority = returned[j].priority => i = j
  <2>1. ASSUME NEW i \in 1 .. n, NEW j \in 1 .. n, i # j
        PROVE  returned[i].priority # returned[j].priority
    <3>1. i < j \/ j < i
      BY <2>1
    <3>2. c.rules[i].priority # c.rules[j].priority
      <4>1. c.rules[i].priority \in Int /\ c.rules[j].priority \in Int
        BY <1>10
      <4>2. \/ c.rules[i].priority < c.rules[j].priority
            \/ c.rules[j].priority < c.rules[i].priority
        BY <1>9, <3>1, Zenon
      <4> QED BY <4>1, <4>2
    <3> HIDE DEF returned
    <3> QED BY <1>10, <3>2
  <2> QED BY <2>1
<1>12. DOMAIN returned = 1 .. n
  OBVIOUS
<1> HIDE DEF returned
<1>13. returned \in Seq(RuleInput)
  <2>1. returned = [i \in 1 .. n |-> returned[i]]
    BY DEF returned
  <2>2. returned \in [1 .. n -> RuleInput]
    BY <1>10, <2>1
  <2> QED BY <1>2, <2>2
<1>14. u \in FlagInput
  BY <1>1, <1>3, <1>5, <1>7, <1>13 DEF FlagInput
<1>15. Allotted(s) \subseteq V
  BY <1>4, <1>5 DEF Sound
<1>16. Served(c.stages) \subseteq V
  <2>1. \A i \in DOMAIN c.stages : c.stages[i] \in r.stages
    BY <1>6 DEF ToSet
  <2>2. \A i \in DOMAIN c.stages : c.stages[i].variation \in V /\ c.stages[i].fallback \in V
    BY <1>4, <2>1 DEF Sound
  <2> QED BY <2>2 DEF Served
<1> DEFINE p == u
<1>17. /\ p.default = r.default /\ p.variations = V /\ p.rules = returned /\ p.rollout = s
       /\ p.stages = c.stages /\ p.enabled = r.enabled
  BY <1>3
<1> HIDE DEF p
<1>18. References(p) \subseteq V
  <2>1. r.default \in V
    BY DEF SoundFlag
  <2>2. \A i \in DOMAIN p.rules :
          ({p.rules[i].variation} \ {NoVariation})
             \cup Allotted(p.rules[i].rollout) \cup Served(p.rules[i].stages) \subseteq V
    BY <1>10, <1>12, <1>17
  <2> QED BY <1>15, <1>16, <1>17, <2>1, <2>2 DEF References
<1>19. Accepted(p)
  <2>1. s = <<>> \/ c.stages = <<>>
    BY <1>5, <1>6 DEF SoundFlag
  <2>2. \A i, j \in DOMAIN p.rules : i # j => p.rules[i].priority # p.rules[j].priority
    BY <1>11, <1>12, <1>17
  <2>3. \A i \in DOMAIN p.rules : OneAction(p.rules[i]) /\ CompleteRollout(p.rules[i].rollout)
    BY <1>10, <1>12, <1>17
  <2> QED BY <1>5, <1>17, <1>18, <2>1, <2>2, <2>3 DEF Accepted
<1>20. Persist(Build(p, r.salt)) = r
  <2>1. p \in FlagInput
    BY <1>14 DEF p
  <2>2. Persist(Build(p, r.salt)) =
          [enabled |-> r.enabled, default |-> r.default, variations |-> V,
           rules |-> {StoredRule(returned[i]) : i \in 1 .. n},
           rollout |-> ToSet(Allocations(s)), stages |-> ToSet(c.stages), salt |-> r.salt]
    <3>1. p.rules = returned /\ DOMAIN p.rules = 1 .. n
      BY <1>12, <1>17
    <3>2. {StoredRule(p.rules[i]) : i \in DOMAIN p.rules} =
            {StoredRule(returned[i]) : i \in 1 .. n}
      BY <3>1
    <3>3. Persist(Build(p, r.salt)) =
            [enabled |-> p.enabled, default |-> p.default, variations |-> p.variations,
             rules |-> {StoredRule(p.rules[i]) : i \in DOMAIN p.rules},
             rollout |-> ToSet(Allocations(p.rollout)), stages |-> ToSet(p.stages),
             salt |-> r.salt]
      BY <2>1, StoredFlag
    <3> QED BY <1>17, <3>2, <3>3
  <2>3. {StoredRule(returned[i]) : i \in 1 .. n} = r.rules
    <3>1. \A rule \in r.rules : \E i \in 1 .. n : StoredRule(returned[i]) = rule
      BY <1>8, <1>9
    <3> QED BY <1>10, <3>1
  <2>4. ToSet(Allocations(s)) = r.rollout
    BY <1>5, ListIsSeq
  <2> QED BY <1>1, <1>6, <2>2, <2>3, <2>4
<1> QED BY <1>14, <1>19, <1>20 DEF p

-----------------------------------------------------------------------------
(* The invariant: what is stored is sound.                                 *)

EInv == now \in Nat /\ SoundFlag(rows)

LEMMA SplitIsTyped ==
    ASSUME EvaluationAssumption, NEW change, change.variation \in Variation,
           change.fallback \in Variation, change.share \in 0 .. BucketCount
    PROVE  Split(change) \in Seq(RolloutInput)
<1> DEFINE taken == [variation |-> change.variation, share |-> change.share]
           left == [variation |-> change.fallback, share |-> BucketCount - change.share]
<1>1. taken \in RolloutInput /\ left \in RolloutInput
  BY DEF RolloutInput, EvaluationAssumption
<1>2. Split(change) \in {<<left>>, <<taken>>, <<taken, left>>}
  BY DEF Split
<1> HIDE DEF taken, left
<1>3. <<left>> \in Seq(RolloutInput) /\ <<taken>> \in Seq(RolloutInput)
  BY <1>1
<1>4. <<taken, left>> \in Seq(RolloutInput)
  BY <1>1
<1> QED BY <1>2, <1>3, <1>4

LEMMA EditIsTyped ==
    ASSUME EvaluationAssumption, NEW p \in FlagInput, NEW change \in ScheduledPayload
    PROVE  Edited(p, change) \in FlagInput
<1>1. CASE change \in [type : {"enable", "disable"}]
  BY <1>1 DEF Edited, FlagInput
<1>2. CASE change \in [type : {"variation"}, variation : Variation]
  <2>1. <<>> \in Seq(RolloutInput) /\ <<>> \in Seq(ProgressiveStage)
    OBVIOUS
  <2> QED BY <1>2, <2>1 DEF Edited, FlagInput
<1>3. CASE change \in [type : {"rollout_percentage"}, variation : Variation,
                       fallback : Variation, share : 0 .. BucketCount]
  <2>1. Split(change) \in Seq(RolloutInput) /\ <<>> \in Seq(ProgressiveStage)
    BY <1>3, SplitIsTyped
  <2>2. Edited(p, change) = [p EXCEPT !.stages = <<>>, !.rollout = Split(change)]
    BY <1>3 DEF Edited
  <2> QED BY <2>1, <2>2 DEF FlagInput
<1> QED BY <1>1, <1>2, <1>3 DEF ScheduledPayload

LEMMA InitEInv == EvalInit => EInv
<1> SUFFICES ASSUME EvalInit
             PROVE  EInv
  OBVIOUS
<1>1. PICK p \in Payload, salt \in Salt : Accepted(p) /\ rows = Persist(Build(p, salt))
  BY DEF EvalInit
<1>2. p \in FlagInput
  BY EvaluationAssumption DEF EvaluationAssumption
<1> QED BY <1>1, <1>2, AcceptedIsSound, EvaluationAssumption DEF EvalInit, EInv

LEMMA SaveEInv ==
    ASSUME EInv, NEW p \in FlagInput, Save(p)
    PROVE  EInv'
<1>1. rows.salt \in Salt
  BY DEF EInv, SoundFlag, FlagRow
<1> QED BY <1>1, AcceptedIsSound, EvaluationAssumption DEF Save, EInv

(* Every change saves an input.                                            *)
LEMMA ChangeSaves ==
    ASSUME EInv, Replace \/ AddRule \/ ApplyScheduled
    PROVE  \E p \in FlagInput : Save(p)
<1>1. CASE Replace
  BY <1>1, EvaluationAssumption DEF Replace, EvaluationAssumption
<1>2. ASSUME NEW c \in Loads(rows)
      PROVE  UpdateOf(c) \in FlagInput
  BY <1>2, LoadsAreLoaded, FlagReturns, EvaluationAssumption DEF EInv
<1>3. CASE AddRule
  <2>1. PICK c \in Loads(rows), rule \in NewRule :
          Save([UpdateOf(c) EXCEPT !.rules = Append(@, rule)])
    BY <1>3 DEF AddRule
  <2>2. UpdateOf(c) \in FlagInput /\ rule \in RuleInput
    BY <1>2, EvaluationAssumption DEF EvaluationAssumption
  <2>3. Append(UpdateOf(c).rules, rule) \in Seq(RuleInput)
    BY <2>2 DEF FlagInput
  <2>4. [UpdateOf(c) EXCEPT !.rules = Append(@, rule)] \in FlagInput
    BY <2>2, <2>3 DEF FlagInput
  <2> QED BY <2>1, <2>4
<1>4. CASE ApplyScheduled
  <2>1. PICK c \in Loads(rows), change \in Scheduled : Save(Edited(UpdateOf(c), change))
    BY <1>4 DEF ApplyScheduled
  <2>2. UpdateOf(c) \in FlagInput /\ change \in ScheduledPayload
    BY <1>2, EvaluationAssumption DEF EvaluationAssumption
  <2>3. Edited(UpdateOf(c), change) \in FlagInput
    BY <2>2, EditIsTyped, EvaluationAssumption
  <2> QED BY <2>1, <2>3
<1> QED BY <1>1, <1>3, <1>4

LEMMA NextEInv == EInv /\ [EvalNext]_evalvars => EInv'
<1> SUFFICES ASSUME EInv, [EvalNext]_evalvars
             PROVE  EInv'
  OBVIOUS
<1>1. CASE Replace \/ AddRule \/ ApplyScheduled
  BY <1>1, ChangeSaves, SaveEInv
<1>2. CASE Tick \/ UNCHANGED evalvars
  BY <1>2 DEF Tick, evalvars, EInv
<1> QED BY <1>1, <1>2 DEF EvalNext

(* A flag keeps the salt it was created with.                              *)
LEMMA SaltStays ==
    ASSUME EInv, [EvalNext]_evalvars
    PROVE  rows'.salt = rows.salt
<1>1. CASE Replace \/ AddRule \/ ApplyScheduled
  <2>1. PICK p \in FlagInput : Save(p)
    BY <1>1, ChangeSaves
  <2> QED BY <2>1, StoredFlag DEF Save
<1>2. CASE Tick \/ UNCHANGED evalvars
  BY <1>2 DEF Tick, evalvars
<1> QED BY <1>1, <1>2 DEF EvalNext

(* What is stored is always sound: no bucket without an allocation, no two *)
(* rules of one priority, nothing served that is no variation.             *)
THEOREM StoredIsSound == EvalSpec => []EInv
<1> QED BY InitEInv, NextEInv, PTL DEF EvalSpec

(* What is stored reads back, is accepted when it is sent back, and is then*)
(* stored as it was, in whatever order the database returns the rows.      *)
THEOREM NothingIsLost == EvalSpec => []RoundTrip
<1>1. EInv => RoundTrip
  <2> SUFFICES ASSUME EInv, NEW c \in Loads(rows)
               PROVE  Accepted(UpdateOf(c)) /\ Persist(Build(UpdateOf(c), c.salt)) = rows
    BY DEF RoundTrip
  <2>1. LoadedFlag(c, rows)
    BY LoadsAreLoaded DEF EInv
  <2>2. c.salt = rows.salt
    BY <2>1 DEF LoadedFlag
  <2> QED BY <2>1, <2>2, FlagReturns, EvaluationAssumption DEF EInv
<1> QED BY <1>1, StoredIsSound, PTL

-----------------------------------------------------------------------------
(* The engine.                                                             *)

LEMMA FirstIndex ==
    ASSUME NEW n \in Nat, NEW I \in SUBSET (1 .. n), I # {}
    PROVE  Min(I) \in I /\ \A j \in I : Min(I) <= j
<1>1. I \in SUBSET Nat
  OBVIOUS
<1>2. \E m \in I : \A j \in I : m <= j
  BY <1>1, Least
<1> QED BY <1>2 DEF Min

LEMMA LeastKey ==
    ASSUME NEW n \in Nat, n > 0, NEW key, \A i \in 1 .. n : key[i] \in Int
    PROVE  \E i \in 1 .. n : \A j \in 1 .. n : key[i] <= key[j]
<1> DEFINE Has(m) == \E i \in 1 .. m : \A j \in 1 .. m : key[i] <= key[j]
           Bad == {m \in Nat : m \in 1 .. n /\ ~ Has(m)}
<1>0. n \in 1 .. n
  OBVIOUS
<1>1. SUFFICES ASSUME Bad # {}
               PROVE  FALSE
  <2>1. Bad = {} => Has(n)
    <3> HIDE DEF Has
    <3> QED BY <1>0
  <2> QED BY <2>1
<1>2. PICK m \in Bad : \A k \in Bad : m <= k
  BY <1>1, Least
<1>3. m # 1
  <2>1. key[1] \in Int
    OBVIOUS
  <2>2. Has(1)
    BY <2>1
  <2> QED BY <1>2, <2>2
<1>4. m \in Nat /\ m - 1 \in 1 .. n /\ Has(m - 1)
  <2> HIDE DEF Has
  <2>1. m \in Nat /\ m \in 1 .. n /\ m - 1 \in 1 .. n /\ m - 1 \in Nat
    BY <1>2, <1>3
  <2>2. m - 1 \notin Bad
    <3>1. m - 1 \in Bad => m <= m - 1
      BY <1>2
    <3> HIDE DEF Bad
    <3> QED BY <2>1, <3>1
  <2> QED BY <2>1, <2>2
<1>5. PICK i \in 1 .. m - 1 : \A j \in 1 .. m - 1 : key[i] <= key[j]
  BY <1>4
<1>6. key[i] \in Int /\ key[m] \in Int
  BY <1>2, <1>4
<1>7. Has(m)
  <2>1. CASE key[i] <= key[m]
    <3>1. \A j \in 1 .. m : key[i] <= key[j]
      <4>1. \A j \in 1 .. m : j \in 1 .. m - 1 \/ j = m
        BY <1>4
      <4> QED BY <1>5, <2>1, <4>1
    <3>2. i \in 1 .. m
      BY <1>4
    <3> QED BY <3>1, <3>2
  <2>2. CASE key[m] <= key[i]
    <3>1. ASSUME NEW j \in 1 .. m
          PROVE  key[m] <= key[j]
      <4>1. CASE j = m
        BY <1>6, <4>1
      <4>2. CASE j # m
        <5>1. j \in 1 .. m - 1 /\ j \in 1 .. n
          BY <1>2, <1>4, <4>2
        <5>2. key[i] <= key[j] /\ key[j] \in Int
          BY <1>5, <5>1
        <5> QED BY <1>6, <2>2, <5>2
      <4> QED BY <4>1, <4>2
    <3>2. m \in 1 .. m
      BY <1>4, <1>3
    <3> QED BY <3>1, <3>2
  <2> QED BY <1>6, <2>1, <2>2
<1> QED BY <1>2, <1>7

(* A bucket is served from the first allocation that ends behind it.       *)
LEMMA RolloutServes ==
    ASSUME EvaluationAssumption, NEW R, Tiled(R), R # {}, NEW bucket \in Bucket
    PROVE  RolloutVariation(ByEnd(R), bucket) \in ByRollout(R, bucket)
<1> DEFINE q == ByEnd(R)
           n == Len(q)
           I == {i \in 1 .. n : bucket < q[i].end}
<1>1. /\ Lists(q, R)
      /\ \A i, j \in 1 .. n : i < j => q[i].end < q[j].end
  BY TilesShare
<1> HIDE DEF q
<1>2. bucket \in Nat /\ bucket < BucketCount /\ BucketCount \in Nat
  BY DEF Bucket, EvaluationAssumption
<1>3. n \in Nat /\ \A i \in 1 .. n : q[i] \in R /\ q[i].end \in Int
  BY <1>1 DEF Lists, Tiled
<1>4. I # {}
  <2>1. PICK a \in R : a.end = BucketCount
    BY DEF Tiled
  <2>2. PICK i \in 1 .. n : q[i] = a
    BY <1>1 DEF Lists
  <2> QED BY <1>2, <2>1, <2>2
<1>5. Min(I) \in I /\ \A j \in I : Min(I) <= j
  <2>1. I \in SUBSET (1 .. n)
    OBVIOUS
  <2> HIDE DEF I
  <2> QED BY <1>3, <1>4, <2>1, FirstIndex
<1> DEFINE m == Min(I)
<1>6. SelectInSeq(q, LAMBDA a : bucket < a.end) = m
  BY <1>4 DEF SelectInSeq
<1>7. m \in 1 .. n /\ bucket < q[m].end /\ \A j \in 1 .. n : bucket < q[j].end => m <= j
  BY <1>5
<1> HIDE DEF I, m
<1>8. RolloutVariation(q, bucket) = q[m].variation
  BY <1>3, <1>6, <1>7 DEF RolloutVariation
<1>9. ASSUME NEW d \in R, bucket < d.end
      PROVE  q[m].end <= d.end
  <2>1. PICK j \in 1 .. n : q[j] = d
    BY <1>1 DEF Lists
  <2>2. m <= j
    BY <1>7, <1>9, <2>1
  <2>3. m = j \/ q[m].end < q[j].end
    BY <1>1, <1>3, <1>7, <2>2
  <2> QED BY <1>3, <1>7, <2>1, <2>3
<1> QED BY <1>3, <1>7, <1>8, <1>9 DEF ByRollout, q

(* Stages serve the latest that is not in the future, or the fallback of   *)
(* the first.                                                              *)
LEMMA StagesServe ==
    ASSUME NEW T, T \subseteq ProgressiveStage, T # {}, NEW q, Lists(q, T),
           NEW bucket \in Int, now \in Int
    PROVE  ProgressiveVariation(q, bucket, now) \in ByStages(T, bucket)
<1> DEFINE n == Len(q)
           at == [i \in 1 .. n |-> q[i].at]
<1>1. /\ n \in Nat /\ ToSet(q) = T
      /\ \A i \in 1 .. n : q[i] \in T /\ q[i].at \in Int
      /\ \A u \in T : u.at \in Int /\ \E i \in 1 .. n : q[i] = u
  <2>1. \A u \in T : u.at \in Int
    BY DEF ProgressiveStage
  <2>2. /\ n \in Nat /\ \A i \in 1 .. n : q[i] \in T
        /\ \A u \in T : \E i \in 1 .. n : q[i] = u
    BY DEF Lists
  <2> QED BY <2>1, <2>2, ListIsSeq
<1>2. n > 0
  BY <1>1
<1>3. CASE \A u \in T : u.at > now
  <2> DEFINE I == {i \in 1 .. n : \A u \in ToSet(q) : q[i].at <= u.at}
  <2>1. PICK k \in 1 .. n : \A j \in 1 .. n : at[k] <= at[j]
    <3>1. \A i \in 1 .. n : at[i] \in Int
      BY <1>1
    <3> HIDE DEF at, n
    <3> QED BY <1>1, <1>2, <3>1, LeastKey
  <2>2. k \in I
    <3>1. \A u \in T : q[k].at <= u.at
      BY <1>1, <2>1
    <3> QED BY <1>1, <3>1
  <2>3. Min(I) \in I
    <3>1. I \in SUBSET (1 .. n) /\ I # {}
      BY <2>2
    <3> HIDE DEF I, n
    <3> QED BY <1>1, <3>1, FirstIndex
  <2>4. First(q) = q[Min(I)]
    BY <2>2 DEF First, SelectInSeq
  <2>5. Min(I) \in 1 .. n /\ \A u \in T : q[Min(I)].at <= u.at
    BY <1>1, <2>3
  <2>6. First(q) \in T /\ \A u \in T : First(q).at <= u.at
    BY <1>1, <2>4, <2>5
  <2>7. ProgressiveVariation(q, bucket, now) = First(q).fallback
    BY <1>1, <1>3 DEF ProgressiveVariation
  <2>8. {st \in T : st.at <= now} = {}
    BY <1>1, <1>3
  <2> QED BY <2>6, <2>7, <2>8 DEF ByStages
<1>4. CASE \E u \in T : ~ (u.at > now)
  <2> DEFINE I == {i \in 1 .. n : q[i].at <= now
                     /\ \A u \in ToSet(q) : u.at <= now => u.at <= q[i].at}
             Ages == {now - u.at : u \in {v \in T : v.at <= now}}
  <2>1. PICK k \in 1 .. n : /\ q[k].at <= now
                            /\ \A u \in T : u.at <= now => u.at <= q[k].at
    <3>1. Ages \in SUBSET Nat /\ Ages # {}
      <4>1. ASSUME NEW u \in T, u.at <= now
            PROVE  now - u.at \in Nat
        BY <1>1, <4>1
      <4>2. PICK u \in T : ~ (u.at > now)
        BY <1>4
      <4>3. u.at <= now
        BY <1>1, <4>2
      <4> QED BY <4>1, <4>3
    <3>2. PICK d \in Ages : \A e \in Ages : d <= e
      BY <3>1, Least
    <3>3. PICK w \in T : w.at <= now /\ d = now - w.at
      BY <3>2
    <3>4. ASSUME NEW u \in T, u.at <= now
          PROVE  u.at <= w.at
      <4>1. d <= now - u.at
        BY <3>2, <3>4
      <4> QED BY <1>1, <3>3, <4>1
    <3>5. PICK k \in 1 .. n : q[k] = w
      BY <1>1
    <3> QED BY <3>3, <3>4, <3>5
  <2>2. k \in I
    BY <1>1, <2>1
  <2>3. Min(I) \in I
    <3>1. I \in SUBSET (1 .. n) /\ I # {}
      BY <2>2
    <3> HIDE DEF I, n
    <3> QED BY <1>1, <3>1, FirstIndex
  <2>4. Current(q, now) = q[Min(I)]
    BY <2>2 DEF Current, SelectInSeq
  <2> DEFINE w == Current(q, now)
  <2>5. Min(I) \in 1 .. n /\ q[Min(I)].at <= now
        /\ \A u \in T : u.at <= now => u.at <= q[Min(I)].at
    BY <1>1, <2>3
  <2>6. w \in T /\ w.at <= now /\ \A u \in T : u.at <= now => u.at <= w.at
    BY <1>1, <2>4, <2>5
  <2>7. ProgressiveVariation(q, bucket, now) =
          IF bucket < w.share THEN w.variation ELSE w.fallback
    BY <1>1, <1>4 DEF ProgressiveVariation
  <2> HIDE DEF w, I
  <2>8. w \in {u \in {st \in T : st.at <= now} :
                 \A v \in {st \in T : st.at <= now} : u.at >= v.at}
    BY <1>1, <2>6
  <2> QED BY <2>7, <2>8 DEF ByStages
<1> QED BY <1>3, <1>4

(* The engine stops at the first rule that matches, which is the one of    *)
(* lowest priority.                                                        *)
Position(c, s) == SelectInSeq(c.rules, LAMBDA rule : rule.when \subseteq s.holds)

LEMMA FirstRuleServes ==
    ASSUME EInv, NEW c, LoadedFlag(c, rows), NEW s
    PROVE  \/ Matching(s) = {} /\ Position(c, s) = 0
           \/ /\ Matching(s) # {} /\ Position(c, s) # 0
              /\ FirstRule(s) \in Matching(s)
              /\ LoadedRule(c.rules[Position(c, s)], FirstRule(s))
<1> DEFINE n == Len(c.rules)
           q == c.rules
           I == {i \in 1 .. n : q[i].when \subseteq s.holds}
           m == Min(I)
<1>1. /\ n \in Nat
      /\ \A i \in 1 .. n : \E rule \in rows.rules : LoadedRule(q[i], rule)
      /\ \A rule \in rows.rules : \E i \in 1 .. n : LoadedRule(q[i], rule)
      /\ \A i, j \in 1 .. n : i < j => q[i].priority < q[j].priority
  BY DEF LoadedFlag
<1>2. ASSUME NEW i \in 1 .. n, NEW rule \in rows.rules, LoadedRule(q[i], rule)
      PROVE  q[i].when = rule.when /\ q[i].priority = rule.priority
  BY <1>2 DEF LoadedRule
<1>3. \A rule \in rows.rules : rule.priority \in Int
  BY DEF EInv, SoundFlag, FlagRow, RuleRow
<1>4. CASE I = {}
  <2>1. Position(c, s) = 0
    BY <1>4 DEF Position, SelectInSeq
  <2>2. ASSUME NEW rule \in Matching(s)
        PROVE  FALSE
    <3>1. rule \in rows.rules /\ rule.when \subseteq s.holds
      BY DEF Matching
    <3>2. PICK i \in 1 .. n : LoadedRule(q[i], rule)
      BY <1>1, <3>1
    <3>3. i \in I
      BY <1>2, <3>1, <3>2
    <3> QED BY <1>4, <3>3
  <2> QED BY <2>1, <2>2
<1>5. CASE I # {}
  <2>1. Position(c, s) = m
    BY <1>5 DEF Position, SelectInSeq
  <2>2. m \in I /\ \A j \in I : m <= j
    <3>1. I \in SUBSET (1 .. n)
      OBVIOUS
    <3> HIDE DEF I, n
    <3> QED BY <1>1, <1>5, <3>1, FirstIndex
  <2>3. m \in 1 .. n /\ m # 0 /\ q[m].when \subseteq s.holds
    <3>1. m \in 1 .. n /\ q[m].when \subseteq s.holds
      <4> HIDE DEF m
      <4> QED BY <2>2
    <3> HIDE DEF m, n
    <3> QED BY <1>1, <3>1
  <2>4. \A j \in 1 .. n : q[j].when \subseteq s.holds => m <= j
    BY <2>2
  <2> HIDE DEF m, I, n
  <2>5. PICK x \in rows.rules : LoadedRule(q[m], x)
    BY <1>1, <2>3
  <2>6. x \in Matching(s) /\ q[m].priority = x.priority
    BY <1>2, <2>3, <2>5 DEF Matching
  <2>7. ASSUME NEW y \in Matching(s)
        PROVE  x.priority <= y.priority
    <3>1. y \in rows.rules /\ y.when \subseteq s.holds
      BY DEF Matching
    <3>2. PICK j \in 1 .. n : LoadedRule(q[j], y)
      BY <1>1, <3>1
    <3>3. q[j].when = y.when /\ q[j].priority = y.priority
      BY <1>2, <3>1, <3>2
    <3>4. m <= j /\ j \in Int /\ m \in Int
      BY <1>1, <2>3, <2>4, <3>1, <3>3
    <3>5. m = j \/ q[m].priority < q[j].priority
      BY <1>1, <2>3, <3>4
    <3> QED BY <1>3, <2>6, <3>1, <3>3, <3>5
  <2>8. ASSUME NEW y \in Matching(s), \A z \in Matching(s) : y.priority <= z.priority
        PROVE  y = x
    <3>1. y \in rows.rules /\ y.priority <= x.priority /\ x.priority <= y.priority
      BY <2>6, <2>7, <2>8 DEF Matching
    <3>2. x.priority = y.priority
      BY <1>3, <3>1
    <3> QED BY <3>1, <3>2 DEF EInv, SoundFlag
  <2>9. FirstRule(s) = x
    BY <2>6, <2>7, <2>8 DEF FirstRule
  <2> QED BY <2>1, <2>3, <2>5, <2>6, <2>9 DEF m, q
<1> QED BY <1>4, <1>5

(* A flag or rule with stages or a rollout serves as documented.           *)
LEMMA SourceServes ==
    ASSUME EvaluationAssumption, EInv, NEW x, NEW V, Sound(x, V),
           x.stages \subseteq ProgressiveStage, NEW bucket \in Bucket,
           NEW stages, Lists(stages, x.stages)
    PROVE  /\ stages = <<>> <=> x.stages = {}
           /\ ByEnd(x.rollout) = <<>> <=> x.rollout = {}
           /\ x.stages # {} =>
                ProgressiveVariation(stages, bucket, now) \in ByStages(x.stages, bucket)
           /\ x.rollout # {} =>
                RolloutVariation(ByEnd(x.rollout), bucket) \in ByRollout(x.rollout, bucket)
           /\ x.stages # {} => ByStages(x.stages, bucket) \subseteq V
           /\ ByRollout(x.rollout, bucket) \subseteq V
<1>1. Tiled(x.rollout)
  BY DEF Sound
<1>2. Lists(ByEnd(x.rollout), x.rollout)
  BY <1>1, TilesShare
<1>3. bucket \in Int /\ now \in Int
  BY DEF Bucket, EvaluationAssumption, EInv
<1>4. (stages = <<>> <=> x.stages = {}) /\ (ByEnd(x.rollout) = <<>> <=> x.rollout = {})
  BY <1>2, ListIsSeq
<1>5. x.stages # {} =>
        ProgressiveVariation(stages, bucket, now) \in ByStages(x.stages, bucket)
  BY <1>3, StagesServe
<1>6. x.rollout # {} =>
        RolloutVariation(ByEnd(x.rollout), bucket) \in ByRollout(x.rollout, bucket)
  BY <1>1, RolloutServes
<1>7. ByStages(x.stages, bucket) \subseteq V
  BY DEF ByStages, Sound
<1>8. ByRollout(x.rollout, bucket) \subseteq V
  BY DEF ByRollout, Sound
<1> QED BY <1>4, <1>5, <1>6, <1>7, <1>8

LEMMA ServesAsDocumented ==
    ASSUME EInv, NEW c \in Loads(rows), NEW s \in Subject
    PROVE  /\ Evaluate(c, s, now) \in Documented(s)
           /\ Evaluate(c, s, now).variation \in rows.variations
<1> DEFINE i == Position(c, s)
           rule == c.rules[i]
           x == FirstRule(s)
           b == s.bucket[rows.salt]
           V == rows.variations
<1>1. LoadedFlag(c, rows) /\ SoundFlag(rows)
  BY LoadsAreLoaded DEF EInv
<1>2. /\ c.enabled = rows.enabled /\ c.default = rows.default /\ c.salt = rows.salt
      /\ c.rollout = ByEnd(rows.rollout) /\ Lists(c.stages, rows.stages)
  BY <1>1 DEF LoadedFlag
<1>3. /\ rows.default \in V /\ Sound(rows, V) /\ rows.stages \subseteq ProgressiveStage
      /\ rows.salt \in Salt /\ rows.enabled \in BOOLEAN
      /\ \A r \in rows.rules : SoundRule(r, V) /\ r.stages \subseteq ProgressiveStage
  BY <1>1 DEF SoundFlag, FlagRow, RuleRow
<1>4. b \in Bucket
  BY <1>3, EvaluationAssumption DEF EvaluationAssumption
<1>5. \/ Matching(s) = {} /\ i = 0
      \/ /\ Matching(s) # {} /\ i # 0
         /\ x \in Matching(s) /\ LoadedRule(rule, x)
  BY <1>1, FirstRuleServes
<1> HIDE DEF i, b, x
<1>6. CASE ~ rows.enabled
  <2>1. Evaluate(c, s, now) = Answer(rows.default, "flag_disabled")
    BY <1>2, <1>6 DEF Evaluate
  <2>2. Documented(s) = {Answer(rows.default, "flag_disabled")}
    BY <1>6 DEF Documented
  <2> QED BY <1>3, <2>1, <2>2 DEF Answer
<1>7. CASE rows.enabled /\ i # 0
  <2>1. /\ Matching(s) # {} /\ x \in rows.rules /\ LoadedRule(rule, x)
        /\ SoundRule(x, V) /\ x.stages \subseteq ProgressiveStage
    BY <1>3, <1>5, <1>7 DEF Matching
  <2> HIDE DEF rule
  <2>2. /\ rule.variation = x.variation /\ rule.rollout = ByEnd(x.rollout)
        /\ Lists(rule.stages, x.stages)
    BY <2>1 DEF LoadedRule
  <2>3. Sound(x, V)
    BY <2>1 DEF SoundRule
  <2>4. /\ rule.stages = <<>> <=> x.stages = {}
        /\ x.stages # {} =>
             ProgressiveVariation(rule.stages, b, now) \in ByStages(x.stages, b)
        /\ x.rollout # {} => RolloutVariation(rule.rollout, b) \in ByRollout(x.rollout, b)
        /\ ByStages(x.stages, b) \subseteq V \/ x.stages = {}
        /\ ByRollout(x.rollout, b) \subseteq V
    BY <1>4, <2>1, <2>2, <2>3, SourceServes, EvaluationAssumption
  <2>5. CASE x.variation # NoVariation
    <3>1. Evaluate(c, s, now) = Answer(x.variation, "targeting_match")
      BY <1>2, <1>7, <2>2, <2>5 DEF Evaluate, Position, i, rule
    <3>2. Documented(s) = {Answer(x.variation, "targeting_match")}
      BY <1>7, <2>1, <2>5 DEF Documented, x
    <3>3. x.variation \in V
      BY <2>1, <2>5 DEF SoundRule
    <3> QED BY <3>1, <3>2, <3>3 DEF Answer
  <2>6. CASE x.variation = NoVariation /\ x.stages # {}
    <3> DEFINE v == ProgressiveVariation(rule.stages, b, now)
    <3>1. Evaluate(c, s, now) = Answer(v, "progressive_rollout")
      BY <1>2, <1>7, <2>2, <2>4, <2>6 DEF Evaluate, Position, i, rule, b
    <3>2. Documented(s) = {Answer(w, "progressive_rollout") : w \in ByStages(x.stages, b)}
      BY <1>7, <2>1, <2>6 DEF Documented, x, b
    <3>3. v \in ByStages(x.stages, b) /\ v \in V
      BY <2>4, <2>6
    <3> HIDE DEF v
    <3> QED BY <3>1, <3>2, <3>3 DEF Answer
  <2>7. CASE x.variation = NoVariation /\ x.stages = {}
    <3> DEFINE v == RolloutVariation(rule.rollout, b)
    <3>1. x.rollout # {}
      <4>1. NoVariation \notin V
        BY <1>1, EvaluationAssumption DEF EvaluationAssumption, SoundFlag, FlagRow
      <4> QED BY <2>1, <2>7, <4>1 DEF SoundRule
    <3>2. Evaluate(c, s, now) = Answer(v, "percentage_rollout")
      BY <1>2, <1>7, <2>2, <2>4, <2>7 DEF Evaluate, Position, i, rule, b
    <3>3. Documented(s) = {Answer(w, "percentage_rollout") : w \in ByRollout(x.rollout, b)}
      BY <1>7, <2>1, <2>7, <3>1 DEF Documented, x, b
    <3>4. v \in ByRollout(x.rollout, b) /\ v \in V
      BY <2>4, <3>1
    <3> HIDE DEF v
    <3> QED BY <3>2, <3>3, <3>4 DEF Answer
  <2> QED BY <2>5, <2>6, <2>7
<1>8. CASE rows.enabled /\ i = 0
  <2>1. Matching(s) = {}
    BY <1>5, <1>8
  <2>2. /\ c.stages = <<>> <=> rows.stages = {}
        /\ c.rollout = <<>> <=> rows.rollout = {}
        /\ rows.stages # {} =>
             ProgressiveVariation(c.stages, b, now) \in ByStages(rows.stages, b)
        /\ rows.rollout # {} => RolloutVariation(c.rollout, b) \in ByRollout(rows.rollout, b)
        /\ ByStages(rows.stages, b) \subseteq V \/ rows.stages = {}
        /\ ByRollout(rows.rollout, b) \subseteq V
    BY <1>2, <1>3, <1>4, SourceServes, EvaluationAssumption
  <2>3. CASE rows.stages # {}
    <3> DEFINE v == ProgressiveVariation(c.stages, b, now)
    <3>1. Evaluate(c, s, now) = Answer(v, "progressive_rollout")
      BY <1>2, <1>8, <2>2, <2>3 DEF Evaluate, Position, i, b
    <3>2. Documented(s) = {Answer(w, "progressive_rollout") : w \in ByStages(rows.stages, b)}
      BY <1>8, <2>1, <2>3 DEF Documented, b
    <3>3. v \in ByStages(rows.stages, b) /\ v \in V
      BY <2>2, <2>3
    <3> HIDE DEF v
    <3> QED BY <3>1, <3>2, <3>3 DEF Answer
  <2>4. CASE rows.stages = {} /\ rows.rollout # {}
    <3> DEFINE v == RolloutVariation(c.rollout, b)
    <3>1. Evaluate(c, s, now) = Answer(v, "percentage_rollout")
      BY <1>2, <1>8, <2>2, <2>4 DEF Evaluate, Position, i, b
    <3>2. Documented(s) = {Answer(w, "percentage_rollout") : w \in ByRollout(rows.rollout, b)}
      BY <1>8, <2>1, <2>4 DEF Documented, b
    <3>3. v \in ByRollout(rows.rollout, b) /\ v \in V
      BY <2>2, <2>4
    <3> HIDE DEF v
    <3> QED BY <3>1, <3>2, <3>3 DEF Answer
  <2>5. CASE rows.stages = {} /\ rows.rollout = {}
    <3>1. Evaluate(c, s, now) = Answer(rows.default, "default")
      BY <1>2, <1>8, <2>2, <2>5 DEF Evaluate, Position, i
    <3>2. Documented(s) = {Answer(rows.default, "default")}
      BY <1>8, <2>1, <2>5 DEF Documented
    <3> QED BY <1>3, <3>1, <3>2 DEF Answer
  <2> QED BY <2>3, <2>4, <2>5
<1> QED BY <1>3, <1>6, <1>7, <1>8

(* An accepted configuration always evaluates, and to one of its variations*)
THEOREM AlwaysEvaluates == EvalSpec => []NeverRaises
<1>1. EInv => NeverRaises
  BY ServesAsDocumented DEF NeverRaises
<1> QED BY <1>1, StoredIsSound, PTL

(* Evaluation is what docs/EVALUATION.md describes, whatever the order in  *)
(* which rows, rules, allocations and stages come.                         *)
THEOREM EvaluationIsDocumented == EvalSpec => []EvaluatesAsDocumented
<1>1. EInv => EvaluatesAsDocumented
  BY ServesAsDocumented DEF EvaluatesAsDocumented
<1> QED BY <1>1, StoredIsSound, PTL

-----------------------------------------------------------------------------
(* Cohorts.                                                                *)

LEMMA SoundServes == EInv => EvaluatesAsDocumented
BY ServesAsDocumented DEF EvaluatesAsDocumented

LEMMA SoundServesNext == EInv' => EvaluatesAsDocumented'
BY SoundServes, PTL

(* The configuration of a step that only lets time pass.                   *)
LEMMA TickStep ==
    ASSUME EInv, [EvalNext]_evalvars, now' > now
    PROVE  rows' = rows /\ now \in Nat /\ now' \in Nat
<1>1. CASE Tick
  BY <1>1 DEF Tick, EInv
<1>2. CASE Replace \/ AddRule \/ ApplyScheduled \/ UNCHANGED evalvars
  <2>1. now' = now
    BY <1>2 DEF Replace, AddRule, ApplyScheduled, Save, evalvars
  <2> QED BY <2>1 DEF EInv
<1> QED BY <1>1, <1>2 DEF EvalNext

(* In a growing plan, the stage of a later instant takes no bucket back.   *)
LEMMA StagesKeep ==
    ASSUME NEW T, T \subseteq ProgressiveStage, Growing(T), NEW bucket \in Int,
           now \in Int, now' \in Int, now' > now, NEW st \in T,
           st.variation \in ByStages(T, bucket)
    PROVE  \A v : v \in {IF bucket < u.share THEN u.variation ELSE u.fallback :
                           u \in {w \in T : w.at <= now'
                                    /\ \A x \in T : x.at <= now' => w.at >= x.at}}
                    => v = st.variation
<1> DEFINE active == {u \in T : u.at <= now}
<1>1. \A u \in T : u.at \in Int /\ u.share \in Int
  BY DEF ProgressiveStage
<1>2. \A u, w \in T : /\ u.variation = w.variation /\ u.fallback = w.fallback
                      /\ u.variation # w.fallback
                      /\ u.at = w.at => u = w
                      /\ u.at < w.at => u.share <= w.share
  BY DEF Growing
<1>3. active # {}
  <2>1. active = {} => \A v \in ByStages(T, bucket) : \E u \in T : v = u.fallback
    BY DEF ByStages
  <2> QED BY <1>2, <2>1
<1>4. PICK u \in active : /\ \A w \in active : u.at >= w.at
                          /\ st.variation = IF bucket < u.share THEN u.variation ELSE u.fallback
  BY <1>3 DEF ByStages
<1>5. u \in T /\ u.at <= now /\ bucket < u.share
  BY <1>2, <1>4
<1>6. ASSUME NEW w \in T, w.at <= now', \A x \in T : x.at <= now' => w.at >= x.at
      PROVE  bucket < w.share /\ w.variation = st.variation
  <2>1. w.at >= u.at
    BY <1>1, <1>5, <1>6
  <2>2. u.share <= w.share
    BY <1>1, <1>2, <1>5, <2>1
  <2> QED BY <1>1, <1>2, <1>5, <2>2
<1> QED BY <1>6

(* While time passes, a growing plan sends no subject back.                *)
THEOREM TimeSendsNobodyBack == EvalSpec => TimeKeepsCohort
<1>1. ASSUME EInv, EInv', [EvalNext]_evalvars, now' > now, Growing(rows.stages),
             NEW s \in Subject, NEW st \in rows.stages,
             Matching(s) = {}, Reaches(s, st.variation)
      PROVE  Reaches(s, st.variation)'
  <2> DEFINE b == s.bucket[rows.salt]
             T == rows.stages
  <2>1. rows' = rows /\ now \in Int /\ now' \in Int
    BY <1>1, TickStep
  <2>2. T \subseteq ProgressiveStage /\ rows.salt \in Salt
    BY <1>1 DEF EInv, SoundFlag, FlagRow
  <2>3. b \in Int
    BY <2>2, EvaluationAssumption DEF EvaluationAssumption, Bucket
  <2>4. PICK c \in Loads(rows) : Evaluate(c, s, now).variation = st.variation
    BY <1>1 DEF Reaches
  <2>5. LoadedFlag(c, rows)
    BY <1>1, LoadsAreLoaded DEF EInv
  <2>6. Evaluate(c, s, now) \in Documented(s)
    BY <1>1, SoundServes DEF EvaluatesAsDocumented
  <2>7. Evaluate(c, s, now') \in Documented(s)'
    <3>1. EvaluatesAsDocumented'
      BY <1>1, SoundServesNext
    <3>2. c \in Loads(rows)'
      BY <2>1
    <3> QED BY <3>1, <3>2 DEF EvaluatesAsDocumented
  <2>8. CASE ~ rows.enabled
    <3>1. c.enabled = rows.enabled
      BY <2>5 DEF LoadedFlag
    <3>2. Evaluate(c, s, now') = Evaluate(c, s, now)
      BY <2>8, <3>1 DEF Evaluate
    <3> QED BY <2>1, <2>4, <3>2 DEF Reaches
  <2>9. CASE rows.enabled
    <3>1. Documented(s) = {Answer(v, "progressive_rollout") : v \in ByStages(T, b)}
      BY <1>1, <2>9 DEF Documented
    <3>2. st.variation \in ByStages(T, b)
      BY <2>4, <2>6, <3>1 DEF Answer
    <3>3. Documented(s)' = {Answer(v, "progressive_rollout") : v \in ByStages(T, b)'}
      <4>1. Matching(s)' = {} /\ rows'.enabled /\ rows'.stages # {}
        BY <1>1, <2>1, <2>9 DEF Matching
      <4> QED BY <4>1 DEF Documented
    <3>4. PICK v \in ByStages(T, b)' : Evaluate(c, s, now').variation = v
      BY <2>7, <3>3 DEF Answer
    <3>5. {u \in T : u.at <= now'} # {}
      <4>1. {u \in T : u.at <= now} # {}
        <5>1. {u \in T : u.at <= now} = {} =>
                \A w \in ByStages(T, b) : \E u \in T : w = u.fallback
          BY DEF ByStages
        <5> QED BY <1>1, <3>2, <5>1 DEF Growing
      <4>2. PICK u \in T : u.at <= now
        BY <4>1
      <4>3. u.at <= now'
        BY <1>1, <2>1, <2>2, <4>2 DEF ProgressiveStage
      <4> QED BY <4>3
    <3>6. v \in {IF b < u.share THEN u.variation ELSE u.fallback :
                   u \in {w \in T : w.at <= now' /\ \A x \in T : x.at <= now' => w.at >= x.at}}
      <4>1. ByStages(T, b)' =
              {IF b < u.share THEN u.variation ELSE u.fallback :
                 u \in {w \in {x \in T : x.at <= now'} :
                          \A y \in {x \in T : x.at <= now'} : w.at >= y.at}}
        BY <2>1, <3>5 DEF ByStages
      <4> QED BY <3>4, <4>1
    <3>7. v = st.variation
      BY <1>1, <2>1, <2>2, <2>3, <3>2, <3>6, StagesKeep
    <3> QED BY <2>1, <3>4, <3>7 DEF Reaches
  <2> QED BY <2>8, <2>9
<1>2. EInv /\ EInv' /\ [EvalNext]_evalvars =>
        [(now' > now /\ Growing(rows.stages))
           => \A s \in Subject, st \in rows.stages :
                Matching(s) = {} /\ Reaches(s, st.variation) => Reaches(s, st.variation)']_evalvars
  BY <1>1
<1> QED BY <1>2, StoredIsSound, PTL DEF EvalSpec, TimeKeepsCohort

LEMMA LeadIsInt ==
    ASSUME NEW r, Tiled(r.rollout), NEW v
    PROVE  Lead(r, v) \in Int
<1> DEFINE own == {a \in r.rollout : a.variation = v}
<1>1. \A a \in own : a.end \in Int
  BY DEF Tiled
<1>2. (\E a \in own : TRUE) => (CHOOSE a \in own : TRUE) \in own
  OBVIOUS
<1> HIDE DEF own
<1>3. (\E a \in own : TRUE) => (CHOOSE a \in own : TRUE).end \in Int
  BY <1>1, <1>2
<1> QED BY <1>3 DEF Lead, own

(* The share that leads a rollout is served to the buckets below its end,  *)
(* and its variation to no other bucket.                                   *)
LEMMA LeadServes ==
    ASSUME NEW r, Tiled(r.rollout), NEW v, 0 < Lead(r, v), NEW bucket \in Int
    PROVE  /\ r.rollout # {} /\ Lead(r, v) \in Int
           /\ v \in ByRollout(r.rollout, bucket) => bucket < Lead(r, v)
           /\ bucket < Lead(r, v) => ByRollout(r.rollout, bucket) \subseteq {v}
<1> DEFINE R == r.rollout
           own == {a \in R : a.variation = v}
<1>1. Cardinality(own) = 1 /\ \E a \in own : \A d \in R : a.end <= d.end
  BY DEF Lead
<1>2. IsFiniteSet(own)
  <2>1. IsFiniteSet(R)
    BY DEF Tiled
  <2> QED BY <2>1, FS_Subset
<1>3. PICK a : own = {a}
  BY <1>1, <1>2, FS_Singleton
<1>4. Lead(r, v) = a.end
  <2>1. (CHOOSE x \in own : TRUE) = a
    BY <1>3
  <2> HIDE DEF own
  <2> QED BY <1>1, <2>1 DEF Lead, own
<1>5. a \in R /\ a.variation = v /\ \A d \in R : a.end <= d.end
  BY <1>1, <1>3
<1>6. \A d \in R : d.end \in Int
  BY DEF Tiled
<1>7. ASSUME v \in ByRollout(R, bucket)
      PROVE  bucket < a.end
  <2>1. PICK d \in R : d.variation = v /\ bucket < d.end
    BY <1>7 DEF ByRollout
  <2> QED BY <1>3, <2>1
<1>8. ASSUME bucket < a.end, NEW w \in ByRollout(R, bucket)
      PROVE  w = v
  <2>1. PICK d \in R : /\ w = d.variation
                       /\ \A x \in R : bucket < x.end => d.end <= x.end
    BY DEF ByRollout
  <2>2. d.end = a.end
    BY <1>5, <1>6, <1>8, <2>1
  <2> QED BY <1>5, <2>1, <2>2 DEF Tiled
<1> QED BY <1>4, <1>5, <1>6, <1>7, <1>8

(* What is read after a change of the rollout alone.                       *)
LEMMA SameLoad ==
    ASSUME EInv, EInv', [EvalNext]_evalvars, rows'.rules = rows.rules,
           rows.stages = {}, rows'.stages = {}, NEW c \in Loads(rows)
    PROVE  \E d \in Loads(rows)' : d.rules = c.rules /\ d.salt = c.salt
<1>1. PICK rank \in Ranks(rows) : c = Compile(rows, rank)
  BY DEF Loads
<1>2. rows \in FlagRow /\ rows' \in FlagRow
  BY DEF EInv, SoundFlag
<1>3. rank \in Ranks(rows')
  BY DEF Ranks, Stages
<1> DEFINE d == Compile(rows', rank)
           R == {CompiledRule(rule, rank) : rule \in rows.rules}
<1>4. c.rules = ByPriority(R) /\ c.salt = rows.salt
  <2>1. rows \in FlagRow
    BY <1>2
  <2> HIDE DEF R
  <2> QED BY <1>1, <2>1, CompiledFlag DEF R
<1>5. d.rules = ByPriority(R) /\ d.salt = rows'.salt
  <2>1. rows' \in FlagRow
    BY <1>2
  <2> DEFINE T == {CompiledRule(rule, rank) : rule \in rows'.rules}
  <2>2. R = T
    OBVIOUS
  <2> HIDE DEF R, T
  <2>3. d.rules = ByPriority(T) /\ d.salt = rows'.salt
    BY <2>1, CompiledFlag DEF T
  <2> QED BY <2>2, <2>3
<1>6. d \in Loads(rows')
  BY <1>3 DEF Loads
<1>7. rows'.salt = rows.salt
  BY SaltStays
<1> QED BY <1>4, <1>5, <1>6, <1>7

(* The share of a leading variation grows, and whoever had it keeps it.    *)
THEOREM GrowthSendsNobodyBack == EvalSpec => GrowthKeepsCohort
<1>1. ASSUME EInv, EInv', [EvalNext]_evalvars, NEW v \in Variation, now' = now,
             rows.enabled, rows'.enabled, rows.rules = rows'.rules,
             rows.stages = {}, rows'.stages = {},
             0 < Lead(rows, v), Lead(rows, v) <= Lead(rows', v),
             NEW s \in Subject, Reaches(s, v)
      PROVE  Reaches(s, v)'
  <2> DEFINE b == s.bucket[rows.salt]
  <2>1. PICK c \in Loads(rows) : Evaluate(c, s, now).variation = v
    BY <1>1 DEF Reaches
  <2>2. PICK d \in Loads(rows)' : d.rules = c.rules /\ d.salt = c.salt
    BY <1>1, SameLoad
  <2>3. /\ LoadedFlag(c, rows) /\ LoadedFlag(d, rows')
        /\ SoundFlag(rows) /\ SoundFlag(rows')
    <3>1. SoundFlag(rows) /\ SoundFlag(rows') /\ d \in Loads(rows')
      BY <1>1, <2>2 DEF EInv
    <3> QED BY <3>1, LoadsAreLoaded
  <2>4. c.enabled = rows.enabled /\ d.enabled = rows'.enabled /\ rows'.salt = rows.salt
    <3>1. rows'.salt = rows.salt
      BY <1>1, SaltStays
    <3> QED BY <2>3, <3>1 DEF LoadedFlag
  <2>5. CASE Position(c, s) # 0
    <3>1. Evaluate(d, s, now') = Evaluate(c, s, now)
      BY <1>1, <2>2, <2>4, <2>5 DEF Evaluate, Position
    <3> QED BY <2>1, <2>2, <3>1 DEF Reaches
  <2>6. CASE Position(c, s) = 0
    <3>1. Matching(s) = {} /\ Matching(s)' = {}
      <4>1. Matching(s) = {}
        BY <1>1, <2>3, <2>6, FirstRuleServes
      <4> QED BY <1>1, <4>1 DEF Matching
    <3>2. Tiled(rows.rollout) /\ Tiled(rows'.rollout) /\ rows.salt \in Salt
      BY <2>3 DEF SoundFlag, Sound, FlagRow
    <3>3. b \in Int
      BY <3>2, EvaluationAssumption DEF EvaluationAssumption, Bucket
    <3>4. /\ rows.rollout # {} /\ Lead(rows, v) \in Int
          /\ v \in ByRollout(rows.rollout, b) => b < Lead(rows, v)
      BY <1>1, <3>2, <3>3, LeadServes
    <3>5. Documented(s) =
            {Answer(w, "percentage_rollout") : w \in ByRollout(rows.rollout, b)}
      BY <1>1, <3>1, <3>4 DEF Documented
    <3>6. b < Lead(rows, v)
      <4>1. Evaluate(c, s, now) \in Documented(s)
        BY <1>1, SoundServes DEF EvaluatesAsDocumented
      <4> QED BY <2>1, <3>4, <3>5, <4>1 DEF Answer
    <3>7. 0 < Lead(rows', v)
      <4>1. Lead(rows', v) \in Int
        BY <3>2, LeadIsInt
      <4> QED BY <1>1, <3>4, <4>1
    <3>8. rows'.rollout # {} /\ Lead(rows', v) \in Int
      BY <3>2, <3>3, <3>7, LeadServes
    <3>9. ByRollout(rows'.rollout, b) \subseteq {v}
      <4>1. b < Lead(rows', v)
        BY <1>1, <3>3, <3>4, <3>6, <3>8
      <4> QED BY <3>2, <3>3, <3>7, <4>1, LeadServes
    <3>10. Documented(s)' =
             {Answer(w, "percentage_rollout") : w \in ByRollout(rows'.rollout, b)}
      BY <1>1, <2>4, <3>1, <3>8 DEF Documented
    <3>11. Evaluate(d, s, now') \in Documented(s)'
      <4>1. EvaluatesAsDocumented'
        BY <1>1, SoundServesNext
      <4> QED BY <2>2, <4>1 DEF EvaluatesAsDocumented
    <3>12. Evaluate(d, s, now').variation = v
      BY <3>9, <3>10, <3>11 DEF Answer
    <3> QED BY <2>2, <3>12 DEF Reaches
  <2> QED BY <2>5, <2>6
<1>2. EInv /\ EInv' /\ [EvalNext]_evalvars =>
        [\A v \in Variation :
           (/\ now' = now
            /\ rows.enabled /\ rows'.enabled /\ rows.rules = rows'.rules
            /\ rows.stages = {} /\ rows'.stages = {}
            /\ 0 < Lead(rows, v) /\ Lead(rows, v) <= Lead(rows', v))
           => \A s \in Subject : Reaches(s, v) => Reaches(s, v)']_evalvars
  BY <1>1
<1> QED BY <1>2, StoredIsSound, PTL DEF EvalSpec, GrowthKeepsCohort
=============================================================================
