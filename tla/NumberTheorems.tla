---------------------------- MODULE NumberTheorems ----------------------------
(***************************************************************************)
(* What the proofs of several modules need to know of numbers: the least   *)
(* of a set, induction, multiplication, and the sums of a function's       *)
(* values (SumFunction of the community module Functions).                 *)
(***************************************************************************)
EXTENDS Integers, FiniteSets, Functions, FiniteSetTheorems, WellFoundedInduction, TLAPS

\* The least number of a set.
LEMMA LeastNumber ==
  ASSUME NEW T \in SUBSET Nat, T # {}
  PROVE  \E m \in T : \A k \in T : m <= k
<1>1. IsWellFoundedOn(OpToRel(<, Nat), Nat)
  BY NatLessThanWellFounded
<1>2. PICK m \in T : \A k \in T : ~(<<k, m>> \in OpToRel(<, Nat))
  BY <1>1, WFMin
<1>3. \A k \in T : ~(k < m)
  BY <1>2 DEF OpToRel
<1>. QED  BY <1>3

\* Induction over the numbers of a set.
LEMMA AllNumbers ==
  ASSUME NEW G \in SUBSET Nat, 0 \in G, \A n \in G : n + 1 \in G
  PROVE  G = Nat
<1>1. SUFFICES ASSUME Nat \ G # {}
               PROVE  FALSE
  OBVIOUS
<1>2. PICK m \in Nat \ G : \A k \in Nat \ G : m <= k
  <2>1. Nat \ G \in SUBSET Nat
    OBVIOUS
  <2>. QED  BY <1>1, <2>1, LeastNumber
<1>3. m \in Nat /\ m # 0 /\ m - 1 \in Nat /\ m - 1 < m
  BY <1>2
<1>4. m - 1 \in G
  BY <1>2, <1>3
<1>. QED  BY <1>2, <1>3, <1>4

\* Multiplication by a natural number.
LEMMA MulMono == ASSUME NEW m \in Nat, NEW a \in Int, NEW b \in Int, a <= b
                 PROVE  m * a <= m * b
<1>1. m * (b - a) >= 0
  OBVIOUS
<1>2. m * (b - a) = m * b - m * a
  OBVIOUS
<1>. QED  BY <1>1, <1>2

LEMMA MulStep == ASSUME NEW m \in Nat, NEW a \in Int
                 PROVE  m * (a + 1) = m * a + m /\ m * (a - 1) = m * a - m
  OBVIOUS

-----------------------------------------------------------------------------
\* Sums.  What a sum is is shown by induction over how many numbers it is of; the induction
\* is over a set of numbers, which Nat is when it has 0 and every successor.

\* The sums of a function's values over the subsets of S, as SumFunction makes them up.
Chosen(s) == CHOOSE x \in s : TRUE
SumStep(f, it, s) == IF s = {} THEN 0 ELSE f[Chosen(s)] + it[s \ {Chosen(s)}]
Sums(f, S, it) == it = [s \in SUBSET S |-> SumStep(f, it, s)]

LEMMA SubsetIsCounted ==
  ASSUME NEW S, IsFiniteSet(S), NEW s \in SUBSET S
  PROVE  Cardinality(s) \in Nat
  BY FS_Subset, FS_CardinalityType

LEMMA OneLess ==
  ASSUME NEW S, IsFiniteSet(S), NEW s \in SUBSET S
  PROVE  /\ s # {} => /\ Chosen(s) \in s /\ s \ {Chosen(s)} \in SUBSET S
                      /\ Cardinality(s) # 0
                      /\ Cardinality(s \ {Chosen(s)}) = Cardinality(s) - 1
<1>1. IsFiniteSet(s) /\ Cardinality(s) \in Nat
  BY FS_Subset, FS_CardinalityType
<1>2. s # {} => Chosen(s) \in s
  BY DEF Chosen
<1>3. s # {} => Cardinality(s) # 0
  BY <1>1, FS_EmptySet
<1>4. s # {} => Cardinality(s \ {Chosen(s)}) = Cardinality(s) - 1
  BY <1>1, <1>2, FS_RemoveElement
<1>. QED  BY <1>1, <1>2, <1>3, <1>4

LEMMA OnlyEmpty ==
  ASSUME NEW S, IsFiniteSet(S), NEW s \in SUBSET S, Cardinality(s) = 0
  PROVE  s = {}
<1>1. IsFiniteSet(s)
  BY FS_Subset
<1>. QED  BY <1>1, FS_EmptySet

LEMMA SumExists ==
  ASSUME NEW S, IsFiniteSet(S), NEW f \in [S -> Int]
  PROVE  \E it \in [SUBSET S -> Int] : Sums(f, S, it)
<1>. DEFINE Upto(n) == {s \in SUBSET S : Cardinality(s) <= n}
            Has(n)  == \E it \in [Upto(n) -> Int] : \A s \in Upto(n) : it[s] = SumStep(f, it, s)
            G == {n \in Nat : Has(n)}
<1>1. 0 \in G
  <2>1. ASSUME NEW s \in Upto(0)
        PROVE  s = {}
    <3>1. Cardinality(s) = 0
      <4>1. s \in SUBSET S /\ Cardinality(s) <= 0
        OBVIOUS
      <4>. QED  BY <4>1, SubsetIsCounted
    <3>. QED  BY <3>1, OnlyEmpty
  <2>2. [s \in Upto(0) |-> 0] \in [Upto(0) -> Int]
    OBVIOUS
  <2>3. \A s \in Upto(0) : [t \in Upto(0) |-> 0][s] = SumStep(f, [t \in Upto(0) |-> 0], s)
    BY <2>1 DEF SumStep
  <2>. QED  BY <2>2, <2>3, Zenon
<1>2. ASSUME NEW n \in G
      PROVE  n + 1 \in G
  <2>1. PICK it \in [Upto(n) -> Int] : \A s \in Upto(n) : it[s] = SumStep(f, it, s)
    OBVIOUS
  <2>2. n \in Nat /\ n + 1 \in Nat
    OBVIOUS
  <2>. DEFINE jt == [s \in Upto(n + 1) |-> SumStep(f, it, s)]
  <2>3. ASSUME NEW s \in Upto(n + 1), s # {}
        PROVE  s \ {Chosen(s)} \in Upto(n) /\ f[Chosen(s)] \in Int
    <3>1. s \in SUBSET S /\ Cardinality(s) <= n + 1
      OBVIOUS
    <3>2. /\ Chosen(s) \in s /\ s \ {Chosen(s)} \in SUBSET S
          /\ Cardinality(s \ {Chosen(s)}) = Cardinality(s) - 1
      BY <2>3, <3>1, OneLess
    <3>3. Cardinality(s \ {Chosen(s)}) <= n
      BY <2>2, <3>1, <3>2, SubsetIsCounted
    <3>. QED  BY <3>1, <3>2, <3>3
  <2>4. jt \in [Upto(n + 1) -> Int]
    <3>1. \A s \in Upto(n + 1) : SumStep(f, it, s) \in Int
      BY <2>3 DEF SumStep
    <3>. QED  BY <3>1
  <2>5. ASSUME NEW s \in Upto(n)
        PROVE  s \in Upto(n + 1) /\ jt[s] = it[s]
    <3>1. s \in Upto(n + 1)
      <4>1. s \in SUBSET S /\ Cardinality(s) <= n
        OBVIOUS
      <4>. QED  BY <2>2, <4>1, SubsetIsCounted
    <3>2. it[s] = SumStep(f, it, s)
      BY <2>1
    <3>. QED  BY <3>1, <3>2
  <2>6. ASSUME NEW s \in Upto(n + 1)
        PROVE  jt[s] = SumStep(f, jt, s)
    <3>1. CASE s = {}
      BY <3>1 DEF SumStep
    <3>2. CASE s # {}
      <4>1. jt[s \ {Chosen(s)}] = it[s \ {Chosen(s)}]
        BY <2>3, <2>5, <3>2
      <4>. QED  BY <4>1 DEF SumStep
    <3>. QED  BY <3>1, <3>2
  <2>7. Has(n + 1)
    <3>. HIDE DEF jt
    <3>. QED  BY <2>4, <2>6
  <2>. QED  BY <2>2, <2>7
<1>3. G = Nat
  <2>. HIDE DEF G
  <2>1. G \in SUBSET Nat
    BY DEF G
  <2>. QED  BY <1>1, <1>2, <2>1, AllNumbers
<1>4. Has(Cardinality(S))
  <2>1. Cardinality(S) \in Nat
    BY FS_CardinalityType
  <2>2. Cardinality(S) \in G
    <3>. HIDE DEF G
    <3>. QED  BY <1>3, <2>1
  <2>. QED  BY <2>2
<1>5. Upto(Cardinality(S)) = SUBSET S
  BY FS_Subset
<1>. QED  BY <1>4, <1>5 DEF Sums

\* SumFunction is such a sum, and all of them are integers.
LEMMA SumIsInt ==
  ASSUME NEW S, IsFiniteSet(S), NEW f \in [S -> Int], NEW it, Sums(f, S, it)
  PROVE  \A s \in SUBSET S : it[s] \in Int
<1>. DEFINE G == {n \in Nat : \A s \in SUBSET S : Cardinality(s) = n => it[s] \in Int}
<1>0. \A s \in SUBSET S : it[s] = SumStep(f, it, s)
  BY DEF Sums
<1>1. 0 \in G
  <2>1. ASSUME NEW s \in SUBSET S, Cardinality(s) = 0
        PROVE  it[s] \in Int
    <3>1. s = {}
      BY <2>1, OnlyEmpty
    <3>2. it[s] = 0
      BY <1>0, <3>1 DEF SumStep
    <3>. QED  BY <3>2
  <2>. QED  BY <2>1
<1>2. ASSUME NEW n \in G
      PROVE  n + 1 \in G
  <2>1. ASSUME NEW s \in SUBSET S, Cardinality(s) = n + 1
        PROVE  it[s] \in Int
    <3>1. s # {}
      <4>1. n \in Nat /\ n + 1 # 0
        OBVIOUS
      <4>. QED  BY <2>1, <4>1, FS_EmptySet
    <3>2. PICK c \in s : c = Chosen(s) /\ s \ {c} \in SUBSET S /\ Cardinality(s \ {c}) = n
      BY <2>1, <3>1, OneLess
    <3>3. it[s] = f[c] + it[s \ {c}]
      BY <1>0, <3>1, <3>2 DEF SumStep
    <3>4. f[c] \in Int /\ it[s \ {c}] \in Int
      BY <3>2
    <3>. QED  BY <3>3, <3>4
  <2>. QED  BY <2>1
<1>3. G = Nat
  <2>. HIDE DEF G
  <2>1. G \in SUBSET Nat
    BY DEF G
  <2>. QED  BY <1>1, <1>2, <2>1, AllNumbers
<1>. QED  BY <1>3, SubsetIsCounted

LEMMA SumIsSum ==
  ASSUME NEW S, IsFiniteSet(S), NEW f \in [S -> Int]
  PROVE  \E it \in [SUBSET S -> Int] : Sums(f, S, it) /\ SumFunction(f) = it[S]
<1>1. \E it : Sums(f, S, it)
  BY SumExists
<1>2. SumFunction(f) = (CHOOSE it : Sums(f, S, it))[S]
  <2>1. DOMAIN f = S
    OBVIOUS
  <2>2. SumFunction(f) = (CHOOSE it : Sums(f, DOMAIN f, it))[DOMAIN f]
    BY DEF SumFunction, SumFunctionOnSet, FoldFunctionOnSet, MapThenFoldSet, Sums, SumStep, Chosen
  <2>. QED  BY <2>1, <2>2
<1>3. PICK it : Sums(f, S, it) /\ SumFunction(f) = it[S]
  BY <1>1, <1>2
<1>4. it \in [SUBSET S -> Int]
  <2>1. \A s \in SUBSET S : it[s] \in Int
    BY <1>3, SumIsInt
  <2>. QED  BY <1>3, <2>1 DEF Sums
<1>. QED  BY <1>3, <1>4

\* A sum changes by what one of its terms does.
LEMMA SumChanges ==
  ASSUME NEW S, IsFiniteSet(S), NEW f \in [S -> Int], NEW g \in [S -> Int],
         NEW x \in S, \A y \in S \ {x} : g[y] = f[y]
  PROVE  SumFunction(f) \in Int /\ SumFunction(g) = SumFunction(f) + (g[x] - f[x])
<1>1. PICK it \in [SUBSET S -> Int] : Sums(f, S, it) /\ SumFunction(f) = it[S]
  BY SumIsSum
<1>2. PICK jt \in [SUBSET S -> Int] : Sums(g, S, jt) /\ SumFunction(g) = jt[S]
  BY SumIsSum
<1>. DEFINE Differs(s) == jt[s] = it[s] + (IF x \in s THEN g[x] - f[x] ELSE 0)
            G == {n \in Nat : \A s \in SUBSET S : Cardinality(s) = n => Differs(s)}
<1>3. \A s \in SUBSET S : it[s] = SumStep(f, it, s) /\ jt[s] = SumStep(g, jt, s)
  BY <1>1, <1>2 DEF Sums
<1>4. 0 \in G
  <2>1. ASSUME NEW s \in SUBSET S, Cardinality(s) = 0
        PROVE  Differs(s)
    <3>1. s = {}
      BY <2>1, OnlyEmpty
    <3>2. it[s] = 0 /\ jt[s] = 0
      BY <1>3, <3>1 DEF SumStep
    <3>. QED  BY <3>1, <3>2
  <2>. QED  BY <2>1
<1>5. ASSUME NEW n \in G
      PROVE  n + 1 \in G
  <2>1. ASSUME NEW s \in SUBSET S, Cardinality(s) = n + 1
        PROVE  Differs(s)
    <3>1. s # {}
      <4>1. n \in Nat /\ n + 1 # 0
        OBVIOUS
      <4>. QED  BY <2>1, <4>1, FS_EmptySet
    <3>2. PICK c \in s : c = Chosen(s) /\ s \ {c} \in SUBSET S /\ Cardinality(s \ {c}) = n
      BY <2>1, <3>1, OneLess
    <3>3. Differs(s \ {c})
      BY <3>2
    <3>4. it[s] = f[c] + it[s \ {c}] /\ jt[s] = g[c] + jt[s \ {c}]
      BY <1>3, <3>1, <3>2 DEF SumStep
    <3>5. /\ it[s \ {c}] \in Int /\ jt[s \ {c}] \in Int /\ f[c] \in Int /\ g[c] \in Int
          /\ f[x] \in Int /\ g[x] \in Int
      BY <3>2
    <3>6. CASE c = x
      BY <3>3, <3>4, <3>5, <3>6
    <3>7. CASE c # x
      <4>1. g[c] = f[c]
        BY <3>7
      <4>. QED  BY <3>3, <3>4, <3>5, <3>7, <4>1
    <3>. QED  BY <3>6, <3>7
  <2>. QED  BY <2>1
<1>6. G = Nat
  <2>. HIDE DEF G
  <2>1. G \in SUBSET Nat
    BY DEF G
  <2>. QED  BY <1>4, <1>5, <2>1, AllNumbers
<1>7. Differs(S)
  BY <1>6, FS_CardinalityType
<1>. QED  BY <1>1, <1>2, <1>7

\* A sum of natural numbers is one.
LEMMA SumOfNats ==
  ASSUME NEW S, IsFiniteSet(S), NEW f \in [S -> Nat],
         NEW it \in [SUBSET S -> Int], Sums(f, S, it)
  PROVE  it[S] \in Nat
<1>. DEFINE G == {n \in Nat : \A s \in SUBSET S : Cardinality(s) = n => it[s] \in Nat}
<1>0. \A s \in SUBSET S : it[s] = SumStep(f, it, s)
  BY DEF Sums
<1>1. 0 \in G
  <2>1. ASSUME NEW s \in SUBSET S, Cardinality(s) = 0
        PROVE  it[s] \in Nat
    <3>1. s = {}
      BY <2>1, OnlyEmpty
    <3>2. it[s] = 0
      BY <1>0, <3>1 DEF SumStep
    <3>. QED  BY <3>2
  <2>. QED  BY <2>1
<1>2. ASSUME NEW n \in G
      PROVE  n + 1 \in G
  <2>1. ASSUME NEW s \in SUBSET S, Cardinality(s) = n + 1
        PROVE  it[s] \in Nat
    <3>1. s # {}
      <4>1. n \in Nat /\ n + 1 # 0
        OBVIOUS
      <4>. QED  BY <2>1, <4>1, FS_EmptySet
    <3>2. PICK c \in s : c = Chosen(s) /\ s \ {c} \in SUBSET S /\ Cardinality(s \ {c}) = n
      BY <2>1, <3>1, OneLess
    <3>3. it[s] = f[c] + it[s \ {c}]
      BY <1>0, <3>1, <3>2 DEF SumStep
    <3>4. f[c] \in Nat /\ it[s \ {c}] \in Nat
      BY <3>2
    <3>. QED  BY <3>3, <3>4
  <2>. QED  BY <2>1
<1>3. G = Nat
  <2>. HIDE DEF G
  <2>1. G \in SUBSET Nat
    BY DEF G
  <2>. QED  BY <1>1, <1>2, <2>1, AllNumbers
<1>. QED  BY <1>3, FS_CardinalityType

LEMMA SumIsNat ==
  ASSUME NEW S, IsFiniteSet(S), NEW f \in [S -> Nat]
  PROVE  SumFunction(f) \in Nat
<1>1. f \in [S -> Int]
  OBVIOUS
<1>2. PICK it \in [SUBSET S -> Int] : Sums(f, S, it) /\ SumFunction(f) = it[S]
  BY <1>1, SumIsSum
<1>3. it[S] \in Nat
  BY <1>2, SumOfNats, Zenon
<1>. QED  BY <1>2, <1>3

\* Smaller terms, a smaller sum.
LEMMA SumAtMost ==
  ASSUME NEW S, IsFiniteSet(S), NEW f \in [S -> Int], NEW g \in [S -> Int],
         \A y \in S : g[y] <= f[y],
         NEW it \in [SUBSET S -> Int], Sums(f, S, it),
         NEW jt \in [SUBSET S -> Int], Sums(g, S, jt)
  PROVE  jt[S] <= it[S]
<1>. DEFINE G == {n \in Nat : \A s \in SUBSET S : Cardinality(s) = n => jt[s] <= it[s]}
<1>0. \A s \in SUBSET S : it[s] = SumStep(f, it, s) /\ jt[s] = SumStep(g, jt, s)
  BY DEF Sums
<1>1. 0 \in G
  <2>1. ASSUME NEW s \in SUBSET S, Cardinality(s) = 0
        PROVE  jt[s] <= it[s]
    <3>1. s = {}
      BY <2>1, OnlyEmpty
    <3>2. it[s] = 0 /\ jt[s] = 0
      BY <1>0, <3>1 DEF SumStep
    <3>. QED  BY <3>2
  <2>. QED  BY <2>1
<1>2. ASSUME NEW n \in G
      PROVE  n + 1 \in G
  <2>1. ASSUME NEW s \in SUBSET S, Cardinality(s) = n + 1
        PROVE  jt[s] <= it[s]
    <3>1. s # {}
      <4>1. n \in Nat /\ n + 1 # 0
        OBVIOUS
      <4>. QED  BY <2>1, <4>1, FS_EmptySet
    <3>2. PICK c \in s : c = Chosen(s) /\ s \ {c} \in SUBSET S /\ Cardinality(s \ {c}) = n
      BY <2>1, <3>1, OneLess
    <3>3. jt[s \ {c}] <= it[s \ {c}]
      BY <3>2
    <3>4. it[s] = f[c] + it[s \ {c}] /\ jt[s] = g[c] + jt[s \ {c}]
      BY <1>0, <3>1, <3>2 DEF SumStep
    <3>5. it[s \ {c}] \in Int /\ jt[s \ {c}] \in Int /\ f[c] \in Int /\ g[c] \in Int /\ g[c] <= f[c]
      BY <3>2
    <3>. QED  BY <3>3, <3>4, <3>5
  <2>. QED  BY <2>1
<1>3. G = Nat
  <2>. HIDE DEF G
  <2>1. G \in SUBSET Nat
    BY DEF G
  <2>. QED  BY <1>1, <1>2, <2>1, AllNumbers
<1>. QED  BY <1>3, FS_CardinalityType

LEMMA SumIsMonotone ==
  ASSUME NEW S, IsFiniteSet(S), NEW f \in [S -> Int], NEW g \in [S -> Int],
         \A y \in S : g[y] <= f[y]
  PROVE  /\ SumFunction(f) \in Int /\ SumFunction(g) \in Int
         /\ SumFunction(g) <= SumFunction(f)
<1>1. PICK it \in [SUBSET S -> Int] : Sums(f, S, it) /\ SumFunction(f) = it[S]
  BY SumIsSum
<1>2. PICK jt \in [SUBSET S -> Int] : Sums(g, S, jt) /\ SumFunction(g) = jt[S]
  BY SumIsSum
<1>3. Sums(f, S, it) /\ Sums(g, S, jt)
  BY <1>1, <1>2
<1>4. jt[S] <= it[S]
  BY <1>3, SumAtMost, Zenon
<1>5. it[S] \in Int /\ jt[S] \in Int
  OBVIOUS
<1>. QED  BY <1>1, <1>2, <1>4, <1>5

\* A sum of terms that are k.
LEMMA SumOfEqual ==
  ASSUME NEW S, IsFiniteSet(S), NEW k \in Nat, NEW f \in [S -> Int], \A y \in S : f[y] = k,
         NEW it \in [SUBSET S -> Int], Sums(f, S, it)
  PROVE  it[S] = k * Cardinality(S)
<1>. DEFINE G == {n \in Nat : \A s \in SUBSET S : Cardinality(s) = n => it[s] = k * n}
<1>0. \A s \in SUBSET S : it[s] = SumStep(f, it, s)
  BY DEF Sums
<1>1. 0 \in G
  <2>1. ASSUME NEW s \in SUBSET S, Cardinality(s) = 0
        PROVE  it[s] = k * 0
    <3>1. s = {}
      BY <2>1, OnlyEmpty
    <3>2. it[s] = 0
      BY <1>0, <3>1 DEF SumStep
    <3>. QED  BY <3>2
  <2>. QED  BY <2>1
<1>2. ASSUME NEW n \in G
      PROVE  n + 1 \in G
  <2>1. ASSUME NEW s \in SUBSET S, Cardinality(s) = n + 1
        PROVE  it[s] = k * (n + 1)
    <3>0. n \in Nat /\ n + 1 # 0
      OBVIOUS
    <3>1. s # {}
      BY <2>1, <3>0, FS_EmptySet
    <3>2. PICK c \in s : c = Chosen(s) /\ s \ {c} \in SUBSET S /\ Cardinality(s \ {c}) = n
      BY <2>1, <3>1, OneLess
    <3>3. it[s \ {c}] = k * n
      BY <3>2
    <3>4. it[s] = f[c] + it[s \ {c}] /\ f[c] = k
      BY <1>0, <3>1, <3>2 DEF SumStep
    <3>5. k * (n + 1) = k * n + k /\ k * n \in Int
      BY <3>0, MulStep
    <3>. QED  BY <3>3, <3>4, <3>5
  <2>. QED  BY <2>1
<1>3. G = Nat
  <2>. HIDE DEF G
  <2>1. G \in SUBSET Nat
    BY DEF G
  <2>. QED  BY <1>1, <1>2, <2>1, AllNumbers
<1>. QED  BY <1>3, FS_CardinalityType

\* A sum of terms that are k at most is k times their number at most, and 0 if all are.
LEMMA SumIsBounded ==
  ASSUME NEW S, IsFiniteSet(S), NEW k \in Nat, NEW f \in [S -> 0 .. k]
  PROVE  SumFunction(f) \in Nat /\ SumFunction(f) <= k * Cardinality(S)
<1>. DEFINE top == [y \in S |-> k]
<1>1. f \in [S -> Nat] /\ f \in [S -> Int] /\ top \in [S -> Int]
  OBVIOUS
<1>2. \A y \in S : f[y] <= top[y]
  OBVIOUS
<1>3. \A y \in S : top[y] = k
  OBVIOUS
<1>. HIDE DEF top
<1>4. PICK it \in [SUBSET S -> Int] : Sums(top, S, it) /\ SumFunction(top) = it[S]
  BY <1>1, SumIsSum
<1>5. SumFunction(top) = k * Cardinality(S)
  BY <1>1, <1>3, <1>4, SumOfEqual
<1>6. SumFunction(f) <= SumFunction(top)
  BY <1>1, <1>2, SumIsMonotone
<1>7. SumFunction(f) \in Nat
  BY <1>1, SumIsNat
<1>. QED  BY <1>5, <1>6, <1>7

LEMMA SumOfZeros ==
  ASSUME NEW S, IsFiniteSet(S), NEW f \in [S -> Nat], \A y \in S : f[y] = 0
  PROVE  SumFunction(f) = 0
<1>1. f \in [S -> 0 .. 0]
  OBVIOUS
<1>2. SumFunction(f) \in Nat /\ SumFunction(f) <= 0 * Cardinality(S)
  BY <1>1, SumIsBounded
<1>3. Cardinality(S) \in Nat
  BY FS_CardinalityType
<1>. QED  BY <1>2, <1>3
=============================================================================
