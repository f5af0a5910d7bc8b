------------------------------ MODULE Sums_proofs ------------------------------
(***************************************************************************)
(* What the proofs about sums, quotas and splits use: least and greatest   *)
(* numbers, functions defined by recursion on 0..N, and sums over finite   *)
(* sets.  Nothing here is about the program.  Induction is done by the     *)
(* least counterexample, since the theorems of the library about induction *)
(* take an operator.                                                       *)
(***************************************************************************)
EXTENDS Sums, FiniteSetTheorems, WellFoundedInduction, TLAPS

-----------------------------------------------------------------------------
(* Numbers and recursion. *)

(* Induction is done by the least counterexample: every set of numbers has *)
(* a least one.                                                            *)
LEMMA Least ==
  ASSUME NEW S, S \subseteq Nat, S # {}
  PROVE  \E n \in S : \A m \in S : n <= m
<1> DEFINE R == {ss \in Nat \X Nat : ss[1] < ss[2]}
<1>1. IsWellFoundedOn(R, Nat)
  BY NatLessThanWellFounded DEF OpToRel
<1> HIDE DEF R
<1>2. PICK x \in S : \A y \in S : ~(<<y, x>> \in R)
  BY <1>1, WFMin, Zenon
<1>3. \A y \in S : ~(y < x)
  BY <1>2 DEF R
<1> QED BY <1>3

(* The least number of a set is what Min returns. *)
LEMMA MinIsLeast ==
  ASSUME NEW S, S \subseteq Nat, S # {}
  PROVE  Min(S) \in S /\ \A m \in S : Min(S) <= m
<1>1. \E n \in S : \A m \in S : n <= m
  BY Least
<1> QED BY <1>1 DEF Min

(* A function on 0..N may be defined by its first value and by each value  *)
(* from the one before.                                                    *)
Recurs(f, N, A, a, s) ==
  f \in [0..N -> A] /\ f[0] = a /\ \A k \in 1..N : f[k] = s[<<k, f[k - 1]>>]

LEMMA Recursion ==
  ASSUME NEW N \in Nat, NEW A, NEW a \in A, NEW s, s \in [(1..N) \X A -> A]
  PROVE  \E f : Recurs(f, N, A, a, s)
<1> DEFINE Rec(n, f) == f \in [0..n -> A] /\ f[0] = a /\ \A k \in 1..n : f[k] = s[<<k, f[k - 1]>>]
           Bad == {n \in 0..N : \A f : ~Rec(n, f)}
<1>1. Bad = {}
  <2> SUFFICES ASSUME Bad # {} PROVE FALSE
    OBVIOUS
  <2>1. PICK n \in Bad : \A m \in Bad : n <= m
    <3>1. Bad \subseteq Nat
      OBVIOUS
    <3> HIDE DEF Bad
    <3> QED BY <3>1, Least
  <2>2. n \in 0..N /\ \A f : ~Rec(n, f)
    BY <2>1
  <2>3. n # 0
    <3>1. Rec(0, [k \in 0..0 |-> a])
      OBVIOUS
    <3> HIDE DEF Rec
    <3> QED BY <2>2, <3>1
  <2>4. n - 1 \in 0..N /\ n - 1 \notin Bad
    <3> HIDE DEF Bad
    <3>1. n - 1 \in 0..N /\ ~(n <= n - 1)
      BY <2>2, <2>3
    <3> QED BY <2>1, <3>1
  <2>5. PICK f : Rec(n - 1, f)
    BY <2>4
  <2> DEFINE g == [k \in 0..n |-> IF k = n THEN s[<<n, f[n - 1]>>] ELSE f[k]]
  <2>6. s[<<n, f[n - 1]>>] \in A
    BY <2>2, <2>3, <2>5
  <2>7. g \in [0..n -> A] /\ g[0] = a
    BY <2>2, <2>3, <2>5, <2>6
  <2>8. ASSUME NEW k \in 1..n
        PROVE  g[k] = s[<<k, g[k - 1]>>]
    <3>1. /\ n \in Nat /\ k \in 0..n /\ k - 1 \in 0..n /\ k - 1 # n
      BY <2>2
    <3>2. g[k - 1] = f[k - 1] /\ g[k] = IF k = n THEN s[<<n, f[n - 1]>>] ELSE f[k]
      BY <3>1
    <3>3. CASE k = n
      BY <3>2, <3>3
    <3>4. CASE k # n
      <4>1. k \in 1..(n - 1)
        BY <3>1, <3>4
      <4> QED BY <2>5, <3>2, <3>4, <4>1
    <3> QED BY <3>3, <3>4
  <2>9. Rec(n, g)
    BY <2>7, <2>8
  <2> HIDE DEF Rec, g
  <2> QED BY <2>2, <2>9
<1>2. \A n \in 0..N : \E f : Rec(n, f)
  <2> HIDE DEF Rec
  <2> QED BY <1>1
<1>3. PICK f : Rec(N, f)
  <2> HIDE DEF Rec
  <2>1. N \in 0..N
    OBVIOUS
  <2> QED BY <1>2, <2>1
<1> QED BY <1>3 DEF Recurs

LEMMA RangeFinite ==
  ASSUME NEW L \in Nat
  PROVE  IsFiniteSet(1..L) /\ Cardinality(1..L) = L
<1>1. 1 \in Int /\ L \in Int
  OBVIOUS
<1>2. IsFiniteSet(1..L) /\ Cardinality(1..L) = IF 1 > L THEN 0 ELSE L - 1 + 1
  BY <1>1, FS_Interval
<1> QED BY <1>2

(* A set of numbers with a bound has a greatest one, what Max returns. *)
LEMMA MaxIsGreatest ==
  ASSUME NEW S, S # {}, NEW N \in Nat, S \subseteq 0..N
  PROVE  Max(S) \in S /\ \A m \in S : m <= Max(S)
<1> DEFINE T == {x \in 0..N : N - x \in S}
<1>1. T \subseteq Nat /\ T # {}
  <2>1. PICK m : m \in S
    OBVIOUS
  <2>2. N - m \in 0..N /\ N - (N - m) = m
    BY <2>1
  <2>3. N - m \in T
    BY <2>1, <2>2
  <2> QED BY <2>3
<1>2. PICK x \in T : \A y \in T : x <= y
  <2> HIDE DEF T
  <2> QED BY <1>1, Least
<1>3. N - x \in S
  BY <1>2
<1>4. ASSUME NEW m \in S
      PROVE  N - x >= m
  <2>1. N - m \in 0..N /\ N - (N - m) = m
    OBVIOUS
  <2>2. N - m \in T
    BY <2>1
  <2>3. x <= N - m
    BY <1>2, <2>2
  <2> QED BY <1>2, <2>1, <2>3
<1>5. \E y \in S : \A m \in S : y >= m
  BY <1>3, <1>4
<1>6. Max(S) \in S /\ \A m \in S : Max(S) >= m
  BY <1>5 DEF Max
<1> QED BY <1>6

(* A sequence of numbers has a largest one. *)
LEMMA LargestOf ==
  ASSUME NEW N \in Nat \ {0}, NEW f \in [1..N -> Nat]
  PROVE  \E c \in 1..N : \A d \in 1..N : f[d] <= f[c]
<1> DEFINE Top(n) == \E c \in 1..n : \A d \in 1..n : f[d] <= f[c]
           Bad == {n \in 1..N : ~Top(n)}
<1>1. Bad = {}
  <2> SUFFICES ASSUME Bad # {} PROVE FALSE
    OBVIOUS
  <2>1. PICK n \in Bad : \A m \in Bad : n <= m
    <3>1. Bad \subseteq Nat
      OBVIOUS
    <3> HIDE DEF Bad
    <3> QED BY <3>1, Least
  <2>2. n \in 1..N /\ ~Top(n)
    BY <2>1
  <2>3. n # 1
    <3>1. f[1] <= f[1]
      OBVIOUS
    <3> QED BY <2>2, <3>1
  <2>4. n - 1 \in 1..N /\ n - 1 \notin Bad
    <3>1. n - 1 \in 1..N /\ ~(n <= n - 1)
      BY <2>2, <2>3
    <3> HIDE DEF Bad
    <3> QED BY <2>1, <3>1
  <2>5. PICK c \in 1..(n - 1) : \A d \in 1..(n - 1) : f[d] <= f[c]
    BY <2>4
  <2>6. \A d \in 1..n : d \in 1..(n - 1) \/ d = n
    BY <2>2
  <2>7. c \in 1..n /\ n \in 1..n /\ f[c] \in Nat /\ f[n] \in Nat /\ \A d \in 1..n : f[d] \in Nat
    BY <2>2, <2>4
  <2>8. CASE f[n] <= f[c]
    <3>1. \A d \in 1..n : f[d] <= f[c]
      BY <2>5, <2>6, <2>8
    <3> QED BY <2>2, <2>7, <3>1
  <2>9. CASE f[c] < f[n]
    <3>1. ASSUME NEW d \in 1..n
          PROVE  f[d] <= f[n]
      <4>1. f[d] \in Nat /\ (d = n \/ f[d] <= f[c])
        <5>1. d \in 1..(n - 1) => f[d] <= f[c]
          BY <2>5
        <5>2. d \in 1..(n - 1) \/ d = n
          BY <2>6
        <5>3. f[d] \in Nat
          <6>1. \A e \in 1..n : f[e] \in Nat
            BY <2>7
          <6> HIDE DEF Bad, Top
          <6> QED BY <6>1
        <5> QED BY <5>1, <5>2, <5>3
      <4>2. f[c] \in Nat /\ f[n] \in Nat
        BY <2>7
      <4> HIDE DEF Bad, Top
      <4> QED BY <2>9, <4>1, <4>2
    <3> QED BY <2>2, <2>7, <3>1
  <2> QED BY <2>7, <2>8, <2>9
<1>2. Top(N)
  <2> HIDE DEF Top
  <2> QED BY <1>1
<1> QED BY <1>2

-----------------------------------------------------------------------------
(* Sums over finite sets. *)

(* Induction on a finite set, by taking away any element. *)
LEMMA ByRemoval ==
  ASSUME NEW S, IsFiniteSet(S), NEW B,
         \A T \in SUBSET S : (\A x \in T : T \ {x} \in B) => T \in B
  PROVE  \A T \in SUBSET S : T \in B
<1> DEFINE Bad == {n \in Nat : \E T \in SUBSET S : Cardinality(T) = n /\ T \notin B}
<1>1. \A T \in SUBSET S : IsFiniteSet(T) /\ Cardinality(T) \in Nat
  BY FS_Subset, FS_CardinalityType
<1>2. Bad = {}
  <2> SUFFICES ASSUME Bad # {} PROVE FALSE
    OBVIOUS
  <2>1. PICK n \in Bad : \A m \in Bad : n <= m
    <3>1. Bad \subseteq Nat
      OBVIOUS
    <3> HIDE DEF Bad
    <3> QED BY <3>1, Least
  <2>2. PICK T \in SUBSET S : Cardinality(T) = n /\ T \notin B
    BY <2>1
  <2>3. PICK x \in T : T \ {x} \notin B
    BY <2>2
  <2>4. T \ {x} \in SUBSET S /\ Cardinality(T \ {x}) = n - 1 /\ Cardinality(T \ {x}) \in Nat /\ n \in Nat
    <3>1. Cardinality(T \ {x}) = Cardinality(T) - 1
      BY <1>1, FS_RemoveElement
    <3> QED BY <1>1, <2>1, <2>2, <3>1
  <2>5. n - 1 \in Bad
    BY <2>3, <2>4
  <2>6. n <= n - 1
    <3> HIDE DEF Bad
    <3> QED BY <2>1, <2>5
  <2> QED BY <2>4, <2>6
<1> QED BY <1>1, <1>2

Some(T) == CHOOSE x \in T : TRUE

IsSum(f, S, g) ==
  g = [T \in SUBSET S |-> IF T = {} THEN 0 ELSE f[Some(T)] + g[T \ {Some(T)}]]

LEMMA SumExists ==
  ASSUME NEW S, IsFiniteSet(S), NEW f, \A x \in S : f[x] \in Int
  PROVE  \E g : IsSum(f, S, g)
<1> DEFINE A == [SUBSET S -> Int]
           zero == [T \in SUBSET S |-> 0]
           more(g) == [T \in SUBSET S |-> IF T = {} THEN 0 ELSE f[Some(T)] + g[T \ {Some(T)}]]
           N == Cardinality(S)
           s == [x \in (1..N) \X A |-> more(x[2])]
<1>1. \A T \in SUBSET S : T # {} => Some(T) \in T /\ f[Some(T)] \in Int /\ T \ {Some(T)} \in SUBSET S
  BY DEF Some
<1>2. \A g \in A : more(g) \in A
  <2> SUFFICES ASSUME NEW g \in A PROVE more(g) \in A
    OBVIOUS
  <2>1. \A T \in SUBSET S : T # {} => f[Some(T)] + g[T \ {Some(T)}] \in Int
    BY <1>1
  <2> QED BY <2>1
<1> HIDE DEF more
<1>3. N \in Nat /\ zero \in A /\ s \in [(1..N) \X A -> A]
  <2>1. N \in Nat /\ zero \in A
    BY FS_CardinalityType
  <2>2. s \in [(1..N) \X A -> A]
    <3> HIDE DEF A, N
    <3> QED BY <1>2
  <2> QED BY <2>1, <2>2
<1>4. PICK g : g \in [0..N -> A] /\ g[0] = zero /\ \A k \in 1..N : g[k] = s[<<k, g[k - 1]>>]
  <2> HIDE DEF A, zero, N, s
  <2>1. \E g : Recurs(g, N, A, zero, s)
    BY <1>3, Recursion
  <2> QED BY <2>1 DEF Recurs
<1> HIDE DEF A, N
<1>5. \A k \in 1..N : g[k] = more(g[k - 1]) /\ g[k - 1] \in A
  <2> SUFFICES ASSUME NEW k \in 1..N PROVE g[k] = more(g[k - 1]) /\ g[k - 1] \in A
    OBVIOUS
  <2>1. k - 1 \in 0..N
    BY <1>3
  <2>2. g[k - 1] \in A
    BY <1>4, <2>1
  <2> QED BY <1>4, <2>2
(* Sets with at most k elements have their sum after k steps. *)
<1> DEFINE B == {T \in SUBSET S : \A k \in Cardinality(T)..N : g[k][T] = g[Cardinality(T)][T]}
<1>6. \A T \in SUBSET S : IsFiniteSet(T) /\ Cardinality(T) \in 0..N
  BY FS_Subset, FS_CardinalityType DEF N
<1>7. ASSUME NEW T \in SUBSET S, NEW k \in 1..N
      PROVE  g[k][T] = IF T = {} THEN 0 ELSE f[Some(T)] + g[k - 1][T \ {Some(T)}]
  BY <1>5 DEF more
<1>8. \A T \in SUBSET S : (\A x \in T : T \ {x} \in B) => T \in B
  <2> SUFFICES ASSUME NEW T \in SUBSET S, \A x \in T : T \ {x} \in B, NEW k \in Cardinality(T)..N
               PROVE  g[k][T] = g[Cardinality(T)][T]
    OBVIOUS
  <2>1. Cardinality(T) \in 0..N /\ k \in 0..N /\ N \in Nat
    BY <1>3, <1>6
  <2>2. CASE T = {}
    <3>1. Cardinality(T) = 0
      BY <2>2, FS_EmptySet
    <3>2. \A j \in 0..N : g[j][T] = 0
      <4> SUFFICES ASSUME NEW j \in 0..N PROVE g[j][T] = 0
        OBVIOUS
      <4>1. CASE j = 0
        BY <1>4, <4>1
      <4>2. CASE j # 0
        <5>1. j \in 1..N
          BY <2>1, <4>2
        <5> QED BY <1>7, <2>2, <5>1
      <4> QED BY <4>1, <4>2
    <3> QED BY <2>1, <3>1, <3>2
  <2>3. CASE T # {}
    <3> DEFINE x == Some(T)
               U == T \ {x}
               c == Cardinality(T)
    <3>1. x \in T /\ U \in SUBSET S
      BY <1>1, <2>3
    <3>2. Cardinality(U) = c - 1 /\ c \in 1..N /\ c - 1 \in 0..N
      <4>1. Cardinality(U) = c - 1 /\ Cardinality(U) \in 0..N
        BY <1>6, <3>1, FS_RemoveElement
      <4> QED BY <2>1, <4>1
    <3>3. U \in B
      BY <3>1
    <3>4. g[k - 1][U] = g[c - 1][U]
      <4>1. k - 1 \in Cardinality(U)..N
        BY <2>1, <3>2
      <4> QED BY <3>2, <3>3, <4>1
    <3>5. g[k][T] = f[x] + g[k - 1][U] /\ g[c][T] = f[x] + g[c - 1][U]
      <4>1. k \in 1..N
        BY <2>1, <3>2
      <4> HIDE DEF c
      <4> QED BY <1>7, <2>3, <3>2, <4>1
    <3> QED BY <3>4, <3>5
  <2> QED BY <2>2, <2>3
<1>9. \A T \in SUBSET S : T \in B
  <2> HIDE DEF B
  <2> QED BY <1>8, ByRemoval
<1>10. ASSUME NEW T \in SUBSET S
       PROVE  g[N][T] = IF T = {} THEN 0 ELSE f[Some(T)] + g[N][T \ {Some(T)}]
  <2>1. CASE T = {}
    <3>1. CASE N = 0
      BY <1>4, <2>1, <3>1
    <3>2. CASE N # 0
      <4>1. N \in 1..N
        BY <1>3, <3>2
      <4> QED BY <1>7, <2>1, <4>1
    <3> QED BY <3>1, <3>2
  <2>2. CASE T # {}
    <3> DEFINE x == Some(T)
               U == T \ {x}
    <3>1. x \in T /\ U \in SUBSET S /\ Cardinality(U) = Cardinality(T) - 1 /\ Cardinality(U) \in 0..N
      BY <1>1, <1>6, <2>2, FS_RemoveElement
    <3>2. N \in 1..N /\ N - 1 \in Cardinality(U)..N /\ N \in Cardinality(U)..N
      BY <1>3, <1>6, <3>1
    <3>3. g[N - 1][U] = g[N][U]
      BY <1>9, <3>1, <3>2
    <3> QED BY <1>7, <2>2, <3>2, <3>3
  <2> QED BY <2>1, <2>2
<1>11. g[N] = [T \in SUBSET S |-> g[N][T]]
  <2>1. g[N] \in A
    BY <1>3, <1>4
  <2> QED BY <2>1 DEF A
<1>12. IsSum(f, S, g[N])
  BY <1>10, <1>11 DEF IsSum
<1> QED BY <1>12

LEMMA SumsAgree ==
  ASSUME NEW S, IsFiniteSet(S), NEW f, NEW g, IsSum(f, S, g),
         NEW T \in SUBSET S, NEW h, IsSum(f, T, h)
  PROVE  h[T] = g[T]
<1> DEFINE B == {U \in SUBSET T : h[U] = g[U]}
<1>1. \A U \in SUBSET T : (\A x \in U : U \ {x} \in B) => U \in B
  <2> SUFFICES ASSUME NEW U \in SUBSET T, \A x \in U : U \ {x} \in B PROVE h[U] = g[U]
    OBVIOUS
  <2>1. /\ U \in SUBSET S
        /\ h[U] = IF U = {} THEN 0 ELSE f[Some(U)] + h[U \ {Some(U)}]
        /\ g[U] = IF U = {} THEN 0 ELSE f[Some(U)] + g[U \ {Some(U)}]
    BY DEF IsSum
  <2>2. U # {} => Some(U) \in U
    BY DEF Some
  <2> QED BY <2>1, <2>2
<1>2. IsFiniteSet(T)
  BY FS_Subset
<1>3. T \in B
  <2> HIDE DEF B
  <2> QED BY <1>1, <1>2, ByRemoval
<1> QED BY <1>3

LEMMA SumIs ==
  ASSUME NEW S, NEW f, NEW h, IsSum(f, S, h)
  PROVE  \E g : IsSum(f, S, g) /\ SumOver(f, S) = g[S]
BY DEF SumOver, FoldFunctionOnSet, MapThenFoldSet, IsSum, Some

LEMMA SumUnfolds ==
  ASSUME NEW S, IsFiniteSet(S), NEW f, \A x \in S : f[x] \in Int
  PROVE  SumOver(f, S) = IF S = {} THEN 0 ELSE f[Some(S)] + SumOver(f, S \ {Some(S)})
<1>1. PICK g : IsSum(f, S, g) /\ SumOver(f, S) = g[S]
  BY SumExists, SumIs
<1>2. \A T \in SUBSET S : IsFiniteSet(T)
  BY FS_Subset
<1>3. ASSUME NEW T \in SUBSET S
      PROVE  SumOver(f, T) = g[T]
  <2>1. PICK h : IsSum(f, T, h) /\ SumOver(f, T) = h[T]
    BY <1>2, SumExists, SumIs
  <2> QED BY <1>1, <2>1, SumsAgree
<1>4. g[S] = IF S = {} THEN 0 ELSE f[Some(S)] + g[S \ {Some(S)}]
  BY <1>1 DEF IsSum
<1> QED BY <1>1, <1>3, <1>4

LEMMA SumInt ==
  ASSUME NEW S, IsFiniteSet(S), NEW f, \A x \in S : f[x] \in Int
  PROVE  SumOver(f, S) \in Int
<1> DEFINE B == {T \in SUBSET S : SumOver(f, T) \in Int}
<1>1. \A T \in SUBSET S : (\A x \in T : T \ {x} \in B) => T \in B
  <2> SUFFICES ASSUME NEW T \in SUBSET S, \A x \in T : T \ {x} \in B PROVE SumOver(f, T) \in Int
    OBVIOUS
  <2>1. IsFiniteSet(T)
    BY FS_Subset
  <2>2. SumOver(f, T) = IF T = {} THEN 0 ELSE f[Some(T)] + SumOver(f, T \ {Some(T)})
    BY <2>1, SumUnfolds
  <2>3. T # {} => Some(T) \in T
    BY DEF Some
  <2> QED BY <2>2, <2>3
<1>2. \A T \in SUBSET S : T \in B
  <2> HIDE DEF B
  <2> QED BY <1>1, ByRemoval
<1> QED BY <1>2

(* Any element may be added last. *)
LEMMA SumRemove ==
  ASSUME NEW S, IsFiniteSet(S), NEW f, \A x \in S : f[x] \in Int, NEW x \in S
  PROVE  SumOver(f, S) = f[x] + SumOver(f, S \ {x})
<1> DEFINE B == {T \in SUBSET S : \A y \in T : SumOver(f, T) = f[y] + SumOver(f, T \ {y})}
<1>1. \A T \in SUBSET S : (\A y \in T : T \ {y} \in B) => T \in B
  <2> SUFFICES ASSUME NEW T \in SUBSET S, \A y \in T : T \ {y} \in B, NEW y \in T
               PROVE  SumOver(f, T) = f[y] + SumOver(f, T \ {y})
    OBVIOUS
  <2> DEFINE z == Some(T)
  <2>1. \A U \in SUBSET S : IsFiniteSet(U) /\ \A v \in U : f[v] \in Int
    BY FS_Subset
  <2>2. z \in T /\ SumOver(f, T) = f[z] + SumOver(f, T \ {z})
    <3>1. SumOver(f, T) = IF T = {} THEN 0 ELSE f[Some(T)] + SumOver(f, T \ {Some(T)})
      BY <2>1, SumUnfolds
    <3> QED BY <3>1 DEF Some
  <2> HIDE DEF z
  <2>3. CASE y = z
    BY <2>2, <2>3
  <2>4. CASE y # z
    <3> DEFINE U == T \ {z}
               V == T \ {y}
               W == U \ {y}
    <3>1. W = V \ {z} /\ y \in U /\ z \in V /\ U \in B /\ V \in B
      BY <2>2, <2>4
    <3>2. SumOver(f, U) = f[y] + SumOver(f, W)
      BY <3>1
    <3>3. SumOver(f, V) = f[z] + SumOver(f, W)
      BY <3>1
    <3>4. SumOver(f, W) \in Int /\ f[y] \in Int /\ f[z] \in Int
      BY <2>1, <2>2, SumInt
    <3>5. SumOver(f, T) = f[z] + SumOver(f, U)
      BY <2>2
    <3> HIDE DEF U, V, W
    <3>6. SumOver(f, T) = f[y] + SumOver(f, V)
      BY <3>2, <3>3, <3>4, <3>5
    <3> QED BY <3>6 DEF V
  <2> QED BY <2>3, <2>4
<1>2. \A T \in SUBSET S : T \in B
  <2> HIDE DEF B
  <2> QED BY <1>1, ByRemoval
<1> QED BY <1>2

LEMMA SumNat ==
  ASSUME NEW S, IsFiniteSet(S), NEW f, \A x \in S : f[x] \in Nat
  PROVE  SumOver(f, S) \in Nat
<1> DEFINE B == {T \in SUBSET S : SumOver(f, T) \in Nat}
<1>1. \A T \in SUBSET S : (\A x \in T : T \ {x} \in B) => T \in B
  <2> SUFFICES ASSUME NEW T \in SUBSET S, \A x \in T : T \ {x} \in B PROVE SumOver(f, T) \in Nat
    OBVIOUS
  <2>1. IsFiniteSet(T) /\ \A x \in T : f[x] \in Int
    BY FS_Subset
  <2>2. SumOver(f, T) = IF T = {} THEN 0 ELSE f[Some(T)] + SumOver(f, T \ {Some(T)})
    BY <2>1, SumUnfolds
  <2>3. T # {} => Some(T) \in T
    BY DEF Some
  <2> QED BY <2>2, <2>3
<1>2. \A T \in SUBSET S : T \in B
  <2> HIDE DEF B
  <2> QED BY <1>1, ByRemoval
<1> QED BY <1>2

-----------------------------------------------------------------------------
(* Sums that are compared. *)

LEMMA DivMod ==
  ASSUME NEW a \in Nat, NEW b \in Nat \ {0}
  PROVE  /\ a \div b \in Nat /\ a % b \in Nat /\ a % b < b
         /\ a = b * (a \div b) + (a % b)
OBVIOUS

LEMMA Distribute ==
  ASSUME NEW a \in Int, NEW b \in Int, NEW c \in Int
  PROVE  a * (b + c) = a * b + a * c
OBVIOUS

LEMMA Monotone ==
  ASSUME NEW a \in Nat, NEW b \in Int, NEW c \in Int, b <= c
  PROVE  a * b <= a * c
OBVIOUS

LEMMA Cancel ==
  ASSUME NEW a \in Nat \ {0}, NEW b \in Int, NEW c \in Int, a * b <= a * c
  PROVE  b <= c
OBVIOUS

(* Values that satisfy an equation everywhere satisfy it in their sums. *)
LEMMA SumLinear ==
  ASSUME NEW S, IsFiniteSet(S), NEW a \in Int, NEW b \in Int, NEW f, NEW g, NEW h,
         \A x \in S : f[x] \in Int /\ g[x] \in Int /\ h[x] \in Int /\ a * f[x] = b * g[x] + h[x]
  PROVE  a * SumOver(f, S) = b * SumOver(g, S) + SumOver(h, S)
<1> DEFINE B == {T \in SUBSET S : a * SumOver(f, T) = b * SumOver(g, T) + SumOver(h, T)}
<1>1. \A T \in SUBSET S : (\A x \in T : T \ {x} \in B) => T \in B
  <2> SUFFICES ASSUME NEW T \in SUBSET S, \A x \in T : T \ {x} \in B
               PROVE  a * SumOver(f, T) = b * SumOver(g, T) + SumOver(h, T)
    OBVIOUS
  <2>1. IsFiniteSet(T)
    BY FS_Subset
  <2>2. CASE T = {}
    <3>1. SumOver(f, T) = 0 /\ SumOver(g, T) = 0 /\ SumOver(h, T) = 0
      BY <2>1, <2>2, SumUnfolds
    <3> QED BY <3>1
  <2>3. CASE T # {}
    <3>1. PICK x : x \in T
      BY <2>3
    <3> DEFINE U == T \ {x}
               sf == SumOver(f, U)
               sg == SumOver(g, U)
               sh == SumOver(h, U)
    <3>2. SumOver(f, T) = f[x] + sf /\ SumOver(g, T) = g[x] + sg /\ SumOver(h, T) = h[x] + sh
      BY <2>1, <3>1, SumRemove
    <3>3. sf \in Int /\ sg \in Int /\ sh \in Int
      <4>1. IsFiniteSet(U) /\ \A y \in U : f[y] \in Int /\ g[y] \in Int /\ h[y] \in Int
        BY <2>1, FS_RemoveElement
      <4> HIDE DEF U
      <4> QED BY <4>1, SumInt
    <3>4. a * sf = b * sg + sh
      BY <3>1
    <3> HIDE DEF sf, sg, sh
    <3>5. f[x] \in Int /\ g[x] \in Int /\ h[x] \in Int /\ a * f[x] = b * g[x] + h[x]
      BY <3>1
    <3>6. a * (f[x] + sf) = a * f[x] + a * sf /\ b * (g[x] + sg) = b * g[x] + b * sg
      BY <3>3, <3>5, Distribute
    <3>7. a * f[x] \in Int /\ a * sf \in Int /\ b * g[x] \in Int /\ b * sg \in Int
      BY <3>3, <3>5
    <3> DEFINE af == a * f[x]
               as == a * sf
               bg == b * g[x]
               bs == b * sg
    <3>8. a * (f[x] + sf) = af + as /\ b * (g[x] + sg) = bg + bs /\ as = bs + sh /\ af = bg + h[x]
      BY <3>4, <3>5, <3>6
    <3>9. af \in Int /\ as \in Int /\ bg \in Int /\ bs \in Int
      BY <3>7
    <3> HIDE DEF af, as, bg, bs
    <3>10. af + as = (bg + bs) + (h[x] + sh)
      BY <3>3, <3>5, <3>8, <3>9
    <3> QED BY <3>2, <3>8, <3>10
  <2> QED BY <2>2, <2>3
<1>2. \A T \in SUBSET S : T \in B
  <2> HIDE DEF B
  <2> QED BY <1>1, ByRemoval
<1>3. S \in B
  <2> HIDE DEF B
  <2> QED BY <1>2
<1> QED BY <1>3

(* A bound on the values bounds the sum. *)
LEMMA SumBound ==
  ASSUME NEW S, IsFiniteSet(S), NEW c \in Nat, NEW f, \A x \in S : f[x] \in Int /\ f[x] <= c
  PROVE  SumOver(f, S) <= c * Cardinality(S)
<1> DEFINE B == {T \in SUBSET S : SumOver(f, T) <= c * Cardinality(T)}
<1>1. \A T \in SUBSET S : (\A x \in T : T \ {x} \in B) => T \in B
  <2> SUFFICES ASSUME NEW T \in SUBSET S, \A x \in T : T \ {x} \in B
               PROVE  SumOver(f, T) <= c * Cardinality(T)
    OBVIOUS
  <2>1. IsFiniteSet(T) /\ Cardinality(T) \in Nat
    BY FS_Subset, FS_CardinalityType
  <2>2. CASE T = {}
    <3>1. SumOver(f, T) = 0 /\ Cardinality(T) = 0
      BY <2>1, <2>2, SumUnfolds, FS_EmptySet
    <3> QED BY <3>1
  <2>3. CASE T # {}
    <3>1. PICK x : x \in T
      BY <2>3
    <3> DEFINE U == T \ {x}
               s == SumOver(f, U)
               n == Cardinality(U)
    <3>2. SumOver(f, T) = f[x] + s
      BY <2>1, <3>1, SumRemove
    <3>3. IsFiniteSet(U) /\ n = Cardinality(T) - 1 /\ n \in Nat
      BY <2>1, <3>1, FS_RemoveElement, FS_CardinalityType
    <3>4. s \in Int
      <4>1. \A y \in U : f[y] \in Int
        OBVIOUS
      <4> HIDE DEF U
      <4> QED BY <3>3, <4>1, SumInt
    <3>5. s <= c * n
      BY <3>1
    <3> HIDE DEF s, n
    <3>6. Cardinality(T) = n + 1 /\ c * (n + 1) = c * n + c * 1 /\ c * n \in Int
      BY <2>1, <3>3, Distribute
    <3>7. f[x] \in Int /\ f[x] <= c
      BY <3>1
    <3> QED BY <3>2, <3>4, <3>5, <3>6, <3>7
  <2> QED BY <2>2, <2>3
<1>2. \A T \in SUBSET S : T \in B
  <2> HIDE DEF B
  <2> QED BY <1>1, ByRemoval
<1>3. S \in B
  <2> HIDE DEF B
  <2> QED BY <1>2
<1> QED BY <1>3

(* Where one value changes, the sum changes by as much. *)
LEMMA SumChange ==
  ASSUME NEW S, IsFiniteSet(S), NEW f, NEW g, \A x \in S : f[x] \in Int /\ g[x] \in Int,
         NEW z \in S, \A x \in S : x # z => f[x] = g[x]
  PROVE  SumOver(f, S) - f[z] = SumOver(g, S) - g[z]
<1> DEFINE U == S \ {z}
           zero == [x \in S |-> 0]
<1>1. IsFiniteSet(U) /\ \A x \in U : f[x] \in Int /\ g[x] \in Int /\ zero[x] = 0 /\ f[x] = g[x]
  BY FS_RemoveElement
<1>2. SumOver(f, S) = f[z] + SumOver(f, U) /\ SumOver(g, S) = g[z] + SumOver(g, U)
  BY SumRemove
<1>3. SumOver(f, U) = SumOver(g, U)
  <2> HIDE DEF U, zero
  <2>1. \A x \in U : f[x] \in Int /\ g[x] \in Int /\ zero[x] \in Int /\ 1 * f[x] = 1 * g[x] + zero[x]
    BY <1>1
  <2>2. 1 * SumOver(f, U) = 1 * SumOver(g, U) + SumOver(zero, U)
    <3>1. IsFiniteSet(U) /\ 1 \in Int
      BY <1>1
    <3> QED BY <2>1, <3>1, SumLinear
  <2>3. \A x \in U : zero[x] \in Int /\ 2 * zero[x] = 1 * zero[x] + zero[x] /\ 1 * zero[x] = 2 * zero[x] + zero[x]
    BY <1>1
  <2>4. 1 * SumOver(zero, U) = 2 * SumOver(zero, U) + SumOver(zero, U)
    BY <1>1, <2>3, SumLinear
  <2>5. SumOver(zero, U) \in Int /\ SumOver(f, U) \in Int /\ SumOver(g, U) \in Int
    BY <1>1, <2>1, SumInt
  <2>6. SumOver(zero, U) = 0
    BY <2>4, <2>5
  <2> QED BY <2>2, <2>5, <2>6
<1>4. f[z] \in Int /\ g[z] \in Int /\ SumOver(f, U) \in Int /\ SumOver(g, U) \in Int
  <2> HIDE DEF U
  <2> QED BY <1>1, SumInt
<1> HIDE DEF U
<1> QED BY <1>2, <1>3, <1>4

LEMMA FoldSeqIsSum ==
  ASSUME NEW s
  PROVE  FoldSeq(+, 0, s) = SumOver(s, DOMAIN s)
BY DEF FoldSeq, FoldFunction, SumOver

LEMMA Regroup ==
  ASSUME NEW a \in Int, NEW b \in Int, NEW c \in Int
  PROVE  (a * b) * c = b * (a * c) /\ a * (b * c) = b * (a * c)
OBVIOUS

(* As many ones as there are units to hand out. *)
LEMMA FirstOnes ==
  ASSUME NEW L \in Nat, NEW N \in 0..L
  PROVE  SumOver([i \in 1..L |-> IF i <= N THEN 1 ELSE 0], 1..L) = N
<1> DEFINE D == 1..L
           ones(m) == [i \in D |-> IF i <= m THEN 1 ELSE 0]
           Bad == {m \in 0..L : SumOver(ones(m), D) # m}
<1>1. IsFiniteSet(D)
  BY RangeFinite
<1>2. Bad = {}
  <2> SUFFICES ASSUME Bad # {} PROVE FALSE
    OBVIOUS
  <2>1. PICK m \in Bad : \A j \in Bad : m <= j
    <3>1. Bad \subseteq Nat
      OBVIOUS
    <3> HIDE DEF Bad
    <3> QED BY <3>1, Least
  <2>2. m \in 0..L /\ SumOver(ones(m), D) # m
    BY <2>1
  <2> DEFINE f == ones(m)
  <2>3. CASE m = 0
    <3>1. \A i \in D : f[i] = 0 /\ f[i] \in Int /\ f[i] \in Nat /\ f[i] <= 0
      BY <2>3
    <3> HIDE DEF f
    <3>2. SumOver(f, D) <= 0 * Cardinality(D) /\ Cardinality(D) \in Nat /\ SumOver(f, D) \in Nat
      <4> HIDE DEF D
      <4> QED BY <1>1, <3>1, SumBound, SumNat, FS_CardinalityType
    <3>3. SumOver(f, D) = 0
      BY <3>2
    <3> QED BY <2>2, <2>3, <3>3 DEF f
  <2>4. CASE m # 0
    <3> DEFINE n == m - 1
               g == ones(n)
    <3>1. n \in 0..L /\ n + 1 = m /\ ~(m <= n) /\ m \in D
      BY <2>2, <2>4
    <3>2. SumOver(g, D) = n
      <4>1. n \notin Bad
        <5> HIDE DEF Bad, n
        <5> QED BY <2>1, <3>1
      <4> QED BY <3>1, <4>1
    <3>3. /\ \A i \in D : f[i] \in Int /\ g[i] \in Int /\ (i # m => f[i] = g[i])
          /\ f[m] = 1 /\ g[m] = 0
      BY <2>2, <3>1
    <3>4. \A i \in D : (f[i] \in Int /\ g[i] \in Int)
      BY <3>3
    <3>5. SumOver(f, D) \in Int /\ SumOver(f, D) - f[m] = SumOver(g, D) - g[m]
      <4>1. /\ m \in D /\ (\A i \in D : i # m => f[i] = g[i]) /\ \A i \in D : f[i] \in Int
        BY <3>1, <3>3
      <4> HIDE DEF f, g, D, n, Bad, ones
      <4>2. SumOver(f, D) \in Int
        BY <1>1, <4>1, SumInt
      <4>3. SumOver(f, D) - f[m] = SumOver(g, D) - g[m]
        BY <1>1, <3>4, <4>1, SumChange
      <4> QED BY <4>2, <4>3
    <3> HIDE DEF f, g
    <3>6. SumOver(f, D) = m
      BY <2>2, <3>1, <3>2, <3>3, <3>5
    <3> QED BY <2>2, <3>6 DEF f
  <2> QED BY <2>3, <2>4
<1>3. SumOver(ones(N), D) = N
  BY <1>2
<1> QED BY <1>3


(* A sum of ones and zeros counts the ones. *)
LEMMA SumCounts ==
  ASSUME NEW S, IsFiniteSet(S), NEW T \in SUBSET S, NEW f, \A x \in S : f[x] = IF x \in T THEN 1 ELSE 0
  PROVE  SumOver(f, S) = Cardinality(T)
<1> DEFINE B == {U \in SUBSET S : SumOver(f, U) = Cardinality(U \intersect T)}
<1>1. \A U \in SUBSET S : (\A x \in U : U \ {x} \in B) => U \in B
  <2> SUFFICES ASSUME NEW U \in SUBSET S, \A x \in U : U \ {x} \in B
               PROVE  SumOver(f, U) = Cardinality(U \intersect T)
    OBVIOUS
  <2>1. IsFiniteSet(U) /\ IsFiniteSet(U \intersect T) /\ \A y \in U : f[y] \in Int
    BY FS_Subset
  <2>2. CASE U = {}
    <3>1. SumOver(f, U) = 0
      BY <2>1, <2>2, SumUnfolds
    <3> QED BY <2>2, <3>1, FS_EmptySet
  <2>3. CASE U # {}
    <3>1. PICK x \in U : TRUE
      BY <2>3
    <3> DEFINE V == U \ {x}
               c == Cardinality(V \intersect T)
    <3>2. SumOver(f, U) = f[x] + c /\ V \in SUBSET S
      <4>1. SumOver(f, U) = f[x] + SumOver(f, V)
        BY <2>1, SumRemove
      <4>2. V \in B
        OBVIOUS
      <4> QED BY <4>1, <4>2
    <3>3. CASE x \in T
      <4>1. V \intersect T = (U \intersect T) \ {x} /\ x \in U \intersect T
        BY <3>3
      <4>2. c = Cardinality(U \intersect T) - 1 /\ Cardinality(U \intersect T) \in Nat
        <5> DEFINE W == U \intersect T
        <5> HIDE DEF W
        <5>1. IsFiniteSet(W) /\ x \in W
          BY <2>1, <4>1 DEF W
        <5>2. Cardinality(W \ {x}) = Cardinality(W) - 1 /\ Cardinality(W) \in Nat
          BY <5>1, FS_RemoveElement, FS_CardinalityType
        <5> QED BY <4>1, <5>2 DEF W
      <4>3. f[x] = 1
        BY <3>3
      <4> HIDE DEF c
      <4> QED BY <3>2, <4>2, <4>3
    <3>4. CASE x \notin T
      <4>1. V \intersect T = U \intersect T
        BY <3>4
      <4>2. c = Cardinality(U \intersect T) /\ Cardinality(U \intersect T) \in Nat
        BY <2>1, <4>1, FS_CardinalityType
      <4>3. f[x] = 0
        BY <3>4
      <4> HIDE DEF c
      <4> QED BY <3>2, <4>2, <4>3
    <3> QED BY <3>3, <3>4
  <2> QED BY <2>2, <2>3
<1>2. S \in B
  <2> HIDE DEF B
  <2> QED BY <1>1, ByRemoval
<1>3. S \intersect T = T
  OBVIOUS
<1> QED BY <1>2, <1>3

(* SumLinear with its hypothesis named. *)
Balance(S, a, b, f, g, h) ==
  \A x \in S : f[x] \in Int /\ g[x] \in Int /\ h[x] \in Int /\ a * f[x] = b * g[x] + h[x]

LEMMA SumBalance ==
  ASSUME NEW S, IsFiniteSet(S), NEW a \in Int, NEW b \in Int, NEW f, NEW g, NEW h,
         Balance(S, a, b, f, g, h)
  PROVE  a * SumOver(f, S) = b * SumOver(g, S) + SumOver(h, S)
<1>1. \A x \in S : f[x] \in Int /\ g[x] \in Int /\ h[x] \in Int /\ a * f[x] = b * g[x] + h[x]
  BY DEF Balance
<1> QED BY <1>1, SumLinear

(* The sum of sums. *)
LEMMA SumPlus ==
  ASSUME NEW S, IsFiniteSet(S), NEW f, NEW g, NEW h,
         \A x \in S : f[x] \in Int /\ g[x] \in Int /\ h[x] = f[x] + g[x]
  PROVE  SumOver(h, S) = SumOver(f, S) + SumOver(g, S)
<1>1. \A x \in S : h[x] \in Int /\ f[x] \in Int /\ g[x] \in Int /\ 1 * h[x] = 1 * f[x] + g[x]
  OBVIOUS
<1>2. 1 * SumOver(h, S) = 1 * SumOver(f, S) + SumOver(g, S)
  <2> DEFINE a == 1
  <2>1. a \in Int /\ \A x \in S : h[x] \in Int /\ f[x] \in Int /\ g[x] \in Int /\ a * h[x] = a * f[x] + g[x]
    BY <1>1
  <2> HIDE DEF a
  <2>2. Balance(S, a, a, h, f, g)
    BY <2>1 DEF Balance
  <2>3. a * SumOver(h, S) = a * SumOver(f, S) + SumOver(g, S)
    BY <2>1, <2>2, SumBalance
  <2> QED BY <2>3 DEF a
<1>3. SumOver(h, S) \in Int /\ SumOver(f, S) \in Int /\ SumOver(g, S) \in Int
  BY <1>1, SumInt
<1> QED BY <1>2, <1>3

(* There are k numbers below k. *)
LEMMA UpToFinite ==
  ASSUME NEW k \in Nat
  PROVE  IsFiniteSet(0..(k - 1)) /\ Cardinality(0..(k - 1)) = k
<1>1. 0 \in Int /\ k - 1 \in Int
  OBVIOUS
<1>2. IsFiniteSet(0..(k - 1)) /\ Cardinality(0..(k - 1)) = IF 0 > k - 1 THEN 0 ELSE (k - 1) - 0 + 1
  BY <1>1, FS_Interval
<1> QED BY <1>2

(* Numbers that rank the elements of a set of n, from 0 on: k of them are  *)
(* less than k.                                                            *)
LEMMA FirstOfRanking ==
  ASSUME NEW S, IsFiniteSet(S), NEW rank \in [S -> 0..(Cardinality(S) - 1)],
         \A x, y \in S : rank[x] = rank[y] => x = y, NEW k \in 0..Cardinality(S)
  PROVE  Cardinality({x \in S : rank[x] < k}) = k
<1> DEFINE n == Cardinality(S)
           T == 0..(n - 1)
           F == {x \in S : rank[x] < k}
           K == 0..(k - 1)
           r == [x \in F |-> rank[x]]
<1>1. n \in Nat
  BY FS_CardinalityType
<1>2. rank \in Surjection(S, T)
  <2>1. rank \in Injection(S, T)
    <3> HIDE DEF T
    <3>1. rank \in [S -> T]
      BY DEF T
    <3> QED BY <3>1 DEF Injection, IsInjective
  <2>2. IsFiniteSet(T) /\ Cardinality(T) = n
    <3> HIDE DEF n
    <3> QED BY <1>1, UpToFinite
  <2> HIDE DEF T
  <2> QED BY <2>1, <2>2, FS_Injection
<1>3. r \in [F -> K] /\ (\A x, y \in F : r[x] = r[y] => x = y)
  <2>1. \A x \in F : rank[x] \in K
    BY <1>1
  <2> QED BY <2>1
<1>4. ASSUME NEW t \in K
      PROVE  \E x \in F : r[x] = t
  <2>1. t \in T /\ t < k
    BY <1>1
  <2>2. PICK x \in S : rank[x] = t
    <3> HIDE DEF T
    <3> QED BY <1>2, <2>1 DEF Surjection
  <2>3. x \in F
    BY <2>1, <2>2
  <2> QED BY <2>2, <2>3
<1>5. IsFiniteSet(K) /\ Cardinality(K) = k
  <2>1. k \in Nat
    BY <1>1
  <2> QED BY <2>1, UpToFinite
<1> HIDE DEF r, F, K
<1>6. r \in Injection(F, K) /\ r \in Surjection(F, K)
  BY <1>3, <1>4 DEF Injection, IsInjective, Surjection
<1>7. Cardinality(F) = Cardinality(K)
  BY <1>5, <1>6, FS_Injection
<1> QED BY <1>5, <1>7 DEF F

(* Sums of the first k values, step by step. *)
LEMMA SumUpTo ==
  ASSUME NEW n \in Nat, NEW f, \A i \in 1..n : f[i] \in Int
  PROVE  /\ SumOver(f, 1..0) = 0
         /\ \A k \in 0..n : SumOver(f, 1..k) \in Int
         /\ \A k \in 1..n : SumOver(f, 1..k) = SumOver(f, 1..(k - 1)) + f[k]
<1>1. ASSUME NEW k \in 0..n
      PROVE  IsFiniteSet(1..k) /\ \A i \in 1..k : f[i] \in Int
  <2>1. k \in Nat /\ 1..k \subseteq 1..n
    OBVIOUS
  <2> QED BY <2>1, RangeFinite
<1>2. ASSUME NEW k \in 0..n
      PROVE  SumOver(f, 1..k) \in Int
  BY <1>1, SumInt
<1>3. SumOver(f, 1..0) = 0
  <2>1. 1..0 = {}
    OBVIOUS
  <2> QED BY <2>1, SumUnfolds, FS_EmptySet
<1>4. ASSUME NEW k \in 1..n
      PROVE  SumOver(f, 1..k) = SumOver(f, 1..(k - 1)) + f[k]
  <2>1. k \in 0..n /\ k - 1 \in 0..n /\ k \in 1..k /\ (1..k) \ {k} = 1..(k - 1)
    OBVIOUS
  <2>2. IsFiniteSet(1..k) /\ \A i \in 1..k : f[i] \in Int
    BY <1>1, <2>1
  <2>3. SumOver(f, 1..k) = f[k] + SumOver(f, (1..k) \ {k})
    BY <2>1, <2>2, SumRemove
  <2>4. SumOver(f, 1..(k - 1)) \in Int /\ f[k] \in Int
    BY <1>2, <2>1
  <2>5. SumOver(f, 1..k) = f[k] + SumOver(f, 1..(k - 1))
    BY <2>1, <2>3
  <2> DEFINE b == SumOver(f, 1..(k - 1))
  <2> HIDE DEF b
  <2>6. SumOver(f, 1..k) = f[k] + b /\ b \in Int
    BY <2>4, <2>5 DEF b
  <2>7. SumOver(f, 1..k) = b + f[k]
    BY <2>4, <2>6
  <2> QED BY <2>7 DEF b
<1> QED BY <1>2, <1>3, <1>4

================================================================================
